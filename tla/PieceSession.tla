---------------------------- MODULE PieceSession ----------------------------
(***************************************************************************)
(* A piecetable.Session behind editor.File and the control host: the one   *)
(* journal that the person at the keyboard and the agents write to, with   *)
(* undo and redo, agents' diffs against stale versions, and the review     *)
(* decisions that gate what is saved.                                      *)
(*                                                                         *)
(* Everything here runs on the editor's event thread, so handlers do not   *)
(* interleave.  A handler that loops (a diff over its hunks, a reversal    *)
(* over its members) is modelled one iteration at a time: work names the   *)
(* handler in progress with its locals, and while it is not Idle only that *)
(* handler's own steps are enabled.                                        *)
(***************************************************************************)
EXTENDS Projection

CONSTANTS
    Original,    \* the store of the file as loaded
    Humans,      \* authors whose edits are agreed as they are typed
    Agents,      \* authors whose diffs become proposals
    Differs,     \* authors who send diffs: agents, and people attached elsewhere
    BaseText,    \* the characters of the file as loaded
    Texts,       \* the character sequences an edit may insert
    MaxCut,      \* bound: bytes one deletion, clip or hunk may cover
    MaxEdits,    \* bound: no edit starts once the journal holds this many edits
    MaxGroups,   \* bound: no handler that opens a group starts once this many groups were opened
    MaxHunks,    \* bound: hunks of one diff
    MaxStrokes,  \* bound: edits of one keyboard action
    Moves        \* the operations an instance exercises

MoveNames == {"type", "erase", "paste", "action", "undo", "redo", "diff",
              "decide", "clear", "revert", "save", "restart"}

ASSUME AuthorsAssumption ==
    /\ Humans \cap Agents = {}
    /\ Original \notin Humans \cup Agents
    /\ Differs \subseteq Humans \cup Agents
ASSUME TextsAssumption == \A t \in Texts \cup {BaseText} : t \in Seq(ToSet(t))
ASSUME BoundsAssumption ==
    /\ {MaxCut, MaxEdits, MaxGroups, MaxHunks, MaxStrokes} \subseteq Nat
    /\ Moves \subseteq MoveNames

VARIABLES
    doc,      \* the piece table's content
    journal,  \* every op ever applied, oldest first
    group,    \* the newest change set number handed out
    depth,    \* how many Begins are open
    decided,  \* groupState: the change sets that carry a decision
    store,    \* per author, how many bytes its store holds
    disk,     \* what the last save wrote, and the version it wrote
    work      \* the handler in progress

vars == <<doc, journal, group, depth, decided, store, disk, work>>

Writers == Humans \cup Agents
Idle == [on |-> "idle"]
Version == Len(journal)

Base == [i \in 1 .. Len(BaseText) |-> [a |-> Original, i |-> i - 1, c |-> BaseText[i]]]

\* The bytes a text occupies once appended to an author's store.
Appended(a, text) ==
    [i \in 1 .. Len(text) |-> [a |-> a, i |-> store[a] + i - 1, c |-> text[i]]]

Chars(bytes) == [i \in 1 .. Len(bytes) |-> bytes[i].c]

Edit(a, pos, del, ins) ==
    [seq |-> Version, author |-> a, pos |-> pos, del |-> del, ins |-> ins,
     undoes |-> 0, group |-> group, kind |-> "edit"]

Free(move) == work = Idle /\ move \in Moves
Ready(move) == Free(move) /\ group < MaxGroups
Room == Cardinality({s \in Seqs(journal) : OpAt(journal, s).kind = "edit"}) < MaxEdits

Init ==
    /\ doc = Base
    /\ journal = <<>>
    /\ group = 0
    /\ depth = 0
    /\ decided = NoDecisions
    /\ store = [a \in Writers |-> 0]
    /\ disk = [text |-> Base, version |-> 0]
    /\ work = Idle

\* commitInto: join an existing change set, or the current one, which is a new
\* one unless a Begin is open.
Commit(o, join) ==
    LET fresh == IF depth = 0 THEN group + 1 ELSE group
        op == [o EXCEPT !.seq = Version, !.group = IF join # 0 THEN join ELSE fresh]
    IN  /\ doc' = Apply(doc, op)
        /\ journal' = Append(journal, op)
        /\ group' = IF join # 0 THEN group ELSE fresh

Begin == depth' = depth + 1 /\ group' = IF depth = 0 THEN group + 1 ELSE group

End == depth' = depth - 1

-----------------------------------------------------------------------------
(* The keyboard: one stroke is a handler of its own or part of an action     *)
(* (several cursors, a move of lines) that opened an undo transaction.       *)

Typist(h, move) ==
    /\ Room
    /\ \/ Ready(move) /\ UNCHANGED work
       \/ /\ work.on = "action" /\ work.by = h /\ work.left > 0 /\ move \in Moves
          /\ work' = [work EXCEPT !.left = @ - 1]

Insert(h) == \E pos \in 0 .. Len(doc), text \in Texts :
    /\ Typist(h, "type")
    /\ ~Leased(journal, doc, decided, pos, 0)
    /\ Commit(Edit(h, pos, <<>>, Appended(h, text)), 0)
    /\ store' = [store EXCEPT ![h] = @ + Len(text)]
    /\ UNCHANGED <<depth, decided, disk>>

Delete(h) == \E pos \in 0 .. (Len(doc) - 1), len \in 1 .. MaxCut :
    /\ Typist(h, "erase")
    /\ pos + len <= Len(doc)
    /\ ~Leased(journal, doc, decided, pos, len)
    /\ Commit(Edit(h, pos, SubSeq(doc, pos + 1, pos + len), <<>>), 0)
    /\ UNCHANGED <<depth, decided, store, disk>>

\* The ranges a document of n bytes has, up to the bound.
Ranges(n) == {r \in (0 .. n) \X (0 .. n) : r[1] <= r[2] /\ r[2] - r[1] <= MaxCut}

\* Snapshot: what one selection may have captured, now or at any version before,
\* whether or not the text is still there. A process that restarts has no clips;
\* what they held stays in reach here.
Captured == UNION {{SubSeq(d, r[1] + 1, r[2]) : r \in Ranges(Len(d))} :
                       d \in {ReplayTo(Base, journal, v) : v \in 0 .. Version}}

\* InsertPieces: the captured bytes themselves, not a copy, so the text keeps
\* the author who wrote it.
Paste(h) ==
    /\ Typist(h, "paste")
    /\ \E pos \in 0 .. Len(doc), clip \in Captured \ {<<>>} :
         /\ ~Leased(journal, doc, decided, pos, 0)
         /\ Commit(Edit(h, pos, <<>>, clip), 0)
    /\ UNCHANGED <<depth, decided, store, disk>>

BeginAction(h) ==
    /\ Ready("action") /\ Room
    /\ Begin
    /\ work' = [on |-> "action", by |-> h, left |-> MaxStrokes]
    /\ UNCHANGED <<doc, journal, decided, store, disk>>

EndAction ==
    /\ work.on = "action"
    /\ End
    /\ work' = Idle
    /\ UNCHANGED <<doc, journal, group, decided, store, disk>>

-----------------------------------------------------------------------------
(* Reversals: undo, redo, clearing a rejected set, reverting an author       *)

\* Mutant: only the newest member of the set is taken back.
ReverseNewestOnly(g, want, keep) ==
    LET live == InEffect(journal)
        members == {s \in Seqs(journal) : /\ OpAt(journal, s).group = g /\ live[s]
                                          /\ OpAt(journal, s).author \in keep
                                          /\ Reversible(OpAt(journal, s), want)}
    IN  IF members = {} THEN {} ELSE {Max(members)}

\* The live ops of a group that a reversal of kind want takes back; keep is the
\* set of authors whose ops count.
ReverseMembers(g, want, keep) ==
    LET live == InEffect(journal)
    IN  {s \in Seqs(journal) : /\ OpAt(journal, s).group = g /\ live[s]
                               /\ OpAt(journal, s).author \in keep
                               /\ Reversible(OpAt(journal, s), want)}

\* goal tells who asked: undo and redo end with the group, clear drops the
\* group's decision, revert goes on with the sets in queue.  todo and applied are
\* worked off newest first.
Reversal(goal, g, want, keep, queue) ==
    [on |-> "reverse", goal |-> goal, group |-> g, keep |-> keep, queue |-> queue,
     todo |-> ReverseMembers(g, want, keep), applied |-> {}, failed |-> FALSE,
     from |-> Version]

StartReversal(goal, g, want, keep, queue) ==
    /\ Begin
    /\ work' = Reversal(goal, g, want, keep, queue)
    /\ UNCHANGED <<doc, journal, decided, store, disk>>

\* reverseLatest: the whole group of the author's newest op the key applies to.
UndoRedo(h, want) ==
    LET live == InEffect(journal)
        hits == {s \in Seqs(journal) : /\ OpAt(journal, s).author = h /\ live[s]
                                       /\ Reversible(OpAt(journal, s), want)}
    IN  /\ Ready(want)
        /\ hits # {}
        /\ StartReversal(want, OpAt(journal, Max(hits)).group, want, {h}, {})

Newest(seqs) == OpAt(journal, Max(seqs))
Older(seqs) == seqs \ {Max(seqs)}

\* One pass of the reversal's loop: place the newest remaining member's inverse.
ReverseMember ==
    /\ work.on = "reverse" /\ ~work.failed /\ work.todo # {}
    /\ LET r == RebasedInverse(journal, doc, Newest(work.todo))
       IN  /\ r.ok
           /\ Commit(r.op, 0)
           /\ work' = [work EXCEPT !.todo = Older(@), !.applied = @ \cup {Version}]
    /\ UNCHANGED <<depth, decided, store, disk>>

\* A member that cannot be placed fails the whole group.
ReverseBlocked ==
    /\ work.on = "reverse" /\ ~work.failed /\ work.todo # {}
    /\ ~RebasedInverse(journal, doc, Newest(work.todo)).ok
    /\ work' = [work EXCEPT !.failed = TRUE]
    /\ UNCHANGED <<doc, journal, group, depth, decided, store, disk>>

\* rollback: take the committed inverses back, newest first, giving up at one
\* that cannot be placed.
RollbackMember ==
    /\ work.on = "reverse" /\ work.failed /\ work.applied # {}
    /\ LET r == RebasedInverse(journal, doc, Newest(work.applied))
       IN  IF r.ok
           THEN Commit(r.op, 0) /\ work' = [work EXCEPT !.applied = Older(@)]
           ELSE work' = [work EXCEPT !.applied = {}] /\ UNCHANGED <<doc, journal, group>>
    /\ UNCHANGED <<depth, decided, store, disk>>

\* Mutant: a refused reversal ends without its rollback.
EndFailedHalfway ==
    /\ work.on = "reverse" /\ work.failed
    /\ End
    /\ work' = Idle
    /\ UNCHANGED <<doc, journal, group, decided, store, disk>>

EndFailed ==
    /\ work.on = "reverse" /\ work.failed /\ work.applied = {}
    /\ End
    /\ work' = Idle
    /\ UNCHANGED <<doc, journal, group, decided, store, disk>>

\* Success: clear and revert drop the decision of a set nothing is left of.
Settled ==
    IF \/ work.goal = "clear" /\ work.applied # {}
       \/ work.goal = "revert" /\ Members(journal, work.group) = {}
    THEN Mark(decided, work.group, "accepted") ELSE decided

EndReversal ==
    /\ work.on = "reverse" /\ ~work.failed /\ work.todo = {} /\ work.queue = {}
    /\ decided' = Settled
    /\ End
    /\ work' = Idle
    /\ UNCHANGED <<doc, journal, group, store, disk>>

\* revert turns to the author's next older set: one transaction ends, another begins.
NextReversal ==
    /\ work.on = "reverse" /\ ~work.failed /\ work.todo = {} /\ work.queue # {}
    /\ decided' = Settled
    /\ work' = Reversal("revert", Newest(work.queue).group, "undo", work.keep, Older(work.queue))
    /\ group' = group + 1
    /\ UNCHANGED <<doc, journal, depth, store, disk>>

-----------------------------------------------------------------------------
(* Diffs: hunks against an older version, each placed or refused on its own  *)

BeginDiff(a) == \E base \in 0 .. Version :
    /\ Ready("diff") /\ Room
    /\ Begin
    /\ work' = [on |-> "diff", by |-> a, base |-> base, left |-> MaxHunks, from |-> Version]
    /\ UNCHANGED <<doc, journal, decided, store, disk>>

\* Mutant: a hunk amends whichever single proposal it lands on.
OwnAny(a, runs) == runs

\* The proposals among runs that a hunk of a's would amend.
Own(a, runs) == {g \in runs : GroupAuthor(journal, g) = a}

\* Why text may not be written over the span r, which the proposals runs hold.
Verdict(a, r, runs, text) ==
    CASE ~r.ok -> "stale"
      [] r.ok /\ r.lo < r.hi /\ text # <<>> /\ Chars(SubSeq(doc, r.lo + 1, r.hi)) = text -> "same"
      [] OTHER ->
           IF RejectedLeases(journal, doc, decided, r.lo, r.hi - r.lo) # {} THEN "rejected"
           ELSE IF Own(a, runs) # {} /\ Cardinality(runs) > 1 THEN "mixed" ELSE "lands"

Placed(a, r, runs, text) ==
    [why  |-> Verdict(a, r, runs, text), pos |-> r.lo, del |-> SubSeq(doc, r.lo + 1, r.hi),
     join |-> IF Own(a, runs) = {} THEN 0 ELSE CHOOSE g \in Own(a, runs) : TRUE]

\* What ApplyDiff does with one hunk: the span it covers today, the set it amends
\* if any, and why it may not be written.
Placement(a, base, start, end, text) ==
    LET At(r) == Placed(a, r, ProposedLeases(journal, doc, decided, r.lo, r.hi - r.lo), text)
    IN  At(Rebase(journal, start, end, base))

Write(a, p, text) ==
    IF p.why = "lands"
    THEN /\ Commit(Edit(a, p.pos, p.del, Appended(a, text)), p.join)
         /\ store' = [store EXCEPT ![a] = @ + Len(text)]
    ELSE UNCHANGED <<doc, journal, group, store>>

Hunk ==
    /\ work.on = "diff" /\ work.left > 0 /\ Room
    /\ work' = [work EXCEPT !.left = @ - 1]
    /\ \E r \in Ranges(LengthAt(Base, journal, work.base)), text \in Texts \cup {<<>>} :
         /\ r[1] < r[2] \/ text # <<>>
         /\ Write(work.by, Placement(work.by, work.base, r[1], r[2], text), text)
    /\ UNCHANGED <<depth, decided, disk>>

\* Mutant: whoever sent the diff.
ProposesAlways == Version > work.from

\* What the diff in progress committed needs a decision.
Proposes == work.by \in Agents /\ Version > work.from

\* An agent's diff that committed anything is marked as a proposal; the mark goes
\* to the newest set opened, which holds nothing if every hunk amended an older one.
EndDiff ==
    /\ work.on = "diff"
    /\ End
    /\ decided' = IF Proposes THEN Mark(decided, group, "proposed") ELSE decided
    /\ work' = Idle
    /\ UNCHANGED <<doc, journal, group, store, disk>>

-----------------------------------------------------------------------------
(* Decisions *)

Accept == \E g \in DOMAIN decided :
    /\ Free("decide")
    /\ decided' = Mark(decided, g, "accepted")
    /\ UNCHANGED <<doc, journal, group, depth, store, disk, work>>

Reject == \E g \in GroupIds(journal) :
    /\ Free("decide")
    /\ StateOf(decided, g) # "rejected"
    /\ decided' = Mark(decided, g, "rejected")
    /\ UNCHANGED <<doc, journal, group, depth, store, disk, work>>

\* Clearing a rejected set reverses it, whoever wrote it; a set with nothing live
\* only loses its decision, and a superseded proposal is rejected.
ClearReversal == \E g \in DOMAIN decided :
    /\ Ready("clear")
    /\ decided[g] = "rejected" /\ Members(journal, g) # {}
    /\ StartReversal("clear", g, "undo", Writers, {})

ClearMark == \E g \in DOMAIN decided :
    /\ Free("clear")
    /\ \/ /\ decided[g] = "rejected" /\ Members(journal, g) = {}
          /\ decided' = Mark(decided, g, "accepted")
       \/ /\ g \in Invalid(journal, doc, decided)
          /\ decided' = Mark(decided, g, "rejected")
    /\ UNCHANGED <<doc, journal, group, depth, store, disk, work>>

\* Reverse every live set of one author, newest set first: the queue holds the
\* first live edit of each.
Revert(a) ==
    LET own == {s \in LiveEdits(journal) : OpAt(journal, s).author = a}
        firsts == {s \in own : \A t \in own : OpAt(journal, t).group = OpAt(journal, s).group
                                             => s <= t}
    IN  /\ Ready("revert")
        /\ own # {}
        /\ StartReversal("revert", Newest(firsts).group, "undo", {a}, Older(firsts))

-----------------------------------------------------------------------------
(* Saving and restarting *)

\* Some byte of a set's live members shows in a composition.
Visible(comp, g) == \E s \in Members(journal, g) : ToSet(comp) \cap Owned(OpAt(journal, s)) # {}

Deletes(g) == \E s \in Members(journal, g) : DelLen(OpAt(journal, s)) > 0

\* Mutant: a save does not agree to what is pending.
AgreedNone(st) == st

\* The decisions once every pending set is agreed to.
Agreed(st) == [g \in DOMAIN st \ Pending(journal, doc, st) |-> st[g]]

\* Superseded sets whose text a save would drop though it shows in the editor.
UnsavedProposed(st) ==
    {g \in Invalid(journal, doc, st) : Visible(Project(journal, doc, st, "AcceptedAndProposed"), g)}

\* A superseded set that neither shows in the editor nor removes anything.
Spent(st, shown) ==
    {g \in Invalid(journal, doc, st) : ~Visible(shown, g) /\ ~Deletes(g)}

RejectAll(st, spent) == [g \in DOMAIN st |-> IF g \in spent THEN "rejected" ELSE st[g]]

SaveAs(st) ==
    /\ UnsavedProposed(st) = {}
    /\ disk' = [text |-> Project(journal, doc, st, "AcceptedOnly"), version |-> Version]
    /\ decided' = RejectAll(st, Spent(st, Project(journal, doc, st, "AcceptedAndProposed")))

\* Saving is the approval: pending sets are agreed to, the agreed text is
\* written, and superseded sets with nothing left are rejected.
Save ==
    /\ Free("save")
    /\ SaveAs(Agreed(decided))
    /\ UNCHANGED <<doc, journal, group, depth, store, work>>

\* The write itself fails after the pending sets were agreed to.
SaveFails ==
    /\ Free("save")
    /\ UnsavedProposed(Agreed(decided)) = {}
    /\ decided' = Agreed(decided)
    /\ UNCHANGED <<doc, journal, group, depth, store, disk, work>>

\* Mutant: decisions are not in the log.
RecordedNone == NoDecisions

\* The decisions the log holds: those of sets that have an editorial op.
Recorded == [g \in DOMAIN decided \cap GroupIds(journal) |-> decided[g]]

\* A new process replays the log: the ops, and the decisions it holds.
Restart ==
    /\ Free("restart")
    /\ UNCHANGED <<journal, store, disk, work>>
    /\ doc' = ReplayTo(Base, journal, Version)
    /\ group' = IF journal = <<>> THEN 0 ELSE Max({OpAt(journal, s).group : s \in Seqs(journal)})
    /\ depth' = 0
    /\ decided' = Recorded

-----------------------------------------------------------------------------
Typing == \E h \in Humans : Insert(h) \/ Delete(h) \/ Paste(h) \/ BeginAction(h)
History == \E h \in Humans : UndoRedo(h, "undo") \/ UndoRedo(h, "redo")
Diffing == \E a \in Differs : BeginDiff(a)
Reverting == \E a \in Agents : Revert(a)

Continue == EndAction \/ Hunk \/ EndDiff \/ ReverseMember \/ ReverseBlocked
              \/ RollbackMember \/ EndFailed \/ EndReversal \/ NextReversal

Next == \/ Typing \/ History \/ Diffing \/ Reverting
        \/ Accept \/ Reject \/ ClearReversal \/ ClearMark
        \/ Save \/ SaveFails \/ Restart
        \/ Continue

Spec == Init /\ [][Next]_vars
=============================================================================
