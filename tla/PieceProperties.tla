-------------------------- MODULE PieceProperties ---------------------------
(***************************************************************************)
(* What a session promises about who wrote what and about its history.     *)
(***************************************************************************)
EXTENDS PieceSession

DocAt(v) == ReplayTo(Base, journal, v)

Bytes == [a : {Original} \cup Writers, i : Nat, c : ToSet(BaseText) \cup UNION {ToSet(t) : t \in Texts}]

Ops == [seq : Nat, author : Writers, pos : Nat, del : Seq(Bytes), ins : Seq(Bytes),
        undoes : Nat, group : Nat, kind : Kinds]

\* What the control state may be: group numbers, nesting, decisions about numbers
\* that were handed out, stores, the saved version and the handler in progress.
ControlTypes ==
    /\ group \in Nat /\ depth \in {0, 1}
    /\ DOMAIN decided \subseteq 1 .. group
    /\ \A g \in DOMAIN decided : decided[g] \in {"proposed", "rejected"}
    /\ store \in [Writers -> Nat]
    /\ disk.version \in Nat
    /\ work.on \in {"idle", "action", "diff", "reverse"}
    /\ (depth = 1) = (work # Idle)

\* The shape of every variable.
TypeOK ==
    /\ doc \in Seq(Bytes)
    /\ journal \in Seq(Ops)
    /\ disk.text \in Seq(Bytes)
    /\ ControlTypes

-----------------------------------------------------------------------------
(* Attribution *)

\* Ops are numbered in order, belong to a change set that was opened, and a
\* reversal names an earlier op of the same author and the opposite sense, which
\* is what lets the walk from an op to its reversers end.
JournalWellFormed ==
    \A s \in Seqs(journal) :
        LET o == OpAt(journal, s) IN
        /\ o.seq = s
        /\ o.group \in 1 .. group
        /\ o.kind # "edit" => /\ o.undoes \in 0 .. (s - 1)
                              /\ (o.kind = "redo") = (OpAt(journal, o.undoes).kind = "undo")
                              /\ o.author = OpAt(journal, o.undoes).author

\* The edits of a change set, amendments that join it later included, are all by
\* one author: a set has an author to ask, and to revert.
OneAuthorPerSet ==
    \A s, t \in Seqs(journal) :
        /\ OpAt(journal, s).kind = "edit" /\ OpAt(journal, t).kind = "edit"
        /\ OpAt(journal, s).group = OpAt(journal, t).group
        => OpAt(journal, s).author = OpAt(journal, t).author

\* Nothing a person typed or sent is ever a proposal awaiting their own decision.
ProposedByAgents ==
    \A s \in Seqs(journal) :
        /\ OpAt(journal, s).kind = "edit"
        /\ StateOf(decided, OpAt(journal, s).group) = "proposed"
        => OpAt(journal, s).author \in Agents

\* The journal is append-only: no handler, failed ones and restarts included,
\* removes or rewrites an op, so an offset recorded against an old version stays
\* one that can be carried forward.
JournalOnlyGrows ==
    [][/\ Len(journal) <= Len(journal')
       /\ \A s \in Seqs(journal) : OpAt(journal', s) = OpAt(journal, s)]_vars

-----------------------------------------------------------------------------
(* History *)

\* Op s names exactly the bytes it took out of the document it was applied to: "The
\* removed pieces are discarded because a well-formed op already records them in Del"
\* (oplog.go:93).
Records(s) ==
    LET o == OpAt(journal, s)
        d == DocAt(s)
    IN  o.pos + DelLen(o) <= Len(d) /\ SubSeq(d, o.pos + 1, o.pos + DelLen(o)) = o.del

RecordsSince(v) == \A s \in v .. (Version - 1) : Records(s)

\* Every op does, a reversal placed by rebasing included.
RecordsWhatItRemoves == RecordsSince(0)

\* The reversals in effect since version v take back what was done since, newest first:
\* between an op and the reversal that takes it back, everything else is taken back as
\* well, and nothing else reversed that op.
UndoneInOrder(j, v) ==
    LET live == InEffect(j)
        takes(r) == OpAt(j, r).kind # "edit" /\ live[r]
    IN  \A r \in v .. (Len(j) - 1) : takes(r) =>
            LET s == OpAt(j, r).undoes IN
            /\ s >= v
            /\ \A k \in (s + 1) .. (r - 1) :
                  /\ OpAt(j, k).kind # "edit" => OpAt(j, k).undoes # s
                  /\ IF takes(k) THEN OpAt(j, k).undoes > s
                     ELSE \E q \in (k + 1) .. (r - 1) : takes(q) /\ OpAt(j, q).undoes = k

\* Every edit records what it removes, a hunk carried over any history included; so does
\* an undo or redo, whatever stays in effect of what was written since its target, as
\* long as what does not was undone in order by ops that recorded what they removed.
RecordsInOrder ==
    \A s \in Seqs(journal) :
        LET t == OpAt(journal, s).undoes + 1
        IN  (\/ OpAt(journal, s).kind = "edit"
             \/ UndoneInOrder(SubSeq(journal, 1, s), t) /\ \A r \in t .. (s - 1) : Records(r))
            => Records(s)

Copies(b, d) == Cardinality({k \in DOMAIN d : d[k] = b})

\* How often the ops of S put byte b in, and how often they took it out.
PutIn(b, j, S)  == MapThenSumSet(LAMBDA s : Copies(b, OpAt(j, s).ins), S)
CutOut(b, j, S) == MapThenSumSet(LAMBDA s : Copies(b, OpAt(j, s).del), S)

\* No op is held out, or brought back, by two reversals in effect at once.
ReversedOnce ==
    LET live == InEffect(journal)
    IN  \A s \in Seqs(journal) : \A q, r \in LiveReversers(journal, live, s) : q = r

\* Every byte is in the document as often as the file and the edits in effect put
\* it there and did not take it out: undo, redo, clear and revert compose to that
\* whatever other authors did in between, until a reversal removes other bytes than
\* it records or a set that was cleared is undone or redone as well.
CopiesAddUp ==
    RecordsWhatItRemoves /\ ReversedOnce =>
    LET live == LiveEdits(journal)
        all  == ToSet(Base) \cup ToSet(doc) \cup UNION {ToSet(OpAt(journal, s).ins) : s \in live}
    IN  \A b \in all : Copies(b, doc) = Copies(b, Base) + PutIn(b, journal, live) - CutOut(b, journal, live)

StandsIn(d, run) == \E k \in 0 .. (Len(d) - Len(run)) : SubSeq(d, k + 1, k + Len(run)) = run

\* The bytes two texts share stand in the same order in both.
SameOrder(d, e) == SelectSeq(d, LAMBDA b : b \in ToSet(e)) = SelectSeq(e, LAMBDA b : b \in ToSet(d))

\* Two bytes never change their order: "the user presses undo and their text comes
\* back scrambled rather than restored" (session.go:626) is what must not happen.
OrderStable == \A v \in 0 .. (Version - 1) : SameOrder(doc, DocAt(v))

\* While no deletion is in effect, text that undo or redo brings back stands where it
\* stood relative to all the text that is there, deletions since undone included.
UncutOrderStable == (\A s \in LiveEdits(journal) : DelLen(OpAt(journal, s)) = 0) => OrderStable

\* Taking back a set of reversals, newest first, the way rollback does.
TakeBack(applied) ==
    LET Step(o, acc) ==
            LET inv == RebasedInverse(acc.j, acc.d, o)
                op  == [inv.op EXCEPT !.seq = Len(acc.j), !.group = group]
            IN  IF o.seq \notin applied THEN acc
                ELSE IF acc.ok /\ inv.ok
                THEN [j |-> Append(acc.j, op), d |-> Apply(acc.d, op), ok |-> TRUE]
                ELSE [acc EXCEPT !.ok = FALSE]
    IN  FoldRight(Step, journal, [j |-> journal, d |-> doc, ok |-> TRUE])

\* At every point of a reversal what was applied so far can be taken back to the
\* document the reversal found, so a refused undo leaves the text as it was and a
\* redo straight after an undo restores it.
CanTakeBack ==
    work.on = "reverse" /\ RecordsSince(work.from) =>
        LET t == TakeBack(work.applied) IN t.ok /\ t.d = DocAt(work.from)

\* A reversal that succeeds leaves none of the ops it was asked to take back in
\* effect, and one that is refused leaves the text it found.
AllOrNothing ==
    [][work.on = "reverse" /\ (EndReversal \/ NextReversal \/ EndFailed) =>
         IF work.failed THEN RecordsSince(work.from) => doc = DocAt(work.from)
         ELSE \A s \in Seqs(journal) :
                 LET o == OpAt(journal, s)
                 IN  /\ o.group = work.group /\ o.author \in work.keep
                     /\ o.kind = (IF work.goal = "redo" THEN "undo" ELSE "edit")
                     => ~InEffect(journal)[s]]_vars

\* What a placed hunk of the open diff would remove, for every range it may name.
Removes(r) == Placement(work.by, work.base, r[1], r[2], <<>>)
Read(r) == SubSeq(DocAt(work.base), r[1] + 1, r[2])

\* No undo or redo since version v reverses an op from before it.
WindowClosed(v) ==
    \A s \in v .. (Version - 1) : OpAt(journal, s).kind # "edit" => OpAt(journal, s).undoes >= v

\* Op 0 is not a deletion that a window starting at v walks over: its number is
\* also what an ordinary edit carries as undoes.
ZeroIsNoAnchor(v) == v > 0 \/ journal = <<>> \/ DelLen(OpAt(journal, 0)) = 0

\* A hunk never removes a byte that its author did not read: "Only an ordinary
\* edit still in effect can destroy it; a reversal composes with its target to
\* nothing" (session.go:381), so a placed range still covers the same bytes.
HunkStaysInside ==
    work.on = "diff" /\ ZeroIsNoAnchor(work.base) => \A r \in Ranges(Len(DocAt(work.base))) :
        Removes(r).why # "stale" => ToSet(Removes(r).del) \subseteq ToSet(Read(r))

HitsWhatWasRead ==
    \A r \in Ranges(Len(DocAt(work.base))) :
        Removes(r).why # "stale" => Removes(r).del = Read(r)

\* A hunk that is placed replaces exactly the bytes its author read, whatever was
\* edited, undone and redone since, as long as what was undone since was also
\* done since.
HunkHitsWhatWasRead ==
    /\ work.on = "diff"
    /\ UndoneInOrder(journal, work.base) /\ RecordsSince(work.base) /\ ZeroIsNoAnchor(work.base)
    => HitsWhatWasRead

\* Every op of the journal changes something: a hunk that is no change "must not
\* open a change set or join one" (session.go:269).
EveryOpChanges == \A s \in Seqs(journal) : DelLen(OpAt(journal, s)) + InsLen(OpAt(journal, s)) > 0

\* A range is refused as stale only over an edit that is still in effect and that
\* broke it, or because it is not all there: what was both done and undone since
\* the author read counts for nothing.
StaleIsReal ==
    work.on = "diff" /\ EveryOpChanges /\ WindowClosed(work.base) => \A r \in Ranges(Len(DocAt(work.base))) :
        /\ r[1] < r[2]
        /\ Removes(r).why = "stale"
        /\ StandsIn(doc, Read(r))
        => \E s \in LiveEdits(journal) : s >= work.base /\ ~StandsIn(DocAt(s + 1), Read(r))
=============================================================================
