-------------------------- MODULE ReviewProperties ---------------------------
(***************************************************************************)
(* What the review layer promises: which text a composition shows, what a  *)
(* save writes, and what decisions and restarts leave alone.               *)
(***************************************************************************)
EXTENDS PieceProperties

Comp(p) == Project(journal, doc, decided, p)
CompAfter(p) == Project(journal', doc', decided', p)
Deciding == work = Idle /\ decided # NoDecisions

\* The bytes a composition owes its reader: those of the file and of the edits
\* it includes, less the ones such an edit deleted.
Owed(p) ==
    LET in == {OpAt(journal, s) : s \in Kept(journal, doc, decided, p)}
    IN  (ToSet(Base) \cup UNION {ToSet(o.ins) : o \in in}) \ UNION {ToSet(o.del) : o \in in}

\* No composition shows text of a change set it excludes, except the newlines
\* of a run that later text was written against, and none shows a byte twice.
ExcludedTextIsGone ==
    Deciding => \A p \in Policies :
        /\ \A b \in ToSet(Comp(p)) \ Owed(p) : b.c = NL
        /\ Cardinality(ToSet(Comp(p))) = Len(Comp(p))

\* A later edit still in effect removed the text on both sides of what o deleted.
SurroundingsGone(o) ==
    \E s \in LiveEdits(journal) : /\ s > o.seq
                                  /\ Rebase(SubSeq(journal, 1, s), o.pos, o.pos, o.seq + 1).ok
                                  /\ ~Rebase(SubSeq(journal, 1, s + 1), o.pos, o.pos, o.seq + 1).ok

\* A composition shows all the text of the sets it includes: taking other sets
\* out puts back what only they had removed, unless a later edit removed the
\* text around it as well.
AgreedTextIsKept ==
    Deciding => \A p \in Policies : \A b \in Owed(p) \ ToSet(Comp(p)) :
        \E s \in LiveEdits(journal) : b \in ToSet(OpAt(journal, s).del)
                                     /\ SurroundingsGone(OpAt(journal, s))

InOrder(comp) == \A d \in {DocAt(v) : v \in 0 .. Version} : SameOrder(comp, d)

\* What a policy leaves out.
Excluded(p) == LiveEdits(journal) \ Kept(journal, doc, decided, p)

\* The deletions a policy puts back have text of their own set to stand at, but
\* for the newest.
Anchored(p) ==
    LET out == Excluded(p)
    IN  \A s \in out : \/ DelLen(OpAt(journal, s)) = 0
                       \/ Owned(OpAt(journal, s)) \cap ToSet(doc) # {}
                       \/ \A t \in out : t <= s

\* A deletion that replaced its text is put back in its place, however many other
\* sets are left out and wherever they are.
AnchoredInOrder == Deciding => \A p \in Policies : Anchored(p) => InOrder(Comp(p))

\* A save writes what the editor would show with every proposal applied, and
\* leaves nothing on screen that is not on disk.
SaveWritesWhatWasShown ==
    [][disk' # disk => /\ disk'.text = Comp("AcceptedAndProposedApplied")
                       /\ disk'.text = CompAfter("AcceptedAndProposed")]_vars

\* A save that did not write agrees to nothing: "a write that never happened must
\* not approve the work" (file.go:1029).  Not kept: MCCompose with the bounds of
\* Divergences and {"diff", "save"}, as a PROPERTY.
ApprovedOnlyIfWritten == [][work' = Idle /\ SaveFails => decided' = decided]_vars

\* Clearing a rejected set takes out of the document what was already out of the
\* agreed text, and nothing else.
ClearKeepsAgreedText ==
    [][work.on = "reverse" /\ work.goal = "clear" /\ EndReversal =>
         LET before == Project(SubSeq(journal, 1, work.from), DocAt(work.from), decided,
                               "AcceptedOnly")
             after  == CompAfter("AcceptedOnly")
         IN  ToSet(before) = ToSet(after) /\ (InOrder(before) => before = after)]_vars

\* A person's stroke at the keyboard.
Typed == /\ Len(journal') > Len(journal) /\ work.on \in {"idle", "action"}
         /\ Last(journal').author \in Humans

\* A person's typing never takes text from a set that carries a decision, and a
\* proposed deletion stays on the pending list: what it edits around is leased.
TypingRespectsLeases ==
    [][Typed =>
         /\ \A g \in DOMAIN decided : \A s \in Members(journal, g) :
                Owned(OpAt(journal, s)) \cap ToSet(doc) \subseteq ToSet(doc')
         /\ \A g \in Pending(journal, doc, decided) :
                (\A s \in Members(journal, g) : InsLen(OpAt(journal, s)) = 0)
                  => g \in Pending(journal', doc', decided')]_vars

\* A restart changes neither the text nor what any composition shows, and the
\* next change set still gets a number no op or decision has.
RestartIsInvisible ==
    [][work' = Idle /\ Restart =>
         /\ doc' = doc
         /\ \A p \in Policies : CompAfter(p) = Comp(p)
         /\ \A g \in DOMAIN decided' \cup GroupIds(journal) : g <= group']_vars
=============================================================================
