----------------------------- MODULE Divergences -----------------------------
(***************************************************************************)
(* What comments of the source say and the code does not keep, beside the  *)
(* statements that runs of their own refute.  The instance that refutes    *)
(* each one is its MC module with MaxCut = 2, MaxEdits = 3, MaxGroups = 4, *)
(* MaxHunks = 1, MaxStrokes = 0 and the moves given here, unless it says   *)
(* otherwise; the README describes the counterexamples.                    *)
(***************************************************************************)
EXTENDS ReviewProperties

\* Without pastes no byte stands twice in the document, so taking back "the author's
\* most recent surviving action" (session.go:548) never brings back text that is
\* there already.  MCHistory, {"erase", "undo", "redo", "decide", "clear"},
\* MaxEdits = 2, MaxGroups = 6: undo after a cleared deletion restores it again.
NoByteTwice == Cardinality(ToSet(doc)) = Len(doc)

\* Between handlers, what one author put in a change set is in effect as a whole or
\* not at all: "A half-reversed group leaves the document in a state nobody
\* created" (session.go:626).  MCAction, {"type", "action", "undo", "diff"},
\* MaxStrokes = 2: the undo after a refused one takes back what that one put back.
WholeGroups ==
    work = Idle =>
        LET live == InEffect(journal)
            edits == {s \in Seqs(journal) : OpAt(journal, s).kind = "edit"}
        IN  \A s, t \in edits : /\ OpAt(journal, s).group = OpAt(journal, t).group
                               /\ OpAt(journal, s).author = OpAt(journal, t).author
                               => live[s] = live[t]

\* A hunk placed from version 0 hits what was read, op 0 a deletion or not: "If it
\* is restoring bytes this point recorded, the record decides; otherwise gravity
\* does" (session.go:490).  MCHistory, {"type", "erase", "undo", "diff"}, MaxGroups = 5:
\* an edit's undoes of 0 passes for the reversal of op 0.
HunkFromOriginHits ==
    /\ work.on = "diff" /\ work.base = 0
    /\ UndoneInOrder(journal, 0) /\ RecordsSince(0)
    => HitsWhatWasRead

\* A hunk hits what was read whatever was undone since, as long as no undo reaches
\* behind its base: "Only an ordinary edit still in effect can destroy it; a reversal
\* composes with its target to nothing" (session.go:381).  MCHistory, {"type", "erase",
\* "undo", "diff"}, MaxEdits = 4, MaxGroups = 5: an undo that is out of order leaves a
\* range wider than it was, and nothing refuses it.
HunkOverUndoHits ==
    work.on = "diff" /\ WindowClosed(work.base) /\ ZeroIsNoAnchor(work.base) => HitsWhatWasRead

\* Text put back by excluding its deletion stands where it stood: "Its deletion is
\* put back where the inserted run leaves it, or at the edit's rebased position"
\* (project.go:120).  MCCompose, {"type", "erase", "decide"}: that position is one
\* of the whole document and used in the composition.
ComposedInOrder == Deciding => \A p \in Policies : InOrder(Comp(p))

\* A proposed set leaves the pending list only when "every agent piece [is] gone.
\* There is nothing left in the text to agree to" (groups.go:317).  MCCompose,
\* {"type", "erase", "diff"}: a set whose text all stands is called invalid.
PendingWhileTextRemains ==
    Deciding => \A g \in Proposed(journal, decided) :
        (\E s \in Members(journal, g) : ToSet(doc) \cap Owned(OpAt(journal, s)) # {})
          => g \in Pending(journal, doc, decided)

\* Every decision is about a set some op belongs to: "Only record or mark a set this
\* call actually opened" (control.go:1459).  MCPaste, {"diff"}: a diff whose hunks
\* all joined older sets marks the newest number, with no members.
DecisionsNameSets == DOMAIN decided \subseteq {OpAt(journal, s).group : s \in Seqs(journal)}
=============================================================================
