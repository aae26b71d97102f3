----------------------------- MODULE Projection -----------------------------
(***************************************************************************)
(* The review layer of internal/piecetable (groups.go, project.go), as     *)
(* operators over a session's journal j, document d and decisions st: who  *)
(* owns a byte, which change sets still have text to decide about, what    *)
(* the document reads like under a policy, and which ranges a decision     *)
(* holds as leases.                                                        *)
(*                                                                         *)
(* st maps the change sets that carry a decision to "proposed" or          *)
(* "rejected"; a set outside its domain is accepted, the default.          *)
(***************************************************************************)
EXTENDS PieceOps, FiniteSets, FiniteSetsExt, Lists

CONSTANT NL           \* the newline character

NoDecisions == [g \in {} |-> "proposed"]
StateOf(st, g) == IF g \in DOMAIN st THEN st[g] ELSE "accepted"

\* MarkGroup: accepting forgets the decision.
Mark(st, g, state) ==
    IF state = "accepted" THEN [x \in DOMAIN st \ {g} |-> st[x]]
    ELSE [x \in DOMAIN st \cup {g} |-> IF x = g THEN state ELSE st[x]]

-----------------------------------------------------------------------------
(* Change sets *)

GroupIds(j) == {OpAt(j, s).group : s \in {r \in Seqs(j) : OpAt(j, r).kind = "edit"}}
Members(j, g) == {s \in LiveEdits(j) : OpAt(j, s).group = g}
AllMembers(j, g) == {s \in Seqs(j) : OpAt(j, s).group = g}

\* The author of a set is its first editorial member's.
GroupAuthor(j, g) ==
    OpAt(j, Min({s \in AllMembers(j, g) : OpAt(j, s).kind = "edit"})).author

Proposed(j, st) == {g \in GroupIds(j) : StateOf(st, g) = "proposed"}

Owned(o) == ToSet(o.ins)

\* Maximal runs of offsets in S, as half-open spans.
SpansOf(S) ==
    {[start |-> p[1], end |-> p[2] + 1] :
        p \in {q \in S \X S : /\ q[1] <= q[2]
                              /\ (q[1] .. q[2]) \subseteq S
                              /\ q[1] - 1 \notin S
                              /\ q[2] + 1 \notin S}}

GapAt(r) == IF r.ok THEN {[start |-> r.lo, end |-> r.lo]} ELSE {}

RunsWithin(d, o, lo, hi) ==
    IF lo.ok /\ hi.ok
    THEN SpansOf({k \in lo.lo .. (hi.hi - 1) : k < Len(d) /\ d[k + 1] \in Owned(o)})
    ELSE {}

\* Where a member's text (or the gap a pure deletion left) is today: no span at
\* all when later edits have moved past it.
MemberSpans(j, d, o) ==
    LET Today(p) == Rebase(j, p, p, o.seq + 1)
    IN  IF InsLen(o) = 0 THEN GapAt(Today(o.pos))
        ELSE RunsWithin(d, o, Today(o.pos), Today(o.pos + InsLen(o)))

\* A still-proposed set none of whose live members projects into the present.
Invalid(j, d, st) ==
    {g \in Proposed(j, st) :
        /\ Members(j, g) # {}
        /\ \A s \in Members(j, g) : MemberSpans(j, d, OpAt(j, s)) = {}}

\* The sets awaiting a decision.
Pending(j, d, st) ==
    {g \in Proposed(j, st) :
        \E s \in Members(j, g) : MemberSpans(j, d, OpAt(j, s)) # {}}

-----------------------------------------------------------------------------
(* Compositions *)

Policies == {"AcceptedOnly", "AcceptedAndProposed", "AcceptedAndProposedApplied", "Annotated"}

\* Proposed sets that only remove text: the edit composition keeps showing it.
Deferred(j, st, p) ==
    IF p # "AcceptedAndProposed" THEN {}
    ELSE {g \in Proposed(j, st) :
             /\ Members(j, g) # {}
             /\ \A s \in Members(j, g) : InsLen(OpAt(j, s)) = 0}

Admits(st, g, p) ==
    CASE p = "AcceptedOnly" -> StateOf(st, g) = "accepted"
      [] p = "Annotated"    -> TRUE
      [] OTHER              -> StateOf(st, g) \in {"accepted", "proposed"}

Included(st, o, p, invalid) == Admits(st, o.group, p) /\ o.group \notin invalid

\* The live edits a composition keeps.
Kept(j, d, st, p) ==
    LET invalid  == IF p = "Annotated" THEN {} ELSE Invalid(j, d, st)
        deferred == Deferred(j, st, p)
    IN  {s \in LiveEdits(j) : /\ Included(st, OpAt(j, s), p, invalid)
                              /\ OpAt(j, s).group \notin deferred}

\* Mutant: the deleted text is not put back.
UnapplyTextOnly(j, comp, o) == Filter(comp, ToSet(comp) \ Owned(o))

\* Mutant: what the edit replaced goes back where the edit was recorded.
UnapplyAtPos(j, comp, o) == Splice(UnapplyTextOnly(j, comp, o), o.pos, 0, o.del)

\* Take one excluded edit out of a composition: drop its surviving bytes (only
\* hide the text, keeping newlines, when another edit consumed part of them) and
\* put back what it deleted where they stood, or at its rebased position.
Unapply(j, comp, o) ==
    LET at   == {k \in 1 .. Len(comp) : comp[k] \in Owned(o)}
        torn == Cardinality(at) < InsLen(o)
        rest == Filter(comp, {b \in ToSet(comp) : b \notin Owned(o) \/ (torn /\ b.c = NL)})
        r    == Rebase(j, o.pos, o.pos, o.seq + 1)
    IN  IF at # {} THEN Splice(rest, Min(at) - 1, 0, o.del)
        ELSE IF r.ok THEN Splice(rest, r.lo, 0, o.del)
        ELSE rest

\* Mutant: excluded edits are taken out oldest first.
ProjectOldestFirst(j, d, st, p) ==
    LET out == LiveEdits(j) \ Kept(j, d, st, p)
    IN  FoldLeft(LAMBDA comp, o : IF o.seq \in out THEN Unapply(j, comp, o) ELSE comp, d, j)

\* The document as policy p sees it: the session's own view with every excluded
\* live edit taken back out, newest first.
Project(j, d, st, p) ==
    IF DOMAIN st = {} THEN d
    ELSE LET out == LiveEdits(j) \ Kept(j, d, st, p)
         IN  FoldRight(LAMBDA o, comp : IF o.seq \in out THEN Unapply(j, comp, o) ELSE comp,
                       j, d)

-----------------------------------------------------------------------------
(* Leases *)

\* The live edit whose origin a byte of the document is attributed to: when a
\* paste makes two edits claim it, the later one.
OwnerOf(j, b) ==
    LET claims == {s \in LiveEdits(j) : b \in Owned(OpAt(j, s))}
    IN  IF claims = {} THEN 0 ELSE OpAt(j, Max(claims)).group

\* Half-open intersection of [pos, pos + len) with a run of set g; with len 0
\* the point has to lie strictly inside the run.
Touches(j, d, g, pos, len) ==
    LET own(k) == k \in 1 .. Len(d) /\ OwnerOf(j, d[k]) = g
    IN  IF len = 0 THEN own(pos) /\ own(pos + 1)
        ELSE \E k \in (pos + 1) .. (pos + len) : own(k)

Overlapping(a, b) ==
    LET lo == IF a.start > b.start THEN a.start ELSE b.start
        hi == IF a.end < b.end THEN a.end ELSE b.end
    IN  \/ lo < hi
        \/ a.start = a.end /\ b.start < a.start /\ a.start < b.end
        \/ b.start = b.end /\ a.start < b.start /\ b.start < a.end

\* Deletion-only sets in the given state whose gap lies inside the range.
DeletionLeases(j, d, st, pos, len, state) ==
    {g \in GroupIds(j) :
        /\ DOMAIN st # {} /\ StateOf(st, g) = state
        /\ \A s \in Members(j, g) : InsLen(OpAt(j, s)) = 0
        /\ \E s \in Members(j, g) : \E h \in MemberSpans(j, d, OpAt(j, s)) :
              Overlapping(h, [start |-> pos, end |-> pos + len])}

RunLeases(j, d, st, pos, len, state) ==
    {g \in DOMAIN st : st[g] = state /\ Touches(j, d, g, pos, len)}

RejectedLeases(j, d, st, pos, len) == RunLeases(j, d, st, pos, len, "rejected")

ProposedLeases(j, d, st, pos, len) ==
    RunLeases(j, d, st, pos, len, "proposed")
      \cup DeletionLeases(j, d, st, pos, len, "proposed")

\* Mutant: only a rejected set's text is locked.
LeasedWhenRejected(j, d, st, pos, len) == RejectedLeases(j, d, st, pos, len) # {}

\* What a human's typing may not touch.
Leased(j, d, st, pos, len) ==
    RejectedLeases(j, d, st, pos, len) \cup ProposedLeases(j, d, st, pos, len) # {}
=============================================================================
