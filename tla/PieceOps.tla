------------------------------ MODULE PieceOps ------------------------------
(***************************************************************************)
(* The pure part of internal/piecetable: ops, their inverses, which ops of *)
(* a journal are in effect, and how a range recorded against an old        *)
(* version is carried to the present (session.go: rebase, damages, carry). *)
(*                                                                         *)
(* A document is a sequence of bytes.  A byte is identified by the store   *)
(* that holds it and its offset there, as a PieceRec of length one, and    *)
(* carries its character; stores are append-only, so the identity of a     *)
(* byte never changes and the same byte can leave and re-enter the         *)
(* document.  A journal is a sequence of ops; op number s (counted from 0, *)
(* like Seq in the code) is journal[s + 1].                                *)
(***************************************************************************)
EXTENDS Integers, Sequences, SequencesExt

Kinds == {"edit", "undo", "redo"}

OpAt(j, s) == j[s + 1]
Seqs(j) == 0 .. (Len(j) - 1)

DelLen(o) == Len(o.del)
InsLen(o) == Len(o.ins)
Delta(o)  == InsLen(o) - DelLen(o)

\* Replace n elements of d at offset pos by ins; offsets past the end clamp.
Splice(d, pos, n, ins) ==
    LET p == IF pos > Len(d) THEN Len(d) ELSE pos
        m == IF p + n > Len(d) THEN Len(d) - p ELSE n
    IN  SubSeq(d, 1, p) \o ins \o SubSeq(d, p + m + 1, Len(d))

Apply(d, o) == Splice(d, o.pos, DelLen(o), o.ins)

\* Mutant: a redo recorded as one more undo.
InverseAlwaysUndo(o) ==
    [o EXCEPT !.del = o.ins, !.ins = o.del, !.undoes = o.seq, !.kind = "undo"]

\* The op that undoes o.  Its seq and group are assigned when it is committed.
InverseOp(o) ==
    [o EXCEPT !.del    = o.ins,
              !.ins    = o.del,
              !.undoes = o.seq,
              !.kind   = IF o.kind = "undo" THEN "redo" ELSE "undo"]

-----------------------------------------------------------------------------
(* Liveness of ops *)

Reversers(j, s) == {r \in Seqs(j) : OpAt(j, r).kind # "edit" /\ OpAt(j, r).undoes = s}

\* Mutant: an undone op stays dead although its undo was undone.
DeadOnceReversed(j) == [s \in Seqs(j) |-> Reversers(j, s) = {}]

\* Mutant: liveness is not consulted.
AlwaysLive(j) == [s \in Seqs(j) |-> TRUE]

\* An op is in effect unless some op that reverses it is itself in effect.
InEffect(j) ==
    LET live[s \in Seqs(j)] == \A r \in Reversers(j, s) : ~live[r]
    IN  live

LiveEdits(j) == LET live == InEffect(j)
                IN  {s \in Seqs(j) : OpAt(j, s).kind = "edit" /\ live[s]}

\* A reversal of kind want applies to undos when it is a redo, and to edits and
\* redos when it is an undo.
Reversible(o, want) == (o.kind = "undo") = (want = "redo")

-----------------------------------------------------------------------------
(* Carrying a range through the journal *)

PointAt(p) == [at |-> p, held |-> FALSE, by |-> 0, off |-> 0, anchored |-> {}]

\* Which op, if any, holds op s out of the document.
LiveReversers(j, live, s) == {r \in Reversers(j, s) : live[r]}

\* Mutant: an edit damages the ranges it touched even after it was undone.
DamagesThoughUndone(live, o, lo, hi) ==
    /\ o.kind = "edit"
    /\ ~lo.held /\ ~hi.held
    /\ o.pos + DelLen(o) > lo.at
    /\ o.pos < hi.at

Damages(live, o, lo, hi) ==
    /\ o.kind = "edit" /\ live[o.seq]
    /\ ~lo.held /\ ~hi.held
    /\ o.pos + DelLen(o) > lo.at
    /\ o.pos < hi.at

\* Mutant: the point's gravity alone decides.
LandsByGravity(p, o, rightward) == IF rightward THEN [p EXCEPT !.at = @ + Delta(o)] ELSE p

\* An insertion at exactly the point: the record of the deletion it reverses
\* decides, otherwise the point's gravity does.  An ordinary edit has undoes 0,
\* so an anchor left by op 0 is looked up for it as well.
LandsOn(p, o, rightward) ==
    LET known == {a \in p.anchored : a.seq = o.undoes}
        right == IF known # {} THEN \E a \in known : a.right ELSE ~rightward
    IN  [p EXCEPT !.anchored = @ \ known,
                  !.at = IF right THEN @ ELSE @ + Delta(o)]

\* Mutant: the anchor does not say on which side the bytes were.
AnchorRight(p, o, right) == p.anchored \cup {[seq |-> o.seq, right |-> TRUE]}

\* A deletion flush against the point leaves an anchor saying on which side.
Anchor(p, o, right) == p.anchored \cup {[seq |-> o.seq, right |-> right]}

Carry(j, live, p, o, rightward) ==
    LET end == o.pos + DelLen(o) IN
    IF p.held
    THEN IF o.seq = p.by THEN [p EXCEPT !.at = o.pos + p.off, !.held = FALSE] ELSE p
    ELSE CASE DelLen(o) = 0 /\ o.pos = p.at -> LandsOn(p, o, rightward)
           [] DelLen(o) # 0 /\ end = p.at ->
                [p EXCEPT !.at = @ + Delta(o), !.anchored = Anchor(p, o, FALSE)]
           [] end < p.at -> [p EXCEPT !.at = @ + Delta(o)]
           [] o.pos = p.at /\ DelLen(o) # 0 -> [p EXCEPT !.anchored = Anchor(p, o, TRUE)]
           [] o.pos > p.at -> p
           [] OTHER ->           \* strictly inside the bytes o removed
                LET r == LiveReversers(j, live, o.seq) IN
                IF r # {}
                THEN [p EXCEPT !.held = TRUE, !.off = p.at - o.pos,
                               !.by = CHOOSE x \in r : \A y \in r : x <= y]
                ELSE [p EXCEPT !.at = o.pos]

Whole == -1   \* no op damaged the range

Lost(op) == [ok |-> FALSE, lo |-> 0, hi |-> 0, at |-> op]

\* Where the walk w ended, or the op that made the range unrecoverable.
Landing(w) ==
    IF w.bad # Whole THEN Lost(w.bad)
    ELSE IF w.lo.held \/ w.hi.held THEN Lost(w.lo.by)
    ELSE [ok |-> TRUE, lo |-> w.lo.at, hi |-> w.hi.at, at |-> 0]

\* One op of the walk: it damages the range w, or moves its two points.
Carried(j, live, w, o) ==
    IF w.bad # Whole THEN w
    ELSE IF Damages(live, o, w.lo, w.hi) THEN [w EXCEPT !.bad = o.seq]
    ELSE LET empty == ~w.lo.held /\ ~w.hi.held /\ w.lo.at = w.hi.at
         IN  [w EXCEPT !.lo = Carry(j, live, @, o, TRUE),
                       !.hi = Carry(j, live, @, o, empty)]

\* [start, end) of version base in today's coordinates.
Rebase(j, start, end, base) ==
    LET live == InEffect(j)
    IN  IF base > Len(j) THEN Lost(0)
        ELSE Landing(FoldLeft(LAMBDA w, o : Carried(j, live, w, o),
                              [lo |-> PointAt(start), hi |-> PointAt(end), bad |-> Whole],
                              SubSeq(j, base + 1, Len(j))))

\* Mutant: the inverse is placed where the op was.
InverseInPlace(j, d, o) == [ok |-> TRUE, at |-> 0, op |-> InverseOp(o)]

\* o's inverse at r; placeable only if the whole span o put in the document is
\* still there and inside it.
InverseAt(r, d, o) ==
    [ok |-> r.ok /\ r.hi - r.lo = InsLen(o) /\ r.hi <= Len(d),
     at |-> r.at,
     op |-> [InverseOp(o) EXCEPT !.pos = r.lo]]

\* o's inverse carried to the present.
RebasedInverse(j, d, o) == InverseAt(Rebase(j, o.pos, o.pos + InsLen(o), o.seq + 1), d, o)

\* The document after replaying the first n ops over base (NewRestoredSession).
ReplayTo(base, j, n) == FoldLeft(Apply, base, SubSeq(j, 1, n))

\* The document's length at version v (Session.LengthAt).
LengthAt(base, j, v) == FoldLeft(LAMBDA n, o : n + Delta(o), Len(base), SubSeq(j, 1, v))
=============================================================================
