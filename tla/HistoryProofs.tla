---------------------------- MODULE HistoryProofs -----------------------------
(***************************************************************************)
(* Proofs about undoing, for every choice of authors, texts and bounds:    *)
(* what is undone in order leaves no trace in a carried range, so hunks    *)
(* and reversals remove what they record, a reversal can always be taken   *)
(* back, each byte is there as often as the ops in effect put it there,    *)
(* and a composition shows the text that was agreed to.                    *)
(***************************************************************************)
EXTENDS PieceProofs

-----------------------------------------------------------------------------
(* Ops that are undone in order.                                           *)

\* Op r is an undo or redo in effect.
Takes(j, r) == OpAt(j, r).kind # "edit" /\ r \in LiveOps(j)

\* What op k did is taken back by an op before number b.
Undone(j, k, b) == \E q \in (k + 1) .. (b - 1) : Takes(j, q) /\ OpAt(j, q).undoes = k

\* The ops from a to b - 1 take back each other and nothing else.
Balanced(j, a, b) ==
    \A k \in a .. (b - 1) : IF Takes(j, k) THEN OpAt(j, k).undoes >= a ELSE Undone(j, k, b)

Between(j, s, r) ==
    /\ Balanced(j, s + 1, r)
    /\ \A k \in (s + 1) .. (r - 1) : OpAt(j, k).kind # "edit" => OpAt(j, k).undoes # s

\* What is taken back since version v was done since, and is taken back newest first.
Nested(j, v) ==
    \A r \in v .. (Len(j) - 1) : Takes(j, r) => OpAt(j, r).undoes >= v /\ Between(j, OpAt(j, r).undoes, r)

\* A balanced stretch ends with an op that takes back one of it; what stands between
\* the two is balanced, and so is what stands before them.
LEMMA LastCloses ==
  ASSUME NEW j, Numbered(j), Ordered(j), NEW v \in Nat, Nested(j, v),
         NEW a \in Nat, NEW b \in Nat, v <= a, a < b, b <= Len(j), Balanced(j, a, b)
  PROVE  LET q == b - 1
             s == OpAt(j, q).undoes
         IN  /\ q \in Seqs(j) /\ Takes(j, q) /\ s \in Nat /\ a <= s /\ s < q /\ s \in Seqs(j)
             /\ Balanced(j, s + 1, q) /\ Balanced(j, a, s) /\ s \notin LiveOps(j)
<1> DEFINE q == b - 1
           s == OpAt(j, q).undoes
<1>1. j \in Seq(Ops) /\ Len(j) \in Nat /\ q \in a .. (b - 1) /\ q \in Seqs(j) /\ q \in Nat
      /\ (q + 1) .. (b - 1) = {} /\ q \in v .. (Len(j) - 1)
  BY DEF Numbered, Seqs
<1>2. Takes(j, q)
  <2> SUFFICES ASSUME ~Takes(j, q) PROVE FALSE
    OBVIOUS
  <2>1. Undone(j, q, b)
    BY <1>1 DEF Balanced
  <2> HIDE DEF q
  <2> QED BY <1>1, <2>1 DEF Undone
<1>3. s \in 0 .. (q - 1) /\ s >= a
  BY <1>1, <1>2 DEF Balanced, Takes, Ordered
<1>4. s \in Nat /\ s < q /\ s \in Seqs(j)
  <2> HIDE DEF s
  <2> QED BY <1>1, <1>3 DEF Seqs
<1>5. Between(j, s, q)
  BY <1>1, <1>2 DEF Nested
<1>6. s \notin LiveOps(j)
  <2>1. q \in Reversers(j, s) /\ q \in LiveOps(j)
    BY <1>1, <1>2 DEF Takes, Reversers
  <2> HIDE DEF s, q
  <2> QED BY <1>1, <1>4, <2>1, LivenessIs
<1>7. Balanced(j, a, s)
  <2> SUFFICES ASSUME NEW k \in a .. (s - 1)
               PROVE  IF Takes(j, k) THEN OpAt(j, k).undoes >= a ELSE Undone(j, k, s)
    BY DEF Balanced
  <2>1. k \in a .. (b - 1) /\ k \in Nat /\ k < s
    <3> HIDE DEF s
    <3> QED BY <1>1, <1>3, <1>4
  <2>2. IF Takes(j, k) THEN OpAt(j, k).undoes >= a ELSE Undone(j, k, b)
    BY <2>1 DEF Balanced
  <2>3. CASE Takes(j, k)
    BY <2>2, <2>3
  <2>4. CASE ~Takes(j, k)
    <3>1. PICK r \in (k + 1) .. (b - 1) : Takes(j, r) /\ OpAt(j, r).undoes = k
      BY <2>2, <2>4 DEF Undone
    <3>2. r # q /\ r # s
      BY <1>6, <2>1, <3>1 DEF Takes
    <3>3. ~(r \in (s + 1) .. (q - 1))
      <4> SUFFICES ASSUME r \in (s + 1) .. (q - 1) PROVE FALSE
        OBVIOUS
      <4>1. OpAt(j, r).undoes >= s + 1
        BY <1>5, <3>1 DEF Between, Balanced
      <4> HIDE DEF s
      <4> QED BY <1>4, <2>1, <3>1, <4>1
    <3>4. r \in (k + 1) .. (s - 1)
      <4> HIDE DEF s
      <4> QED BY <1>1, <1>4, <2>1, <3>2, <3>3
    <3> QED BY <2>4, <3>1, <3>4 DEF Undone
  <2> QED BY <2>3, <2>4
<1> QED BY <1>1, <1>2, <1>3, <1>4, <1>5, <1>6, <1>7 DEF Between

\* A relation between versions that holds between those around an op and the one that
\* takes it back, when it holds between those around what is between them, holds
\* between the versions at the ends of everything that is balanced.
LEMMA Nesting ==
  ASSUME NEW j, Numbered(j), Ordered(j), NEW v \in Nat, Nested(j, v), NEW R,
         \A k \in v .. Len(j) : <<k, k>> \in R,
         \A a, b, c \in v .. Len(j) : <<a, b>> \in R /\ <<b, c>> \in R => <<a, c>> \in R,
         \A q \in v .. (Len(j) - 1) : Takes(j, q) /\ <<OpAt(j, q).undoes + 1, q>> \in R
                                        => <<OpAt(j, q).undoes, q + 1>> \in R
  PROVE  \A a, b \in v .. Len(j) : a <= b /\ Balanced(j, a, b) => <<a, b>> \in R
<1> DEFINE Up(n) == \A a, b \in v .. Len(j) : b <= n /\ a <= b /\ Balanced(j, a, b) => <<a, b>> \in R
           S == {n \in Nat : Up(n)}
<1>1. j \in Seq(Ops) /\ Len(j) \in Nat
  BY DEF Numbered
<1>2. 0 \in S
  <2> SUFFICES ASSUME NEW a \in v .. Len(j), NEW b \in v .. Len(j), b <= 0, a <= b
               PROVE  <<a, b>> \in R
    OBVIOUS
  <2>1. a = b
    OBVIOUS
  <2> QED BY <2>1
<1>3. ASSUME NEW n \in Nat, n \in S PROVE n + 1 \in S
  <2> SUFFICES ASSUME NEW a \in v .. Len(j), NEW b \in v .. Len(j), b <= n + 1, a <= b,
                      Balanced(j, a, b)
               PROVE  <<a, b>> \in R
    OBVIOUS
  <2>0. Up(n)
    BY <1>3
  <2>1. CASE a = b
    BY <2>1
  <2>2. CASE a # b
    <3> DEFINE q == b - 1
               s == OpAt(j, q).undoes
    <3>1. a \in Nat /\ b \in Nat /\ v <= a /\ a < b /\ b <= Len(j)
      BY <1>1, <2>2
    <3>2. /\ q \in Seqs(j) /\ Takes(j, q) /\ s \in Nat /\ a <= s /\ s < q /\ s \in Seqs(j)
          /\ Balanced(j, s + 1, q) /\ Balanced(j, a, s)
      BY <3>1, LastCloses
    <3> HIDE DEF s
    <3>3. /\ q \in v .. Len(j) /\ s \in v .. Len(j) /\ s + 1 \in v .. Len(j) /\ q <= n /\ s <= n
          /\ s + 1 <= q /\ q \in v .. (Len(j) - 1) /\ q + 1 = b
      BY <1>1, <3>1, <3>2
    <3> HIDE DEF q
    <3>4. <<s + 1, q>> \in R
      BY <2>0, <3>2, <3>3
    <3>5. <<s, q + 1>> \in R
      BY <3>2, <3>3, <3>4 DEF s
    <3>6. <<a, s>> \in R
      BY <2>0, <3>2, <3>3
    <3> QED BY <3>3, <3>5, <3>6
  <2> QED BY <2>1, <2>2
<1>4. \A n \in Nat : n \in S
  <2> HIDE DEF S
  <2> QED BY <1>2, <1>3, Inductive
<1>5. Up(Len(j))
  BY <1>1, <1>4
<1> HIDE DEF S
<1> QED BY <1>1, <1>5

-----------------------------------------------------------------------------
(* A point, carried past one op.                                           *)

\* The anchors that op m left at a point.
Marks(p, m) == {a \in p.anchored : a.seq = m}

Put(p, x, an) == [at |-> x, held |-> FALSE, by |-> p.by, off |-> p.off, anchored |-> an]

\* Where a point stands beside an insertion at it, and where every other op leaves it.
Turns(p, o, right) ==
    IF Marks(p, o.undoes) # {} THEN \E a \in Marks(p, o.undoes) : a.right ELSE ~right

CarriedTo(c, p, o, right, r) ==
    /\ DelLen(o) = 0 /\ o.pos = p.at =>
          c = Put(p, IF Turns(p, o, right) THEN p.at ELSE p.at + Delta(o),
                  p.anchored \ Marks(p, o.undoes))
    /\ DelLen(o) # 0 /\ o.pos + DelLen(o) = p.at => c = Put(p, p.at + Delta(o), Anchor(p, o, FALSE))
    /\ o.pos + DelLen(o) < p.at => c = Put(p, p.at + Delta(o), p.anchored)
    /\ DelLen(o) # 0 /\ o.pos = p.at => c = Put(p, p.at, Anchor(p, o, TRUE))
    /\ o.pos > p.at => c = p
    /\ o.pos < p.at /\ p.at < o.pos + DelLen(o) =>
          IF r = {} THEN c = Put(p, o.pos, p.anchored)
          ELSE c = [at |-> p.at, held |-> TRUE, by |-> CHOOSE x \in r : \A y \in r : x <= y,
                    off |-> p.at - o.pos, anchored |-> p.anchored]

\* The ways in which Carry builds a point that is not held, and one that is.
LEMMA PutBoth ==
  ASSUME NEW p \in Points, ~p.held, NEW x, NEW an, NEW q,
         \/ q = [p EXCEPT !.anchored = an, !.at = x]
         \/ q = [p EXCEPT !.at = x, !.anchored = an]
  PROVE  q = Put(p, x, an)
<1>1. p.held = FALSE
  BY DEF Points
<1>2. p = [at |-> p.at, held |-> p.held, by |-> p.by, off |-> p.off, anchored |-> p.anchored]
  BY DEF Points
<1>3. CASE q = [p EXCEPT !.anchored = an, !.at = x]
  BY <1>1, <1>2, <1>3 DEF Put
<1>4. CASE q = [p EXCEPT !.at = x, !.anchored = an]
  BY <1>1, <1>2, <1>4 DEF Put
<1> QED BY <1>3, <1>4

\* The ways in which Carry builds a point from one that may be held.
LEMMA PutOne ==
  ASSUME NEW p \in Points, NEW x, NEW an, NEW off, NEW by, NEW q
  PROVE  /\ q = [p EXCEPT !.at = x, !.held = FALSE] => q = Put(p, x, p.anchored)
         /\ q = [p EXCEPT !.held = TRUE, !.off = off, !.by = by] => q
              = [at |-> p.at, held |-> TRUE, by |-> by, off |-> off, anchored |-> p.anchored]
         /\ ~p.held => /\ q = [p EXCEPT !.at = x] => q = Put(p, x, p.anchored)
                       /\ q = [p EXCEPT !.anchored = an] => q = Put(p, p.at, an)
<1>1. p = [at |-> p.at, held |-> p.held, by |-> p.by, off |-> p.off, anchored |-> p.anchored]
  BY DEF Points
<1>2. q = [p EXCEPT !.at = x, !.held = FALSE] => q = Put(p, x, p.anchored)
  BY <1>1 DEF Put
<1>3. q = [p EXCEPT !.held = TRUE, !.off = off, !.by = by]
        => q = [at |-> p.at, held |-> TRUE, by |-> by, off |-> off, anchored |-> p.anchored]
  BY <1>1
<1>4. ASSUME ~p.held
      PROVE  /\ q = [p EXCEPT !.at = x] => q = Put(p, x, p.anchored)
             /\ q = [p EXCEPT !.anchored = an] => q = Put(p, p.at, an)
  <2>1. p.held = FALSE
    BY <1>4 DEF Points
  <2>2. q = [p EXCEPT !.at = x] => q = Put(p, x, p.anchored)
    BY <1>1, <2>1 DEF Put
  <2>3. q = [p EXCEPT !.anchored = an] => q = Put(p, p.at, an)
    BY <1>1, <2>1 DEF Put
  <2> QED BY <2>2, <2>3
<1> QED BY <1>2, <1>3, <1>4

\* Carry takes a point that is not held where it says here.
LEMMA CarryMoves ==
  ASSUME NEW j, NEW live, NEW o \in Ops, NEW p \in Points, NEW right, ~p.held
  PROVE  CarriedTo(Carry(j, live, p, o, right), p, o, right, LiveReversers(j, live, o.seq))
<1> DEFINE c == Carry(j, live, p, o, right)
           r == LiveReversers(j, live, o.seq)
           n == DelLen(o)
           y == p.at + Delta(o)
           an == p.anchored
           left == Anchor(p, o, FALSE)
           above == Anchor(p, o, TRUE)
           known == Marks(p, o.undoes)
           turn == Turns(p, o, right)
           z == IF turn THEN p.at ELSE y
           by == CHOOSE x \in r : \A w \in r : x <= w
           off == p.at - o.pos
           pos == o.pos
<1>1. /\ o.pos \in Nat /\ n \in Nat /\ p.at \in Nat /\ Len(o.ins) \in Nat
      /\ p = [at |-> p.at, held |-> FALSE, by |-> p.by, off |-> p.off, anchored |-> an]
  <2>1. p.held = FALSE
    BY DEF Points
  <2> QED BY <2>1 DEF Ops, DelLen, Points
<1>2. /\ Beside(c, p, o)
      /\ n = 0 /\ o.pos = p.at => c = LandsOn(p, o, right)
  BY <1>1, Carries
<1>3. LandsOn(p, o, right) = [p EXCEPT !.anchored = an \ known, !.at = z]
  BY Zenon DEF LandsOn, Marks, Turns
<1>4. o.pos < p.at /\ p.at < o.pos + n =>
         c = IF r # {} THEN [p EXCEPT !.held = TRUE, !.off = off, !.by = by]
             ELSE [p EXCEPT !.at = pos]
  <2> SUFFICES ASSUME o.pos < p.at, p.at < o.pos + n
               PROVE c = IF r # {} THEN [p EXCEPT !.held = TRUE, !.off = off, !.by = by]
                         ELSE [p EXCEPT !.at = pos]
    OBVIOUS
  <2> DEFINE end == o.pos + DelLen(o)
             g1 == DelLen(o) = 0 /\ o.pos = p.at
             g2 == DelLen(o) # 0 /\ end = p.at
             g3 == end < p.at
             g4 == o.pos = p.at /\ DelLen(o) # 0
             g5 == o.pos > p.at
             v1 == LandsOn(p, o, right)
             v2 == [p EXCEPT !.at = @ + Delta(o), !.anchored = Anchor(p, o, FALSE)]
             v3 == [p EXCEPT !.at = @ + Delta(o)]
             v4 == [p EXCEPT !.anchored = Anchor(p, o, TRUE)]
             v6 == IF r # {} THEN [p EXCEPT !.held = TRUE, !.off = off, !.by = by]
                             ELSE [p EXCEPT !.at = pos]
  <2>1. c = CASE g1 -> v1 [] g2 -> v2 [] g3 -> v3 [] g4 -> v4 [] g5 -> p [] OTHER -> v6
    BY DEF Carry
  <2>2. ~g1 /\ ~g2 /\ ~g3 /\ ~g4 /\ ~g5
    BY <1>1
  <2> HIDE DEF c, g1, g2, g3, g4, g5, v1, v2, v3, v4, v6
  <2>3. c = v6
    BY <2>1, <2>2
  <2> QED BY <2>3 DEF v6
<1> HIDE DEF c, r, n, known, left, above, turn, by, z, y, off, pos, an
<1>5. ASSUME c = [p EXCEPT !.anchored = an \ known, !.at = z] PROVE c = Put(p, z, an \ known)
  <2> DEFINE rest == an \ known
  <2> HIDE DEF rest
  <2>1. c = [p EXCEPT !.anchored = rest, !.at = z]
    BY <1>5, Zenon DEF rest
  <2>2. c = Put(p, z, rest)
    BY <2>1, PutBoth
  <2> QED BY <2>2 DEF rest
<1>6. ASSUME c = [p EXCEPT !.at = y, !.anchored = left] PROVE c = Put(p, y, left)
  BY <1>6, PutBoth
<1>7. c = [p EXCEPT !.at = y] => c = Put(p, y, an)
  BY PutOne DEF an
<1>8. c = [p EXCEPT !.anchored = above] => c = Put(p, p.at, above)
  BY PutOne
<1>9. c = [p EXCEPT !.at = pos] => c = Put(p, pos, an)
  BY PutOne DEF an
<1>10. c = [p EXCEPT !.held = TRUE, !.off = off, !.by = by]
         => c = [at |-> p.at, held |-> TRUE, by |-> by, off |-> off, anchored |-> an]
  BY PutOne DEF an
<1>11. /\ n # 0 /\ o.pos + n = p.at => c = [p EXCEPT !.at = y, !.anchored = left]
       /\ o.pos + n < p.at => c = [p EXCEPT !.at = y]
       /\ n # 0 /\ o.pos = p.at => c = [p EXCEPT !.anchored = above]
       /\ o.pos > p.at => c = p
  BY <1>2 DEF Beside, y, left, above, n
<1>12. n = 0 /\ o.pos = p.at => c = Put(p, z, an \ known)
  BY <1>2, <1>3, <1>5
<1>13. o.pos < p.at /\ p.at < o.pos + n =>
         IF r = {} THEN c = Put(p, pos, an)
         ELSE c = [at |-> p.at, held |-> TRUE, by |-> by, off |-> off, anchored |-> an]
  BY <1>4, <1>9, <1>10
<1> QED
  BY <1>6, <1>7, <1>8, <1>11, <1>12, <1>13 DEF CarriedTo, c, r, n, known, left, above, turn, by, z, y,
     off, pos, an

\* A held point waits for the op that holds it.
LEMMA CarryHeld ==
  ASSUME NEW j, NEW live, NEW o \in Ops, NEW p \in Points, NEW right, p.held
  PROVE  /\ o.seq # p.by => Carry(j, live, p, o, right) = p
         /\ o.seq = p.by => Carry(j, live, p, o, right) = Put(p, o.pos + p.off, p.anchored)
<1>1. Carry(j, live, p, o, right)
        = IF o.seq = p.by THEN [p EXCEPT !.at = o.pos + p.off, !.held = FALSE] ELSE p
  BY DEF Carry
<1> DEFINE x == o.pos + p.off
<1> HIDE DEF x
<1> DEFINE c == Carry(j, live, p, o, right)
<1> HIDE DEF c
<1>2. c = IF o.seq = p.by THEN [p EXCEPT !.at = x, !.held = FALSE] ELSE p
  BY <1>1 DEF x, c
<1>3. c = [p EXCEPT !.at = x, !.held = FALSE] => c = Put(p, x, p.anchored)
  BY PutOne
<1> QED BY <1>2, <1>3 DEF x, c

\* An op leaves an anchor of its own only, and takes away only those of its target.
LEMMA CarryMarks ==
  ASSUME NEW j, NEW live, NEW o \in Ops, NEW p \in Points, NEW right, NEW m
  PROVE  /\ m # o.seq \/ DelLen(o) = 0 =>
              Marks(Carry(j, live, p, o, right), m) \subseteq Marks(p, m)
         /\ m # o.seq /\ m # o.undoes => Marks(Carry(j, live, p, o, right), m) = Marks(p, m)
<1> DEFINE c == Carry(j, live, p, o, right)
           an == p.anchored
           known == Marks(p, o.undoes)
<1>1. \/ c.anchored = an
      \/ c.anchored = an \ known
      \/ DelLen(o) # 0 /\ c.anchored = Anchor(p, o, TRUE)
      \/ DelLen(o) # 0 /\ c.anchored = Anchor(p, o, FALSE)
  <2>1. CASE p.held
    <3> DEFINE x == o.pos + p.off
    <3>1. c = p \/ c = Put(p, x, an)
      BY <2>1, CarryHeld
    <3> HIDE DEF c, x
    <3>2. Put(p, x, an).anchored = an
      BY DEF Put
    <3> QED BY <3>1, <3>2
  <2>2. CASE ~p.held
    <3>1. CarriedTo(c, p, o, right, LiveReversers(j, live, o.seq))
      BY <2>2, CarryMoves
    <3> DEFINE n == DelLen(o)
               left == Anchor(p, o, FALSE)
               above == Anchor(p, o, TRUE)
    <3>2. o.pos \in Nat /\ n \in Nat /\ p.at \in Nat
      BY DEF Ops, DelLen, Points
    <3>3. \/ n = 0 /\ o.pos = p.at
          \/ n # 0 /\ o.pos + n = p.at
          \/ o.pos + n < p.at
          \/ n # 0 /\ o.pos = p.at
          \/ o.pos > p.at
          \/ o.pos < p.at /\ p.at < o.pos + n
      <4> HIDE DEF n
      <4> QED BY <3>2
    <3>4. \A x, b : Put(p, x, b).anchored = b
      BY DEF Put
    <3> HIDE DEF c, an, known, left, above
    <3>5. /\ n = 0 /\ o.pos = p.at => \E x : c = Put(p, x, an \ known)
          /\ n # 0 /\ o.pos + n = p.at => \E x : c = Put(p, x, left)
          /\ o.pos + n < p.at => \E x : c = Put(p, x, an)
          /\ n # 0 /\ o.pos = p.at => \E x : c = Put(p, x, above)
          /\ o.pos > p.at => c = p
      <4> DEFINE at == IF Turns(p, o, right) THEN p.at ELSE p.at + Delta(o)
      <4>1. n = 0 /\ o.pos = p.at => c = Put(p, at, an \ known)
        BY <3>1, Zenon DEF CarriedTo, an, known, n
      <4>2. n # 0 /\ o.pos + n = p.at => c = Put(p, p.at + Delta(o), left)
        BY <3>1, Zenon DEF CarriedTo, left, n
      <4>3. o.pos + n < p.at => c = Put(p, p.at + Delta(o), an)
        BY <3>1, Zenon DEF CarriedTo, an, n
      <4>4. n # 0 /\ o.pos = p.at => c = Put(p, p.at, above)
        BY <3>1, Zenon DEF CarriedTo, above, n
      <4>5. o.pos > p.at => c = p
        BY <3>1, Zenon DEF CarriedTo
      <4> HIDE DEF n, at
      <4> QED BY <4>1, <4>2, <4>3, <4>4, <4>5, Zenon
    <3>6. o.pos < p.at /\ p.at < o.pos + n => c.anchored = an
      <4> SUFFICES ASSUME o.pos < p.at, p.at < o.pos + n PROVE c.anchored = an
        OBVIOUS
      <4> DEFINE r == LiveReversers(j, live, o.seq)
                 by == CHOOSE x \in r : \A y \in r : x <= y
                 off == p.at - o.pos
                 hp == [at |-> p.at, held |-> TRUE, by |-> by, off |-> off, anchored |-> an]
      <4>1. c = Put(p, o.pos, an) \/ c = hp
        BY <3>1, Zenon DEF CarriedTo, an, n
      <4>2. hp.anchored = an
        <5> HIDE DEF by, off, an
        <5> QED OBVIOUS
      <4> HIDE DEF hp
      <4> QED BY <3>4, <4>1, <4>2
    <3>7. \/ c.anchored = an
          \/ c.anchored = an \ known
          \/ n # 0 /\ c.anchored = above
          \/ n # 0 /\ c.anchored = left
      <4> HIDE DEF n
      <4>1. CASE n = 0 /\ o.pos = p.at
        BY <3>4, <3>5, <4>1
      <4>2. CASE n # 0 /\ o.pos + n = p.at
        BY <3>4, <3>5, <4>2
      <4>3. CASE o.pos + n < p.at
        BY <3>4, <3>5, <4>3
      <4>4. CASE n # 0 /\ o.pos = p.at
        BY <3>4, <3>5, <4>4
      <4>5. CASE o.pos > p.at
        BY <3>5, <4>5, Zenon DEF an
      <4>6. CASE o.pos < p.at /\ p.at < o.pos + n
        BY <3>6, <4>6, Zenon
      <4> QED BY <3>3, <4>1, <4>2, <4>3, <4>4, <4>5, <4>6, Zenon
    <3> QED BY <3>7, Zenon DEF n, left, above
  <2> QED BY <2>1, <2>2
<1>2. \A b : \A x \in Anchor(p, o, b) : x \in an \/ x.seq = o.seq
  BY DEF Anchor
<1>3. \A b : an \subseteq Anchor(p, o, b)
  BY DEF Anchor
<1> HIDE DEF c, an
<1> QED BY <1>1, <1>2, <1>3 DEF Marks, c, an

\* An op leaves the anchors of ops it neither is nor takes back.
LEMMA CarryKeepsMarks ==
  ASSUME NEW j, NEW live, NEW o \in Ops, NEW p \in Points, NEW right, NEW m,
         m # o.seq, m # o.undoes
  PROVE  Marks(Carry(j, live, p, o, right), m) = Marks(p, m)
  BY CarryMarks

\* k takes back o, at the place where o was.
Inverts(k, o) == k.pos = o.pos /\ k.del = o.ins /\ k.ins = o.del /\ k.undoes = o.seq

\* b is where a was left, but for anchors of other ops.
LeftThere(b, a, o) ==
    /\ a.held => b = a
    /\ ~a.held => ~b.held /\ b.at = a.at
    /\ DelLen(o) # 0 => Marks(b, o.seq) = Marks(a, o.seq)

\* An op and the one that takes it back leave a point where it was.
LEMMA PairReturns ==
  ASSUME NEW j, NEW live, NEW o \in Ops, NEW k \in Ops, Inverts(k, o),
         LiveReversers(j, live, o.seq) = {k.seq},
         NEW p \in Points, ~p.held, Marks(p, o.seq) = {}, NEW right, NEW left,
         NEW b \in Points, LeftThere(b, Carry(j, live, p, o, right), o)
  PROVE  LET c == Carry(j, live, b, k, left) IN ~c.held /\ c.at = p.at
<1> DEFINE a == Carry(j, live, p, o, right)
           c == Carry(j, live, b, k, left)
           n == DelLen(o)
           m == InsLen(o)
           x == o.pos
           y == p.at
           r == LiveReversers(j, live, o.seq)
           s == LiveReversers(j, live, k.seq)
<1> SUFFICES ~c.held /\ c.at = y
  OBVIOUS
<1>1. /\ x \in Nat /\ n \in Nat /\ m \in Nat /\ y \in Nat /\ k.seq \in Nat /\ o.seq \in Nat
      /\ k.pos = x /\ DelLen(k) = m /\ InsLen(k) = n /\ Delta(o) = m - n /\ Delta(k) = n - m
      /\ k.undoes = o.seq
  BY DEF Ops, DelLen, InsLen, Delta, Points, Inverts
<1>2. CarriedTo(a, p, o, right, r)
  BY CarryMoves
<1>3. ~b.held => CarriedTo(c, b, k, left, s)
  BY CarryMoves
<1>4. \A p1, z, an : Put(p1, z, an).at = z /\ ~Put(p1, z, an).held /\ Put(p1, z, an).anchored = an
  BY DEF Put
<1>5. /\ a.held => b = a
      /\ ~a.held => ~b.held /\ b.at = a.at
      /\ n # 0 => Marks(b, o.seq) = Marks(a, o.seq)
  BY DEF LeftThere
<1>6. b.at \in Nat
  BY DEF Points
\* What the closing op does to a point that is not held.
<1>7. ASSUME ~b.held
      PROVE  /\ m = 0 /\ x = b.at => ~c.held /\ c.at = IF Turns(b, k, left) THEN b.at ELSE b.at + (n - m)
             /\ m # 0 /\ x + m = b.at => ~c.held /\ c.at = b.at + (n - m)
             /\ x + m < b.at => ~c.held /\ c.at = b.at + (n - m)
             /\ m # 0 /\ x = b.at => ~c.held /\ c.at = b.at
             /\ x > b.at => ~c.held /\ c.at = b.at
  <2> HIDE DEF a, c, n, m, x, r, s
  <2>1. CarriedTo(c, b, k, left, s)
    BY <1>3, <1>7
  <2>2. m = 0 /\ x = b.at => ~c.held /\ c.at = IF Turns(b, k, left) THEN b.at ELSE b.at + (n - m)
    <3> DEFINE z == IF Turns(b, k, left) THEN b.at ELSE b.at + Delta(k)
               an == b.anchored \ Marks(b, k.undoes)
    <3>1. m = 0 /\ x = b.at => c = Put(b, z, an)
      BY <1>1, <2>1 DEF CarriedTo
    <3>2. z = IF Turns(b, k, left) THEN b.at ELSE b.at + (n - m)
      BY <1>1
    <3> HIDE DEF z, an
    <3> QED BY <1>4, <3>1, <3>2
  <2>3. m # 0 /\ x + m = b.at => ~c.held /\ c.at = b.at + (n - m)
    <3> DEFINE no == FALSE
               an == Anchor(b, k, no)
               z == b.at + (n - m)
    <3>1. m # 0 /\ x + m = b.at => c = Put(b, z, an)
      BY <1>1, <2>1 DEF CarriedTo
    <3> HIDE DEF an
    <3> QED BY <1>4, <3>1
  <2>4. x + m < b.at => ~c.held /\ c.at = b.at + (n - m)
    <3>1. x + m < b.at => c = Put(b, b.at + (n - m), b.anchored)
      BY <1>1, <2>1 DEF CarriedTo
    <3> QED BY <1>4, <3>1
  <2>5. m # 0 /\ x = b.at => ~c.held /\ c.at = b.at
    <3> DEFINE yes == TRUE
               an == Anchor(b, k, yes)
    <3>1. m # 0 /\ x = b.at => c = Put(b, b.at, an)
      BY <1>1, <2>1 DEF CarriedTo
    <3> HIDE DEF an
    <3> QED BY <1>4, <3>1
  <2>6. x > b.at => c = b
    BY <1>1, <2>1 DEF CarriedTo
  <2> QED BY <1>7, <2>2, <2>3, <2>4, <2>5, <2>6
<1>8. Turns(b, k, left) = IF Marks(b, o.seq) # {} THEN \E q \in Marks(b, o.seq) : q.right ELSE ~left
  BY <1>1 DEF Turns
\* What the opening op did.
<1>9. CASE n = 0 /\ x = y
  <2> DEFINE z == IF Turns(p, o, right) THEN y ELSE y + Delta(o)
             an == p.anchored \ Marks(p, o.undoes)
  <2>1. a = Put(p, z, an)
    BY <1>2, <1>9 DEF CarriedTo
  <2>2. z = y \/ z = y + m
    BY <1>1, <1>9
  <2> HIDE DEF a, c, n, m, x, y, z, an
  <2>3. ~b.held /\ b.at = z
    BY <1>4, <1>5, <2>1
  <2>4. CASE m = 0
    BY <1>1, <1>7, <1>9, <2>2, <2>3, <2>4
  <2>5. CASE m # 0 /\ z = y
    BY <1>1, <1>7, <1>9, <2>3, <2>5
  <2>6. CASE m # 0 /\ z = y + m
    BY <1>1, <1>7, <1>9, <2>3, <2>6
  <2> QED BY <2>2, <2>4, <2>5, <2>6
<1>10. \A e : Marks(p, o.seq) = {} => {q \in Anchor(p, o, e) : q.seq = o.seq} = {[seq |-> o.seq, right |-> e]}
  <2> SUFFICES ASSUME NEW e
               PROVE  {q \in Anchor(p, o, e) : q.seq = o.seq} = {[seq |-> o.seq, right |-> e]}
    OBVIOUS
  <2> DEFINE new == [seq |-> o.seq, right |-> e]
             an == p.anchored
             t == o.seq
  <2>1. new.seq = t
    OBVIOUS
  <2>2. Anchor(p, o, e) = an \cup {new}
    BY DEF Anchor
  <2>3. \A q \in an : q.seq # t
    BY DEF Marks
  <2> HIDE DEF new, an, t
  <2>4. {q \in Anchor(p, o, e) : q.seq = t} = {new}
    BY <2>1, <2>2, <2>3
  <2> QED BY <2>4 DEF new, t
<1>11. CASE n # 0 /\ x + n = y
  <2>1. a = Put(p, y + (m - n), Anchor(p, o, FALSE))
    BY <1>1, <1>2, <1>11 DEF CarriedTo
  <2> DEFINE no == FALSE
             left0 == Anchor(p, o, no)
             z == y + (m - n)
  <2>2. a = Put(p, z, left0)
    BY <2>1
  <2> HIDE DEF a, c, n, m, x, y, z, no, left0
  <2>3. ~b.held /\ b.at = z /\ a.anchored = left0
    BY <1>4, <1>5, <2>2
  <2>4. Marks(b, o.seq) = {[seq |-> o.seq, right |-> no]}
    BY <1>5, <1>10, <1>11, <2>3 DEF Marks, left0
  <2>5. z = x + m
    BY <1>1, <1>11 DEF z
  <2>6. CASE m # 0
    BY <1>1, <1>7, <1>11, <2>3, <2>5, <2>6 DEF z
  <2>7. CASE m = 0
    <3>1. Turns(b, k, left) = FALSE
      <4>1. \A q \in Marks(b, o.seq) : q.right = no
        BY <2>4
      <4>2. Marks(b, o.seq) # {}
        BY <2>4
      <4> QED BY <1>8, <4>1, <4>2 DEF no
    <3> QED BY <1>1, <1>7, <1>11, <2>3, <2>5, <2>7, <3>1 DEF z
  <2> QED BY <2>6, <2>7
<1>12. CASE x + n < y
  <2>1. a = Put(p, y + (m - n), p.anchored)
    BY <1>1, <1>2, <1>12 DEF CarriedTo
  <2> HIDE DEF a, c, n, m, x, y
  <2>2. ~b.held /\ b.at = y + (m - n)
    BY <1>4, <1>5, <2>1
  <2>3. x + m < b.at
    BY <1>1, <1>12, <2>2
  <2> QED BY <1>1, <1>7, <2>2, <2>3
<1>13. CASE n # 0 /\ x = y
  <2> DEFINE yes == TRUE
             above == Anchor(p, o, yes)
  <2>1. a = Put(p, y, above)
    BY <1>1, <1>2, <1>13 DEF CarriedTo
  <2> HIDE DEF a, c, n, m, x, y, yes, above
  <2>2. ~b.held /\ b.at = y /\ a.anchored = above
    BY <1>4, <1>5, <2>1
  <2>3. Marks(b, o.seq) = {[seq |-> o.seq, right |-> yes]}
    BY <1>5, <1>10, <1>13, <2>2 DEF Marks, above
  <2>4. CASE m # 0
    BY <1>1, <1>7, <1>13, <2>2, <2>4
  <2>5. CASE m = 0
    <3>1. Turns(b, k, left)
      <4>1. \E q \in Marks(b, o.seq) : q.right
        <5> DEFINE q == [seq |-> o.seq, right |-> yes]
        <5>1. q \in Marks(b, o.seq) /\ q.right
          BY <2>3 DEF yes
        <5> QED BY <5>1
      <4> QED BY <1>8, <4>1
    <3> QED BY <1>1, <1>7, <1>13, <2>2, <2>5, <3>1
  <2> QED BY <2>4, <2>5
<1>14. CASE x > y
  <2>1. a = p
    BY <1>2, <1>14 DEF CarriedTo
  <2> HIDE DEF a, c, n, m, x
  <2>2. ~b.held /\ b.at = y
    BY <1>5, <2>1
  <2> QED BY <1>7, <1>14, <2>2
<1>15. CASE x < y /\ y < x + n
  <2> DEFINE by == CHOOSE u \in r : \A w \in r : u <= w
             off == y - x
             hp == [at |-> p.at, held |-> TRUE, by |-> by, off |-> off, anchored |-> p.anchored]
  <2>1. r = {k.seq} /\ by = k.seq
    <3>1. r = {k.seq} /\ k.seq <= k.seq
      BY <1>1
    <3> HIDE DEF r
    <3> QED BY <3>1
  <2>2. a = hp
    <3>1. r # {}
      BY <2>1
    <3> QED BY <1>2, <1>15, <3>1 DEF CarriedTo
  <2>3. hp.held = TRUE /\ hp.by = by /\ hp.off = off
    <3> HIDE DEF by, off
    <3> QED OBVIOUS
  <2> HIDE DEF hp, by, a
  <2>4. b = hp /\ b.held /\ b.by = k.seq /\ b.off = off
    BY <1>5, <2>1, <2>2, <2>3
  <2>5. c = Put(b, k.pos + b.off, b.anchored)
    BY <2>4, CarryHeld
  <2> HIDE DEF c, off, x, y
  <2>6. x + off = y
    BY <1>1 DEF off
  <2> QED BY <1>1, <1>4, <2>4, <2>5, <2>6
<1>16. \/ n = 0 /\ x = y
       \/ n # 0 /\ x + n = y
       \/ x + n < y
       \/ n # 0 /\ x = y
       \/ x > y
       \/ x < y /\ y < x + n
  <2> HIDE DEF n, x, y
  <2> QED BY <1>1
<1> QED BY <1>9, <1>11, <1>12, <1>13, <1>14, <1>15, <1>16

-----------------------------------------------------------------------------
(* A point, carried past what is undone in order.                          *)

\* An ordinary edit names no op it takes back.
EditsUndoNothing(j) == \A s \in Seqs(j) : IsEdit(j, s) => OpAt(j, s).undoes = 0

\* An op that takes another back in effect is where that one was.
PairsMeet(j, v) ==
    \A q \in v .. (Len(j) - 1) : Takes(j, q) => OpAt(j, q).pos = OpAt(j, OpAt(j, q).undoes).pos

\* Version 0 is the only one from which an edit's undoes can be taken for the number of
\* an op, and then only if op 0 is a deletion.
NoZero(j, v) == v > 0 \/ j = <<>> \/ DelLen(OpAt(j, 0)) = 0

\* Where a point of version v is at every version since.
Run(P, j, v) ==
    /\ \A k \in v .. Len(j) : P[k] \in Points
    /\ P[v].anchored = {}
    /\ \A k \in v .. (Len(j) - 1) :
          \E right : P[k + 1] = Carry(j, InEffect(j), P[k], OpAt(j, k), right)

StepOf(P, j, k) ==
    /\ k \in Seqs(j) /\ OpAt(j, k) \in Ops /\ OpAt(j, k).seq = k
    /\ P[k] \in Points /\ P[k + 1] \in Points
    /\ \E right : P[k + 1] = Carry(j, InEffect(j), P[k], OpAt(j, k), right)

\* One step of a run.
LEMMA RunStep ==
  ASSUME NEW j, Numbered(j), NEW v \in 0 .. Len(j), NEW P, Run(P, j, v), NEW k \in v .. (Len(j) - 1)
  PROVE  StepOf(P, j, k)
<1>1. k \in Seqs(j) /\ k \in v .. Len(j) /\ k + 1 \in v .. Len(j)
  BY DEF Numbered, Seqs
<1>2. OpAt(j, k) \in Ops /\ OpAt(j, k).seq = k
  BY <1>1, OpShape
<1> QED BY <1>1, <1>2 DEF Run, StepOf

\* A point carries no anchors of ops to come, nor of those before its time, nor of those
\* that delete nothing.
LEMMA RunFresh ==
  ASSUME NEW j, Numbered(j), NEW v \in 0 .. Len(j), NEW P, Run(P, j, v),
         NEW m \in Nat, NEW k \in v .. Len(j), m >= k \/ m < v \/ DelLen(OpAt(j, m)) = 0
  PROVE  Marks(P[k], m) = {}
<1> DEFINE S == {n \in Nat : v + n <= k => Marks(P[v + n], m) = {}}
<1>1. v \in Nat /\ k \in Nat /\ Len(j) \in Nat /\ v <= k /\ k <= Len(j)
  BY DEF Numbered
<1>2. 0 \in S
  <2>1. v + 0 = v /\ P[v].anchored = {}
    BY <1>1 DEF Run
  <2> QED BY <2>1 DEF Marks
<1>3. ASSUME NEW n \in Nat, n \in S PROVE n + 1 \in S
  <2> SUFFICES ASSUME v + (n + 1) <= k PROVE Marks(P[v + (n + 1)], m) = {}
    OBVIOUS
  <2> DEFINE x == v + n
  <2>1. x \in v .. (Len(j) - 1) /\ v + (n + 1) = x + 1 /\ x < k /\ v + n <= k
    BY <1>1
  <2>2. Marks(P[x], m) = {}
    BY <1>3, <2>1
  <2> HIDE DEF x
  <2>3. /\ OpAt(j, x) \in Ops /\ OpAt(j, x).seq = x /\ P[x] \in Points
        /\ \E right : P[x + 1] = Carry(j, InEffect(j), P[x], OpAt(j, x), right)
    <3>1. StepOf(P, j, x)
      BY <2>1, RunStep
    <3> QED BY <3>1 DEF StepOf
  <2>4. m # OpAt(j, x).seq \/ DelLen(OpAt(j, x)) = 0
    BY <1>1, <2>1, <2>3
  <2>5. Marks(P[x + 1], m) \subseteq Marks(P[x], m)
    BY <2>3, <2>4, CarryMarks
  <2> QED BY <2>1, <2>2, <2>5
<1>4. \A n \in Nat : n \in S
  <2> HIDE DEF S
  <2> QED BY <1>2, <1>3, Inductive
<1>5. k - v \in Nat /\ v + (k - v) = k /\ v + (k - v) <= k
  BY <1>1
<1>6. k - v \in S
  BY <1>4, <1>5
<1> QED BY <1>5, <1>6

\* A point stays held until the op that holds it.
LEMMA RunHeld ==
  ASSUME NEW j, Numbered(j), NEW v \in 0 .. Len(j), NEW P, Run(P, j, v),
         NEW a \in v .. Len(j), NEW b \in v .. Len(j), a <= b,
         P[a].held, \A k \in a .. (b - 1) : k # P[a].by
  PROVE  P[b] = P[a]
<1> DEFINE S == {n \in Nat : a + n <= b => P[a + n] = P[a]}
<1>1. v \in Nat /\ a \in Nat /\ b \in Nat /\ Len(j) \in Nat /\ v <= a /\ b <= Len(j)
  BY DEF Numbered
<1>2. 0 \in S
  BY <1>1
<1>3. ASSUME NEW n \in Nat, n \in S PROVE n + 1 \in S
  <2> SUFFICES ASSUME a + (n + 1) <= b PROVE P[a + (n + 1)] = P[a]
    OBVIOUS
  <2> DEFINE x == a + n
  <2>1. x \in v .. (Len(j) - 1) /\ a + (n + 1) = x + 1 /\ a + n <= b /\ x \in a .. (b - 1)
    BY <1>1
  <2>2. P[x] = P[a]
    BY <1>3, <2>1
  <2> HIDE DEF x
  <2>3. /\ OpAt(j, x) \in Ops /\ OpAt(j, x).seq = x /\ P[x] \in Points
        /\ \E right : P[x + 1] = Carry(j, InEffect(j), P[x], OpAt(j, x), right)
    <3>1. StepOf(P, j, x)
      BY <2>1, RunStep
    <3> QED BY <3>1 DEF StepOf
  <2>4. P[x + 1] = P[x]
    BY <2>1, <2>2, <2>3, CarryHeld
  <2> QED BY <2>1, <2>2, <2>4
<1>4. \A n \in Nat : n \in S
  <2> HIDE DEF S
  <2> QED BY <1>2, <1>3, Inductive
<1>5. b - a \in Nat /\ a + (b - a) = b
  BY <1>1
<1> QED BY <1>1, <1>4, <1>5

Untouched(j, a, b, m) == \A k \in a .. (b - 1) : k # m /\ OpAt(j, k).undoes # m

\* The anchors of an op stay until an op that takes it back, and none are added.
LEMMA RunMarks ==
  ASSUME NEW j, Numbered(j), NEW v \in 0 .. Len(j), NEW P, Run(P, j, v), NEW m \in Nat,
         NEW a \in v .. Len(j), NEW b \in v .. Len(j), a <= b,
         Untouched(j, a, b, m)
  PROVE  Marks(P[b], m) = Marks(P[a], m)
<1> DEFINE S == {n \in Nat : a + n <= b => Marks(P[a + n], m) = Marks(P[a], m)}
<1>1. v \in Nat /\ a \in Nat /\ b \in Nat /\ Len(j) \in Nat /\ v <= a /\ b <= Len(j)
  BY DEF Numbered
<1>2. 0 \in S
  BY <1>1
<1>3. ASSUME NEW n \in Nat, n \in S PROVE n + 1 \in S
  <2> SUFFICES ASSUME a + (n + 1) <= b PROVE Marks(P[a + (n + 1)], m) = Marks(P[a], m)
    OBVIOUS
  <2> DEFINE x == a + n
  <2>1. x \in v .. (Len(j) - 1) /\ a + (n + 1) = x + 1 /\ a + n <= b /\ x \in a .. (b - 1)
    BY <1>1
  <2>2. Marks(P[x], m) = Marks(P[a], m)
    BY <1>3, <2>1
  <2> HIDE DEF x
  <2>3. /\ OpAt(j, x) \in Ops /\ OpAt(j, x).seq = x /\ P[x] \in Points
        /\ \E right : P[x + 1] = Carry(j, InEffect(j), P[x], OpAt(j, x), right)
    <3>1. StepOf(P, j, x)
      BY <2>1, RunStep
    <3> QED BY <3>1 DEF StepOf
  <2>4. m # OpAt(j, x).seq /\ m # OpAt(j, x).undoes
    BY <2>1, <2>3 DEF Untouched
  <2>5. Marks(P[x + 1], m) = Marks(P[x], m)
    <3>1. PICK right : P[x + 1] = Carry(j, InEffect(j), P[x], OpAt(j, x), right)
      BY <2>3
    <3> QED BY <2>3, <2>4, <3>1, CarryKeepsMarks
  <2> QED BY <2>1, <2>2, <2>5
<1>4. \A n \in Nat : n \in S
  <2> HIDE DEF S
  <2> QED BY <1>2, <1>3, Inductive
<1>5. b - a \in Nat /\ a + (b - a) = b
  BY <1>1
<1> QED BY <1>1, <1>4, <1>5

\* An op that takes another back in effect is the only one to do so.
LEMMA OneTaker ==
  ASSUME NEW j, Numbered(j), Ordered(j), NEW v \in Nat, Nested(j, v),
         NEW q \in v .. (Len(j) - 1), Takes(j, q)
  PROVE  LET s == OpAt(j, q).undoes
         IN  /\ s \in Nat /\ v <= s /\ s < q /\ s \in Seqs(j) /\ q \in Seqs(j) /\ Between(j, s, q)
             /\ LiveReversers(j, InEffect(j), s) = {q}
<1> DEFINE s == OpAt(j, q).undoes
<1>1. j \in Seq(Ops) /\ Len(j) \in Nat /\ q \in Nat /\ q \in Seqs(j)
  BY DEF Numbered, Seqs
<1>2. s \in 0 .. (q - 1) /\ s >= v /\ Between(j, s, q) /\ OpAt(j, q).kind # "edit"
  BY <1>1 DEF Takes, Ordered, Nested
<1>3. s \in Nat /\ s < q /\ s \in Seqs(j)
  <2> HIDE DEF s
  <2> QED BY <1>1, <1>2 DEF Seqs
<1>4. q \in Reversers(j, s) /\ InEffect(j)[q]
  BY <1>1, <1>2 DEF Reversers, Takes, LiveOps
<1>5. ASSUME NEW r \in Reversers(j, s), InEffect(j)[r] PROVE r = q
  <2>1. r \in Seqs(j) /\ r \in (s + 1) .. (Len(j) - 1) /\ OpAt(j, r).kind # "edit"
    <3> HIDE DEF s
    <3> QED BY <1>1, <1>3, LaterReversers
  <2>2. OpAt(j, r).undoes = s
    BY DEF Reversers
  <2>3. Takes(j, r)
    BY <1>5, <2>1 DEF Takes, LiveOps
  <2> HIDE DEF s
  <2>4. r \in v .. (Len(j) - 1) /\ r \in Nat
    BY <1>2, <1>3, <2>1
  <2>5. Between(j, s, r)
    BY <2>2, <2>3, <2>4 DEF Nested
  <2>6. ~(r < q)
    <3> SUFFICES ASSUME r < q PROVE FALSE
      OBVIOUS
    <3>1. r \in (s + 1) .. (q - 1)
      BY <1>1, <1>3, <2>1, <2>4
    <3> QED BY <1>2, <2>1, <2>2, <3>1 DEF Between
  <2>7. ~(q < r)
    <3> SUFFICES ASSUME q < r PROVE FALSE
      OBVIOUS
    <3>1. q \in (s + 1) .. (r - 1)
      BY <1>1, <1>3, <2>4
    <3> QED BY <1>2, <2>5, <3>1 DEF Between, s
  <2> QED BY <1>1, <2>4, <2>6, <2>7
<1>6. LiveReversers(j, InEffect(j), s) = {r \in Reversers(j, s) : InEffect(j)[r]}
  BY DEF LiveReversers
<1>7. LiveReversers(j, InEffect(j), s) = {q}
  <2> HIDE DEF s
  <2> QED BY <1>4, <1>5, <1>6
<1> QED BY <1>1, <1>2, <1>3, <1>7

\* A point that is not held is where it was after ops that take back each other and
\* nothing else.
LEMMA Returns ==
  ASSUME NEW j, Numbered(j), TurnedRound(j), Ordered(j), EditsUndoNothing(j),
         NEW v \in 0 .. Len(j), Nested(j, v), PairsMeet(j, v), NoZero(j, v), NEW P, Run(P, j, v),
         NEW a \in v .. Len(j), NEW b \in v .. Len(j), a <= b, Balanced(j, a, b), ~P[a].held
  PROVE  ~P[b].held /\ P[b].at = P[a].at
<1> DEFINE live == InEffect(j)
           R == {x \in Nat \X Nat : ~P[x[1]].held => ~P[x[2]].held /\ P[x[2]].at = P[x[1]].at}
<1>1. v \in Nat /\ Len(j) \in Nat /\ j \in Seq(Ops) /\ \A k \in v .. Len(j) : k \in Nat
  BY DEF Numbered
<1>2. \A k \in v .. Len(j) : <<k, k>> \in R
  BY <1>1
<1>3. \A x, y, z \in v .. Len(j) : <<x, y>> \in R /\ <<y, z>> \in R => <<x, z>> \in R
  BY <1>1
<1>4. ASSUME NEW q \in v .. (Len(j) - 1), Takes(j, q), <<OpAt(j, q).undoes + 1, q>> \in R
      PROVE  <<OpAt(j, q).undoes, q + 1>> \in R
  <2> DEFINE k == OpAt(j, q)
             s == k.undoes
             o == OpAt(j, s)
  <2>1. /\ s \in Nat /\ v <= s /\ s < q /\ s \in Seqs(j) /\ q \in Seqs(j) /\ Between(j, s, q)
        /\ LiveReversers(j, live, s) = {q} /\ q \in Nat
    BY <1>1, <1>4, OneTaker
  <2>2. k.pos = o.pos /\ k.kind # "edit" /\ s = k.undoes
    BY <1>4 DEF PairsMeet, Takes
  <2>3. k.del = o.ins /\ k.ins = o.del
    BY <2>1, <2>2 DEF TurnedRound
  <2> HIDE DEF s
  <2>4. /\ s \in v .. (Len(j) - 1) /\ s \in v .. Len(j) /\ s + 1 \in v .. Len(j) /\ q \in v .. Len(j)
        /\ s + 1 <= q /\ q + 1 \in Nat /\ s + 1 \in Nat
    BY <1>1, <2>1
  <2>5. /\ o \in Ops /\ o.seq = s /\ P[s] \in Points
        /\ \E right : P[s + 1] = Carry(j, live, P[s], o, right)
    BY <2>4, RunStep DEF StepOf
  <2>6. /\ k \in Ops /\ k.seq = q /\ P[q] \in Points /\ P[q + 1] \in Points
        /\ \E right : P[q + 1] = Carry(j, live, P[q], k, right)
    BY <1>4, RunStep DEF StepOf
  <2>7. Inverts(k, o)
    BY <2>2, <2>3, <2>5 DEF Inverts
  <2> HIDE DEF o, k
  <2> SUFFICES ASSUME ~P[s].held PROVE ~P[q + 1].held /\ P[q + 1].at = P[s].at
    <3>1. <<s, q + 1>> \in Nat \X Nat
      BY <2>1, <2>4
    <3> QED BY <3>1 DEF s, k
  <2>8. ~P[s + 1].held => ~P[q].held /\ P[q].at = P[s + 1].at
    <3>1. <<s + 1, q>> \in R
      BY <1>4 DEF s, k
    <3> QED BY <3>1
  <2>9. Marks(P[s], s) = {}
    <3>1. s \in Nat /\ s \in v .. Len(j) /\ s >= s
      BY <2>1, <2>4
    <3> QED BY <3>1, RunFresh
  <2>10. ASSUME P[s + 1].held PROVE P[q] = P[s + 1]
    <3>1. PICK right : P[s + 1] = Carry(j, live, P[s], o, right)
      BY <2>5
    <3>2. P[s + 1].by = q
      <4> DEFINE c == P[s + 1]
                 r == LiveReversers(j, live, o.seq)
                 by == CHOOSE x \in r : \A y \in r : x <= y
                 off == P[s].at - o.pos
                 n == DelLen(o)
      <4>1. CarriedTo(c, P[s], o, right, r)
        BY <2>5, <3>1, CarryMoves
      <4>2. \A p1, z, an : ~Put(p1, z, an).held
        BY DEF Put
      <4>3. o.pos \in Nat /\ n \in Nat /\ P[s].at \in Nat
        BY <2>5 DEF Ops, DelLen, Points
      <4>4. r = {q} /\ by = q
        <5>1. r = {q} /\ q <= q
          BY <2>1, <2>5
        <5> HIDE DEF r
        <5> QED BY <5>1
      <4>5. o.pos < P[s].at /\ P[s].at < o.pos + n
        <5> HIDE DEF r, by, off
        <5>1. c.held /\ ~P[s].held
          BY <2>10
        <5>2. ~(n = 0 /\ o.pos = P[s].at)
          BY <4>1, <4>2, <5>1 DEF CarriedTo
        <5>3. ~(n # 0 /\ o.pos + n = P[s].at)
          <6> DEFINE no == FALSE
                     an == Anchor(P[s], o, no)
          <6>1. n # 0 /\ o.pos + n = P[s].at => \E z : c = Put(P[s], z, an)
            BY <4>1, Zenon DEF CarriedTo
          <6> HIDE DEF an
          <6> QED BY <4>2, <5>1, <6>1
        <5>4. ~(o.pos + n < P[s].at)
          BY <4>1, <4>2, <5>1 DEF CarriedTo
        <5>5. ~(n # 0 /\ o.pos = P[s].at)
          <6> DEFINE yes == TRUE
                     an == Anchor(P[s], o, yes)
          <6>1. n # 0 /\ o.pos = P[s].at => \E z : c = Put(P[s], z, an)
            BY <4>1, Zenon DEF CarriedTo
          <6> HIDE DEF an
          <6> QED BY <4>2, <5>1, <6>1
        <5>6. ~(o.pos > P[s].at)
          BY <4>1, <5>1 DEF CarriedTo
        <5> HIDE DEF n
        <5> QED BY <4>3, <5>2, <5>3, <5>4, <5>5, <5>6
      <4> DEFINE hp == [at |-> P[s].at, held |-> TRUE, by |-> by, off |-> off,
                        anchored |-> P[s].anchored]
      <4>6. c = hp
        <5>1. r # {}
          BY <4>4
        <5> QED BY <4>1, <4>5, <5>1 DEF CarriedTo
      <4>7. hp.by = by
        <5> HIDE DEF by, off
        <5> QED OBVIOUS
      <4> HIDE DEF hp, by, r
      <4> QED BY <4>4, <4>6, <4>7
    <3>3. \A x \in (s + 1) .. (q - 1) : x # P[s + 1].by
      BY <2>1, <3>2
    <3> QED BY <2>4, <2>10, <3>3, RunHeld
  <2>11. ASSUME DelLen(o) # 0 PROVE Marks(P[q], s) = Marks(P[s + 1], s)
    <3>1. s # 0
      <4> SUFFICES ASSUME s = 0 PROVE FALSE
        OBVIOUS
      <4>1. v = 0
        BY <1>1, <2>1
      <4> QED BY <2>11, <4>1 DEF NoZero, o
    <3>2. ASSUME NEW x \in (s + 1) .. (q - 1) PROVE x # s /\ OpAt(j, x).undoes # s
      <4>1. x # s /\ x \in Seqs(j)
        BY <1>1, <2>1 DEF Seqs
      <4>2. CASE IsEdit(j, x)
        BY <3>1, <4>1, <4>2 DEF EditsUndoNothing
      <4>3. CASE ~IsEdit(j, x)
        BY <2>1, <4>1, <4>3 DEF Between, IsEdit
      <4> QED BY <4>2, <4>3
    <3>3. Untouched(j, s + 1, q, s)
      BY <3>2 DEF Untouched
    <3> QED BY <2>1, <2>4, <3>3, RunMarks
  <2>12. PICK right : P[s + 1] = Carry(j, live, P[s], o, right)
    BY <2>5
  <2>13. PICK left : P[q + 1] = Carry(j, live, P[q], k, left)
    BY <2>6
  <2>14. LeftThere(P[q], P[s + 1], o)
    BY <2>5, <2>8, <2>10, <2>11 DEF LeftThere
  <2>15. LiveReversers(j, live, o.seq) = {k.seq} /\ Marks(P[s], o.seq) = {}
    BY <2>1, <2>5, <2>6, <2>9
  <2> HIDE DEF live
  <2>16. LeftThere(P[q], Carry(j, live, P[s], o, right), o)
    BY <2>12, <2>14
  <2>17. LET c == Carry(j, live, P[q], k, left) IN ~c.held /\ c.at = P[s].at
    BY <2>5, <2>6, <2>7, <2>15, <2>16, PairReturns
  <2> QED BY <2>13, <2>17
<1> HIDE DEF R
<1>5. \A x, y \in v .. Len(j) : x <= y /\ Balanced(j, x, y) => <<x, y>> \in R
  BY <1>1, <1>2, <1>3, <1>4, Nesting
<1>6. <<a, b>> \in R
  BY <1>5
<1> QED BY <1>6 DEF R

\* Taking out what a splice put in and putting back what it took out undoes it.
LEMMA SpliceBack ==
  ASSUME NEW B, NEW d \in Seq(B), NEW ins \in Seq(B), NEW pos \in Nat, NEW n \in Nat,
         pos + n <= Len(d)
  PROVE  Splice(Splice(d, pos, n, ins), pos, Len(ins), SubSeq(d, pos + 1, pos + n)) = d
<1> DEFINE k == Len(ins)
           del == SubSeq(d, pos + 1, pos + n)
           e == Splice(d, pos, n, ins)
           f == Splice(e, pos, k, del)
<1>1. /\ k \in Nat /\ Len(d) \in Nat /\ DOMAIN d = 1 .. Len(d)
      /\ del \in Seq(B) /\ Len(del) = n
  BY TakenShape
<1>2. \A x \in 1 .. n : del[x] = d[pos + x]
  <2> DEFINE lo == pos + 1
             hi == pos + n
  <2>1. lo \in 1 .. (Len(d) + 1) /\ hi \in 0 .. Len(d)
    BY <1>1
  <2>2. \A x \in 1 .. n : x \in 1 .. (hi - lo + 1) /\ lo + x - 1 = pos + x
    BY <1>1
  <2> QED BY <1>1, <2>1, <2>2
<1>3. e \in Seq(B) /\ Spliced(e, d, pos, n, ins)
  BY SpliceTyped, SpliceAt
<1>4. Len(e) = Len(d) + k - n /\ pos + k <= Len(e)
  <2> HIDE DEF e
  <2> QED BY <1>1, <1>3 DEF Spliced
<1> HIDE DEF del, e
<1>5. f \in Seq(B) /\ Spliced(f, e, pos, k, del)
  BY <1>1, <1>3, <1>4, SpliceTyped, SpliceAt
<1> HIDE DEF f
<1>6. Len(f) = Len(d)
  BY <1>1, <1>4, <1>5 DEF Spliced
<1>7. ASSUME NEW i \in 1 .. Len(d) PROVE f[i] = d[i]
  <2>1. CASE i <= pos
    <3>1. i \in 1 .. pos
      BY <2>1
    <3> QED BY <1>3, <1>5, <3>1 DEF Spliced
  <2>2. CASE pos < i /\ i <= pos + n
    <3> DEFINE x == i - pos
    <3>1. x \in 1 .. n /\ pos + x = i
      BY <2>2
    <3>2. \A y \in 1 .. n : f[pos + y] = del[y]
      BY <1>1, <1>5 DEF Spliced
    <3> HIDE DEF x
    <3> QED BY <1>2, <3>1, <3>2
  <2>3. CASE pos + n < i
    <3> DEFINE y == i + k - n
    <3>1. i \in (pos + n + 1) .. Len(d) /\ y \in (pos + k + 1) .. Len(e) /\ y + n - k = i
      BY <1>1, <1>4, <2>3
    <3>2. e[y] = d[i]
      BY <1>3, <3>1 DEF Spliced
    <3> HIDE DEF y
    <3>3. f[y + Len(del) - k] = e[y]
      BY <1>5, <3>1 DEF Spliced
    <3> QED BY <1>1, <3>1, <3>2, <3>3
  <2> QED BY <1>1, <2>1, <2>2, <2>3
<1>8. f = d
  BY <1>1, <1>5, <1>6, <1>7
<1> QED BY <1>8 DEF f, e, del

\* What has been taken back recorded what it removed.
TakenRecorded(j, v) ==
    \A q \in v .. (Len(j) - 1) : Takes(j, q) => RecordsRemoved(j, OpAt(j, q).undoes)

\* Ops that take back each other and nothing else leave the document as it was.
LEMMA DocReturns ==
  ASSUME NEW j, Numbered(j), TurnedRound(j), Ordered(j), StaysInside(Base, j),
         NEW v \in 0 .. Len(j), Nested(j, v), PairsMeet(j, v), TakenRecorded(j, v),
         NEW a \in v .. Len(j), NEW b \in v .. Len(j), a <= b, Balanced(j, a, b)
  PROVE  ReplayTo(Base, j, b) = ReplayTo(Base, j, a)
<1> DEFINE D(k) == ReplayTo(Base, j, k)
           R == {x \in Nat \X Nat : D(x[2]) = D(x[1])}
<1>1. v \in Nat /\ Len(j) \in Nat /\ j \in Seq(Ops) /\ \A k \in v .. Len(j) : k \in Nat
  BY DEF Numbered
<1>2. \A k \in v .. Len(j) : <<k, k>> \in R
  BY <1>1
<1>3. \A x, y, z \in v .. Len(j) : <<x, y>> \in R /\ <<y, z>> \in R => <<x, z>> \in R
  <2> HIDE DEF D
  <2> QED BY <1>1
<1>4. ASSUME NEW q \in v .. (Len(j) - 1), Takes(j, q), <<OpAt(j, q).undoes + 1, q>> \in R
      PROVE  <<OpAt(j, q).undoes, q + 1>> \in R
  <2> DEFINE k == OpAt(j, q)
             s == k.undoes
             o == OpAt(j, s)
  <2>1. s \in Nat /\ v <= s /\ s < q /\ s \in Seqs(j) /\ q \in Seqs(j) /\ q \in Nat
    BY <1>1, <1>4, OneTaker
  <2>2. k.pos = o.pos /\ k.kind # "edit"
    BY <1>4 DEF PairsMeet, Takes
  <2>3. k.del = o.ins /\ k.ins = o.del
    BY <2>1, <2>2 DEF TurnedRound
  <2>4. SubSeq(D(s), o.pos + 1, o.pos + DelLen(o)) = o.del
    BY <1>4 DEF TakenRecorded, RecordsRemoved
  <2>5. D(q) = D(s + 1)
    BY <1>4
  <2>6. /\ D(s + 1) = Apply(D(s), o) /\ D(q + 1) = Apply(D(q), k) /\ D(s) \in Seq(Bytes)
        /\ s + 1 \in Nat /\ q + 1 \in Nat
    <3> HIDE DEF s
    <3>1. s \in 0 .. Len(j) /\ s + 1 \in Nat /\ q + 1 \in Nat
      BY <1>1, <2>1 DEF Seqs
    <3>2. D(s) \in Seq(Bytes)
      BY <1>1, <3>1, BaseTyped, ReplayNext
    <3>3. D(s + 1) = Apply(D(s), o)
      BY <1>1, <2>1, BaseTyped, ReplayOp
    <3>4. D(q + 1) = Apply(D(q), k)
      BY <1>1, <2>1, BaseTyped, ReplayOp
    <3> QED BY <3>1, <3>2, <3>3, <3>4
  <2>7. /\ o \in Ops /\ o.pos \in Nat /\ DelLen(o) \in Nat /\ o.ins \in Seq(Bytes)
        /\ o.pos + DelLen(o) <= Len(D(s))
    BY <2>1, OpShape DEF StaysInside
  <2> HIDE DEF D, o, s
  <2>8. D(q + 1) = Splice(Splice(D(s), o.pos, DelLen(o), o.ins), o.pos, Len(o.ins), o.del)
    BY <2>2, <2>3, <2>5, <2>6 DEF Apply, DelLen
  <2> HIDE DEF k
  <2>9. D(q + 1) = D(s)
    <3> DEFINE d == D(s)
               pos == o.pos
               n == DelLen(o)
               ins == o.ins
    <3>1. d \in Seq(Bytes) /\ ins \in Seq(Bytes) /\ pos \in Nat /\ n \in Nat /\ pos + n <= Len(d)
      BY <2>6, <2>7
    <3>2. D(q + 1) = Splice(Splice(d, pos, n, ins), pos, Len(ins), SubSeq(d, pos + 1, pos + n))
      BY <2>4, <2>8
    <3> HIDE DEF d, pos, n, ins
    <3>3. D(q + 1) = d
      BY <3>1, <3>2, SpliceBack
    <3> QED BY <3>3 DEF d
  <2> QED BY <2>1, <2>6, <2>9 DEF s, k
<1> HIDE DEF R
<1>5. \A x, y \in v .. Len(j) : x <= y /\ Balanced(j, x, y) => <<x, y>> \in R
  BY <1>1, <1>2, <1>3, <1>4, Nesting
<1>6. <<a, b>> \in R
  BY <1>5
<1> QED BY <1>6 DEF R

-----------------------------------------------------------------------------
(* A range, carried past what is undone in order.                          *)

\* What an op that does not damage a range does to its two points.
LEMMA CarriedIs ==
  ASSUME NEW j, NEW live, NEW o \in Ops, NEW w \in Walks
  PROVE  /\ Carried(j, live, w, o).bad = Whole =>
              /\ w.bad = Whole
              /\ \E right : Carried(j, live, w, o).lo = Carry(j, live, w.lo, o, right)
              /\ \E right : Carried(j, live, w, o).hi = Carry(j, live, w.hi, o, right)
         /\ w.bad = Whole /\ ~Damages(live, o, w.lo, w.hi) => Carried(j, live, w, o).bad = Whole
<1> DEFINE c == Carried(j, live, w, o)
           yes == TRUE
           no == ~w.lo.held /\ ~w.hi.held /\ w.lo.at = w.hi.at
           a == Carry(j, live, w.lo, o, yes)
           b == Carry(j, live, w.hi, o, no)
<1>1. w = [lo |-> w.lo, hi |-> w.hi, bad |-> w.bad] /\ o.seq \in Nat
  BY DEF Walks, Ops
<1>2. c = IF w.bad # Whole THEN w
          ELSE IF Damages(live, o, w.lo, w.hi) THEN [w EXCEPT !.bad = o.seq]
          ELSE [w EXCEPT !.lo = a, !.hi = b]
  BY DEF Carried
<1> HIDE DEF c, a, b
<1>3. CASE w.bad # Whole
  BY <1>2, <1>3 DEF c
<1>4. CASE w.bad = Whole /\ Damages(live, o, w.lo, w.hi)
  <2>1. c = [w EXCEPT !.bad = o.seq]
    BY <1>2, <1>4
  <2>2. c.bad = o.seq
    BY <1>1, <2>1
  <2> QED BY <1>1, <1>4, <2>2 DEF Whole, c
<1>5. CASE w.bad = Whole /\ ~Damages(live, o, w.lo, w.hi)
  <2>1. c = [w EXCEPT !.lo = a, !.hi = b]
    BY <1>2, <1>5
  <2>2. c.lo = a /\ c.hi = b /\ c.bad = w.bad
    BY <1>1, <2>1
  <2> QED BY <1>5, <2>2 DEF a, b, c
<1> QED BY <1>3, <1>4, <1>5 DEF c

\* A walk that has not lost its range at the end never lost it.
LEMMA NeverLost ==
  ASSUME NEW j, Numbered(j), TurnedRound(j), NEW base \in 0 .. Len(j),
         NEW lo \in Nat, NEW hi \in Nat, NEW F, Walked(F, j, Start(lo, hi), base),
         F[Len(j) - base].bad = Whole
  PROVE  \A i \in 0 .. (Len(j) - base) : F[i].bad = Whole
<1> DEFINE m == Len(j) - base
           S == {n \in Nat : n <= m => F[m - n].bad = Whole}
<1>1. Len(j) \in Nat /\ base \in Nat /\ m \in Nat /\ base + m = Len(j) /\ m - 0 = m
  BY DEF Numbered
<1>2. \A i \in 0 .. m : F[i] \in Walks
  BY WalksTyped
<1>3. 0 \in S
  BY <1>1
<1>4. ASSUME NEW n \in Nat, n \in S PROVE n + 1 \in S
  <2> SUFFICES ASSUME n + 1 <= m PROVE F[m - (n + 1)].bad = Whole
    OBVIOUS
  <2> DEFINE i == m - (n + 1)
             s == base + i
  <2>1. /\ i \in 0 .. m /\ i + 1 \in 1 .. m /\ i + 1 = m - n /\ n <= m /\ s \in Seqs(j)
        /\ (i + 1) - 1 = i /\ base + (i + 1) - 1 = s
    BY <1>1 DEF Seqs
  <2>2. F[i + 1] = Carried(j, InEffect(j), F[i], OpAt(j, s))
    BY <2>1, Zenon DEF Walked
  <2>3. F[i + 1].bad = Whole
    BY <1>4, <2>1
  <2>4. F[i] \in Walks /\ OpAt(j, s) \in Ops
    BY <1>2, <2>1, OpShape
  <2> HIDE DEF i, s
  <2>5. F[i].bad = Whole
    BY <2>2, <2>3, <2>4, CarriedIs
  <2> QED BY <2>5 DEF i
<1>5. \A n \in Nat : n \in S
  <2> HIDE DEF S
  <2> QED BY <1>3, <1>4, Inductive
<1>6. ASSUME NEW i \in 0 .. m PROVE F[i].bad = Whole
  <2>1. m - i \in Nat /\ m - i <= m /\ m - (m - i) = i
    BY <1>1
  <2>2. m - i \in S
    BY <1>5, <2>1
  <2> QED BY <2>1, <2>2
<1> QED BY <1>6

LowRun(F, j, base) == [k \in base .. Len(j) |-> F[k - base].lo]
HighRun(F, j, base) == [k \in base .. Len(j) |-> F[k - base].hi]

\* The ends of a range that is not lost are carried one by one.
LEMMA WalkIsRun ==
  ASSUME NEW j, Numbered(j), TurnedRound(j), NEW base \in 0 .. Len(j),
         NEW lo \in Nat, NEW hi \in Nat, NEW F, Walked(F, j, Start(lo, hi), base),
         \A i \in 0 .. (Len(j) - base) : F[i].bad = Whole
  PROVE  Run(LowRun(F, j, base), j, base) /\ Run(HighRun(F, j, base), j, base)
<1> DEFINE m == Len(j) - base
           P == LowRun(F, j, base)
           Q == HighRun(F, j, base)
<1>1. Len(j) \in Nat /\ base \in Nat /\ m \in Nat /\ base + m = Len(j) /\ base - base = 0
      /\ base \in base .. Len(j)
  BY DEF Numbered
<1>2. \A i \in 0 .. m : F[i] \in Walks
  BY WalksTyped
<1>3. \A k \in base .. Len(j) : P[k] = F[k - base].lo /\ Q[k] = F[k - base].hi
  BY DEF LowRun, HighRun
<1>4. \A k \in base .. Len(j) : k - base \in 0 .. m
  BY <1>1
<1> HIDE DEF P, Q
<1>5. \A k \in base .. Len(j) : P[k] \in Points /\ Q[k] \in Points
  BY <1>2, <1>3, <1>4 DEF Walks
<1>6. P[base].anchored = {} /\ Q[base].anchored = {}
  <2>1. F[0] = Start(lo, hi)
    BY DEF Walked
  <2>2. Start(lo, hi).lo = PointAt(lo) /\ Start(lo, hi).hi = PointAt(hi)
    BY DEF Start
  <2>3. \A p : PointAt(p).anchored = {}
    BY DEF PointAt
  <2> QED BY <1>1, <1>3, <2>1, <2>2, <2>3
<1>7. ASSUME NEW k \in base .. (Len(j) - 1)
      PROVE  /\ \E right : P[k + 1] = Carry(j, InEffect(j), P[k], OpAt(j, k), right)
             /\ \E right : Q[k + 1] = Carry(j, InEffect(j), Q[k], OpAt(j, k), right)
  <2> DEFINE i == k - base
  <2>1. /\ i \in 0 .. m /\ i + 1 \in 1 .. m /\ i + 1 \in 0 .. m /\ (k + 1) - base = i + 1
        /\ (i + 1) - 1 = i /\ base + (i + 1) - 1 = k /\ k \in Seqs(j)
        /\ k \in base .. Len(j) /\ k + 1 \in base .. Len(j)
    BY <1>1 DEF Seqs
  <2>2. F[i + 1] = Carried(j, InEffect(j), F[i], OpAt(j, k))
    BY <2>1, Zenon DEF Walked
  <2>3. F[i] \in Walks /\ OpAt(j, k) \in Ops /\ F[i + 1].bad = Whole
    BY <1>2, <2>1, OpShape
  <2>4. P[k] = F[i].lo /\ Q[k] = F[i].hi /\ P[k + 1] = F[i + 1].lo /\ Q[k + 1] = F[i + 1].hi
    BY <1>3, <2>1
  <2> HIDE DEF i
  <2> QED BY <2>2, <2>3, <2>4, CarriedIs
<1> QED BY <1>5, <1>6, <1>7 DEF Run, P, Q

\* An op of a balanced stretch is no edit in effect.
LEMMA NoLiveEdit ==
  ASSUME NEW j, Numbered(j), Ordered(j), NEW a \in Nat, NEW b \in Nat, b <= Len(j),
         Balanced(j, a, b), NEW k \in a .. (b - 1)
  PROVE  ~(OpAt(j, k).kind = "edit" /\ InEffect(j)[OpAt(j, k).seq])
<1> SUFFICES ASSUME OpAt(j, k).kind = "edit", InEffect(j)[OpAt(j, k).seq] PROVE FALSE
  OBVIOUS
<1>1. k \in Seqs(j) /\ j \in Seq(Ops) /\ Len(j) \in Nat /\ OpAt(j, k).seq = k /\ k \in Nat
  BY DEF Numbered, Seqs
<1>2. Undone(j, k, b)
  BY DEF Balanced, Takes
<1>3. PICK q \in (k + 1) .. (b - 1) : Takes(j, q) /\ OpAt(j, q).undoes = k
  BY <1>2 DEF Undone
<1>4. q \in Seqs(j)
  BY <1>1 DEF Seqs
<1>5. q \in Reversers(j, k) /\ q \in LiveOps(j)
  BY <1>3, <1>4 DEF Reversers, Takes
<1>6. k \in LiveOps(j)
  BY <1>1 DEF LiveOps
<1> QED BY <1>1, <1>5, <1>6, LivenessIs

Unmoved(r, lo, hi) == r.ok /\ r.lo = lo /\ r.hi = hi

\* A range carried over ops that take back each other stays where it is.
LEMMA RebaseReturns ==
  ASSUME NEW j, Numbered(j), TurnedRound(j), Ordered(j), EditsUndoNothing(j),
         NEW base \in 0 .. Len(j), Nested(j, base), PairsMeet(j, base), NoZero(j, base),
         Balanced(j, base, Len(j)), NEW lo \in Nat, NEW hi \in Nat
  PROVE  Unmoved(Rebase(j, lo, hi, base), lo, hi)
<1> DEFINE m == Len(j) - base
           w0 == Start(lo, hi)
           live == InEffect(j)
<1>1. Len(j) \in Nat /\ base \in Nat /\ m \in Nat /\ base + m = Len(j) /\ base - base = 0
      /\ base \in base .. Len(j) /\ Len(j) \in base .. Len(j) /\ base <= Len(j)
  BY DEF Numbered
<1>2. PICK F : Walked(F, j, w0, base) /\ Rebase(j, lo, hi, base) = Landing(F[m])
  BY WalkRuns
<1>3. \A i \in 0 .. m : F[i] \in Walks
  BY <1>2, WalksTyped
<1>4. /\ F[0] = w0 /\ w0.lo = PointAt(lo) /\ w0.hi = PointAt(hi) /\ w0.bad = Whole
      /\ PointAt(lo).at = lo /\ PointAt(lo).held = FALSE
      /\ PointAt(hi).at = hi /\ PointAt(hi).held = FALSE
  BY <1>2 DEF Walked, Start, PointAt
<1> HIDE DEF w0
<1> DEFINE S == {i \in Nat : i <= m => F[i].bad = Whole}
<1>5. 0 \in S
  BY <1>4
<1>6. ASSUME NEW i \in Nat, i \in S PROVE i + 1 \in S
  <2> SUFFICES ASSUME i + 1 <= m PROVE F[i + 1].bad = Whole
    OBVIOUS
  <2> DEFINE s == base + i
             o == OpAt(j, s)
  <2>1. /\ i \in 0 .. m /\ i + 1 \in 1 .. m /\ i <= m /\ s \in Seqs(j) /\ s \in base .. (Len(j) - 1)
        /\ (i + 1) - 1 = i /\ base + (i + 1) - 1 = s
    BY <1>1 DEF Seqs
  <2>2. F[i + 1] = Carried(j, live, F[i], o)
    BY <1>2, <2>1, Zenon DEF Walked
  <2>3. F[i] \in Walks /\ o \in Ops /\ F[i].bad = Whole
    BY <1>3, <1>6, <2>1, OpShape
  <2>4. ~(o.kind = "edit" /\ live[o.seq])
    BY <1>1, <2>1, NoLiveEdit
  <2> HIDE DEF s, o, live
  <2>5. ~Damages(live, o, F[i].lo, F[i].hi)
    BY <2>4 DEF Damages
  <2> QED BY <2>2, <2>3, <2>5, CarriedIs
<1>7. \A i \in Nat : i \in S
  <2> HIDE DEF S
  <2> QED BY <1>5, <1>6, Inductive
<1>8. \A i \in 0 .. m : F[i].bad = Whole
  BY <1>1, <1>7
<1> DEFINE P == LowRun(F, j, base)
           Q == HighRun(F, j, base)
<1>9. Run(P, j, base) /\ Run(Q, j, base)
  BY <1>2, <1>8, WalkIsRun DEF w0
<1>10. /\ P[base] = F[0].lo /\ Q[base] = F[0].hi /\ P[Len(j)] = F[m].lo /\ Q[Len(j)] = F[m].hi
  BY <1>1 DEF LowRun, HighRun
<1> HIDE DEF P, Q, m
<1>11. ~P[base].held /\ P[base].at = lo /\ ~Q[base].held /\ Q[base].at = hi
  BY <1>4, <1>10
<1>12. ~P[Len(j)].held /\ P[Len(j)].at = P[base].at
  BY <1>1, <1>9, <1>11, Returns
<1>13. ~Q[Len(j)].held /\ Q[Len(j)].at = Q[base].at
  BY <1>1, <1>9, <1>11, Returns
<1>14. F[m].bad = Whole /\ ~F[m].lo.held /\ ~F[m].hi.held /\ F[m].lo.at = lo /\ F[m].hi.at = hi
  BY <1>1, <1>8, <1>10, <1>11, <1>12, <1>13
<1>15. Rebase(j, lo, hi, base) = [ok |-> TRUE, lo |-> F[m].lo.at, hi |-> F[m].hi.at, at |-> 0]
  BY <1>2, <1>14, Zenon DEF Landing
<1> QED BY <1>14, <1>15 DEF Unmoved

-----------------------------------------------------------------------------
(* Where reversals are placed.                                             *)

\* Reversal q of j was placed where the text its target put there had come to.
Sited(j, q) ==
    LET s == OpAt(j, q).undoes
        t == OpAt(j, s)
        r == Rebase(SubSeq(j, 1, q), t.pos, t.pos + InsLen(t), s + 1)
    IN  r.ok /\ r.hi - r.lo = InsLen(t) /\ OpAt(j, q).pos = r.lo

AllSited(j) == \A q \in Seqs(j) : ~IsEdit(j, q) => Sited(j, q)

\* p is what j was when its first n ops were all of it.
Before(p, j, n) ==
    /\ Numbered(p) /\ Len(p) = n /\ Seqs(p) = 0 .. (n - 1)
    /\ \A s \in 0 .. (n - 1) : s \in Seqs(j) /\ OpAt(p, s) = OpAt(j, s)

\* The first n ops are such a journal.
LEMMA PrefixBefore ==
  ASSUME NEW j, Numbered(j), NEW n \in 0 .. Len(j)
  PROVE  Before(SubSeq(j, 1, n), j, n)
<1> DEFINE p == SubSeq(j, 1, n)
<1>1. j \in Seq(Ops) /\ Len(j) \in Nat /\ n \in Nat /\ n <= Len(j)
  BY DEF Numbered
<1>2. p \in Seq(Ops) /\ Len(p) = n /\ \A i \in 1 .. n : p[i] = j[i]
  BY <1>1, PrefixOf
<1> HIDE DEF p
<1>3. Seqs(p) = 0 .. (n - 1)
  BY <1>2 DEF Seqs
<1>4. ASSUME NEW s \in 0 .. (n - 1) PROVE s \in Seqs(j) /\ OpAt(p, s) = OpAt(j, s) /\ OpAt(p, s).seq = s
  <2>1. s \in Seqs(j) /\ s + 1 \in 1 .. n
    BY <1>1 DEF Seqs
  <2>2. OpAt(p, s) = OpAt(j, s)
    BY <1>2, <2>1 DEF OpAt
  <2> QED BY <2>1, <2>2 DEF Numbered
<1> QED BY <1>2, <1>3, <1>4 DEF Before, Numbered, p

\* What is said of every op of a journal is true of its first ops.
LEMMA PrefixSound ==
  ASSUME NEW j, Numbered(j), TurnedRound(j), Ordered(j), EditsUndoNothing(j),
         NEW n \in 0 .. Len(j), NEW p, Before(p, j, n)
  PROVE  TurnedRound(p) /\ Ordered(p) /\ EditsUndoNothing(p) /\ p \in Seq(Ops)
<1>1. n \in Nat /\ n <= Len(j) /\ Len(j) \in Nat /\ p \in Seq(Ops)
  BY DEF Numbered, Before
<1>2. ASSUME NEW s \in Seqs(p)
      PROVE  s \in Nat /\ s \in Seqs(j) /\ OpAt(p, s) = OpAt(j, s) /\ s \in 0 .. (n - 1)
  BY <1>1 DEF Before
<1>3. Ordered(p)
  BY <1>2 DEF Ordered
<1>4. EditsUndoNothing(p)
  BY <1>2 DEF EditsUndoNothing, IsEdit
<1>5. TurnedRound(p)
  <2> SUFFICES ASSUME NEW s \in Seqs(p), OpAt(p, s).kind # "edit"
               PROVE  /\ OpAt(p, s).ins = OpAt(p, OpAt(p, s).undoes).del
                      /\ OpAt(p, s).del = OpAt(p, OpAt(p, s).undoes).ins
    BY DEF TurnedRound
  <2>1. OpAt(p, s) = OpAt(j, s) /\ s \in Seqs(j) /\ s \in 0 .. (n - 1)
    BY <1>2
  <2>2. OpAt(j, s).undoes \in 0 .. (s - 1)
    BY <2>1 DEF Ordered
  <2> DEFINE u == OpAt(j, s).undoes
  <2> HIDE DEF u
  <2>3. u \in 0 .. (n - 1)
    BY <1>1, <2>1, <2>2 DEF u
  <2>4. OpAt(p, u) = OpAt(j, u)
    BY <2>3 DEF Before
  <2> QED BY <2>1, <2>4 DEF TurnedRound, u
<1> QED BY <1>1, <1>3, <1>4, <1>5

\* Between an op and the one that takes it back, the same ops are in effect after the
\* second as before it.
LEMMA SameLiveness ==
  ASSUME NEW j, Numbered(j), Ordered(j), NEW v \in Nat, Nested(j, v),
         NEW q \in v .. (Len(j) - 1), Takes(j, q),
         NEW p, Before(p, j, q), Ordered(p)
  PROVE  \A k \in (OpAt(j, q).undoes + 1) .. (q - 1) : k \in LiveOps(p) <=> k \in LiveOps(j)
<1> DEFINE s == OpAt(j, q).undoes
           S == {k \in Nat : k > s => (k \in LiveOps(p) <=> k \in LiveOps(j))}
<1>1. j \in Seq(Ops) /\ Len(j) \in Nat /\ q \in Nat /\ p \in Seq(Ops) /\ Len(p) = q
      /\ Seqs(p) = 0 .. (q - 1)
  BY DEF Numbered, Before
<1>2. s \in Nat /\ v <= s /\ s < q /\ q \in Seqs(j)
  BY OneTaker
<1> HIDE DEF s
<1>3. ASSUME NEW k \in 0 .. (q - 1), \A t \in (k + 1) .. (q - 1) : t \in S PROVE k \in S
  <2> SUFFICES ASSUME k > s PROVE k \in LiveOps(p) <=> k \in LiveOps(j)
    OBVIOUS
  <2>1. k \in Nat /\ k \in Seqs(j) /\ k \in Seqs(p)
    BY <1>1 DEF Before
  <2>2. ASSUME NEW r \in Reversers(j, k), r \in LiveOps(j) PROVE r \in Reversers(p, k) /\ r \in LiveOps(p)
    <3>1. r \in Seqs(j) /\ r \in (k + 1) .. (Len(j) - 1) /\ OpAt(j, r).kind # "edit"
      BY <1>1, <2>1, LaterReversers
    <3>2. OpAt(j, r).undoes = k /\ Takes(j, r)
      BY <2>2, <3>1 DEF Reversers, Takes
    <3>3. r # q
      BY <2>1, <3>2, <1>2 DEF s
    <3>4. ~(q < r)
      <4> SUFFICES ASSUME q < r PROVE FALSE
        OBVIOUS
      <4>1. r \in v .. (Len(j) - 1) /\ q \in (k + 1) .. (r - 1)
        BY <1>1, <1>2, <2>1, <3>1
      <4>2. Between(j, k, r)
        BY <3>2, <4>1 DEF Nested
      <4>3. s >= k + 1
        BY <4>1, <4>2 DEF Between, Balanced, s
      <4> QED BY <1>2, <2>1, <4>3
    <3>5. r \in (k + 1) .. (q - 1) /\ r \in Seqs(p) /\ r \in Nat /\ r > s
      BY <1>1, <1>2, <2>1, <3>1, <3>3, <3>4
    <3>6. r \in LiveOps(p)
      BY <1>3, <2>2, <3>5
    <3>7. OpAt(p, r) = OpAt(j, r)
      BY <1>1, <3>5 DEF Before
    <3> QED BY <3>1, <3>2, <3>5, <3>6, <3>7 DEF Reversers
  <2>3. ASSUME NEW r \in Reversers(p, k), r \in LiveOps(p) PROVE r \in Reversers(j, k) /\ r \in LiveOps(j)
    <3>1. r \in Seqs(p) /\ r \in (k + 1) .. (Len(p) - 1) /\ OpAt(p, r).kind # "edit"
      BY <1>1, <2>1, LaterReversers
    <3>2. r \in (k + 1) .. (q - 1) /\ r \in Nat /\ r > s /\ r \in 0 .. (q - 1)
      BY <1>1, <1>2, <2>1, <3>1
    <3>3. OpAt(p, r) = OpAt(j, r) /\ r \in Seqs(j)
      BY <3>2 DEF Before
    <3>4. r \in LiveOps(j)
      BY <1>3, <2>3, <3>2
    <3> QED BY <3>1, <3>3, <3>4 DEF Reversers
  <2>4. k \in LiveOps(j) <=> Reversers(j, k) \cap LiveOps(j) = {}
    BY <1>1, <2>1, LivenessIs
  <2>5. k \in LiveOps(p) <=> Reversers(p, k) \cap LiveOps(p) = {}
    BY <1>1, <2>1, LivenessIs
  <2> QED BY <2>2, <2>3, <2>4, <2>5
<1>4. \A k \in 0 .. (q - 1) : k \in S
  <2> HIDE DEF S
  <2> QED BY <1>1, <1>3, FromTheNewest
<1> SUFFICES ASSUME NEW k \in (s + 1) .. (q - 1) PROVE k \in LiveOps(p) <=> k \in LiveOps(j)
  BY DEF s
<1>5. k \in 0 .. (q - 1) /\ k > s
  BY <1>1, <1>2
<1> QED BY <1>4, <1>5

\* So what stands between the two is balanced and nested for the one that placed the
\* second as well.
LEMMA NestedBefore ==
  ASSUME NEW j, Numbered(j), Ordered(j), NEW v \in Nat, Nested(j, v),
         NEW q \in v .. (Len(j) - 1), Takes(j, q),
         NEW p, Before(p, j, q), Ordered(p)
  PROVE  LET s == OpAt(j, q).undoes
         IN  /\ Nested(p, s + 1) /\ Balanced(p, s + 1, q)
             /\ \A k \in (s + 1) .. (q - 1) : Takes(p, k) => Takes(j, k)
<1> DEFINE s == OpAt(j, q).undoes
<1>1. j \in Seq(Ops) /\ Len(j) \in Nat /\ q \in Nat /\ p \in Seq(Ops) /\ Len(p) = q
      /\ Seqs(p) = 0 .. (q - 1)
  BY DEF Numbered, Before
<1>2. s \in Nat /\ v <= s /\ s < q /\ q \in Seqs(j) /\ Between(j, s, q)
  BY OneTaker
<1>3. \A k \in (s + 1) .. (q - 1) : k \in LiveOps(p) <=> k \in LiveOps(j)
  BY SameLiveness
<1> HIDE DEF s
<1>4. ASSUME NEW k \in (s + 1) .. (q - 1)
      PROVE  OpAt(p, k) = OpAt(j, k) /\ (Takes(p, k) <=> Takes(j, k)) /\ k \in Nat
  <2>1. k \in 0 .. (q - 1)
    BY <1>1, <1>2
  <2>2. OpAt(p, k) = OpAt(j, k)
    BY <2>1 DEF Before
  <2> QED BY <1>3, <2>1, <2>2 DEF Takes
<1>5. ASSUME NEW a \in Int, NEW b \in Int, s + 1 <= a, b <= q, Balanced(j, a, b)
      PROVE  Balanced(p, a, b)
  <2> SUFFICES ASSUME NEW k \in a .. (b - 1)
               PROVE  IF Takes(p, k) THEN OpAt(p, k).undoes >= a ELSE Undone(p, k, b)
    BY DEF Balanced
  <2>1. k \in (s + 1) .. (q - 1)
    BY <1>1, <1>2, <1>5
  <2>2. IF Takes(j, k) THEN OpAt(j, k).undoes >= a ELSE Undone(j, k, b)
    BY <1>5 DEF Balanced
  <2>3. Undone(j, k, b) => Undone(p, k, b)
    <3> SUFFICES ASSUME NEW r \in (k + 1) .. (b - 1), Takes(j, r), OpAt(j, r).undoes = k
                 PROVE  Takes(p, r) /\ OpAt(p, r).undoes = k
      BY DEF Undone
    <3>1. r \in (s + 1) .. (q - 1)
      BY <1>1, <1>2, <1>5, <2>1
    <3> QED BY <1>4, <3>1
  <2> QED BY <1>4, <2>1, <2>2, <2>3
<1>6. Balanced(p, s + 1, q)
  <2>1. Balanced(j, s + 1, q) /\ s + 1 \in Int /\ q \in Int
    BY <1>1, <1>2 DEF Between
  <2> QED BY <1>1, <1>2, <1>5, <2>1
<1>7. Nested(p, s + 1)
  <2> SUFFICES ASSUME NEW r \in (s + 1) .. (q - 1), Takes(p, r)
               PROVE  OpAt(p, r).undoes >= s + 1 /\ Between(p, OpAt(p, r).undoes, r)
    BY <1>1 DEF Nested
  <2>1. Takes(j, r) /\ OpAt(p, r) = OpAt(j, r) /\ r \in Nat
    BY <1>4
  <2> DEFINE u == OpAt(j, r).undoes
  <2>2. u >= s + 1
    BY <1>2, <2>1 DEF Between, Balanced
  <2>3. r \in v .. (Len(j) - 1) /\ r \in Seqs(j) /\ r < q
    BY <1>1, <1>2 DEF Seqs
  <2>4. Between(j, u, r)
    BY <2>1, <2>3 DEF Nested
  <2>5. u \in 0 .. (r - 1)
    BY <2>1, <2>3 DEF Ordered, Takes
  <2> HIDE DEF u
  <2>6. Balanced(p, u + 1, r)
    <3>1. u + 1 \in Int /\ r \in Int /\ s + 1 <= u + 1 /\ r <= q
      BY <1>1, <1>2, <2>1, <2>2, <2>3, <2>5
    <3> QED BY <1>5, <2>4, <3>1 DEF Between
  <2>7. ASSUME NEW k \in (u + 1) .. (r - 1), OpAt(p, k).kind # "edit" PROVE OpAt(p, k).undoes # u
    <3>1. k \in (s + 1) .. (q - 1)
      BY <1>1, <1>2, <2>1, <2>2, <2>3, <2>5
    <3> QED BY <1>4, <2>4, <2>7, <3>1 DEF Between
  <2>8. Between(p, u, r)
    BY <2>6, <2>7 DEF Between
  <2> QED BY <2>1, <2>2, <2>8 DEF u
<1> QED BY <1>4, <1>6, <1>7 DEF s

\* An op that takes another back newest first is put where that one was.
LEMMA Meet ==
  ASSUME NEW j, Numbered(j), TurnedRound(j), Ordered(j), EditsUndoNothing(j), AllSited(j),
         NEW v \in 0 .. Len(j), Nested(j, v)
  PROVE  PairsMeet(j, v)
<1> DEFINE Up(n) == \A q \in v .. (Len(j) - 1) :
                       q < n /\ Takes(j, q) => OpAt(j, q).pos = OpAt(j, OpAt(j, q).undoes).pos
           S == {n \in Nat : Up(n)}
<1>1. j \in Seq(Ops) /\ Len(j) \in Nat /\ v \in Nat
  BY DEF Numbered
<1>2. 0 \in S
  BY <1>1
<1>3. ASSUME NEW n \in Nat, n \in S PROVE n + 1 \in S
  <2> SUFFICES ASSUME NEW q \in v .. (Len(j) - 1), q < n + 1, Takes(j, q)
               PROVE  OpAt(j, q).pos = OpAt(j, OpAt(j, q).undoes).pos
    OBVIOUS
  <2>0. Up(n) /\ q \in Nat /\ q <= n /\ q \in 0 .. Len(j)
    BY <1>1, <1>3
  <2> DEFINE s == OpAt(j, q).undoes
             t == OpAt(j, s)
             p == SubSeq(j, 1, q)
             r == Rebase(p, t.pos, t.pos + InsLen(t), s + 1)
  <2>1. s \in Nat /\ v <= s /\ s < q /\ s \in Seqs(j) /\ q \in Seqs(j)
    BY <1>1, OneTaker
  <2>2. r.ok /\ OpAt(j, q).pos = r.lo
    <3>1. Sited(j, q)
      BY <2>1 DEF AllSited, Takes, IsEdit
    <3> QED BY <3>1 DEF Sited
  <2>3. Before(p, j, q)
    BY <2>0, PrefixBefore
  <2>4. t.pos \in Nat /\ InsLen(t) \in Nat
    BY <2>1, OpShape
  <2> HIDE DEF p
  <2>5. TurnedRound(p) /\ Ordered(p) /\ EditsUndoNothing(p) /\ p \in Seq(Ops) /\ Numbered(p)
        /\ Len(p) = q
    BY <2>0, <2>3, PrefixSound DEF Before
  <2>6. /\ Nested(p, s + 1) /\ Balanced(p, s + 1, q)
        /\ \A k \in (s + 1) .. (q - 1) : Takes(p, k) => Takes(j, k)
    BY <1>1, <2>3, <2>5, NestedBefore
  <2> HIDE DEF s, t, r
  <2>7. PairsMeet(p, s + 1)
    <3> SUFFICES ASSUME NEW k \in (s + 1) .. (q - 1), Takes(p, k)
                 PROVE  OpAt(p, k).pos = OpAt(p, OpAt(p, k).undoes).pos
      BY <2>5 DEF PairsMeet
    <3>1. Takes(j, k) /\ k \in v .. (Len(j) - 1) /\ k < n /\ k \in 0 .. (q - 1) /\ k \in Seqs(j)
      BY <1>1, <2>0, <2>1, <2>6 DEF Seqs
    <3>2. OpAt(j, k).pos = OpAt(j, OpAt(j, k).undoes).pos
      BY <2>0, <3>1
    <3>3. OpAt(j, k).undoes \in 0 .. (k - 1)
      BY <3>1 DEF Takes, Ordered
    <3>4. OpAt(j, k).undoes \in 0 .. (q - 1)
      BY <2>0, <3>1, <3>3
    <3> QED BY <2>3, <3>1, <3>2, <3>4 DEF Before
  <2>8. NoZero(p, s + 1) /\ s + 1 \in 0 .. Len(p)
    BY <2>0, <2>1, <2>5 DEF NoZero
  <2>9. Unmoved(Rebase(p, t.pos, t.pos + InsLen(t), s + 1), t.pos, t.pos + InsLen(t))
    <3> DEFINE lo == t.pos
               hi == t.pos + InsLen(t)
               base == s + 1
    <3>1. lo \in Nat /\ hi \in Nat
      BY <2>4
    <3>2. base \in 0 .. Len(p) /\ Nested(p, base) /\ PairsMeet(p, base) /\ NoZero(p, base)
          /\ Balanced(p, base, Len(p))
      BY <2>5, <2>6, <2>7, <2>8
    <3> HIDE DEF lo, hi, base
    <3>3. Unmoved(Rebase(p, lo, hi, base), lo, hi)
      BY <2>5, <3>1, <3>2, RebaseReturns
    <3> QED BY <3>3 DEF lo, hi, base
  <2>10. OpAt(j, q).pos = t.pos
    BY <2>2, <2>9 DEF Unmoved, r
  <2> QED BY <2>10 DEF t, s
<1>4. \A n \in Nat : n \in S
  <2> HIDE DEF S
  <2> QED BY <1>2, <1>3, Inductive
<1>5. Up(Len(j))
  BY <1>1, <1>4
<1> SUFFICES ASSUME NEW q \in v .. (Len(j) - 1), Takes(j, q)
             PROVE  OpAt(j, q).pos = OpAt(j, OpAt(j, q).undoes).pos
  BY DEF PairsMeet
<1>6. q < Len(j)
  BY <1>1
<1> HIDE DEF S
<1> QED BY <1>5, <1>6

\* The property's wording.
LEMMA InOrderNested ==
  ASSUME NEW j, Numbered(j), Ordered(j), NEW v \in Nat, UndoneInOrder(j, v)
  PROVE  Nested(j, v)
<1>1. j \in Seq(Ops) /\ Len(j) \in Nat
  BY DEF Numbered
<1>2. \A r \in Seqs(j) : Takes(j, r) <=> OpAt(j, r).kind # "edit" /\ InEffect(j)[r]
  BY DEF Takes, LiveOps
<1> DEFINE takes(r) == OpAt(j, r).kind # "edit" /\ InEffect(j)[r]
<1> SUFFICES ASSUME NEW r \in v .. (Len(j) - 1), Takes(j, r)
             PROVE  OpAt(j, r).undoes >= v /\ Between(j, OpAt(j, r).undoes, r)
  BY DEF Nested
<1> DEFINE s == OpAt(j, r).undoes
<1>3. r \in Seqs(j) /\ r \in Nat
  BY <1>1 DEF Seqs
<1>4. /\ s >= v
      /\ \A k \in (s + 1) .. (r - 1) :
            /\ OpAt(j, k).kind # "edit" => OpAt(j, k).undoes # s
            /\ IF takes(k) THEN OpAt(j, k).undoes > s
               ELSE \E q \in (k + 1) .. (r - 1) : takes(q) /\ OpAt(j, q).undoes = k
  <2>1. takes(r)
    BY <1>2, <1>3
  <2> QED BY <2>1 DEF UndoneInOrder
<1>5. s \in 0 .. (r - 1)
  BY <1>3 DEF Takes, Ordered
<1> HIDE DEF takes
<1>6. ASSUME NEW k \in (s + 1) .. (r - 1)
      PROVE  IF Takes(j, k) THEN OpAt(j, k).undoes >= s + 1 ELSE Undone(j, k, r)
  <2>1. k \in Seqs(j) /\ k \in Nat
    <3> HIDE DEF s
    <3> QED BY <1>1, <1>3, <1>5 DEF Seqs
  <2>2. CASE Takes(j, k)
    <3>1. takes(k)
      BY <1>2, <2>1, <2>2 DEF takes
    <3>2. OpAt(j, k).undoes > s
      BY <1>4, <3>1
    <3>3. OpAt(j, k).undoes \in 0 .. (k - 1)
      BY <2>1, <2>2 DEF Takes, Ordered
    <3> HIDE DEF s
    <3> QED BY <1>5, <2>2, <3>2, <3>3
  <2>3. CASE ~Takes(j, k)
    <3>1. ~takes(k)
      BY <1>2, <2>1, <2>3 DEF takes
    <3>2. PICK q \in (k + 1) .. (r - 1) : takes(q) /\ OpAt(j, q).undoes = k
      BY <1>4, <3>1
    <3>3. q \in Seqs(j)
      BY <1>1, <1>3, <2>1 DEF Seqs
    <3>4. Takes(j, q)
      BY <1>2, <3>2, <3>3 DEF takes
    <3> QED BY <2>3, <3>2, <3>4 DEF Undone
  <2> QED BY <2>2, <2>3
<1>7. Between(j, s, r)
  BY <1>4, <1>6 DEF Between, Balanced
<1> QED BY <1>4, <1>7

-----------------------------------------------------------------------------
(* A range, carried past edits in effect as well.                          *)

\* A point that remembers no deletion.
Bare(p) == Put(p, p.at, {})

Likewise(b, p, c, e) ==
    /\ b \in Points /\ ~b.held /\ b.at = p.at /\ b.anchored = {}
    /\ e.at = c.at /\ e.held = c.held

\* For an op that takes back nothing the point remembers, what it remembers does not count.
LEMMA BareCarry ==
  ASSUME NEW j, NEW live, NEW o \in Ops, NEW p \in Points, NEW right, ~p.held, Marks(p, o.undoes) = {}
  PROVE  Likewise(Bare(p), p, Carry(j, live, p, o, right), Carry(j, live, Bare(p), o, right))
<1> DEFINE b == Bare(p)
           c == Carry(j, live, p, o, right)
           e == Carry(j, live, b, o, right)
           r == LiveReversers(j, live, o.seq)
<1>1. /\ o.pos \in Nat /\ DelLen(o) \in Nat /\ InsLen(o) \in Nat /\ p.at \in Nat
      /\ p.by \in Nat /\ p.off \in Nat
  BY DEF Ops, DelLen, InsLen, Points
<1>2. b = [at |-> p.at, held |-> FALSE, by |-> p.by, off |-> p.off, anchored |-> {}]
  BY DEF Bare, Put
<1>3. b \in Points /\ ~b.held /\ b.at = p.at /\ b.anchored = {}
  BY <1>1, <1>2 DEF Points
<1>4. Marks(b, o.undoes) = {}
  BY <1>3 DEF Marks
<1>5. Turns(p, o, right) = ~right /\ Turns(b, o, right) = ~right
  BY <1>4 DEF Turns
<1> HIDE DEF b, c, e, r
<1>6. CarriedTo(c, p, o, right, r)
  BY CarryMoves DEF c, r
<1>7. CarriedTo(e, b, o, right, r)
  BY <1>3, CarryMoves DEF e, r
<1> SUFFICES e.at = c.at /\ e.held = c.held
  BY <1>3 DEF b, c, e, Likewise
<1>8. CASE DelLen(o) = 0 /\ o.pos = p.at
  <2>1. c = Put(p, IF Turns(p, o, right) THEN p.at ELSE p.at + Delta(o),
                p.anchored \ Marks(p, o.undoes))
    BY <1>6, <1>8, Zenon DEF CarriedTo
  <2>2. e = Put(b, IF Turns(b, o, right) THEN b.at ELSE b.at + Delta(o),
                b.anchored \ Marks(b, o.undoes))
    BY <1>3, <1>7, <1>8, Zenon DEF CarriedTo
  <2> QED BY <1>3, <1>5, <2>1, <2>2 DEF Put
<1>9. CASE DelLen(o) # 0 /\ o.pos + DelLen(o) = p.at
  <2>1. c = Put(p, p.at + Delta(o), Anchor(p, o, FALSE))
    BY <1>6, <1>9, Zenon DEF CarriedTo
  <2>2. e = Put(b, b.at + Delta(o), Anchor(b, o, FALSE))
    BY <1>3, <1>7, <1>9, Zenon DEF CarriedTo
  <2> QED BY <1>3, <2>1, <2>2 DEF Put
<1>10. CASE o.pos + DelLen(o) < p.at
  <2>1. c = Put(p, p.at + Delta(o), p.anchored)
    BY <1>6, <1>10, Zenon DEF CarriedTo
  <2>2. e = Put(b, b.at + Delta(o), b.anchored)
    BY <1>3, <1>7, <1>10, Zenon DEF CarriedTo
  <2> QED BY <1>3, <2>1, <2>2 DEF Put
<1>11. CASE DelLen(o) # 0 /\ o.pos = p.at
  <2>1. c = Put(p, p.at, Anchor(p, o, TRUE))
    BY <1>6, <1>11, Zenon DEF CarriedTo
  <2>2. e = Put(b, b.at, Anchor(b, o, TRUE))
    BY <1>3, <1>7, <1>11, Zenon DEF CarriedTo
  <2> QED BY <1>3, <2>1, <2>2 DEF Put
<1>12. CASE o.pos > p.at
  <2>1. c = p
    BY <1>6, <1>12, Zenon DEF CarriedTo
  <2>2. e = b
    BY <1>3, <1>7, <1>12, Zenon DEF CarriedTo
  <2>3. p.held = FALSE /\ b.held = FALSE
    BY <1>3 DEF Points
  <2> QED BY <1>3, <2>1, <2>2, <2>3
<1>13. CASE o.pos < p.at /\ p.at < o.pos + DelLen(o)
  <2> DEFINE by == CHOOSE x \in r : \A y \in r : x <= y
  <2>1. IF r = {} THEN c = Put(p, o.pos, p.anchored)
        ELSE c = [at |-> p.at, held |-> TRUE, by |-> by, off |-> p.at - o.pos, anchored |-> p.anchored]
    BY <1>6, <1>13, Zenon DEF CarriedTo
  <2>2. IF r = {} THEN e = Put(b, o.pos, b.anchored)
        ELSE e = [at |-> b.at, held |-> TRUE, by |-> by, off |-> b.at - o.pos, anchored |-> b.anchored]
    BY <1>3, <1>7, <1>13, Zenon DEF CarriedTo
  <2> HIDE DEF by
  <2>3. CASE r = {}
    <3>1. c = Put(p, o.pos, p.anchored)
      BY <2>1, <2>3
    <3>2. e = Put(b, o.pos, b.anchored)
      BY <2>2, <2>3
    <3> QED BY <3>1, <3>2 DEF Put
  <2>4. CASE r # {}
    <3>1. c = [at |-> p.at, held |-> TRUE, by |-> by, off |-> p.at - o.pos, anchored |-> p.anchored]
      BY <2>1, <2>4
    <3>2. e = [at |-> b.at, held |-> TRUE, by |-> by, off |-> b.at - o.pos, anchored |-> b.anchored]
      BY <2>2, <2>4
    <3> QED BY <1>3, <3>1, <3>2
  <2> QED BY <2>3, <2>4
<1> QED BY <1>1, <1>8, <1>9, <1>10, <1>11, <1>12, <1>13

\* The range of walk w is, byte for byte, what stood from lo to hi in d0.
Stands(w, d, lo, hi, d0) ==
    /\ ~w.lo.held /\ ~w.hi.held
    /\ w.lo.at < w.hi.at /\ w.hi.at - w.lo.at = hi - lo /\ w.hi.at <= Len(d)
    /\ \A x \in 1 .. (hi - lo) : d[w.lo.at + x] = d0[lo + x]

SamePlace(c, e) ==
    /\ c.lo.at = e.lo.at /\ c.hi.at = e.hi.at
    /\ c.lo.held = e.lo.held /\ c.hi.held = e.hi.held

\* An edit in effect that the range survives, and that takes back nothing its ends
\* remember, leaves its bytes side by side.
LEMMA StaysStanding ==
  ASSUME NEW j, NEW live, NEW o \in Ops, o.kind = "edit", live[o.seq],
         NEW w \in Walks, Marks(w.lo, o.undoes) = {}, Marks(w.hi, o.undoes) = {},
         NEW d \in Seq(Bytes), o.pos + DelLen(o) <= Len(d),
         NEW lo \in Nat, NEW hi \in Nat, NEW d0, Stands(w, d, lo, hi, d0),
         Carried(j, live, w, o).bad = Whole
  PROVE  Stands(Carried(j, live, w, o), Apply(d, o), lo, hi, d0)
<1> DEFINE c == Carried(j, live, w, o)
           u == [lo |-> Bare(w.lo), hi |-> Bare(w.hi), bad |-> Whole]
           e == Carried(j, live, u, o)
           yes == TRUE
           no == ~w.lo.held /\ ~w.hi.held /\ w.lo.at = w.hi.at
           f == ~u.lo.held /\ ~u.hi.held /\ u.lo.at = u.hi.at
<1>1. w.lo \in Points /\ w.hi \in Points /\ ~w.lo.held /\ ~w.hi.held
      /\ w = [lo |-> w.lo, hi |-> w.hi, bad |-> w.bad] /\ o.seq \in Nat
  BY DEF Walks, Stands, Ops
<1>2. u.lo = Bare(w.lo) /\ u.hi = Bare(w.hi) /\ u.bad = Whole
  OBVIOUS
<1>3. /\ u.lo \in Points /\ ~u.lo.held /\ u.lo.at = w.lo.at /\ u.lo.anchored = {}
      /\ Carry(j, live, u.lo, o, yes).at = Carry(j, live, w.lo, o, yes).at
      /\ Carry(j, live, u.lo, o, yes).held = Carry(j, live, w.lo, o, yes).held
  <2> HIDE DEF u, yes
  <2>1. Likewise(Bare(w.lo), w.lo, Carry(j, live, w.lo, o, yes), Carry(j, live, Bare(w.lo), o, yes))
    BY <1>1, BareCarry
  <2> QED BY <1>2, <2>1 DEF Likewise
<1>4. /\ u.hi \in Points /\ ~u.hi.held /\ u.hi.at = w.hi.at /\ u.hi.anchored = {}
      /\ Carry(j, live, u.hi, o, no).at = Carry(j, live, w.hi, o, no).at
      /\ Carry(j, live, u.hi, o, no).held = Carry(j, live, w.hi, o, no).held
  <2> HIDE DEF u, no
  <2>1. Likewise(Bare(w.hi), w.hi, Carry(j, live, w.hi, o, no), Carry(j, live, Bare(w.hi), o, no))
    BY <1>1, BareCarry
  <2> QED BY <1>2, <2>1 DEF Likewise
<1>5. u \in Walks
  BY <1>2, <1>3, <1>4 DEF Walks, Whole
<1>6. w.bad = Whole
  BY CarriedIs DEF c
<1>7. ~Damages(live, o, w.lo, w.hi)
  <2> SUFFICES ASSUME Damages(live, o, w.lo, w.hi) PROVE FALSE
    OBVIOUS
  <2>1. c = [w EXCEPT !.bad = o.seq]
    BY <1>6 DEF Carried
  <2> HIDE DEF c
  <2>2. c.bad = o.seq
    BY <1>1, <2>1
  <2> QED BY <1>1, <2>2 DEF c, Whole
<1> HIDE DEF u
<1>8. ~Damages(live, o, u.lo, u.hi)
  BY <1>1, <1>3, <1>4, <1>7 DEF Damages
<1>9. f = no
  BY <1>1, <1>3, <1>4
<1>10. c = [w EXCEPT !.lo = Carry(j, live, w.lo, o, yes), !.hi = Carry(j, live, w.hi, o, no)]
  BY <1>6, <1>7 DEF Carried
<1>11. e = [u EXCEPT !.lo = Carry(j, live, u.lo, o, yes), !.hi = Carry(j, live, u.hi, o, f)]
  BY <1>2, <1>8 DEF Carried
<1>12. u = [lo |-> u.lo, hi |-> u.hi, bad |-> u.bad]
  BY <1>5 DEF Walks
<1> HIDE DEF c, e, f, no, yes
<1>13. c.lo = Carry(j, live, w.lo, o, yes) /\ c.hi = Carry(j, live, w.hi, o, no)
  BY <1>1, <1>10
<1>14. e.lo = Carry(j, live, u.lo, o, yes) /\ e.hi = Carry(j, live, u.hi, o, no) /\ e.bad = Whole
  BY <1>2, <1>9, <1>11, <1>12
<1>15. SamePlace(c, e)
  BY <1>3, <1>4, <1>13, <1>14 DEF SamePlace
<1>16. Intact(u, d, lo, hi, d0)
  <2>1. \A x \in 1 .. (hi - lo) : d[u.lo.at + x] = d0[lo + x]
    BY <1>3 DEF Stands
  <2>2. u.lo.at < u.hi.at /\ u.hi.at - u.lo.at = hi - lo /\ u.hi.at <= Len(d)
    BY <1>3, <1>4 DEF Stands
  <2> QED BY <1>3, <1>4, <2>1, <2>2 DEF Intact
<1>17. Intact(e, Apply(d, o), lo, hi, d0)
  BY <1>5, <1>14, <1>16, StaysIntact DEF e
<1>18. Stands(e, Apply(d, o), lo, hi, d0)
  BY <1>17 DEF Intact, Stands
<1> QED BY <1>15, <1>18 DEF Stands, SamePlace, c

\* Nothing that was done before version b is taken back from then on.
NoneFromBefore(j, b) == \A q \in b .. (Len(j) - 1) : Takes(j, q) => OpAt(j, q).undoes >= b

\* Before a version from which nothing older is taken back stands an edit in effect, or
\* an op that takes back one with nothing but balanced ops between them.
LEMMA SettledBefore ==
  ASSUME NEW j, Numbered(j), Ordered(j), NEW v \in 0 .. Len(j), Nested(j, v),
         NEW n \in v .. (Len(j) - 1), NoneFromBefore(j, n + 1)
  PROVE  /\ n \in Seqs(j)
         /\ IF Takes(j, n)
            THEN LET s == OpAt(j, n).undoes
                 IN  s \in v .. n /\ s # n /\ NoneFromBefore(j, s) /\ Balanced(j, s, n + 1)
            ELSE NoneFromBefore(j, n) /\ IsEdit(j, n) /\ n \in LiveOps(j)
<1>1. /\ j \in Seq(Ops) /\ Len(j) \in Nat /\ n \in Seqs(j) /\ n \in Nat /\ v \in Nat
      /\ n + 1 \in Nat
  BY DEF Numbered, Seqs
<1>2. CASE Takes(j, n)
  <2> DEFINE s == OpAt(j, n).undoes
  <2>1. s \in Nat /\ v <= s /\ s < n /\ s \in Seqs(j) /\ Between(j, s, n)
    BY <1>1, <1>2, OneTaker
  <2>2. s \notin LiveOps(j)
    <3>1. n \in Reversers(j, s) /\ n \in LiveOps(j)
      BY <1>1, <1>2 DEF Reversers, Takes
    <3> QED BY <1>1, <2>1, <3>1, LivenessIs
  <2>3. Balanced(j, s, n + 1)
    <3> SUFFICES ASSUME NEW k \in s .. ((n + 1) - 1)
                 PROVE  IF Takes(j, k) THEN OpAt(j, k).undoes >= s ELSE Undone(j, k, n + 1)
      BY DEF Balanced
    <3>1. k = s \/ k = n \/ k \in (s + 1) .. (n - 1)
      BY <1>1, <2>1
    <3>2. CASE k = s
      <4>1. ~Takes(j, s)
        BY <2>2 DEF Takes
      <4>2. n \in (s + 1) .. ((n + 1) - 1)
        BY <1>1, <2>1
      <4>3. Undone(j, s, n + 1)
        BY <1>2, <4>2 DEF Undone
      <4> QED BY <3>2, <4>1, <4>3
    <3>3. CASE k = n
      BY <1>2, <2>1, <3>3
    <3>4. CASE k \in (s + 1) .. (n - 1)
      <4>1. IF Takes(j, k) THEN OpAt(j, k).undoes >= s + 1 ELSE Undone(j, k, n)
        BY <2>1, <3>4 DEF Between, Balanced
      <4>2. CASE Takes(j, k)
        <5>1. k \in Seqs(j) /\ OpAt(j, k).undoes \in 0 .. (k - 1)
          BY <1>1, <2>1, <3>4, <4>2 DEF Takes, Ordered, Seqs
        <5> QED BY <2>1, <4>1, <4>2, <5>1
      <4>3. CASE ~Takes(j, k)
        <5>1. PICK q \in (k + 1) .. (n - 1) : Takes(j, q) /\ OpAt(j, q).undoes = k
          BY <4>1, <4>3 DEF Undone
        <5>2. q \in (k + 1) .. ((n + 1) - 1)
          BY <1>1, <2>1, <3>4
        <5> QED BY <4>3, <5>1, <5>2 DEF Undone
      <4> QED BY <4>2, <4>3
    <3> QED BY <3>1, <3>2, <3>3, <3>4
  <2>4. NoneFromBefore(j, s)
    <3> SUFFICES ASSUME NEW q \in s .. (Len(j) - 1), Takes(j, q) PROVE OpAt(j, q).undoes >= s
      BY DEF NoneFromBefore
    <3>1. q \in s .. ((n + 1) - 1) \/ q \in (n + 1) .. (Len(j) - 1)
      BY <1>1, <2>1
    <3>2. CASE q \in s .. ((n + 1) - 1)
      BY <2>3, <3>2 DEF Balanced
    <3>3. CASE q \in (n + 1) .. (Len(j) - 1)
      <4>1. OpAt(j, q).undoes >= n + 1 /\ OpAt(j, q).undoes \in 0 .. (q - 1)
        BY <1>1, <3>3 DEF NoneFromBefore, Takes, Ordered, Seqs
      <4> QED BY <1>1, <2>1, <4>1
    <3> QED BY <3>1, <3>2, <3>3
  <2>5. s \in v .. n /\ s # n
    BY <1>1, <2>1
  <2> QED BY <1>1, <1>2, <2>3, <2>4, <2>5
<1>3. CASE ~Takes(j, n)
  <2>1. n \in LiveOps(j)
    <3> SUFFICES ASSUME n \notin LiveOps(j) PROVE FALSE
      OBVIOUS
    <3>1. PICK r \in Reversers(j, n) : r \in LiveOps(j)
      BY <1>1, LivenessIs
    <3>2. r \in Seqs(j) /\ OpAt(j, r).kind # "edit" /\ OpAt(j, r).undoes = n
      BY <3>1 DEF Reversers
    <3>3. n < r /\ r \in (n + 1) .. (Len(j) - 1)
      BY <1>1, <3>2 DEF Ordered, Seqs
    <3>4. Takes(j, r)
      BY <3>1, <3>2 DEF Takes
    <3> QED BY <1>1, <3>2, <3>3, <3>4 DEF NoneFromBefore
  <2>2. IsEdit(j, n)
    BY <1>3, <2>1 DEF Takes, IsEdit
  <2>3. NoneFromBefore(j, n)
    <3> SUFFICES ASSUME NEW q \in n .. (Len(j) - 1), Takes(j, q) PROVE OpAt(j, q).undoes >= n
      BY DEF NoneFromBefore
    <3>1. q \in (n + 1) .. (Len(j) - 1)
      BY <1>1, <1>3
    <3>2. OpAt(j, q).undoes >= n + 1 /\ OpAt(j, q).undoes \in 0 .. (q - 1)
      BY <1>1, <3>1 DEF NoneFromBefore, Takes, Ordered, Seqs
    <3> QED BY <1>1, <3>2
  <2> QED BY <1>1, <1>3, <2>1, <2>2, <2>3
<1> QED BY <1>2, <1>3

\* A range read at a version since which everything was taken back in order, and that is
\* not lost, covers the bytes it covered.
LEMMA NestedRange ==
  ASSUME NEW j, Numbered(j), TurnedRound(j), Ordered(j), EditsUndoNothing(j), StaysInside(Base, j),
         NEW base \in 0 .. Len(j), Nested(j, base), PairsMeet(j, base), NoZero(j, base),
         TakenRecorded(j, base),
         NEW lo \in Nat, NEW hi \in Nat, lo < hi, hi <= Len(ReplayTo(Base, j, base)),
         Rebase(j, lo, hi, base).ok
  PROVE  Covers(Rebase(j, lo, hi, base), ReplayTo(Base, j, Len(j)), lo, hi, ReplayTo(Base, j, base))
<1> DEFINE m == Len(j) - base
           live == InEffect(j)
           d0 == ReplayTo(Base, j, base)
           D(k) == ReplayTo(Base, j, k)
           w0 == Start(lo, hi)
<1>1. /\ j \in Seq(Ops) /\ Len(j) \in Nat /\ base \in Nat /\ m \in Nat /\ base + m = Len(j)
      /\ base - base = 0 /\ base <= Len(j) /\ Len(j) - base = m /\ Base \in Seq(Bytes)
  BY BaseTyped DEF Numbered
<1>2. PICK F : Walked(F, j, w0, base) /\ Rebase(j, lo, hi, base) = Landing(F[m])
  BY WalkRuns
<1>3. \A i \in 0 .. m : F[i] \in Walks
  BY <1>2, WalksTyped
<1>4. /\ F[m].bad = Whole
      /\ Rebase(j, lo, hi, base) = [ok |-> TRUE, lo |-> F[m].lo.at, hi |-> F[m].hi.at, at |-> 0]
  <2>1. \A x : ~Lost(x).ok
    BY DEF Lost
  <2> QED BY <1>2, <2>1, Zenon DEF Landing
<1>5. \A i \in 0 .. m : F[i].bad = Whole
  BY <1>2, <1>4, NeverLost
<1> DEFINE P == LowRun(F, j, base)
           Q == HighRun(F, j, base)
           W(k) == F[k - base]
<1>6. Run(P, j, base) /\ Run(Q, j, base)
  BY <1>2, <1>5, WalkIsRun
<1>7. \A k \in base .. Len(j) : k - base \in 0 .. m /\ P[k] = W(k).lo /\ Q[k] = W(k).hi
  BY <1>1 DEF LowRun, HighRun
<1> HIDE DEF P, Q
<1> DEFINE Good(k) == NoneFromBefore(j, k) => Stands(W(k), D(k), lo, hi, d0)
           S == {n \in Nat : \A k \in base .. Len(j) : k <= base + n => Good(k)}
<1>8. Stands(W(base), D(base), lo, hi, d0)
  <2>1. W(base) = w0 /\ D(base) = d0
    BY <1>1, <1>2 DEF Walked
  <2>2. w0.lo = PointAt(lo) /\ w0.hi = PointAt(hi)
    BY DEF Start
  <2>3. \A p : PointAt(p).at = p /\ PointAt(p).held = FALSE
    BY DEF PointAt
  <2>4. \A x \in 1 .. (hi - lo) : d0[w0.lo.at + x] = d0[lo + x]
    BY <2>2, <2>3
  <2> HIDE DEF d0, w0, W, D
  <2>5. Stands(w0, d0, lo, hi, d0)
    BY <2>2, <2>3, <2>4 DEF Stands, d0
  <2> QED BY <2>1, <2>5
<1>9. 0 \in S
  <2> HIDE DEF W, D, d0
  <2>1. \A k \in base .. Len(j) : k <= base + 0 => k = base
    BY <1>1
  <2> QED BY <1>8, <2>1
<1>10. ASSUME NEW n \in Nat, n \in S PROVE n + 1 \in S
  <2> SUFFICES ASSUME NEW b \in base .. Len(j), b <= base + (n + 1), NoneFromBefore(j, b)
               PROVE  Stands(W(b), D(b), lo, hi, d0)
    OBVIOUS
  <2>1. CASE b <= base + n
    <3> HIDE DEF W, D, d0
    <3> QED BY <1>10, <2>1
  <2>2. CASE b = base + n + 1
    <3> DEFINE k == b - 1
    <3>1. /\ k \in base .. (Len(j) - 1) /\ k \in base .. Len(j) /\ k = base + n /\ k + 1 = b
          /\ b \in Nat /\ k \in Nat /\ k - base \in 0 .. m /\ (k - base) + 1 = b - base
          /\ (k - base) + 1 \in 1 .. m /\ base + (k - base) = k /\ b - base \in 0 .. m
          /\ ((k - base) + 1) - 1 = k - base /\ base + ((k - base) + 1) - 1 = k
      BY <1>1, <2>2
    <3> HIDE DEF k
    <3>2. NoneFromBefore(j, k + 1)
      BY <3>1
    <3>3. CASE Takes(j, k)
      <4> DEFINE s == OpAt(j, k).undoes
      <4>1. s \in base .. k /\ s # k /\ NoneFromBefore(j, s) /\ Balanced(j, s, k + 1)
        BY <3>1, <3>2, <3>3, SettledBefore
      <4>2. s \in base .. Len(j) /\ s <= base + n /\ s <= b /\ Balanced(j, s, b)
        BY <1>1, <3>1, <4>1
      <4> HIDE DEF s
      <4>3. Stands(W(s), D(s), lo, hi, d0)
        <5> HIDE DEF W, D, d0
        <5> QED BY <1>10, <4>1, <4>2
      <4>4. D(b) = D(s)
        BY <4>2, DocReturns
      <4>5. ~P[s].held /\ ~Q[s].held
        <5> HIDE DEF W
        <5> QED BY <1>7, <4>2, <4>3 DEF Stands
      <4>6. ~P[b].held /\ P[b].at = P[s].at
        BY <1>6, <4>2, <4>5, Returns
      <4>7. ~Q[b].held /\ Q[b].at = Q[s].at
        BY <1>6, <4>2, <4>5, Returns
      <4>8. ~W(b).lo.held /\ ~W(b).hi.held /\ W(b).lo.at = W(s).lo.at /\ W(b).hi.at = W(s).hi.at
        <5> HIDE DEF W
        <5> QED BY <1>7, <4>2, <4>6, <4>7
      <4> HIDE DEF W, D, d0
      <4> QED BY <4>3, <4>4, <4>8 DEF Stands
    <3>4. CASE ~Takes(j, k)
      <4> DEFINE o == OpAt(j, k)
      <4>1. k \in Seqs(j) /\ NoneFromBefore(j, k) /\ IsEdit(j, k) /\ k \in LiveOps(j)
        BY <3>1, <3>2, <3>4, SettledBefore
      <4>2. Stands(W(k), D(k), lo, hi, d0)
        <5> HIDE DEF W, D, d0
        <5> QED BY <1>10, <3>1, <4>1
      <4>3. o \in Ops /\ o.seq = k /\ o.kind = "edit" /\ o.undoes = 0
            /\ o.pos + DelLen(o) <= Len(D(k)) /\ live[o.seq]
        BY <4>1, OpShape DEF IsEdit, StaysInside, EditsUndoNothing, LiveOps
      <4>4. D(k) \in Seq(Bytes) /\ D(b) = Apply(D(k), o)
        BY <1>1, <3>1, <4>1, ReplayOp, ReplayNext
      <4>5. W(b) = Carried(j, live, W(k), o)
        <5>1. F[(k - base) + 1] = Carried(j, InEffect(j), F[((k - base) + 1) - 1],
                                         OpAt(j, base + ((k - base) + 1) - 1))
          BY <1>2, <3>1, Zenon DEF Walked
        <5> QED BY <3>1, <5>1
      <4>6. W(k) \in Walks /\ W(b).bad = Whole
        BY <1>3, <1>5, <3>1
      <4>7. 0 \in Nat /\ (0 >= k \/ 0 < base \/ DelLen(OpAt(j, 0)) = 0)
        <5>1. Seqs(j) # {}
          BY <4>1
        <5>2. j # <<>>
          BY <5>1 DEF Seqs
        <5> QED BY <1>1, <5>2 DEF NoZero
      <4>8. Marks(P[k], 0) = {} /\ Marks(Q[k], 0) = {}
        <5>1. Marks(P[k], 0) = {}
          BY <1>6, <3>1, <4>7, RunFresh
        <5>2. Marks(Q[k], 0) = {}
          BY <1>6, <3>1, <4>7, RunFresh
        <5> QED BY <5>1, <5>2
      <4>9. Marks(W(k).lo, o.undoes) = {} /\ Marks(W(k).hi, o.undoes) = {}
        <5> HIDE DEF W, o
        <5> QED BY <1>7, <3>1, <4>3, <4>8
      <4> HIDE DEF W, D, d0, o, live
      <4> QED BY <4>2, <4>3, <4>4, <4>5, <4>6, <4>9, StaysStanding
    <3> QED BY <3>3, <3>4
  <2> QED BY <1>1, <2>1, <2>2
<1>11. \A n \in Nat : n \in S
  <2> HIDE DEF S
  <2> QED BY <1>9, <1>10, Inductive
<1>12. NoneFromBefore(j, Len(j))
  BY <1>1 DEF NoneFromBefore
<1>13. Stands(F[m], D(Len(j)), lo, hi, d0)
  <2>1. m \in S
    BY <1>1, <1>11
  <2>2. Len(j) \in base .. Len(j) /\ Len(j) <= base + m
    BY <1>1
  <2> HIDE DEF D, d0
  <2> QED BY <1>1, <1>12, <2>1, <2>2
<1>14. Rebase(j, lo, hi, base).lo = F[m].lo.at /\ Rebase(j, lo, hi, base).hi = F[m].hi.at
  BY <1>4
<1>15. F[m].lo.at \in Nat /\ F[m].hi.at \in Nat
  <2>1. m \in 0 .. m
    BY <1>1
  <2>2. F[m] \in Walks
    BY <1>3, <2>1
  <2> QED BY <2>2 DEF Walks, Points
<1> HIDE DEF D, d0
<1> QED BY <1>13, <1>14, <1>15 DEF Stands, d0, D, Covers

-----------------------------------------------------------------------------
(* The invariant about reversals.                                          *)

\* A new op leaves the ops before it alone.
LEMMA PrefixKept ==
  ASSUME NEW j \in Seq(Ops), NEW o \in Ops, NEW n \in 0 .. Len(j)
  PROVE  SubSeq(Append(j, o), 1, n) = SubSeq(j, 1, n) /\ SubSeq(j, 1, Len(j)) = j
<1>1. SubSeq(Append(j, o), 1, n) = SubSeq(j, 1, n)
  <2> DEFINE p == SubSeq(Append(j, o), 1, n)
             q == SubSeq(j, 1, n)
             k == Append(j, o)
  <2>1. k \in Seq(Ops) /\ Len(k) = Len(j) + 1 /\ n \in 0 .. Len(k) /\ \A i \in 1 .. n : k[i] = j[i]
    OBVIOUS
  <2> HIDE DEF k
  <2>2. p \in Seq(Ops) /\ Len(p) = n /\ \A i \in 1 .. n : p[i] = k[i]
    BY <2>1, PrefixOf
  <2>3. q \in Seq(Ops) /\ Len(q) = n /\ \A i \in 1 .. n : q[i] = j[i]
    BY PrefixOf
  <2> HIDE DEF p, q
  <2>4. p = q
    BY <2>1, <2>2, <2>3
  <2> QED BY <2>4 DEF p, q, k
<1>2. SubSeq(j, 1, Len(j)) = j
  OBVIOUS
<1> QED BY <1>1, <1>2

\* o is placed where what its target put into the document of today's journal is.
Site(o) ==
    LET t == OpAt(journal, o.undoes)
        r == Rebase(journal, t.pos, t.pos + InsLen(t), o.undoes + 1)
    IN  r.ok /\ r.hi - r.lo = InsLen(t) /\ o.pos = r.lo

\* A reversal that may be committed is placed there.
LEMMA InverseSited ==
  ASSUME HInv, NEW o, Fits(o), o.kind # "edit", IsInverse(o)
  PROVE  Site(o)
<1> DEFINE s == o.undoes
           x == OpAt(journal, s)
           at == Rebase(journal, x.pos, x.pos + InsLen(x), s + 1)
<1>1. Numbered(journal) /\ journal \in Seq(Ops)
  BY TextShape DEF HInv, Text, IInv, Log, JournalWellFormed
<1>2. s \in Seqs(journal)
  BY <1>1 DEF Fits
<1>3. x \in Ops /\ x.seq = s
  BY <1>1, <1>2, OpShape
<1>4. /\ RebasedInverse(journal, doc, x).ok /\ o = RebasedInverse(journal, doc, x).op
  BY DEF IsInverse
<1>5. RebasedInverse(journal, doc, x) = InverseAt(at, doc, x)
  BY <1>3 DEF RebasedInverse
<1> HIDE DEF at, x, s
<1>6. /\ InverseAt(at, doc, x).ok = (at.ok /\ at.hi - at.lo = InsLen(x) /\ at.hi <= Len(doc))
      /\ InverseAt(at, doc, x).op = [InverseOp(x) EXCEPT !.pos = at.lo]
  BY DEF InverseAt
<1>7. [InverseOp(x) EXCEPT !.pos = at.lo].pos = at.lo
  BY <1>3 DEF InverseOp, Ops
<1>8. at.ok /\ at.hi - at.lo = InsLen(x) /\ o.pos = at.lo
  BY <1>4, <1>5, <1>6, <1>7
<1> QED BY <1>8 DEF Site, at, x, s

\* The invariant: an edit takes back nothing, and every reversal was placed by rebasing.
Placing == EditsUndoNothing(journal) /\ AllSited(journal)

\* Every step keeps the invariant.
LEMMA PlacingKept ==
  ASSUME HInv, Placing, [Next]_vars
  PROVE  Placing'
<1>1. CASE UNCHANGED <<doc, journal>>
  BY <1>1 DEF Placing, EditsUndoNothing, AllSited, Sited, IsEdit
<1>2. ASSUME NEW o, Fits(o), NEW join \in Nat, Commit(o, join),
             IF o.kind = "edit" THEN o.undoes = 0 ELSE Site(o)
      PROVE  Placing'
  <2>1. PICK op \in Ops : /\ Longer(journal', journal, op) /\ journal' = Append(journal, op)
                          /\ op.pos = o.pos /\ op.kind = o.kind /\ op.undoes = o.undoes
    BY <1>2, CommitAppends
  <2> DEFINE j == journal
             k == journal'
             n == Len(journal)
  <2>2. j \in Seq(Ops) /\ n \in Nat /\ Ordered(j)
    BY TextShape DEF HInv, Text, IInv, Log, JournalWellFormed, Ordered
  <2>3. /\ Seqs(k) = Seqs(j) \cup {n}
        /\ \A s \in Seqs(j) : OpAt(k, s) = OpAt(j, s)
        /\ OpAt(k, n) = op
    BY <2>1 DEF Longer
  <2>4. k = Append(j, op)
    BY <2>1
  <2> HIDE DEF k
  <2>5. \A q \in Seqs(j) \cup {n} : SubSeq(k, 1, q) = SubSeq(j, 1, q)
    <3> SUFFICES ASSUME NEW q \in Seqs(j) \cup {n} PROVE SubSeq(k, 1, q) = SubSeq(j, 1, q)
      OBVIOUS
    <3>1. q \in 0 .. Len(j)
      BY <2>2 DEF Seqs
    <3> QED BY <2>2, <2>4, <3>1, PrefixKept
  <2>6. SubSeq(j, 1, n) = j
    <3>1. n \in 0 .. Len(j)
      BY <2>2
    <3> QED BY <2>2, <3>1, PrefixKept
  <2>7. EditsUndoNothing(k)
    <3> SUFFICES ASSUME NEW s \in Seqs(k), OpAt(k, s).kind = "edit" PROVE OpAt(k, s).undoes = 0
      BY DEF EditsUndoNothing, IsEdit
    <3>1. CASE s \in Seqs(j)
      BY <2>3, <3>1 DEF Placing, EditsUndoNothing, IsEdit
    <3>2. CASE s = n
      BY <1>2, <2>1, <2>3, <3>2
    <3> QED BY <2>3, <3>1, <3>2
  <2>8. AllSited(k)
    <3> SUFFICES ASSUME NEW q \in Seqs(k), OpAt(k, q).kind # "edit" PROVE Sited(k, q)
      BY DEF AllSited, IsEdit
    <3> DEFINE s == OpAt(k, q).undoes
    <3>1. CASE q \in Seqs(j)
      <4>1. OpAt(k, q) = OpAt(j, q) /\ q \in Nat
        BY <2>3, <3>1 DEF Seqs
      <4>2. Sited(j, q)
        BY <3>1, <4>1 DEF Placing, AllSited, IsEdit
      <4>3. s \in 0 .. (q - 1)
        BY <2>2, <3>1, <4>1 DEF Ordered
      <4>4. s \in Seqs(j)
        <5> HIDE DEF s
        <5> QED BY <2>2, <3>1, <4>1, <4>3 DEF Seqs
      <4>5. OpAt(k, s) = OpAt(j, s)
        BY <2>3, <4>4
      <4>6. SubSeq(k, 1, q) = SubSeq(j, 1, q)
        BY <2>5, <3>1
      <4> QED BY <4>1, <4>2, <4>5, <4>6 DEF Sited
    <3>2. CASE q = n
      <4>1. OpAt(k, q) = op /\ s = o.undoes /\ op.kind # "edit"
        BY <2>1, <2>3, <3>2
      <4>2. s \in Seqs(j)
        BY <1>2, <2>1, <4>1 DEF Fits
      <4>3. OpAt(k, s) = OpAt(j, s)
        BY <2>3, <4>2
      <4>4. SubSeq(k, 1, q) = j
        BY <2>5, <2>6, <3>2
      <4>5. Site(o)
        BY <1>2, <2>1, <4>1
      <4> QED BY <2>1, <4>1, <4>3, <4>4, <4>5 DEF Site, Sited
    <3> QED BY <2>3, <3>1, <3>2
  <2> QED BY <2>7, <2>8 DEF Placing, k
<1>3. CASE Edits
  <2>1. PICK a \in Writers, pos \in Nat, n \in Nat, ins \in Seq(Bytes), join \in Nat :
            /\ pos + n <= Len(doc)
            /\ Commit(Edit(a, pos, SubSeq(doc, pos + 1, pos + n), ins), join)
    BY <1>3 DEF Edits
  <2> DEFINE del == SubSeq(doc, pos + 1, pos + n)
             o == Edit(a, pos, del, ins)
  <2>2. doc \in Seq(Bytes) /\ IInv /\ Text
    BY TextShape DEF HInv
  <2>3. del \in Seq(Bytes) /\ Len(del) = n
    BY <2>1, <2>2, TakenShape
  <2>4. Fits(o)
    <3> HIDE DEF del
    <3> QED BY <2>1, <2>2, <2>3, EditFits
  <2>5. o.kind = "edit" /\ o.undoes = 0
    BY DEF Edit
  <2> HIDE DEF o
  <2> QED BY <1>2, <2>1, <2>4, <2>5 DEF o
<1>4. CASE Reverses
  <2>1. PICK o : o.kind # "edit" /\ Fits(o) /\ IsInverse(o) /\ Commit(o, 0)
    BY <1>4 DEF Reverses
  <2>2. Site(o)
    BY <2>1, InverseSited
  <2> QED BY <1>2, <2>1, <2>2
<1> QED BY <1>1, <1>3, <1>4, StepEdits

\* So it always holds.
LEMMA PlacingAlways == Spec => [](HInv /\ Placing)
<1>1. Init => HInv /\ Placing
  BY InitText DEF Init, Placing, EditsUndoNothing, AllSited, Seqs
<1>2. HInv /\ Placing /\ [Next]_vars => HInv' /\ Placing'
  BY NextText, PlacingKept
<1> QED BY <1>1, <1>2, PTL DEF Spec

-----------------------------------------------------------------------------
(* What hunks and reversals hit.                                           *)

\* The journal as the proofs about ranges use it.
LEMMA JournalSound ==
  ASSUME HInv, Placing
  PROVE  /\ Numbered(journal) /\ TurnedRound(journal) /\ Ordered(journal)
         /\ EditsUndoNothing(journal) /\ AllSited(journal)
         /\ StaysInside(Base, journal) /\ Version = Len(journal) /\ Len(journal) \in Nat
         /\ doc = ReplayTo(Base, journal, Len(journal)) /\ doc \in Seq(Bytes)
         /\ journal \in Seq(Ops) /\ Base \in Seq(Bytes)
  BY TextShape, BaseTyped DEF HInv, Text, IInv, Log, JournalWellFormed, Ordered, OpsStayInside,
                              Version, Placing

\* What the properties call recorded is what the lemmas above call recorded.
LEMMA RecordsAre ==
  ASSUME HInv, Placing, NEW v \in 0 .. Len(journal)
  PROVE  /\ \A s \in Seqs(journal) : Records(s) <=> RecordsRemoved(journal, s)
         /\ RecordsSince(v) /\ Nested(journal, v) => TakenRecorded(journal, v)
<1>1. /\ Numbered(journal) /\ Ordered(journal) /\ StaysInside(Base, journal)
      /\ Version = Len(journal) /\ Len(journal) \in Nat
  BY JournalSound
<1>2. ASSUME NEW s \in Seqs(journal) PROVE Records(s) <=> RecordsRemoved(journal, s)
  BY <1>1 DEF Records, RecordsRemoved, DocAt, StaysInside
<1>3. ASSUME RecordsSince(v), Nested(journal, v), NEW q \in v .. (Len(journal) - 1), Takes(journal, q)
      PROVE  RecordsRemoved(journal, OpAt(journal, q).undoes)
  <2> DEFINE s == OpAt(journal, q).undoes
  <2>1. s \in Nat /\ v <= s /\ s < q /\ s \in Seqs(journal)
    BY <1>1, <1>3, OneTaker
  <2>2. s \in v .. (Version - 1)
    BY <1>1, <2>1
  <2> HIDE DEF s
  <2>3. Records(s)
    BY <1>3, <2>2 DEF RecordsSince
  <2> QED BY <1>2, <2>1, <2>3 DEF s
<1> QED BY <1>2, <1>3 DEF TakenRecorded

\* A hunk that is placed replaces exactly the bytes its author read, whatever was edited,
\* undone and redone since, as long as what was undone since was done since, was undone
\* newest first and had recorded what it removed.
THEOREM PlacedHunksHitWhatWasRead == Spec => []HunkHitsWhatWasRead
<1>1. ASSUME HInv, Placing, work.on = "diff", UndoneInOrder(journal, work.base),
             RecordsSince(work.base), ZeroIsNoAnchor(work.base)
      PROVE  HitsWhatWasRead
  <2> DEFINE base == work.base
             d0 == DocAt(base)
             n == Len(d0)
  <2>1. /\ Numbered(journal) /\ TurnedRound(journal) /\ Ordered(journal)
        /\ EditsUndoNothing(journal) /\ AllSited(journal)
        /\ StaysInside(Base, journal) /\ Version = Len(journal) /\ Len(journal) \in Nat
        /\ doc = ReplayTo(Base, journal, Len(journal)) /\ doc \in Seq(Bytes)
        /\ journal \in Seq(Ops) /\ Base \in Seq(Bytes)
    BY <1>1, JournalSound
  <2>2. base \in 0 .. Len(journal) /\ base \in Nat
    BY <1>1, TextShape DEF HInv, Text, IInv, Log, Version
  <2>3. d0 \in Seq(Bytes) /\ n \in Nat /\ d0 = ReplayTo(Base, journal, base)
    BY <2>1, <2>2, ReplayNext DEF DocAt
  <2>4. Nested(journal, base)
    BY <1>1, <2>1, <2>2, InOrderNested
  <2>5. PairsMeet(journal, base)
    BY <2>1, <2>2, <2>4, Meet
  <2>6. TakenRecorded(journal, base)
    BY <1>1, <2>2, <2>4, RecordsAre
  <2> SUFFICES ASSUME NEW r \in Ranges(n), Removes(r).why # "stale"
               PROVE  Removes(r).del = Read(r)
    BY DEF HitsWhatWasRead
  <2> DEFINE lo == r[1]
             hi == r[2]
             at == Rebase(journal, lo, hi, base)
  <2>7. lo \in Nat /\ hi \in Nat /\ lo <= hi /\ hi <= n /\ lo <= n
    <3> HIDE DEF n
    <3>1. r \in (0 .. n) \X (0 .. n) /\ r[1] <= r[2]
      BY DEF Ranges
    <3> QED BY <2>3, <3>1
  <2>8. Removes(r).del = SubSeq(doc, at.lo + 1, at.hi) /\ at.ok
    <3> DEFINE over == ProposedLeases(journal, doc, decided, at.lo, at.hi - at.lo)
               p == Removes(r)
    <3>1. p = Placed(work.by, at, over, <<>>)
      BY DEF Removes, Placement
    <3> HIDE DEF at, over, p
    <3>2. /\ p.del = SubSeq(doc, at.lo + 1, at.hi)
          /\ p.why = Verdict(work.by, at, over, <<>>)
      BY <3>1 DEF Placed
    <3>3. at.ok
      <4> SUFFICES ASSUME ~at.ok PROVE FALSE
        OBVIOUS
      <4>1. Verdict(work.by, at, over, <<>>) = "stale"
        BY DEF Verdict
      <4> QED BY <3>2, <4>1 DEF p
    <3> QED BY <3>2, <3>3 DEF p
  <2>9. Read(r) = SubSeq(d0, lo + 1, hi)
    BY DEF Read
  <2>10. CASE lo < hi
    <3>1. NoZero(journal, base)
      BY <1>1 DEF ZeroIsNoAnchor, NoZero
    <3> HIDE DEF lo, hi
    <3>2. Covers(at, ReplayTo(Base, journal, Len(journal)), lo, hi, ReplayTo(Base, journal, base))
      <4>1. lo < hi /\ hi <= Len(ReplayTo(Base, journal, base)) /\ Rebase(journal, lo, hi, base).ok
        BY <2>3, <2>7, <2>8, <2>10
      <4> HIDE DEF base, at
      <4>2. Covers(Rebase(journal, lo, hi, base), ReplayTo(Base, journal, Len(journal)), lo, hi,
                   ReplayTo(Base, journal, base))
        BY <2>1, <2>2, <2>4, <2>5, <2>6, <2>7, <3>1, <4>1, NestedRange
      <4> QED BY <4>2 DEF at
    <3>3. Covers(at, doc, lo, hi, d0)
      BY <2>1, <2>3, <3>2
    <3>4. d0 \in Seq(Bytes) /\ hi <= Len(d0) /\ lo \in Nat /\ hi \in Nat /\ doc \in Seq(Bytes)
      BY <2>1, <2>3, <2>7
    <3> HIDE DEF at, d0
    <3>5. SameText(at, doc, lo, hi, d0)
      BY <3>3, <3>4, SameRun
    <3> QED BY <2>8, <2>9, <3>5 DEF SameText
  <2>11. CASE lo = hi
    <3>1. at.lo = at.hi
      BY <2>1, <2>2, <2>7, <2>8, <2>11, EmptyRange
    <3>2. at.lo \in Nat /\ at.lo <= Len(doc)
      <4> HIDE DEF lo, hi
      <4> QED BY <2>1, <2>2, <2>3, <2>7, <2>8, RebaseInside
    <3> HIDE DEF at, d0
    <3>3. SubSeq(doc, at.lo + 1, at.hi) = <<>>
      BY <2>1, <3>1, <3>2, NothingTaken
    <3> HIDE DEF lo, hi
    <3>4. SubSeq(d0, lo + 1, hi) = <<>>
      BY <2>3, <2>7, <2>11, NothingTaken
    <3> QED BY <2>8, <2>9, <3>3, <3>4
  <2> QED BY <2>7, <2>10, <2>11
<1>2. HInv /\ Placing => HunkHitsWhatWasRead
  BY <1>1 DEF HunkHitsWhatWasRead
<1> QED BY <1>2, PlacingAlways, PTL

\* What was said of the first ops of a journal, and the documents they made, stays so.
LEMMA PrefixDocs ==
  ASSUME NEW j \in Seq(Ops), NEW n \in 0 .. Len(j), NEW q \in 0 .. n
  PROVE  /\ SubSeq(SubSeq(j, 1, n), 1, q) = SubSeq(j, 1, q)
         /\ ReplayTo(Base, SubSeq(j, 1, n), q) = ReplayTo(Base, j, q)
<1> DEFINE p == SubSeq(j, 1, n)
           a == SubSeq(p, 1, q)
           b == SubSeq(j, 1, q)
<1>1. q \in 0 .. Len(j) /\ n \in Nat /\ Len(j) \in Nat
  OBVIOUS
<1>2. p \in Seq(Ops) /\ Len(p) = n /\ \A i \in 1 .. n : p[i] = j[i]
  BY PrefixOf
<1> HIDE DEF p
<1>3. a \in Seq(Ops) /\ Len(a) = q /\ \A i \in 1 .. q : a[i] = p[i]
  BY <1>2, PrefixOf
<1>4. b \in Seq(Ops) /\ Len(b) = q /\ \A i \in 1 .. q : b[i] = j[i]
  BY <1>1, PrefixOf
<1> HIDE DEF a, b
<1>5. \A i \in 1 .. q : a[i] = b[i]
  BY <1>2, <1>3, <1>4
<1>6. a = b
  BY <1>3, <1>4, <1>5
<1>7. SubSeq(p, 1, q) = SubSeq(j, 1, q)
  BY <1>6 DEF a, b
<1> QED BY <1>7 DEF ReplayTo, p

\* The first ops of the journal are as sound as the journal.
LEMMA PrefixInside ==
  ASSUME HInv, Placing, NEW n \in 0 .. Len(journal), NEW p, p = SubSeq(journal, 1, n)
  PROVE  /\ Before(p, journal, n) /\ TurnedRound(p) /\ Ordered(p) /\ EditsUndoNothing(p)
         /\ p \in Seq(Ops) /\ AllSited(p) /\ StaysInside(Base, p)
<1> DEFINE j == journal
<1>1. /\ Numbered(j) /\ TurnedRound(j) /\ Ordered(j) /\ EditsUndoNothing(j) /\ AllSited(j)
      /\ StaysInside(Base, j) /\ j \in Seq(Ops) /\ Len(j) \in Nat
  BY JournalSound
<1>2. Before(p, j, n)
  BY <1>1, PrefixBefore
<1>3. TurnedRound(p) /\ Ordered(p) /\ EditsUndoNothing(p) /\ p \in Seq(Ops)
  BY <1>1, <1>2, PrefixSound
<1>4. /\ Seqs(p) = 0 .. (n - 1)
      /\ \A s \in 0 .. (n - 1) : s \in Seqs(j) /\ OpAt(p, s) = OpAt(j, s)
  BY <1>2 DEF Before
<1>5. \A q \in 0 .. (n - 1) : SubSeq(p, 1, q) = SubSeq(j, 1, q) /\ ReplayTo(Base, p, q) = ReplayTo(Base, j, q)
  <2> SUFFICES ASSUME NEW q \in 0 .. (n - 1)
               PROVE  SubSeq(p, 1, q) = SubSeq(j, 1, q) /\ ReplayTo(Base, p, q) = ReplayTo(Base, j, q)
    OBVIOUS
  <2>1. q \in 0 .. n
    BY <1>1
  <2> QED BY <1>1, <2>1, PrefixDocs
<1>6. StaysInside(Base, p)
  <2> SUFFICES ASSUME NEW s \in 0 .. (n - 1)
               PROVE  OpAt(p, s).pos + DelLen(OpAt(p, s)) <= Len(ReplayTo(Base, p, s))
    BY <1>4 DEF StaysInside
  <2> QED BY <1>1, <1>4, <1>5 DEF StaysInside
<1>7. AllSited(p)
  <2> SUFFICES ASSUME NEW q \in 0 .. (n - 1), OpAt(p, q).kind # "edit" PROVE Sited(p, q)
    BY <1>4 DEF AllSited, IsEdit
  <2>1. OpAt(p, q) = OpAt(j, q) /\ q \in Seqs(j)
    BY <1>4
  <2>2. Sited(j, q)
    BY <1>1, <2>1 DEF AllSited, IsEdit
  <2> DEFINE u == OpAt(j, q).undoes
  <2>3. u \in 0 .. (q - 1)
    BY <1>1, <2>1 DEF Ordered
  <2> HIDE DEF u
  <2>4. u \in 0 .. (n - 1)
    BY <1>1, <2>3
  <2>5. OpAt(p, u) = OpAt(j, u)
    BY <1>4, <2>4
  <2> QED BY <1>5, <2>1, <2>2, <2>5 DEF Sited, u
<1> QED BY <1>2, <1>3, <1>6, <1>7

\* A reversal placed over ops that were undone in order by recorded ones takes out what
\* its target had put in.
LEMMA InOrderRecord ==
  ASSUME HInv, Placing, NEW s \in Seqs(journal), OpAt(journal, s).kind # "edit",
         UndoneInOrder(SubSeq(journal, 1, s), OpAt(journal, s).undoes + 1),
         \A r \in (OpAt(journal, s).undoes + 1) .. (s - 1) : Records(r)
  PROVE  RecordsRemoved(journal, s)
<1> DEFINE o == OpAt(journal, s)
           u == o.undoes
           x == OpAt(journal, u)
           t == u + 1
           p == SubSeq(journal, 1, s)
           lo == x.pos
           hi == x.pos + InsLen(x)
           d0 == ReplayTo(Base, journal, t)
           d == ReplayTo(Base, journal, s)
           at == Rebase(p, lo, hi, t)
<1>1. /\ Numbered(journal) /\ TurnedRound(journal) /\ Ordered(journal)
      /\ AllSited(journal) /\ Base \in Seq(Bytes) /\ journal \in Seq(Ops) /\ Len(journal) \in Nat
  BY JournalSound
<1>2. u \in 0 .. (s - 1) /\ s \in 0 .. Len(journal) /\ s \in Nat
  BY <1>1 DEF Ordered, Seqs
<1>3. u \in Seqs(journal) /\ t \in 0 .. s /\ t \in 0 .. Len(journal) /\ t > 0 /\ t \in Nat
  <2> HIDE DEF u
  <2> QED BY <1>1, <1>2 DEF Seqs
<1>4. x \in Ops /\ o \in Ops /\ o.del = x.ins
  BY <1>1, <1>3, OpShape DEF TurnedRound
<1>5. /\ lo \in Nat /\ hi \in Nat /\ InsLen(x) \in Nat /\ hi - lo = InsLen(x)
      /\ InsLen(x) = Len(x.ins) /\ DelLen(o) = InsLen(x)
  BY <1>4 DEF Ops, InsLen, DelLen
<1>6. d0 \in Seq(Bytes) /\ hi <= Len(d0) /\ SubSeq(d0, lo + 1, hi) = x.ins
  BY <1>3, StoodThere
<1>7. at.ok /\ at.hi - at.lo = InsLen(x) /\ o.pos = at.lo
  BY <1>1 DEF AllSited, IsEdit, Sited
<1>8. /\ Before(p, journal, s) /\ TurnedRound(p) /\ Ordered(p) /\ EditsUndoNothing(p)
      /\ p \in Seq(Ops) /\ AllSited(p) /\ StaysInside(Base, p)
  BY <1>2, PrefixInside
<1>9. Numbered(p) /\ Len(p) = s /\ Seqs(p) = 0 .. (s - 1)
  BY <1>8 DEF Before
<1>10. ReplayTo(Base, p, s) = d /\ ReplayTo(Base, p, t) = d0 /\ d \in Seq(Bytes)
  <2>1. s \in 0 .. s
    BY <1>2
  <2> QED BY <1>1, <1>2, <1>3, <2>1, PrefixDocs, ReplayNext
<1>11. UndoneInOrder(p, t)
  OBVIOUS
<1>12. \A r \in t .. (s - 1) : Records(r)
  OBVIOUS
<1> HIDE DEF p, t, u, d, d0, at
<1>13. Nested(p, t)
  BY <1>3, <1>8, <1>9, <1>11, InOrderNested
<1>14. PairsMeet(p, t) /\ NoZero(p, t)
  BY <1>3, <1>8, <1>9, <1>13, Meet DEF NoZero
<1>15. TakenRecorded(p, t)
  <2> SUFFICES ASSUME NEW q \in t .. (Len(p) - 1), Takes(p, q)
               PROVE  RecordsRemoved(p, OpAt(p, q).undoes)
    BY DEF TakenRecorded
  <2> DEFINE k == OpAt(p, q).undoes
  <2>1. k \in Nat /\ t <= k /\ k < q
    BY <1>3, <1>8, <1>9, <1>13, OneTaker
  <2> HIDE DEF k
  <2>2. k \in t .. (s - 1) /\ k \in 0 .. (s - 1) /\ k \in 0 .. s
    BY <1>2, <1>3, <1>9, <2>1
  <2>3. Records(k)
    BY <1>12, <2>2
  <2>4. OpAt(p, k) = OpAt(journal, k) /\ k \in Seqs(journal)
    BY <1>8, <2>2 DEF Before
  <2>5. RecordsRemoved(journal, k)
    <3>1. 0 \in 0 .. Len(journal)
      BY <1>1
    <3> QED BY <2>3, <2>4, <3>1, RecordsAre
  <2>6. ReplayTo(Base, p, k) = ReplayTo(Base, journal, k)
    BY <1>1, <1>2, <2>2, PrefixDocs DEF p
  <2> QED BY <2>4, <2>5, <2>6 DEF RecordsRemoved, k
<1> SUFFICES SubSeq(d, o.pos + 1, o.pos + DelLen(o)) = o.del
  BY DEF RecordsRemoved, d
<1>16. CASE lo < hi
  <2>1. Covers(at, d, lo, hi, d0)
    <3> HIDE DEF lo, hi
    <3>1. hi <= Len(ReplayTo(Base, p, t)) /\ Rebase(p, lo, hi, t).ok /\ t \in 0 .. Len(p)
      BY <1>3, <1>6, <1>7, <1>9, <1>10 DEF at
    <3>2. Covers(Rebase(p, lo, hi, t), ReplayTo(Base, p, Len(p)), lo, hi, ReplayTo(Base, p, t))
      BY <1>5, <1>8, <1>9, <1>13, <1>14, <1>15, <1>16, <3>1, NestedRange
    <3> QED BY <1>9, <1>10, <3>2 DEF at
  <2>2. at.lo \in Nat /\ at.hi \in Nat /\ at.lo + InsLen(x) = at.hi
    <3> HIDE DEF lo, hi
    <3> QED BY <1>5, <1>7, <2>1 DEF Covers
  <2>3. SameText(at, d, lo, hi, d0)
    <3> HIDE DEF lo, hi
    <3> QED BY <1>5, <1>6, <1>10, <2>1, SameRun
  <2>4. SubSeq(d, at.lo + 1, at.hi) = x.ins
    BY <1>6, <2>3 DEF SameText
  <2> QED BY <1>4, <1>5, <1>7, <2>2, <2>4
<1>17. CASE lo = hi
  <2>1. InsLen(x) = 0 /\ x.ins = <<>>
    BY <1>4, <1>5, <1>17 DEF Ops
  <2>2. at.lo \in Nat /\ at.lo <= Len(d)
    <3>1. lo <= Len(d0)
      BY <1>6, <1>17
    <3> HIDE DEF lo, hi
    <3>2. lo <= Len(ReplayTo(Base, p, t)) /\ hi <= Len(ReplayTo(Base, p, t)) /\ t \in 0 .. Len(p)
      BY <1>3, <1>6, <1>9, <1>10, <3>1
    <3>3. Rebase(p, lo, hi, t).ok
      BY <1>7 DEF at
    <3>4. at.lo \in Nat /\ at.lo <= Len(ReplayTo(Base, p, Len(p)))
      BY <1>1, <1>5, <1>8, <1>9, <3>2, <3>3, RebaseInside DEF at
    <3> QED BY <1>9, <1>10, <3>4
  <2>3. SubSeq(d, at.lo + 1, at.lo + 0) = <<>>
    <3>1. at.lo + 0 <= at.lo /\ at.lo + 0 = at.lo
      BY <2>2
    <3> QED BY <1>10, <2>2, <3>1, NothingTaken
  <2> QED BY <1>4, <1>5, <1>7, <2>1, <2>3
<1> QED BY <1>5, <1>16, <1>17

\* Every edit records what it removes, a hunk carried over any history included, and so
\* does every undo and redo over ops undone in order by ops that recorded what they
\* removed.
THEOREM OpsRecordInOrder == Spec => []RecordsInOrder
<1>1. ASSUME HInv, Placing, EditsRecord, NEW s \in Seqs(journal),
             \/ OpAt(journal, s).kind = "edit"
             \/ /\ UndoneInOrder(SubSeq(journal, 1, s), OpAt(journal, s).undoes + 1)
                /\ \A r \in (OpAt(journal, s).undoes + 1) .. (s - 1) : Records(r)
      PROVE  Records(s)
  <2>1. RecordsRemoved(journal, s)
    <3>1. CASE OpAt(journal, s).kind = "edit"
      BY <1>1, <3>1 DEF EditsRecord, IsEdit
    <3>2. CASE OpAt(journal, s).kind # "edit"
      BY <1>1, <3>2, InOrderRecord
    <3> QED BY <3>1, <3>2
  <2>2. 0 \in 0 .. Len(journal)
    BY <1>1, JournalSound
  <2> QED BY <1>1, <2>1, <2>2, RecordsAre
<1>2. HInv /\ EditsRecord /\ Placing => RecordsInOrder
  BY <1>1 DEF RecordsInOrder
<1>3. Spec => [](HInv /\ EditsRecord) /\ [](HInv /\ Placing)
  BY RecordsAlways, PlacingAlways
<1> QED BY <1>2, <1>3, PTL

-----------------------------------------------------------------------------
(* Taking a reversal back.                                                 *)

\* The journal and document of a session, or of one that went on from it.
Sound(j, d) ==
    /\ Numbered(j) /\ TurnedRound(j) /\ Ordered(j) /\ EditsUndoNothing(j) /\ AllSited(j)
    /\ StaysInside(Base, j) /\ d = ReplayTo(Base, j, Len(j))

\* o reverses op s of j, where Rebase puts it, as the next op.
Reverts(j, d, s, o) ==
    /\ o \in Ops /\ o.seq = Len(j) /\ o.undoes = s /\ o.kind # "edit"
    /\ o.del = OpAt(j, s).ins /\ o.ins = OpAt(j, s).del
    /\ o.pos + DelLen(o) <= Len(d)
    /\ LET t == OpAt(j, s)
           r == Rebase(j, t.pos, t.pos + InsLen(t), s + 1)
       IN  r.ok /\ r.hi - r.lo = InsLen(t) /\ o.pos = r.lo

\* The document after an op holds all it inserted.
LEMMA InsertedInside ==
  ASSUME NEW j, NEW d, Sound(j, d), NEW s \in Seqs(j)
  PROVE  /\ s + 1 \in 0 .. Len(j) /\ ReplayTo(Base, j, s + 1) \in Seq(Bytes)
         /\ OpAt(j, s).pos + InsLen(OpAt(j, s)) <= Len(ReplayTo(Base, j, s + 1))
<1> DEFINE o == OpAt(j, s)
           d0 == ReplayTo(Base, j, s)
           d1 == ReplayTo(Base, j, s + 1)
<1>1. j \in Seq(Ops) /\ Base \in Seq(Bytes) /\ o \in Ops /\ o.pos \in Nat /\ DelLen(o) \in Nat
      /\ InsLen(o) \in Nat
  BY BaseTyped, OpShape DEF Sound, Numbered
<1>2. s \in 0 .. Len(j) /\ s + 1 \in 0 .. Len(j) /\ d1 = Apply(d0, o)
  BY <1>1, ReplayOp
<1>3. d0 \in Seq(Bytes) /\ d1 \in Seq(Bytes)
  <2> DEFINE v == s + 1
  <2>1. v \in 0 .. Len(j)
    BY <1>2
  <2> HIDE DEF v
  <2>2. ReplayTo(Base, j, v) \in Seq(Bytes)
    BY <1>1, <2>1, ReplayNext
  <2> QED BY <1>1, <1>2, <2>2, ReplayNext DEF v
<1>4. o.pos + DelLen(o) <= Len(d0)
  BY DEF Sound, StaysInside
<1> HIDE DEF o, d0, d1
<1>5. Len(d1) = Len(d0) + Delta(o) /\ Delta(o) = InsLen(o) - DelLen(o) /\ Len(d0) \in Nat
  BY <1>1, <1>2, <1>3, <1>4, ApplyLength DEF Delta
<1>6. o.pos + InsLen(o) <= Len(d1)
  BY <1>1, <1>4, <1>5
<1> QED BY <1>2, <1>3, <1>6 DEF o, d1

\* What RebasedInverse gives, once it is numbered.
LEMMA InverseReverts ==
  ASSUME NEW j, NEW d, Sound(j, d), NEW s \in Seqs(j), NEW g \in Nat,
         RebasedInverse(j, d, OpAt(j, s)).ok
  PROVE  Reverts(j, d, s, [RebasedInverse(j, d, OpAt(j, s)).op EXCEPT !.seq = Len(j), !.group = g])
<1> DEFINE o == OpAt(j, s)
           lo == o.pos
           hi == o.pos + InsLen(o)
           r == Rebase(j, lo, hi, s + 1)
           i == RebasedInverse(j, d, o).op
           op == [i EXCEPT !.seq = Len(j), !.group = g]
<1>1. /\ o \in Ops /\ o.seq = s /\ s \in Nat /\ o.pos \in Nat
      /\ DelLen(o) \in Nat /\ InsLen(o) \in Nat
      /\ o.del \in Seq(Bytes) /\ o.ins \in Seq(Bytes) /\ o.kind \in Kinds
  BY OpShape DEF Sound
<1>2. hi <= Len(ReplayTo(Base, j, s + 1)) /\ s + 1 \in 0 .. Len(j)
      /\ ReplayTo(Base, j, s + 1) \in Seq(Bytes)
  BY InsertedInside
<1>3. /\ Numbered(j) /\ TurnedRound(j) /\ StaysInside(Base, j) /\ Base \in Seq(Bytes)
      /\ j \in Seq(Ops) /\ Len(j) \in Nat
      /\ d = ReplayTo(Base, j, Len(j))
  BY BaseTyped DEF Sound, Numbered
<1>4. lo \in Nat /\ hi \in Nat /\ lo <= hi /\ hi - lo = InsLen(o)
  <2> HIDE DEF o
  <2> QED BY <1>1
<1>5. i = [InverseOp(o) EXCEPT !.pos = r.lo] /\ r.ok /\ r.hi - r.lo = InsLen(o) /\ r.hi <= Len(d)
  BY <1>1 DEF RebasedInverse, InverseAt
<1>6. r.lo \in Nat /\ r.hi \in Nat
  <2> DEFINE v == s + 1
             n == Len(ReplayTo(Base, j, v))
  <2>1. v \in 0 .. Len(j) /\ hi <= n /\ n \in Nat
    BY <1>2
  <2> HIDE DEF lo, hi, v
  <2>2. lo <= n /\ hi <= n
    <3> HIDE DEF n
    <3> QED BY <1>4, <2>1
  <2> QED BY <1>3, <1>4, <2>1, <2>2, RebaseInside DEF v
<1> HIDE DEF o, r, i
<1>7. /\ i \in Ops /\ i.pos = r.lo /\ i.del = o.ins /\ i.ins = o.del /\ i.undoes = s /\ i.kind # "edit"
  <2>1. {"undo", "redo"} \subseteq Kinds
    BY DEF Kinds
  <2> QED BY <1>1, <1>5, <1>6, <2>1 DEF InverseOp, Ops
<1>8. /\ op \in Ops /\ op.pos = i.pos /\ op.del = i.del /\ op.ins = i.ins /\ op.undoes = i.undoes
      /\ op.kind = i.kind /\ op.seq = Len(j)
  BY <1>3, <1>7 DEF Ops
<1> HIDE DEF op
<1>9. op.pos + DelLen(op) <= Len(d)
  <2>1. DelLen(op) = InsLen(o)
    BY <1>7, <1>8 DEF DelLen, InsLen
  <2>2. Len(d) \in Nat
    <3>1. Len(j) \in 0 .. Len(j)
      BY <1>3
    <3>2. d \in Seq(Bytes)
      BY <1>3, <3>1, ReplayNext
    <3> QED BY <3>2
  <2> QED BY <1>1, <1>5, <1>6, <1>7, <1>8, <2>1, <2>2
<1>10. Reverts(j, d, s, op)
  BY <1>5, <1>7, <1>8, <1>9 DEF Reverts, o, r
<1> QED BY <1>10 DEF op, i, o

\* A journal that is sound stays so with one more reversal.
LEMMA SoundMore ==
  ASSUME NEW j, NEW d, Sound(j, d), NEW s \in Seqs(j), NEW o, Reverts(j, d, s, o)
  PROVE  /\ Sound(Append(j, o), Apply(d, o)) /\ Longer(Append(j, o), j, o)
         /\ \A q \in 0 .. Len(j) : ReplayTo(Base, Append(j, o), q) = ReplayTo(Base, j, q)
<1> DEFINE n == Len(j)
           k == Append(j, o)
<1>1. /\ j \in Seq(Ops) /\ n \in Nat /\ o \in Ops /\ o.seq = n /\ o.undoes = s /\ o.kind # "edit"
      /\ o.del = OpAt(j, s).ins /\ o.ins = OpAt(j, s).del
      /\ o.pos + DelLen(o) <= Len(d) /\ d = ReplayTo(Base, j, n) /\ Base \in Seq(Bytes)
  BY BaseTyped DEF Sound, Reverts, Numbered
<1>2. Longer(k, j, o) /\ k \in Seq(Ops)
  BY <1>1, OneMore
<1>3. /\ Seqs(k) = Seqs(j) \cup {n} /\ OpAt(k, n) = o
      /\ \A q \in Seqs(j) : OpAt(k, q) = OpAt(j, q)
      /\ Len(k) = n + 1 /\ Seqs(j) = 0 .. (n - 1)
  BY <1>2 DEF Longer, Seqs
<1>4. \A q \in 0 .. n : ReplayTo(Base, k, q) = ReplayTo(Base, j, q) /\ SubSeq(k, 1, q) = SubSeq(j, 1, q)
  <2> SUFFICES ASSUME NEW q \in 0 .. n
               PROVE  ReplayTo(Base, k, q) = ReplayTo(Base, j, q) /\ SubSeq(k, 1, q) = SubSeq(j, 1, q)
    OBVIOUS
  <2> QED BY <1>1, ReplayOfPrefix, PrefixKept
<1>5. SubSeq(j, 1, n) = j
  <2>1. n \in 0 .. Len(j)
    BY <1>1
  <2> QED BY <1>1, <2>1, PrefixKept
<1>6. n \in 0 .. n /\ \A q \in Seqs(j) : q \in 0 .. n /\ q \in Nat
  BY <1>1, <1>3
<1>7. Sound(j, d)
  OBVIOUS
<1> HIDE DEF k, n
<1>8. ASSUME NEW q \in Seqs(k), OpAt(k, q).kind # "edit"
      PROVE  LET u == OpAt(k, q).undoes
             IN  /\ u \in 0 .. (q - 1) /\ u \in Seqs(j) /\ OpAt(k, u) = OpAt(j, u)
                 /\ OpAt(k, q).ins = OpAt(j, u).del /\ OpAt(k, q).del = OpAt(j, u).ins
  <2> DEFINE u == OpAt(k, q).undoes
  <2>1. CASE q = n
    <3>1. u = s
      BY <1>1, <1>3, <2>1
    <3>2. s \in 0 .. (n - 1)
      BY <1>3
    <3> QED BY <1>1, <1>3, <2>1, <3>1, <3>2
  <2>2. CASE q \in Seqs(j)
    <3>1. OpAt(k, q) = OpAt(j, q)
      BY <1>3, <2>2
    <3>2. u \in 0 .. (q - 1)
      BY <1>7, <1>8, <2>2, <3>1 DEF Sound, Ordered
    <3>3. OpAt(k, q).ins = OpAt(j, u).del /\ OpAt(k, q).del = OpAt(j, u).ins
      BY <1>7, <1>8, <2>2, <3>1 DEF Sound, TurnedRound
    <3> HIDE DEF u
    <3>4. u \in Seqs(j)
      BY <1>1, <1>3, <2>2, <3>2
    <3>5. OpAt(k, u) = OpAt(j, u)
      BY <1>3, <3>4
    <3> QED BY <3>2, <3>3, <3>4, <3>5 DEF u
  <2> QED BY <1>3, <2>1, <2>2
<1>9. Numbered(k)
  BY <1>1, <1>2, <1>3, <1>7 DEF Sound, Numbered
<1>10. Ordered(k)
  BY <1>8 DEF Ordered
<1>11. TurnedRound(k)
  BY <1>8 DEF TurnedRound
<1>12. EditsUndoNothing(k)
  BY <1>1, <1>3, <1>7 DEF Sound, EditsUndoNothing, IsEdit
<1>13. StaysInside(Base, k)
  <2> SUFFICES ASSUME NEW q \in Seqs(k)
               PROVE  OpAt(k, q).pos + DelLen(OpAt(k, q)) <= Len(ReplayTo(Base, k, q))
    BY DEF StaysInside
  <2>1. CASE q = n
    BY <1>1, <1>3, <1>4, <1>6, <2>1
  <2>2. CASE q \in Seqs(j)
    BY <1>3, <1>4, <1>6, <1>7, <2>2 DEF Sound, StaysInside
  <2> QED BY <1>3, <2>1, <2>2
<1>14. AllSited(k)
  <2> SUFFICES ASSUME NEW q \in Seqs(k), OpAt(k, q).kind # "edit" PROVE Sited(k, q)
    BY DEF AllSited, IsEdit
  <2> DEFINE u == OpAt(k, q).undoes
  <2>1. OpAt(k, u) = OpAt(j, u)
    BY <1>8
  <2>2. CASE q = n
    <3>1. SubSeq(k, 1, q) = j /\ OpAt(k, q) = o /\ u = s
      BY <1>1, <1>3, <1>4, <1>5, <1>6, <2>2
    <3>2. LET t == OpAt(j, s)
              r == Rebase(j, t.pos, t.pos + InsLen(t), s + 1)
          IN  r.ok /\ r.hi - r.lo = InsLen(t) /\ o.pos = r.lo
      BY DEF Reverts
    <3> QED BY <2>1, <3>1, <3>2 DEF Sited
  <2>3. CASE q \in Seqs(j)
    <3>1. OpAt(k, q) = OpAt(j, q) /\ SubSeq(k, 1, q) = SubSeq(j, 1, q)
      BY <1>3, <1>4, <1>6, <2>3
    <3>2. Sited(j, q)
      BY <1>7, <2>3, <3>1 DEF Sound, AllSited, IsEdit
    <3> QED BY <2>1, <3>1, <3>2 DEF Sited
  <2> QED BY <1>3, <2>2, <2>3
<1>15. Apply(d, o) = ReplayTo(Base, k, Len(k))
  <2>1. n \in Seqs(k)
    BY <1>3
  <2>2. ReplayTo(Base, k, n + 1) = Apply(ReplayTo(Base, k, n), OpAt(k, n))
    BY <1>1, <1>2, <2>1, ReplayOp
  <2> QED BY <1>1, <1>3, <1>4, <1>6, <2>2
<1>16. Sound(k, Apply(d, o))
  BY <1>9, <1>10, <1>11, <1>12, <1>13, <1>14, <1>15 DEF Sound
<1> QED BY <1>2, <1>4, <1>16 DEF k, n

-----------------------------------------------------------------------------
(* The journal of a reversal in progress.                                  *)

\* Since version f the journal holds n reversals of older ops, and after them the
\* reversals of all but k of those, newest first.
Stack(j, f, n, k) ==
    /\ Len(j) = f + n + (n - k)
    /\ \A q \in f .. (f + n - 1) : OpAt(j, q).kind # "edit" /\ OpAt(j, q).undoes < f
    /\ \A q \in (f + n) .. (Len(j) - 1) :
          OpAt(j, q).kind # "edit" /\ OpAt(j, q).undoes = 2 * (f + n) - 1 - q

\* Those that were taken back are nested, and the rest is as it was.
LEMMA StackNested ==
  ASSUME NEW j, Numbered(j), Ordered(j), NEW f \in Nat, NEW n \in Nat, NEW k \in 0 .. n, Stack(j, f, n, k)
  PROVE  /\ Nested(j, f + k) /\ Balanced(j, f + k, Len(j))
         /\ \A q \in (f + k) .. (Len(j) - 1) :
               Takes(j, q) => OpAt(j, q).undoes \in (f + k) .. (f + n - 1)
<1> DEFINE m == f + n
           v == f + k
           e == Len(j)
           C(q) == 2 * m - 1 - q
<1>1. j \in Seq(Ops) /\ e \in Nat /\ m \in Nat /\ v \in Nat /\ f <= v /\ v <= m /\ e = 2 * m - v
      /\ Seqs(j) = 0 .. (e - 1) /\ m <= e
  BY DEF Numbered, Stack, Seqs
<1>2. ASSUME NEW q \in f .. (m - 1) PROVE OpAt(j, q).kind # "edit" /\ OpAt(j, q).undoes < f
  BY DEF Stack
<1>3. ASSUME NEW q \in m .. (e - 1) PROVE OpAt(j, q).kind # "edit" /\ OpAt(j, q).undoes = C(q)
  BY DEF Stack
<1> HIDE DEF e, m, v
<1>4. ASSUME NEW q \in m .. (e - 1) PROVE q \in Seqs(j) /\ C(q) \in v .. (m - 1) /\ q \in LiveOps(j)
  <2>1. q \in Seqs(j) /\ C(q) \in v .. (m - 1)
    BY <1>1
  <2>2. ASSUME NEW r \in Reversers(j, q) PROVE FALSE
    <3>1. r \in (q + 1) .. (Len(j) - 1) /\ OpAt(j, r).undoes = q
      BY <1>1, <2>1, LaterReversers DEF Reversers
    <3>2. r \in m .. (e - 1)
      BY <1>1, <3>1 DEF e
    <3>3. OpAt(j, r).undoes = C(r)
      BY <1>3, <3>2
    <3> QED BY <1>1, <3>1, <3>2, <3>3
  <2> QED BY <1>1, <2>1, <2>2, LivenessIs
<1>5. ASSUME NEW s \in v .. (m - 1)
      PROVE  /\ s \in Seqs(j) /\ C(s) \in m .. (e - 1) /\ C(C(s)) = s /\ ~Takes(j, s)
             /\ Takes(j, C(s)) /\ OpAt(j, C(s)).undoes = s
  <2>1. s \in Seqs(j) /\ C(s) \in m .. (e - 1) /\ C(C(s)) = s
    BY <1>1
  <2> DEFINE q == C(s)
  <2>2. q \in m .. (e - 1)
    BY <2>1
  <2> HIDE DEF q
  <2>3. q \in Seqs(j) /\ q \in LiveOps(j) /\ OpAt(j, q).kind # "edit" /\ OpAt(j, q).undoes = C(q)
    BY <1>3, <1>4, <2>2
  <2>4. C(q) = s
    BY <2>1 DEF q
  <2> HIDE DEF C
  <2>5. q \in Reversers(j, s)
    BY <2>3, <2>4 DEF Reversers
  <2>6. s \notin LiveOps(j)
    BY <1>1, <2>1, <2>3, <2>5, LivenessIs
  <2> QED BY <2>1, <2>3, <2>4, <2>6 DEF Takes, q
<1>6. ASSUME NEW q \in v .. (e - 1)
      PROVE  /\ q \in m .. (e - 1) => /\ Takes(j, q) /\ OpAt(j, q).undoes = C(q)
                                      /\ C(q) \in v .. (m - 1)
             /\ q \notin m .. (e - 1) => /\ q \in v .. (m - 1) /\ ~Takes(j, q)
  <2>1. CASE q \in m .. (e - 1)
    BY <1>3, <1>4, <2>1 DEF Takes
  <2>2. CASE q \notin m .. (e - 1)
    <3>1. q \in v .. (m - 1)
      BY <1>1, <2>2
    <3> QED BY <1>5, <2>2, <3>1
  <2> QED BY <2>1, <2>2
<1>7. Balanced(j, v, e)
  <2> SUFFICES ASSUME NEW q \in v .. (e - 1)
               PROVE  IF Takes(j, q) THEN OpAt(j, q).undoes >= v ELSE Undone(j, q, e)
    BY DEF Balanced
  <2>1. CASE q \in m .. (e - 1)
    <3>1. Takes(j, q) /\ OpAt(j, q).undoes = C(q) /\ C(q) \in v .. (m - 1)
      BY <1>6, <2>1
    <3>2. C(q) >= v
      BY <1>1, <3>1
    <3> QED BY <3>1, <3>2
  <2>2. CASE q \notin m .. (e - 1)
    <3>1. q \in v .. (m - 1) /\ ~Takes(j, q)
      BY <1>6, <2>2
    <3>2. C(q) \in m .. (e - 1) /\ Takes(j, C(q)) /\ OpAt(j, C(q)).undoes = q
      BY <1>5, <3>1
    <3>3. C(q) \in (q + 1) .. (e - 1)
      BY <1>1, <3>1, <3>2
    <3> HIDE DEF C
    <3> QED BY <3>1, <3>2, <3>3 DEF Undone
  <2> QED BY <2>1, <2>2
<1>8. Nested(j, v)
  <2> SUFFICES ASSUME NEW r \in v .. (e - 1), Takes(j, r)
               PROVE  OpAt(j, r).undoes >= v /\ Between(j, OpAt(j, r).undoes, r)
    BY DEF Nested, e
  <2> DEFINE s == OpAt(j, r).undoes
  <2>1. r \in m .. (e - 1)
    BY <1>6
  <2>2. s = C(r) /\ C(r) \in v .. (m - 1)
    BY <1>6, <2>1
  <2> HIDE DEF s
  <2>3. s >= v /\ s \in Nat /\ s < m /\ r >= m /\ r < e /\ r \in Nat
    BY <1>1, <2>1, <2>2
  <2>4. Balanced(j, s + 1, r)
    <3> SUFFICES ASSUME NEW q \in (s + 1) .. (r - 1)
                 PROVE  IF Takes(j, q) THEN OpAt(j, q).undoes >= s + 1 ELSE Undone(j, q, r)
      BY DEF Balanced
    <3>1. q \in v .. (e - 1)
      BY <1>1, <2>3
    <3>2. CASE q \in m .. (e - 1)
      <4>1. Takes(j, q) /\ OpAt(j, q).undoes = C(q)
        BY <1>6, <3>1, <3>2
      <4>2. C(q) >= s + 1
        BY <1>1, <2>2, <2>3
      <4> QED BY <4>1, <4>2
    <3>3. CASE q \notin m .. (e - 1)
      <4>1. q \in v .. (m - 1) /\ ~Takes(j, q)
        BY <1>6, <3>1, <3>3
      <4>2. Takes(j, C(q)) /\ OpAt(j, C(q)).undoes = q /\ C(q) \in m .. (e - 1)
        BY <1>5, <4>1
      <4>3. C(q) \in (q + 1) .. (r - 1)
        BY <1>1, <2>2, <2>3, <4>1
      <4> HIDE DEF C
      <4> QED BY <4>1, <4>2, <4>3 DEF Undone
    <3> QED BY <3>2, <3>3
  <2>5. ASSUME NEW q \in (s + 1) .. (r - 1) PROVE OpAt(j, q).undoes # s
    <3>1. q \in v .. (e - 1)
      BY <1>1, <2>3
    <3>2. CASE q \in m .. (e - 1)
      <4>1. OpAt(j, q).undoes = C(q)
        BY <1>6, <3>1, <3>2
      <4>2. C(q) # s
        BY <1>1, <2>2, <2>3
      <4> QED BY <4>1, <4>2
    <3>3. CASE q \notin m .. (e - 1)
      <4>1. q \in f .. (m - 1)
        BY <1>1, <3>1, <3>3
      <4>2. OpAt(j, q).undoes < f
        BY <1>2, <4>1
      <4> QED BY <1>1, <2>3, <4>2
    <3> QED BY <3>2, <3>3
  <2> QED BY <2>3, <2>4, <2>5 DEF Between, s
<1>9. ASSUME NEW q \in v .. (e - 1), Takes(j, q) PROVE OpAt(j, q).undoes \in v .. (m - 1)
  BY <1>6, <1>9
<1> QED BY <1>7, <1>8, <1>9 DEF v, e, m

\* The reversals that the stack of j is about recorded what they removed.
StackRecorded(j, f, n) == \A q \in f .. (f + n - 1) : RecordsRemoved(j, q)

\* A reversal in progress, over a sound journal.
Underway(j, d, f, n, k) == Sound(j, d) /\ Stack(j, f, n, k) /\ StackRecorded(j, f, n)

\* So what was taken back left no trace in the document, and the newest of the rest can
\* be taken back as well.
LEMMA StackReturns ==
  ASSUME NEW j, NEW d, NEW f \in Nat, NEW n \in Nat, NEW k \in 0 .. n, Underway(j, d, f, n, k)
  PROVE  /\ d = ReplayTo(Base, j, f + k)
         /\ k > 0 => /\ f + k - 1 \in Seqs(j)
                     /\ RebasedInverse(j, d, OpAt(j, f + k - 1)).ok
<1> DEFINE v == f + k
           e == Len(j)
<1>1. /\ Numbered(j) /\ TurnedRound(j) /\ Ordered(j) /\ EditsUndoNothing(j) /\ AllSited(j)
      /\ StaysInside(Base, j) /\ d = ReplayTo(Base, j, e) /\ j \in Seq(Ops)
      /\ Stack(j, f, n, k) /\ StackRecorded(j, f, n)
  BY DEF Underway, Sound, Numbered
<1>2. /\ Nested(j, v) /\ Balanced(j, v, e)
      /\ \A q \in v .. (e - 1) : Takes(j, q) => OpAt(j, q).undoes \in v .. (f + n - 1)
  BY <1>1, StackNested
<1>3. v \in Nat /\ e \in Nat /\ v <= e /\ v \in 0 .. e /\ v \in v .. e /\ e \in v .. e
  BY <1>1 DEF Stack
<1>4. PairsMeet(j, v)
  <2> HIDE DEF v
  <2> QED BY <1>1, <1>2, <1>3, Meet
<1>5. TakenRecorded(j, v)
  <2> SUFFICES ASSUME NEW q \in v .. (e - 1), Takes(j, q)
               PROVE  RecordsRemoved(j, OpAt(j, q).undoes)
    BY DEF TakenRecorded
  <2> DEFINE u == OpAt(j, q).undoes
  <2>1. u \in v .. (f + n - 1)
    BY <1>2
  <2> HIDE DEF u
  <2>2. u \in f .. (f + n - 1)
    BY <2>1
  <2>3. RecordsRemoved(j, u)
    BY <1>1, <2>2 DEF StackRecorded
  <2> QED BY <2>3 DEF u
<1>6. d = ReplayTo(Base, j, v)
  <2> HIDE DEF v
  <2> QED BY <1>1, <1>2, <1>3, <1>4, <1>5, DocReturns
<1>7. ASSUME k > 0
      PROVE  f + k - 1 \in Seqs(j) /\ RebasedInverse(j, d, OpAt(j, f + k - 1)).ok
  <2> DEFINE s == f + k - 1
             o == OpAt(j, s)
             lo == o.pos
             hi == o.pos + InsLen(o)
  <2>1. s \in Seqs(j) /\ s + 1 = v /\ v > 0
    BY <1>1, <1>3, <1>7 DEF Stack, Seqs
  <2>2. o \in Ops /\ o.seq = s /\ o.pos \in Nat /\ InsLen(o) \in Nat
    BY <1>1, <2>1, OpShape
  <2>3. lo \in Nat /\ hi \in Nat /\ hi - lo = InsLen(o)
    <3> HIDE DEF o
    <3> QED BY <2>2
  <2>4. hi <= Len(ReplayTo(Base, j, s + 1))
    <3>1. Sound(j, d)
      BY DEF Underway
    <3> HIDE DEF s
    <3> QED BY <2>1, <3>1, InsertedInside
  <2>5. NoZero(j, v)
    BY <2>1 DEF NoZero
  <2> HIDE DEF s, v
  <2>6. Unmoved(Rebase(j, lo, hi, v), lo, hi)
    <3> HIDE DEF lo, hi
    <3> QED BY <1>1, <1>2, <1>3, <1>4, <2>3, <2>5, RebaseReturns
  <2> DEFINE r == Rebase(j, lo, hi, v)
  <2>7. RebasedInverse(j, d, o) = InverseAt(r, d, o)
    BY <2>1, <2>2 DEF RebasedInverse
  <2> HIDE DEF o
  <2>8. r.ok /\ r.lo = lo /\ r.hi = hi
    BY <2>6 DEF Unmoved
  <2>9. r.hi <= Len(d)
    BY <1>6, <2>1, <2>4, <2>8
  <2> HIDE DEF r, lo, hi
  <2>10. InverseAt(r, d, o).ok = (r.ok /\ r.hi - r.lo = InsLen(o) /\ r.hi <= Len(d))
    BY DEF InverseAt
  <2>11. RebasedInverse(j, d, o).ok
    BY <2>3, <2>7, <2>8, <2>9, <2>10
  <2> QED BY <2>1, <2>11 DEF s, o
<1> QED BY <1>6, <1>7 DEF v

\* One more is taken back.
LEMMA StackLess ==
  ASSUME NEW j, NEW d, NEW f \in Nat, NEW n \in Nat, NEW k \in 0 .. n, Underway(j, d, f, n, k), k > 0,
         NEW o, Reverts(j, d, f + k - 1, o)
  PROVE  /\ Underway(Append(j, o), Apply(d, o), f, n, k - 1)
         /\ ReplayTo(Base, Append(j, o), f) = ReplayTo(Base, j, f)
         /\ Longer(Append(j, o), j, o)
<1> DEFINE e == Len(j)
           s == f + k - 1
           i == Append(j, o)
<1>1. Sound(j, d) /\ Stack(j, f, n, k) /\ StackRecorded(j, f, n) /\ e \in Nat /\ Seqs(j) = 0 .. (e - 1)
  BY DEF Underway, Sound, Numbered, Seqs
<1>2. s \in Seqs(j) /\ e = 2 * (f + n) - (f + k) /\ f <= e /\ f + n <= e
  BY <1>1 DEF Stack
<1>3. /\ Sound(i, Apply(d, o)) /\ Longer(i, j, o)
      /\ \A q \in 0 .. e : ReplayTo(Base, i, q) = ReplayTo(Base, j, q)
  <2> HIDE DEF s
  <2>1. Reverts(j, d, s, o)
    BY DEF s
  <2> QED BY <1>1, <1>2, <2>1, SoundMore
<1>4. /\ Len(i) = e + 1 /\ OpAt(i, e) = o /\ \A q \in Seqs(j) : OpAt(i, q) = OpAt(j, q)
  BY <1>3 DEF Longer
<1>5. o.kind # "edit" /\ o.undoes = s
  BY DEF Reverts
<1> HIDE DEF i, e
<1>6. Stack(i, f, n, k - 1)
  <2>1. Len(i) = f + n + (n - (k - 1))
    BY <1>2, <1>4
  <2>2. ASSUME NEW q \in f .. (f + n - 1) PROVE OpAt(i, q).kind # "edit" /\ OpAt(i, q).undoes < f
    <3>1. q \in Seqs(j)
      BY <1>1, <1>2
    <3> QED BY <1>1, <1>4, <3>1 DEF Stack
  <2>3. ASSUME NEW q \in (f + n) .. (Len(i) - 1)
        PROVE  OpAt(i, q).kind # "edit" /\ OpAt(i, q).undoes = 2 * (f + n) - 1 - q
    <3>1. CASE q = e
      <4>1. 2 * (f + n) - 1 - q = s
        BY <1>2, <3>1
      <4> QED BY <1>4, <1>5, <3>1, <4>1
    <3>2. CASE q # e
      <4>1. q \in (f + n) .. (e - 1) /\ q \in Seqs(j)
        BY <1>1, <1>4, <3>2
      <4>2. OpAt(j, q).kind # "edit" /\ OpAt(j, q).undoes = 2 * (f + n) - 1 - q
        BY <1>1, <4>1 DEF Stack, e
      <4> QED BY <1>4, <4>1, <4>2
    <3> QED BY <3>1, <3>2
  <2> QED BY <2>1, <2>2, <2>3 DEF Stack
<1>7. StackRecorded(i, f, n)
  <2> SUFFICES ASSUME NEW q \in f .. (f + n - 1) PROVE RecordsRemoved(i, q)
    BY DEF StackRecorded
  <2>1. q \in Seqs(j) /\ q \in 0 .. e
    BY <1>1, <1>2
  <2>2. RecordsRemoved(j, q)
    BY <1>1 DEF StackRecorded
  <2> QED BY <1>3, <1>4, <2>1, <2>2 DEF RecordsRemoved, e
<1>8. f \in 0 .. e
  BY <1>1, <1>2
<1> QED BY <1>3, <1>6, <1>7, <1>8 DEF Underway, i, e

\* One step of TakeBack.
TakeStep(applied, o, acc) ==
    LET inv == RebasedInverse(acc.j, acc.d, o)
        op  == [inv.op EXCEPT !.seq = Len(acc.j), !.group = group]
    IN  IF o.seq \notin applied THEN acc
        ELSE IF acc.ok /\ inv.ok
        THEN [j |-> Append(acc.j, op), d |-> Apply(acc.d, op), ok |-> TRUE]
        ELSE [acc EXCEPT !.ok = FALSE]

\* What TakeBack may have come to: a journal that goes on from today's.
Takings == {t \in [j : Seq(Ops), d : Seq(Bytes), ok : BOOLEAN] :
               /\ Sound(t.j, t.d) /\ Len(journal) <= Len(t.j)
               /\ \A s \in Seqs(journal) : OpAt(t.j, s) = OpAt(journal, s)}

LEMMA TakeStepTyped ==
  ASSUME NEW applied, group \in Nat, journal \in Seq(Ops),
         NEW t \in Takings, NEW i \in 1 .. Len(journal)
  PROVE  TakeStep(applied, journal[i], t) \in Takings
<1> DEFINE o == journal[i]
           s == i - 1
           inv == RebasedInverse(t.j, t.d, o)
           op  == [inv.op EXCEPT !.seq = Len(t.j), !.group = group]
           u == [j |-> Append(t.j, op), d |-> Apply(t.d, op), ok |-> TRUE]
           w == [t EXCEPT !.ok = FALSE]
<1>1. /\ t \in [j : Seq(Ops), d : Seq(Bytes), ok : BOOLEAN]
      /\ Sound(t.j, t.d) /\ Len(journal) <= Len(t.j)
      /\ \A q \in Seqs(journal) : OpAt(t.j, q) = OpAt(journal, q)
  BY DEF Takings
<1>2. s \in Seqs(journal) /\ o = OpAt(journal, s) /\ s \in Seqs(t.j) /\ Len(t.j) \in Nat
  <2>1. Len(journal) \in Nat /\ Len(t.j) \in Nat /\ s + 1 = i
    BY <1>1
  <2> QED BY <1>1, <2>1 DEF Seqs, OpAt
<1>3. o = OpAt(t.j, s)
  BY <1>1, <1>2
<1>4. ASSUME inv.ok PROVE u \in Takings
  <2>1. Reverts(t.j, t.d, s, op)
    <3> HIDE DEF o, s
    <3>1. RebasedInverse(t.j, t.d, OpAt(t.j, s)).ok
      BY <1>3, <1>4
    <3>2. Reverts(t.j, t.d, s, [RebasedInverse(t.j, t.d, OpAt(t.j, s)).op
                                   EXCEPT !.seq = Len(t.j), !.group = group])
      BY <1>1, <1>2, <3>1, InverseReverts
    <3> QED BY <1>3, <3>2
  <2> HIDE DEF op, s
  <2>2. Sound(Append(t.j, op), Apply(t.d, op)) /\ Longer(Append(t.j, op), t.j, op)
    BY <1>1, <1>2, <2>1, SoundMore
  <2>3. Append(t.j, op) \in Seq(Ops) /\ Apply(t.d, op) \in Seq(Bytes)
    <3>1. op \in Ops
      BY <2>1 DEF Reverts
    <3> QED BY <1>1, <3>1, ApplyTyped
  <2>4. /\ u.j = Append(t.j, op) /\ u.d = Apply(t.d, op)
        /\ u \in [j : Seq(Ops), d : Seq(Bytes), ok : BOOLEAN]
    BY <2>3
  <2> HIDE DEF u
  <2>5. Len(journal) <= Len(u.j)
    BY <1>1, <1>2, <2>2, <2>4 DEF Longer
  <2>6. ASSUME NEW q \in Seqs(journal) PROVE OpAt(u.j, q) = OpAt(journal, q)
    <3>1. q \in Seqs(t.j)
      BY <1>1, <1>2 DEF Seqs
    <3> QED BY <1>1, <2>2, <2>4, <3>1 DEF Longer
  <2> QED BY <2>2, <2>4, <2>5, <2>6 DEF Takings
<1>5. w \in Takings
  <2>1. w.j = t.j /\ w.d = t.d /\ w \in [j : Seq(Ops), d : Seq(Bytes), ok : BOOLEAN]
    BY <1>1
  <2> HIDE DEF w
  <2> QED BY <1>1, <2>1 DEF Takings
<1>6. TakeStep(applied, o, t) = IF o.seq \notin applied THEN t ELSE IF t.ok /\ inv.ok THEN u ELSE w
  BY DEF TakeStep
<1> HIDE DEF o, u, w, inv
<1>7. TakeStep(applied, o, t) \in Takings
  BY <1>4, <1>5, <1>6
<1> QED BY <1>7 DEF o

\* TakeBack goes from the newest op to the oldest.
LEMMA TakeBackRuns ==
  ASSUME NEW applied, group \in Nat, journal \in Seq(Ops),
         [j |-> journal, d |-> doc, ok |-> TRUE] \in Takings
  PROVE  LET n == Len(journal) IN
         \E T : /\ T[n] = [j |-> journal, d |-> doc, ok |-> TRUE]
                /\ \A e \in 0 .. (n - 1) : T[e] = TakeStep(applied, OpAt(journal, e), T[e + 1])
                /\ \A e \in 0 .. n : T[e] \in Takings
                /\ TakeBack(applied) = T[0]
<1> DEFINE n == Len(journal)
           X == Takings
           t0 == [j |-> journal, d |-> doc, ok |-> TRUE]
           f == [z \in X \X (1 .. n) |-> TakeStep(applied, journal[z[2]], z[1])]
           Body(g) == [s \in SUBSET (1 .. n) |->
                          IF s = {} THEN t0
                          ELSE TakeStep(applied, journal[Min(s)], g[s \ {Min(s)}])]
           K == CHOOSE g : g = Body(g)
<1>1. n \in Nat /\ DOMAIN journal = 1 .. n
  BY SMT
<1>2. TakeBack(applied) = K[1 .. n]
  BY <1>1 DEF TakeBack, TakeStep, FoldRight, MapThenFoldSet
<1>3. \A i \in 1 .. n : \A t \in X : TakeStep(applied, journal[i], t) \in X
  BY TakeStepTyped
<1>4. t0 \in X
  OBVIOUS
<1> HIDE DEF n, K, t0, X
<1>5. \E g : RightTable(g, n, X, t0, f)
  <2>1. f \in [X \X (1 .. n) -> X]
    BY <1>3
  <2> HIDE DEF f
  <2> QED BY <1>1, <1>4, <2>1, FoldRightTable, Zenon
<1>6. PICK g : RightTable(g, n, X, t0, f)
  BY <1>5
<1>7. g = [s \in SUBSET (1 .. n) |-> g[s]] /\ \A s \in SUBSET (1 .. n) : g[s] \in X
  BY <1>6, Zenon DEF RightTable
<1>8. \A s \in SUBSET (1 .. n) :
         g[s] = IF s = {} THEN t0 ELSE TakeStep(applied, journal[Min(s)], g[s \ {Min(s)}])
  <2> TAKE s \in SUBSET (1 .. n)
  <2>1. g[s] = IF s = {} THEN t0 ELSE f[<<g[s \ {Min(s)}], Min(s)>>]
    BY <1>6 DEF RightTable
  <2>2. CASE s # {}
    <3>1. Min(s) \in 1 .. n /\ s \ {Min(s)} \in SUBSET (1 .. n)
      BY <1>1, <2>2, BottomOfSet
    <3>2. g[s \ {Min(s)}] \in X
      BY <1>7, <3>1
    <3> DEFINE c == g[s \ {Min(s)}]
               i == Min(s)
    <3>3. c \in X /\ i \in 1 .. n
      BY <3>1, <3>2
    <3>4. g[s] = f[<<c, i>>]
      BY <2>1, <2>2
    <3> HIDE DEF c, i
    <3>5. f[<<c, i>>] = TakeStep(applied, journal[i], c)
      BY <3>3
    <3> QED BY <2>2, <3>4, <3>5 DEF c, i
  <2>3. CASE s = {}
    BY <2>1, <2>3
  <2> QED BY <2>2, <2>3
<1>9. g = Body(g)
  BY <1>7, <1>8, Zenon
<1>10. K = Body(K)
  BY <1>9, Zenon DEF K
<1>11. \A s \in SUBSET (1 .. n) :
          K[s] = IF s = {} THEN t0 ELSE TakeStep(applied, journal[Min(s)], K[s \ {Min(s)}])
  BY <1>10
<1> DEFINE T == [e \in 0 .. n |-> K[(e + 1) .. n]]
<1>12. T[n] = t0 /\ T[0] = K[1 .. n]
  <2>1. (n + 1) .. n = {} /\ {} \in SUBSET (1 .. n) /\ n \in 0 .. n /\ 0 \in 0 .. n /\ 0 + 1 = 1
    BY <1>1
  <2>2. K[{}] = t0
    BY <1>11, <2>1
  <2> QED BY <2>1, <2>2
<1>13. ASSUME NEW e \in 0 .. (n - 1) PROVE T[e] = TakeStep(applied, OpAt(journal, e), T[e + 1])
  <2> DEFINE s == (e + 1) .. n
  <2>1. /\ s \in SUBSET (1 .. n) /\ e + 1 \in s /\ \A i \in s : e + 1 <= i
        /\ s \ {e + 1} = (e + 1 + 1) .. n /\ e \in 0 .. n /\ e + 1 \in 0 .. n
    BY <1>1
  <2>2. Min(s) = e + 1
    <3>1. Min(s) \in s /\ \A i \in s : Min(s) <= i
      <4> HIDE DEF s
      <4> QED BY <1>1, <2>1, BottomOfSet
    <3> QED BY <1>1, <2>1, <3>1
  <2>3. s # {}
    BY <2>1
  <2>4. K[s] = TakeStep(applied, journal[e + 1], K[s \ {e + 1}])
    <3> HIDE DEF s
    <3> QED BY <1>11, <2>1, <2>2, <2>3
  <2>5. T[e] = K[s] /\ T[e + 1] = K[s \ {e + 1}]
    BY <2>1
  <2> HIDE DEF T, s
  <2> QED BY <2>4, <2>5 DEF OpAt
<1> HIDE DEF T
<1>14. \A e \in 0 .. n : T[e] \in X
  <2> DEFINE S == {m \in Nat : m <= n => T[n - m] \in X}
  <2>1. 0 \in S
    BY <1>1, <1>4, <1>12
  <2>2. ASSUME NEW m \in Nat, m \in S PROVE m + 1 \in S
    <3> SUFFICES ASSUME m + 1 <= n PROVE T[n - (m + 1)] \in X
      OBVIOUS
    <3> DEFINE e == n - (m + 1)
    <3>1. e \in 0 .. (n - 1) /\ e + 1 = n - m /\ m <= n /\ e + 1 \in 1 .. n
      BY <1>1
    <3>2. T[e + 1] \in X
      BY <2>2, <3>1
    <3> HIDE DEF e
    <3>3. T[e] \in X
      BY <1>3, <1>13, <3>1, <3>2 DEF OpAt
    <3> QED BY <3>3 DEF e
  <2>3. \A m \in Nat : m \in S
    <3> HIDE DEF S
    <3> QED BY <2>1, <2>2, Inductive
  <2> SUFFICES ASSUME NEW e \in 0 .. n PROVE T[e] \in X
    OBVIOUS
  <2>4. n - e \in Nat /\ n - e <= n /\ n - (n - e) = e
    BY <1>1
  <2>5. n - e \in S
    BY <2>3, <2>4
  <2> QED BY <2>4, <2>5
<1>15. \E U : /\ U[n] = t0
              /\ \A e \in 0 .. (n - 1) : U[e] = TakeStep(applied, OpAt(journal, e), U[e + 1])
              /\ \A e \in 0 .. n : U[e] \in X
              /\ TakeBack(applied) = U[0]
  <2>1. TakeBack(applied) = T[0]
    BY <1>2, <1>12
  <2> QED BY <1>12, <1>13, <1>14, <2>1
<1> QED BY <1>15 DEF n, t0, X

\* TakeBack passes over what was not committed by the reversal, and takes back the newest
\* of what was.
LEMMA TakeOne ==
  ASSUME group \in Nat, Numbered(journal), NEW f \in Nat, NEW n \in Nat, NEW k \in 0 .. n,
         NEW t \in Takings, t.ok, Underway(t.j, t.d, f, n, k), NEW applied,
         NEW s \in Seqs(journal), s \in applied => k > 0 /\ s = f + k - 1
  PROVE  LET u == TakeStep(applied, OpAt(journal, s), t)
             c == IF s \in applied THEN k - 1 ELSE k
         IN  /\ u.ok /\ Underway(u.j, u.d, f, n, c)
             /\ ReplayTo(Base, u.j, f) = ReplayTo(Base, t.j, f)
<1> DEFINE o == OpAt(journal, s)
<1>1. o.seq = s /\ o \in Ops
  BY OpShape
<1>2. CASE s \notin applied
  <2>1. TakeStep(applied, o, t) = t
    BY <1>1, <1>2 DEF TakeStep
  <2> QED BY <1>2, <2>1
<1>3. CASE s \in applied
  <2> DEFINE inv == RebasedInverse(t.j, t.d, o)
             op  == [inv.op EXCEPT !.seq = Len(t.j), !.group = group]
             u == [j |-> Append(t.j, op), d |-> Apply(t.d, op), ok |-> TRUE]
  <2>1. k > 0 /\ s = f + k - 1
    BY <1>3
  <2>2. OpAt(t.j, s) = o
    BY DEF Takings
  <2>3. s \in Seqs(t.j) /\ RebasedInverse(t.j, t.d, OpAt(t.j, s)).ok
    BY <2>1, StackReturns
  <2>4. inv.ok
    BY <2>2, <2>3
  <2>5. Sound(t.j, t.d)
    BY DEF Underway
  <2>6. Reverts(t.j, t.d, s, op)
    <3>1. Reverts(t.j, t.d, s, [RebasedInverse(t.j, t.d, OpAt(t.j, s)).op
                                   EXCEPT !.seq = Len(t.j), !.group = group])
      BY <2>3, <2>5, InverseReverts
    <3> QED BY <2>2, <3>1
  <2>7. TakeStep(applied, o, t) = u
    BY <1>1, <1>3, <2>4 DEF TakeStep
  <2> HIDE DEF op, inv, o
  <2>8. Reverts(t.j, t.d, f + k - 1, op)
    BY <2>1, <2>6
  <2>9. /\ Underway(Append(t.j, op), Apply(t.d, op), f, n, k - 1)
        /\ ReplayTo(Base, Append(t.j, op), f) = ReplayTo(Base, t.j, f)
    BY <2>1, <2>8, StackLess
  <2>10. u.j = Append(t.j, op) /\ u.d = Apply(t.d, op) /\ u.ok
    OBVIOUS
  <2> HIDE DEF u
  <2>11. /\ u.ok /\ Underway(u.j, u.d, f, n, k - 1)
         /\ ReplayTo(Base, u.j, f) = ReplayTo(Base, t.j, f)
    BY <2>9, <2>10
  <2> QED BY <1>3, <2>7, <2>11 DEF o
<1> QED BY <1>2, <1>3

\* What a reversal committed can be taken back, all of it, and then the document is the
\* one the reversal found.
LEMMA TakesBack ==
  ASSUME HInv, Placing, NEW f \in Nat, NEW n \in Nat, NEW m \in 0 .. n,
         Underway(journal, doc, f, n, m), NEW applied, applied = f .. (f + m - 1)
  PROVE  /\ TakeBack(applied).ok
         /\ TakeBack(applied).d = ReplayTo(Base, journal, f)
<1> DEFINE e == Len(journal)
           t0 == [j |-> journal, d |-> doc, ok |-> TRUE]
           K(x) == IF x >= f + m THEN m ELSE IF x >= f THEN x - f ELSE 0
<1>1. /\ journal \in Seq(Ops) /\ e \in Nat /\ doc \in Seq(Bytes) /\ Numbered(journal)
      /\ Sound(journal, doc)
  BY JournalSound DEF Sound
<1>2. group \in Nat
  BY DEF HInv, IInv, Log
<1>3. Seqs(journal) = 0 .. (e - 1) /\ f + m <= e
  BY <1>1 DEF Seqs, Underway, Stack
<1>4. t0 \in Takings /\ t0.ok /\ t0.j = journal /\ t0.d = doc
  BY <1>1 DEF Takings
<1>5. PICK T : /\ T[e] = t0
               /\ \A x \in 0 .. (e - 1) : T[x] = TakeStep(applied, OpAt(journal, x), T[x + 1])
               /\ \A x \in 0 .. e : T[x] \in Takings
               /\ TakeBack(applied) = T[0]
  BY <1>1, <1>2, <1>4, TakeBackRuns
<1> DEFINE Good(x) == /\ T[x].ok /\ Underway(T[x].j, T[x].d, f, n, K(x))
                      /\ ReplayTo(Base, T[x].j, f) = ReplayTo(Base, journal, f)
<1>6. Good(e)
  <2>1. K(e) = m
    BY <1>1, <1>3
  <2> HIDE DEF t0, K
  <2> QED BY <1>4, <1>5, <2>1
<1> HIDE DEF t0
<1>7. ASSUME NEW x \in 0 .. (e - 1), Good(x + 1) PROVE Good(x)
  <2> DEFINE y == x + 1
             k == K(y)
             c == IF x \in applied THEN k - 1 ELSE k
  <2>1. y \in 0 .. e /\ x \in Seqs(journal) /\ k \in 0 .. n
    BY <1>1, <1>3
  <2>2. x \in applied => k > 0 /\ x = f + k - 1
    BY <1>1, <1>3
  <2>3. c = K(x)
    BY <1>1, <1>3
  <2>4. T[y] \in Takings /\ T[y].ok /\ Underway(T[y].j, T[y].d, f, n, k)
    BY <1>5, <1>7, <2>1
  <2>5. T[x] = TakeStep(applied, OpAt(journal, x), T[y])
    BY <1>5
  <2>6. ReplayTo(Base, T[y].j, f) = ReplayTo(Base, journal, f)
    BY <1>7
  <2> HIDE DEF K, y, k
  <2>7. /\ T[x].ok /\ Underway(T[x].j, T[x].d, f, n, c)
        /\ ReplayTo(Base, T[x].j, f) = ReplayTo(Base, T[y].j, f)
    <3> DEFINE o == OpAt(journal, x)
               t == T[y]
               u == TakeStep(applied, o, t)
    <3>1. t \in Takings /\ t.ok /\ Underway(t.j, t.d, f, n, k) /\ T[x] = u
      BY <2>4, <2>5, Zenon
    <3> HIDE DEF t, u
    <3>2. Numbered(journal) /\ k \in 0 .. n /\ x \in Seqs(journal)
      BY <1>1, <2>1, Zenon
    <3>3. /\ u.ok /\ Underway(u.j, u.d, f, n, c)
          /\ ReplayTo(Base, u.j, f) = ReplayTo(Base, t.j, f)
      BY <1>2, <2>2, <3>1, <3>2, TakeOne DEF u
    <3> QED BY <3>1, <3>3, Zenon DEF t
  <2> HIDE DEF c
  <2> QED BY <2>3, <2>6, <2>7
<1> HIDE DEF Good
<1>8. Good(0)
  <2> DEFINE S == {q \in Nat : q <= e => Good(e - q)}
  <2>1. 0 \in S
    BY <1>1, <1>6
  <2>2. ASSUME NEW q \in Nat, q \in S PROVE q + 1 \in S
    <3> SUFFICES ASSUME q + 1 <= e PROVE Good(e - (q + 1))
      OBVIOUS
    <3> DEFINE x == e - (q + 1)
    <3>1. x \in 0 .. (e - 1) /\ x + 1 = e - q /\ q <= e
      BY <1>1
    <3>2. Good(x + 1)
      BY <2>2, <3>1
    <3> HIDE DEF x
    <3>3. Good(x)
      BY <1>7, <3>1, <3>2
    <3> QED BY <3>3 DEF x
  <2>3. \A q \in Nat : q \in S
    <3> HIDE DEF S
    <3> QED BY <2>1, <2>2, Inductive
  <2>4. e \in S
    BY <1>1, <2>3
  <2>5. e - e = 0
    BY <1>1
  <2> QED BY <1>1, <2>4, <2>5
<1>9. K(0) = 0
  OBVIOUS
<1> DEFINE t == T[0]
<1>10. /\ t.ok /\ Underway(t.j, t.d, f, n, 0) /\ TakeBack(applied) = t
       /\ ReplayTo(Base, t.j, f) = ReplayTo(Base, journal, f)
  BY <1>5, <1>8, <1>9 DEF Good
<1> HIDE DEF t
<1>11. t.d = ReplayTo(Base, t.j, f + 0)
  BY <1>10, StackReturns
<1>12. f + 0 = f
  OBVIOUS
<1> QED BY <1>10, <1>11, <1>12

\* The reversal in progress: n reversals of older ops, k of which still stand.
StackOf(n, k) ==
    /\ n \in Nat /\ k \in 0 .. n
    /\ Stack(journal, work.from, n, k)
    /\ work.applied = work.from .. (work.from + k - 1)
    /\ ~work.failed => k = n

\* The invariant: a reversal takes back what is older than itself, and its rollback goes
\* through what it committed, newest first.
Stacked ==
    work.on = "reverse" =>
        /\ work.from \in 0 .. Len(journal)
        /\ work.todo \subseteq 0 .. (work.from - 1)
        /\ RecordsSince(work.from) => \E n, k : StackOf(n, k)

\* A new op leaves what older ones recorded alone.
LEMMA RecordsWere ==
  ASSUME HInv, Placing, NEW op \in Ops, journal' = Append(journal, op),
         NEW v \in 0 .. Len(journal), RecordsSince(v)'
  PROVE  RecordsSince(v)
<1>1. journal \in Seq(Ops) /\ Len(journal) \in Nat /\ Version = Len(journal)
      /\ Seqs(journal) = 0 .. (Len(journal) - 1) /\ Version' = Len(journal) + 1
  <2>1. journal \in Seq(Ops) /\ Len(journal) \in Nat /\ Version = Len(journal)
    BY JournalSound
  <2> QED BY <2>1 DEF Seqs, Version
<1>2. \A s \in Seqs(journal) : /\ OpAt(journal', s) = OpAt(journal, s)
                               /\ ReplayTo(Base, journal', s) = ReplayTo(Base, journal, s)
  <2>1. Longer(journal', journal, op)
    BY <1>1, OneMore
  <2> QED BY <2>1, DocsBefore DEF Longer
<1>3. RecordsSince(v)
  <2> SUFFICES ASSUME NEW s \in v .. (Version - 1) PROVE Records(s)
    BY Zenon DEF RecordsSince
  <2>1. s \in v .. (Version' - 1) /\ s \in Seqs(journal)
    BY <1>1
  <2>2. Records(s)'
    BY <2>1 DEF RecordsSince
  <2> QED BY <1>2, <2>1, <2>2 DEF Records, DocAt
<1> QED BY <1>3

\* So the reversal in progress is underway as the lemmas above have it.
LEMMA IsUnderway ==
  ASSUME HInv, Placing, NEW f \in Nat, NEW n \in Nat, NEW k \in 0 .. n, Stack(journal, f, n, k),
         RecordsSince(f)
  PROVE  Underway(journal, doc, f, n, k)
<1>1. Sound(journal, doc) /\ Len(journal) \in Nat /\ Version = Len(journal)
  BY JournalSound DEF Sound
<1>2. f \in 0 .. Len(journal) /\ f + n <= Len(journal)
  BY <1>1 DEF Stack
<1>3. ASSUME NEW q \in f .. (f + n - 1) PROVE RecordsRemoved(journal, q)
  <2>1. q \in f .. (Version - 1) /\ q \in Seqs(journal)
    BY <1>1, <1>2 DEF Seqs
  <2>2. Records(q)
    BY <2>1 DEF RecordsSince
  <2> QED BY <1>2, <2>1, <2>2, RecordsAre
<1> QED BY <1>1, <1>3 DEF Underway, StackRecorded

\* What the commit of a rebased inverse does to the journal.
LEMMA CommitReverts ==
  ASSUME HInv, Placing, NEW s \in Seqs(journal), RebasedInverse(journal, doc, OpAt(journal, s)).ok,
         Commit(RebasedInverse(journal, doc, OpAt(journal, s)).op, 0)
  PROVE  \E o : /\ Reverts(journal, doc, s, o) /\ journal' = Append(journal, o)
                /\ doc' = Apply(doc, o)
<1> DEFINE r == RebasedInverse(journal, doc, OpAt(journal, s)).op
           g == IF depth = 0 THEN group + 1 ELSE group
           o == [r EXCEPT !.seq = Version, !.group = g]
<1>1. Version = Len(journal) /\ Sound(journal, doc)
  BY JournalSound DEF Sound
<1>2. g \in Nat
  BY DEF HInv, IInv, Log
<1>3. journal' = Append(journal, o) /\ doc' = Apply(doc, o)
  <2>1. Commit(r, 0)
    OBVIOUS
  <2> HIDE DEF r
  <2> QED BY <2>1, Zenon DEF Commit
<1> HIDE DEF g
<1>4. Reverts(journal, doc, s, o)
  BY <1>1, <1>2, InverseReverts
<1> QED BY <1>3, <1>4

\* One more reversal of an older op.
LEMMA StackMore ==
  ASSUME NEW j, Numbered(j), NEW d, NEW f \in Nat, NEW n \in Nat, Stack(j, f, n, n),
         NEW s \in 0 .. (f - 1), NEW o, Reverts(j, d, s, o)
  PROVE  Stack(Append(j, o), f, n + 1, n + 1) /\ Len(j) = f + n
<1> DEFINE i == Append(j, o)
           e == Len(j)
<1>1. o \in Ops /\ o.kind # "edit" /\ o.undoes = s
  BY DEF Reverts
<1>2. j \in Seq(Ops) /\ e \in Nat /\ e = f + n /\ Seqs(j) = 0 .. (e - 1)
  BY DEF Numbered, Stack, Seqs
<1>3. /\ Len(i) = e + 1 /\ OpAt(i, e) = o /\ \A q \in Seqs(j) : OpAt(i, q) = OpAt(j, q)
  BY <1>1, <1>2, OneMore DEF Longer
<1> HIDE DEF i, e
<1>4. Len(i) = f + (n + 1) + ((n + 1) - (n + 1))
  BY <1>2, <1>3
<1>5. ASSUME NEW q \in f .. (f + (n + 1) - 1) PROVE OpAt(i, q).kind # "edit" /\ OpAt(i, q).undoes < f
  <2>1. CASE q = e
    BY <1>1, <1>3, <2>1
  <2>2. CASE q # e
    <3>1. q \in Seqs(j) /\ q \in f .. (f + n - 1)
      BY <1>2, <2>2
    <3> QED BY <1>3, <3>1 DEF Stack
  <2> QED BY <2>1, <2>2
<1>6. (f + (n + 1)) .. (Len(i) - 1) = {}
  BY <1>2, <1>3
<1>7. Stack(i, f, n + 1, n + 1)
  BY <1>4, <1>5, <1>6 DEF Stack
<1> QED BY <1>2, <1>7 DEF i, e

LEMMA StartStacks ==
  ASSUME HInv, Placing, NEW goal, NEW g, NEW want, NEW keep, NEW queue,
         work' = Reversal(goal, g, want, keep, queue), journal' = journal
  PROVE  Stacked'
<1>1. Version = Len(journal) /\ Len(journal) \in Nat /\ Seqs(journal) = 0 .. (Len(journal) - 1)
  BY JournalSound DEF Seqs
<1>2. /\ work'.from = Len(journal) /\ work'.applied = {}
      /\ work'.todo = ReverseMembers(g, want, keep)
  BY <1>1 DEF Reversal
<1>3. work'.todo \subseteq 0 .. (work'.from - 1)
  BY <1>1, <1>2 DEF ReverseMembers
<1>4. work'.from .. (work'.from + 0 - 1) = {}
  BY <1>1, <1>2
<1>5. Stack(journal', work'.from, 0, 0)
  BY <1>1, <1>2 DEF Stack
<1>6. StackOf(0, 0)'
  BY <1>2, <1>4, <1>5 DEF StackOf
<1>7. work'.from \in 0 .. Len(journal')
  BY <1>1, <1>2
<1> QED BY <1>3, <1>6, <1>7 DEF Stacked

LEMMA MemberStacks ==
  ASSUME HInv, Placing, Stacked, ReverseMember
  PROVE  Stacked'
<1>0. PICK f : f = work.from
  OBVIOUS
<1> DEFINE s == Max(work.todo)
           e == Len(journal)
<1>1. /\ work.on = "reverse" /\ ~work.failed /\ work.todo # {}
      /\ RebasedInverse(journal, doc, Newest(work.todo)).ok
      /\ Commit(RebasedInverse(journal, doc, Newest(work.todo)).op, 0)
      /\ work' = [work EXCEPT !.todo = Older(@), !.applied = @ \cup {Version}]
  BY DEF ReverseMember
<1>2. Version = e /\ e \in Nat /\ journal \in Seq(Ops) /\ Numbered(journal)
  BY JournalSound
<1>3. /\ work.todo \in SUBSET Seqs(journal) /\ work'.todo = Older(work.todo)
      /\ work'.from = f /\ work'.failed = work.failed
      /\ work'.applied = work.applied \cup {e}
  BY <1>0, <1>1, <1>2, ReversalTyped DEF HInv
<1>4. s \in work.todo /\ s \in Seqs(journal)
  BY <1>1, <1>3, ReversalFits
<1>5. f \in 0 .. e /\ work.todo \subseteq 0 .. (f - 1) /\ s \in 0 .. (f - 1) /\ f \in Nat
  BY <1>0, <1>1, <1>2, <1>4 DEF Stacked
<1>6. PICK o : /\ Reverts(journal, doc, s, o) /\ journal' = Append(journal, o)
               /\ doc' = Apply(doc, o)
  BY <1>1, <1>4, CommitReverts DEF Newest
<1>7. o \in Ops /\ Len(journal') = e + 1
  BY <1>2, <1>6 DEF Reverts
<1> HIDE DEF s, e
<1>8. ASSUME RecordsSince(f)' PROVE \E n, k : StackOf(n, k)'
  <2>1. RecordsSince(f)
    BY <1>5, <1>6, <1>7, <1>8, RecordsWere DEF e
  <2>2. PICK n, k : StackOf(n, k)
    BY <1>0, <1>1, <2>1 DEF Stacked
  <2>3. /\ n \in Nat /\ k = n /\ Stack(journal, f, n, n)
        /\ work.applied = f .. (f + n - 1)
    BY <1>0, <1>1, <2>2 DEF StackOf
  <2>4. Stack(Append(journal, o), f, n + 1, n + 1) /\ e = f + n
    BY <1>2, <1>5, <1>6, <2>3, StackMore DEF e
  <2>5. work'.applied = f .. (f + (n + 1) - 1)
    <3>1. f .. (f + (n + 1) - 1) = (f .. (f + n - 1)) \cup {f + n}
      BY <1>5, <2>3
    <3> QED BY <1>3, <2>3, <2>4, <3>1
  <2>6. n + 1 \in Nat /\ n + 1 \in 0 .. (n + 1)
    BY <2>3
  <2>7. StackOf(n + 1, n + 1)'
    BY <1>0, <1>3, <1>6, <2>4, <2>5, <2>6 DEF StackOf
  <2> QED BY <2>7
<1>9. work'.from \in 0 .. Len(journal')
  BY <1>2, <1>3, <1>5, <1>7
<1>10. work'.todo \subseteq 0 .. (work'.from - 1)
  BY <1>3, <1>5 DEF Older
<1>11. RecordsSince(work.from)' => RecordsSince(f)'
  BY <1>3, Zenon DEF RecordsSince
<1> QED BY <1>3, <1>8, <1>9, <1>10, <1>11 DEF Stacked

\* The rollback never gives up: what the reversal committed last can be taken back.
LEMMA RollbackStacks ==
  ASSUME HInv, Placing, Stacked, RollbackMember
  PROVE  Stacked'
<1>0. PICK f : f = work.from
  OBVIOUS
<1> DEFINE s == Max(work.applied)
           e == Len(journal)
           r == RebasedInverse(journal, doc, Newest(work.applied))
<1>1. /\ work.on = "reverse" /\ work.failed /\ work.applied # {}
      /\ IF r.ok
         THEN Commit(r.op, 0) /\ work' = [work EXCEPT !.applied = Older(@)]
         ELSE work' = [work EXCEPT !.applied = {}] /\ UNCHANGED <<doc, journal, group>>
  BY DEF RollbackMember
<1>2. Version = e /\ e \in Nat /\ journal \in Seq(Ops) /\ Sound(journal, doc)
  BY JournalSound DEF Sound
<1>3. /\ work.applied \in SUBSET Seqs(journal) /\ work'.todo = work.todo
      /\ work'.from = f /\ work'.failed = work.failed
      /\ work'.applied = IF r.ok THEN Older(work.applied) ELSE {}
  <2> HIDE DEF r
  <2> QED BY <1>0, <1>1, ReversalTyped DEF HInv
<1>4. f \in 0 .. e /\ work.todo \subseteq 0 .. (f - 1) /\ f \in Nat
  BY <1>0, <1>1, <1>2 DEF Stacked
<1>5. s \in Seqs(journal) /\ Newest(work.applied) = OpAt(journal, s) /\ s \in work.applied
      /\ \A q \in work.applied : q <= s
  <2>1. Seqs(journal) = 0 .. (e - 1)
    BY DEF Seqs
  <2>2. work.applied \subseteq 0 .. e
    BY <1>2, <1>3, <2>1
  <2>3. s \in work.applied /\ \A q \in work.applied : q <= s
    <3> HIDE DEF e
    <3> QED BY <1>1, <1>2, <2>2, MaxExists
  <2> QED BY <1>3, <2>3 DEF Newest
<1>6. CASE r.ok
  <2>1. PICK o : /\ Reverts(journal, doc, s, o) /\ journal' = Append(journal, o)
                 /\ doc' = Apply(doc, o)
    BY <1>1, <1>5, <1>6, CommitReverts
  <2>2. o \in Ops /\ Len(journal') = e + 1
    BY <1>2, <2>1 DEF Reverts
  <2> HIDE DEF s, e, r
  <2>3. ASSUME RecordsSince(f)' PROVE \E n, k : StackOf(n, k)'
    <3>1. RecordsSince(f)
      BY <1>4, <2>1, <2>2, <2>3, RecordsWere DEF e
    <3>2. PICK n, k : StackOf(n, k)
      BY <1>0, <1>1, <3>1 DEF Stacked
    <3>3. /\ n \in Nat /\ k \in 0 .. n /\ Stack(journal, f, n, k)
          /\ work.applied = f .. (f + k - 1)
      BY <1>0, <3>2 DEF StackOf
    <3>4. k > 0 /\ s = f + k - 1
      BY <1>1, <1>4, <1>5, <3>3
    <3>5. Underway(journal, doc, f, n, k)
      BY <1>4, <3>1, <3>3, IsUnderway
    <3>6. Underway(journal', doc', f, n, k - 1)
      BY <1>4, <2>1, <3>3, <3>4, <3>5, StackLess
    <3>7. Older(work.applied) = f .. (f + (k - 1) - 1)
      <4>1. Older(work.applied) = work.applied \ {s}
        BY DEF Older, s
      <4>2. (f .. (f + k - 1)) \ {f + k - 1} = f .. (f + (k - 1) - 1)
        BY <1>4, <3>3, <3>4
      <4> QED BY <3>3, <3>4, <4>1, <4>2
    <3>8. k - 1 \in 0 .. n
      BY <3>3, <3>4
    <3>9. Stack(journal', f, n, k - 1)
      BY <3>6 DEF Underway
    <3>10. StackOf(n, k - 1)'
      BY <1>0, <1>1, <1>3, <1>6, <3>3, <3>7, <3>8, <3>9 DEF StackOf
    <3> QED BY <3>10
  <2>4. work'.from \in 0 .. Len(journal')
    BY <1>2, <1>3, <1>4, <2>2
  <2>5. work'.todo \subseteq 0 .. (work'.from - 1)
    BY <1>3, <1>4
  <2>6. RecordsSince(work.from)' => RecordsSince(f)'
    BY <1>3, Zenon DEF RecordsSince
  <2> QED BY <1>3, <2>3, <2>4, <2>5, <2>6 DEF Stacked
<1>7. CASE ~r.ok
  <2> HIDE DEF s, e
  <2>1. journal' = journal
    BY <1>1, <1>7
  <2>2. ~RecordsSince(f)
    <3> SUFFICES ASSUME RecordsSince(f) PROVE FALSE
      OBVIOUS
    <3> HIDE DEF r
    <3>2. PICK n, k : StackOf(n, k)
      BY <1>0, <1>1 DEF Stacked
    <3>3. /\ n \in Nat /\ k \in 0 .. n /\ Stack(journal, f, n, k)
          /\ work.applied = f .. (f + k - 1)
      BY <1>0, <3>2 DEF StackOf
    <3>4. k > 0 /\ s = f + k - 1
      BY <1>1, <1>4, <1>5, <3>3
    <3>5. Underway(journal, doc, f, n, k)
      BY <1>4, <3>3, IsUnderway
    <3>6. RebasedInverse(journal, doc, OpAt(journal, s)).ok
      BY <1>4, <3>3, <3>4, <3>5, StackReturns
    <3> QED BY <1>5, <1>7, <3>6 DEF r
  <2>3. ~RecordsSince(f)'
    BY <2>1, <2>2 DEF RecordsSince, Records, DocAt, Version
  <2>4. work'.from \in 0 .. Len(journal')
    BY <1>3, <1>4, <2>1 DEF e
  <2>5. work'.todo \subseteq 0 .. (work'.from - 1)
    BY <1>3, <1>4
  <2>6. RecordsSince(work.from)' => RecordsSince(f)'
    BY <1>3, Zenon DEF RecordsSince
  <2> QED BY <1>3, <2>3, <2>4, <2>5, <2>6 DEF Stacked
<1> QED BY <1>6, <1>7

\* Every step keeps the invariant.
LEMMA StackedKept ==
  ASSUME HInv, Placing, Stacked, [Next]_vars
  PROVE  Stacked'
<1>1. CASE ReverseMember
  BY <1>1, MemberStacks
<1>2. CASE RollbackMember
  BY <1>2, RollbackStacks
<1>3. CASE ReverseBlocked
  <2>1. work.on = "reverse" /\ IInv /\ work' = [work EXCEPT !.failed = TRUE] /\ journal' = journal
    BY <1>3 DEF ReverseBlocked, HInv
  <2>2. /\ work'.failed /\ work'.from = work.from /\ work'.todo = work.todo
        /\ work'.applied = work.applied
    BY <2>1, ReversalTyped
  <2>3. RecordsSince(work.from)' => RecordsSince(work.from)
    BY <2>1, <2>2 DEF RecordsSince, Records, DocAt, Version
  <2>4. ASSUME NEW n, NEW k, StackOf(n, k) PROVE StackOf(n, k)'
    BY <2>1, <2>2, <2>4 DEF StackOf
  <2> QED BY <2>1, <2>2, <2>3, <2>4 DEF Stacked
<1>4. ASSUME NEW goal, NEW g, NEW want, NEW keep, NEW queue,
             work' = Reversal(goal, g, want, keep, queue), journal' = journal
      PROVE  Stacked'
  BY <1>4, StartStacks
<1>5. CASE work'.on # "reverse"
  BY <1>5 DEF Stacked
<1>6. CASE UNCHANGED vars
  <2>1. work' = work /\ journal' = journal
    BY <1>6 DEF vars
  <2>2. RecordsSince(work.from)' => RecordsSince(work.from)
    BY <2>1 DEF RecordsSince, Records, DocAt, Version
  <2>3. ASSUME NEW n, NEW k, StackOf(n, k) PROVE StackOf(n, k)'
    BY <2>1, <2>3 DEF StackOf
  <2> QED BY <2>1, <2>2, <2>3 DEF Stacked
<1> QED BY <1>1, <1>2, <1>3, <1>4, <1>5, <1>6, ReversalSteps

LEMMA StackedAlways == Spec => [](HInv /\ Placing /\ Stacked)
<1>1. Init => Stacked
  BY DEF Init, Idle, Stacked
<1>2. HInv /\ Placing /\ Stacked /\ [Next]_vars => Stacked'
  BY StackedKept
<1>3. Spec => [](HInv /\ Placing)
  BY PlacingAlways
<1> QED BY <1>1, <1>2, <1>3, PTL DEF Spec

\* What a reversal has committed so far can always be taken back, all of it and newest
\* first, and the text is then the one the reversal found: its rollback never has to give
\* up halfway, as long as every op had recorded what it removed.
THEOREM RollbackNeverGivesUp == Spec => []CanTakeBack
<1>1. ASSUME HInv, Placing, Stacked, work.on = "reverse", RecordsSince(work.from)
      PROVE  TakeBack(work.applied).ok /\ TakeBack(work.applied).d = DocAt(work.from)
  <2>1. work.from \in 0 .. Len(journal) /\ Len(journal) \in Nat /\ work.from \in Nat
    BY <1>1, JournalSound DEF Stacked
  <2>2. PICK n, k : StackOf(n, k)
    BY <1>1 DEF Stacked
  <2>3. n \in Nat /\ k \in 0 .. n /\ Stack(journal, work.from, n, k)
        /\ work.applied = work.from .. (work.from + k - 1)
    BY <2>2 DEF StackOf
  <2>4. Underway(journal, doc, work.from, n, k)
    BY <1>1, <2>1, <2>3, IsUnderway
  <2> QED BY <1>1, <2>1, <2>3, <2>4, TakesBack DEF DocAt
<1>2. HInv /\ Placing /\ Stacked => CanTakeBack
  BY <1>1 DEF CanTakeBack
<1> QED BY <1>2, StackedAlways, PTL DEF Spec

\* A reversal takes back all it was asked to or leaves the text it found: one that is
\* refused at one of its members has put everything back by the time it ends, as long as
\* every op had recorded what it removed.
THEOREM ReversalsAreAllOrNothing == Spec => AllOrNothing
<1>1. ASSUME HInv, Placing, Stacked, EndFailed, RecordsSince(work.from)
      PROVE  doc = DocAt(work.from)
  <2>1. work.on = "reverse" /\ work.applied = {}
    BY <1>1 DEF EndFailed
  <2>2. work.from \in 0 .. Len(journal) /\ Len(journal) \in Nat /\ work.from \in Nat
    BY <1>1, <2>1, JournalSound DEF Stacked
  <2>3. PICK n, k : StackOf(n, k)
    BY <1>1, <2>1 DEF Stacked
  <2>4. n \in Nat /\ k \in 0 .. n /\ Stack(journal, work.from, n, k)
        /\ work.applied = work.from .. (work.from + k - 1)
    BY <2>3 DEF StackOf
  <2>5. k = 0
    <3> SUFFICES ASSUME k # 0 PROVE FALSE
      OBVIOUS
    <3>1. work.from \in work.from .. (work.from + k - 1)
      BY <2>2, <2>4
    <3> QED BY <2>1, <2>4, <3>1
  <2>6. Underway(journal, doc, work.from, n, k)
    BY <1>1, <2>2, <2>4, IsUnderway
  <2>7. doc = ReplayTo(Base, journal, work.from + k)
    BY <2>2, <2>4, <2>6, StackReturns
  <2>8. work.from + k = work.from
    BY <2>2, <2>5
  <2> QED BY <2>7, <2>8 DEF DocAt
<1> DEFINE Back == \A s \in Seqs(journal) :
                      LET o == OpAt(journal, s)
                      IN  /\ o.group = work.group /\ o.author \in work.keep
                          /\ o.kind = (IF work.goal = "redo" THEN "undo" ELSE "edit")
                          => ~InEffect(journal)[s]
           Outcome == IF work.failed THEN RecordsSince(work.from) => doc = DocAt(work.from)
                   ELSE Back
<1>2. HInv /\ Placing /\ Stacked /\ [EndReversal \/ NextReversal => Back]_vars
        => [work.on = "reverse" /\ (EndReversal \/ NextReversal \/ EndFailed) => Outcome]_vars
  <2> SUFFICES ASSUME HInv, Placing, Stacked, EndReversal \/ NextReversal => Back,
                      EndReversal \/ NextReversal \/ EndFailed
               PROVE  Outcome
    OBVIOUS
  <2> HIDE DEF Back
  <2>1. CASE EndReversal \/ NextReversal
    BY <2>1 DEF EndReversal, NextReversal
  <2>2. CASE EndFailed
    BY <1>1, <2>2 DEF EndFailed
  <2> QED BY <2>1, <2>2
<1>3. Spec => [][EndReversal \/ NextReversal => Back]_vars
  BY SuccessTakesAllBack DEF ReversalsTakeAll
<1> QED BY <1>2, <1>3, StackedAlways, PTL DEF AllOrNothing

-----------------------------------------------------------------------------
(* How often a byte is there.                                              *)

LEMMA CopiesType ==
  ASSUME NEW b, NEW B, NEW d \in Seq(B)
  PROVE  IsFiniteSet({k \in DOMAIN d : d[k] = b}) /\ Copies(b, d) \in Nat
<1>1. DOMAIN d = 1 .. Len(d) /\ Len(d) \in Nat
  OBVIOUS
<1>2. IsFiniteSet(1 .. Len(d))
  BY <1>1, FS_Interval
<1>3. IsFiniteSet({k \in DOMAIN d : d[k] = b})
  <2>1. {k \in DOMAIN d : d[k] = b} \in SUBSET (1 .. Len(d))
    BY <1>1
  <2> QED BY <1>2, <2>1, FS_Subset
<1> QED BY <1>3, FS_CardinalityType DEF Copies

LEMMA CopiesConcat ==
  ASSUME NEW b, NEW B, NEW s \in Seq(B), NEW t \in Seq(B)
  PROVE  Copies(b, s \o t) = Copies(b, s) + Copies(b, t)
<1> DEFINE l == Len(s)
           u == s \o t
           A == {k \in DOMAIN s : s[k] = b}
           C == {k \in DOMAIN t : t[k] = b}
           D == {k \in DOMAIN u : u[k] = b} \ A
           f == [k \in C |-> k + l]
<1>1. /\ l \in Nat /\ Len(t) \in Nat /\ u \in Seq(B) /\ Len(u) = l + Len(t)
      /\ DOMAIN s = 1 .. l /\ DOMAIN t = 1 .. Len(t) /\ DOMAIN u = 1 .. (l + Len(t))
  OBVIOUS
<1>2. /\ \A k \in 1 .. l : u[k] = s[k]
      /\ \A k \in 1 .. Len(t) : u[k + l] = t[k]
  OBVIOUS
<1> HIDE DEF u, l
<1>3. {k \in DOMAIN u : u[k] = b} = A \cup D /\ A \cap D = {}
  BY <1>1, <1>2
<1>4. \A k \in DOMAIN u : k \in D <=> k > l /\ u[k] = b
  BY <1>1, <1>2
<1>5. f \in Bijection(C, D)
  <2>1. f \in [C -> D]
    <3> SUFFICES ASSUME NEW k \in C PROVE k + l \in D
      OBVIOUS
    <3> QED BY <1>1, <1>2, <1>4
  <2>2. \A x, y \in C : f[x] = f[y] => x = y
    BY <1>1
  <2>3. ASSUME NEW y \in D PROVE \E x \in C : f[x] = y
    <3>1. y \in DOMAIN u /\ y > l /\ u[y] = b
      BY <1>4
    <3>2. y - l \in 1 .. Len(t) /\ (y - l) + l = y
      BY <1>1, <3>1
    <3>3. y - l \in C
      BY <1>1, <1>2, <3>1, <3>2
    <3> QED BY <3>2, <3>3
  <2> HIDE DEF f, C, D
  <2> QED BY <2>1, <2>2, <2>3 DEF Bijection, Injection, Surjection, IsInjective
<1>6. IsFiniteSet(A) /\ IsFiniteSet(C)
  BY CopiesType
<1> HIDE DEF f, A, C, D
<1>7. IsFiniteSet(D) /\ Cardinality(D) = Cardinality(C)
  BY <1>5, <1>6, FS_Bijection DEF ExistsBijection
<1>8. Cardinality(A \cup D) = Cardinality(A) + Cardinality(D) - Cardinality(A \cap D)
  BY <1>6, <1>7, FS_Union
<1>9. Cardinality(A \cap D) = 0
  BY <1>3, FS_EmptySet
<1>10. Cardinality(A) \in Nat /\ Cardinality(D) \in Nat
  BY <1>6, <1>7, FS_CardinalityType
<1>11. Copies(b, u) = Cardinality(A \cup D) /\ Copies(b, s) = Cardinality(A)
       /\ Copies(b, t) = Cardinality(C)
  BY <1>3 DEF Copies, A, C
<1>12. Copies(b, u) = Copies(b, s) + Copies(b, t)
  BY <1>7, <1>8, <1>9, <1>10, <1>11
<1> QED BY <1>12 DEF u

\* What a splice adds and takes.
LEMMA CopiesSplice ==
  ASSUME NEW b, NEW B, NEW d \in Seq(B), NEW ins \in Seq(B), NEW pos \in Nat, NEW n \in Nat,
         pos + n <= Len(d)
  PROVE  Copies(b, Splice(d, pos, n, ins))
            = Copies(b, d) + Copies(b, ins) - Copies(b, SubSeq(d, pos + 1, pos + n))
<1> DEFINE del == SubSeq(d, pos + 1, pos + n)
           x == SubSeq(d, 1, pos)
           q == pos + n + 1
           z == SubSeq(d, q, Len(d))
<1>1. del \in Seq(B) /\ Len(del) = n
  BY TakenShape
<1>2. /\ Len(d) \in Nat /\ pos <= Len(d) /\ q \in Nat \ {0} /\ 1 \in Nat \ {0} /\ Len(d) <= Len(d)
      /\ pos \in Int /\ Len(d) \in Int
  OBVIOUS
<1>3. x \in Seq(B) /\ z \in Seq(B)
  <2> HIDE DEF q
  <2> QED BY <1>2, SubSeqShape
<1>4. ASSUME NEW y \in Seq(B)
      PROVE  Copies(b, Splice(d, pos, n, y)) = Copies(b, x) + Copies(b, y) + Copies(b, z)
  <2>1. Splice(d, pos, n, y) = x \o y \o z
    <3>1. ~(pos > Len(d)) /\ ~(pos + n > Len(d))
      BY <1>2
    <3> QED BY <3>1 DEF Splice
  <2> DEFINE xy == x \o y
  <2> HIDE DEF x, z
  <2>2. xy \in Seq(B) /\ Copies(b, xy) = Copies(b, x) + Copies(b, y)
    BY <1>3, ConcatShape, CopiesConcat
  <2> HIDE DEF xy
  <2>3. Copies(b, xy \o z) = Copies(b, xy) + Copies(b, z)
    BY <1>3, <2>2, CopiesConcat
  <2> QED BY <2>1, <2>2, <2>3 DEF xy
<1>5. Splice(d, pos, n, del) = d
  <2> DEFINE e == Splice(d, pos, n, del)
  <2>1. Spliced(e, d, pos, n, del) /\ e \in Seq(B)
    <3> HIDE DEF del
    <3> QED BY <1>1, SpliceAt, SpliceTyped
  <2>2. \A i \in 1 .. n : del[i] = d[pos + i]
    <3>1. ASSUME NEW i \in 1 .. n PROVE del[i] = d[pos + i]
      BY <1>2
    <3> QED BY <3>1
  <2> HIDE DEF e, del
  <2>3. Len(e) = Len(d)
    BY <1>1, <1>2, <2>1 DEF Spliced
  <2>4. ASSUME NEW i \in 1 .. Len(d) PROVE e[i] = d[i]
    <3>1. CASE i <= pos
      BY <1>2, <2>1, <3>1 DEF Spliced
    <3>2. CASE ~(i <= pos) /\ i <= pos + n
      <4>1. i - pos \in 1 .. n /\ pos + (i - pos) = i
        BY <1>2, <3>2
      <4>2. e[pos + (i - pos)] = del[i - pos]
        BY <1>1, <2>1, <4>1 DEF Spliced
      <4> QED BY <2>2, <4>1, <4>2
    <3>3. CASE ~(i <= pos + n)
      <4>1. i \in (pos + n + 1) .. Len(d) /\ i + n - n = i
        BY <1>2, <3>3
      <4>2. e[i + n - n] = d[i]
        BY <1>1, <2>1, <4>1 DEF Spliced
      <4> QED BY <4>1, <4>2
    <3> QED BY <1>2, <3>1, <3>2, <3>3
  <2>5. e = d
    BY <2>1, <2>3, <2>4
  <2> QED BY <2>5 DEF e
<1>6. /\ Copies(b, x) \in Nat /\ Copies(b, z) \in Nat /\ Copies(b, ins) \in Nat
      /\ Copies(b, del) \in Nat
  <2> HIDE DEF x, z, del
  <2> QED BY <1>1, <1>3, CopiesType
<1> HIDE DEF x, z, del
<1>7. Copies(b, d) = Copies(b, x) + Copies(b, del) + Copies(b, z)
  BY <1>1, <1>4, <1>5
<1>8. Copies(b, Splice(d, pos, n, ins)) = Copies(b, x) + Copies(b, ins) + Copies(b, z)
  BY <1>4
<1>9. Copies(b, Splice(d, pos, n, ins)) = Copies(b, d) + Copies(b, ins) - Copies(b, del)
  BY <1>6, <1>7, <1>8
<1> QED BY <1>9 DEF del

\* An op that records what it removes adds what it inserts and takes what it records.
LEMMA CopiesApply ==
  ASSUME NEW b, NEW d \in Seq(Bytes), NEW o \in Ops, o.pos + DelLen(o) <= Len(d),
         SubSeq(d, o.pos + 1, o.pos + DelLen(o)) = o.del
  PROVE  Copies(b, Apply(d, o)) = Copies(b, d) + Copies(b, o.ins) - Copies(b, o.del)
<1>1. o.pos \in Nat /\ DelLen(o) \in Nat /\ o.ins \in Seq(Bytes)
  BY DEF Ops, DelLen
<1> DEFINE pos == o.pos
           n == DelLen(o)
           ins == o.ins
<1>2. Apply(d, o) = Splice(d, pos, n, ins)
  BY DEF Apply
<1>3. pos \in Nat /\ n \in Nat /\ ins \in Seq(Bytes) /\ pos + n <= Len(d)
      /\ SubSeq(d, pos + 1, pos + n) = o.del
  BY <1>1
<1> HIDE DEF pos, n, ins
<1>4. Copies(b, Splice(d, pos, n, ins))
         = Copies(b, d) + Copies(b, ins) - Copies(b, SubSeq(d, pos + 1, pos + n))
  BY <1>3, CopiesSplice
<1> QED BY <1>2, <1>3, <1>4 DEF ins

-----------------------------------------------------------------------------
(* What the journal put into the document and took out of it.              *)

Puts(b, j) == [s \in Seqs(j) |-> Copies(b, OpAt(j, s).ins)]
Cuts(b, j) == [s \in Seqs(j) |-> Copies(b, OpAt(j, s).del)]

\* How many copies of b the ops of S put in, less how many they took out.
Balance(b, j, S) == Cardinality(Pairs(Puts(b, j), S)) - Cardinality(Pairs(Cuts(b, j), S))

LEMMA PutsCutsTyped ==
  ASSUME NEW b, NEW j, Numbered(j)
  PROVE  /\ Counts(Puts(b, j), Len(j)) /\ Counts(Cuts(b, j), Len(j))
         /\ \A s \in Seqs(j) : /\ Puts(b, j)[s] = Copies(b, OpAt(j, s).ins) /\ Puts(b, j)[s] \in Nat
                               /\ Cuts(b, j)[s] = Copies(b, OpAt(j, s).del) /\ Cuts(b, j)[s] \in Nat
<1>1. Len(j) \in Nat /\ Seqs(j) = 0 .. (Len(j) - 1)
  BY DEF Numbered, Seqs
<1>2. ASSUME NEW s \in Seqs(j)
      PROVE  /\ Puts(b, j)[s] = Copies(b, OpAt(j, s).ins) /\ Puts(b, j)[s] \in Nat
             /\ Cuts(b, j)[s] = Copies(b, OpAt(j, s).del) /\ Cuts(b, j)[s] \in Nat
  <2>1. OpAt(j, s).ins \in Seq(Bytes) /\ OpAt(j, s).del \in Seq(Bytes)
    BY OpShape
  <2>2. Copies(b, OpAt(j, s).ins) \in Nat /\ Copies(b, OpAt(j, s).del) \in Nat
    BY <2>1, CopiesType
  <2> QED BY <2>2 DEF Puts, Cuts
<1> QED BY <1>1, <1>2 DEF Counts

LEMMA BalanceWithout ==
  ASSUME NEW b, NEW j, Numbered(j), NEW S \in SUBSET Seqs(j)
  PROVE  /\ Balance(b, j, S) \in Int
         /\ \A s \in S : Balance(b, j, S) = Balance(b, j, S \ {s})
                            + Copies(b, OpAt(j, s).ins) - Copies(b, OpAt(j, s).del)
<1>1. Len(j) \in Nat /\ Seqs(j) = 0 .. (Len(j) - 1)
  BY DEF Numbered, Seqs
<1> DEFINE p == Puts(b, j)
           c == Cuts(b, j)
<1>2. /\ Counts(p, Len(j)) /\ Counts(c, Len(j))
      /\ \A s \in Seqs(j) : /\ p[s] = Copies(b, OpAt(j, s).ins) /\ p[s] \in Nat
                            /\ c[s] = Copies(b, OpAt(j, s).del) /\ c[s] \in Nat
  BY PutsCutsTyped
<1>3. \A U : Balance(b, j, U) = Cardinality(Pairs(p, U)) - Cardinality(Pairs(c, U))
  BY DEF Balance
<1> HIDE DEF p, c
<1>4. ASSUME NEW U \in SUBSET Seqs(j)
      PROVE  /\ IsFiniteSet(Pairs(p, U)) /\ Cardinality(Pairs(p, U)) \in Nat
             /\ IsFiniteSet(Pairs(c, U)) /\ Cardinality(Pairs(c, U)) \in Nat
  <2>1. U \in SUBSET (0 .. (Len(j) - 1))
    BY <1>1
  <2> QED BY <1>2, <2>1, PairsFinite
<1>5. Balance(b, j, S) \in Int
  BY <1>3, <1>4
<1>6. ASSUME NEW s \in S
      PROVE  Balance(b, j, S) = Balance(b, j, S \ {s})
                                   + Copies(b, OpAt(j, s).ins) - Copies(b, OpAt(j, s).del)
  <2>1. s \in Seqs(j) /\ S \ {s} \in SUBSET Seqs(j)
    OBVIOUS
  <2>2. p[s] \in Nat /\ c[s] \in Nat /\ p[s] = Copies(b, OpAt(j, s).ins) /\ c[s] = Copies(b, OpAt(j, s).del)
    BY <1>2, <2>1
  <2> DEFINE T == S \ {s}
  <2>3. /\ IsFiniteSet(Pairs(p, T)) /\ Cardinality(Pairs(p, T)) \in Nat
        /\ IsFiniteSet(Pairs(c, T)) /\ Cardinality(Pairs(c, T)) \in Nat
    BY <1>4, <2>1
  <2>4. Cardinality(Pairs(p, S)) = p[s] + Cardinality(Pairs(p, T))
    <3>1. p[s] \in Nat /\ IsFiniteSet(Pairs(p, S \ {s}))
      BY <2>2, <2>3
    <3> QED BY <3>1, PairsWithout
  <2>5. Cardinality(Pairs(c, S)) = c[s] + Cardinality(Pairs(c, T))
    <3>1. c[s] \in Nat /\ IsFiniteSet(Pairs(c, S \ {s}))
      BY <2>2, <2>3
    <3> QED BY <3>1, PairsWithout
  <2> HIDE DEF T
  <2>6. Balance(b, j, S) = Cardinality(Pairs(p, S)) - Cardinality(Pairs(c, S))
        /\ Balance(b, j, T) = Cardinality(Pairs(p, T)) - Cardinality(Pairs(c, T))
    BY <1>3
  <2>7. Balance(b, j, S) = Balance(b, j, T) + p[s] - c[s]
    BY <2>2, <2>3, <2>4, <2>5, <2>6
  <2> QED BY <2>2, <2>7 DEF T
<1> QED BY <1>5, <1>6

\* A journal of ops that record what they remove adds to a byte's copies what its ops put in
\* and takes what they took out.
LEMMA CopiesReplayed ==
  ASSUME NEW b, NEW j, Numbered(j), StaysInside(Base, j), \A s \in Seqs(j) : RecordsRemoved(j, s)
  PROVE  Copies(b, ReplayTo(Base, j, Len(j))) = Copies(b, Base) + Balance(b, j, Seqs(j))
<1> DEFINE n == Len(j)
           below(m) == 0 .. (m - 1)
           At(m) == ReplayTo(Base, j, m)
           G == {m \in Nat : m <= n => Copies(b, At(m)) = Copies(b, Base) + Balance(b, j, below(m))}
<1>1. n \in Nat /\ Seqs(j) = 0 .. (n - 1) /\ j \in Seq(Ops)
  BY DEF Numbered, Seqs
<1>2. Base \in Seq(Bytes)
  BY BaseTyped
<1>3. Copies(b, Base) \in Nat
  BY <1>2, CopiesType
<1>4. 0 \in G
  <2>1. 0 \in 0 .. n
    BY <1>1
  <2>2. At(0) = Base
    BY <1>1, <1>2, <2>1, ReplayNext
  <2>3. below(0) = {}
    OBVIOUS
  <2>4. Pairs(Puts(b, j), {}) = {} /\ Pairs(Cuts(b, j), {}) = {}
    BY DEF Pairs
  <2>5. Balance(b, j, {}) = 0
    BY <2>4, FS_EmptySet DEF Balance
  <2>6. Copies(b, At(0)) = Copies(b, Base) + Balance(b, j, below(0))
    <3>1. Copies(b, Base) = Copies(b, Base) + 0
      BY <1>3
    <3> HIDE DEF below, At
    <3> QED BY <2>2, <2>3, <2>5, <3>1
  <2> QED BY <2>6
<1>5. ASSUME NEW m \in Nat, m \in G PROVE m + 1 \in G
  <2> SUFFICES ASSUME m + 1 <= n
               PROVE  Copies(b, At(m + 1)) = Copies(b, Base) + Balance(b, j, below(m + 1))
    OBVIOUS
  <2>1. /\ m <= n /\ m \in Seqs(j) /\ m \in 0 .. n /\ m + 1 \in 0 .. n /\ m + 1 # 0 /\ (m + 1) - 1 = m
        /\ below(m + 1) \in SUBSET Seqs(j) /\ below(m) \in SUBSET Seqs(j)
        /\ m \in below(m + 1) /\ below(m + 1) \ {m} = below(m)
    BY <1>1
  <2>2. Copies(b, At(m)) = Copies(b, Base) + Balance(b, j, below(m))
    BY <1>5, <2>1
  <2> DEFINE o == OpAt(j, m)
             d == At(m)
  <2>3. d \in Seq(Bytes)
    BY <1>1, <1>2, <2>1, ReplayNext
  <2>4. At(m + 1) = Apply(d, o)
    <3> DEFINE w == m + 1
    <3>1. w \in 0 .. n /\ w # 0 /\ w - 1 = m
      BY <2>1
    <3> HIDE DEF w
    <3>2. At(w) = Apply(ReplayTo(Base, j, w - 1), j[w])
      BY <1>1, <1>2, <3>1, ReplayNext
    <3> QED BY <3>1, <3>2 DEF w, OpAt
  <2>5. o \in Ops /\ o.ins \in Seq(Bytes) /\ o.del \in Seq(Bytes)
    BY <2>1, OpShape
  <2>6. o.pos + DelLen(o) <= Len(d) /\ SubSeq(d, o.pos + 1, o.pos + DelLen(o)) = o.del
    BY <2>1 DEF StaysInside, RecordsRemoved
  <2> HIDE DEF d, o, below, At
  <2>7. Copies(b, Apply(d, o)) = Copies(b, d) + Copies(b, o.ins) - Copies(b, o.del)
    BY <2>3, <2>5, <2>6, CopiesApply
  <2>8. Copies(b, o.ins) \in Nat /\ Copies(b, o.del) \in Nat /\ Copies(b, d) \in Nat
    BY <2>3, <2>5, CopiesType
  <2>9. Balance(b, j, below(m + 1)) = Balance(b, j, below(m)) + Copies(b, o.ins) - Copies(b, o.del)
    BY <2>1, BalanceWithout DEF o
  <2>10. Balance(b, j, below(m)) \in Int
    BY <2>1, BalanceWithout
  <2>11. Copies(b, d) = Copies(b, Base) + Balance(b, j, below(m))
    BY <2>2 DEF d
  <2> QED BY <1>3, <2>4, <2>7, <2>8, <2>9, <2>10, <2>11
<1>6. n \in G
  <2>1. \A m \in Nat : m \in G
    <3> HIDE DEF G
    <3> QED BY <1>4, <1>5, Inductive
  <2> QED BY <1>1, <2>1
<1>7. below(n) = Seqs(j)
  BY <1>1
<1> QED BY <1>1, <1>6, <1>7

-----------------------------------------------------------------------------
(* A reversal in effect and what it takes back cancel.                     *)

\* No op has two reversals in effect.
OneReverser(j) == \A s \in Seqs(j) : \A q, r \in Reversers(j, s) \cap LiveOps(j) : q = r

\* What counts when the reversals from op number m on have been cancelled with their targets.
Uncancelled(j, m) ==
    {s \in Seqs(j) : IF s < m THEN \A r \in Reversers(j, s) \cap LiveOps(j) : r < m
                     ELSE OpAt(j, s).kind = "edit" /\ s \in LiveOps(j)}

LEMMA Cancels ==
  ASSUME NEW b, NEW j, Numbered(j), Ordered(j), TurnedRound(j), OneReverser(j),
         NEW e \in Seqs(j)
  PROVE  Balance(b, j, Uncancelled(j, e + 1)) = Balance(b, j, Uncancelled(j, e))
<1> DEFINE A == Uncancelled(j, e + 1)
           C == Uncancelled(j, e)
           L == LiveOps(j)
<1>1. /\ j \in Seq(Ops) /\ Len(j) \in Nat /\ Seqs(j) = 0 .. (Len(j) - 1) /\ e \in Nat
      /\ Seqs(j) \in SUBSET Nat
  BY DEF Numbered, Seqs
<1>2. \A s \in Seqs(j) : s \in L <=> Reversers(j, s) \cap L = {}
  BY <1>1, LivenessIs, Zenon
<1>3. ASSUME NEW s \in Seqs(j), NEW r \in Reversers(j, s)
      PROVE  r \in Seqs(j) /\ s < r /\ OpAt(j, r).kind # "edit" /\ OpAt(j, r).undoes = s
  <2>1. r \in Seqs(j) /\ r \in (s + 1) .. (Len(j) - 1) /\ OpAt(j, r).kind # "edit"
    BY <1>1, LaterReversers
  <2> QED BY <1>1, <2>1 DEF Reversers
<1>4. ASSUME NEW s \in Seqs(j)
      PROVE  /\ s \in A <=> IF s < e + 1 THEN \A r \in Reversers(j, s) \cap L : r < e + 1
                            ELSE OpAt(j, s).kind = "edit" /\ s \in L
             /\ s \in C <=> IF s < e THEN \A r \in Reversers(j, s) \cap L : r < e
                            ELSE OpAt(j, s).kind = "edit" /\ s \in L
  BY DEF Uncancelled
<1>5. A \in SUBSET Seqs(j) /\ C \in SUBSET Seqs(j)
  BY DEF Uncancelled
<1> HIDE DEF A, C, L
<1>6. ASSUME NEW s \in Seqs(j), s > e PROVE s \in A <=> s \in C
  <2>1. ~(s < e + 1) /\ ~(s < e)
    BY <1>1, <1>6
  <2> QED BY <1>4, <2>1
\* Older ops change only if e takes them back.
<1>7. ASSUME NEW s \in Seqs(j), s < e, ~(e \in Reversers(j, s) /\ e \in L) PROVE s \in A <=> s \in C
  <2>1. s < e + 1
    BY <1>1, <1>7
  <2>2. ASSUME NEW r \in Reversers(j, s) \cap L PROVE r < e + 1 <=> r < e
    <3>1. r \in Nat /\ r # e
      BY <1>1, <1>3, <1>7
    <3> QED BY <1>1, <3>1
  <2>3. (\A r \in Reversers(j, s) \cap L : r < e + 1) <=> (\A r \in Reversers(j, s) \cap L : r < e)
    BY <2>2
  <2> QED BY <1>4, <1>7, <2>1, <2>3
<1>8. e \in A <=> e \in L
  <2>1. e < e + 1
    BY <1>1
  <2>2. ASSUME NEW r \in Reversers(j, e) PROVE ~(r < e + 1)
    <3>1. e < r /\ r \in Nat
      BY <1>1, <1>3
    <3> QED BY <1>1, <3>1
  <2>3. (\A r \in Reversers(j, e) \cap L : r < e + 1) <=> Reversers(j, e) \cap L = {}
    BY <2>2
  <2> QED BY <1>2, <1>4, <2>1, <2>3
<1>9. e \in C <=> OpAt(j, e).kind = "edit" /\ e \in L
  <2>1. ~(e < e)
    BY <1>1
  <2> QED BY <1>4, <2>1
<1>10. \A s \in Seqs(j) : s = e \/ s > e \/ s < e
  BY <1>1
<1>11. CASE OpAt(j, e).kind = "edit" \/ e \notin L
  <2>1. ASSUME NEW s \in Seqs(j) PROVE ~(e \in Reversers(j, s) /\ e \in L)
    BY <1>11 DEF Reversers
  <2>2. \A s \in Seqs(j) : s \in A <=> s \in C
    <3> SUFFICES ASSUME NEW s \in Seqs(j) PROVE s \in A <=> s \in C
      OBVIOUS
    <3>1. CASE s = e
      BY <1>8, <1>9, <1>11, <3>1
    <3>2. CASE s > e
      BY <1>6, <3>2
    <3>3. CASE s < e
      BY <1>7, <2>1, <3>3
    <3> QED BY <1>10, <3>1, <3>2, <3>3
  <2>3. A = C
    BY <1>5, <2>2
  <2> QED BY <2>3 DEF A, C
<1>12. CASE OpAt(j, e).kind # "edit" /\ e \in L
  <2> DEFINE p == OpAt(j, e).undoes
  <2>1. p \in 0 .. (e - 1) /\ p \in Seqs(j) /\ p < e /\ p \in Nat
    BY <1>1, <1>12 DEF Ordered
  <2>2. e \in Reversers(j, p)
    BY <1>12 DEF Reversers
  <2>3. /\ OpAt(j, e).ins = OpAt(j, p).del
        /\ OpAt(j, e).del = OpAt(j, p).ins
    BY <1>12 DEF TurnedRound
  <2>4. \A s \in Seqs(j) : e \in Reversers(j, s) => s = p
    BY DEF Reversers
  <2> HIDE DEF p
  <2>5. p \in A /\ p \notin C
    <3>1. p < e + 1
      BY <1>1, <2>1
    <3>2. ASSUME NEW r \in Reversers(j, p) \cap L PROVE r < e + 1
      <4>1. r = e
        BY <1>12, <2>1, <2>2 DEF OneReverser, L
      <4> QED BY <1>1, <4>1
    <3>3. p \in A
      BY <1>4, <2>1, <3>1, <3>2
    <3>4. ~(e < e)
      BY <1>1
    <3> QED BY <1>4, <1>12, <2>1, <2>2, <3>3, <3>4
  <2>6. e \in A /\ e \notin C
    BY <1>8, <1>9, <1>12
  <2> DEFINE T == A \ {e}
  <2>7. T \ {p} = C
    <3>1. ASSUME NEW s \in Seqs(j), s # e, s # p PROVE s \in A <=> s \in C
      <4>1. CASE s > e
        BY <1>6, <4>1
      <4>2. CASE s < e
        BY <1>7, <2>4, <3>1, <4>2
      <4> QED BY <1>10, <3>1, <4>1, <4>2
    <3> QED BY <1>5, <2>5, <2>6, <3>1
  <2>8. p \in T /\ T \in SUBSET Seqs(j)
    <3>1. p # e
      BY <1>1, <2>1
    <3> QED BY <1>5, <2>5, <3>1
  <2>9. Balance(b, j, A) = Balance(b, j, T) + Copies(b, OpAt(j, e).ins) - Copies(b, OpAt(j, e).del)
    BY <1>5, <2>6, BalanceWithout
  <2> HIDE DEF T
  <2>10. Balance(b, j, T) = Balance(b, j, C) + Copies(b, OpAt(j, p).ins) - Copies(b, OpAt(j, p).del)
    BY <2>7, <2>8, BalanceWithout
  <2>11. Balance(b, j, C) \in Int
    BY <1>5, BalanceWithout
  <2>12. Copies(b, OpAt(j, p).ins) \in Nat /\ Copies(b, OpAt(j, p).del) \in Nat
    <3>1. /\ Puts(b, j)[p] = Copies(b, OpAt(j, p).ins) /\ Puts(b, j)[p] \in Nat
          /\ Cuts(b, j)[p] = Copies(b, OpAt(j, p).del) /\ Cuts(b, j)[p] \in Nat
      BY <2>1, PutsCutsTyped, Zenon
    <3> QED BY <3>1, Zenon
  <2>13. Balance(b, j, A) = Balance(b, j, C)
    BY <2>3, <2>9, <2>10, <2>11, <2>12
  <2> QED BY <2>13 DEF A, C
<1> QED BY <1>11, <1>12

\* All ops balance what the edits in effect do.
LEMMA BalanceOfEdits ==
  ASSUME NEW b, NEW j, Numbered(j), Ordered(j), TurnedRound(j), OneReverser(j)
  PROVE  Balance(b, j, Seqs(j)) = Balance(b, j, LiveEdits(j))
<1> DEFINE n == Len(j)
           G == {m \in Nat : m <= n =>
                    Balance(b, j, Uncancelled(j, m)) = Balance(b, j, Uncancelled(j, 0))}
<1>1. n \in Nat /\ Seqs(j) = 0 .. (n - 1) /\ j \in Seq(Ops)
  BY DEF Numbered, Seqs
<1>2. 0 \in G
  OBVIOUS
<1>3. ASSUME NEW m \in Nat, m \in G PROVE m + 1 \in G
  <2> SUFFICES ASSUME m + 1 <= n
               PROVE  Balance(b, j, Uncancelled(j, m + 1)) = Balance(b, j, Uncancelled(j, 0))
    OBVIOUS
  <2>1. m <= n /\ m \in Seqs(j)
    BY <1>1
  <2>2. Balance(b, j, Uncancelled(j, m)) = Balance(b, j, Uncancelled(j, 0))
    BY <1>3, <2>1
  <2>3. Balance(b, j, Uncancelled(j, m + 1)) = Balance(b, j, Uncancelled(j, m))
    BY <2>1, Cancels
  <2> QED BY <2>2, <2>3
<1>4. \A m \in Nat : m \in G
  <2> HIDE DEF G
  <2> QED BY <1>2, <1>3, Inductive
<1>5. Balance(b, j, Uncancelled(j, n)) = Balance(b, j, Uncancelled(j, 0))
  BY <1>1, <1>4
<1>6. Uncancelled(j, n) = Seqs(j)
  <2>1. \A s \in Seqs(j) : s < n
    BY <1>1
  <2>2. \A s \in Seqs(j) : \A r \in Reversers(j, s) : r < n
    BY <2>1 DEF Reversers
  <2> HIDE DEF n
  <2> QED BY <2>1, <2>2 DEF Uncancelled
<1>7. Uncancelled(j, 0) = LiveEdits(j)
  <2>1. \A s \in Seqs(j) : ~(s < 0)
    BY <1>1
  <2>2. Uncancelled(j, 0) = {s \in Seqs(j) : OpAt(j, s).kind = "edit" /\ s \in LiveOps(j)}
    BY <2>1 DEF Uncancelled
  <2> QED BY <2>2 DEF LiveEdits, LiveOps
<1> QED BY <1>5, <1>6, <1>7

LEMMA SumsAreSizes ==
  ASSUME NEW b, NEW j, Numbered(j), NEW S \in SUBSET Seqs(j)
  PROVE  /\ PutIn(b, j, S) = Cardinality(Pairs(Puts(b, j), S))
         /\ CutOut(b, j, S) = Cardinality(Pairs(Cuts(b, j), S))
<1>1. Len(j) \in Nat /\ Seqs(j) = 0 .. (Len(j) - 1)
  BY DEF Numbered, Seqs
<1>2. S \in SUBSET (0 .. (Len(j) - 1))
  BY <1>1
<1>3. PutIn(b, j, S) = Cardinality(Pairs(Puts(b, j), S))
  <2> DEFINE f == Puts(b, j)
             Body(g) == [s \in SUBSET S |->
                            IF s = {} THEN 0
                            ELSE Copies(b, OpAt(j, CHOOSE x \in s : TRUE).ins)
                                    + g[s \ {CHOOSE x \in s : TRUE}]]
             K == CHOOSE g : g = Body(g)
             h == [s \in SUBSET S |-> Cardinality(Pairs(f, s))]
  <2>1. PutIn(b, j, S) = K[S]
    BY DEF PutIn, MapThenSumSet, MapThenFoldSet
  <2>2. Counts(f, Len(j)) /\ \A s \in Seqs(j) : f[s] = Copies(b, OpAt(j, s).ins)
    BY PutsCutsTyped
  <2> HIDE DEF f
  <2>3. ASSUME NEW g, NEW s \in SUBSET S PROVE Body(g)[s] = SumStep(f, g, s)
    <3>1. CASE s = {}
      BY <3>1 DEF SumStep
    <3>2. CASE s # {}
      <4> DEFINE x == CHOOSE x \in s : TRUE
      <4>1. x \in s
        BY <3>2
      <4>2. f[x] = Copies(b, OpAt(j, x).ins)
        <5> HIDE DEF x
        <5> QED BY <2>2, <4>1
      <4>3. Body(g)[s] = Copies(b, OpAt(j, x).ins) + g[s \ {x}]
        BY <3>2
      <4> QED BY <3>2, <4>2, <4>3 DEF SumStep
    <3> QED BY <3>1, <3>2
  <2>4. h = Body(h)
    <3>1. \A s \in SUBSET S : h[s] = SumStep(f, h, s)
      BY <1>2, <2>2, SizesStep
    <3>2. h = [s \in SUBSET S |-> h[s]] /\ Body(h) = [s \in SUBSET S |-> Body(h)[s]]
      OBVIOUS
    <3> HIDE DEF h, Body
    <3>3. \A s \in SUBSET S : h[s] = Body(h)[s]
      BY <2>3, <3>1
    <3> QED BY <3>2, <3>3, Zenon
  <2>5. K = Body(K)
    <3> HIDE DEF h, Body
    <3> QED BY <2>4, Zenon
  <2> HIDE DEF K, Body
  <2>6. \A s \in SUBSET S : K[s] = SumStep(f, K, s)
    BY <2>3, <2>5, Zenon
  <2>7. K[S] = Cardinality(Pairs(f, S))
    BY <1>2, <2>2, <2>6, SumIsSize
  <2> QED BY <2>1, <2>7 DEF f
<1>4. CutOut(b, j, S) = Cardinality(Pairs(Cuts(b, j), S))
  <2> DEFINE f == Cuts(b, j)
             Body(g) == [s \in SUBSET S |->
                            IF s = {} THEN 0
                            ELSE Copies(b, OpAt(j, CHOOSE x \in s : TRUE).del)
                                    + g[s \ {CHOOSE x \in s : TRUE}]]
             K == CHOOSE g : g = Body(g)
             h == [s \in SUBSET S |-> Cardinality(Pairs(f, s))]
  <2>1. CutOut(b, j, S) = K[S]
    BY DEF CutOut, MapThenSumSet, MapThenFoldSet
  <2>2. Counts(f, Len(j)) /\ \A s \in Seqs(j) : f[s] = Copies(b, OpAt(j, s).del)
    BY PutsCutsTyped
  <2> HIDE DEF f
  <2>3. ASSUME NEW g, NEW s \in SUBSET S PROVE Body(g)[s] = SumStep(f, g, s)
    <3>1. CASE s = {}
      BY <3>1 DEF SumStep
    <3>2. CASE s # {}
      <4> DEFINE x == CHOOSE x \in s : TRUE
      <4>1. x \in s
        BY <3>2
      <4>2. f[x] = Copies(b, OpAt(j, x).del)
        <5> HIDE DEF x
        <5> QED BY <2>2, <4>1
      <4>3. Body(g)[s] = Copies(b, OpAt(j, x).del) + g[s \ {x}]
        BY <3>2
      <4> QED BY <3>2, <4>2, <4>3 DEF SumStep
    <3> QED BY <3>1, <3>2
  <2>4. h = Body(h)
    <3>1. \A s \in SUBSET S : h[s] = SumStep(f, h, s)
      BY <1>2, <2>2, SizesStep
    <3>2. h = [s \in SUBSET S |-> h[s]] /\ Body(h) = [s \in SUBSET S |-> Body(h)[s]]
      OBVIOUS
    <3> HIDE DEF h, Body
    <3>3. \A s \in SUBSET S : h[s] = Body(h)[s]
      BY <2>3, <3>1
    <3> QED BY <3>2, <3>3, Zenon
  <2>5. K = Body(K)
    <3> HIDE DEF h, Body
    <3> QED BY <2>4, Zenon
  <2> HIDE DEF K, Body
  <2>6. \A s \in SUBSET S : K[s] = SumStep(f, K, s)
    BY <2>3, <2>5, Zenon
  <2>7. K[S] = Cardinality(Pairs(f, S))
    BY <1>2, <2>2, <2>6, SumIsSize
  <2> QED BY <2>1, <2>7 DEF f
<1> QED BY <1>3, <1>4

\* The copies of the document, from its journal.
AddsUp(j, d) ==
    \A b : Copies(b, d) = Copies(b, Base) + Balance(b, j, LiveEdits(j))

\* The document holds what its edits in effect make of the file.
LEMMA DocBalanced ==
  ASSUME HInv, Placing, RecordsWhatItRemoves, ReversedOnce
  PROVE  AddsUp(journal, doc)
<1> SUFFICES ASSUME NEW b
             PROVE  Copies(b, doc) = Copies(b, Base) + Balance(b, journal, LiveEdits(journal))
  BY DEF AddsUp
<1> DEFINE j == journal
<1>1. /\ Numbered(j) /\ TurnedRound(j) /\ Ordered(j) /\ StaysInside(Base, j)
      /\ Version = Len(j) /\ Len(j) \in Nat
      /\ doc = ReplayTo(Base, j, Len(j)) /\ Base \in Seq(Bytes)
  BY JournalSound
<1>2. \A s \in Seqs(j) : RecordsRemoved(j, s)
  <2>1. 0 \in 0 .. Len(journal)
    BY <1>1
  <2>2. \A s \in Seqs(journal) : Records(s) <=> RecordsRemoved(journal, s)
    BY <2>1, RecordsAre
  <2>3. \A s \in Seqs(journal) : Records(s)
    BY <1>1 DEF RecordsWhatItRemoves, RecordsSince, Seqs
  <2> QED BY <2>2, <2>3
<1>3. OneReverser(j)
  <2>1. ASSUME NEW s \in Seqs(j)
        PROVE  Reversers(j, s) \cap LiveOps(j) = LiveReversers(j, InEffect(j), s)
    BY DEF LiveReversers, LiveOps, Reversers
  <2> QED BY <2>1 DEF ReversedOnce, OneReverser
<1> HIDE DEF j
<1>4. Copies(b, doc) = Copies(b, Base) + Balance(b, j, Seqs(j))
  BY <1>1, <1>2, CopiesReplayed
<1>5. Balance(b, j, Seqs(j)) = Balance(b, j, LiveEdits(j))
  BY <1>1, <1>3, BalanceOfEdits
<1> QED BY <1>4, <1>5 DEF j

\* Every byte is in the document as often as the file and the edits in effect put it there
\* and did not take it out, while every op records what it removes and no op is taken back by
\* two reversals in effect.
THEOREM CopiesOfBytesAddUp == Spec => []CopiesAddUp
<1>1. HInv /\ Placing => CopiesAddUp
  <2> SUFFICES ASSUME HInv, Placing, RecordsWhatItRemoves, ReversedOnce, NEW b
               PROVE  Copies(b, doc) = Copies(b, Base) + PutIn(b, journal, LiveEdits(journal))
                                          - CutOut(b, journal, LiveEdits(journal))
    BY Zenon DEF CopiesAddUp
  <2> DEFINE j == journal
             E == LiveEdits(journal)
  <2>1. Numbered(j) /\ Len(j) \in Nat /\ Base \in Seq(Bytes) /\ E \in SUBSET Seqs(j)
    BY JournalSound DEF LiveEdits
  <2>2. Copies(b, doc) = Copies(b, Base) + Balance(b, j, E)
    BY DocBalanced DEF AddsUp
  <2> HIDE DEF j, E
  <2>3. Balance(b, j, E) = PutIn(b, j, E) - CutOut(b, j, E)
    BY <2>1, SumsAreSizes DEF Balance
  <2>4. PutIn(b, j, E) \in Nat /\ CutOut(b, j, E) \in Nat
    <3>1. Counts(Puts(b, j), Len(j)) /\ Counts(Cuts(b, j), Len(j))
      BY <2>1, PutsCutsTyped
    <3>2. E \in SUBSET (0 .. (Len(j) - 1))
      BY <2>1 DEF Seqs
    <3> QED BY <2>1, <3>1, <3>2, PairsFinite, SumsAreSizes
  <2>5. Copies(b, Base) \in Nat
    BY <2>1, CopiesType
  <2>6. Copies(b, doc) = Copies(b, Base) + PutIn(b, j, E) - CutOut(b, j, E)
    BY <2>2, <2>3, <2>4, <2>5
  <2> QED BY <2>6 DEF E, j
<1> QED BY <1>1, PlacingAlways, PTL

-----------------------------------------------------------------------------
(* Bytes that are there once.                                              *)

LEMMA CopiesNone ==
  ASSUME NEW b, NEW B, NEW d \in Seq(B)
  PROVE  Copies(b, d) = 0 <=> b \notin ToSet(d)
<1> DEFINE A == {k \in DOMAIN d : d[k] = b}
<1>1. IsFiniteSet(A) /\ Copies(b, d) = Cardinality(A)
  BY CopiesType DEF Copies
<1>2. A = {} <=> b \notin ToSet(d)
  BY DEF ToSet
<1> HIDE DEF A
<1> QED BY <1>1, <1>2, FS_EmptySet

\* No two places of d hold the same byte.
NoTwice(d) == \A i, k \in 1 .. Len(d) : d[i] = d[k] => i = k

LEMMA CopiesOne ==
  ASSUME NEW b, NEW B, NEW d \in Seq(B), NoTwice(d)
  PROVE  Copies(b, d) = IF b \in ToSet(d) THEN 1 ELSE 0
<1> DEFINE A == {k \in DOMAIN d : d[k] = b}
<1>1. DOMAIN d = 1 .. Len(d)
  OBVIOUS
<1>2. CASE b \notin ToSet(d)
  BY <1>2, CopiesNone
<1>3. CASE b \in ToSet(d)
  <2>1. PICK k \in 1 .. Len(d) : d[k] = b
    BY <1>1, <1>3 DEF ToSet
  <2>2. A = {k}
    BY <1>1, <2>1 DEF NoTwice
  <2>3. Cardinality({k}) = 1
    BY FS_Singleton
  <2> QED BY <1>3, <2>2, <2>3 DEF Copies
<1> QED BY <1>2, <1>3

\* A list in which every element is there at most once is as long as the set of its elements.
LEMMA OnceCounted ==
  ASSUME NEW B, NEW d \in Seq(B), \A b \in B : Copies(b, d) \in {0, 1}
  PROVE  NoTwice(d) /\ Cardinality(ToSet(d)) = Len(d)
<1>1. DOMAIN d = 1 .. Len(d) /\ Len(d) \in Nat
  OBVIOUS
<1>2. ASSUME NEW i \in 1 .. Len(d), NEW k \in 1 .. Len(d), d[i] = d[k], i # k PROVE FALSE
  <2> DEFINE b == d[i]
             A == {x \in DOMAIN d : d[x] = b}
  <2>1. i \in A /\ k \in A /\ {i, k} \subseteq A
    BY <1>1, <1>2
  <2>2. IsFiniteSet(A) /\ Copies(b, d) = Cardinality(A)
    <3> HIDE DEF b
    <3> QED BY CopiesType DEF Copies
  <2>3. b \in B
    BY <1>1
  <2> HIDE DEF A, b
  <2>4. Copies(b, d) \in {0, 1}
    BY <2>3
  <2> DEFINE c == Cardinality(A)
             m == Cardinality({i})
             n == Cardinality({i} \cup {k})
  <2>5. IsFiniteSet({i}) /\ m = 1
    BY FS_Singleton
  <2>6. IsFiniteSet({i} \cup {k}) /\ n = m + 1
    <3>1. k \notin {i}
      BY <1>2
    <3> QED BY <2>5, <3>1, FS_AddElement
  <2>7. {i} \cup {k} \subseteq A
    BY <2>1
  <2>8. n <= c
    BY <2>2, <2>7, FS_Subset
  <2>9. c \in {0, 1}
    BY <2>2, <2>4
  <2> HIDE DEF c, m, n
  <2>10. n = 2
    BY <2>5, <2>6
  <2> QED BY <2>8, <2>9, <2>10
<1>3. NoTwice(d)
  BY <1>2 DEF NoTwice
<1>4. d \in Bijection(1 .. Len(d), ToSet(d))
  <2>1. d \in [1 .. Len(d) -> ToSet(d)]
    BY <1>1 DEF ToSet
  <2>2. \A y \in ToSet(d) : \E x \in 1 .. Len(d) : d[x] = y
    BY <1>1 DEF ToSet
  <2> QED BY <1>3, <2>1, <2>2 DEF NoTwice, Bijection, Injection, Surjection, IsInjective
<1>5. IsFiniteSet(1 .. Len(d)) /\ Cardinality(1 .. Len(d)) = Len(d)
  BY <1>1, FS_Interval
<1>6. Cardinality(ToSet(d)) = Cardinality(1 .. Len(d))
  BY <1>4, <1>5, FS_Bijection DEF ExistsBijection
<1> QED BY <1>3, <1>5, <1>6

\* Selection keeps the copies of what is selected and drops the rest.
LEMMA CopiesFilter ==
  ASSUME NEW b, NEW s \in Seq(Bytes), NEW T
  PROVE  Copies(b, Filter(s, T)) = IF b \in T THEN Copies(b, s) ELSE 0
<1> DEFINE n == Len(s)
<1>1. PICK F : Selects(F, s, T, Bytes, n) /\ Filter(s, T) = F[n]
  BY FilterSelects
<1> DEFINE x(m) == SubSeq(s, 1, m)
           Right(m) == /\ F[m] \in Seq(Bytes) /\ x(m) \in Seq(Bytes)
                       /\ Copies(b, F[m]) = IF b \in T THEN Copies(b, x(m)) ELSE 0
           S == {m \in Nat : m <= n => Right(m)}
<1>2. n \in Nat /\ x(0) = <<>> /\ x(n) = s
  OBVIOUS
<1>3. Copies(b, <<>>) = 0
  <2>1. <<>> \in Seq(Bytes) /\ b \notin ToSet(<<>>)
    BY DEF ToSet
  <2> QED BY <2>1, CopiesNone
<1>4. 0 \in S
  <2>1. F[0] = <<>> /\ <<>> \in Seq(Bytes)
    BY <1>1 DEF Selects
  <2> HIDE DEF x
  <2> QED BY <1>2, <1>3, <2>1
<1>5. ASSUME NEW m \in Nat, m \in S PROVE m + 1 \in S
  <2> SUFFICES ASSUME m + 1 <= n PROVE Right(m + 1)
    OBVIOUS
  <2>1. Right(m)
    BY <1>2, <1>5
  <2> DEFINE e == s[m + 1]
             w == m + 1
  <2>2. e \in Bytes /\ <<e>> \in Seq(Bytes) /\ w \in 0 .. n /\ w # 0 /\ w - 1 = m
    BY <1>2
  <2>3. F[w] = IF s[w] \in T THEN Append(F[w - 1], s[w]) ELSE F[w - 1]
    <3> HIDE DEF w
    <3> QED BY <1>1, <2>2 DEF Selects
  <2>4. x(m + 1) = x(m) \o <<e>>
    <3>1. Len(x(m)) = m /\ Len(x(m + 1)) = m + 1 /\ Len(x(m) \o <<e>>) = m + 1
      BY <1>2
    <3>2. ASSUME NEW i \in 1 .. (m + 1) PROVE x(m + 1)[i] = (x(m) \o <<e>>)[i]
      <4>1. x(m + 1)[i] = s[i]
        BY <1>2
      <4>2. CASE i = m + 1
        <5>1. (x(m) \o <<e>>)[i] = e
          BY <1>2, <3>1, <4>2
        <5> QED BY <4>1, <4>2, <5>1
      <4>3. CASE i # m + 1
        <5>1. i \in 1 .. m
          BY <1>2, <4>3
        <5>2. x(m)[i] = s[i]
          BY <1>2, <5>1
        <5>3. (x(m) \o <<e>>)[i] = x(m)[i]
          BY <1>2, <3>1, <5>1
        <5> QED BY <4>1, <5>2, <5>3
      <4> QED BY <4>2, <4>3
    <3>3. x(m + 1) \in Seq(Bytes) /\ x(m) \o <<e>> \in Seq(Bytes)
      BY <1>2, <2>2
    <3> DEFINE y == x(m + 1)
               z == x(m) \o <<e>>
    <3>4. /\ y \in Seq(Bytes) /\ z \in Seq(Bytes) /\ Len(y) = m + 1 /\ Len(z) = m + 1
          /\ \A i \in 1 .. (m + 1) : y[i] = z[i]
      BY <3>1, <3>2, <3>3
    <3> HIDE DEF y, z
    <3>5. y = z
      BY <3>4
    <3> QED BY <3>5 DEF y, z
  <2>5. Copies(b, <<e>>) = IF b = e THEN 1 ELSE 0
    <3>1. NoTwice(<<e>>) /\ ToSet(<<e>>) = {e}
      BY DEF NoTwice, ToSet
    <3> HIDE DEF e
    <3> QED BY <2>2, <3>1, CopiesOne
  <2>6. F[m] \in Seq(Bytes) /\ x(m) \in Seq(Bytes) /\ Append(F[m], e) = F[m] \o <<e>>
    BY <2>1, <2>2
  <2> HIDE DEF x, e
  <2>7. Copies(b, x(m) \o <<e>>) = Copies(b, x(m)) + Copies(b, <<e>>)
        /\ Copies(b, F[m] \o <<e>>) = Copies(b, F[m]) + Copies(b, <<e>>)
    BY <2>2, <2>6, CopiesConcat
  <2>8. Copies(b, x(m)) \in Nat /\ Copies(b, F[m]) \in Nat
    BY <2>6, CopiesType
  <2>9. x(m) \o <<e>> \in Seq(Bytes) /\ F[m] \o <<e>> \in Seq(Bytes)
    BY <2>2, <2>6
  <2>10. F[m + 1] = IF e \in T THEN F[m] \o <<e>> ELSE F[m]
    BY <2>2, <2>3, <2>6 DEF e
  <2>11. CASE e \in T
    <3>1. Copies(b, F[m] \o <<e>>) = IF b \in T THEN Copies(b, x(m) \o <<e>>) ELSE 0
      BY <2>1, <2>5, <2>7, <2>8, <2>11
    <3> QED BY <2>4, <2>9, <2>10, <2>11, <3>1
  <2>12. CASE e \notin T
    <3>1. Copies(b, F[m]) = IF b \in T THEN Copies(b, x(m) \o <<e>>) ELSE 0
      BY <2>1, <2>5, <2>7, <2>8, <2>12
    <3> QED BY <2>4, <2>6, <2>9, <2>10, <2>12, <3>1
  <2> QED BY <2>11, <2>12
<1>6. n \in S
  <2>1. \A m \in Nat : m \in S
    <3> HIDE DEF S
    <3> QED BY <1>4, <1>5, Inductive
  <2> QED BY <1>2, <2>1
<1>7. Right(n)
  BY <1>2, <1>6
<1> HIDE DEF x, n
<1> QED BY <1>1, <1>2, <1>7

\* Text put in anywhere adds its copies; a place behind the end is the end.
LEMMA CopiesPutIn ==
  ASSUME NEW b, NEW d \in Seq(Bytes), NEW ins \in Seq(Bytes), NEW pos \in Nat
  PROVE  Copies(b, Splice(d, pos, 0, ins)) = Copies(b, d) + Copies(b, ins)
<1> DEFINE p == IF pos > Len(d) THEN Len(d) ELSE pos
<1>1. Len(d) \in Nat /\ p \in Nat /\ p <= Len(d) /\ 0 \in Nat /\ p + 0 <= Len(d)
  OBVIOUS
<1>2. Splice(d, pos, 0, ins) = Splice(d, p, 0, ins)
  <2>1. ~(p > Len(d))
    BY <1>1
  <2> QED BY <2>1 DEF Splice
<1>3. SubSeq(d, p + 1, p + 0) = <<>>
  <2> HIDE DEF p
  <2> QED BY <1>1
<1>4. Copies(b, <<>>) = 0
  <2>1. <<>> \in Seq(Bytes) /\ b \notin ToSet(<<>>)
    BY DEF ToSet
  <2> QED BY <2>1, CopiesNone
<1> HIDE DEF p
<1>5. Copies(b, Splice(d, p, 0, ins)) = Copies(b, d) + Copies(b, ins) - Copies(b, SubSeq(d, p + 1, p + 0))
  BY <1>1, CopiesSplice
<1>6. Copies(b, d) \in Nat /\ Copies(b, ins) \in Nat
  BY CopiesType
<1>7. Copies(b, SubSeq(d, p + 1, p + 0)) = 0
  BY <1>3, <1>4
<1>8. Copies(b, Splice(d, p, 0, ins)) = Copies(b, d) + Copies(b, ins)
  BY <1>5, <1>6, <1>7
<1> QED BY <1>2, <1>8

\* An edit inserts each of its bytes once, and none of the file's.
OnceEach(j) ==
    \A s \in Seqs(j) : IsEdit(j, s) =>
        /\ NoTwice(OpAt(j, s).ins)
        /\ \A b \in ToSet(OpAt(j, s).ins) : b.a # Original

LEMMA AppendedOnce ==
  ASSUME store \in [Writers -> Nat], NEW a \in Writers, NEW text \in Texts \cup {<<>>}
  PROVE  /\ NoTwice(Appended(a, text))
         /\ \A b \in ToSet(Appended(a, text)) : b.a # Original
<1> DEFINE q == Appended(a, text)
           n == Len(text)
<1>1. n \in Nat
  <2>1. CASE text = <<>>
    BY <2>1
  <2>2. CASE text \in Texts
    <3>1. text \in Seq(ToSet(text))
      BY <2>2, TextsAssumption
    <3> QED BY <3>1
  <2> QED BY <2>1, <2>2
<1>2. store[a] \in Nat
  OBVIOUS
<1>3. a # Original
  BY AuthorsAssumption DEF Writers
<1>4. q = [i \in 1 .. n |-> [a |-> a, i |-> store[a] + i - 1, c |-> text[i]]]
  BY DEF Appended
<1> HIDE DEF q, n
<1>5. Len(q) = n /\ DOMAIN q = 1 .. n
  BY <1>1, <1>4
<1>6. \A k \in 1 .. n : q[k].a = a /\ q[k].i = store[a] + k - 1
  BY <1>4
<1>7. NoTwice(q)
  <2> SUFFICES ASSUME NEW i \in 1 .. n, NEW k \in 1 .. n, q[i] = q[k] PROVE i = k
    BY <1>5 DEF NoTwice
  <2>1. store[a] + i - 1 = store[a] + k - 1
    BY <1>6
  <2> QED BY <1>1, <1>2, <2>1
<1>8. \A b \in ToSet(q) : b.a # Original
  BY <1>3, <1>5, <1>6 DEF ToSet
<1> QED BY <1>7, <1>8 DEF q

LEMMA WritingOnce ==
  ASSUME PInv, OnceEach(journal), WritesSome
  PROVE  OnceEach(journal')
<1>1. PICK a \in Writers, pos \in Nat, n \in Nat, text \in Texts \cup {<<>>}, join \in Nat :
          Writes(a, pos, n, text, join)
  BY DEF WritesSome
<1> DEFINE ins == Appended(a, text)
           del == SubSeq(doc, pos + 1, pos + n)
           o == Edit(a, pos, del, ins)
<1>2. pos + n <= Len(doc) /\ Commit(o, join)
  BY <1>1 DEF Writes
<1>3. /\ HInv /\ IInv /\ Text /\ doc \in Seq(Bytes) /\ Len(doc) \in Nat /\ journal \in Seq(Ops)
      /\ store \in [Writers -> Nat]
  BY TextShape DEF PInv, HInv, DataTyped, Text
<1>4. NoTwice(ins) /\ \A b \in ToSet(ins) : b.a # Original
  BY <1>3, AppendedOnce
<1>5. del \in Seq(Bytes) /\ Len(del) = n
  BY <1>2, <1>3, TakenShape
<1>6. ins \in Seq(Bytes)
  BY <1>3, AppendedTyped
<1> HIDE DEF ins, del
<1>7. Fits(o) /\ o.kind = "edit" /\ o.ins = ins
  BY <1>2, <1>3, <1>5, <1>6, EditFits DEF Edit
<1> HIDE DEF o
<1>8. PICK op \in Ops : Longer(journal', journal, op) /\ op.ins = ins
  <2>1. PICK op \in Ops : Longer(journal', journal, op) /\ op.ins = o.ins
    BY <1>2, <1>3, <1>7, CommitAppends, Zenon
  <2> QED BY <1>7, <2>1
<1>9. /\ Seqs(journal') = Seqs(journal) \cup {Len(journal)}
      /\ \A s \in Seqs(journal) : OpAt(journal', s) = OpAt(journal, s)
      /\ OpAt(journal', Len(journal)) = op
  BY <1>8 DEF Longer
<1> QED BY <1>4, <1>8, <1>9 DEF OnceEach, IsEdit

LEMMA ReversingOnce ==
  ASSUME PInv, OnceEach(journal), Reverses
  PROVE  OnceEach(journal')
<1>1. PICK o : o.kind # "edit" /\ Fits(o) /\ Commit(o, 0)
  BY DEF Reverses
<1>2. HInv /\ 0 \in Nat
  BY DEF PInv
<1>3. PICK op \in Ops : Longer(journal', journal, op) /\ op.kind # "edit"
  BY <1>1, <1>2, CommitAppends
<1>4. /\ Seqs(journal') = Seqs(journal) \cup {Len(journal)}
      /\ \A s \in Seqs(journal) : OpAt(journal', s) = OpAt(journal, s)
      /\ OpAt(journal', Len(journal)) = op
  BY <1>3 DEF Longer
<1> QED BY <1>3, <1>4 DEF OnceEach, IsEdit

LEMMA OnceAlways ==
  ASSUME "paste" \notin Moves
  PROVE  Spec => [](PInv /\ Placing /\ OnceEach(journal))
<1>1. Init => OnceEach(journal)
  BY DEF Init, OnceEach, Seqs
<1>2. PInv /\ OnceEach(journal) /\ [Next]_vars => OnceEach(journal)'
  <2> SUFFICES ASSUME PInv, OnceEach(journal), [Next]_vars PROVE OnceEach(journal')
    OBVIOUS
  <2>1. UNCHANGED <<doc, journal, store>> \/ WritesSome \/ Reverses
    <3>1. \A h \in Humans : ~Paste(h)
      BY DEF Paste, Typist, Ready, Free
    <3> QED BY <3>1, StepShape DEF PInv
  <2>2. CASE UNCHANGED <<doc, journal, store>>
    BY <2>2
  <2> QED BY <2>1, <2>2, WritingOnce, ReversingOnce
<1>3. Spec => []PInv
  BY WrittenOnceAlways
<1> QED BY <1>1, <1>2, <1>3, PlacingAlways, PTL DEF Spec

-----------------------------------------------------------------------------
(* Where a byte comes from, and who took it.                               *)

LEMMA PairsNone ==
  ASSUME NEW f, NEW S, \A x \in S : f[x] = 0
  PROVE  IsFiniteSet(Pairs(f, S)) /\ Cardinality(Pairs(f, S)) = 0
<1>1. Pairs(f, S) = {}
  BY DEF Pairs
<1> QED BY <1>1, FS_EmptySet

LEMMA PairsAtLeast ==
  ASSUME NEW f, NEW n, Counts(f, n), NEW S \in SUBSET (0 .. (n - 1)), NEW x \in S
  PROVE  /\ f[x] <= Cardinality(Pairs(f, S))
         /\ \A y \in S : y # x => f[x] + f[y] <= Cardinality(Pairs(f, S))
<1> DEFINE T == S \ {x}
<1>1. \A y \in S : f[y] \in Nat
  BY DEF Counts
<1>2. T \in SUBSET (0 .. (n - 1))
  OBVIOUS
<1>3. IsFiniteSet(Pairs(f, T)) /\ Cardinality(Pairs(f, T)) \in Nat
  <2> HIDE DEF T
  <2> QED BY <1>2, PairsFinite
<1>4. Cardinality(Pairs(f, S)) = f[x] + Cardinality(Pairs(f, T))
  <2>1. x \in S /\ f[x] \in Nat /\ IsFiniteSet(Pairs(f, S \ {x}))
    BY <1>1, <1>3, Zenon
  <2>2. Cardinality(Pairs(f, S)) = f[x] + Cardinality(Pairs(f, S \ {x}))
    BY <2>1, PairsWithout
  <2> QED BY <2>2, Zenon
<1>5. ASSUME NEW y \in S, y # x PROVE f[y] <= Cardinality(Pairs(f, T))
  <2> DEFINE U == T \ {y}
  <2>1. y \in T /\ U \in SUBSET (0 .. (n - 1)) /\ f[y] \in Nat
    BY <1>1, <1>5
  <2>2. IsFiniteSet(Pairs(f, U)) /\ Cardinality(Pairs(f, U)) \in Nat
    <3> HIDE DEF U
    <3> QED BY <2>1, PairsFinite
  <2> HIDE DEF T
  <2>3. Cardinality(Pairs(f, T)) = f[y] + Cardinality(Pairs(f, U))
    BY <2>1, <2>2, PairsWithout
  <2> HIDE DEF U
  <2> QED BY <2>1, <2>2, <2>3
<1> HIDE DEF T
<1>6. f[x] \in Nat
  BY <1>1
<1>7. f[x] <= Cardinality(Pairs(f, S))
  BY <1>3, <1>4, <1>6
<1>8. ASSUME NEW y \in S, y # x PROVE f[x] + f[y] <= Cardinality(Pairs(f, S))
  <2>1. f[y] \in Nat /\ f[y] <= Cardinality(Pairs(f, T))
    BY <1>1, <1>5, <1>8
  <2> QED BY <1>3, <1>4, <1>6, <2>1
<1> QED BY <1>7, <1>8

LEMMA PairsOfOnly ==
  ASSUME NEW f, NEW S, NEW x \in S, f[x] \in Nat, \A y \in S \ {x} : f[y] = 0
  PROVE  Cardinality(Pairs(f, S)) = f[x]
<1>1. IsFiniteSet(Pairs(f, S \ {x})) /\ Cardinality(Pairs(f, S \ {x})) = 0
  BY PairsNone
<1>2. f[x] \in Nat /\ IsFiniteSet(Pairs(f, S \ {x}))
  BY <1>1
<1>3. ASSUME NEW y, y = f[x] PROVE Cardinality(Pairs(f, S)) = y + Cardinality(Pairs(f, S \ {x}))
  BY <1>2, <1>3, PairsWithout
<1> QED BY <1>1, <1>3

\* The byte is the file's or an edit in effect inserted it.
Sourced(j, b) == b \in ToSet(Base) \/ \E s \in LiveEdits(j) : b \in ToSet(OpAt(j, s).ins)

\* Each byte comes from one place,
OneSource(j) ==
    /\ \A s \in LiveEdits(j) : \A b \in ToSet(OpAt(j, s).ins) :
          /\ b \notin ToSet(Base) /\ b \notin ToSet(OpAt(j, s).del)
          /\ \A t \in LiveEdits(j) : b \in ToSet(OpAt(j, t).ins) => t = s
    /\ NoTwice(Base) /\ \A s \in LiveEdits(j) : NoTwice(OpAt(j, s).ins)

\* was deleted by at most one edit in effect, once, and is in the document unless it was.
OneTake(j, d) ==
    \A b : /\ Copies(b, d) \in {0, 1}
           /\ Copies(b, d) = 1 => Sourced(j, b)
           /\ Sourced(j, b) => Copies(b, d) = 1 \/ \E s \in LiveEdits(j) : b \in ToSet(OpAt(j, s).del)
           /\ \A s \in LiveEdits(j) : b \in ToSet(OpAt(j, s).del) =>
                 /\ Copies(b, d) = 0 /\ Sourced(j, b)
                 /\ Copies(b, OpAt(j, s).del) = 1
                 /\ \A t \in LiveEdits(j) : b \in ToSet(OpAt(j, t).del) => t = s

LEMMA BaseOnce == NoTwice(Base) /\ \A b \in ToSet(Base) : b.a = Original
<1>1. Len(BaseText) \in Nat
  BY TextsAssumption
<1>2. Len(Base) = Len(BaseText) /\ DOMAIN Base = 1 .. Len(BaseText)
      /\ \A i \in 1 .. Len(BaseText) : Base[i].a = Original /\ Base[i].i = i - 1
  BY <1>1 DEF Base
<1>3. NoTwice(Base)
  <2> SUFFICES ASSUME NEW i \in 1 .. Len(BaseText), NEW k \in 1 .. Len(BaseText), Base[i] = Base[k]
               PROVE  i = k
    BY <1>2 DEF NoTwice
  <2>1. i - 1 = k - 1
    BY <1>2
  <2> QED BY <1>1, <2>1
<1> QED BY <1>2, <1>3 DEF ToSet

LEMMA Sources ==
  ASSUME PInv, OnceEach(journal)
  PROVE  OneSource(journal)
<1>1. WrittenOnce(journal) /\ Seqs(journal) \in SUBSET Nat
  BY DEF PInv, Seqs
<1>2. \A s \in LiveEdits(journal) : s \in Seqs(journal) /\ IsEdit(journal, s)
  BY DEF LiveEdits, IsEdit
<1>3. ASSUME NEW s \in LiveEdits(journal), NEW b \in ToSet(OpAt(journal, s).ins)
      PROVE  /\ b \notin ToSet(Base) /\ b \notin ToSet(OpAt(journal, s).del)
             /\ \A t \in LiveEdits(journal) : b \in ToSet(OpAt(journal, t).ins) => t = s
  <2>1. b \notin ToSet(Base)
    BY <1>2, BaseOnce DEF OnceEach
  <2>2. s \in Nat /\ s <= s
    BY <1>1, <1>2
  <2>3. b \notin ToSet(OpAt(journal, s).del)
    BY <1>1, <1>2, <2>2 DEF WrittenOnce
  <2>4. ASSUME NEW t \in LiveEdits(journal), b \in ToSet(OpAt(journal, t).ins), t # s PROVE FALSE
    <3>1. t \in Nat /\ (t < s \/ s < t) /\ (t < s => t <= s) /\ (s < t => s <= t)
      BY <1>1, <1>2, <2>2, <2>4
    <3> QED BY <1>1, <1>2, <2>4, <3>1 DEF WrittenOnce
  <2> QED BY <2>1, <2>3, <2>4
<1>4. \A s \in LiveEdits(journal) : NoTwice(OpAt(journal, s).ins)
  BY <1>2 DEF OnceEach
<1> QED BY <1>3, <1>4, BaseOnce DEF OneSource

LEMMA SourcesAndTakes ==
  ASSUME NEW j, Numbered(j), OneSource(j), NEW d \in Seq(Bytes), AddsUp(j, d), Base \in Seq(Bytes)
  PROVE  OneTake(j, d)
<1> DEFINE E == LiveEdits(j)
<1>1. Len(j) \in Nat /\ Seqs(j) = 0 .. (Len(j) - 1) /\ E \in SUBSET (0 .. (Len(j) - 1))
  BY DEF Numbered, Seqs, LiveEdits
<1> SUFFICES ASSUME NEW b
             PROVE  /\ Copies(b, d) \in {0, 1}
                    /\ Copies(b, d) = 1 => Sourced(j, b)
                    /\ Sourced(j, b) => Copies(b, d) = 1 \/ \E s \in E : b \in ToSet(OpAt(j, s).del)
                    /\ \A s \in E : b \in ToSet(OpAt(j, s).del) =>
                         /\ Copies(b, d) = 0 /\ Sourced(j, b)
                         /\ Copies(b, OpAt(j, s).del) = 1
                         /\ \A t \in E : b \in ToSet(OpAt(j, t).del) => t = s
  BY DEF OneTake
<1> DEFINE p == Puts(b, j)
           c == Cuts(b, j)
           put == Cardinality(Pairs(p, E))
           cut == Cardinality(Pairs(c, E))
           all == Copies(b, Base) + put
<1>2. /\ Counts(p, Len(j)) /\ Counts(c, Len(j))
      /\ \A s \in E : /\ p[s] = Copies(b, OpAt(j, s).ins) /\ p[s] \in Nat
                      /\ c[s] = Copies(b, OpAt(j, s).del) /\ c[s] \in Nat
                      /\ OpAt(j, s).ins \in Seq(Bytes) /\ OpAt(j, s).del \in Seq(Bytes)
  BY <1>1, PutsCutsTyped, OpShape
<1>3. Copies(b, d) = Copies(b, Base) + (put - cut)
  BY DEF AddsUp, Balance
<1> HIDE DEF p, c, E
<1>4. put \in Nat /\ cut \in Nat
  BY <1>1, <1>2, PairsFinite
<1>5. Copies(b, d) \in Nat /\ Copies(b, Base) \in Nat
  BY CopiesType
<1>6. all = IF Sourced(j, b) THEN 1 ELSE 0
  <2>1. CASE b \in ToSet(Base)
    <3>1. Copies(b, Base) = 1
      BY <2>1, CopiesOne DEF OneSource
    <3>2. \A s \in E : p[s] = 0
      BY <1>2, <2>1, CopiesNone DEF OneSource, E
    <3>3. put = 0
      BY <3>2, PairsNone
    <3> QED BY <2>1, <3>1, <3>3 DEF Sourced
  <2>2. CASE b \notin ToSet(Base)
    <3>1. Copies(b, Base) = 0
      BY <2>2, CopiesNone
    <3>2. CASE ~\E s \in E : b \in ToSet(OpAt(j, s).ins)
      <4>1. \A s \in E : p[s] = 0
        BY <1>2, <3>2, CopiesNone
      <4>2. put = 0
        BY <4>1, PairsNone
      <4> QED BY <2>2, <3>1, <3>2, <4>2 DEF Sourced, E
    <3>3. CASE \E s \in E : b \in ToSet(OpAt(j, s).ins)
      <4>1. PICK s \in E : b \in ToSet(OpAt(j, s).ins)
        BY <3>3
      <4>2. NoTwice(OpAt(j, s).ins) /\ OpAt(j, s).ins \in Seq(Bytes)
        BY <1>2 DEF OneSource, E
      <4>3. p[s] = 1
        BY <1>2, <4>1, <4>2, CopiesOne
      <4>4. ASSUME NEW t \in E \ {s} PROVE p[t] = 0
        <5>1. b \notin ToSet(OpAt(j, t).ins)
          BY <4>1 DEF OneSource, E
        <5> QED BY <1>2, <5>1, CopiesNone
      <4>5. put = 1
        BY <4>3, <4>4, PairsOfOnly
      <4> QED BY <3>1, <4>1, <4>5 DEF Sourced, E
    <3> QED BY <3>2, <3>3
  <2> QED BY <2>1, <2>2
<1> HIDE DEF put, cut, all
<1>7. Copies(b, d) = all - cut /\ all \in {0, 1}
  BY <1>3, <1>4, <1>5, <1>6 DEF all
<1>8. ASSUME NEW s \in E, b \in ToSet(OpAt(j, s).del)
      PROVE  /\ cut = 1 /\ all = 1 /\ Copies(b, OpAt(j, s).del) = 1
             /\ \A t \in E : b \in ToSet(OpAt(j, t).del) => t = s
  <2>1. \A t \in E : b \in ToSet(OpAt(j, t).del) => c[t] \in Nat /\ c[t] >= 1
    BY <1>2, CopiesNone
  <2>2. c[s] <= cut /\ c[s] \in Nat /\ c[s] >= 1
    BY <1>1, <1>2, <1>8, <2>1, PairsAtLeast DEF cut
  <2>3. cut = 1 /\ all = 1 /\ c[s] = 1
    BY <1>4, <1>5, <1>7, <2>2
  <2>4. ASSUME NEW t \in E, b \in ToSet(OpAt(j, t).del), t # s PROVE FALSE
    <3>1. c[s] + c[t] <= cut
      BY <1>1, <1>2, <2>4, PairsAtLeast DEF cut
    <3> QED BY <2>1, <2>3, <2>4, <3>1
  <2> QED BY <1>2, <2>3, <2>4
<1>9. Copies(b, d) \in {0, 1} /\ (Copies(b, d) = 1 => all = 1)
  BY <1>4, <1>5, <1>7
<1>10. (\A s \in E : b \notin ToSet(OpAt(j, s).del)) => cut = 0
  <2> SUFFICES ASSUME \A s \in E : b \notin ToSet(OpAt(j, s).del) PROVE cut = 0
    OBVIOUS
  <2>1. \A s \in E : c[s] = 0
    BY <1>2, CopiesNone
  <2> QED BY <2>1, PairsNone DEF cut
<1>11. Sourced(j, b) => Copies(b, d) = 1 \/ \E s \in E : b \in ToSet(OpAt(j, s).del)
  BY <1>6, <1>7, <1>10
<1>12. ASSUME NEW s \in E, b \in ToSet(OpAt(j, s).del)
       PROVE  /\ Copies(b, d) = 0 /\ Sourced(j, b)
              /\ Copies(b, OpAt(j, s).del) = 1
              /\ \A t \in E : b \in ToSet(OpAt(j, t).del) => t = s
  BY <1>6, <1>7, <1>8, <1>12
<1> QED BY <1>6, <1>9, <1>11, <1>12

-----------------------------------------------------------------------------
(* What a composition shows.                                               *)

\* What holds of the document, with all ops still to visit, and is kept when the newest op
\* not yet visited is taken out or left in, holds of the composition.
LEMMA WithoutInduction ==
  ASSUME NEW j \in Seq(Ops), NEW d \in Seq(Bytes), NEW out, NEW I,
         <<Len(j), d>> \in I,
         \A i \in 1 .. Len(j) : \A c \in Seq(Bytes) : Unapply(j, c, j[i]) \in Seq(Bytes),
         \A i \in 1 .. Len(j) : \A c \in Seq(Bytes) : <<i, c>> \in I =>
            <<i - 1, IF j[i].seq \in out THEN Unapply(j, c, j[i]) ELSE c>> \in I
  PROVE  Without(j, d, out) \in Seq(Bytes) /\ <<0, Without(j, d, out)>> \in I
<1> DEFINE n == Len(j)
           X == Seq(Bytes)
           f == [z \in X \X (1 .. n) |->
                    IF j[z[2]].seq \in out THEN Unapply(j, z[1], j[z[2]]) ELSE z[1]]
           Body(g) == [s \in SUBSET (1 .. n) |->
                          IF s = {} THEN d
                          ELSE IF j[Min(s)].seq \in out THEN Unapply(j, g[s \ {Min(s)}], j[Min(s)])
                               ELSE g[s \ {Min(s)}]]
           K == CHOOSE g : g = Body(g)
<1>1. n \in Nat /\ DOMAIN j = 1 .. n
  BY SMT
<1>2. Without(j, d, out) = K[1 .. n]
  BY <1>1 DEF Without, FoldRight, MapThenFoldSet
<1>3. \A i \in 1 .. n : \A c \in X : Unapply(j, c, j[i]) \in X
  OBVIOUS
<1>31. \A i \in 1 .. n : \A c \in X : <<i, c>> \in I =>
            <<i - 1, IF j[i].seq \in out THEN Unapply(j, c, j[i]) ELSE c>> \in I
  OBVIOUS
<1>32. <<n, d>> \in I /\ d \in X
  OBVIOUS
<1> HIDE DEF n, K
<1>4. \E g : RightTable(g, n, X, d, f)
  <2>1. d \in X /\ f \in [X \X (1 .. n) -> X]
    <3> HIDE DEF X
    <3> QED BY <1>3 DEF X
  <2> HIDE DEF X, f
  <2> QED BY <1>1, <2>1, FoldRightTable, Zenon
<1>5. PICK g : RightTable(g, n, X, d, f)
  BY <1>4
<1>6. g = [s \in SUBSET (1 .. n) |-> g[s]] /\ \A s \in SUBSET (1 .. n) : g[s] \in X
  BY <1>5, Zenon DEF RightTable
<1>7. \A s \in SUBSET (1 .. n) :
         g[s] = IF s = {} THEN d
                ELSE IF j[Min(s)].seq \in out THEN Unapply(j, g[s \ {Min(s)}], j[Min(s)])
                     ELSE g[s \ {Min(s)}]
  <2> TAKE s \in SUBSET (1 .. n)
  <2>1. g[s] = IF s = {} THEN d ELSE f[<<g[s \ {Min(s)}], Min(s)>>]
    BY <1>5 DEF RightTable
  <2>2. CASE s # {}
    <3>1. Min(s) \in 1 .. n /\ s \ {Min(s)} \in SUBSET (1 .. n)
      BY <1>1, <2>2, BottomOfSet
    <3>2. g[s \ {Min(s)}] \in X
      BY <1>6, <3>1
    <3> DEFINE c == g[s \ {Min(s)}]
               i == Min(s)
    <3>3. c \in X /\ i \in 1 .. n
      BY <3>1, <3>2
    <3>4. g[s] = f[<<c, i>>]
      BY <2>1, <2>2
    <3> HIDE DEF c, i, X
    <3>5. f[<<c, i>>] = IF j[i].seq \in out THEN Unapply(j, c, j[i]) ELSE c
      BY <3>3
    <3> QED BY <2>2, <3>4, <3>5 DEF c, i
  <2>3. CASE s = {}
    BY <2>1, <2>3
  <2> QED BY <2>2, <2>3
<1>8. g = Body(g)
  BY <1>6, <1>7, Zenon
<1>9. K = Body(K)
  BY <1>8, Zenon DEF K
<1>10. \A s \in SUBSET (1 .. n) :
          K[s] = IF s = {} THEN d
                 ELSE IF j[Min(s)].seq \in out THEN Unapply(j, K[s \ {Min(s)}], j[Min(s)])
                      ELSE K[s \ {Min(s)}]
  BY <1>9
<1> DEFINE Good(m) == K[(n - m + 1) .. n] \in X /\ <<n - m, K[(n - m + 1) .. n]>> \in I
           S == {m \in Nat : m <= n => Good(m)}
<1>11. 0 \in S
  <2>1. (n - 0 + 1) .. n = {} /\ {} \in SUBSET (1 .. n) /\ n - 0 = n
    BY <1>1
  <2>2. K[{}] = d
    BY <1>10, <2>1
  <2> HIDE DEF X
  <2> QED BY <1>32, <2>1, <2>2
<1>12. ASSUME NEW m \in Nat, m \in S PROVE m + 1 \in S
  <2> SUFFICES ASSUME m + 1 <= n PROVE Good(m + 1)
    OBVIOUS
  <2> DEFINE e == n - m
             s == e .. n
             c == K[(e + 1) .. n]
             r == K[s]
  <2>1. e \in 1 .. n /\ n - (m + 1) + 1 = e /\ n - m + 1 = e + 1 /\ n - (m + 1) = e - 1
    BY <1>1, <1>12
  <2>2. c \in X /\ <<e, c>> \in I
    <3>1. Good(m)
      BY <1>1, <1>12
    <3> QED BY <2>1, <3>1
  <2> SUFFICES r \in X /\ <<e - 1, r>> \in I
    BY <2>1
  <2> HIDE DEF e
  <2>3. s \in SUBSET (1 .. n) /\ e \in s /\ \A i \in s : e <= i
    BY <1>1, <2>1
  <2>4. Min(s) = e
    <3>1. Min(s) \in s /\ \A i \in s : Min(s) <= i
      <4> HIDE DEF s
      <4> QED BY <1>1, <2>3, BottomOfSet
    <3> QED BY <1>1, <2>1, <2>3, <3>1
  <2>5. s \ {e} = (e + 1) .. n
    BY <1>1, <2>1
  <2> HIDE DEF s
  <2>6. r = IF j[e].seq \in out THEN Unapply(j, c, j[e]) ELSE c
    BY <1>10, <2>3, <2>4, <2>5
  <2> HIDE DEF c, r, X
  <2> QED BY <1>3, <1>31, <2>1, <2>2, <2>6
<1>13. \A m \in Nat : m \in S
  <2> HIDE DEF S
  <2> QED BY <1>11, <1>12, Inductive
<1>14. n - n + 1 = 1 /\ n - n = 0 /\ n <= n
  BY <1>1
<1>15. Good(n)
  BY <1>1, <1>13, <1>14
<1> QED BY <1>2, <1>14, <1>15 DEF n

\* What taking o out does to the copies of a byte.
UnapplyCopies(b, j, c, o) ==
    LET u == Unapply(j, c, o) IN
    /\ Copies(b, u) <= Copies(b, c) + Copies(b, o.del)
    /\ b \notin Owned(o) => Copies(b, c) <= Copies(b, u)
    /\ b \notin Owned(o) /\ Rebase(j, o.pos, o.pos, o.seq + 1).ok =>
          Copies(b, u) = Copies(b, c) + Copies(b, o.del)

LEMMA UnapplyCounts ==
  ASSUME NEW b, NEW j, NEW comp \in Seq(Bytes), NEW o \in Ops,
         Rebase(j, o.pos, o.pos, o.seq + 1).lo \in Nat
  PROVE  UnapplyCopies(b, j, comp, o)
<1> DEFINE at   == {k \in 1 .. Len(comp) : comp[k] \in Owned(o)}
           torn == Cardinality(at) < InsLen(o)
           keep == {x \in ToSet(comp) : x \notin Owned(o) \/ (torn /\ x.c = NL)}
           rest == Filter(comp, keep)
           r    == Rebase(j, o.pos, o.pos, o.seq + 1)
           u    == Unapply(j, comp, o)
<1>1. o.del \in Seq(Bytes) /\ Len(comp) \in Nat
  BY DEF Ops
<1>2. u = IF at # {} THEN Splice(rest, Min(at) - 1, 0, o.del)
          ELSE IF r.ok THEN Splice(rest, r.lo, 0, o.del) ELSE rest
  BY DEF Unapply
<1>4. at # {} => Min(at) - 1 \in Nat
  <2> SUFFICES ASSUME at # {} PROVE Min(at) - 1 \in Nat
    OBVIOUS
  <2>1. at \in SUBSET (1 .. Len(comp))
    OBVIOUS
  <2> HIDE DEF at
  <2>2. Min(at) \in 1 .. Len(comp)
    BY <1>1, <2>1, BottomOfSet
  <2> QED BY <1>1, <2>2
<1>5. r.lo \in Nat
  OBVIOUS
<1>6. b \in ToSet(comp) /\ b \notin Owned(o) => b \in keep
  OBVIOUS
<1> HIDE DEF at, keep, r, u
<1>7. rest \in Seq(Bytes) /\ Copies(b, rest) = IF b \in keep THEN Copies(b, comp) ELSE 0
  BY FilterElements, CopiesFilter
<1>8. Copies(b, comp) \in Nat /\ Copies(b, o.del) \in Nat
  BY <1>1, CopiesType
<1> HIDE DEF rest
<1>9. Copies(b, rest) <= Copies(b, comp) /\ Copies(b, rest) \in Nat
  BY <1>7, <1>8
<1>10. b \notin Owned(o) => Copies(b, rest) = Copies(b, comp)
  <2>1. b \notin ToSet(comp) => Copies(b, comp) = 0
    BY CopiesNone
  <2> QED BY <1>6, <1>7, <2>1
<1>11. \A pos \in Nat : Copies(b, Splice(rest, pos, 0, o.del)) = Copies(b, rest) + Copies(b, o.del)
  BY <1>1, <1>7, CopiesPutIn
<1>12. CASE at # {}
  <2> DEFINE q == Min(at) - 1
  <2>1. q \in Nat /\ u = Splice(rest, q, 0, o.del)
    BY <1>2, <1>4, <1>12
  <2> HIDE DEF q
  <2>2. Copies(b, u) = Copies(b, rest) + Copies(b, o.del)
    BY <1>11, <2>1
  <2> QED BY <1>8, <1>9, <1>10, <2>2 DEF UnapplyCopies, u
<1>13. CASE at = {} /\ r.ok
  <2>1. Copies(b, u) = Copies(b, rest) + Copies(b, o.del)
    BY <1>2, <1>5, <1>11, <1>13
  <2> QED BY <1>8, <1>9, <1>10, <2>1 DEF UnapplyCopies, u
<1>14. CASE at = {} /\ ~r.ok
  <2>1. u = rest
    BY <1>2, <1>14
  <2> QED BY <1>8, <1>9, <1>10, <1>14, <2>1 DEF UnapplyCopies, u, r
<1> QED BY <1>12, <1>13, <1>14

\* With the ops from number m on visited: a byte is there at most once, and then no edit
\* that stays deleted it; and a byte that is owed is there, or is yet to be put back, or was
\* deleted by an edit whose place is lost.
Shown(j, out, m, c) ==
    \A b : /\ Copies(b, c) \in {0, 1}
           /\ Copies(b, c) = 1 =>
                /\ Sourced(j, b)
                /\ \A s \in LiveEdits(j) : b \in ToSet(OpAt(j, s).del) => s \in out /\ m <= s
           /\ /\ Sourced(j, b)
              /\ \A s \in LiveEdits(j) : b \in ToSet(OpAt(j, s).del) => s \in out
              /\ \A s \in out : b \notin ToSet(OpAt(j, s).ins)
              => \/ Copies(b, c) = 1
                 \/ \E s \in out : /\ b \in ToSet(OpAt(j, s).del)
                                   /\ \/ s < m
                                      \/ ~Rebase(j, OpAt(j, s).pos, OpAt(j, s).pos, s + 1).ok

LEMMA ShownStep ==
  ASSUME NEW j, Numbered(j), NEW d, OneSource(j), OneTake(j, d), NEW out \in SUBSET LiveEdits(j),
         NEW e \in Seqs(j), NEW c \in Seq(Bytes), Shown(j, out, e + 1, c),
         \A b : UnapplyCopies(b, j, c, OpAt(j, e)), Unapply(j, c, OpAt(j, e)) \in Seq(Bytes)
  PROVE  Shown(j, out, e, IF e \in out THEN Unapply(j, c, OpAt(j, e)) ELSE c)
<1> DEFINE L == LiveEdits(j)
           o == OpAt(j, e)
           u == IF e \in out THEN Unapply(j, c, o) ELSE c
           Misplaced(s) == ~Rebase(j, OpAt(j, s).pos, OpAt(j, s).pos, s + 1).ok
<1>1. e \in Nat /\ o.seq = e /\ L \in SUBSET Nat /\ o.del \in Seq(Bytes)
  <2>1. Seqs(j) \in SUBSET Nat /\ L \in SUBSET Seqs(j)
    BY DEF Seqs, LiveEdits
  <2> QED BY <2>1, OpShape
<1> SUFFICES ASSUME NEW b
             PROVE  /\ Copies(b, u) \in {0, 1}
                    /\ Copies(b, u) = 1 =>
                         /\ Sourced(j, b)
                         /\ \A s \in L : b \in ToSet(OpAt(j, s).del) => s \in out /\ e <= s
                    /\ /\ Sourced(j, b)
                       /\ \A s \in L : b \in ToSet(OpAt(j, s).del) => s \in out
                       /\ \A s \in out : b \notin ToSet(OpAt(j, s).ins)
                       => \/ Copies(b, u) = 1
                          \/ \E s \in out : b \in ToSet(OpAt(j, s).del) /\ (s < e \/ Misplaced(s))
  BY DEF Shown
<1>2. /\ Copies(b, c) \in {0, 1}
      /\ Copies(b, c) = 1 =>
           /\ Sourced(j, b)
           /\ \A s \in L : b \in ToSet(OpAt(j, s).del) => s \in out /\ e + 1 <= s
      /\ /\ Sourced(j, b)
         /\ \A s \in L : b \in ToSet(OpAt(j, s).del) => s \in out
         /\ \A s \in out : b \notin ToSet(OpAt(j, s).ins)
         => \/ Copies(b, c) = 1
            \/ \E s \in out : b \in ToSet(OpAt(j, s).del) /\ (s < e + 1 \/ Misplaced(s))
  BY DEF Shown
<1>3. out \in SUBSET L
  OBVIOUS
<1>4. CASE e \notin out
  <2>1. u = c
    BY <1>4
  <2>2. \A s \in L : e + 1 <= s => e <= s
    BY <1>1
  <2>3. \A s \in out : s < e + 1 => s < e
    <3> SUFFICES ASSUME NEW s \in out, s < e + 1 PROVE s < e
      OBVIOUS
    <3>1. s \in Nat /\ s # e
      BY <1>1, <1>3, <1>4
    <3> QED BY <1>1, <3>1
  <2> HIDE DEF u, L, Misplaced
  <2> QED BY <1>2, <2>1, <2>2, <2>3
<1>5. CASE e \in out
  <2>1. UnapplyCopies(b, j, c, o) /\ u = Unapply(j, c, o) /\ u \in Seq(Bytes)
    BY <1>5
  <2>2. /\ Copies(b, u) <= Copies(b, c) + Copies(b, o.del)
        /\ b \notin Owned(o) => Copies(b, c) <= Copies(b, u)
        /\ b \notin Owned(o) /\ ~Misplaced(e) => Copies(b, u) = Copies(b, c) + Copies(b, o.del)
    BY <1>1, <2>1 DEF UnapplyCopies
  <2>3. Copies(b, u) \in Nat /\ Copies(b, o.del) \in Nat /\ (b \in ToSet(o.del) <=> Copies(b, o.del) # 0)
    BY <1>1, <2>1, CopiesType, CopiesNone
  <2>4. e \in L
    BY <1>3, <1>5
  <2>5. b \in ToSet(o.del) =>
          /\ Sourced(j, b) /\ Copies(b, o.del) = 1
          /\ \A t \in L : b \in ToSet(OpAt(j, t).del) => t = e
    BY <2>4 DEF OneTake
  <2> HIDE DEF u, Misplaced
  <2>6. CASE b \in ToSet(o.del)
    <3>1. Copies(b, c) = 0
      <4>1. ~(e + 1 <= e)
        BY <1>1
      <4> QED BY <1>2, <2>4, <2>6, <4>1
    <3>2. Copies(b, u) \in {0, 1}
      BY <2>2, <2>3, <2>5, <2>6, <3>1
    <3>3. \A s \in L : b \in ToSet(OpAt(j, s).del) => s \in out /\ e <= s
      BY <1>1, <1>5, <2>5, <2>6
    <3>4. b \notin Owned(o)
      BY <2>4, <2>6 DEF OneSource, Owned
    <3>5. Copies(b, u) = 1 \/ Misplaced(e)
      BY <2>2, <2>5, <2>6, <3>1, <3>4
    <3> HIDE DEF L
    <3> QED BY <1>5, <2>5, <2>6, <3>2, <3>3, <3>5
  <2>7. CASE b \notin ToSet(o.del)
    <3>1. Copies(b, o.del) = 0
      BY <2>3, <2>7
    <3>2. Copies(b, u) \in {0, 1} /\ (Copies(b, u) = 1 => Copies(b, c) = 1)
      BY <1>2, <2>2, <2>3, <3>1
    <3>3. Copies(b, u) = 1 =>
           /\ Sourced(j, b)
           /\ \A s \in L : b \in ToSet(OpAt(j, s).del) => s \in out /\ e <= s
      <4>1. \A s \in L : e + 1 <= s => e <= s
        BY <1>1
      <4> QED BY <1>2, <3>2, <4>1
    <3>4. ASSUME Sourced(j, b), \A s \in L : b \in ToSet(OpAt(j, s).del) => s \in out,
                 \A s \in out : b \notin ToSet(OpAt(j, s).ins)
          PROVE  \/ Copies(b, u) = 1
                 \/ \E s \in out : b \in ToSet(OpAt(j, s).del) /\ (s < e \/ Misplaced(s))
      <4>1. b \notin Owned(o)
        BY <1>5, <3>4 DEF Owned
      <4>2. CASE Copies(b, c) = 1
        BY <2>2, <2>3, <3>2, <4>1, <4>2
      <4>3. CASE Copies(b, c) # 1
        <5>1. PICK s \in out : b \in ToSet(OpAt(j, s).del) /\ (s < e + 1 \/ Misplaced(s))
          BY <1>2, <3>4, <4>3
        <5>2. s # e /\ s \in Nat
          BY <1>1, <1>3, <2>7, <5>1
        <5>3. s < e + 1 => s < e
          BY <1>1, <5>2
        <5> QED BY <5>1, <5>3
      <4> QED BY <4>2, <4>3
    <3> QED BY <3>2, <3>3, <3>4
  <2> QED BY <2>6, <2>7
<1> QED BY <1>4, <1>5

\* In every composition, each byte is there at most once, and what it owes is there or was
\* deleted by an edit it leaves out, whose place is lost.
LEMMA ShownAll ==
  ASSUME PInv, Placing, OnceEach(journal), RecordsWhatItRemoves, ReversedOnce, NEW p \in Policies
  PROVE  Comp(p) \in Seq(Bytes) /\ Shown(journal, Excluded(p), 0, Comp(p))
<1> DEFINE j == journal
           out == Excluded(p)
           I == {z \in (0 .. Len(j)) \X Seq(Bytes) : Shown(j, out, z[1], z[2])}
<1>1. /\ HInv /\ Numbered(j) /\ Len(j) \in Nat /\ j \in Seq(Ops)
      /\ doc \in Seq(Bytes) /\ Base \in Seq(Bytes)
  BY JournalSound DEF PInv
<1>2. OneSource(j)
  BY Sources
<1>3. AddsUp(j, doc)
  BY <1>1, DocBalanced
<1>4. OneTake(j, doc)
  BY <1>1, <1>2, <1>3, SourcesAndTakes
<1>5. Comp(p) = Without(j, doc, out)
  BY <1>1, KeptUndecided, ProjectIs DEF Comp, Excluded
<1>6. out \in SUBSET LiveEdits(j) /\ LiveEdits(j) \in SUBSET Seqs(j) /\ Seqs(j) = 0 .. (Len(j) - 1)
  BY DEF Excluded, LiveEdits, Seqs
<1> HIDE DEF out
<1>7. Shown(j, out, Len(j), doc)
  <2> SUFFICES ASSUME NEW b
               PROVE  /\ Copies(b, doc) \in {0, 1}
                      /\ Copies(b, doc) = 1 =>
                           /\ Sourced(j, b)
                           /\ \A s \in LiveEdits(j) : b \notin ToSet(OpAt(j, s).del)
                      /\ Sourced(j, b) /\ (\A s \in LiveEdits(j) : b \in ToSet(OpAt(j, s).del) => s \in out)
                         => Copies(b, doc) = 1 \/ \E s \in out : b \in ToSet(OpAt(j, s).del) /\ s < Len(j)
    <3> HIDE DEF j
    <3> QED BY Zenon DEF Shown
  <2>1. Copies(b, doc) \in {0, 1} /\ (Copies(b, doc) = 1 => Sourced(j, b))
    BY <1>4 DEF OneTake
  <2>2. ASSUME Copies(b, doc) = 1, NEW s \in LiveEdits(j), b \in ToSet(OpAt(j, s).del) PROVE FALSE
    <3>1. Copies(b, doc) = 0
      BY <1>4, <2>2 DEF OneTake
    <3> QED BY <2>2, <3>1
  <2>3. ASSUME Sourced(j, b), \A s \in LiveEdits(j) : b \in ToSet(OpAt(j, s).del) => s \in out,
               Copies(b, doc) # 1
        PROVE  \E s \in out : b \in ToSet(OpAt(j, s).del) /\ s < Len(j)
    <3>1. PICK s \in LiveEdits(j) : b \in ToSet(OpAt(j, s).del)
      BY <1>4, <2>3 DEF OneTake
    <3>2. s \in 0 .. (Len(j) - 1) /\ s \in out
      BY <1>6, <2>3, <3>1
    <3>3. s < Len(j)
      BY <1>1, <3>2
    <3> QED BY <3>1, <3>2, <3>3
  <2> QED BY <2>1, <2>2, <2>3
<1>8. <<Len(j), doc>> \in I
  <2>1. <<Len(j), doc>> \in (0 .. Len(j)) \X Seq(Bytes)
    BY <1>1
  <2> QED BY <1>7, <2>1
<1>9. ASSUME NEW i \in 1 .. Len(j), NEW c \in Seq(Bytes)
      PROVE  /\ i - 1 \in Seqs(j) /\ (i - 1) + 1 = i /\ j[i] = OpAt(j, i - 1) /\ j[i].seq = i - 1
             /\ Unapply(j, c, j[i]) \in Seq(Bytes)
             /\ \A b : UnapplyCopies(b, j, c, j[i])
  <2>1. i - 1 \in Seqs(j) /\ (i - 1) + 1 = i
    BY <1>1, <1>6
  <2>2. j[i] = OpAt(j, i - 1) /\ j[i] \in Ops
    BY <1>1, <2>1 DEF OpAt
  <2>3. j[i].seq = i - 1
    BY <1>1, <2>1, <2>2 DEF Numbered
  <2>4. Unapply(j, c, j[i]) \in Seq(Bytes)
    BY <1>1, EachTakesOut DEF TakesOut
  <2>5. Rebase(j, j[i].pos, j[i].pos, j[i].seq + 1).lo \in Nat
    BY <1>1, <2>1, <2>2, <2>3, PlaceOfOp
  <2>6. \A b : UnapplyCopies(b, j, c, j[i])
    <3> HIDE DEF j
    <3> QED BY <2>2, <2>5, UnapplyCounts
  <2> QED BY <2>1, <2>2, <2>3, <2>4, <2>6
<1>10. ASSUME NEW i \in 1 .. Len(j), NEW c \in Seq(Bytes), <<i, c>> \in I
       PROVE  <<i - 1, IF j[i].seq \in out THEN Unapply(j, c, j[i]) ELSE c>> \in I
  <2> DEFINE e == i - 1
             u == IF e \in out THEN Unapply(j, c, OpAt(j, e)) ELSE c
  <2>1. /\ e \in Seqs(j) /\ e + 1 = i /\ j[i] = OpAt(j, e) /\ j[i].seq = e
        /\ Unapply(j, c, OpAt(j, e)) \in Seq(Bytes)
        /\ \A b : UnapplyCopies(b, j, c, OpAt(j, e))
    BY <1>9
  <2>2. Shown(j, out, e + 1, c)
    BY <1>10, <2>1
  <2>3. e \in 0 .. Len(j)
    BY <1>1, <1>6, <2>1
  <2> HIDE DEF e, j
  <2>4. Shown(j, out, e, u)
    BY <1>1, <1>2, <1>4, <1>6, <2>1, <2>2, ShownStep
  <2>5. u \in Seq(Bytes)
    BY <2>1
  <2> HIDE DEF u
  <2>6. <<e, u>> \in I
    BY <2>3, <2>4, <2>5
  <2> QED BY <2>1, <2>6 DEF e, u
<1> HIDE DEF I
<1>11. /\ \A i \in 1 .. Len(j) : \A c \in Seq(Bytes) : Unapply(j, c, j[i]) \in Seq(Bytes)
       /\ \A i \in 1 .. Len(j) : \A c \in Seq(Bytes) : <<i, c>> \in I =>
            <<i - 1, IF j[i].seq \in out THEN Unapply(j, c, j[i]) ELSE c>> \in I
  BY <1>9, <1>10
<1> HIDE DEF j
<1>12. Without(j, doc, out) \in Seq(Bytes) /\ <<0, Without(j, doc, out)>> \in I
  BY <1>1, <1>8, <1>11, WithoutInduction
<1>13. \A c : <<0, c>> \in I => Shown(j, out, 0, c)
  BY DEF I
<1> QED BY <1>5, <1>12, <1>13 DEF j, out

\* No composition shows text of a change set it excludes, except newlines, and none shows a
\* byte twice, as long as every op records what it removes and none is taken back twice.
THEOREM ExcludedTextStaysGone ==
  ASSUME "paste" \notin Moves
  PROVE  Spec => [](RecordsWhatItRemoves /\ ReversedOnce => ExcludedTextIsGone)
<1>1. PInv /\ Placing /\ OnceEach(journal) =>
        (RecordsWhatItRemoves /\ ReversedOnce => ExcludedTextIsGone)
  <2> SUFFICES ASSUME PInv, Placing, OnceEach(journal), RecordsWhatItRemoves, ReversedOnce,
                      NEW p \in Policies
               PROVE  /\ \A b \in ToSet(Comp(p)) \ Owed(p) : b.c = NL
                      /\ Cardinality(ToSet(Comp(p))) = Len(Comp(p))
    BY DEF ExcludedTextIsGone
  <2> DEFINE in == {OpAt(journal, s) : s \in Kept(journal, doc, decided, p)}
  <2>1. Comp(p) \in Seq(Bytes) /\ Shown(journal, Excluded(p), 0, Comp(p))
    BY ShownAll
  <2>2. \A b : Copies(b, Comp(p)) \in {0, 1}
    BY <2>1 DEF Shown
  <2>3. Cardinality(ToSet(Comp(p))) = Len(Comp(p))
    BY <2>1, <2>2, OnceCounted
  <2>4. /\ Kept(journal, doc, decided, p) \subseteq LiveEdits(journal)
        /\ Excluded(p) = LiveEdits(journal) \ Kept(journal, doc, decided, p)
    BY DEF Kept, Excluded
  <2>5. Owed(p) = (ToSet(Base) \cup UNION {ToSet(o.ins) : o \in in}) \ UNION {ToSet(o.del) : o \in in}
    BY DEF Owed
  <2>6. ASSUME NEW b \in ToSet(Comp(p)), b \notin Owed(p) PROVE b.c = NL
    <3>1. Copies(b, Comp(p)) = 1
      BY <2>1, <2>2, <2>6, CopiesNone
    <3>2. /\ Sourced(journal, b)
          /\ \A s \in LiveEdits(journal) : b \in ToSet(OpAt(journal, s).del) => s \in Excluded(p)
      BY <2>1, <3>1 DEF Shown
    <3>3. \A s \in Kept(journal, doc, decided, p) : b \notin ToSet(OpAt(journal, s).del)
      BY <2>4, <3>2
    <3>4. b \notin UNION {ToSet(o.del) : o \in in}
      BY <3>3
    <3>5. b \notin ToSet(Base) /\ \A s \in Kept(journal, doc, decided, p) : b \notin ToSet(OpAt(journal, s).ins)
      BY <2>5, <2>6, <3>4
    <3>6. PICK s \in LiveEdits(journal) : b \in ToSet(OpAt(journal, s).ins)
      BY <3>2, <3>5 DEF Sourced
    <3>7. s \in LiveEdits(journal) \ Kept(journal, doc, decided, p)
      BY <3>5, <3>6
    <3>8. b.c # NL => b \in Words(OpAt(journal, s))
      BY <3>6 DEF Words, Owned
    <3> QED BY <2>6, <3>7, <3>8, LeftOut DEF Comp
  <2> QED BY <2>3, <2>6
<1> QED BY <1>1, OnceAlways, PTL

\* What a composition owes and does not show was deleted by an edit it leaves out, and where
\* that edit was can no longer be found.
TextIsMissedOnlyUnplaced ==
    \A p \in Policies : \A b \in Owed(p) \ ToSet(Comp(p)) :
        \E s \in Excluded(p) :
            LET o == OpAt(journal, s)
            IN  b \in ToSet(o.del) /\ ~Rebase(journal, o.pos, o.pos, s + 1).ok

LEMMA OwedOrUnplaced ==
  ASSUME PInv, Placing, OnceEach(journal), RecordsWhatItRemoves, ReversedOnce
  PROVE  TextIsMissedOnlyUnplaced
<1> SUFFICES ASSUME NEW p \in Policies, NEW b \in Owed(p), b \notin ToSet(Comp(p))
             PROVE  \E s \in Excluded(p) :
                       /\ b \in ToSet(OpAt(journal, s).del)
                       /\ ~Rebase(journal, OpAt(journal, s).pos, OpAt(journal, s).pos, s + 1).ok
  BY DEF TextIsMissedOnlyUnplaced
<1> DEFINE j == journal
           out == Excluded(p)
           K == Kept(j, doc, decided, p)
           in == {OpAt(j, s) : s \in K}
<1>1. Comp(p) \in Seq(Bytes) /\ Shown(j, out, 0, Comp(p))
  BY ShownAll
<1>2. OneSource(j)
  BY Sources
<1>3. K \subseteq LiveEdits(j) /\ out = LiveEdits(j) \ K /\ LiveEdits(j) \in SUBSET Nat
  BY DEF Kept, Excluded, LiveEdits, Seqs
<1>4. b \in (ToSet(Base) \cup UNION {ToSet(o.ins) : o \in in}) \ UNION {ToSet(o.del) : o \in in}
  BY DEF Owed
<1>5. \A s \in K : b \notin ToSet(OpAt(j, s).del)
  BY <1>4
<1>6. b \in ToSet(Base) \/ \E s \in K : b \in ToSet(OpAt(j, s).ins)
  BY <1>4
<1>7. Copies(b, Comp(p)) # 1
  <2>1. Copies(b, Comp(p)) = 0
    BY <1>1, CopiesNone
  <2> QED BY <2>1
<1> HIDE DEF j, out, K
<1>8. Sourced(j, b)
  BY <1>3, <1>6 DEF Sourced
<1>9. \A s \in LiveEdits(j) : b \in ToSet(OpAt(j, s).del) => s \in out
  BY <1>3, <1>5
<1>10. \A s \in out : b \notin ToSet(OpAt(j, s).ins)
  <2> SUFFICES ASSUME NEW s \in out, b \in ToSet(OpAt(j, s).ins) PROVE FALSE
    OBVIOUS
  <2>1. s \in LiveEdits(j) /\ s \notin K
    BY <1>3
  <2>2. b \notin ToSet(Base)
    BY <1>2, <2>1 DEF OneSource
  <2>3. PICK t \in K : b \in ToSet(OpAt(j, t).ins)
    BY <1>6, <2>2
  <2>4. t = s
    BY <1>2, <1>3, <2>1, <2>3 DEF OneSource
  <2> QED BY <2>1, <2>3, <2>4
<1>11. PICK s \in out : /\ b \in ToSet(OpAt(j, s).del)
                        /\ \/ s < 0
                           \/ ~Rebase(j, OpAt(j, s).pos, OpAt(j, s).pos, s + 1).ok
  BY <1>1, <1>7, <1>8, <1>9, <1>10 DEF Shown
<1>12. ~(s < 0)
  BY <1>3, <1>11
<1> QED BY <1>11, <1>12 DEF j, out

\* A place is there when no op has followed.
LEMMA PlacedAtFirst ==
  ASSUME NEW k, Numbered(k), TurnedRound(k), NEW pos \in Nat
  PROVE  Rebase(k, pos, pos, Len(k)).ok
<1>1. Len(k) \in Nat /\ Len(k) \in 0 .. Len(k) /\ Len(k) - Len(k) = 0
  BY DEF Numbered
<1>2. PICK F : /\ Walked(F, k, Start(pos, pos), Len(k))
               /\ Rebase(k, pos, pos, Len(k)) = Landing(F[Len(k) - Len(k)])
  BY <1>1, WalkRuns
<1>3. F[0] = Start(pos, pos)
  BY <1>2 DEF Walked
<1>4. Landing(Start(pos, pos)).ok
  BY DEF Landing, Start, PointAt
<1> QED BY <1>1, <1>2, <1>3, <1>4

\* A place that is lost was lost to one op: up to it, the place was there.
LEMMA LostToOne ==
  ASSUME HInv, Placing, NEW s \in Seqs(journal), NEW pos \in Nat,
         ~Rebase(journal, pos, pos, s + 1).ok
  PROVE  \E t \in (s + 1) .. (Len(journal) - 1) :
            /\ Rebase(SubSeq(journal, 1, t), pos, pos, s + 1).ok
            /\ ~Rebase(SubSeq(journal, 1, t + 1), pos, pos, s + 1).ok
<1> DEFINE j == journal
           n == Len(j)
           Found(t) == Rebase(SubSeq(j, 1, t), pos, pos, s + 1).ok
<1>1. Numbered(j) /\ n \in Nat /\ j \in Seq(Ops)
  BY JournalSound
<1>2. s \in Nat /\ s + 1 \in 0 .. n /\ s + 1 <= n
  BY <1>1 DEF Seqs
<1>3. Found(s + 1)
  <2> DEFINE k == SubSeq(j, 1, s + 1)
  <2>1. Before(k, j, s + 1) /\ TurnedRound(k)
    BY <1>2, PrefixInside
  <2>2. Numbered(k) /\ Len(k) = s + 1
    BY <2>1 DEF Before
  <2> HIDE DEF k
  <2>3. Rebase(k, pos, pos, Len(k)).ok
    BY <2>1, <2>2, PlacedAtFirst
  <2> QED BY <2>2, <2>3 DEF k
<1>4. ~Found(n)
  <2>1. SubSeq(j, 1, n) = j
    BY <1>1
  <2> QED BY <2>1
<1> SUFFICES ASSUME \A t \in (s + 1) .. (n - 1) : Found(t) => Found(t + 1) PROVE FALSE
  OBVIOUS
<1> HIDE DEF Found, n
<1> DEFINE S == {m \in Nat : s + 1 + m <= n => Found(s + 1 + m)}
<1>5. 0 \in S
  BY <1>2, <1>3
<1>6. ASSUME NEW m \in S PROVE m + 1 \in S
  <2>1. m \in Nat /\ (s + 1 + m <= n => Found(s + 1 + m)) /\ s + 1 + (m + 1) = s + 1 + m + 1
    BY <1>2
  <2> SUFFICES ASSUME s + 1 + m + 1 <= n PROVE Found(s + 1 + m + 1)
    BY <2>1
  <2>2. s + 1 + m \in (s + 1) .. (n - 1) /\ s + 1 + m <= n
    BY <1>1, <1>2, <2>1
  <2> QED BY <2>1, <2>2
<1>7. \A m \in Nat : m \in S
  <2> HIDE DEF S
  <2> QED BY <1>5, <1>6, Inductive
<1>8. n - (s + 1) \in Nat /\ s + 1 + (n - (s + 1)) = n
  BY <1>1, <1>2
<1>9. n - (s + 1) \in S
  BY <1>7, <1>8
<1>10. Found(n)
  BY <1>2, <1>8, <1>9
<1> QED BY <1>4, <1>10

\* A composition misses owed text only where the place of the edit that deleted it is lost,
\* whatever was undone, cleared or reverted before.
THEOREM MissedTextLostItsPlace ==
  ASSUME "paste" \notin Moves
  PROVE  Spec => [](RecordsWhatItRemoves /\ ReversedOnce => TextIsMissedOnlyUnplaced)
<1>1. PInv /\ Placing /\ OnceEach(journal) =>
        (RecordsWhatItRemoves /\ ReversedOnce => TextIsMissedOnlyUnplaced)
  BY OwedOrUnplaced
<1> QED BY <1>1, OnceAlways, PTL

\* Every op since the oldest edit that policy p leaves out is an edit in effect.
StraightSince(p) ==
    \A s \in Excluded(p) : \A t \in Seqs(journal) : t > s => t \in LiveEdits(journal)

\* A composition shows all the text it owes but where later edits removed both sides of it,
\* while nothing since the oldest edit it leaves out was undone.
THEOREM AgreedTextStays ==
  ASSUME "paste" \notin Moves
  PROVE  Spec => [](RecordsWhatItRemoves /\ ReversedOnce /\ (\A p \in Policies : StraightSince(p))
                      => AgreedTextIsKept)
<1>1. PInv /\ Placing /\ OnceEach(journal) =>
        (RecordsWhatItRemoves /\ ReversedOnce /\ (\A p \in Policies : StraightSince(p)) => AgreedTextIsKept)
  <2> SUFFICES ASSUME PInv, Placing, OnceEach(journal), RecordsWhatItRemoves, ReversedOnce,
                      NEW p \in Policies, StraightSince(p),
                      NEW b \in Owed(p), b \notin ToSet(Comp(p))
               PROVE  \E s \in LiveEdits(journal) :
                         b \in ToSet(OpAt(journal, s).del) /\ SurroundingsGone(OpAt(journal, s))
    BY DEF AgreedTextIsKept
  <2>1. HInv /\ Numbered(journal) /\ Len(journal) \in Nat /\ Seqs(journal) = 0 .. (Len(journal) - 1)
    BY JournalSound DEF PInv, Seqs
  <2>2. PICK s \in Excluded(p) :
           /\ b \in ToSet(OpAt(journal, s).del)
           /\ ~Rebase(journal, OpAt(journal, s).pos, OpAt(journal, s).pos, s + 1).ok
    BY OwedOrUnplaced DEF TextIsMissedOnlyUnplaced
  <2> DEFINE o == OpAt(journal, s)
  <2>3. s \in LiveEdits(journal) /\ s \in Seqs(journal)
    BY DEF Excluded, LiveEdits
  <2>4. o.seq = s /\ o.pos \in Nat
    BY <2>1, <2>3, OpShape DEF Numbered
  <2>5. ~Rebase(journal, o.pos, o.pos, s + 1).ok
    BY <2>2
  <2> HIDE DEF o
  <2>6. PICK t \in (s + 1) .. (Len(journal) - 1) :
           /\ Rebase(SubSeq(journal, 1, t), o.pos, o.pos, s + 1).ok
           /\ ~Rebase(SubSeq(journal, 1, t + 1), o.pos, o.pos, s + 1).ok
    BY <2>1, <2>3, <2>4, <2>5, LostToOne
  <2>7. t > s /\ t \in Seqs(journal)
    BY <2>1, <2>3, <2>6
  <2>8. t \in LiveEdits(journal)
    BY <2>7 DEF StraightSince
  <2>9. SurroundingsGone(o)
    BY <2>4, <2>6, <2>7, <2>8 DEF SurroundingsGone
  <2> QED BY <2>2, <2>3, <2>9 DEF o
<1> QED BY <1>1, OnceAlways, PTL

LEMMA NothingUndone ==
  ASSUME HInv, Placing, EditsRecord, \A s \in Seqs(journal) : IsEdit(journal, s)
  PROVE  RecordsWhatItRemoves /\ ReversedOnce /\ \A p \in Policies : StraightSince(p)
<1>1. /\ Ordered(journal) /\ journal \in Seq(Ops) /\ Version = Len(journal) /\ Len(journal) \in Nat
      /\ Seqs(journal) = 0 .. (Len(journal) - 1)
  BY JournalSound DEF Seqs
<1>2. \A s \in Seqs(journal) : Reversers(journal, s) = {}
  BY DEF Reversers, IsEdit
<1>3. RecordsWhatItRemoves
  <2>1. 0 \in 0 .. Len(journal)
    BY <1>1
  <2>2. \A s \in Seqs(journal) : Records(s) <=> RecordsRemoved(journal, s)
    BY <2>1, RecordsAre
  <2>3. \A s \in Seqs(journal) : Records(s)
    BY <2>2 DEF EditsRecord
  <2> QED BY <1>1, <2>3 DEF RecordsWhatItRemoves, RecordsSince
<1>4. ReversedOnce
  <2>1. \A s \in Seqs(journal) : LiveReversers(journal, InEffect(journal), s) \subseteq Reversers(journal, s)
    BY DEF LiveReversers, Reversers
  <2> QED BY <1>2, <2>1 DEF ReversedOnce
<1>5. \A t \in Seqs(journal) : t \in LiveEdits(journal)
  <2>1. /\ InEffect(journal) = [s \in Seqs(journal) |-> s \in LiveOps(journal)]
        /\ \A s \in Seqs(journal) : s \in LiveOps(journal) <=> Reversers(journal, s) \cap LiveOps(journal) = {}
    BY <1>1, LivenessIs, Zenon
  <2>2. \A s \in Seqs(journal) : s \in LiveOps(journal)
    BY <1>2, <2>1
  <2> QED BY <2>1, <2>2 DEF LiveEdits, IsEdit
<1> QED BY <1>3, <1>4, <1>5 DEF StraightSince

\* As long as nothing was undone, cleared or reverted, compositions are exact: text that is
\* excluded is gone and text that is owed is kept.
THEOREM CompositionsAreExact ==
  ASSUME "paste" \notin Moves
  PROVE  Spec => []((\A s \in Seqs(journal) : IsEdit(journal, s))
                      => ExcludedTextIsGone /\ AgreedTextIsKept)
<1>1. HInv /\ Placing /\ EditsRecord /\ (\A s \in Seqs(journal) : IsEdit(journal, s)) =>
        RecordsWhatItRemoves /\ ReversedOnce /\ \A p \in Policies : StraightSince(p)
  BY NothingUndone
<1> QED BY <1>1, RecordsAlways, PlacingAlways, ExcludedTextStaysGone, AgreedTextStays, PTL

-----------------------------------------------------------------------------
(* What is refused as stale.                                               *)

\* An edit inserts bytes that the text it is applied to does not hold.
Fresh(j) ==
    \A s \in Seqs(j) : IsEdit(j, s) =>
        \A b \in ToSet(OpAt(j, s).ins) : b \notin ToSet(ReplayTo(Base, j, s))

LEMMA WritingFresh ==
  ASSUME PInv, Fresh(journal), WritesSome
  PROVE  Fresh(journal')
<1>1. PICK a \in Writers, pos \in Nat, n \in Nat, text \in Texts \cup {<<>>}, join \in Nat :
          Writes(a, pos, n, text, join)
  BY DEF WritesSome
<1> DEFINE ins == Appended(a, text)
           del == SubSeq(doc, pos + 1, pos + n)
           o == Edit(a, pos, del, ins)
           T == Stored(store)
<1>2. /\ pos + n <= Len(doc) /\ Commit(o, join)
      /\ store' = [store EXCEPT ![a] = @ + Len(text)]
  BY <1>1 DEF Writes
<1>3. /\ HInv /\ IInv /\ Text /\ doc \in Seq(Bytes) /\ Len(doc) \in Nat /\ journal \in Seq(Ops)
      /\ store \in [Writers -> Nat] /\ Numbered(journal) /\ doc \in Seq(T)
      /\ doc = ReplayTo(Base, journal, Len(journal))
  BY TextShape DEF PInv, HInv, DataTyped, Text, InStores, Version
<1>4. \A b \in ToSet(ins) : b \notin T
  BY <1>2, <1>3, AppendedNew
<1>5. \A b \in ToSet(ins) : b \notin ToSet(doc)
  BY <1>3, <1>4 DEF ToSet
<1>6. del \in Seq(Bytes) /\ Len(del) = n
  BY <1>2, <1>3, TakenShape
<1>7. ins \in Seq(Bytes)
  BY <1>3, AppendedTyped
<1> HIDE DEF ins, del, T
<1>8. Fits(o) /\ o.kind = "edit" /\ o.ins = ins
  BY <1>2, <1>3, <1>6, <1>7, EditFits DEF Edit
<1> HIDE DEF o
<1>9. PICK op \in Ops : /\ Longer(journal', journal, op) /\ journal' = Append(journal, op)
                        /\ op.ins = ins
  <2>1. PICK op \in Ops : /\ Longer(journal', journal, op) /\ journal' = Append(journal, op)
                          /\ op.ins = o.ins
    BY <1>2, <1>3, <1>8, CommitAppends, Zenon
  <2> QED BY <1>8, <2>1
<1>10. /\ Seqs(journal') = Seqs(journal) \cup {Len(journal)}
       /\ \A s \in Seqs(journal) : OpAt(journal', s) = OpAt(journal, s)
       /\ OpAt(journal', Len(journal)) = op
  BY <1>9 DEF Longer
<1>11. \A s \in Seqs(journal) \cup {Len(journal)} :
          ReplayTo(Base, journal', s) = ReplayTo(Base, journal, s)
  BY <1>3, <1>9, DocsBefore
<1>12. \A s \in Seqs(journal) : IsEdit(journal', s) => IsEdit(journal, s)
  BY <1>10 DEF IsEdit
<1> QED BY <1>3, <1>5, <1>9, <1>10, <1>11, <1>12 DEF Fresh

LEMMA ReversingFresh ==
  ASSUME PInv, Fresh(journal), Reverses
  PROVE  Fresh(journal')
<1>1. PICK o : o.kind # "edit" /\ Fits(o) /\ Commit(o, 0)
  BY DEF Reverses
<1>2. HInv /\ 0 \in Nat
  BY DEF PInv
<1>3. PICK op \in Ops : /\ Longer(journal', journal, op) /\ journal' = Append(journal, op)
                        /\ op.kind # "edit"
  BY <1>1, <1>2, CommitAppends
<1>4. /\ Seqs(journal') = Seqs(journal) \cup {Len(journal)}
      /\ \A s \in Seqs(journal) : OpAt(journal', s) = OpAt(journal, s)
      /\ OpAt(journal', Len(journal)) = op
  BY <1>3 DEF Longer
<1>5. \A s \in Seqs(journal) \cup {Len(journal)} :
          ReplayTo(Base, journal', s) = ReplayTo(Base, journal, s)
  BY <1>2, <1>3, DocsBefore
<1>6. ~IsEdit(journal', Len(journal))
  BY <1>3, <1>4 DEF IsEdit
<1>7. \A s \in Seqs(journal) : IsEdit(journal', s) => IsEdit(journal, s)
  BY <1>4 DEF IsEdit
<1> QED BY <1>4, <1>5, <1>6, <1>7 DEF Fresh

LEMMA FreshAlways ==
  ASSUME "paste" \notin Moves
  PROVE  Spec => []Fresh(journal)
<1>1. Init => Fresh(journal)
  BY DEF Init, Fresh, Seqs
<1>2. PInv /\ Fresh(journal) /\ [Next]_vars => Fresh(journal)'
  <2> SUFFICES ASSUME PInv, Fresh(journal), [Next]_vars PROVE Fresh(journal')
    BY DEF Fresh, Base
  <2>1. UNCHANGED <<doc, journal, store>> \/ WritesSome \/ Reverses
    <3>1. \A h \in Humans : ~Paste(h)
      BY DEF Paste, Typist, Ready, Free
    <3> QED BY <3>1, StepShape DEF PInv
  <2>2. CASE UNCHANGED <<doc, journal, store>>
    BY <2>2
  <2> QED BY <2>1, <2>2, WritingFresh, ReversingFresh
<1>3. Spec => []PInv
  BY WrittenOnceAlways
<1> QED BY <1>1, <1>2, <1>3, PTL DEF Spec

\* An edit leaves no byte there twice, and takes out what it deletes.
LEMMA EditOnce ==
  ASSUME NEW d \in Seq(Bytes), NoTwice(d), NEW o \in Ops, o.pos + DelLen(o) <= Len(d),
         SubSeq(d, o.pos + 1, o.pos + DelLen(o)) = o.del,
         NoTwice(o.ins), \A b \in ToSet(o.ins) : b \notin ToSet(d)
  PROVE  /\ Apply(d, o) \in Seq(Bytes) /\ NoTwice(Apply(d, o))
         /\ \A b \in ToSet(o.del) : b \notin ToSet(Apply(d, o))
<1> DEFINE e == Apply(d, o)
<1>1. o.ins \in Seq(Bytes) /\ o.del \in Seq(Bytes) /\ o.pos \in Nat /\ DelLen(o) \in Nat
  BY DEF Ops, DelLen
<1>2. e \in Seq(Bytes)
  BY <1>1, SpliceTyped DEF Apply
<1> HIDE DEF e
<1>3. ASSUME NEW b
      PROVE  /\ Copies(b, e) = Copies(b, d) + Copies(b, o.ins) - Copies(b, o.del)
             /\ Copies(b, d) \in {0, 1} /\ Copies(b, o.ins) \in {0, 1}
             /\ Copies(b, o.ins) = 1 => Copies(b, d) = 0
             /\ Copies(b, o.del) \in Nat /\ Copies(b, e) \in Nat
  <2>1. Copies(b, e) = Copies(b, d) + Copies(b, o.ins) - Copies(b, o.del)
    BY CopiesApply DEF e
  <2>2. Copies(b, d) = (IF b \in ToSet(d) THEN 1 ELSE 0)
    BY CopiesOne
  <2>3. Copies(b, o.ins) = (IF b \in ToSet(o.ins) THEN 1 ELSE 0)
    BY <1>1, CopiesOne
  <2>4. Copies(b, o.del) \in Nat /\ Copies(b, e) \in Nat
    BY <1>1, <1>2, CopiesType
  <2> QED BY <2>1, <2>2, <2>3, <2>4
<1>4. \A b \in Bytes : Copies(b, e) \in {0, 1}
  BY <1>3
<1>5. NoTwice(e)
  BY <1>2, <1>4, OnceCounted
<1>6. ASSUME NEW b \in ToSet(o.del) PROVE b \notin ToSet(e)
  <2>1. Copies(b, o.del) # 0
    BY <1>1, <1>6, CopiesNone
  <2>2. Copies(b, e) = 0
    BY <1>3, <2>1
  <2> QED BY <1>2, <2>2, CopiesNone
<1> QED BY <1>2, <1>5, <1>6 DEF e

\* Op number s met the range that read d0 from lo to hi, where it stood then.
Met(j, d, s, lo, hi, d0) ==
    LET o == OpAt(j, s)
    IN  \E r : /\ Covers(r, ReplayTo(d, j, s), lo, hi, d0)
               /\ o.pos + DelLen(o) > r.lo /\ o.pos < r.hi

\* A range is lost over edits only to one of them that met it.
LEMMA LostToMet ==
  ASSUME NEW j, Numbered(j), TurnedRound(j), Ordered(j), NEW d \in Seq(Bytes), StaysInside(d, j),
         NEW base \in 0 .. Len(j), \A s \in base .. (Len(j) - 1) : IsEdit(j, s),
         NEW lo \in Nat, NEW hi \in Nat, lo < hi, hi <= Len(ReplayTo(d, j, base)),
         ~Rebase(j, lo, hi, base).ok
  PROVE  \E s \in base .. (Len(j) - 1) :
            s \in LiveEdits(j) /\ Met(j, d, s, lo, hi, ReplayTo(d, j, base))
<1> DEFINE m == Len(j) - base
           live == InEffect(j)
           d0 == ReplayTo(d, j, base)
           D(i) == ReplayTo(d, j, base + i)
<1>1. /\ j \in Seq(Ops) /\ Len(j) \in Nat /\ base \in Nat /\ m \in Nat /\ base + m = Len(j)
      /\ base + 0 = base
  BY DEF Numbered
<1>2. PICK F : Walked(F, j, Start(lo, hi), base) /\ Rebase(j, lo, hi, base) = Landing(F[m])
  BY WalkRuns
<1>3. \A i \in 0 .. m : F[i] \in Walks /\ (F[i].bad = Whole => Intact(F[i], D(i), lo, hi, d0))
  BY <1>2, EditsIntact
<1> HIDE DEF D, d0
<1>4. F[m].bad # Whole
  <2> SUFFICES ASSUME F[m].bad = Whole PROVE FALSE
    OBVIOUS
  <2>1. m \in 0 .. m
    BY <1>1
  <2>2. Intact(F[m], D(m), lo, hi, d0)
    BY <1>3, <2>1
  <2>3. ~F[m].lo.held /\ ~F[m].hi.held
    BY <2>2 DEF Intact
  <2>4. Landing(F[m]).ok
    BY <2>3 DEF Landing
  <2> QED BY <1>2, <2>4
<1>5. F[0].bad = Whole
  <2>1. F[0] = Start(lo, hi)
    BY <1>2 DEF Walked
  <2> QED BY <2>1 DEF Start
<1>6. \E i \in 0 .. (m - 1) : F[i].bad = Whole /\ F[i + 1].bad # Whole
  <2> SUFFICES ASSUME \A i \in 0 .. (m - 1) : F[i].bad = Whole => F[i + 1].bad = Whole PROVE FALSE
    OBVIOUS
  <2> DEFINE S == {i \in Nat : i <= m => F[i].bad = Whole}
  <2>1. 0 \in S
    BY <1>5
  <2>2. ASSUME NEW i \in S PROVE i + 1 \in S
    <3> SUFFICES ASSUME i + 1 <= m PROVE F[i + 1].bad = Whole
      OBVIOUS
    <3>1. i \in 0 .. (m - 1) /\ i <= m
      BY <1>1
    <3> QED BY <2>2, <3>1
  <2>3. \A i \in Nat : i \in S
    <3> HIDE DEF S
    <3> QED BY <2>1, <2>2, Inductive
  <2>4. m \in S
    BY <1>1, <2>3
  <2> QED BY <1>1, <1>4, <2>4
<1>7. PICK i \in 0 .. (m - 1) : F[i].bad = Whole /\ F[i + 1].bad # Whole
  BY <1>6
<1> DEFINE s == base + i
           o == OpAt(j, s)
           w == F[i]
<1>8. /\ s \in base .. (Len(j) - 1) /\ i + 1 \in 1 .. m /\ i \in 0 .. m /\ s \in Seqs(j)
      /\ (i + 1) - 1 = i /\ base + (i + 1) - 1 = s
  BY <1>1 DEF Seqs
<1>9. F[i + 1] = Carried(j, live, w, o)
  <2>1. F[i + 1] = Carried(j, live, F[(i + 1) - 1], OpAt(j, base + (i + 1) - 1))
    BY <1>2, <1>8, Zenon DEF Walked
  <2> QED BY <1>8, <2>1
<1>10. w \in Walks /\ Intact(w, D(i), lo, hi, d0)
  BY <1>3, <1>7, <1>8
<1>11. Damages(live, o, w.lo, w.hi)
  <2> SUFFICES ASSUME ~Damages(live, o, w.lo, w.hi) PROVE FALSE
    OBVIOUS
  <2> DEFINE a == Carry(j, live, w.lo, o, TRUE)
             b == Carry(j, live, w.hi, o, ~w.lo.held /\ ~w.hi.held /\ w.lo.at = w.hi.at)
  <2>1. Carried(j, live, w, o) = [w EXCEPT !.lo = a, !.hi = b]
    BY <1>7 DEF Carried
  <2>2. w = [lo |-> w.lo, hi |-> w.hi, bad |-> w.bad]
    BY <1>10 DEF Walks
  <2> HIDE DEF a, b, w
  <2>3. [w EXCEPT !.lo = a, !.hi = b].bad = w.bad
    BY <2>2
  <2> QED BY <1>7, <1>9, <2>1, <2>3 DEF w
<1>12. s \in LiveEdits(j)
  <2>1. o.seq = s
    BY <1>8, OpShape DEF Numbered
  <2> QED BY <1>8, <1>11, <2>1 DEF Damages, LiveEdits
<1>13. Met(j, d, s, lo, hi, d0)
  <2> DEFINE r == [lo |-> w.lo.at, hi |-> w.hi.at]
  <2>1. w.lo.at \in Nat /\ w.hi.at \in Nat
    BY <1>10 DEF Walks, Points
  <2>2. Covers(r, D(i), lo, hi, d0)
    <3> HIDE DEF w
    <3> QED BY <1>10, <2>1 DEF Covers, Intact
  <2>3. o.pos + DelLen(o) > r.lo /\ o.pos < r.hi
    <3> HIDE DEF w, o
    <3> QED BY <1>11 DEF Damages
  <2> HIDE DEF r, o
  <2> QED BY <2>2, <2>3 DEF Met, D, o
<1> QED BY <1>8, <1>12, <1>13 DEF d0

\* An edit that deletes some of a run, or writes into it, breaks it.
LEMMA MeetingBreaks ==
  ASSUME NEW d \in Seq(Bytes), NoTwice(d), NEW o \in Ops, o.pos + DelLen(o) <= Len(d),
         SubSeq(d, o.pos + 1, o.pos + DelLen(o)) = o.del,
         NoTwice(o.ins), \A b \in ToSet(o.ins) : b \notin ToSet(d),
         DelLen(o) + InsLen(o) > 0,
         NEW lo \in Nat, NEW hi \in Nat, lo < hi, hi <= Len(d),
         o.pos + DelLen(o) > lo, o.pos < hi
  PROVE  ~StandsIn(Apply(d, o), SubSeq(d, lo + 1, hi))
<1> DEFINE e == Apply(d, o)
           u == SubSeq(d, lo + 1, hi)
           n == hi - lo
           pos == o.pos
           m == DelLen(o)
           l == InsLen(o)
<1>1. /\ pos \in Nat /\ m \in Nat /\ l \in Nat /\ o.ins \in Seq(Bytes) /\ o.del \in Seq(Bytes)
      /\ Len(o.ins) = l /\ Len(o.del) = m /\ Len(d) \in Nat /\ n \in Nat
  BY DEF Ops, DelLen, InsLen
<1>2. e \in Seq(Bytes) /\ NoTwice(e) /\ \A b \in ToSet(o.del) : b \notin ToSet(e)
  BY EditOnce
<1>3. u \in Seq(Bytes) /\ Len(u) = n /\ \A x \in 1 .. n : u[x] = d[lo + x]
  OBVIOUS
<1>4. /\ Len(e) = Len(d) + l - m
      /\ \A i \in 1 .. pos : e[i] = d[i]
      /\ \A i \in (pos + m + 1) .. Len(d) : e[i + l - m] = d[i]
  <2>1. e = Splice(d, pos, m, o.ins)
    BY DEF Apply
  <2>2. pos + m <= Len(d)
    OBVIOUS
  <2> HIDE DEF e, pos, m, l
  <2>3. Spliced(e, d, pos, m, o.ins)
    BY <1>1, <2>1, <2>2, SpliceAt
  <2> QED BY <1>1, <2>3 DEF Spliced
<1>5. /\ pos + m <= Len(d) /\ pos + m > lo /\ pos < hi /\ m + l > 0 /\ SubSeq(d, pos + 1, pos + m) = o.del
  OBVIOUS
<1> SUFFICES ASSUME StandsIn(e, u) PROVE FALSE
  OBVIOUS
<1> HIDE DEF e, u
<1>6. PICK k \in 0 .. (Len(e) - n) : \A x \in 1 .. n : e[k + x] = d[lo + x]
  <2>1. PICK k \in 0 .. (Len(e) - Len(u)) : SubSeq(e, k + 1, k + Len(u)) = u
    BY DEF StandsIn
  <2>2. k \in 0 .. (Len(e) - n) /\ SubSeq(e, k + 1, k + n) = u
    BY <1>3, <2>1
  <2> DEFINE z == k + n
             y == SubSeq(e, k + 1, z)
  <2>3. k \in Nat /\ z \in Nat /\ z <= Len(e) /\ z - k = n
    BY <1>1, <1>2, <2>2
  <2> HIDE DEF n, z
  <2>4. \A x \in 1 .. n : y[x] = e[k + x]
    BY <1>1, <1>2, <2>3
  <2>5. y = u
    BY <2>2 DEF z
  <2> HIDE DEF y
  <2>6. \A x \in 1 .. n : e[k + x] = d[lo + x]
    BY <1>3, <2>4, <2>5
  <2> QED BY <2>2, <2>6 DEF n
<1>7. /\ k \in Nat /\ \A x \in 1 .. n : k + x \in 1 .. Len(e)
      /\ DOMAIN e = 1 .. Len(e) /\ Len(e) \in Nat
  BY <1>1, <1>2
<1> HIDE DEF pos, m, l
<1>8. CASE m > 0
  <2> DEFINE q == (IF lo <= pos THEN pos ELSE lo) + 1
  <2>1. q \in (lo + 1) .. hi /\ q \in (pos + 1) .. (pos + m)
    BY <1>1, <1>5, <1>8
  <2> HIDE DEF q
  <2>2. q - pos \in 1 .. m /\ pos + (q - pos) = q
    BY <1>1, <2>1
  <2>3. o.del[q - pos] = d[q]
    BY <1>1, <1>5, <2>2
  <2>4. d[q] \in ToSet(o.del)
    BY <1>1, <2>2, <2>3 DEF ToSet
  <2>5. q - lo \in 1 .. n /\ lo + (q - lo) = q
    BY <1>1, <2>1
  <2>6. e[k + (q - lo)] = d[q]
    BY <1>6, <2>5
  <2>7. d[q] \in ToSet(e)
    BY <1>7, <2>5, <2>6 DEF ToSet
  <2> QED BY <1>2, <2>4, <2>7
<1>9. CASE m = 0
  <2> DEFINE x == pos - lo
  <2>1. /\ x \in 1 .. n /\ x + 1 \in 1 .. n /\ lo + x = pos /\ lo + (x + 1) = pos + 1
        /\ pos \in 1 .. pos /\ pos + 1 \in (pos + m + 1) .. Len(d)
        /\ pos + 1 + l - m = pos + 1 + l /\ Len(e) = Len(d) + l
    BY <1>1, <1>4, <1>5, <1>9
  <2>2. e[k + x] = d[pos] /\ e[k + (x + 1)] = d[pos + 1]
    BY <1>6, <2>1
  <2>3. e[pos] = d[pos] /\ e[pos + 1 + l] = d[pos + 1]
    BY <1>4, <2>1
  <2>4. /\ k + x \in 1 .. Len(e) /\ k + (x + 1) \in 1 .. Len(e)
        /\ pos \in 1 .. Len(e) /\ pos + 1 + l \in 1 .. Len(e)
    BY <1>1, <1>7, <2>1
  <2> HIDE DEF x
  <2>5. k + x = pos /\ k + (x + 1) = pos + 1 + l
    BY <1>2, <2>2, <2>3, <2>4 DEF NoTwice
  <2>6. l > 0 /\ x \in Nat
    BY <1>1, <1>5, <1>9, <2>1
  <2> QED BY <1>1, <1>7, <2>5, <2>6
<1> QED BY <1>1, <1>8, <1>9

\* While nothing is undone, text that shows no byte twice goes on showing none twice.
LEMMA OnceOverEdits ==
  ASSUME HInv, Placing, OnceEach(journal), Fresh(journal), EditsRecord,
         NEW v \in 0 .. Len(journal), \A s \in v .. (Len(journal) - 1) : IsEdit(journal, s),
         NoTwice(DocAt(v)), NEW s \in v .. (Len(journal) - 1)
  PROVE  NoTwice(DocAt(s))
<1> DEFINE j == journal
           D(i) == ReplayTo(Base, j, i)
<1>1. /\ Numbered(j) /\ StaysInside(Base, j) /\ j \in Seq(Ops) /\ Len(j) \in Nat
      /\ Base \in Seq(Bytes) /\ v \in Nat /\ v <= Len(j)
  BY JournalSound
<1> DEFINE S == {i \in Nat : v + i <= Len(j) => NoTwice(D(v + i))}
<1>2. 0 \in S
  BY <1>1 DEF DocAt
<1>3. ASSUME NEW i \in S PROVE i + 1 \in S
  <2> SUFFICES ASSUME v + (i + 1) <= Len(j) PROVE NoTwice(D(v + (i + 1)))
    OBVIOUS
  <2> DEFINE q == v + i
             o == OpAt(j, q)
  <2>1. q \in v .. (Len(j) - 1) /\ q \in Seqs(j) /\ v + (i + 1) = q + 1 /\ v + i <= Len(j)
    BY <1>1 DEF Seqs
  <2>2. NoTwice(D(q))
    BY <1>3, <2>1
  <2>3. IsEdit(j, q)
    BY <2>1
  <2> HIDE DEF j, q
  <2>4. D(q + 1) = Apply(D(q), o) /\ D(q) \in Seq(Bytes)
    BY <1>1, <2>1, ReplayOp, ReplayNext
  <2>5. o \in Ops /\ o.pos + DelLen(o) <= Len(D(q))
    BY <1>1, <2>1, OpShape DEF StaysInside
  <2>6. SubSeq(D(q), o.pos + 1, o.pos + DelLen(o)) = o.del
    BY <2>1, <2>3 DEF EditsRecord, RecordsRemoved, j
  <2>7. NoTwice(o.ins) /\ \A b \in ToSet(o.ins) : b \notin ToSet(D(q))
    BY <2>1, <2>3 DEF OnceEach, Fresh, j
  <2> HIDE DEF o, D
  <2>8. NoTwice(Apply(D(q), o))
    BY <2>2, <2>4, <2>5, <2>6, <2>7, EditOnce
  <2> QED BY <2>1, <2>4, <2>8
<1>4. \A i \in Nat : i \in S
  <2> HIDE DEF S
  <2> QED BY <1>2, <1>3, Inductive
<1>5. s - v \in Nat /\ v + (s - v) = s /\ s <= Len(j)
  BY <1>1
<1>6. s - v \in S
  BY <1>4, <1>5
<1> QED BY <1>5, <1>6 DEF DocAt

\* A range is refused as stale only over an edit in effect that broke it, wherever the text
\* it held may stand today.  The text read shows no byte twice, and no undo or redo has
\* followed: which part of it an edit broke would otherwise not be told by its bytes.
THEOREM StaleHunksMetAnEdit ==
  ASSUME "paste" \notin Moves
  PROVE  Spec => []((\A s \in work.base .. (Version - 1) : IsEdit(journal, s)) /\ NoTwice(DocAt(work.base))
                      => StaleIsReal)
<1>1. ASSUME HInv, Placing, OnceEach(journal), Fresh(journal), EditsRecord,
             \A s \in work.base .. (Version - 1) : IsEdit(journal, s), NoTwice(DocAt(work.base)),
             work.on = "diff", EveryOpChanges,
             NEW r \in Ranges(Len(DocAt(work.base))), r[1] < r[2], Removes(r).why = "stale"
      PROVE  \E s \in LiveEdits(journal) : s >= work.base /\ ~StandsIn(DocAt(s + 1), Read(r))
  <2> DEFINE base == work.base
             d0 == DocAt(base)
             n == Len(d0)
             lo == r[1]
             hi == r[2]
  <2>1. /\ Numbered(journal) /\ TurnedRound(journal) /\ Ordered(journal)
        /\ StaysInside(Base, journal) /\ Version = Len(journal) /\ Len(journal) \in Nat
        /\ journal \in Seq(Ops) /\ Base \in Seq(Bytes)
    BY <1>1, JournalSound
  <2>2. base \in 0 .. Len(journal) /\ base \in Nat
    BY <1>1, TextShape DEF HInv, Text, IInv, Log, Version
  <2>3. d0 \in Seq(Bytes) /\ n \in Nat /\ d0 = ReplayTo(Base, journal, base)
    BY <2>1, <2>2, ReplayNext DEF DocAt
  <2>4. lo \in Nat /\ hi \in Nat /\ lo < hi /\ hi <= n
    <3> HIDE DEF n
    <3>1. r \in (0 .. n) \X (0 .. n)
      BY <1>1 DEF Ranges, n
    <3> QED BY <1>1, <2>3, <3>1
  <2>5. ~Rebase(journal, lo, hi, base).ok
    <3> DEFINE at == Rebase(journal, lo, hi, base)
               over == ProposedLeases(journal, doc, decided, at.lo, at.hi - at.lo)
               p == Removes(r)
    <3>1. p = Placed(work.by, at, over, <<>>)
      BY DEF Removes, Placement
    <3> HIDE DEF at, over, p
    <3>2. p.why = Verdict(work.by, at, over, <<>>)
      BY <3>1 DEF Placed
    <3>3. Verdict(work.by, at, over, <<>>) = "stale"
      BY <1>1, <3>2 DEF p
    <3> SUFFICES ASSUME at.ok PROVE FALSE
      BY DEF at
    <3>4. Verdict(work.by, at, over, <<>>) \in {"same", "rejected", "mixed", "lands"}
      BY DEF Verdict
    <3> QED BY <3>3, <3>4
  <2>6. Read(r) = SubSeq(d0, lo + 1, hi)
    BY DEF Read
  <2>7. \A s \in base .. (Len(journal) - 1) : IsEdit(journal, s)
    BY <1>1, <2>1
  <2> HIDE DEF lo, hi
  <2>8. PICK s \in base .. (Len(journal) - 1) :
           s \in LiveEdits(journal) /\ Met(journal, Base, s, lo, hi, ReplayTo(Base, journal, base))
    <3> HIDE DEF base
    <3> QED BY <2>1, <2>2, <2>3, <2>4, <2>5, <2>7, LostToMet
  <2> DEFINE o == OpAt(journal, s)
             d == DocAt(s)
  <2>9. /\ s \in Seqs(journal) /\ IsEdit(journal, s) /\ s >= base /\ s \in Nat
    BY <2>1, <2>2, <2>7, <2>8 DEF Seqs
  <2>10. d \in Seq(Bytes) /\ DocAt(s + 1) = Apply(d, o)
    BY <2>1, <2>9, ReplayOp, ReplayNext DEF DocAt
  <2>11. PICK t : Covers(t, d, lo, hi, d0) /\ o.pos + DelLen(o) > t.lo /\ o.pos < t.hi
    BY <2>3, <2>8 DEF Met, DocAt
  <2>12. NoTwice(d)
    BY <1>1, <2>2, <2>7, <2>8, OnceOverEdits
  <2>13. o \in Ops /\ o.pos + DelLen(o) <= Len(d) /\ SubSeq(d, o.pos + 1, o.pos + DelLen(o)) = o.del
    BY <1>1, <2>1, <2>9, OpShape DEF StaysInside, EditsRecord, RecordsRemoved, DocAt
  <2>14. NoTwice(o.ins) /\ \A b \in ToSet(o.ins) : b \notin ToSet(d)
    BY <1>1, <2>9 DEF OnceEach, Fresh, DocAt
  <2>15. DelLen(o) + InsLen(o) > 0
    BY <1>1, <2>9 DEF EveryOpChanges
  <2> HIDE DEF d, o, d0, base
  <2>16. SameText(t, d, lo, hi, d0)
    BY <2>3, <2>4, <2>10, <2>11, SameRun DEF d0, n
  <2>17. t.lo \in Nat /\ t.hi \in Nat /\ t.lo < t.hi /\ t.hi <= Len(d)
    BY <2>11 DEF Covers
  <2>18. ASSUME NEW a, a = t.lo, NEW b, b = t.hi
         PROVE  ~StandsIn(Apply(d, o), SubSeq(d, a + 1, b))
    BY <2>10, <2>11, <2>12, <2>13, <2>14, <2>15, <2>17, <2>18, MeetingBreaks
  <2>19. ~StandsIn(Apply(d, o), SubSeq(d, t.lo + 1, t.hi))
    BY <2>18
  <2>20. ~StandsIn(DocAt(s + 1), Read(r))
    BY <2>6, <2>10, <2>16, <2>19 DEF SameText
  <2> QED BY <2>8, <2>9, <2>20 DEF base
<1>2. HInv /\ Placing /\ OnceEach(journal) /\ Fresh(journal) /\ EditsRecord =>
        ((\A s \in work.base .. (Version - 1) : IsEdit(journal, s)) /\ NoTwice(DocAt(work.base))
           => StaleIsReal)
  BY <1>1 DEF StaleIsReal
<1> QED BY <1>2, OnceAlways, FreshAlways, RecordsAlways, PTL
=============================================================================
