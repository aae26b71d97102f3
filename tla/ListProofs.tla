----------------------------- MODULE ListProofs ------------------------------
(***************************************************************************)
(* Facts about numbers, sets and lists that the other proofs cite.  The    *)
(* provers cannot instantiate an induction theorem whose parameter is an   *)
(* operator, so induction is stated over a set of numbers.                 *)
(***************************************************************************)
EXTENDS Lists, Integers, SequencesExt, FiniteSetsExt, Functions, FiniteSetTheorems, WellFoundedInduction, TLAPS

-----------------------------------------------------------------------------
(* Numbers.                                                                *)

LEMMA LessIsWellFounded == IsWellFoundedOn({p \in Nat \X Nat : p[1] < p[2]}, Nat)
  BY NatLessThanWellFounded DEF OpToRel

\* A set of naturals that is not empty has a least element.
LEMMA Least ==
  ASSUME NEW T \in SUBSET Nat, T # {}
  PROVE  \E m \in T : \A n \in T : m <= n
<1> DEFINE R == {p \in Nat \X Nat : p[1] < p[2]}
<1>1. IsWellFoundedOn(R, Nat)
  BY LessIsWellFounded
<1> HIDE DEF R
<1>2. PICK x \in T : \A y \in T : ~ (<<y, x>> \in R)
  BY <1>1, WFMin
<1>3. \A y \in T : ~(y < x)
  BY <1>2 DEF R
<1> QED BY <1>3

LEMMA MinOfNaturals ==
  ASSUME NEW T \in SUBSET Nat, T # {}
  PROVE  Min(T) \in T /\ \A n \in T : Min(T) <= n
  BY Least, Zenon DEF Min

LEMMA MinOfTwo ==
  ASSUME NEW a \in Int, NEW b \in Int
  PROVE  Min({a, b}) = IF a <= b THEN a ELSE b
<1> DEFINE m == IF a <= b THEN a ELSE b
<1>1. m \in {a, b} /\ (\A y \in {a, b} : m <= y) /\ m \in Int
  OBVIOUS
<1>2. \A x \in {a, b} : (\A y \in {a, b} : x <= y) => x = m
  OBVIOUS
<1> HIDE DEF m
<1> QED BY <1>1, <1>2 DEF Min, m

LEMMA MaxOfTwo ==
  ASSUME NEW a \in Int, NEW b \in Int
  PROVE  Max({a, b}) = IF a >= b THEN a ELSE b
<1> DEFINE m == IF a >= b THEN a ELSE b
<1>1. m \in {a, b} /\ (\A y \in {a, b} : m >= y) /\ m \in Int
  OBVIOUS
<1>2. \A x \in {a, b} : (\A y \in {a, b} : x >= y) => x = m
  OBVIOUS
<1> HIDE DEF m
<1> QED BY <1>1, <1>2 DEF Max, m

LEMMA MaxOfInterval ==
  ASSUME NEW lo \in Nat, NEW hi \in Nat, NEW T \in SUBSET (lo .. hi), T # {}
  PROVE  Max(T) \in T /\ \A n \in T : n <= Max(T)
<1> DEFINE U == {hi - n : n \in T}
<1>0. \A n \in T : n \in Nat /\ hi - n \in Nat
  OBVIOUS
<1>1. U \in SUBSET Nat /\ U # {}
  BY <1>0
<1>2. PICK u \in U : \A v \in U : u <= v
  BY <1>1, Least, Zenon
<1>3. PICK x \in T : u = hi - x
  OBVIOUS
<1>4. ASSUME NEW n \in T PROVE n <= x
  <2>1. hi - x <= hi - n
    BY <1>2, <1>3
  <2> QED BY <1>0, <2>1, SMT
<1>5. \A n \in T : x >= n
  BY <1>0, <1>4, SMT
<1>6. \A y \in T : (\A n \in T : y >= n) => \A n \in T : n <= y
  BY <1>0, SMT
<1> QED BY <1>5, <1>6, Zenon DEF Max

\* Induction, over the numbers of which something holds.
LEMMA Inductive ==
  ASSUME NEW S, 0 \in S, \A n \in Nat : n \in S => n + 1 \in S
  PROVE  \A n \in Nat : n \in S
<1> SUFFICES ASSUME ~(\A n \in Nat : n \in S) PROVE FALSE
  OBVIOUS
<1> DEFINE T == {n \in Nat : n \notin S}
<1>1. PICK m \in T : \A n \in T : m <= n
  BY Least, Zenon
<1>2. m # 0
  OBVIOUS
<1>3. m - 1 \in Nat /\ m - 1 \notin T
  BY <1>1, <1>2
<1> QED BY <1>3

-----------------------------------------------------------------------------
(* Filter.                                                                 *)

\* F[i] is what the first i elements of s contribute.
Selects(F, s, T, R, n) ==
    /\ F \in [0 .. n -> Seq(R)] /\ F[0] = <<>>
    /\ \A i \in 1 .. n : F[i] = IF s[i] \in T THEN Append(F[i - 1], s[i]) ELSE F[i - 1]

LEMMA SelectionExists ==
  ASSUME NEW R, NEW s \in Seq(R), NEW T
  PROVE  \E F : Selects(F, s, T, R, Len(s))
<1> DEFINE S == {n \in Nat : n <= Len(s) => \E F : Selects(F, s, T, R, n)}
<1>1. 0 \in S
  <2> DEFINE F == [i \in {0} |-> <<>>]
  <2>1. F \in [0 .. 0 -> Seq(R)] /\ F[0] = <<>>
    BY SMT
  <2>2. Selects(F, s, T, R, 0)
    BY <2>1, SMT DEF Selects
  <2> QED BY <2>2
<1>2. ASSUME NEW n \in Nat, n \in S PROVE n + 1 \in S
  <2> SUFFICES ASSUME n + 1 <= Len(s) PROVE \E F : Selects(F, s, T, R, n + 1)
    OBVIOUS
  <2>1. n <= Len(s) /\ n + 1 \in 1 .. Len(s) /\ s[n + 1] \in R
    BY SMT
  <2>2. PICK F : Selects(F, s, T, R, n)
    BY <1>2, <2>1
  <2> DEFINE more == IF s[n + 1] \in T THEN Append(F[n], s[n + 1]) ELSE F[n]
             G == [i \in 0 .. n + 1 |-> IF i = n + 1 THEN more ELSE F[i]]
  <2>3. F[n] \in Seq(R)
    BY <2>2, SMT DEF Selects
  <2>4. more \in Seq(R)
    BY <2>1, <2>3, SMT
  <2> HIDE DEF more
  <2>5. G \in [0 .. n + 1 -> Seq(R)] /\ G[0] = <<>> /\ G[n + 1] = more
        /\ \A i \in 0 .. n : G[i] = F[i]
    BY <2>2, <2>4, SMT DEF Selects
  <2> HIDE DEF G
  <2>6. ASSUME NEW i \in 1 .. n + 1
        PROVE  G[i] = IF s[i] \in T THEN Append(G[i - 1], s[i]) ELSE G[i - 1]
    <3>1. CASE i = n + 1
      BY <2>5, <3>1, SMT DEF more
    <3>2. CASE i \in 1 .. n
      <4>1. i \in 0 .. n /\ i - 1 \in 0 .. n
        BY <3>2, SMT
      <4>2. F[i] = IF s[i] \in T THEN Append(F[i - 1], s[i]) ELSE F[i - 1]
        BY <2>2, <3>2, Zenon DEF Selects
      <4>3. G[i] = F[i] /\ G[i - 1] = F[i - 1]
        BY <2>5, <4>1, Zenon
      <4> QED BY <4>2, <4>3, Zenon
    <3> QED BY <3>1, <3>2, SMT
  <2>7. Selects(G, s, T, R, n + 1)
    BY <2>5, <2>6 DEF Selects
  <2> QED BY <2>7
<1> HIDE DEF S
<1>3. \A n \in Nat : n \in S
  BY <1>1, <1>2, Inductive
<1>4. Len(s) \in S
  BY <1>3, SMT
<1> QED BY <1>4, SMT DEF S

\* Filter is that selection.
LEMMA FilterSelects ==
  ASSUME NEW R, NEW s \in Seq(R), NEW T
  PROVE  \E F : Selects(F, s, T, R, Len(s)) /\ Filter(s, T) = F[Len(s)]
<1> DEFINE Body(F) == [i \in 0 .. Len(s) |->
                 IF i = 0 THEN <<>>
                 ELSE IF s[i] \in T THEN Append(F[i - 1], s[i]) ELSE F[i - 1]]
           K == CHOOSE F : F = Body(F)
<1>1. PICK F : Selects(F, s, T, R, Len(s))
  BY SelectionExists
<1>2. F = Body(F)
  <2>1. F = [i \in 0 .. Len(s) |-> F[i]]
    BY <1>1, Zenon DEF Selects
  <2>2. \A i \in 0 .. Len(s) : i # 0 => i \in 1 .. Len(s)
    BY SMT
  <2>3. \A i \in 0 .. Len(s) :
           F[i] = IF i = 0 THEN <<>>
                  ELSE IF s[i] \in T THEN Append(F[i - 1], s[i]) ELSE F[i - 1]
    BY <1>1, <2>2, Zenon DEF Selects
  <2> QED BY <2>1, <2>3, Zenon
<1>3. K = Body(K)
  BY <1>2, Zenon
<1>4. Filter(s, T) = K[Len(s)]
  BY DEF Filter
<1> HIDE DEF K
<1>5. K[0] = <<>> /\ \A i \in 1 .. Len(s) :
          K[i] = IF s[i] \in T THEN Append(K[i - 1], s[i]) ELSE K[i - 1]
  <2>1. \A i \in 0 .. Len(s) :
            K[i] = IF i = 0 THEN <<>>
                   ELSE IF s[i] \in T THEN Append(K[i - 1], s[i]) ELSE K[i - 1]
    BY <1>3, Zenon
  <2>2. 0 \in 0 .. Len(s) /\ \A i \in 1 .. Len(s) : i \in 0 .. Len(s) /\ i # 0
    BY SMT
  <2> QED BY <2>1, <2>2, Zenon
<1> DEFINE S == {n \in Nat : n <= Len(s) => K[n] = F[n]}
<1>6. 0 \in S
  BY <1>1, <1>5 DEF Selects
<1>7. ASSUME NEW n \in Nat, n \in S PROVE n + 1 \in S
  <2> SUFFICES ASSUME n + 1 <= Len(s) PROVE K[n + 1] = F[n + 1]
    OBVIOUS
  <2>1. n + 1 \in 1 .. Len(s) /\ K[n] = F[n] /\ (n + 1) - 1 = n
    BY <1>7, SMT
  <2> QED BY <1>1, <1>5, <2>1, Zenon DEF Selects
<1>8. \A n \in Nat : n \in S
  <2> HIDE DEF S
  <2> QED BY <1>6, <1>7, Inductive
<1>9. K[Len(s)] = F[Len(s)]
  BY <1>8, SMT
<1> QED BY <1>1, <1>4, <1>9

\* A selection has the elements of the list that were asked for, and no other.
LEMMA FilterElements ==
  ASSUME NEW R, NEW s \in Seq(R), NEW T
  PROVE  /\ Filter(s, T) \in Seq(R)
         /\ Range(Filter(s, T)) = Range(s) \cap T
<1>1. PICK F : Selects(F, s, T, R, Len(s)) /\ Filter(s, T) = F[Len(s)]
  BY FilterSelects
<1> DEFINE S == {n \in Nat : n <= Len(s) => Range(F[n]) = {s[i] : i \in 1 .. n} \cap T}
<1>2. 0 \in S
  <2>1. F[0] = <<>> /\ DOMAIN <<>> = {} /\ 1 .. 0 = {}
    BY <1>1, SMT DEF Selects
  <2> QED BY <2>1 DEF Range
<1>3. ASSUME NEW n \in Nat, n \in S PROVE n + 1 \in S
  <2> SUFFICES ASSUME n + 1 <= Len(s)
               PROVE  Range(F[n + 1]) = {s[i] : i \in 1 .. n + 1} \cap T
    OBVIOUS
  <2>1. Range(F[n]) = {s[i] : i \in 1 .. n} \cap T
    BY <1>3, SMT
  <2>2. F[n] \in Seq(R) /\ n + 1 \in 1 .. Len(s) /\ s[n + 1] \in R
    <3>1. n \in 0 .. Len(s) /\ n + 1 \in 1 .. Len(s) /\ s[n + 1] \in R
      BY SMT
    <3> QED BY <1>1, <3>1, Zenon DEF Selects
  <2>3. F[n + 1] = IF s[n + 1] \in T THEN Append(F[n], s[n + 1]) ELSE F[n]
    BY <1>1, <2>2, SMT DEF Selects
  <2>4. {s[i] : i \in 1 .. n + 1} = {s[i] : i \in 1 .. n} \cup {s[n + 1]}
    <3>1. 1 .. n + 1 = (1 .. n) \cup {n + 1}
      BY SMT
    <3> QED BY <3>1
  <2>5. Range(Append(F[n], s[n + 1])) = Range(F[n]) \cup {s[n + 1]}
    <3> DEFINE a == Append(F[n], s[n + 1])
    <3>1. /\ DOMAIN F[n] = 1 .. Len(F[n])
          /\ DOMAIN a = (1 .. Len(F[n])) \cup {Len(F[n]) + 1}
          /\ a[Len(F[n]) + 1] = s[n + 1]
          /\ \A i \in 1 .. Len(F[n]) : a[i] = F[n][i]
      BY <2>2, SMT
    <3> DEFINE u == F[n]
               k == Len(u)
               z == s[n + 1]
    <3>2. \A y : y \in Range(a) <=> \E i \in DOMAIN a : y = a[i]
      BY Zenon DEF Range
    <3>3. \A y : y \in Range(u) <=> \E i \in DOMAIN u : y = u[i]
      BY Zenon DEF Range
    <3> HIDE DEF a, u, z, k
    <3>4. /\ DOMAIN u = 1 .. k /\ DOMAIN a = (1 .. k) \cup {k + 1} /\ a[k + 1] = z
          /\ \A i \in 1 .. k : a[i] = u[i]
      BY <3>1, Zenon DEF u, k, z
    <3>5. ASSUME NEW y \in Range(a) PROVE y \in Range(u) \cup {z}
      BY <3>2, <3>3, <3>4, Zenon
    <3>6. ASSUME NEW y \in Range(u) \cup {z} PROVE y \in Range(a)
      BY <3>2, <3>3, <3>4, Zenon
    <3>7. Range(a) = Range(u) \cup {z}
      BY <3>5, <3>6, Zenon
    <3> QED BY <3>7, Zenon DEF a, u, z
  <2> QED BY <2>1, <2>3, <2>4, <2>5, Zenon
<1>4. \A n \in Nat : n \in S
  <2> HIDE DEF S
  <2> QED BY <1>2, <1>3, Inductive
<1>5. Range(F[Len(s)]) = {s[i] : i \in 1 .. Len(s)} \cap T
  BY <1>4, SMT
<1>6. Range(s) = {s[i] : i \in 1 .. Len(s)}
  BY SMT DEF Range
<1>7. F[Len(s)] \in Seq(R)
  BY <1>1, SMT DEF Selects
<1> QED BY <1>1, <1>5, <1>6, <1>7

-----------------------------------------------------------------------------
(* The elements of a list.                                                 *)

LEMMA RangeOfAppend ==
  ASSUME NEW R, NEW s \in Seq(R), NEW e \in R
  PROVE  Append(s, e) \in Seq(R) /\ Range(Append(s, e)) = Range(s) \cup {e}
<1> DEFINE a == Append(s, e)
<1>1. /\ a \in Seq(R) /\ DOMAIN s = 1 .. Len(s)
      /\ DOMAIN a = (1 .. Len(s)) \cup {Len(s) + 1}
      /\ a[Len(s) + 1] = e
      /\ \A i \in 1 .. Len(s) : a[i] = s[i]
  BY SMT
<1> HIDE DEF a
<1> QED BY <1>1, Zenon DEF Range, a

LEMMA RangeOfConcat ==
  ASSUME NEW R, NEW s \in Seq(R), NEW t \in Seq(R)
  PROVE  s \o t \in Seq(R) /\ Range(s \o t) \subseteq Range(s) \cup Range(t)
<1> DEFINE a == s \o t
<1>1. /\ a \in Seq(R) /\ DOMAIN s = 1 .. Len(s) /\ DOMAIN t = 1 .. Len(t)
      /\ DOMAIN a = 1 .. Len(s) + Len(t)
      /\ \A i \in 1 .. Len(s) + Len(t) : a[i] = IF i <= Len(s) THEN s[i] ELSE t[i - Len(s)]
      /\ Len(s) \in Nat /\ Len(t) \in Nat
  BY SMT
<1>2. ASSUME NEW i \in 1 .. Len(s) + Len(t)
      PROVE  i \in 1 .. Len(s) \/ (~(i <= Len(s)) /\ i - Len(s) \in 1 .. Len(t))
  BY <1>1, SMT
<1>3. \A i \in 1 .. Len(s) : i <= Len(s)
  BY <1>1, SMT
<1> HIDE DEF a
<1>4. \A i \in DOMAIN a : a[i] \in Range(s) \cup Range(t)
  BY <1>1, <1>2, <1>3, Zenon DEF Range
<1> QED BY <1>1, <1>4, Zenon DEF Range, a

LEMMA RangeOfSubSeq ==
  ASSUME NEW R, NEW s \in Seq(R), NEW m \in Nat \ {0}, NEW n \in Int, n <= Len(s)
  PROVE  /\ SubSeq(s, m, n) \in Seq(R) /\ Range(SubSeq(s, m, n)) \subseteq Range(s)
         /\ Len(SubSeq(s, m, n)) = IF m <= n THEN n - m + 1 ELSE 0
<1> DEFINE a == SubSeq(s, m, n)
<1>1. \A i \in m .. n : s[i] \in R /\ i \in 1 .. Len(s)
  BY SMT
<1>2. CASE m <= n
  <2>1. /\ a \in Seq(R) /\ Len(a) = n - m + 1 /\ DOMAIN a = 1 .. n - m + 1
        /\ \A i \in 1 .. n - m + 1 : a[i] = s[m + i - 1]
    BY <1>1, <1>2, SMT
  <2>2. \A i \in 1 .. n - m + 1 : m + i - 1 \in 1 .. Len(s)
    BY <1>2, SMT
  <2>3. DOMAIN s = 1 .. Len(s)
    BY SMT
  <2> HIDE DEF a
  <2> QED BY <1>2, <2>1, <2>2, <2>3, Zenon DEF Range, a
<1>3. CASE ~(m <= n)
  <2>1. a = <<>>
    BY <1>3, SMT
  <2> HIDE DEF a
  <2>2. a \in Seq(R) /\ Len(a) = 0 /\ DOMAIN a = {}
    BY <2>1, SMT
  <2> QED BY <1>3, <2>2, Zenon DEF Range, a
<1> QED BY <1>2, <1>3

LEMMA RangeIsFinite ==
  ASSUME NEW R, NEW s \in Seq(R)
  PROVE  Range(s) \in SUBSET R /\ IsFiniteSet(Range(s))
<1>1. DOMAIN s = 1 .. Len(s) /\ Len(s) \in Nat /\ \A i \in 1 .. Len(s) : s[i] \in R
  BY SMT
<1>2. IsFiniteSet(1 .. Len(s))
  BY <1>1, FS_Interval, SMT
<1>3. s \in Surjection(1 .. Len(s), Range(s))
  <2>1. s = [i \in 1 .. Len(s) |-> s[i]]
    BY <1>1, SMT
  <2>2. s \in [1 .. Len(s) -> Range(s)]
    BY <1>1, <2>1, Zenon DEF Range
  <2> QED BY <1>1, <2>2, Zenon DEF Surjection, Range
<1> QED BY <1>1, <1>2, <1>3, FS_Surjection, Zenon DEF Range

LEMMA RangeOfEmpty == Range(<<>>) = {}
  BY SMT DEF Range

-----------------------------------------------------------------------------
(* Folds.  FoldLeft is a recursion over the subsets of a list's positions, *)
(* the greatest of which is worked off last, and FoldRight one over those  *)
(* whose least is.                                                         *)

LEMMA TopOfInitial ==
  ASSUME NEW n \in Nat, NEW i \in 1 .. n
  PROVE  /\ Max(1 .. i) = i /\ (1 .. i) \ {i} = 1 .. (i - 1)
         /\ 1 .. i # {} /\ (1 .. i) \in SUBSET (1 .. n)
<1>1. (1 .. i) \in SUBSET (0 .. n) /\ 1 .. i # {} /\ i \in Nat
  BY SMT
<1>2. Max(1 .. i) \in 1 .. i /\ \A k \in 1 .. i : k <= Max(1 .. i)
  <2> HIDE DEF Max
  <2>1. 0 \in Nat
    OBVIOUS
  <2> QED BY <1>1, <2>1, MaxOfInterval, Zenon
<1>3. Max(1 .. i) = i
  <2>1. i \in 1 .. i
    BY SMT
  <2> QED BY <1>1, <1>2, <2>1, SMT
<1> QED BY <1>1, <1>3, SMT

LEMMA TopOfSet ==
  ASSUME NEW n \in Nat, NEW s \in SUBSET (1 .. n), s # {}
  PROVE  Max(s) \in s /\ Max(s) \in 1 .. n /\ s \ {Max(s)} \in SUBSET (1 .. n)
<1>1. s \in SUBSET (0 .. n) /\ 0 \in Nat
  BY SMT
<1>2. Max(s) \in s
  BY <1>1, MaxOfInterval, Zenon
<1> QED BY <1>2

\* A recursion of that kind has a solution if its steps stay in a set.
LeftTable(g, n, X, x0, f) ==
    /\ g \in [SUBSET (1 .. n) -> X]
    /\ \A s \in SUBSET (1 .. n) :
          g[s] = IF s = {} THEN x0 ELSE f[<<g[s \ {Max(s)}], Max(s)>>]

LEMMA FoldLeftTable ==
  ASSUME NEW n \in Nat, NEW X, NEW x0 \in X, NEW f \in [X \X (1 .. n) -> X]
  PROVE  \E g : LeftTable(g, n, X, x0, f)
<1> DEFINE Solves(g, m) ==
              /\ g \in [SUBSET (1 .. m) -> X]
              /\ \A s \in SUBSET (1 .. m) :
                    g[s] = IF s = {} THEN x0 ELSE f[<<g[s \ {Max(s)}], Max(s)>>]
           S == {m \in Nat : m <= n => \E g : Solves(g, m)}
<1>1. 0 \in S
  <2> DEFINE g == [s \in SUBSET (1 .. 0) |-> x0]
  <2>1. SUBSET (1 .. 0) = {{}}
    <3>1. 1 .. 0 = {}
      BY SMT
    <3> QED BY <3>1
  <2>2. Solves(g, 0)
    BY <2>1
  <2> QED BY <2>2
<1>2. ASSUME NEW m \in Nat, m \in S PROVE m + 1 \in S
  <2> HIDE DEF Solves
  <2> SUFFICES ASSUME m + 1 <= n PROVE \E g : Solves(g, m + 1)
    BY SMT
  <2>1. PICK g : Solves(g, m)
    BY <1>2, SMT
  <2> USE DEF Solves
  <2> DEFINE e == m + 1
             h == [s \in SUBSET (1 .. e) |-> IF e \in s THEN f[<<g[s \ {e}], e>>] ELSE g[s]]
  <2>2. e \in Nat /\ e \in 1 .. n /\ e \notin 1 .. m
    BY SMT
  <2>3. \A s \in SUBSET (1 .. e) : s \ {e} \in SUBSET (1 .. m)
                                   /\ (e \notin s => s \in SUBSET (1 .. m))
    <3>1. 1 .. e = (1 .. m) \cup {e}
      BY SMT
    <3> HIDE DEF e
    <3> QED BY <3>1
  <2>4. \A s \in SUBSET (1 .. e) : e \in s => Max(s) = e
    <3> SUFFICES ASSUME NEW s \in SUBSET (1 .. e), e \in s PROVE Max(s) = e
      OBVIOUS
    <3>1. s \in SUBSET (0 .. e) /\ s # {}
      BY SMT
    <3>2. Max(s) \in s /\ \A k \in s : k <= Max(s)
      <4>1. 0 \in Nat
        OBVIOUS
      <4> HIDE DEF e
      <4> QED BY <2>2, <3>1, <4>1, MaxOfInterval, Zenon
    <3>3. Max(s) \in 1 .. e /\ e <= Max(s)
      BY <3>2, Zenon
    <3> HIDE DEF e
    <3> QED BY <2>2, <3>3, SMT
  <2> HIDE DEF e
  <2>5. h \in [SUBSET (1 .. e) -> X]
    BY <2>1, <2>2, <2>3, Zenon
  <2>6. ASSUME NEW s \in SUBSET (1 .. e)
        PROVE  h[s] = IF s = {} THEN x0 ELSE f[<<h[s \ {Max(s)}], Max(s)>>]
    <3>1. CASE e \in s
      <4>1. s \ {e} \in SUBSET (1 .. e) /\ e \notin s \ {e}
        BY <2>3, <3>1
      <4>2. h[s] = f[<<g[s \ {e}], e>>] /\ h[s \ {e}] = g[s \ {e}]
        BY <3>1, <4>1, Zenon
      <4> HIDE DEF h
      <4> QED BY <2>4, <3>1, <4>2, Zenon
    <3>2. CASE e \notin s
      <4>1. s \in SUBSET (1 .. m) /\ s \ {Max(s)} \in SUBSET (1 .. e) /\ e \notin s \ {Max(s)}
        BY <2>3, <3>2, Zenon
      <4>2. h[s] = g[s] /\ h[s \ {Max(s)}] = g[s \ {Max(s)}]
        BY <3>2, <4>1, Zenon
      <4> HIDE DEF h
      <4> QED BY <2>1, <4>1, <4>2, Zenon
    <3> QED BY <3>1, <3>2
  <2> HIDE DEF h
  <2>7. Solves(h, e)
    BY <2>5, <2>6, Zenon
  <2> QED BY <2>7, Zenon DEF e
<1>3. \A m \in Nat : m \in S
  <2> HIDE DEF S
  <2> QED BY <1>1, <1>2, Inductive
<1>4. n \in S
  BY <1>3, Zenon
<1>5. \E g : Solves(g, n)
  <2> HIDE DEF Solves
  <2> QED BY <1>4, SMT
<1> QED BY <1>5, Zenon DEF LeftTable

\* The same for a fold from the right, which is one from the left of the positions
\* counted from the end.
RightTable(g, n, X, x0, f) ==
    /\ g \in [SUBSET (1 .. n) -> X]
    /\ \A s \in SUBSET (1 .. n) :
          g[s] = IF s = {} THEN x0 ELSE f[<<g[s \ {Min(s)}], Min(s)>>]

LEMMA BottomOfSet ==
  ASSUME NEW n \in Nat, NEW s \in SUBSET (1 .. n), s # {}
  PROVE  /\ Min(s) \in s /\ Min(s) \in 1 .. n /\ s \ {Min(s)} \in SUBSET (1 .. n)
         /\ \A i \in s : Min(s) <= i
<1>1. s \in SUBSET Nat
  BY SMT
<1>2. Min(s) \in s /\ \A i \in s : Min(s) <= i
  BY <1>1, MinOfNaturals, Zenon
<1> QED BY <1>2

LEMMA FoldRightTable ==
  ASSUME NEW n \in Nat, NEW X, NEW x0 \in X, NEW f \in [X \X (1 .. n) -> X]
  PROVE  \E g : RightTable(g, n, X, x0, f)
<1> DEFINE Back(s) == {n + 1 - i : i \in s}
           h == [z \in X \X (1 .. n) |-> f[<<z[1], n + 1 - z[2]>>]]
<1>1. \A i \in 1 .. n : n + 1 - i \in 1 .. n /\ n + 1 - (n + 1 - i) = i
  BY SMT
<1>2. h \in [X \X (1 .. n) -> X]
  BY <1>1
<1> HIDE DEF h
<1>3. PICK l : LeftTable(l, n, X, x0, h)
  BY <1>2, FoldLeftTable, Zenon
<1> DEFINE g == [s \in SUBSET (1 .. n) |-> l[Back(s)]]
<1>4. \A s \in SUBSET (1 .. n) : Back(s) \in SUBSET (1 .. n)
  BY <1>1
<1>5. g \in [SUBSET (1 .. n) -> X]
  BY <1>3, <1>4 DEF LeftTable
<1>6. ASSUME NEW s \in SUBSET (1 .. n)
      PROVE  g[s] = IF s = {} THEN x0 ELSE f[<<g[s \ {Min(s)}], Min(s)>>]
  <2>1. CASE s = {}
    <3>1. Back(s) = {} /\ {} \in SUBSET (1 .. n)
      BY <2>1
    <3> QED BY <1>3, <2>1, <3>1 DEF LeftTable
  <2>2. CASE s # {}
    <3> DEFINE b == Back(s)
               m == Min(s)
    <3>1. m \in s /\ m \in 1 .. n /\ s \ {m} \in SUBSET (1 .. n) /\ \A i \in s : m <= i
      BY <2>2, BottomOfSet
    <3> HIDE DEF m
    <3>2. b # {} /\ b \in SUBSET (1 .. n) /\ n + 1 - m \in b
      BY <1>4, <3>1
    <3>3. \A k \in b : k <= n + 1 - m /\ k \in Int
      BY <3>1
    <3>4. Max(b) \in b
      <4> HIDE DEF b
      <4> QED BY <3>2, TopOfSet
    <3>5. Max(b) = n + 1 - m
      <4>1. \A k \in b : k <= Max(b)
        <5>1. b \in SUBSET (0 .. n) /\ 0 \in Nat
          <6> HIDE DEF b
          <6> QED BY <3>2, SMT
        <5> HIDE DEF b
        <5> QED BY <3>2, <5>1, MaxOfInterval, Zenon
      <4>2. Max(b) \in Int /\ Max(b) <= n + 1 - m /\ n + 1 - m <= Max(b)
        <5> HIDE DEF b
        <5> QED BY <3>2, <3>3, <3>4, <4>1
      <4> HIDE DEF b
      <4> QED BY <3>1, <4>2, SMT
    <3>6. b \ {n + 1 - m} = Back(s \ {m})
      <4>1. \A i \in s : n + 1 - i = n + 1 - m => i = m
        BY <3>1
      <4> QED BY <3>1, <4>1
    <3>7. l[b] = h[<<l[Back(s \ {m})], n + 1 - m>>]
      <4> HIDE DEF b, Back
      <4> QED BY <1>3, <3>2, <3>5, <3>6, Zenon DEF LeftTable
    <3>8. l[Back(s \ {m})] \in X /\ n + 1 - m \in 1 .. n /\ n + 1 - (n + 1 - m) = m
      BY <1>1, <1>3, <1>4, <3>1 DEF LeftTable
    <3>9. l[b] = f[<<l[Back(s \ {m})], m>>]
      <4> HIDE DEF b, Back
      <4> QED BY <3>7, <3>8 DEF h
    <3>10. g[s] = l[b] /\ g[s \ {m}] = l[Back(s \ {m})]
      <4> HIDE DEF Back
      <4> QED BY <3>1
    <3> HIDE DEF b, g, Back
    <3> QED BY <2>2, <3>9, <3>10 DEF m
  <2> QED BY <2>1, <2>2
<1> HIDE DEF g
<1>7. RightTable(g, n, X, x0, f)
  BY <1>5, <1>6, Zenon DEF RightTable
<1> QED BY <1>7

-----------------------------------------------------------------------------
(* Sums over sets.  A sum of naturals is the size of a set of pairs, so it *)
(* does not depend on the order in which its terms are added.              *)

Pairs(f, S) == {p \in S \X Nat : p[2] \in 1 .. f[p[1]]}

LEMMA PairsOfOne ==
  ASSUME NEW x, NEW m \in Nat
  PROVE  IsFiniteSet({x} \X (1 .. m)) /\ Cardinality({x} \X (1 .. m)) = m
<1>1. IsFiniteSet({x}) /\ Cardinality({x}) = 1
  BY FS_Singleton
<1>2. IsFiniteSet(1 .. m) /\ Cardinality(1 .. m) = m
  BY FS_Interval
<1> DEFINE A == {x}
           B == 1 .. m
<1> HIDE DEF A, B
<1>3. IsFiniteSet(A \X B) /\ Cardinality(A \X B) = Cardinality(A) * Cardinality(B)
  <2>1. IsFiniteSet(A) /\ IsFiniteSet(B)
    BY <1>1, <1>2, Zenon DEF A, B
  <2> QED BY <2>1, FS_Product, Zenon
<1>4. Cardinality(A) = 1 /\ Cardinality(B) = m
  BY <1>1, <1>2, Zenon DEF A, B
<1>5. IsFiniteSet(A \X B) /\ Cardinality(A \X B) = 1 * m
  BY <1>3, <1>4, Zenon
<1>6. 1 * m = m
  OBVIOUS
<1> QED BY <1>5, <1>6, Zenon DEF A, B

\* A term more or less.
LEMMA PairsWithout ==
  ASSUME NEW f, NEW S, NEW x \in S, f[x] \in Nat, IsFiniteSet(Pairs(f, S \ {x}))
  PROVE  /\ IsFiniteSet(Pairs(f, S))
         /\ Cardinality(Pairs(f, S)) = f[x] + Cardinality(Pairs(f, S \ {x}))
<1> DEFINE A == Pairs(f, S \ {x})
           C == {x} \X (1 .. f[x])
<1>1. Pairs(f, S) = A \cup C
  <2>1. \A p : p \in Pairs(f, S) => p \in A \/ p \in C
    BY DEF Pairs
  <2>2. \A p : p \in A => p \in Pairs(f, S)
    BY DEF Pairs
  <2>3. \A p : p \in C => p \in Pairs(f, S)
    BY DEF Pairs
  <2> QED BY <2>1, <2>2, <2>3, Zenon
<1>2. A \cap C = {}
  BY DEF Pairs
<1>3. IsFiniteSet(A) /\ IsFiniteSet(C) /\ Cardinality(C) = f[x]
  BY PairsOfOne
<1> HIDE DEF A, C
<1>4. /\ IsFiniteSet(A \cup C)
      /\ Cardinality(A \cup C) = Cardinality(A) + Cardinality(C) - Cardinality(A \cap C)
  BY <1>3, FS_Union
<1>5. Cardinality(A \cap C) = 0 /\ Cardinality(A) \in Nat
  BY <1>2, <1>3, FS_EmptySet, FS_CardinalityType
<1> QED BY <1>1, <1>3, <1>4, <1>5 DEF A

\* f gives a natural for each of the numbers below n.
Counts(f, n) == n \in Nat /\ \A x \in 0 .. (n - 1) : f[x] \in Nat

LEMMA PairsFinite ==
  ASSUME NEW f, NEW n, Counts(f, n), NEW S \in SUBSET (0 .. (n - 1))
  PROVE  IsFiniteSet(Pairs(f, S)) /\ Cardinality(Pairs(f, S)) \in Nat
<1> DEFINE below(m) == S \cap (0 .. (m - 1))
           G == {m \in Nat : m <= n => IsFiniteSet(Pairs(f, below(m)))}
<1>1. n \in Nat /\ \A x \in 0 .. (n - 1) : f[x] \in Nat
  BY DEF Counts
<1>2. 0 \in G
  <2>1. below(0) = {}
    OBVIOUS
  <2>2. Pairs(f, {}) = {}
    BY DEF Pairs
  <2> QED BY <2>1, <2>2, FS_EmptySet
<1>3. ASSUME NEW m \in Nat, m \in G PROVE m + 1 \in G
  <2> SUFFICES ASSUME m + 1 <= n PROVE IsFiniteSet(Pairs(f, below(m + 1)))
    OBVIOUS
  <2> DEFINE T == below(m + 1)
  <2>1. IsFiniteSet(Pairs(f, below(m)))
    BY <1>1, <1>3
  <2>2. CASE m \in S
    <3>1. m \in T /\ T \ {m} = below(m) /\ f[m] \in Nat
      BY <1>1, <2>2
    <3> HIDE DEF T, below
    <3>2. IsFiniteSet(Pairs(f, T))
      BY <2>1, <3>1, PairsWithout
    <3> QED BY <3>2 DEF T
  <2>3. CASE m \notin S
    <3>1. T = below(m)
      BY <1>1, <2>3
    <3> QED BY <2>1, <3>1
  <2> QED BY <2>2, <2>3
<1>4. n \in G
  <2> HIDE DEF G
  <2> QED BY <1>1, <1>2, <1>3, Inductive
<1>5. below(n) = S
  OBVIOUS
<1>6. IsFiniteSet(Pairs(f, S))
  <2>1. n <= n
    BY <1>1
  <2>2. IsFiniteSet(Pairs(f, below(n)))
    <3> HIDE DEF below
    <3> QED BY <1>4, <2>1
  <2> QED BY <1>5, <2>2
<1> QED BY <1>6, FS_CardinalityType

\* Two sums whose terms agree.
LEMMA PairsSame ==
  ASSUME NEW f, NEW g, NEW S, \A x \in S : f[x] = g[x]
  PROVE  Pairs(f, S) = Pairs(g, S)
  BY DEF Pairs

\* The recursion that MapThenSumSet is defined by.
SumStep(f, g, s) ==
    IF s = {} THEN 0 ELSE f[CHOOSE x \in s : TRUE] + g[s \ {CHOOSE x \in s : TRUE}]

\* The sizes satisfy it,
LEMMA SizesStep ==
  ASSUME NEW f, NEW n, Counts(f, n), NEW S \in SUBSET (0 .. (n - 1))
  PROVE  LET h == [s \in SUBSET S |-> Cardinality(Pairs(f, s))]
         IN  \A s \in SUBSET S : h[s] = SumStep(f, h, s)
<1> DEFINE h == [s \in SUBSET S |-> Cardinality(Pairs(f, s))]
           pick(s) == CHOOSE x \in s : TRUE
<1>1. \A x \in S : f[x] \in Nat
  BY DEF Counts
<1>2. ASSUME NEW s \in SUBSET S PROVE IsFiniteSet(Pairs(f, s))
  BY PairsFinite
<1>3. ASSUME NEW s \in SUBSET S, s # {}
      PROVE  Cardinality(Pairs(f, s)) = f[pick(s)] + Cardinality(Pairs(f, s \ {pick(s)}))
  <2>1. pick(s) \in s
    BY <1>3
  <2> HIDE DEF pick
  <2>2. pick(s) \in S
    BY <2>1
  <2>3. s \ {pick(s)} \in SUBSET S /\ f[pick(s)] \in Nat
    BY <1>1, <2>2
  <2>4. IsFiniteSet(Pairs(f, s \ {pick(s)}))
    BY <1>2, <2>3
  <2> QED BY <2>1, <2>3, <2>4, PairsWithout
<1>4. Pairs(f, {}) = {} /\ Cardinality({}) = 0
  BY FS_EmptySet DEF Pairs
<1>5. ASSUME NEW s \in SUBSET S PROVE h[s] = SumStep(f, h, s)
  <2>1. CASE s = {}
    BY <1>4, <2>1 DEF SumStep
  <2>2. CASE s # {}
    <3>1. h[s] = f[pick(s)] + h[s \ {pick(s)}]
      <4>1. s \ {pick(s)} \in SUBSET S
        OBVIOUS
      <4> HIDE DEF pick
      <4> QED BY <1>3, <2>2, <4>1
    <3> HIDE DEF h
    <3> QED BY <2>2, <3>1 DEF SumStep
  <2> QED BY <2>1, <2>2
<1> QED BY <1>5

\* and so does nothing else.
LEMMA SumIsSize ==
  ASSUME NEW f, NEW n, Counts(f, n), NEW S \in SUBSET (0 .. (n - 1)),
         NEW K, \A s \in SUBSET S : K[s] = SumStep(f, K, s)
  PROVE  K[S] = Cardinality(Pairs(f, S))
<1> DEFINE h == [s \in SUBSET S |-> Cardinality(Pairs(f, s))]
           pick(s) == CHOOSE x \in s : TRUE
<1>1. ASSUME NEW s \in SUBSET S PROVE h[s] = SumStep(f, h, s)
  BY SizesStep
<1> HIDE DEF h
<1> DEFINE G == {m \in Nat : \A s \in SUBSET S : IsFiniteSet(s) /\ Cardinality(s) = m => K[s] = h[s]}
<1>2. 0 \in G
  <2> SUFFICES ASSUME NEW s \in SUBSET S, IsFiniteSet(s), Cardinality(s) = 0 PROVE K[s] = h[s]
    OBVIOUS
  <2>1. s = {}
    BY FS_EmptySet
  <2>2. K[s] = SumStep(f, K, s) /\ h[s] = SumStep(f, h, s)
    BY <1>1
  <2> QED BY <2>1, <2>2 DEF SumStep
<1>3. ASSUME NEW m \in Nat, m \in G PROVE m + 1 \in G
  <2>0. m + 1 \in Nat
    OBVIOUS
  <2> DEFINE w == m + 1
  <2> HIDE DEF w
  <2> SUFFICES ASSUME NEW s \in SUBSET S, IsFiniteSet(s), Cardinality(s) = w PROVE K[s] = h[s]
    BY <2>0, Zenon DEF w
  <2>1. s # {}
    BY FS_EmptySet DEF w
  <2> DEFINE x == pick(s)
             t == s \ {x}
  <2>2. x \in s /\ t \in SUBSET S
    <3>1. x \in s
      BY <2>1
    <3> HIDE DEF x
    <3> QED BY <3>1
  <2>3. IsFiniteSet(t) /\ Cardinality(t) = m
    <3> HIDE DEF x
    <3>1. IsFiniteSet(s \ {x}) /\ Cardinality(s \ {x}) = Cardinality(s) - 1
      BY <2>2, FS_RemoveElement
    <3> QED BY <3>1 DEF w
  <2>4. K[t] = h[t]
    <3> HIDE DEF t
    <3> QED BY <1>3, <2>2, <2>3
  <2>5. K[s] = SumStep(f, K, s) /\ h[s] = SumStep(f, h, s)
    BY <1>1
  <2> QED BY <2>1, <2>4, <2>5 DEF SumStep
<1>4. \A m \in Nat : m \in G
  <2> HIDE DEF G
  <2> QED BY <1>2, <1>3, Inductive
<1>5. IsFiniteSet(S) /\ Cardinality(S) \in Nat
  <2>1. n - 1 \in Int
    BY DEF Counts
  <2>2. IsFiniteSet(0 .. (n - 1))
    BY <2>1, FS_Interval
  <2>3. IsFiniteSet(S)
    BY <2>2, FS_Subset
  <2> QED BY <2>3, FS_CardinalityType
<1>6. Cardinality(S) \in G
  BY <1>4, <1>5
<1>7. K[S] = h[S]
  BY <1>5, <1>6
<1> QED BY <1>7 DEF h
=============================================================================
