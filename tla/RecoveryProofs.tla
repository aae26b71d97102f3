--------------------------- MODULE RecoveryProofs ---------------------------
(***************************************************************************)
(* Proofs about the op log for every bound: what the log of an open buffer *)
(* restores is a state that buffer has been in, and no restart brings an   *)
(* agent's text back agreed that nobody agreed to.                         *)
(***************************************************************************)
EXTENDS RecoveryProperties, ListProofs

-----------------------------------------------------------------------------
(* Sequences.                                                              *)

LEMMA PrefixShape ==
  ASSUME NEW R, NEW s \in Seq(R), NEW n \in 0 .. Len(s)
  PROVE  /\ SubSeq(s, 1, n) \in Seq(R) /\ Len(SubSeq(s, 1, n)) = n
         /\ DOMAIN SubSeq(s, 1, n) = 1 .. n
         /\ \A i \in 1 .. n : SubSeq(s, 1, n)[i] = s[i] /\ s[i] \in R
  BY SMT

LEMMA ConcatElements ==
  ASSUME NEW R, NEW s \in Seq(R), NEW t \in Seq(R)
  PROVE  /\ s \o t \in Seq(R) /\ Len(s \o t) = Len(s) + Len(t)
         /\ \A i \in 1 .. Len(s) : (s \o t)[i] = s[i]
         /\ \A i \in 1 .. Len(t) : (s \o t)[Len(s) + i] = t[i]
  BY SMT

LEMMA SameSequence ==
  ASSUME NEW R, NEW s \in Seq(R), NEW t \in Seq(R), Len(s) = Len(t),
         \A i \in 1 .. Len(s) : s[i] = t[i]
  PROVE  s = t
  BY SMT

LEMMA AppendElements ==
  ASSUME NEW R, NEW s \in Seq(R), NEW e \in R
  PROVE  /\ Append(s, e) \in Seq(R) /\ Len(Append(s, e)) = Len(s) + 1
         /\ \A i \in 1 .. Len(s) : Append(s, e)[i] = s[i]
         /\ Append(s, e)[Len(s) + 1] = e
  BY SMT

LEMMA PrefixGrows ==
  ASSUME NEW R, NEW m \in Seq(R), NEW n \in Nat, n < Len(m)
  PROVE  /\ SubSeq(m, 1, n) \in Seq(R) /\ m[n + 1] \in R
         /\ SubSeq(m, 1, n + 1) = Append(SubSeq(m, 1, n), m[n + 1])
  BY SMT

LEMMA ConcatGrows ==
  ASSUME NEW R, NEW s \in Seq(R), NEW t \in Seq(R), NEW e \in R
  PROVE  s \o Append(t, e) = Append(s \o t, e)
  BY SMT

LEMMA NextPrefix ==
  ASSUME NEW R, NEW l \in Seq(R), NEW m \in Seq(R), NEW n \in Nat, n < Len(m)
  PROVE  /\ l \o SubSeq(m, 1, n) \in Seq(R)
         /\ m[n + 1] \in R
         /\ l \o SubSeq(m, 1, n + 1) = Append(l \o SubSeq(m, 1, n), m[n + 1])
<1>1. /\ SubSeq(m, 1, n) \in Seq(R) /\ m[n + 1] \in R
      /\ SubSeq(m, 1, n + 1) = Append(SubSeq(m, 1, n), m[n + 1])
  BY PrefixGrows
<1>2. l \o SubSeq(m, 1, n) \in Seq(R)
  BY <1>1, ConcatElements
<1>3. l \o Append(SubSeq(m, 1, n), m[n + 1]) = Append(l \o SubSeq(m, 1, n), m[n + 1])
  BY <1>1, ConcatGrows
<1> QED BY <1>1, <1>2, <1>3

-----------------------------------------------------------------------------
(* Records, and what one of them does to the frontier and to the session.  *)

Records ==
    [k : {"base"}, text : Seq(Nat), hash : Seq(Nat)]
      \cup [k : {"blob"}, by : Authors, start : Nat, marks : Seq(Nat)]
      \cup [k : {"op"}, seq : Nat, by : Authors, at : Nat \ {0}]
      \cup [k : {"dec"}, set : Sets, to : States]
      \cup [k : {"written"}, hash : Seq(Nat), version : Nat]

Built == {s \in Sessions : IsSession(s)}

LEMMA TellTyped ==
  ASSUME NEW t \in Taps, NEW r \in Records
  PROVE  Tell(t, r) \in Taps
<1>1. CASE r.k = "blob"
  <2>1. r \in [k : {"blob"}, by : Authors, start : Nat, marks : Seq(Nat)]
    BY <1>1 DEF Records
  <2>2. r.by \in Authors /\ r.start + Len(r.marks) \in Nat
    BY <2>1
  <2> DEFINE st == [t.store EXCEPT ![r.by] = r.start + Len(r.marks)]
  <2>3. Tell(t, r) = [t EXCEPT !.store = st]
    BY <1>1 DEF Tell
  <2>4. st \in [Authors -> Nat]
    BY <2>2 DEF Taps
  <2> HIDE DEF st
  <2> QED BY <2>3, <2>4 DEF Taps
<1>2. CASE r.k = "op"
  <2>1. r.seq \in Nat
    BY <1>2 DEF Records
  <2> QED BY <1>2, <2>1 DEF Tell, Taps
<1>3. CASE r.k = "dec"
  <2>1. r.to \in States
    BY <1>3 DEF Records
  <2> QED BY <1>3, <2>1 DEF Tell, Taps
<1>4. CASE r.k \notin {"blob", "op", "dec"}
  BY <1>4 DEF Tell
<1> QED BY <1>1, <1>2, <1>3, <1>4

LEMMA FreshBuilt ==
  ASSUME NEW text \in Seq(Nat)
  PROVE  Fresh(text) \in Built /\ Version(Fresh(text)) = 0
<1> DEFINE O == [by : Authors, at : Nat \ {0}]
           st == [a \in Authors |-> <<>>]
           de == [i \in Sets |-> "Accepted"]
<1>1. <<>> \in Seq(O) /\ Len(<<>>) = 0
  OBVIOUS
<1>2. st \in [Authors -> Seq(Nat)] /\ de \in [Sets -> States]
  BY DEF States
<1> HIDE DEF O, st, de
<1>3. [base |-> text, ops |-> <<>>, store |-> st, state |-> de]
        \in [base : Seq(Nat), ops : Seq(O), store : [Authors -> Seq(Nat)], state : [Sets -> States]]
  BY <1>1, <1>2
<1>4. Fresh(text) \in Sessions
  BY <1>3, Zenon DEF Fresh, Sessions, O, st, de
<1>5. Version(Fresh(text)) = 0
  BY <1>1 DEF Fresh, Version
<1> QED BY <1>4, <1>5 DEF Built, IsSession
OpRecords == [by : Authors, at : Nat \ {0}]

\* A session is built from its parts.
LEMMA BuiltParts ==
  ASSUME NEW s \in Built
  PROVE  /\ s \in Sessions /\ s # None /\ IsSession(s)
         /\ s = [base |-> s.base, ops |-> s.ops, store |-> s.store, state |-> s.state]
         /\ s.base \in Seq(Nat) /\ s.ops \in Seq(OpRecords)
         /\ s.store \in [Authors -> Seq(Nat)] /\ s.state \in [Sets -> States]
         /\ Version(s) \in Nat /\ Version(s) = Len(s.ops)
         /\ \A i \in 1 .. Version(s) : /\ s.ops[i] \in OpRecords
                                       /\ s.ops[i].by \in Authors /\ s.ops[i].at \in Nat \ {0}
                                       /\ s.ops[i].at <= Len(s.store[s.ops[i].by])
<1>1. s \in [base : Seq(Nat), ops : Seq(OpRecords), store : [Authors -> Seq(Nat)], state : [Sets -> States]]
  BY DEF Built, Sessions, OpRecords
<1>2. s # None /\ s \in Sessions /\ IsSession(s)
  BY NoneAssumption DEF Built
<1>3. /\ s = [base |-> s.base, ops |-> s.ops, store |-> s.store, state |-> s.state]
      /\ s.base \in Seq(Nat) /\ s.ops \in Seq(OpRecords)
      /\ s.store \in [Authors -> Seq(Nat)] /\ s.state \in [Sets -> States]
  BY <1>1
<1>4. Version(s) = Len(s.ops) /\ Version(s) \in Nat
  BY <1>3 DEF Version
<1>5. \A i \in 1 .. Version(s) : s.ops[i] \in OpRecords
  BY <1>3, <1>4
<1> QED BY <1>2, <1>3, <1>4, <1>5 DEF IsSession, OpRecords

LEMMA PartsBuild ==
  ASSUME NEW base \in Seq(Nat), NEW ops \in Seq(OpRecords), NEW store \in [Authors -> Seq(Nat)],
         NEW state \in [Sets -> States],
         \A i \in 1 .. Len(ops) : ops[i].at <= Len(store[ops[i].by])
  PROVE  [base |-> base, ops |-> ops, store |-> store, state |-> state] \in Built
<1> DEFINE s == [base |-> base, ops |-> ops, store |-> store, state |-> state]
<1>1. s \in [base : Seq(Nat), ops : Seq(OpRecords), store : [Authors -> Seq(Nat)], state : [Sets -> States]]
  OBVIOUS
<1>2. s.ops = ops /\ s.store = store
  OBVIOUS
<1> HIDE DEF s
<1>3. s \in Sessions
  BY <1>1, Zenon DEF Sessions, OpRecords
<1>4. IsSession(s)
  BY <1>2, <1>3 DEF IsSession, Version
<1>5. s \in Built
  BY <1>3, <1>4 DEF Built
<1> QED BY <1>5, Zenon DEF s

\* Storing bytes, recording an op and deciding leave a session one.
LEMMA GrownBuilt ==
  ASSUME NEW s \in Built, NEW a \in Authors, NEW m \in Seq(Nat)
  PROVE  /\ [s EXCEPT !.store[a] = @ \o m] \in Built
         /\ [s EXCEPT !.store[a] = @ \o m]
              = [base |-> s.base, ops |-> s.ops, state |-> s.state,
                 store |-> [s.store EXCEPT ![a] = s.store[a] \o m]]
<1> DEFINE st == [s.store EXCEPT ![a] = s.store[a] \o m]
           q == [base |-> s.base, ops |-> s.ops, store |-> st, state |-> s.state]
<1>1. [s EXCEPT !.store[a] = @ \o m] = [s EXCEPT !.store = st]
  OBVIOUS
<1>2. /\ st \in [Authors -> Seq(Nat)]
      /\ \A b \in Authors : Len(s.store[b]) <= Len(st[b]) /\ Len(s.store[b]) \in Nat /\ Len(st[b]) \in Nat
  <2>1. s.store \in [Authors -> Seq(Nat)]
    BY BuiltParts
  <2>2. s.store[a] \o m \in Seq(Nat) /\ Len(s.store[a] \o m) >= Len(s.store[a])
    BY <2>1
  <2>3. st \in [Authors -> Seq(Nat)]
    BY <2>1, <2>2
  <2> QED BY <2>1, <2>2, <2>3
<1> HIDE DEF st
<1>3. \A i \in 1 .. Len(s.ops) : s.ops[i].at <= Len(st[s.ops[i].by])
  BY <1>2, BuiltParts
<1>4. q \in Built
  BY <1>2, <1>3, BuiltParts, PartsBuild
<1>5. [s EXCEPT !.store = st] = q
  <2>1. s = [base |-> s.base, ops |-> s.ops, store |-> s.store, state |-> s.state]
    BY BuiltParts
  <2> QED BY <2>1, SMT
<1> QED BY <1>1, <1>4, <1>5 DEF st
LEMMA RecordedBuilt ==
  ASSUME NEW s \in Built, NEW a \in Authors, NEW at \in Nat \ {0}, at <= Len(s.store[a])
  PROVE  /\ [s EXCEPT !.ops = Append(@, [by |-> a, at |-> at])] \in Built
         /\ [s EXCEPT !.ops = Append(@, [by |-> a, at |-> at])]
              = [base |-> s.base, store |-> s.store, state |-> s.state,
                 ops |-> Append(s.ops, [by |-> a, at |-> at])]
<1> DEFINE e == [by |-> a, at |-> at]
           o == Append(s.ops, e)
           q == [base |-> s.base, ops |-> o, store |-> s.store, state |-> s.state]
<1>1. e \in OpRecords /\ e.by = a /\ e.at = at
  BY DEF OpRecords
<1> HIDE DEF e
<1>2. /\ o \in Seq(OpRecords) /\ Len(o) = Len(s.ops) + 1 /\ o[Len(s.ops) + 1] = e
      /\ \A i \in 1 .. Len(s.ops) : o[i] = s.ops[i]
  BY <1>1, BuiltParts, AppendElements
<1> HIDE DEF o
<1>3. \A i \in 1 .. Len(o) : o[i].at <= Len(s.store[o[i].by])
  <2> SUFFICES ASSUME NEW i \in 1 .. Len(o) PROVE o[i].at <= Len(s.store[o[i].by])
    OBVIOUS
  <2>1. i \in 1 .. Len(s.ops) \/ i = Len(s.ops) + 1
    BY <1>2, BuiltParts
  <2>2. CASE i \in 1 .. Len(s.ops)
    BY <1>2, <2>2, BuiltParts
  <2>3. CASE i = Len(s.ops) + 1
    BY <1>1, <1>2, <2>3
  <2> QED BY <2>1, <2>2, <2>3
<1>4. q \in Built
  BY <1>2, <1>3, BuiltParts, PartsBuild
<1>5. [s EXCEPT !.ops = o] = q
  <2>1. s = [base |-> s.base, ops |-> s.ops, store |-> s.store, state |-> s.state]
    BY BuiltParts
  <2> QED BY <2>1, SMT
<1> QED BY <1>4, <1>5 DEF o, e

LEMMA DecidedBuilt ==
  ASSUME NEW s \in Built, NEW state \in [Sets -> States]
  PROVE  /\ [s EXCEPT !.state = state] \in Built
         /\ [s EXCEPT !.state = state]
              = [base |-> s.base, ops |-> s.ops, store |-> s.store, state |-> state]
<1>1. [base |-> s.base, ops |-> s.ops, store |-> s.store, state |-> state] \in Built
  BY BuiltParts, PartsBuild
<1>2. [s EXCEPT !.state = state] = [base |-> s.base, ops |-> s.ops, store |-> s.store, state |-> state]
  <2>1. s = [base |-> s.base, ops |-> s.ops, store |-> s.store, state |-> s.state]
    BY BuiltParts
  <2> QED BY <2>1, SMT
<1> QED BY <1>1, <1>2

\* What a record makes of the session built so far.
Grows(s, r)   == [base |-> s.base, ops |-> s.ops, state |-> s.state,
                  store |-> [s.store EXCEPT ![r.by] = s.store[r.by] \o r.marks]]
Extends(s, r) == [base |-> s.base, store |-> s.store, state |-> s.state,
                  ops |-> Append(s.ops, [by |-> r.by, at |-> r.at])]
Decides(s, r) == [base |-> s.base, ops |-> s.ops, store |-> s.store,
                  state |-> [s.state EXCEPT ![r.set] = r.to]]

LEMMA ReplayCases ==
  ASSUME NEW s \in Built, NEW r \in Records
  PROVE  /\ r.k = "base" => Replay(s, r) = Fresh(r.text)
         /\ r.k = "blob" => Replay(s, r) = IF r.start # Len(s.store[r.by]) THEN None ELSE Grows(s, r)
         /\ r.k = "op" => Replay(s, r) = IF r.at > Len(s.store[r.by]) \/ r.seq # Version(s) + 1
                                         THEN None ELSE Extends(s, r)
         /\ r.k = "dec" => Replay(s, r) = Decides(s, r)
         /\ r.k = "written" => Replay(s, r) = s
<1>1. s # None
  BY BuiltParts
<1>2. CASE r.k = "base"
  BY <1>2 DEF Replay
<1>3. CASE r.k = "blob"
  <2>1. r \in [k : {"blob"}, by : Authors, start : Nat, marks : Seq(Nat)]
    BY <1>3 DEF Records
  <2>2. r.by \in Authors /\ r.marks \in Seq(Nat)
    BY <2>1
  <2>3. [s EXCEPT !.store[r.by] = @ \o r.marks] = Grows(s, r)
    BY <2>2, GrownBuilt DEF Grows
  <2>4. Replay(s, r) = IF r.start # Len(s.store[r.by]) THEN None
                       ELSE [s EXCEPT !.store[r.by] = @ \o r.marks]
    BY <1>1, <1>3 DEF Replay
  <2> QED BY <1>3, <2>3, <2>4
<1>4. CASE r.k = "op"
  <2>1. r \in [k : {"op"}, seq : Nat, by : Authors, at : Nat \ {0}]
    BY <1>4 DEF Records
  <2>2. r.by \in Authors /\ r.at \in Nat \ {0}
    BY <2>1
  <2>3. [s EXCEPT !.ops = Append(@, [by |-> r.by, at |-> r.at])] = Extends(s, r)
    <3>1. s = [base |-> s.base, ops |-> s.ops, store |-> s.store, state |-> s.state]
      BY BuiltParts
    <3> DEFINE o == Append(s.ops, [by |-> r.by, at |-> r.at])
    <3>2. [s EXCEPT !.ops = o] = [base |-> s.base, ops |-> o, store |-> s.store, state |-> s.state]
      <4> HIDE DEF o
      <4> QED BY <3>1, SMT
    <3> QED BY <3>2 DEF Extends
  <2>4. Replay(s, r) = IF r.at > Len(s.store[r.by]) \/ r.seq # Version(s) + 1 THEN None
                       ELSE [s EXCEPT !.ops = Append(@, [by |-> r.by, at |-> r.at])]
    BY <1>1, <1>4 DEF Replay
  <2> QED BY <1>4, <2>3, <2>4
<1>5. CASE r.k = "dec"
  <2>1. r \in [k : {"dec"}, set : Sets, to : States]
    BY <1>5 DEF Records
  <2> DEFINE d == [s.state EXCEPT ![r.set] = r.to]
  <2>2. Replay(s, r) = [s EXCEPT !.state = d]
    BY <1>1, <1>5 DEF Replay
  <2>3. d \in [Sets -> States]
    BY <2>1, BuiltParts
  <2> HIDE DEF d
  <2>4. [s EXCEPT !.state = d] = [base |-> s.base, ops |-> s.ops, store |-> s.store, state |-> d]
    BY <2>3, DecidedBuilt
  <2> QED BY <1>5, <2>2, <2>4 DEF d, Decides
<1>6. CASE r.k = "written"
  BY <1>1, <1>6 DEF Replay
<1>7. r.k \in {"base", "blob", "op", "dec", "written"}
  BY DEF Records
<1> QED BY <1>2, <1>3, <1>4, <1>5, <1>6, <1>7

\* Sessions, and nil for a log that does not build.
Results == Built \cup {None}

LEMMA ReplayTyped ==
  ASSUME NEW s \in Results, NEW r \in Records
  PROVE  Replay(s, r) \in Results
<1>1. CASE s = None
  <2>1. CASE r.k = "base"
    <3>1. r \in [k : {"base"}, text : Seq(Nat), hash : Seq(Nat)]
      BY <2>1 DEF Records
    <3>2. Replay(s, r) = Fresh(r.text)
      BY <2>1 DEF Replay
    <3> QED BY <3>1, <3>2, FreshBuilt DEF Results
  <2>2. CASE r.k # "base"
    BY <1>1, <2>2 DEF Replay, Results
  <2> QED BY <2>1, <2>2
<1>2. CASE s \in Built
  <2>1. CASE r.k = "base"
    <3>1. r \in [k : {"base"}, text : Seq(Nat), hash : Seq(Nat)]
      BY <2>1 DEF Records
    <3> QED BY <1>2, <2>1, <3>1, ReplayCases, FreshBuilt DEF Results
  <2>2. CASE r.k = "blob"
    <3>1. r \in [k : {"blob"}, by : Authors, start : Nat, marks : Seq(Nat)]
      BY <2>2 DEF Records
    <3>2. r.by \in Authors /\ r.marks \in Seq(Nat)
      BY <3>1
    <3>3. Grows(s, r) \in Built
      <4> DEFINE g == [s EXCEPT !.store[r.by] = @ \o r.marks]
      <4>1. g \in Built /\ g = Grows(s, r)
        BY <1>2, <3>2, GrownBuilt, Zenon DEF Grows
      <4> QED BY <4>1, Zenon
    <3> QED BY <1>2, <2>2, <3>3, ReplayCases DEF Results
  <2>3. CASE r.k = "op"
    <3>1. r \in [k : {"op"}, seq : Nat, by : Authors, at : Nat \ {0}]
      BY <2>3 DEF Records
    <3>2. CASE r.at > Len(s.store[r.by])
      BY <1>2, <2>3, <3>2, ReplayCases DEF Results
    <3>3. CASE ~(r.at > Len(s.store[r.by]))
      <4>1. r.by \in Authors /\ r.at \in Nat \ {0} /\ r.at <= Len(s.store[r.by])
        BY <1>2, <3>1, <3>3, BuiltParts
      <4>2. Extends(s, r) \in Built
        BY <1>2, <4>1, RecordedBuilt DEF Extends
      <4> QED BY <1>2, <2>3, <4>2, ReplayCases DEF Results
    <3> QED BY <3>2, <3>3
  <2>4. CASE r.k = "dec"
    <3>1. r \in [k : {"dec"}, set : Sets, to : States]
      BY <2>4 DEF Records
    <3> DEFINE d == [s.state EXCEPT ![r.set] = r.to]
    <3>2. d \in [Sets -> States]
      BY <1>2, <3>1, BuiltParts
    <3> HIDE DEF d
    <3>3. [base |-> s.base, ops |-> s.ops, store |-> s.store, state |-> d] \in Built
      BY <1>2, <3>2, DecidedBuilt
    <3>4. Decides(s, r) \in Built
      BY <3>3 DEF d, Decides
    <3> QED BY <1>2, <2>4, <3>4, ReplayCases DEF Results
  <2>5. CASE r.k = "written"
    BY <1>2, <2>5, ReplayCases DEF Results
  <2>6. r.k \in {"base", "blob", "op", "dec", "written"}
    BY DEF Records
  <2> QED BY <2>1, <2>2, <2>3, <2>4, <2>5, <2>6
<1> QED BY <1>1, <1>2 DEF Results

-----------------------------------------------------------------------------
(* Reading a log, record by record.                                        *)

Frontier(t, l) == FoldLeft(Tell, t, l)

\* The frontiers, and the sessions, after each record of l.
Tells(F, t, l) ==
    /\ F \in [0 .. Len(l) -> Taps]
    /\ F[0] = t
    /\ \A i \in 1 .. Len(l) : F[i] = Tell(F[i - 1], l[i])
Builds(F, l) ==
    /\ F \in [0 .. Len(l) -> Results]
    /\ F[0] = None
    /\ \A i \in 1 .. Len(l) : F[i] = Replay(F[i - 1], l[i])

LEMMA TellsRun ==
  ASSUME NEW t \in Taps, NEW l \in Seq(Records)
  PROVE  \E F : Tells(F, t, l) /\ Frontier(t, l) = F[Len(l)]
<1> DEFINE n == Len(l)
           f == [z \in Taps \X (1 .. n) |-> Tell(z[1], l[z[2]])]
           Body(g) == [s \in SUBSET (1 .. n) |->
                          IF s = {} THEN t ELSE Tell(g[s \ {Max(s)}], l[Max(s)])]
           K == CHOOSE g : g = Body(g)
           F == [i \in 0 .. n |-> K[1 .. i]]
<1>1. n \in Nat /\ DOMAIN l = 1 .. n /\ \A i \in 1 .. n : l[i] \in Records
  OBVIOUS
<1>2. Frontier(t, l) = K[1 .. n]
  BY <1>1 DEF Frontier, FoldLeft, MapThenFoldSet
<1> HIDE DEF n
<1>3. f \in [Taps \X (1 .. n) -> Taps]
  BY <1>1, TellTyped
<1>4. \E g : g = Body(g)
  <2> HIDE DEF f, K
  <2>1. PICK g \in [SUBSET (1 .. n) -> Taps] : \A s \in SUBSET (1 .. n) :
            g[s] = IF s = {} THEN t ELSE f[<<g[s \ {Max(s)}], Max(s)>>]
    <3>1. n \in Nat /\ t \in Taps /\ f \in [Taps \X (1 .. n) -> Taps]
      BY <1>1, <1>3 DEF Results
    <3>2. \E g : LeftTable(g, n, Taps, t, f)
      BY <3>1, FoldLeftTable, Zenon
    <3> QED BY <3>2, Zenon DEF LeftTable
  <2>2. ASSUME NEW s \in SUBSET (1 .. n), s # {}
        PROVE  f[<<g[s \ {Max(s)}], Max(s)>>] = Tell(g[s \ {Max(s)}], l[Max(s)])
    <3>1. Max(s) \in s
      BY <1>1, <2>2, TopOfSet
    <3>2. s \ {Max(s)} \in SUBSET (1 .. n) /\ Max(s) \in 1 .. n
      BY <3>1
    <3>3. g[s \ {Max(s)}] \in Taps
      BY <3>2
    <3> QED BY <3>2, <3>3 DEF f
  <2>3. g = Body(g)
    BY <2>1, <2>2
  <2> QED BY <2>3
<1>5. K = Body(K)
  BY <1>4
<1> HIDE DEF K, f
<1>6. F[0] = t
  <2>1. 0 \in 0 .. n /\ 1 .. 0 = {}
    BY <1>1
  <2> QED BY <1>5, <2>1
<1>7. \A i \in 1 .. n : F[i] = Tell(F[i - 1], l[i])
  <2> SUFFICES ASSUME NEW i \in 1 .. n PROVE F[i] = Tell(F[i - 1], l[i])
    OBVIOUS
  <2>1. i \in 0 .. n /\ i - 1 \in 0 .. n
    BY <1>1
  <2>2. K[1 .. i] = Tell(K[1 .. (i - 1)], l[i])
    <3>1. /\ Max(1 .. i) = i /\ (1 .. i) \ {i} = 1 .. (i - 1)
          /\ 1 .. i # {} /\ (1 .. i) \in SUBSET (1 .. n)
      BY <1>1, TopOfInitial
    <3>2. K[1 .. i] = Body(K)[1 .. i]
      BY <1>5, Zenon
    <3>3. Body(K)[1 .. i] = Tell(K[(1 .. i) \ {Max(1 .. i)}], l[Max(1 .. i)])
      BY <3>1, Zenon
    <3> QED BY <3>1, <3>2, <3>3, Zenon
  <2> QED BY <2>1, <2>2
<1>8. \A i \in 0 .. n : F[i] \in Taps
  <2> DEFINE S == {m \in Nat : m <= n => F[m] \in Taps}
  <2> HIDE DEF F
  <2>1. 0 \in S
    BY <1>6 DEF Results
  <2>2. ASSUME NEW m \in Nat, m \in S PROVE m + 1 \in S
    <3> SUFFICES ASSUME m + 1 <= n PROVE F[m + 1] \in Taps
      OBVIOUS
    <3>1. F[m] \in Taps /\ m + 1 \in 1 .. n /\ (m + 1) - 1 = m
      BY <1>1, <2>2
    <3>2. F[m + 1] = Tell(F[m], l[m + 1]) /\ l[m + 1] \in Records
      BY <1>1, <1>7, <3>1
    <3> QED BY <3>1, <3>2, TellTyped
  <2>3. \A m \in Nat : m \in S
    <3> HIDE DEF S
    <3> QED BY <2>1, <2>2, Inductive
  <2> QED BY <1>1, <2>3
<1>9. F \in [0 .. n -> Taps]
  <2>1. \A i \in 0 .. n : K[1 .. i] \in Taps
    BY <1>8
  <2> QED BY <2>1
<1>10. F[n] = K[1 .. n]
  BY <1>1
<1> HIDE DEF F
<1> QED BY <1>2, <1>6, <1>7, <1>9, <1>10 DEF n, Tells

LEMMA BuildsRun ==
  ASSUME NEW l \in Seq(Records)
  PROVE  \E F : Builds(F, l) /\ BuildSession(l) = F[Len(l)]
<1> DEFINE n == Len(l)
           f == [z \in Results \X (1 .. n) |-> Replay(z[1], l[z[2]])]
           Body(g) == [s \in SUBSET (1 .. n) |->
                          IF s = {} THEN None ELSE Replay(g[s \ {Max(s)}], l[Max(s)])]
           K == CHOOSE g : g = Body(g)
           F == [i \in 0 .. n |-> K[1 .. i]]
<1>1. n \in Nat /\ DOMAIN l = 1 .. n /\ \A i \in 1 .. n : l[i] \in Records
  OBVIOUS
<1>2. BuildSession(l) = K[1 .. n]
  BY <1>1 DEF BuildSession, FoldLeft, MapThenFoldSet
<1> HIDE DEF n
<1>3. f \in [Results \X (1 .. n) -> Results]
  BY <1>1, ReplayTyped
<1>4. \E g : g = Body(g)
  <2> HIDE DEF f, K
  <2>1. PICK g \in [SUBSET (1 .. n) -> Results] : \A s \in SUBSET (1 .. n) :
            g[s] = IF s = {} THEN None ELSE f[<<g[s \ {Max(s)}], Max(s)>>]
    <3>1. n \in Nat /\ None \in Results /\ f \in [Results \X (1 .. n) -> Results]
      BY <1>1, <1>3 DEF Results
    <3>2. \E g : LeftTable(g, n, Results, None, f)
      BY <3>1, FoldLeftTable, Zenon
    <3> QED BY <3>2, Zenon DEF LeftTable
  <2>2. ASSUME NEW s \in SUBSET (1 .. n), s # {}
        PROVE  f[<<g[s \ {Max(s)}], Max(s)>>] = Replay(g[s \ {Max(s)}], l[Max(s)])
    <3>1. Max(s) \in s
      BY <1>1, <2>2, TopOfSet
    <3>2. s \ {Max(s)} \in SUBSET (1 .. n) /\ Max(s) \in 1 .. n
      BY <3>1
    <3>3. g[s \ {Max(s)}] \in Results
      BY <3>2
    <3> QED BY <3>2, <3>3 DEF f
  <2>3. g = Body(g)
    BY <2>1, <2>2
  <2> QED BY <2>3
<1>5. K = Body(K)
  BY <1>4
<1> HIDE DEF K, f
<1>6. F[0] = None
  <2>1. 0 \in 0 .. n /\ 1 .. 0 = {}
    BY <1>1
  <2> QED BY <1>5, <2>1
<1>7. \A i \in 1 .. n : F[i] = Replay(F[i - 1], l[i])
  <2> SUFFICES ASSUME NEW i \in 1 .. n PROVE F[i] = Replay(F[i - 1], l[i])
    OBVIOUS
  <2>1. i \in 0 .. n /\ i - 1 \in 0 .. n
    BY <1>1
  <2>2. K[1 .. i] = Replay(K[1 .. (i - 1)], l[i])
    <3>1. /\ Max(1 .. i) = i /\ (1 .. i) \ {i} = 1 .. (i - 1)
          /\ 1 .. i # {} /\ (1 .. i) \in SUBSET (1 .. n)
      BY <1>1, TopOfInitial
    <3>2. K[1 .. i] = Body(K)[1 .. i]
      BY <1>5, Zenon
    <3>3. Body(K)[1 .. i] = Replay(K[(1 .. i) \ {Max(1 .. i)}], l[Max(1 .. i)])
      BY <3>1, Zenon
    <3> QED BY <3>1, <3>2, <3>3, Zenon
  <2> QED BY <2>1, <2>2
<1>8. \A i \in 0 .. n : F[i] \in Results
  <2> DEFINE S == {m \in Nat : m <= n => F[m] \in Results}
  <2> HIDE DEF F
  <2>1. 0 \in S
    BY <1>6 DEF Results
  <2>2. ASSUME NEW m \in Nat, m \in S PROVE m + 1 \in S
    <3> SUFFICES ASSUME m + 1 <= n PROVE F[m + 1] \in Results
      OBVIOUS
    <3>1. F[m] \in Results /\ m + 1 \in 1 .. n /\ (m + 1) - 1 = m
      BY <1>1, <2>2
    <3>2. F[m + 1] = Replay(F[m], l[m + 1]) /\ l[m + 1] \in Records
      BY <1>1, <1>7, <3>1
    <3> QED BY <3>1, <3>2, ReplayTyped
  <2>3. \A m \in Nat : m \in S
    <3> HIDE DEF S
    <3> QED BY <2>1, <2>2, Inductive
  <2> QED BY <1>1, <2>3
<1>9. F \in [0 .. n -> Results]
  <2>1. \A i \in 0 .. n : K[1 .. i] \in Results
    BY <1>8
  <2> QED BY <2>1
<1>10. F[n] = K[1 .. n]
  BY <1>1
<1> HIDE DEF F
<1> QED BY <1>2, <1>6, <1>7, <1>9, <1>10 DEF n, Builds

LEMMA TellAppend ==
  ASSUME NEW t \in Taps, NEW l \in Seq(Records), NEW r \in Records
  PROVE  /\ Frontier(t, l) \in Taps
         /\ Frontier(t, <<>>) = t
         /\ Frontier(t, Append(l, r)) = Tell(Frontier(t, l), r)
<1> DEFINE m == Append(l, r)
<1>1. /\ m \in Seq(Records) /\ Len(m) = Len(l) + 1 /\ Len(l) \in Nat /\ m[Len(l) + 1] = r
      /\ \A i \in 1 .. Len(l) : m[i] = l[i]
  BY AppendElements
<1> HIDE DEF m
<1>2. PICK F : Tells(F, t, m) /\ Frontier(t, m) = F[Len(m)]
  BY <1>1, TellsRun
<1>3. PICK G : Tells(G, t, l) /\ Frontier(t, l) = G[Len(l)]
  BY TellsRun
<1>4. \A i \in Nat : i <= Len(l) => F[i] = G[i]
  <2> DEFINE S == {i \in Nat : i <= Len(l) => F[i] = G[i]}
  <2>1. 0 \in S
    BY <1>2, <1>3 DEF Tells
  <2>2. ASSUME NEW i \in Nat, i \in S PROVE i + 1 \in S
    <3> SUFFICES ASSUME i + 1 <= Len(l) PROVE F[i + 1] = G[i + 1]
      OBVIOUS
    <3>1. /\ F[i] = G[i] /\ i + 1 \in 1 .. Len(l) /\ i + 1 \in 1 .. Len(m) /\ (i + 1) - 1 = i
          /\ m[i + 1] = l[i + 1]
      BY <1>1, <2>2
    <3> QED BY <1>2, <1>3, <3>1, Zenon DEF Tells
  <2>3. \A i \in Nat : i \in S
    <3> HIDE DEF S
    <3> QED BY <2>1, <2>2, Inductive
  <2> QED BY <2>3
<1>5. F[Len(l)] = G[Len(l)] /\ G[Len(l)] \in Taps
  BY <1>1, <1>3, <1>4 DEF Tells
<1>6. F[Len(l) + 1] = Tell(F[Len(l)], r)
  <2>1. Len(l) + 1 \in 1 .. Len(m) /\ (Len(l) + 1) - 1 = Len(l)
    BY <1>1
  <2> QED BY <1>1, <1>2, <2>1, Zenon DEF Tells
<1>7. Frontier(t, <<>>) = t
  <2>1. <<>> \in Seq(Records) /\ Len(<<>>) = 0
    OBVIOUS
  <2>2. PICK H : Tells(H, t, <<>>) /\ Frontier(t, <<>>) = H[Len(<<>>)]
    BY <2>1, TellsRun
  <2> QED BY <2>1, <2>2 DEF Tells
<1> QED BY <1>1, <1>2, <1>3, <1>5, <1>6, <1>7 DEF m

LEMMA BuildAppend ==
  ASSUME NEW l \in Seq(Records), NEW r \in Records
  PROVE  /\ BuildSession(l) \in Results
         /\ BuildSession(<<>>) = None
         /\ BuildSession(Append(l, r)) = Replay(BuildSession(l), r)
<1> DEFINE m == Append(l, r)
<1>1. /\ m \in Seq(Records) /\ Len(m) = Len(l) + 1 /\ Len(l) \in Nat /\ m[Len(l) + 1] = r
      /\ \A i \in 1 .. Len(l) : m[i] = l[i]
  BY AppendElements
<1> HIDE DEF m
<1>2. PICK F : Builds(F, m) /\ BuildSession(m) = F[Len(m)]
  BY <1>1, BuildsRun
<1>3. PICK G : Builds(G, l) /\ BuildSession(l) = G[Len(l)]
  BY BuildsRun
<1>4. \A i \in Nat : i <= Len(l) => F[i] = G[i]
  <2> DEFINE S == {i \in Nat : i <= Len(l) => F[i] = G[i]}
  <2>1. 0 \in S
    BY <1>2, <1>3 DEF Builds
  <2>2. ASSUME NEW i \in Nat, i \in S PROVE i + 1 \in S
    <3> SUFFICES ASSUME i + 1 <= Len(l) PROVE F[i + 1] = G[i + 1]
      OBVIOUS
    <3>1. /\ F[i] = G[i] /\ i + 1 \in 1 .. Len(l) /\ i + 1 \in 1 .. Len(m) /\ (i + 1) - 1 = i
          /\ m[i + 1] = l[i + 1]
      BY <1>1, <2>2
    <3> QED BY <1>2, <1>3, <3>1, Zenon DEF Builds
  <2>3. \A i \in Nat : i \in S
    <3> HIDE DEF S
    <3> QED BY <2>1, <2>2, Inductive
  <2> QED BY <2>3
<1>5. F[Len(l)] = G[Len(l)] /\ G[Len(l)] \in Results
  BY <1>1, <1>3, <1>4 DEF Builds
<1>6. F[Len(l) + 1] = Replay(F[Len(l)], r)
  <2>1. Len(l) + 1 \in 1 .. Len(m) /\ (Len(l) + 1) - 1 = Len(l)
    BY <1>1
  <2> QED BY <1>1, <1>2, <2>1, Zenon DEF Builds
<1>7. BuildSession(<<>>) = None
  <2>1. <<>> \in Seq(Records) /\ Len(<<>>) = 0
    OBVIOUS
  <2>2. PICK H : Builds(H, <<>>) /\ BuildSession(<<>>) = H[Len(<<>>)]
    BY <2>1, BuildsRun
  <2> QED BY <2>1, <2>2 DEF Builds
<1> QED BY <1>1, <1>2, <1>3, <1>5, <1>6, <1>7 DEF m

\* What is told after a log is told on top of what the log had been told.
LEMMA TellConcat ==
  ASSUME NEW t \in Taps, NEW l \in Seq(Records), NEW m \in Seq(Records)
  PROVE  Frontier(t, l \o m) = Frontier(Frontier(t, l), m)
<1> DEFINE u == Frontier(t, l)
           S == {n \in Nat : n <= Len(m) =>
                    Frontier(t, l \o SubSeq(m, 1, n)) = Frontier(u, SubSeq(m, 1, n))}
<1>1. u \in Taps
  <2>1. \A r \in Records : Frontier(t, l) \in Taps
    BY TellAppend
  <2>2. [k |-> "written", hash |-> <<>>, version |-> 0] \in Records
    BY DEF Records
  <2> QED BY <2>1, <2>2
<1> HIDE DEF u
<1>2. 0 \in S
  <2>1. l \o SubSeq(m, 1, 0) = l /\ SubSeq(m, 1, 0) = <<>>
    BY SMT
  <2>2. Frontier(u, <<>>) = u
    <3>1. [k |-> "written", hash |-> <<>>, version |-> 0] \in Records
      BY DEF Records
    <3> QED BY <1>1, <3>1, TellAppend
  <2> QED BY <2>1, <2>2 DEF u
<1>3. ASSUME NEW n \in Nat, n \in S PROVE n + 1 \in S
  <2> SUFFICES ASSUME n + 1 <= Len(m)
               PROVE  Frontier(t, l \o SubSeq(m, 1, n + 1)) = Frontier(u, SubSeq(m, 1, n + 1))
    OBVIOUS
  <2>1. n < Len(m) /\ Frontier(t, l \o SubSeq(m, 1, n)) = Frontier(u, SubSeq(m, 1, n))
    BY <1>3
  <2> DEFINE p == SubSeq(m, 1, n)
             q == SubSeq(m, 1, n + 1)
             a == l \o p
             b == l \o q
             e == m[n + 1]
  <2>2. a \in Seq(Records) /\ e \in Records /\ b = Append(a, e)
    BY <2>1, NextPrefix
  <2>3. p \in Seq(Records) /\ q = Append(p, e)
    BY <2>1, PrefixGrows
  <2> HIDE DEF a, b, e, p, q
  <2>4. Frontier(t, b) = Tell(Frontier(t, a), e)
    BY <2>2, TellAppend
  <2>5. Frontier(u, q) = Tell(Frontier(u, p), e)
    BY <1>1, <2>2, <2>3, TellAppend
  <2>6. Frontier(t, a) = Frontier(u, p)
    BY <2>1 DEF a, p
  <2>7. Frontier(t, b) = Frontier(u, q)
    BY <2>4, <2>5, <2>6
  <2> QED BY <2>7 DEF b, q
<1>4. \A n \in Nat : n \in S
  <2> HIDE DEF S
  <2> QED BY <1>2, <1>3, Inductive
<1>5. Frontier(t, l \o SubSeq(m, 1, Len(m))) = Frontier(u, SubSeq(m, 1, Len(m)))
  BY <1>4
<1>6. SubSeq(m, 1, Len(m)) = m
  BY SMT
<1> QED BY <1>5, <1>6 DEF u

-----------------------------------------------------------------------------
(* One record on a session whose frontier is known.                        *)

\* The frontier t is the one of session s: every length and every decision.
Fits(t, s) ==
    /\ t \in Taps /\ s \in Built
    /\ t.version = Version(s)
    /\ \A a \in Authors : t.store[a] = Len(s.store[a])
    /\ t.state = s.state

LEMMA BlobStep ==
  ASSUME NEW t, NEW s, Fits(t, s), NEW r \in Records, r.k = "blob", r.start = t.store[r.by]
  PROVE  /\ r.by \in Authors /\ Replay(s, r) = Grows(s, r) /\ Fits(Tell(t, r), Grows(s, r))
<1>1. r \in [k : {"blob"}, by : Authors, start : Nat, marks : Seq(Nat)]
  BY DEF Records
<1>2. r.by \in Authors /\ r.marks \in Seq(Nat) /\ r.start \in Nat
  BY <1>1
<1>3. t \in Taps /\ s \in Built /\ t.version = Version(s) /\ t.state = s.state
      /\ \A a \in Authors : t.store[a] = Len(s.store[a])
  BY DEF Fits
<1>4. Replay(s, r) = Grows(s, r)
  BY <1>2, <1>3, ReplayCases
<1>5. Grows(s, r) \in Built
  <2> DEFINE g == [s EXCEPT !.store[r.by] = @ \o r.marks]
  <2>1. g \in Built /\ g = Grows(s, r)
    BY <1>2, <1>3, GrownBuilt, Zenon DEF Grows
  <2> QED BY <2>1, Zenon
<1>6. Tell(t, r) \in Taps
  BY <1>3, TellTyped
<1> DEFINE u == Tell(t, r)
           v == Grows(s, r)
<1>7. u.version = t.version /\ u.state = t.state /\ u.store = [t.store EXCEPT ![r.by] = r.start + Len(r.marks)]
  <2> DEFINE st == [t.store EXCEPT ![r.by] = r.start + Len(r.marks)]
  <2>1. u = [t EXCEPT !.store = st]
    BY DEF Tell
  <2> HIDE DEF st, u
  <2>2. u.version = t.version /\ u.state = t.state /\ u.store = st
    BY <1>3, <2>1 DEF Taps
  <2> QED BY <2>2 DEF st
<1>8. v.ops = s.ops /\ v.state = s.state /\ v.store = [s.store EXCEPT ![r.by] = s.store[r.by] \o r.marks]
  BY DEF Grows
<1>9. t.store \in [Authors -> Nat] /\ s.store \in [Authors -> Seq(Nat)]
  BY <1>3, BuiltParts DEF Taps
<1> HIDE DEF u, v
<1>10. \A a \in Authors : u.store[a] = Len(v.store[a])
  <2> SUFFICES ASSUME NEW a \in Authors PROVE u.store[a] = Len(v.store[a])
    OBVIOUS
  <2>1. CASE a = r.by
    <3>1. Len(s.store[r.by] \o r.marks) = Len(s.store[r.by]) + Len(r.marks)
      BY <1>2, <1>9
    <3>2. v.store[r.by] = s.store[r.by] \o r.marks
      BY <1>2, <1>8, <1>9
    <3>3. u.store[r.by] = r.start + Len(r.marks)
      BY <1>2, <1>7, <1>9
    <3> QED BY <1>2, <1>3, <2>1, <3>1, <3>2, <3>3
  <2>2. CASE a # r.by
    BY <1>2, <1>3, <1>7, <1>8, <1>9, <2>2
  <2> QED BY <2>1, <2>2
<1>11. Fits(u, v)
  BY <1>3, <1>5, <1>6, <1>7, <1>8, <1>10 DEF Fits, Version, u, v
<1> QED BY <1>2, <1>4, <1>11 DEF u, v

LEMMA OpStep ==
  ASSUME NEW t, NEW s, Fits(t, s), NEW r \in Records, r.k = "op",
         r.seq = t.version + 1, r.at <= t.store[r.by]
  PROVE  /\ Replay(s, r) = Extends(s, r) /\ Fits(Tell(t, r), Extends(s, r))
<1>1. r \in [k : {"op"}, seq : Nat, by : Authors, at : Nat \ {0}]
  BY DEF Records
<1>2. r.by \in Authors /\ r.at \in Nat \ {0} /\ r.seq \in Nat
  BY <1>1
<1>3. t \in Taps /\ s \in Built /\ t.version = Version(s) /\ t.state = s.state
      /\ \A a \in Authors : t.store[a] = Len(s.store[a])
  BY DEF Fits
<1>4. t.version \in Nat /\ r.at <= Len(s.store[r.by]) /\ Len(s.store[r.by]) \in Nat
  BY <1>2, <1>3, BuiltParts
<1>5. Replay(s, r) = Extends(s, r)
  BY <1>2, <1>3, <1>4, ReplayCases
<1>6. Extends(s, r) \in Built
  <2> DEFINE g == [s EXCEPT !.ops = Append(@, [by |-> r.by, at |-> r.at])]
  <2>1. g \in Built /\ g = Extends(s, r)
    BY <1>2, <1>3, <1>4, RecordedBuilt, Zenon DEF Extends
  <2> QED BY <2>1, Zenon
<1>7. Tell(t, r) \in Taps
  BY <1>3, TellTyped
<1> DEFINE u == Tell(t, r)
           v == Extends(s, r)
<1>8. u.version = r.seq /\ u.state = t.state /\ u.store = t.store
  BY <1>3 DEF Tell, Taps
<1>9. v.ops = Append(s.ops, [by |-> r.by, at |-> r.at]) /\ v.state = s.state /\ v.store = s.store
  BY DEF Extends
<1>10. Len(Append(s.ops, [by |-> r.by, at |-> r.at])) = Len(s.ops) + 1
  <2>1. s.ops \in Seq(OpRecords) /\ [by |-> r.by, at |-> r.at] \in OpRecords
    BY <1>2, <1>3, BuiltParts DEF OpRecords
  <2> QED BY <2>1, AppendElements
<1> QED BY <1>3, <1>5, <1>6, <1>7, <1>8, <1>9, <1>10 DEF Fits, Version

LEMMA DecisionStep ==
  ASSUME NEW t, NEW s, Fits(t, s), NEW r \in Records, r.k = "dec"
  PROVE  /\ Replay(s, r) = Decides(s, r) /\ Fits(Tell(t, r), Decides(s, r))
<1>1. r \in [k : {"dec"}, set : Sets, to : States]
  BY DEF Records
<1>2. t \in Taps /\ s \in Built /\ t.version = Version(s) /\ t.state = s.state
      /\ \A a \in Authors : t.store[a] = Len(s.store[a])
  BY DEF Fits
<1> DEFINE d == [s.state EXCEPT ![r.set] = r.to]
<1>3. d \in [Sets -> States]
  BY <1>1, <1>2, BuiltParts
<1>4. Replay(s, r) = Decides(s, r)
  BY <1>2, ReplayCases
<1>5. Decides(s, r) = [base |-> s.base, ops |-> s.ops, store |-> s.store, state |-> d]
  BY DEF Decides
<1>6. Tell(t, r) \in Taps
  BY <1>2, TellTyped
<1>7. Tell(t, r).version = t.version /\ Tell(t, r).store = t.store
      /\ Tell(t, r).state = [t.state EXCEPT ![r.set] = r.to]
  BY <1>2 DEF Tell, Taps
<1>8. Tell(t, r).state = d
  BY <1>2, <1>7
<1> HIDE DEF d
<1>9. [base |-> s.base, ops |-> s.ops, store |-> s.store, state |-> d] \in Built
  BY <1>2, <1>3, DecidedBuilt
<1>10. /\ Decides(s, r).ops = s.ops /\ Decides(s, r).store = s.store /\ Decides(s, r).state = d
  BY <1>5
<1> QED BY <1>2, <1>4, <1>5, <1>6, <1>7, <1>8, <1>9, <1>10 DEF Fits, Version

-----------------------------------------------------------------------------
(* The records of a batch.                                                 *)

LEMMA GrowthShape ==
  ASSUME NEW t \in Taps, NEW b \in Built, NEW a \in Authors
  PROVE  /\ Growth(t, b, a) \in Seq(Records)
         /\ Len(Growth(t, b, a)) = IF Len(b.store[a]) > t.store[a] THEN 1 ELSE 0
         /\ Len(b.store[a]) > t.store[a] =>
              LET r == Growth(t, b, a)[1]
              IN  /\ r.k = "blob" /\ r.by = a /\ r.start = t.store[a]
                  /\ r.marks = SubSeq(b.store[a], t.store[a] + 1, Len(b.store[a]))
<1>1. b.store[a] \in Seq(Nat) /\ t.store[a] \in Nat /\ Len(b.store[a]) \in Nat
  BY BuiltParts DEF Taps
<1>2. CASE Len(b.store[a]) > t.store[a]
  <2> DEFINE m == SubSeq(b.store[a], t.store[a] + 1, Len(b.store[a]))
             r == [k |-> "blob", by |-> a, start |-> t.store[a], marks |-> m]
  <2>1. m \in Seq(Nat)
    BY <1>1, RangeOfSubSeq
  <2>2. Growth(t, b, a) = <<r>>
    BY <1>2 DEF Growth
  <2> HIDE DEF m
  <2>3. r \in Records
    <3>1. r \in [k : {"blob"}, by : Authors, start : Nat, marks : Seq(Nat)]
      BY <1>1, <2>1
    <3> QED BY <3>1 DEF Records
  <2>4. r.k = "blob" /\ r.by = a /\ r.start = t.store[a] /\ r.marks = m
    OBVIOUS
  <2> HIDE DEF r
  <2>5. <<r>> \in Seq(Records) /\ Len(<<r>>) = 1 /\ <<r>>[1] = r
    BY <2>3
  <2> QED BY <1>2, <2>2, <2>4, <2>5 DEF m
<1>3. CASE ~(Len(b.store[a]) > t.store[a])
  <2>1. Growth(t, b, a) = <<>>
    BY <1>3 DEF Growth
  <2> QED BY <1>3, <2>1
<1> QED BY <1>2, <1>3

LEMMA NewOpsShape ==
  ASSUME NEW t \in Taps, NEW b \in Built
  PROVE  /\ NewOps(t, b) \in Seq(Records)
         /\ Len(NewOps(t, b)) = IF t.version < Version(b) THEN Version(b) - t.version ELSE 0
         /\ \A j \in 1 .. Len(NewOps(t, b)) :
               /\ t.version + j \in 1 .. Version(b)
               /\ NewOps(t, b)[j].k = "op" /\ NewOps(t, b)[j].seq = t.version + j
               /\ NewOps(t, b)[j].by = b.ops[t.version + j].by
               /\ NewOps(t, b)[j].at = b.ops[t.version + j].at
<1> DEFINE V == Version(b)
           v == t.version
           ids == [i \in 1 .. V |-> i]
           since == SubSeq(ids, v + 1, V)
           n == IF v < V THEN V - v ELSE 0
           Rec(i) == [k |-> "op", seq |-> i, by |-> b.ops[i].by, at |-> b.ops[i].at]
<1>1. V \in Nat /\ v \in Nat
  BY BuiltParts DEF Taps
<1>2. \A i \in 1 .. V : b.ops[i].by \in Authors /\ b.ops[i].at \in Nat \ {0}
  BY BuiltParts
<1> HIDE DEF V, v
<1>3. n \in Nat /\ (\A j \in 1 .. n : v + j \in 1 .. V)
  BY <1>1
<1>4. ids \in Seq(Nat) /\ Len(ids) = V /\ \A i \in 1 .. V : ids[i] = i
  BY <1>1
<1> HIDE DEF ids
<1>5. Len(since) = n /\ DOMAIN since = 1 .. n /\ \A j \in 1 .. n : since[j] = v + j
  <2>1. since \in Seq(Nat) /\ Len(since) = n
    BY <1>1, <1>4, RangeOfSubSeq
  <2>2. \A j \in 1 .. n : since[j] = ids[v + j]
    BY <1>1, <1>4, SMT
  <2> QED BY <1>3, <1>4, <2>1, <2>2
<1>6. NewOps(t, b) = [j \in DOMAIN since |-> Rec(since[j])]
  BY DEF NewOps, V, v, ids
<1> HIDE DEF since
<1>7. \A j \in 1 .. n : NewOps(t, b)[j] = Rec(v + j)
  BY <1>5, <1>6
<1>8. \A i \in 1 .. V : Rec(i) \in Records
  <2> SUFFICES ASSUME NEW i \in 1 .. V PROVE Rec(i) \in Records
    OBVIOUS
  <2>1. Rec(i) \in [k : {"op"}, seq : Nat, by : Authors, at : Nat \ {0}]
    BY <1>1, <1>2
  <2> QED BY <2>1 DEF Records
<1>9. NewOps(t, b) = [j \in 1 .. n |-> Rec(v + j)]
  BY <1>5, <1>6
<1>10. \A i : Rec(i).k = "op" /\ Rec(i).seq = i /\ Rec(i).by = b.ops[i].by /\ Rec(i).at = b.ops[i].at
  OBVIOUS
<1> HIDE DEF Rec, n
<1>11. NewOps(t, b) \in Seq(Records) /\ Len(NewOps(t, b)) = n
  BY <1>3, <1>8, <1>9
<1> QED BY <1>3, <1>7, <1>10, <1>11 DEF n, v, V

Moved(t, b) == Filter([i \in 1 .. Version(b) |-> i], {i \in Sets : b.state[i] # t.state[i]})

LEMMA NewDecisionsShape ==
  ASSUME NEW t \in Taps, NEW b \in Built
  PROVE  /\ NewDecisions(t, b) \in Seq(Records)
         /\ Moved(t, b) \in Seq(Sets) /\ Len(NewDecisions(t, b)) = Len(Moved(t, b))
         /\ \A j \in 1 .. Len(Moved(t, b)) :
               /\ Moved(t, b)[j] \in Sets /\ Moved(t, b)[j] \in 1 .. Version(b)
               /\ NewDecisions(t, b)[j].k = "dec"
               /\ NewDecisions(t, b)[j].set = Moved(t, b)[j]
               /\ NewDecisions(t, b)[j].to = b.state[Moved(t, b)[j]]
         /\ \A i \in Sets : i \in 1 .. Version(b) /\ b.state[i] # t.state[i]
               => \E j \in 1 .. Len(Moved(t, b)) : Moved(t, b)[j] = i
<1> DEFINE V == Version(b)
           T == {i \in Sets : b.state[i] # t.state[i]}
           ids == [i \in 1 .. V |-> i]
           M == Filter(ids, T)
           Rec(i) == [k |-> "dec", set |-> i, to |-> b.state[i]]
<1>1. V \in Nat
  BY BuiltParts
<1> HIDE DEF V
<1>2. ids \in Seq(1 .. V) /\ Range(ids) = 1 .. V
  BY <1>1 DEF Range
<1> HIDE DEF ids
<1>3. M \in Seq(1 .. V) /\ Range(M) = (1 .. V) \cap T
  <2> HIDE DEF T
  <2>1. /\ M \in Seq(1 .. V) /\ Range(M) = Range(ids) \cap T
    BY <1>2, FilterElements, Zenon
  <2> QED BY <1>2, <2>1, Zenon
<1> HIDE DEF M
<1>4. /\ \A j \in 1 .. Len(M) : M[j] \in 1 .. V /\ M[j] \in T
      /\ \A i \in (1 .. V) \cap T : \E j \in 1 .. Len(M) : M[j] = i
      /\ Len(M) \in Nat /\ DOMAIN M = 1 .. Len(M)
  BY <1>3 DEF Range
<1>5. M = Moved(t, b)
  BY DEF M, ids, V, Moved
<1>6. NewDecisions(t, b) = [j \in 1 .. Len(M) |-> Rec(M[j])]
  BY <1>4 DEF NewDecisions, M, ids, V
<1>7. \A i \in Sets : Rec(i) \in Records
  <2> SUFFICES ASSUME NEW i \in Sets PROVE Rec(i) \in Records
    OBVIOUS
  <2>1. b.state[i] \in States
    BY BuiltParts
  <2>2. Rec(i) \in [k : {"dec"}, set : Sets, to : States]
    BY <2>1
  <2> QED BY <2>2 DEF Records
<1>8. \A i : Rec(i).k = "dec" /\ Rec(i).set = i /\ Rec(i).to = b.state[i]
  OBVIOUS
<1> HIDE DEF Rec
<1>9. \A j \in 1 .. Len(M) : M[j] \in Sets
  BY <1>4
<1>10. NewDecisions(t, b) \in Seq(Records) /\ Len(NewDecisions(t, b)) = Len(M)
  BY <1>4, <1>6, <1>7, <1>9
<1>11. M \in Seq(Sets)
  BY <1>3, <1>9
<1>12. \A j \in 1 .. Len(M) : NewDecisions(t, b)[j] = Rec(M[j])
  BY <1>6
<1>13. \A i \in Sets : i \in 1 .. V /\ b.state[i] # t.state[i] => \E j \in 1 .. Len(M) : M[j] = i
  BY <1>4
<1> HIDE DEF T
<1> QED BY <1>4, <1>5, <1>8, <1>9, <1>10, <1>11, <1>12, <1>13 DEF V

\* x is a, b, c and d, whose lengths are na, nb, nc and nd, one after the other.
Joined(R, x, a, b, c, d, na, nb, nc, nd) ==
    /\ x \in Seq(R) /\ Len(x) = na + nb + nc + nd
    /\ \A k \in 1 .. na : x[k] = a[k]
    /\ \A k \in 1 .. nb : x[na + k] = b[k]
    /\ \A k \in 1 .. nc : x[na + nb + k] = c[k]
    /\ \A k \in 1 .. nd : x[na + nb + nc + k] = d[k]

LEMMA FourParts ==
  ASSUME NEW R, NEW a \in Seq(R), NEW b \in Seq(R), NEW c \in Seq(R), NEW d \in Seq(R),
         NEW na, NEW nb, NEW nc, NEW nd,
         na = Len(a), nb = Len(b), nc = Len(c), nd = Len(d), NEW x, x = ((a \o b) \o c) \o d
  PROVE  Joined(R, x, a, b, c, d, na, nb, nc, nd)
<1> DEFINE y == a \o b
           z == y \o c
<1>1. na \in Nat /\ nb \in Nat /\ nc \in Nat /\ nd \in Nat
  OBVIOUS
<1>2. /\ y \in Seq(R) /\ Len(y) = na + nb
      /\ \A i \in 1 .. na : y[i] = a[i]
      /\ \A i \in 1 .. nb : y[na + i] = b[i]
  BY ConcatElements
<1> HIDE DEF y
<1>3. /\ z \in Seq(R) /\ Len(z) = na + nb + nc
      /\ \A i \in 1 .. na + nb : z[i] = y[i]
      /\ \A i \in 1 .. nc : z[na + nb + i] = c[i]
  <2>1. /\ z \in Seq(R) /\ Len(z) = Len(y) + Len(c)
        /\ \A i \in 1 .. Len(y) : z[i] = y[i]
        /\ \A i \in 1 .. Len(c) : z[Len(y) + i] = c[i]
    <3>1. z = y \o c
      OBVIOUS
    <3>2. y \in Seq(R)
      BY <1>2
    <3> HIDE DEF z
    <3>3. y \o c \in Seq(R)
      BY <3>2, ConcatElements
    <3>4. Len(y \o c) = Len(y) + Len(c)
      BY <3>2, ConcatElements
    <3>5. \A i \in 1 .. Len(y) : (y \o c)[i] = y[i]
      BY <3>2, ConcatElements
    <3>6. \A i \in 1 .. Len(c) : (y \o c)[Len(y) + i] = c[i]
      BY <3>2, ConcatElements
    <3> QED BY <3>1, <3>3, <3>4, <3>5, <3>6, Zenon
  <2> HIDE DEF z
  <2> QED BY <1>2, <2>1, Zenon
<1> HIDE DEF z
<1>4. /\ x \in Seq(R) /\ Len(x) = na + nb + nc + nd
      /\ \A i \in 1 .. na + nb + nc : x[i] = z[i]
      /\ \A i \in 1 .. nd : x[na + nb + nc + i] = d[i]
  <2>1. x = z \o d
    BY DEF z, y
  <2>2. /\ x \in Seq(R) /\ Len(x) = Len(z) + Len(d)
        /\ \A i \in 1 .. Len(z) : x[i] = z[i]
        /\ \A i \in 1 .. Len(d) : x[Len(z) + i] = d[i]
    <3>1. z \in Seq(R)
      BY <1>3
    <3>2. z \o d \in Seq(R)
      BY <3>1, ConcatElements
    <3>3. Len(z \o d) = Len(z) + Len(d)
      BY <3>1, ConcatElements
    <3>4. \A i \in 1 .. Len(z) : (z \o d)[i] = z[i]
      BY <3>1, ConcatElements
    <3>5. \A i \in 1 .. Len(d) : (z \o d)[Len(z) + i] = d[i]
      BY <3>1, ConcatElements
    <3> QED BY <2>1, <3>2, <3>3, <3>4, <3>5, Zenon
  <2> QED BY <1>3, <2>2, Zenon
<1>5. \A k \in 1 .. na : x[k] = a[k]
  <2> SUFFICES ASSUME NEW k \in 1 .. na PROVE x[k] = a[k]
    OBVIOUS
  <2>1. k \in 1 .. na + nb /\ k \in 1 .. na + nb + nc
    BY <1>1
  <2> QED BY <1>2, <1>3, <1>4, <2>1, Zenon
<1>6. \A k \in 1 .. nb : x[na + k] = b[k]
  <2> SUFFICES ASSUME NEW k \in 1 .. nb PROVE x[na + k] = b[k]
    OBVIOUS
  <2>1. na + k \in 1 .. na + nb /\ na + k \in 1 .. na + nb + nc
    BY <1>1
  <2>2. x[na + k] = z[na + k]
    BY <1>4, <2>1, Zenon
  <2>3. z[na + k] = y[na + k]
    BY <1>3, <2>1, Zenon
  <2>4. y[na + k] = b[k]
    BY <1>2, Zenon
  <2> QED BY <2>2, <2>3, <2>4, Zenon
<1>7. \A k \in 1 .. nc : x[na + nb + k] = c[k]
  <2> SUFFICES ASSUME NEW k \in 1 .. nc PROVE x[na + nb + k] = c[k]
    OBVIOUS
  <2>1. na + nb + k \in 1 .. na + nb + nc
    BY <1>1
  <2> QED BY <1>3, <1>4, <2>1, Zenon
<1> QED BY <1>4, <1>5, <1>6, <1>7, Zenon DEF Joined

\* The four parts of a batch: bytes of each author, ops, decisions.
Parts(nu, na, no, nd, t, b) ==
    /\ nu = Len(Growth(t, b, user)) /\ na = Len(Growth(t, b, agent))
    /\ no = Len(NewOps(t, b)) /\ nd = Len(NewDecisions(t, b))

LEMMA BatchShape ==
  ASSUME NEW t \in Taps, NEW b \in Built, NEW nu, NEW na, NEW no, NEW nd, Parts(nu, na, no, nd, t, b)
  PROVE  /\ nu \in 0 .. 1 /\ na \in 0 .. 1 /\ no \in Nat /\ nd \in Nat
         /\ Batch(t, b) \in Seq(Records) /\ Len(Batch(t, b)) = nu + na + no + nd
         /\ \A k \in 1 .. nu : Batch(t, b)[k] = Growth(t, b, user)[k]
         /\ \A k \in 1 .. na : Batch(t, b)[nu + k] = Growth(t, b, agent)[k]
         /\ \A k \in 1 .. no : Batch(t, b)[nu + na + k] = NewOps(t, b)[k]
         /\ \A k \in 1 .. nd : Batch(t, b)[nu + na + no + k] = NewDecisions(t, b)[k]
<1> DEFINE u == Growth(t, b, user)
           a == Growth(t, b, agent)
           o == NewOps(t, b)
           d == NewDecisions(t, b)
           x == ((u \o a) \o o) \o d
<1>1. user \in Authors /\ agent \in Authors
  BY DEF Authors
<1>2. u \in Seq(Records) /\ Len(u) \in 0 .. 1 /\ a \in Seq(Records) /\ Len(a) \in 0 .. 1
  BY <1>1, GrowthShape
<1>3. o \in Seq(Records) /\ d \in Seq(Records)
  BY NewOpsShape, NewDecisionsShape
<1>4. Batch(t, b) = x
  BY DEF Batch, NewBlobs
<1>5. nu = Len(u) /\ na = Len(a) /\ no = Len(o) /\ nd = Len(d)
  BY DEF Parts
<1> HIDE DEF u, a, o, d
<1>6. /\ x \in Seq(Records) /\ Len(x) = nu + na + no + nd
      /\ \A k \in 1 .. nu : x[k] = u[k]
      /\ \A k \in 1 .. na : x[nu + k] = a[k]
      /\ \A k \in 1 .. no : x[nu + na + k] = o[k]
      /\ \A k \in 1 .. nd : x[nu + na + no + k] = d[k]
  <2>1. x = ((u \o a) \o o) \o d
    OBVIOUS
  <2> HIDE DEF x
  <2>2. Joined(Records, x, u, a, o, d, nu, na, no, nd)
    BY <1>2, <1>3, <1>5, <2>1, FourParts, Zenon
  <2> QED BY <2>2, Zenon DEF Joined
<1>7. nu \in 0 .. 1 /\ na \in 0 .. 1 /\ no \in Nat /\ nd \in Nat
  BY <1>2, <1>3, <1>5
<1> HIDE DEF x
<1> QED BY <1>4, <1>6, <1>7, Zenon DEF u, a, o, d

-----------------------------------------------------------------------------
(* Telling a log a batch.                                                  *)

\* An author's bytes once the log has the rest of them.
Grown(s, b, a) ==
    IF Len(b.store[a]) > Len(s.store[a])
    THEN s.store[a] \o SubSeq(b.store[a], Len(s.store[a]) + 1, Len(b.store[a]))
    ELSE s.store[a]

LEMMA RestOf ==
  ASSUME NEW R, NEW s \in Seq(R), NEW n \in Nat, n < Len(s)
  PROVE  SubSeq(s, n + 1, Len(s)) \in Seq(R) /\ Len(SubSeq(s, n + 1, Len(s))) = Len(s) - n
  BY SMT

LEMMA GrownShape ==
  ASSUME NEW s \in Built, NEW b \in Built, NEW a \in Authors
  PROVE  Grown(s, b, a) \in Seq(Nat) /\ Len(Grown(s, b, a)) >= Len(b.store[a])
<1>1. s.store[a] \in Seq(Nat) /\ b.store[a] \in Seq(Nat)
  BY BuiltParts
<1>2. CASE Len(b.store[a]) > Len(s.store[a])
  <2> DEFINE m == SubSeq(b.store[a], Len(s.store[a]) + 1, Len(b.store[a]))
  <2>1. m \in Seq(Nat) /\ Len(m) = Len(b.store[a]) - Len(s.store[a])
    <3>1. Len(s.store[a]) \in Nat /\ Len(s.store[a]) < Len(b.store[a])
      BY <1>1, <1>2
    <3> QED BY <1>1, <3>1, RestOf
  <2>2. Grown(s, b, a) = s.store[a] \o m
    BY <1>2 DEF Grown
  <2> HIDE DEF m
  <2>3. s.store[a] \o m \in Seq(Nat) /\ Len(s.store[a] \o m) = Len(s.store[a]) + Len(m)
    BY <1>1, <2>1, ConcatElements
  <2> QED BY <1>1, <2>1, <2>2, <2>3
<1>3. CASE ~(Len(b.store[a]) > Len(s.store[a]))
  BY <1>1, <1>3 DEF Grown
<1> QED BY <1>2, <1>3

\* How far the session s that is built has come from s0 towards b after k of the
\* records of a batch.
Reached(s, s0, b, m, k, nu, na, no) ==
    /\ s.base = s0.base
    /\ s.store[user] = IF k >= nu THEN Grown(s0, b, user) ELSE s0.store[user]
    /\ s.store[agent] = IF k >= nu + na THEN Grown(s0, b, agent) ELSE s0.store[agent]
    /\ Len(s.ops) = Len(s0.ops) + (IF k <= nu + na THEN 0 ELSE IF k <= nu + na + no THEN k - nu - na ELSE no)
    /\ \A i \in 1 .. Len(s.ops) : s.ops[i] = IF i <= Len(s0.ops) THEN s0.ops[i] ELSE b.ops[i]
    /\ \A i \in Sets : s.state[i] \in {s0.state[i], b.state[i]}
    /\ \A j \in 1 .. Len(m) : nu + na + no + j <= k => s.state[m[j]] = b.state[m[j]]

LEMMA ReachedStart ==
  ASSUME NEW t, NEW s, NEW b \in Built, NEW nu, NEW na, NEW no, NEW nd,
         Fits(t, s), Parts(nu, na, no, nd, t, b)
  PROVE  Reached(s, s, b, Moved(t, b), 0, nu, na, no)
<1>1. t \in Taps /\ s \in Built /\ \A a \in Authors : t.store[a] = Len(s.store[a])
  BY DEF Fits
<1>2. nu \in 0 .. 1 /\ na \in 0 .. 1 /\ no \in Nat /\ nd \in Nat
  BY <1>1, BatchShape
<1>3. user \in Authors /\ agent \in Authors
  BY DEF Authors
<1>4. nu = IF Len(b.store[user]) > t.store[user] THEN 1 ELSE 0
  BY <1>1, <1>3, GrowthShape DEF Parts
<1>5. na = IF Len(b.store[agent]) > t.store[agent] THEN 1 ELSE 0
  BY <1>1, <1>3, GrowthShape DEF Parts
<1>6. 0 >= nu => Grown(s, b, user) = s.store[user]
  BY <1>1, <1>3, <1>4 DEF Grown
<1>7. 0 >= nu + na => Grown(s, b, agent) = s.store[agent]
  BY <1>1, <1>2, <1>3, <1>5 DEF Grown
<1>8. Len(s.ops) \in Nat
  BY <1>1, BuiltParts
<1>9. Moved(t, b) \in Seq(Sets)
  BY <1>1, NewDecisionsShape
<1>10. \A j \in 1 .. Len(Moved(t, b)) : ~(nu + na + no + j <= 0)
  BY <1>2, <1>9
<1>11. s.store[user] = IF 0 >= nu THEN Grown(s, b, user) ELSE s.store[user]
  BY <1>6
<1>12. s.store[agent] = IF 0 >= nu + na THEN Grown(s, b, agent) ELSE s.store[agent]
  BY <1>7
<1>13. Len(s.ops) = Len(s.ops) + (IF 0 <= nu + na THEN 0 ELSE IF 0 <= nu + na + no THEN 0 - nu - na ELSE no)
  <2> DEFINE n == Len(s.ops)
  <2>1. 0 <= nu + na
    BY <1>2
  <2>2. n = n + 0
    BY <1>8
  <2> HIDE DEF n
  <2>3. n = n + (IF 0 <= nu + na THEN 0 ELSE IF 0 <= nu + na + no THEN 0 - nu - na ELSE no)
    BY <2>1, <2>2, Zenon
  <2> QED BY <2>3 DEF n
<1>14. \A i \in 1 .. Len(s.ops) : s.ops[i] = IF i <= Len(s.ops) THEN s.ops[i] ELSE b.ops[i]
  BY <1>8
<1> QED BY <1>10, <1>11, <1>12, <1>13, <1>14, Zenon DEF Reached

LEMMA ReachedNext ==
  ASSUME NEW t, NEW s0, NEW b \in Built, NEW nu, NEW na, NEW no, NEW nd,
         Fits(t, s0), Parts(nu, na, no, nd, t, b),
         NEW k \in Nat, k < nu + na + no + nd,
         NEW u, NEW s, Fits(u, s), Reached(s, s0, b, Moved(t, b), k, nu, na, no)
  PROVE  LET r == Batch(t, b)[k + 1]
         IN  /\ Fits(Tell(u, r), Replay(s, r))
             /\ Reached(Replay(s, r), s0, b, Moved(t, b), k + 1, nu, na, no)
<1> DEFINE r == Batch(t, b)[k + 1]
           m == Moved(t, b)
           V == Len(s0.ops)
<1>1. t \in Taps /\ s0 \in Built /\ t.version = V /\ \A a \in Authors : t.store[a] = Len(s0.store[a])
  BY DEF Fits, Version
<1>2. u \in Taps /\ s \in Built /\ u.version = Len(s.ops) /\ \A a \in Authors : u.store[a] = Len(s.store[a])
  BY DEF Fits, Version
<1>3. nu \in 0 .. 1 /\ na \in 0 .. 1 /\ no \in Nat /\ nd \in Nat /\ V \in Nat
  BY <1>1, BatchShape, BuiltParts
<1>4. user \in Authors /\ agent \in Authors /\ Authors = {user, agent} /\ user # agent
  BY BoundAssumption DEF Authors
<1>5. /\ s.base = s0.base
      /\ s.store[user] = IF k >= nu THEN Grown(s0, b, user) ELSE s0.store[user]
      /\ s.store[agent] = IF k >= nu + na THEN Grown(s0, b, agent) ELSE s0.store[agent]
      /\ Len(s.ops) = V + (IF k <= nu + na THEN 0 ELSE IF k <= nu + na + no THEN k - nu - na ELSE no)
      /\ \A i \in 1 .. Len(s.ops) : s.ops[i] = IF i <= V THEN s0.ops[i] ELSE b.ops[i]
      /\ \A i \in Sets : s.state[i] \in {s0.state[i], b.state[i]}
      /\ \A j \in 1 .. Len(m) : nu + na + no + j <= k => s.state[m[j]] = b.state[m[j]]
  BY DEF Reached
<1>6. /\ Batch(t, b) \in Seq(Records) /\ Len(Batch(t, b)) = nu + na + no + nd
      /\ \A i \in 1 .. nu : Batch(t, b)[i] = Growth(t, b, user)[i]
      /\ \A i \in 1 .. na : Batch(t, b)[nu + i] = Growth(t, b, agent)[i]
      /\ \A i \in 1 .. no : Batch(t, b)[nu + na + i] = NewOps(t, b)[i]
      /\ \A i \in 1 .. nd : Batch(t, b)[nu + na + no + i] = NewDecisions(t, b)[i]
  BY <1>1, BatchShape
<1>7. r \in Records
  BY <1>3, <1>6
<1>8. nu = Len(Growth(t, b, user)) /\ na = Len(Growth(t, b, agent)) /\ no = Len(NewOps(t, b))
      /\ nd = Len(NewDecisions(t, b))
  BY DEF Parts
<1>9. m \in Seq(Sets) /\ Len(m) = nd
  BY <1>1, <1>8, NewDecisionsShape
<1>15. /\ nu = IF Len(b.store[user]) > t.store[user] THEN 1 ELSE 0
       /\ na = IF Len(b.store[agent]) > t.store[agent] THEN 1 ELSE 0
  BY <1>1, <1>4, GrowthShape DEF Parts
<1> HIDE DEF r, m, V
<1>16. /\ k <= nu + na => Len(s.ops) = V
       /\ ~(k <= nu + na) /\ k <= nu + na + no => Len(s.ops) = V + (k - nu - na)
       /\ ~(k <= nu + na) /\ ~(k <= nu + na + no) => Len(s.ops) = V + no
  <2> DEFINE x == IF k <= nu + na THEN 0 ELSE IF k <= nu + na + no THEN k - nu - na ELSE no
  <2>1. Len(s.ops) = V + x
    BY <1>5
  <2>2. /\ k <= nu + na => x = 0
        /\ ~(k <= nu + na) /\ k <= nu + na + no => x = k - nu - na
        /\ ~(k <= nu + na) /\ ~(k <= nu + na + no) => x = no
    OBVIOUS
  <2> HIDE DEF x
  <2> QED BY <1>3, <2>1, <2>2
<1>10. CASE k < nu
  <2>1. nu = 1 /\ k = 0
    BY <1>3, <1>10
  <2>2. Len(b.store[user]) > t.store[user]
    BY <1>15, <2>1
  <2>3. r = Growth(t, b, user)[1]
    BY <1>6, <2>1 DEF r
  <2>4. /\ r.k = "blob" /\ r.by = user /\ r.start = t.store[user]
        /\ r.marks = SubSeq(b.store[user], t.store[user] + 1, Len(b.store[user]))
    BY <1>1, <1>4, <2>2, <2>3, GrowthShape
  <2>5. s.store[user] = s0.store[user]
    BY <1>3, <1>5, <2>1
  <2>6. r.start = u.store[r.by]
    BY <1>1, <1>2, <1>4, <2>4, <2>5
  <2>7. Replay(s, r) = Grows(s, r) /\ Fits(Tell(u, r), Grows(s, r))
    BY <1>7, <2>4, <2>6, BlobStep
  <2> DEFINE g == Grows(s, r)
  <2>8. g.store[user] = Grown(s0, b, user)
    <3>1. g.store = [s.store EXCEPT ![user] = s.store[user] \o r.marks]
      BY <2>4 DEF Grows
    <3>2. s.store \in [Authors -> Seq(Nat)]
      BY <1>2, BuiltParts
    <3>3. g.store[user] = s.store[user] \o r.marks
      BY <1>4, <3>1, <3>2
    <3> QED BY <1>1, <1>4, <2>2, <2>4, <2>5, <3>3 DEF Grown
  <2>9. g.store[agent] = s.store[agent] /\ g.base = s.base /\ g.ops = s.ops /\ g.state = s.state
    BY <1>4, <2>4 DEF Grows
  <2>10. k + 1 >= nu + na => Grown(s0, b, agent) = s0.store[agent]
    <3> SUFFICES ASSUME k + 1 >= nu + na PROVE Grown(s0, b, agent) = s0.store[agent]
      OBVIOUS
    <3>1. na = 0
      BY <1>3, <2>1
    <3>2. ~(Len(b.store[agent]) > t.store[agent])
      BY <1>15, <3>1
    <3> QED BY <1>1, <1>4, <3>2 DEF Grown
  <2>11. g.store[agent] = s0.store[agent]
    BY <1>3, <1>5, <2>1, <2>9
  <2> HIDE DEF g
  <2>12. Reached(g, s0, b, m, k + 1, nu, na, no)
    <3>1. g.base = s0.base
      BY <1>5, <2>9
    <3>2. g.store[user] = IF k + 1 >= nu THEN Grown(s0, b, user) ELSE s0.store[user]
      BY <2>1, <2>8
    <3>3. g.store[agent] = IF k + 1 >= nu + na THEN Grown(s0, b, agent) ELSE s0.store[agent]
      BY <2>10, <2>11
    <3>4. Len(g.ops) = V + (IF k + 1 <= nu + na THEN 0 ELSE IF k + 1 <= nu + na + no THEN (k + 1) - nu - na ELSE no)
      <4>1. k + 1 <= nu + na \/ (~(k + 1 <= nu + na) /\ na = 0)
        BY <1>3, <2>1
      <4>2. Len(g.ops) = V
        BY <1>3, <1>16, <2>1, <2>9
      <4> QED BY <1>3, <2>1, <4>1, <4>2
    <3>5. \A i \in 1 .. Len(g.ops) : g.ops[i] = IF i <= V THEN s0.ops[i] ELSE b.ops[i]
      BY <1>5, <2>9
    <3>6. \A i \in Sets : g.state[i] \in {s0.state[i], b.state[i]}
      BY <1>5, <2>9
    <3>7. \A j \in 1 .. Len(m) : nu + na + no + j <= k + 1 => g.state[m[j]] = b.state[m[j]]
      BY <1>3, <1>9, <2>1
    <3> QED BY <3>1, <3>2, <3>3, <3>4, <3>5, <3>6, <3>7, Zenon DEF Reached, V
  <2> QED BY <2>7, <2>12, Zenon DEF g, r, m
<1>11. CASE k >= nu /\ k < nu + na
  <2>1. na = 1 /\ k = nu
    BY <1>3, <1>11
  <2>2. Len(b.store[agent]) > t.store[agent]
    BY <1>15, <2>1
  <2>3. r = Growth(t, b, agent)[1]
    BY <1>3, <1>6, <2>1 DEF r
  <2>4. /\ r.k = "blob" /\ r.by = agent /\ r.start = t.store[agent]
        /\ r.marks = SubSeq(b.store[agent], t.store[agent] + 1, Len(b.store[agent]))
    BY <1>1, <1>4, <2>2, <2>3, GrowthShape
  <2>5. s.store[agent] = s0.store[agent] /\ s.store[user] = Grown(s0, b, user)
    BY <1>3, <1>5, <2>1
  <2>6. r.start = u.store[r.by]
    BY <1>1, <1>2, <1>4, <2>4, <2>5
  <2>7. Replay(s, r) = Grows(s, r) /\ Fits(Tell(u, r), Grows(s, r))
    BY <1>7, <2>4, <2>6, BlobStep
  <2> DEFINE g == Grows(s, r)
  <2>8. g.store[agent] = Grown(s0, b, agent)
    <3>1. g.store = [s.store EXCEPT ![agent] = s.store[agent] \o r.marks]
      BY <2>4 DEF Grows
    <3>2. s.store \in [Authors -> Seq(Nat)]
      BY <1>2, BuiltParts
    <3>3. g.store[agent] = s.store[agent] \o r.marks
      BY <1>4, <3>1, <3>2
    <3> QED BY <1>1, <1>4, <2>2, <2>4, <2>5, <3>3 DEF Grown
  <2>9. g.store[user] = s.store[user] /\ g.base = s.base /\ g.ops = s.ops /\ g.state = s.state
    BY <1>4, <2>4 DEF Grows
  <2> HIDE DEF g
  <2>10. Reached(g, s0, b, m, k + 1, nu, na, no)
    <3>1. g.base = s0.base
      BY <1>5, <2>9
    <3>2. g.store[user] = IF k + 1 >= nu THEN Grown(s0, b, user) ELSE s0.store[user]
      BY <1>3, <2>1, <2>5, <2>9
    <3>3. g.store[agent] = IF k + 1 >= nu + na THEN Grown(s0, b, agent) ELSE s0.store[agent]
      BY <1>3, <2>1, <2>8
    <3>4. Len(g.ops) = V + (IF k + 1 <= nu + na THEN 0 ELSE IF k + 1 <= nu + na + no THEN (k + 1) - nu - na ELSE no)
      <4>1. k + 1 <= nu + na \/ (~(k + 1 <= nu + na) /\ na = 0)
        BY <1>3, <2>1
      <4>2. Len(g.ops) = V
        BY <1>3, <1>16, <2>1, <2>9
      <4> QED BY <1>3, <2>1, <4>1, <4>2
    <3>5. \A i \in 1 .. Len(g.ops) : g.ops[i] = IF i <= V THEN s0.ops[i] ELSE b.ops[i]
      BY <1>5, <2>9
    <3>6. \A i \in Sets : g.state[i] \in {s0.state[i], b.state[i]}
      BY <1>5, <2>9
    <3>7. \A j \in 1 .. Len(m) : nu + na + no + j <= k + 1 => g.state[m[j]] = b.state[m[j]]
      BY <1>3, <1>9, <2>1
    <3> QED BY <3>1, <3>2, <3>3, <3>4, <3>5, <3>6, <3>7, Zenon DEF Reached, V
  <2> QED BY <2>7, <2>10, Zenon DEF g, r, m
<1>12. CASE k >= nu + na /\ k < nu + na + no
  <2> DEFINE j == k + 1 - nu - na
  <2>1. j \in 1 .. no /\ nu + na + j = k + 1 /\ k >= nu /\ j \in Nat
    BY <1>3, <1>12
  <2>2. r = NewOps(t, b)[j]
    <3> HIDE DEF j
    <3>1. Batch(t, b)[nu + na + j] = NewOps(t, b)[j]
      BY <1>6, <2>1
    <3> QED BY <2>1, <3>1 DEF r
  <2> HIDE DEF j
  <2>3. /\ V + j \in 1 .. Len(b.ops) /\ r.k = "op" /\ r.seq = V + j
        /\ r.by = b.ops[V + j].by /\ r.at = b.ops[V + j].at
    <3>1. \A i \in 1 .. no :
             /\ t.version + i \in 1 .. Version(b)
             /\ NewOps(t, b)[i].k = "op" /\ NewOps(t, b)[i].seq = t.version + i
             /\ NewOps(t, b)[i].by = b.ops[t.version + i].by
             /\ NewOps(t, b)[i].at = b.ops[t.version + i].at
      BY <1>1, <1>8, NewOpsShape
    <3> QED BY <1>1, <2>1, <2>2, <3>1 DEF Version
  <2>4. b.ops[V + j] \in OpRecords /\ r.by \in Authors /\ r.at \in Nat \ {0} /\ r.at <= Len(b.store[r.by])
    BY <2>3, BuiltParts DEF Version
  <2>5. s.store[user] = Grown(s0, b, user) /\ s.store[agent] = Grown(s0, b, agent)
    BY <1>3, <1>5, <1>12, <2>1
  <2>6. r.at <= u.store[r.by]
    <3>1. s.store[r.by] = Grown(s0, b, r.by)
      BY <1>4, <2>4, <2>5
    <3>2. Grown(s0, b, r.by) \in Seq(Nat) /\ Len(Grown(s0, b, r.by)) >= Len(b.store[r.by]) /\ b.store[r.by] \in Seq(Nat)
      BY <1>1, <2>4, GrownShape, BuiltParts
    <3> QED BY <1>2, <2>4, <3>1, <3>2
  <2>7. Len(s.ops) = V + j - 1
    <3>1. k = nu + na => j = 1
      BY <1>3, <2>1
    <3>2. k - nu - na = j - 1
      BY <1>3, <2>1
    <3> QED BY <1>3, <1>12, <1>16, <2>1, <3>1, <3>2
  <2>8. r.seq = u.version + 1
    BY <1>2, <1>3, <2>1, <2>3, <2>7
  <2>9. Replay(s, r) = Extends(s, r) /\ Fits(Tell(u, r), Extends(s, r))
    BY <1>7, <2>3, <2>6, <2>8, OpStep
  <2> DEFINE g == Extends(s, r)
             e == [by |-> r.by, at |-> r.at]
  <2>10. e = b.ops[V + j]
    BY <2>3, <2>4 DEF OpRecords
  <2>11. g.base = s.base /\ g.store = s.store /\ g.state = s.state /\ g.ops = Append(s.ops, b.ops[V + j])
    BY <2>10 DEF Extends
  <2>12. /\ Len(g.ops) = Len(s.ops) + 1 /\ g.ops[Len(s.ops) + 1] = b.ops[V + j]
         /\ \A i \in 1 .. Len(s.ops) : g.ops[i] = s.ops[i]
    <3>1. s.ops \in Seq(OpRecords)
      BY <1>2, BuiltParts
    <3> QED BY <2>4, <2>11, <3>1, AppendElements
  <2> HIDE DEF g, e
  <2>13. Reached(g, s0, b, m, k + 1, nu, na, no)
    <3>1. g.base = s0.base
      BY <1>5, <2>11
    <3>2. g.store[user] = IF k + 1 >= nu THEN Grown(s0, b, user) ELSE s0.store[user]
      BY <1>3, <2>1, <2>5, <2>11
    <3>3. g.store[agent] = IF k + 1 >= nu + na THEN Grown(s0, b, agent) ELSE s0.store[agent]
      BY <1>3, <1>12, <2>5, <2>11
    <3>4. Len(g.ops) = V + (IF k + 1 <= nu + na THEN 0 ELSE IF k + 1 <= nu + na + no THEN (k + 1) - nu - na ELSE no)
      <4>1. ~(k + 1 <= nu + na) /\ k + 1 <= nu + na + no /\ (k + 1) - nu - na = j
        BY <1>3, <1>12, <2>1
      <4>2. Len(g.ops) = V + j
        BY <1>3, <2>1, <2>7, <2>12
      <4> QED BY <4>1, <4>2
    <3>5. \A i \in 1 .. Len(g.ops) : g.ops[i] = IF i <= V THEN s0.ops[i] ELSE b.ops[i]
      <4> SUFFICES ASSUME NEW i \in 1 .. Len(g.ops) PROVE g.ops[i] = IF i <= V THEN s0.ops[i] ELSE b.ops[i]
        OBVIOUS
      <4>1. i \in 1 .. Len(s.ops) \/ i = V + j
        BY <1>3, <2>1, <2>7, <2>12
      <4>2. CASE i \in 1 .. Len(s.ops)
        BY <1>5, <2>12, <4>2
      <4>3. CASE i = V + j
        <5>1. ~(i <= V) /\ Len(s.ops) + 1 = i
          BY <1>3, <2>1, <2>7, <4>3
        <5> QED BY <2>12, <4>3, <5>1
      <4> QED BY <4>1, <4>2, <4>3
    <3>6. \A i \in Sets : g.state[i] \in {s0.state[i], b.state[i]}
      BY <1>5, <2>11
    <3>7. \A i \in 1 .. Len(m) : nu + na + no + i <= k + 1 => g.state[m[i]] = b.state[m[i]]
      BY <1>3, <1>9, <1>12
    <3> QED BY <3>1, <3>2, <3>3, <3>4, <3>5, <3>6, <3>7, Zenon DEF Reached, V
  <2> QED BY <2>9, <2>13, Zenon DEF g, r, m
<1>13. CASE k >= nu + na + no
  <2> DEFINE j == k + 1 - nu - na - no
  <2>1. j \in 1 .. nd /\ nu + na + no + j = k + 1 /\ k >= nu /\ k >= nu + na /\ j \in Nat
    BY <1>3, <1>13
  <2>2. r = NewDecisions(t, b)[j]
    <3> HIDE DEF j
    <3>1. Batch(t, b)[nu + na + no + j] = NewDecisions(t, b)[j]
      BY <1>6, <2>1
    <3> QED BY <2>1, <3>1 DEF r
  <2> HIDE DEF j
  <2>3. m[j] \in Sets /\ r.k = "dec" /\ r.set = m[j] /\ r.to = b.state[m[j]]
    BY <1>1, <1>9, <2>1, <2>2, NewDecisionsShape DEF m
  <2>4. Replay(s, r) = Decides(s, r) /\ Fits(Tell(u, r), Decides(s, r))
    BY <1>7, <2>3, DecisionStep
  <2> DEFINE g == Decides(s, r)
  <2>5. g.base = s.base /\ g.store = s.store /\ g.ops = s.ops
        /\ g.state = [s.state EXCEPT ![m[j]] = b.state[m[j]]]
    BY <2>3 DEF Decides
  <2> HIDE DEF g
  <2>6. s.state \in [Sets -> States]
    BY <1>2, BuiltParts
  <2>7. \A i \in Sets : g.state[i] = IF i = m[j] THEN b.state[i] ELSE s.state[i]
    BY <2>5, <2>6
  <2>8. Reached(g, s0, b, m, k + 1, nu, na, no)
    <3>1. g.base = s0.base
      BY <1>5, <2>5
    <3>2. g.store[user] = IF k + 1 >= nu THEN Grown(s0, b, user) ELSE s0.store[user]
      BY <1>3, <1>5, <2>1, <2>5
    <3>3. g.store[agent] = IF k + 1 >= nu + na THEN Grown(s0, b, agent) ELSE s0.store[agent]
      BY <1>3, <1>5, <2>1, <2>5
    <3>4. Len(g.ops) = V + (IF k + 1 <= nu + na THEN 0 ELSE IF k + 1 <= nu + na + no THEN (k + 1) - nu - na ELSE no)
      <4>1. ~(k + 1 <= nu + na) /\ ~(k + 1 <= nu + na + no)
        BY <1>3, <1>13
      <4>2. Len(s.ops) = V + no
        <5>1. CASE k <= nu + na
          <6>1. no = 0
            BY <1>3, <1>13, <5>1
          <6> QED BY <1>3, <1>16, <5>1, <6>1
        <5>2. CASE ~(k <= nu + na) /\ k <= nu + na + no
          <6>1. k - nu - na = no
            BY <1>3, <1>13, <5>2
          <6> QED BY <1>16, <5>2, <6>1
        <5>3. CASE ~(k <= nu + na) /\ ~(k <= nu + na + no)
          BY <1>16, <5>3
        <5> QED BY <5>1, <5>2, <5>3
      <4> QED BY <2>5, <4>1, <4>2
    <3>5. \A i \in 1 .. Len(g.ops) : g.ops[i] = IF i <= V THEN s0.ops[i] ELSE b.ops[i]
      BY <1>5, <2>5
    <3>6. \A i \in Sets : g.state[i] \in {s0.state[i], b.state[i]}
      BY <1>5, <2>7
    <3>7. \A i \in 1 .. Len(m) : nu + na + no + i <= k + 1 => g.state[m[i]] = b.state[m[i]]
      <4> SUFFICES ASSUME NEW i \in 1 .. Len(m), nu + na + no + i <= k + 1
                   PROVE  g.state[m[i]] = b.state[m[i]]
        OBVIOUS
      <4>1. m[i] \in Sets
        BY <1>9
      <4>2. i = j \/ nu + na + no + i <= k
        BY <1>3, <1>9, <2>1
      <4> QED BY <1>5, <2>7, <4>1, <4>2
    <3> QED BY <3>1, <3>2, <3>3, <3>4, <3>5, <3>6, <3>7, Zenon DEF Reached, V
  <2> QED BY <2>4, <2>8, Zenon DEF g, r, m
<1>14. k < nu \/ (k >= nu /\ k < nu + na) \/ (k >= nu + na /\ k < nu + na + no) \/ k >= nu + na + no
  BY <1>3
<1> QED BY <1>10, <1>11, <1>12, <1>13, <1>14

LEMMA NewTapTyped == NewTap \in Taps /\ TapFromLog(<<>>) = NewTap
<1>1. [a \in Authors |-> 0] \in [Authors -> Nat] /\ [i \in Sets |-> "Accepted"] \in [Sets -> States]
  BY DEF States
<1>2. NewTap \in Taps
  BY <1>1 DEF NewTap, Taps
<1>3. [k |-> "written", hash |-> <<>>, version |-> 0] \in Records
  BY DEF Records
<1>4. Frontier(NewTap, <<>>) = NewTap
  <2>1. <<>> \in Seq(Records)
    OBVIOUS
  <2> QED BY <1>2, <1>3, <2>1, TellAppend, Zenon
<1> QED BY <1>2, <1>4 DEF Frontier, TapFromLog

\* A log that builds, and whose frontier is the one of what it builds.
Sound(l) == l \in Seq(Records) /\ Fits(TapFromLog(l), BuildSession(l))

\* A batch may stop after any of its records: the log stays sound.
LEMMA BatchRuns ==
  ASSUME NEW l, Sound(l), NEW b \in Built, NEW t, t = TapFromLog(l),
         NEW nu, NEW na, NEW no, NEW nd, Parts(nu, na, no, nd, t, b),
         NEW n \in 0 .. nu + na + no + nd
  PROVE  /\ Sound(l \o SubSeq(Batch(t, b), 1, n))
         /\ Reached(BuildSession(l \o SubSeq(Batch(t, b), 1, n)), BuildSession(l), b, Moved(t, b), n, nu, na, no)
<1> DEFINE m == Batch(t, b)
           s0 == BuildSession(l)
           L(i) == l \o SubSeq(m, 1, i)
           P(i) == /\ Sound(L(i))
                   /\ Reached(BuildSession(L(i)), s0, b, Moved(t, b), i, nu, na, no)
           S == {i \in Nat : i <= nu + na + no + nd => P(i)}
<1>1. l \in Seq(Records) /\ Fits(t, s0) /\ t \in Taps
  BY DEF Sound, Fits
<1>2. /\ nu \in 0 .. 1 /\ na \in 0 .. 1 /\ no \in Nat /\ nd \in Nat
      /\ m \in Seq(Records) /\ Len(m) = nu + na + no + nd
  BY <1>1, BatchShape
<1> HIDE DEF m, s0
<1>3. 0 \in S
  <2>1. L(0) = l
    BY <1>1, <1>2, SMT
  <2>2. Reached(s0, s0, b, Moved(t, b), 0, nu, na, no)
    BY <1>1, ReachedStart
  <2> HIDE DEF L
  <2> QED BY <2>1, <2>2 DEF s0
<1>4. ASSUME NEW k \in Nat, k \in S PROVE k + 1 \in S
  <2> SUFFICES ASSUME k + 1 <= nu + na + no + nd PROVE P(k + 1)
    OBVIOUS
  <2>1. P(k) /\ k < nu + na + no + nd /\ k < Len(m)
    BY <1>2, <1>4
  <2> DEFINE a == L(k)
             c == L(k + 1)
             r == m[k + 1]
  <2>2. a \in Seq(Records) /\ r \in Records /\ c = Append(a, r)
    BY <1>1, <1>2, <2>1, NextPrefix
  <2>3. Sound(a) /\ Reached(BuildSession(a), s0, b, Moved(t, b), k, nu, na, no)
    BY <2>1
  <2> HIDE DEF a, c, L
  <2>4. TapFromLog(c) = Tell(TapFromLog(a), r)
    <3>1. Frontier(NewTap, c) = Tell(Frontier(NewTap, a), r)
      BY <2>2, NewTapTyped, TellAppend
    <3> QED BY <3>1 DEF Frontier, TapFromLog
  <2>5. BuildSession(c) = Replay(BuildSession(a), r)
    BY <2>2, BuildAppend
  <2>6. Fits(TapFromLog(a), BuildSession(a))
    BY <2>3 DEF Sound
  <2>7. /\ Fits(Tell(TapFromLog(a), r), Replay(BuildSession(a), r))
        /\ Reached(Replay(BuildSession(a), r), s0, b, Moved(t, b), k + 1, nu, na, no)
    BY <1>1, <2>1, <2>3, <2>6, ReachedNext DEF m
  <2>8. c \in Seq(Records)
    BY <2>2, AppendElements
  <2>9. Sound(c) /\ Reached(BuildSession(c), s0, b, Moved(t, b), k + 1, nu, na, no)
    BY <2>4, <2>5, <2>7, <2>8 DEF Sound
  <2> QED BY <2>9, Zenon DEF c
<1>5. \A i \in Nat : i \in S
  <2> HIDE DEF S
  <2> QED BY <1>3, <1>4, Inductive
<1>6. P(n)
  <2>1. n \in Nat /\ n <= nu + na + no + nd
    BY <1>2
  <2> HIDE DEF P
  <2> QED BY <1>5, <2>1
<1> QED BY <1>6, Zenon DEF m, s0

\* The session s is a state that session b has been in, but for the decisions.
PartOf(s, b) ==
    /\ s \in Built /\ b \in Built
    /\ s.base = b.base
    /\ Version(s) <= Version(b)
    /\ \A i \in 1 .. Version(s) : s.ops[i] = b.ops[i]
    /\ \A a \in Authors : /\ Len(s.store[a]) <= Len(b.store[a])
                          /\ \A i \in 1 .. Len(s.store[a]) : s.store[a][i] = b.store[a][i]

LEMMA Split ==
  ASSUME NEW R, NEW s \in Seq(R), NEW n \in 0 .. Len(s)
  PROVE  SubSeq(s, 1, n) \o SubSeq(s, n + 1, Len(s)) = s
<1>1. /\ SubSeq(s, 1, n) \in Seq(R) /\ Len(SubSeq(s, 1, n)) = n
      /\ \A i \in 1 .. n : SubSeq(s, 1, n)[i] = s[i]
  BY PrefixShape
<1>2. SubSeq(s, n + 1, Len(s)) \in Seq(R) /\ Len(SubSeq(s, n + 1, Len(s))) = Len(s) - n
  BY SMT
<1>3. \A i \in 1 .. Len(s) - n : SubSeq(s, n + 1, Len(s))[i] = s[n + i]
  BY SMT
<1> DEFINE x == SubSeq(s, 1, n)
           y == SubSeq(s, n + 1, Len(s))
           z == x \o y
<1> HIDE DEF x, y
<1>11. x \in Seq(R) /\ y \in Seq(R)
  BY <1>1, <1>2 DEF x, y
<1>4. z \in Seq(R)
  BY <1>11, ConcatElements
<1>5. Len(z) = Len(x) + Len(y)
  BY <1>11, ConcatElements
<1>6. \A i \in 1 .. Len(x) : z[i] = x[i]
  BY <1>11, ConcatElements
<1>7. \A i \in 1 .. Len(y) : z[Len(x) + i] = y[i]
  BY <1>11, ConcatElements
<1> HIDE DEF z
<1>8. Len(x) = n /\ Len(y) = Len(s) - n
  BY <1>1, <1>2 DEF x, y
<1>9. \A i \in 1 .. Len(s) : z[i] = s[i]
  <2> SUFFICES ASSUME NEW i \in 1 .. Len(s) PROVE z[i] = s[i]
    OBVIOUS
  <2>1. CASE i <= n
    BY <1>1, <1>6, <1>8, <2>1 DEF x
  <2>2. CASE i > n
    <3>1. i - n \in 1 .. Len(s) - n /\ n + (i - n) = i
      BY <2>2
    <3> QED BY <1>3, <1>7, <1>8, <3>1 DEF y
  <2> QED BY <2>1, <2>2
<1>10. z = s
  BY <1>4, <1>5, <1>8, <1>9, SameSequence
<1> QED BY <1>10 DEF x, y, z

LEMMA GrownIsWhole ==
  ASSUME NEW s, NEW b, PartOf(s, b), NEW a \in Authors
  PROVE  Grown(s, b, a) = b.store[a]
<1> DEFINE x == s.store[a]
           y == b.store[a]
<1>1. x \in Seq(Nat) /\ y \in Seq(Nat) /\ Len(x) <= Len(y) /\ \A i \in 1 .. Len(x) : x[i] = y[i]
  BY BuiltParts DEF PartOf
<1>2. CASE Len(y) > Len(x)
  <2>1. Grown(s, b, a) = x \o SubSeq(y, Len(x) + 1, Len(y))
    BY <1>2 DEF Grown
  <2> HIDE DEF x, y
  <2>2. x = SubSeq(y, 1, Len(x))
    BY <1>1, SMT
  <2>3. SubSeq(y, 1, Len(x)) \o SubSeq(y, Len(x) + 1, Len(y)) = y
    <3>1. Len(x) \in 0 .. Len(y)
      BY <1>1
    <3> QED BY <1>1, <3>1, Split
  <2>4. x \o SubSeq(y, Len(x) + 1, Len(y)) = y
    BY <2>2, <2>3
  <2> QED BY <2>1, <2>4 DEF y
<1>3. CASE ~(Len(y) > Len(x))
  <2>1. Grown(s, b, a) = x
    BY <1>3 DEF Grown
  <2> HIDE DEF x, y
  <2>2. Len(x) = Len(y)
    BY <1>1, <1>3
  <2>3. x = y
    BY <1>1, <2>2, SameSequence
  <2> QED BY <2>1, <2>3 DEF y
<1> QED BY <1>2, <1>3

\* What a log m that built s0 builds once n of the records of a batch are in it.
MadeOf(s, s0, b, m, n, size) ==
    /\ Sound(m) /\ s.base = s0.base
    /\ Version(s) <= Version(s0) \/ Version(s) <= Version(b)
    /\ PartOf(s0, b) => PartOf(s, b)
    /\ PartOf(s0, b) /\ n = size =>
          /\ s.ops = b.ops /\ s.store = b.store
          /\ \A i \in Sets : i <= Version(b) => s.state[i] = b.state[i]

\* A batch makes no session that its buffer was not, whole or cut short; whole it
\* makes the session of the buffer, decisions included.
LEMMA BatchMakes ==
  ASSUME NEW l, Sound(l), NEW b \in Built, NEW t, t = TapFromLog(l), NEW s0, s0 = BuildSession(l),
         NEW n \in 0 .. Len(Batch(t, b)),
         NEW m, m = l \o SubSeq(Batch(t, b), 1, n), NEW s, s = BuildSession(m)
  PROVE  MadeOf(s, s0, b, m, n, Len(Batch(t, b)))
<1> DEFINE nu == Len(Growth(t, b, user))
           na == Len(Growth(t, b, agent))
           no == Len(NewOps(t, b))
           nd == Len(NewDecisions(t, b))
           d == Moved(t, b)
<1>1. t \in Taps /\ s0 \in Built /\ Fits(t, s0) /\ t.version = Len(s0.ops) /\ t.state = s0.state
  BY DEF Sound, Fits, Version
<1>2. Parts(nu, na, no, nd, t, b)
  BY DEF Parts
<1>3. no = IF t.version < Version(b) THEN Version(b) - t.version ELSE 0
  BY <1>1, NewOpsShape
<1>4. /\ d \in Seq(Sets) /\ Len(d) = nd
      /\ \A i \in Sets : i \in 1 .. Version(b) /\ b.state[i] # t.state[i] => \E j \in 1 .. Len(d) : d[j] = i
  BY <1>1, NewDecisionsShape
<1> HIDE DEF nu, na, no, nd, d
<1>5. /\ nu \in 0 .. 1 /\ na \in 0 .. 1 /\ no \in Nat /\ nd \in Nat
      /\ Len(Batch(t, b)) = nu + na + no + nd
  BY <1>1, <1>2, BatchShape
<1>6. Sound(m) /\ Reached(s, s0, b, d, n, nu, na, no)
  <2>1. n \in 0 .. nu + na + no + nd
    BY <1>5
  <2> QED BY <1>2, <2>1, BatchRuns DEF d
<1>7. s \in Built /\ Len(s.ops) \in Nat /\ Len(s0.ops) \in Nat /\ Version(b) \in Nat
      /\ Version(b) = Len(b.ops)
  BY <1>1, <1>6, BuiltParts DEF Sound, Fits
<1>8. /\ s.base = s0.base
      /\ s.store[user] = IF n >= nu THEN Grown(s0, b, user) ELSE s0.store[user]
      /\ s.store[agent] = IF n >= nu + na THEN Grown(s0, b, agent) ELSE s0.store[agent]
      /\ \A i \in 1 .. Len(s.ops) : s.ops[i] = IF i <= Len(s0.ops) THEN s0.ops[i] ELSE b.ops[i]
      /\ \A i \in Sets : s.state[i] \in {s0.state[i], b.state[i]}
      /\ \A j \in 1 .. Len(d) : nu + na + no + j <= n => s.state[d[j]] = b.state[d[j]]
  BY <1>6 DEF Reached
<1> DEFINE x == IF n <= nu + na THEN 0 ELSE IF n <= nu + na + no THEN n - nu - na ELSE no
<1>9. Len(s.ops) = Len(s0.ops) + x
  BY <1>6, Zenon DEF Reached
<1>10. x \in 0 .. no /\ (n = nu + na + no + nd => x = no)
  <2>1. CASE n <= nu + na
    BY <1>5, <2>1
  <2>2. CASE ~(n <= nu + na) /\ n <= nu + na + no
    BY <1>5, <2>2
  <2>3. CASE ~(n <= nu + na) /\ ~(n <= nu + na + no)
    BY <1>5, <2>3
  <2> QED BY <2>1, <2>2, <2>3
<1> HIDE DEF x
<1>11. Version(s) <= Version(s0) \/ Version(s) <= Version(b)
  BY <1>1, <1>3, <1>7, <1>9, <1>10 DEF Version
<1>12. user \in Authors /\ agent \in Authors /\ \A a \in Authors : a = user \/ a = agent
  BY DEF Authors
<1>13. ASSUME PartOf(s0, b)
       PROVE  /\ Grown(s0, b, user) = b.store[user] /\ Grown(s0, b, agent) = b.store[agent]
              /\ Len(s0.ops) <= Version(b) /\ s0.base = b.base
              /\ \A i \in 1 .. Len(s0.ops) : s0.ops[i] = b.ops[i]
              /\ \A a \in Authors : /\ Len(s0.store[a]) <= Len(b.store[a])
                                    /\ \A i \in 1 .. Len(s0.store[a]) : s0.store[a][i] = b.store[a][i]
  <2>1. Grown(s0, b, user) = b.store[user] /\ Grown(s0, b, agent) = b.store[agent]
    BY <1>12, <1>13, GrownIsWhole
  <2> QED BY <1>13, <2>1, Zenon DEF PartOf, Version
<1>14. ASSUME PartOf(s0, b) PROVE PartOf(s, b)
  <2>1. Len(s.ops) <= Version(b)
    BY <1>1, <1>3, <1>7, <1>9, <1>10, <1>13, <1>14
  <2>2. \A i \in 1 .. Len(s.ops) : s.ops[i] = b.ops[i]
    <3> SUFFICES ASSUME NEW i \in 1 .. Len(s.ops) PROVE s.ops[i] = b.ops[i]
      OBVIOUS
    <3>1. CASE i <= Len(s0.ops)
      BY <1>7, <1>8, <1>13, <1>14, <3>1
    <3>2. CASE ~(i <= Len(s0.ops))
      BY <1>8, <3>2
    <3> QED BY <3>1, <3>2
  <2>3. ASSUME NEW a \in Authors
        PROVE  /\ Len(s.store[a]) <= Len(b.store[a])
               /\ \A i \in 1 .. Len(s.store[a]) : s.store[a][i] = b.store[a][i]
    <3>1. s.store[a] = s0.store[a] \/ s.store[a] = b.store[a]
      <4>1. CASE a = user
        BY <1>8, <1>13, <1>14, <4>1, Zenon
      <4>2. CASE a = agent
        BY <1>8, <1>13, <1>14, <4>2, Zenon
      <4> QED BY <1>12, <4>1, <4>2, Zenon
    <3>2. CASE s.store[a] = s0.store[a]
      BY <1>13, <1>14, <3>2
    <3>3. CASE s.store[a] = b.store[a]
      <4>1. b.store[a] \in Seq(Nat)
        BY BuiltParts
      <4> QED BY <3>3, <4>1
    <3> QED BY <3>1, <3>2, <3>3
  <2> QED BY <1>7, <1>8, <1>13, <1>14, <2>1, <2>2, <2>3 DEF PartOf, Version
<1>15. ASSUME PartOf(s0, b), n = Len(Batch(t, b))
       PROVE  /\ s.ops = b.ops /\ s.store = b.store
              /\ \A i \in Sets : i <= Version(b) => s.state[i] = b.state[i]
  <2>1. n = nu + na + no + nd
    BY <1>5, <1>15
  <2>2. s.store[user] = b.store[user] /\ s.store[agent] = b.store[agent]
    BY <1>5, <1>8, <1>13, <1>15, <2>1
  <2>3. s.store = b.store
    <3>1. s.store \in [Authors -> Seq(Nat)] /\ b.store \in [Authors -> Seq(Nat)]
      BY <1>7, BuiltParts
    <3>2. \A a \in Authors : s.store[a] = b.store[a]
      BY <1>12, <2>2
    <3> QED BY <3>1, <3>2
  <2>4. Len(s.ops) = Len(b.ops)
    <3>1. x = no
      BY <1>10, <2>1
    <3>2. Len(s0.ops) <= Version(b)
      BY <1>13, <1>15
    <3>3. no = Version(b) - Len(s0.ops)
      <4>1. t.version = Len(s0.ops)
        BY <1>1
      <4>2. CASE Len(s0.ops) < Version(b)
        BY <1>3, <4>1, <4>2
      <4>3. CASE ~(Len(s0.ops) < Version(b))
        <5>1. no = 0
          BY <1>3, <4>1, <4>3
        <5>2. Len(s0.ops) = Version(b)
          BY <1>7, <3>2, <4>3
        <5> QED BY <1>7, <5>1, <5>2
      <4> QED BY <4>2, <4>3
    <3> QED BY <1>7, <1>9, <3>1, <3>3
  <2>5. s.ops = b.ops
    <3>1. PartOf(s, b)
      BY <1>14, <1>15
    <3>2. \A i \in 1 .. Len(s.ops) : s.ops[i] = b.ops[i]
      BY <3>1 DEF PartOf, Version
    <3>3. s.ops \in Seq(OpRecords) /\ b.ops \in Seq(OpRecords)
      BY <1>7, BuiltParts
    <3> QED BY <2>4, <3>2, <3>3, SameSequence
  <2>6. ASSUME NEW i \in Sets, i <= Version(b) PROVE s.state[i] = b.state[i]
    <3>1. CASE b.state[i] = t.state[i]
      BY <1>1, <1>8, <3>1
    <3>2. CASE b.state[i] # t.state[i]
      <4>1. i \in 1 .. Version(b)
        BY <1>7, <2>6, BoundAssumption DEF Sets
      <4>2. PICK j \in 1 .. Len(d) : d[j] = i
        BY <1>4, <3>2, <4>1
      <4>3. nu + na + no + j <= n
        BY <1>4, <1>5, <2>1
      <4> QED BY <1>8, <4>2, <4>3
    <3> QED BY <3>1, <3>2
  <2> QED BY <2>3, <2>5, <2>6
<1> QED BY <1>6, <1>8, <1>11, <1>14, <1>15, Zenon DEF MadeOf

-----------------------------------------------------------------------------
(* Texts.                                                                  *)

MarkOf(s, i) == s.store[s.ops[i].by][s.ops[i].at]
Chosen(s, keep) == Filter([i \in 1 .. Version(s) |-> i], {i \in Sets : s.state[i] \in keep})

LEMMA ChosenShape ==
  ASSUME NEW s \in Built, NEW keep
  PROVE  /\ Chosen(s, keep) \in Seq(Nat)
         /\ Text(s, keep) = s.base \o [j \in DOMAIN Chosen(s, keep) |-> MarkOf(s, Chosen(s, keep)[j])]
         /\ \A j \in DOMAIN Chosen(s, keep) : /\ Chosen(s, keep)[j] \in 1 .. Version(s)
                                              /\ Chosen(s, keep)[j] \in Sets
                                              /\ s.state[Chosen(s, keep)[j]] \in keep
<1> DEFINE all == [i \in 1 .. Version(s) |-> i]
           T == {i \in Sets : s.state[i] \in keep}
<1>1. all \in Seq(Nat) /\ Range(all) = 1 .. Version(s)
  <2>1. Version(s) \in Nat
    BY BuiltParts
  <2>2. all \in Seq(Nat)
    BY <2>1
  <2>3. DOMAIN all = 1 .. Version(s) /\ \A i \in 1 .. Version(s) : all[i] = i
    BY <2>1
  <2> HIDE DEF all
  <2> QED BY <2>2, <2>3, Zenon DEF Range
<1> HIDE DEF all, T
<1>2. Filter(all, T) \in Seq(Nat) /\ Range(Filter(all, T)) = Range(all) \cap T
  BY <1>1, FilterElements
<1>3. Chosen(s, keep) = Filter(all, T)
  BY Zenon DEF Chosen, all, T
<1>4. \A j \in DOMAIN Chosen(s, keep) : Chosen(s, keep)[j] \in Range(all) \cap T
  BY <1>2, <1>3, Zenon DEF Range
<1>5. Text(s, keep) = s.base \o [j \in DOMAIN Chosen(s, keep) |-> MarkOf(s, Chosen(s, keep)[j])]
  BY DEF Text, Chosen, MarkOf
<1> QED BY <1>1, <1>2, <1>3, <1>4, <1>5 DEF T

LEMMA MarkTyped ==
  ASSUME NEW s \in Built, NEW i \in 1 .. Version(s)
  PROVE  /\ MarkOf(s, i) \in Nat /\ s.ops[i].by \in Authors
         /\ MarkOf(s, i) \in ToSet(s.store[s.ops[i].by])
<1>1. s.ops[i].by \in Authors /\ s.ops[i].at \in Nat \ {0}
      /\ s.ops[i].at <= Len(s.store[s.ops[i].by]) /\ s.store \in [Authors -> Seq(Nat)]
  BY BuiltParts
<1>2. s.store[s.ops[i].by] \in Seq(Nat)
  BY <1>1
<1>3. s.ops[i].at \in DOMAIN s.store[s.ops[i].by]
  BY <1>1, <1>2
<1>4. MarkOf(s, i) \in Nat
  <2> DEFINE q == s.store[s.ops[i].by]
             k == s.ops[i].at
  <2>1. q \in Seq(Nat) /\ k \in DOMAIN q /\ MarkOf(s, i) = q[k]
    BY <1>2, <1>3 DEF MarkOf
  <2> HIDE DEF q, k
  <2> QED BY <2>1
<1> QED BY <1>1, <1>3, <1>4, Zenon DEF MarkOf, ToSet

\* A text is the base, then bytes of the ops it is of.
LEMMA TextShape ==
  ASSUME NEW s \in Built, NEW keep
  PROVE  /\ Text(s, keep) \in Seq(Nat)
         /\ \A x \in ToSet(Text(s, keep)) :
               \/ x \in ToSet(s.base)
               \/ \E i \in 1 .. Version(s) : i \in Sets /\ s.state[i] \in keep /\ x = MarkOf(s, i)
<1> DEFINE k == Chosen(s, keep)
           m == [j \in DOMAIN k |-> MarkOf(s, k[j])]
<1>1. k \in Seq(Nat) /\ Text(s, keep) = s.base \o m
      /\ \A j \in DOMAIN k : k[j] \in 1 .. Version(s) /\ k[j] \in Sets /\ s.state[k[j]] \in keep
  BY ChosenShape
<1> HIDE DEF k
<1>2. \A j \in DOMAIN k : MarkOf(s, k[j]) \in Nat
  BY <1>1, MarkTyped
<1>3. m \in Seq(Nat) /\ DOMAIN m = DOMAIN k /\ \A j \in DOMAIN k : m[j] = MarkOf(s, k[j])
  <2>1. DOMAIN k = 1 .. Len(k) /\ Len(k) \in Nat
    BY <1>1
  <2> QED BY <1>2, <2>1
<1> HIDE DEF m
<1>4. s.base \in Seq(Nat)
  BY BuiltParts
<1>5. s.base \o m \in Seq(Nat) /\ Range(s.base \o m) \subseteq Range(s.base) \cup Range(m)
  BY <1>3, <1>4, RangeOfConcat
<1>6. \A x \in ToSet(s.base \o m) : x \in ToSet(s.base) \/ \E j \in DOMAIN m : x = m[j]
  BY <1>5, Zenon DEF Range, ToSet
<1>7. ASSUME NEW x \in ToSet(s.base \o m), x \notin ToSet(s.base)
      PROVE  \E i \in 1 .. Version(s) : i \in Sets /\ s.state[i] \in keep /\ x = MarkOf(s, i)
  <2>1. PICK j \in DOMAIN m : x = m[j]
    BY <1>6, <1>7, Zenon
  <2> QED BY <1>1, <1>3, <2>1, Zenon
<1> QED BY <1>1, <1>5, <1>7, Zenon

\* A session another one was has the text that one had.
LEMMA WholeOfPart ==
  ASSUME NEW s, NEW b, PartOf(s, b)
  PROVE  Whole(s) = Whole(Prefix(b, Version(s)))
<1> DEFINE n == Version(s)
           p == Prefix(b, n)
           k == Chosen(s, States)
<1>1. s \in Built /\ b \in Built /\ n \in 0 .. Len(b.ops)
  BY BuiltParts DEF PartOf
<1>2. SubSeq(b.ops, 1, n) \in Seq(OpRecords) /\ Len(SubSeq(b.ops, 1, n)) = n
      /\ \A i \in 1 .. n : SubSeq(b.ops, 1, n)[i] = b.ops[i]
  BY <1>1, BuiltParts, PrefixShape
<1>0. p = [base |-> b.base, ops |-> SubSeq(b.ops, 1, n), store |-> b.store, state |-> b.state]
  <2> DEFINE o == SubSeq(b.ops, 1, n)
  <2>1. b = [base |-> b.base, ops |-> b.ops, store |-> b.store, state |-> b.state]
    BY <1>1, BuiltParts
  <2>2. p = [b EXCEPT !.ops = o]
    BY DEF Prefix
  <2> HIDE DEF o, p
  <2>3. p = [base |-> b.base, ops |-> o, store |-> b.store, state |-> b.state]
    BY <2>1, <2>2, SMT
  <2> QED BY <2>3, Zenon DEF o
<1> HIDE DEF p
<1>3. p.base = b.base /\ p.ops = SubSeq(b.ops, 1, n) /\ p.store = b.store /\ p.state = b.state
  BY <1>0
<1>4. \A i \in 1 .. n : p.ops[i].at <= Len(p.store[p.ops[i].by])
  <2> SUFFICES ASSUME NEW i \in 1 .. n PROVE p.ops[i].at <= Len(p.store[p.ops[i].by])
    OBVIOUS
  <2>1. p.ops[i] = b.ops[i] /\ i \in 1 .. Version(b)
    BY <1>1, <1>2, <1>3, BuiltParts DEF PartOf
  <2> QED BY <1>1, <1>3, <2>1, BuiltParts
<1>5. p \in Built
  <2> DEFINE o == SubSeq(b.ops, 1, n)
  <2>1. o \in Seq(OpRecords) /\ p.ops = o /\ Len(o) = n
    BY <1>2, <1>3
  <2> HIDE DEF o
  <2>2. \A i \in 1 .. Len(o) : o[i].at <= Len(b.store[o[i].by])
    BY <1>3, <1>4, <2>1
  <2>3. [base |-> b.base, ops |-> o, store |-> b.store, state |-> b.state] \in Built
    BY <1>1, <2>1, <2>2, BuiltParts, PartsBuild
  <2> QED BY <1>0, <2>3 DEF o
<1>6. Version(p) = n
  BY <1>2, <1>3 DEF Version
<1> HIDE DEF p, n
<1>7. Chosen(p, States) = k
  <2>1. {i \in Sets : p.state[i] \in States} = {i \in Sets : s.state[i] \in States}
    BY <1>1, <1>5, BuiltParts
  <2> QED BY <1>6, <2>1, Zenon DEF Chosen, n
<1>8. ASSUME NEW i \in 1 .. n PROVE MarkOf(p, i) = MarkOf(s, i)
  <2>1. p.ops[i] = s.ops[i]
    BY <1>2, <1>3 DEF PartOf, n
  <2>2. s.ops[i].by \in Authors /\ s.ops[i].at \in 1 .. Len(s.store[s.ops[i].by])
    BY <1>1, BuiltParts DEF n
  <2> QED BY <1>3, <2>1, <2>2 DEF PartOf, MarkOf
<1>9. \A j \in DOMAIN k : k[j] \in 1 .. n
  BY <1>1, ChosenShape DEF n
<1>10. [j \in DOMAIN k |-> MarkOf(p, k[j])] = [j \in DOMAIN k |-> MarkOf(s, k[j])]
  BY <1>8, <1>9
<1>11. Text(s, States) = s.base \o [j \in DOMAIN k |-> MarkOf(s, k[j])]
  BY <1>1, ChosenShape
<1>12. Text(p, States) = p.base \o [j \in DOMAIN k |-> MarkOf(p, k[j])]
  BY <1>5, <1>7, ChosenShape
<1>13. p.base = s.base
  BY <1>3 DEF PartOf
<1> HIDE DEF k
<1>14. Text(p, States) = Text(s, States)
  BY <1>10, <1>11, <1>12, <1>13
<1> QED BY <1>14, Zenon DEF Whole, p, n

-----------------------------------------------------------------------------
(* Operations on a session.                                                *)

LEMMA PartOfItself ==
  ASSUME NEW s \in Built
  PROVE  PartOf(s, s)
<1>1. Version(s) \in Nat /\ s.store \in [Authors -> Seq(Nat)]
  BY BuiltParts
<1>2. \A a \in Authors : Len(s.store[a]) \in Nat
  BY <1>1
<1> QED BY <1>1, <1>2 DEF PartOf

LEMMA PartOfPart ==
  ASSUME NEW x, NEW y, NEW z, PartOf(x, y), PartOf(y, z)
  PROVE  PartOf(x, z)
<1>1. x \in Built /\ y \in Built /\ z \in Built
  BY DEF PartOf
<1>2. Version(x) \in Nat /\ Version(y) \in Nat /\ Version(z) \in Nat
  BY <1>1, BuiltParts
<1>3. \A a \in Authors : Len(x.store[a]) \in Nat /\ Len(y.store[a]) \in Nat /\ Len(z.store[a]) \in Nat
  BY <1>1, BuiltParts
<1>4. Version(x) <= Version(z) /\ \A i \in 1 .. Version(x) : i \in 1 .. Version(y)
  BY <1>2 DEF PartOf
<1>5. ASSUME NEW a \in Authors
      PROVE  /\ Len(x.store[a]) <= Len(z.store[a])
             /\ \A i \in 1 .. Len(x.store[a]) : x.store[a][i] = z.store[a][i]
  <2>1. Len(x.store[a]) <= Len(y.store[a]) /\ Len(y.store[a]) <= Len(z.store[a])
    BY DEF PartOf
  <2>2. \A i \in 1 .. Len(x.store[a]) : i \in 1 .. Len(y.store[a])
    BY <1>3, <2>1
  <2>3. \A i \in 1 .. Len(x.store[a]) : x.store[a][i] = z.store[a][i]
    BY <2>2, Zenon DEF PartOf
  <2>4. Len(x.store[a]) <= Len(z.store[a])
    BY <1>3, <2>1
  <2> QED BY <2>3, <2>4, Zenon
<1>6. \A i \in 1 .. Version(x) : x.ops[i] = z.ops[i]
  BY <1>4, Zenon DEF PartOf
<1>7. x.base = z.base
  BY DEF PartOf
<1> QED BY <1>1, <1>4, <1>5, <1>6, <1>7, Zenon DEF PartOf

\* Decisions are no part of it.
LEMMA PartOfDecided ==
  ASSUME NEW s \in Built, NEW d \in [Sets -> States], NEW b, b = [s EXCEPT !.state = d]
  PROVE  /\ b \in Built /\ b.base = s.base /\ b.ops = s.ops /\ b.store = s.store /\ b.state = d
         /\ Version(b) = Version(s) /\ PartOf(s, b)
<1>1. b \in Built /\ b = [base |-> s.base, ops |-> s.ops, store |-> s.store, state |-> d]
  BY DecidedBuilt
<1>2. b.base = s.base /\ b.ops = s.ops /\ b.store = s.store /\ b.state = d
  BY <1>1
<1>3. Version(b) = Version(s)
  BY <1>2 DEF Version
<1>4. PartOf(s, s)
  BY PartOfItself
<1>5. PartOf(s, b)
  BY <1>1, <1>2, <1>3, <1>4, Zenon DEF PartOf
<1> QED BY <1>1, <1>2, <1>3, <1>5

LEMMA CommitShape ==
  ASSUME NEW s \in Built, NEW a \in Authors, NEW m \in Nat, NEW c, c = Commit(s, a, m)
  PROVE  /\ c \in Built /\ c.base = s.base /\ c.state = s.state
         /\ c.store = [s.store EXCEPT ![a] = Append(s.store[a], m)]
         /\ Version(c) = Version(s) + 1
         /\ \A i \in 1 .. Version(s) : c.ops[i] = s.ops[i]
         /\ c.ops[Version(s) + 1] = [by |-> a, at |-> Len(s.store[a]) + 1]
         /\ PartOf(s, c)
<1> DEFINE e == [by |-> a, at |-> Len(s.store[a]) + 1]
           st == [s.store EXCEPT ![a] = Append(s.store[a], m)]
           o == Append(s.ops, e)
<1>1. s.store \in [Authors -> Seq(Nat)] /\ s.ops \in Seq(OpRecords) /\ Version(s) \in Nat
      /\ Version(s) = Len(s.ops)
  BY BuiltParts
<1>2. s.store[a] \in Seq(Nat)
  BY <1>1
<1>3. /\ st \in [Authors -> Seq(Nat)] /\ Len(st[a]) = Len(s.store[a]) + 1
      /\ \A b \in Authors : Len(s.store[b]) \in Nat /\ Len(s.store[b]) <= Len(st[b])
                            /\ Len(st[b]) \in Nat
                            /\ \A i \in 1 .. Len(s.store[b]) : st[b][i] = s.store[b][i]
  <2>1. /\ Append(s.store[a], m) \in Seq(Nat) /\ Len(Append(s.store[a], m)) = Len(s.store[a]) + 1
        /\ \A i \in 1 .. Len(s.store[a]) : Append(s.store[a], m)[i] = s.store[a][i]
    BY <1>2, AppendElements
  <2> DEFINE v == Append(s.store[a], m)
  <2> HIDE DEF v
  <2>2. st = [s.store EXCEPT ![a] = v]
    BY DEF v
  <2>3. v \in Seq(Nat) /\ Len(v) = Len(s.store[a]) + 1
        /\ \A i \in 1 .. Len(s.store[a]) : v[i] = s.store[a][i]
    BY <2>1 DEF v
  <2> HIDE DEF st
  <2>4. st \in [Authors -> Seq(Nat)] /\ st[a] = v /\ \A b \in Authors : b # a => st[b] = s.store[b]
    BY <1>1, <2>2, <2>3
  <2>5. \A b \in Authors : Len(s.store[b]) \in Nat
    BY <1>1
  <2>6. \A b \in Authors : Len(st[b]) \in Nat
    BY <2>4
  <2>7. ASSUME NEW b \in Authors
        PROVE  /\ Len(s.store[b]) <= Len(st[b])
               /\ \A i \in 1 .. Len(s.store[b]) : st[b][i] = s.store[b][i]
    <3>1. CASE b = a
      <4>1. Len(s.store[a]) \in Nat
        BY <2>5
      <4> QED BY <2>3, <2>4, <3>1, <4>1
    <3>2. CASE b # a
      <4>1. st[b] = s.store[b] /\ Len(s.store[b]) \in Nat
        BY <2>4, <2>5, <3>2
      <4> QED BY <4>1
    <3> QED BY <3>1, <3>2
  <2> QED BY <2>3, <2>4, <2>5, <2>6, <2>7
<1>4. e \in OpRecords /\ e.by = a /\ e.at = Len(s.store[a]) + 1
  BY <1>2 DEF OpRecords
<1>5. c = [s EXCEPT !.store = st, !.ops = o]
  BY DEF Commit
<1>6. s = [base |-> s.base, ops |-> s.ops, store |-> s.store, state |-> s.state]
  BY BuiltParts
<1> HIDE DEF st, e
<1>7. /\ o \in Seq(OpRecords) /\ Len(o) = Len(s.ops) + 1 /\ o[Len(s.ops) + 1] = e
      /\ \A i \in 1 .. Len(s.ops) : o[i] = s.ops[i]
  BY <1>1, <1>4, AppendElements
<1> HIDE DEF o
<1>8. c = [base |-> s.base, ops |-> o, store |-> st, state |-> s.state]
  <2> DEFINE q == [s EXCEPT !.store = st]
  <2>1. q = [base |-> s.base, ops |-> s.ops, store |-> st, state |-> s.state]
    BY <1>6, SMT
  <2>2. c = [q EXCEPT !.ops = o]
    BY <1>5
  <2> HIDE DEF q
  <2> QED BY <2>1, <2>2
<1>9. \A i \in 1 .. Len(o) : o[i].at <= Len(st[o[i].by])
  <2> SUFFICES ASSUME NEW i \in 1 .. Len(o) PROVE o[i].at <= Len(st[o[i].by])
    OBVIOUS
  <2>1. i \in 1 .. Len(s.ops) \/ i = Len(s.ops) + 1
    BY <1>1, <1>7
  <2>2. CASE i \in 1 .. Len(s.ops)
    <3> DEFINE x == s.ops[i].by
               y == s.ops[i].at
    <3>1. o[i] = s.ops[i]
      BY <1>7, <2>2
    <3>2. x \in Authors /\ y \in Nat /\ y <= Len(s.store[x])
      BY <1>1, <2>2, BuiltParts
    <3>3. o[i].by = x /\ o[i].at = y
      BY <3>1
    <3> HIDE DEF x, y
    <3>4. Len(s.store[x]) \in Nat /\ Len(s.store[x]) <= Len(st[x]) /\ Len(st[x]) \in Nat
      BY <1>3, <3>2, Zenon
    <3> QED BY <3>2, <3>3, <3>4
  <2>3. CASE i = Len(s.ops) + 1
    BY <1>2, <1>3, <1>4, <1>7, <2>3
  <2> QED BY <2>1, <2>2, <2>3
<1>10. c \in Built
  <2>1. [base |-> s.base, ops |-> o, store |-> st, state |-> s.state] \in Built
    BY <1>3, <1>7, <1>9, BuiltParts, PartsBuild
  <2> QED BY <1>8, <2>1
<1>11. c.base = s.base /\ c.state = s.state /\ c.store = st /\ c.ops = o
  BY <1>8
<1>12. Version(c) = Version(s) + 1
  BY <1>1, <1>7, <1>11 DEF Version
<1>13. \A i \in 1 .. Version(s) : c.ops[i] = s.ops[i]
  BY <1>1, <1>7, <1>11
<1>14. PartOf(s, c)
  BY <1>1, <1>3, <1>10, <1>11, <1>12, <1>13 DEF PartOf
<1> QED BY <1>1, <1>7, <1>10, <1>11, <1>12, <1>13, <1>14 DEF st, e

LEMMA CommittedOp ==
  ASSUME NEW s \in Built, NEW a \in Authors, NEW m \in Nat, NEW c, c = Commit(s, a, m)
  PROVE  c.ops[Version(s) + 1] = [by |-> a, at |-> Len(s.store[a]) + 1]
<1> DEFINE e == [by |-> a, at |-> Len(s.store[a]) + 1]
           st == [s.store EXCEPT ![a] = Append(s.store[a], m)]
<1>1. s.ops \in Seq(OpRecords) /\ Version(s) = Len(s.ops) /\ s.store \in [Authors -> Seq(Nat)]
  BY BuiltParts
<1>2. s.store[a] \in Seq(Nat)
  BY <1>1
<1>3. e \in OpRecords
  BY <1>2 DEF OpRecords
<1>4. c = [s EXCEPT !.store = st, !.ops = Append(s.ops, e)]
  BY DEF Commit
<1> HIDE DEF e, st
<1>5. s = [base |-> s.base, ops |-> s.ops, store |-> s.store, state |-> s.state]
  BY BuiltParts
<1>6. c.ops = Append(s.ops, e)
  <2> DEFINE o == Append(s.ops, e)
  <2> HIDE DEF o
  <2>1. c = [s EXCEPT !.store = st, !.ops = o]
    BY <1>4 DEF o
  <2>2. c.ops = o
    BY <1>5, <2>1
  <2> QED BY <2>2 DEF o
<1>7. c.ops[Version(s) + 1] = e
  BY <1>1, <1>3, <1>6, AppendElements
<1> QED BY <1>7 DEF e

\* The agent's op opens a proposed set.
\* p is s with set v proposed.
IsProposed(p, s, v) == p = [s EXCEPT !.state[v] = "Proposed"]

LEMMA ProposedShape ==
  ASSUME NEW s \in Built, NEW v \in Nat, NEW p, IsProposed(p, s, v)
  PROVE  /\ p \in Built /\ p.base = s.base /\ p.ops = s.ops /\ p.store = s.store
         /\ p.state = [s.state EXCEPT ![v] = "Proposed"]
         /\ Version(p) = Version(s) /\ PartOf(s, p)
<1> DEFINE d == [s.state EXCEPT ![v] = "Proposed"]
<1>1. d \in [Sets -> States]
  <2>1. s.state \in [Sets -> States] /\ "Proposed" \in States
    BY BuiltParts DEF States
  <2> QED BY <2>1
<1>2. p = [s EXCEPT !.state = d]
  BY DEF IsProposed
<1> HIDE DEF d
<1>3. /\ p \in Built /\ p.base = s.base /\ p.ops = s.ops /\ p.store = s.store /\ p.state = d
      /\ Version(p) = Version(s) /\ PartOf(s, p)
  BY <1>1, <1>2, PartOfDecided
<1> QED BY <1>3 DEF d

LEMMA AcceptShape ==
  ASSUME NEW s \in Built, NEW p, p = AcceptPending(s)
  PROVE  /\ p \in Built /\ p.base = s.base /\ p.ops = s.ops /\ p.store = s.store
         /\ p.state = [i \in Sets |-> IF i \in Pending(s) THEN "Accepted" ELSE s.state[i]]
         /\ Version(p) = Version(s) /\ PartOf(s, p)
<1> DEFINE d == [i \in Sets |-> IF i \in Pending(s) THEN "Accepted" ELSE s.state[i]]
<1>1. d \in [Sets -> States]
  <2>1. s.state \in [Sets -> States] /\ "Accepted" \in States
    BY BuiltParts DEF States
  <2> QED BY <2>1
<1>2. p = [s EXCEPT !.state = d]
  BY DEF AcceptPending
<1> HIDE DEF d
<1>3. /\ p \in Built /\ p.base = s.base /\ p.ops = s.ops /\ p.store = s.store /\ p.state = d
      /\ Version(p) = Version(s) /\ PartOf(s, p)
  BY <1>1, <1>2, PartOfDecided
<1> QED BY <1>3 DEF d

LEMMA SavedTyped ==
  ASSUME NEW s \in Built, NEW v \in Nat
  PROVE  SavedContent(s, v) \in Seq(Nat)
<1> DEFINE n == IF v < Len(s.ops) THEN v ELSE Len(s.ops)
           o == SubSeq(s.ops, 1, n)
           p == [s EXCEPT !.ops = o]
<1>1. s.ops \in Seq(OpRecords)
  BY BuiltParts
<1>2. n \in 0 .. Len(s.ops)
  BY <1>1
<1> HIDE DEF n
<1>3. o \in Seq(OpRecords) /\ Len(o) = n /\ \A i \in 1 .. n : o[i] = s.ops[i]
  BY <1>1, <1>2, PrefixShape
<1> HIDE DEF o
<1>4. s = [base |-> s.base, ops |-> s.ops, store |-> s.store, state |-> s.state]
  BY BuiltParts
<1>5. p = [base |-> s.base, ops |-> o, store |-> s.store, state |-> s.state]
  BY <1>4, SMT
<1> HIDE DEF p
<1>6. \A i \in 1 .. Len(o) : o[i].at <= Len(s.store[o[i].by])
  <2>1. \A i \in 1 .. Len(o) : i \in 1 .. Version(s) /\ o[i] = s.ops[i]
    BY <1>1, <1>2, <1>3 DEF Version
  <2>2. \A i \in 1 .. Version(s) : s.ops[i].at <= Len(s.store[s.ops[i].by])
    BY BuiltParts
  <2> QED BY <2>1, <2>2, Zenon
<1>7. p \in Built
  <2>1. [base |-> s.base, ops |-> o, store |-> s.store, state |-> s.state] \in Built
    BY <1>3, <1>6, BuiltParts, PartsBuild
  <2> QED BY <1>5, <2>1
<1>8. SavedContent(s, v) = Text(p, States)
  BY Zenon DEF SavedContent, Whole, p, o, n
<1>9. Text(p, States) \in Seq(Nat)
  BY <1>7, TextShape
<1> QED BY <1>8, <1>9

-----------------------------------------------------------------------------
(* The invariant.                                                          *)

\* Buffers and snapshots as a program with m marks may hold them.
Files(m) == {b \in Buffers : b.sess \in Built /\ Version(b.sess) <= m}
Rows(m) == {r \in [sess : Built, savedAt : Nat, digest : Seq(Nat) \cup {None}] :
                Version(r.sess) <= m}

\* A log with the tap that goes with it.
Paired(o, m) == /\ Sound(o.log) /\ Version(BuildSession(o.log)) <= m
                /\ o.tap = TapFromLog(o.log)

\* The log, open or not, is sound; while its tap is open the tap is at the end of it,
\* and what it builds is part of the session the tap was opened for.
LogState ==
    /\ marks \in Nat /\ marks <= MaxMarks
    /\ disk \in Seq(Nat)
    /\ buf = None \/ buf \in Files(marks)
    /\ row = None \/ row \in Rows(marks)
    /\ log = None \/ (logging /\ Paired([log |-> log, tap |-> TapFromLog(log)], marks))
    /\ tap # None => up /\ logging /\ Paired([log |-> log, tap |-> tap], marks)
    /\ up /\ tap = None => log = None
    /\ tap # None /\ ~swapped => buf \in Files(marks) /\ PartOf(BuildSession(log), buf.sess)
LogInv == tears \in Nat /\ (tears = 0 => LogState)

-----------------------------------------------------------------------------
(* Buffers.                                                                *)

LEMMA FileParts ==
  ASSUME NEW m \in Nat, NEW b \in Files(m)
  PROVE  /\ b \in Buffers /\ b # None
         /\ b.sess \in Built /\ Version(b.sess) \in Nat /\ Version(b.sess) <= m
         /\ b.sess.base \in Seq(Nat)
         /\ b.saved \in Seq(Nat) /\ b.savedAt \in Nat /\ b.digest \in Seq(Nat) \cup {None}
         /\ \A n \in Nat : m <= n => b \in Files(n)
<1>1. b \in Buffers /\ b.sess \in Built /\ Version(b.sess) <= m
  BY DEF Files
<1>2. b # None
  BY <1>1, NoneAssumption
<1>3. Version(b.sess) \in Nat /\ b.sess.base \in Seq(Nat)
  BY <1>1, BuiltParts
<1>4. \A n \in Nat : m <= n => Version(b.sess) <= n
  BY <1>1, <1>3
<1>5. \A n \in Nat : m <= n => b \in Files(n)
  BY <1>1, <1>4, Zenon DEF Files
<1>6. b.saved \in Seq(Nat) /\ b.savedAt \in Nat /\ b.digest \in Seq(Nat) \cup {None}
  BY <1>1 DEF Buffers
<1> QED BY <1>1, <1>2, <1>3, <1>5, <1>6

LEMMA FileBuilt ==
  ASSUME NEW m \in Nat, NEW s \in Built, Version(s) <= m, NEW saved \in Seq(Nat), NEW at \in Nat,
         NEW digest \in Seq(Nat) \cup {None}, NEW stamp \in Seq(Nat) \cup {None},
         NEW seen \in Seq(Nat), NEW tab \in BOOLEAN, NEW decided \in BOOLEAN
  PROVE  [sess |-> s, saved |-> saved, savedAt |-> at, digest |-> digest,
          stamp |-> stamp, seen |-> seen, tab |-> tab, decided |-> decided] \in Files(m)
<1> DEFINE b == [sess |-> s, saved |-> saved, savedAt |-> at, digest |-> digest,
                 stamp |-> stamp, seen |-> seen, tab |-> tab, decided |-> decided]
<1>1. s \in Sessions
  BY DEF Built
<1>2. b \in Buffers
  BY <1>1 DEF Buffers
<1>3. b.sess = s
  OBVIOUS
<1> HIDE DEF b
<1>4. b \in Files(m)
  BY <1>2, <1>3 DEF Files
<1> QED BY <1>4 DEF b

\* Another session in the same buffer.
\* f is the file b with session s.
Takes(f, b, s) == \/ f = [b EXCEPT !.sess = s, !.decided = TRUE]
                  \/ f = [b EXCEPT !.sess = s, !.tab = TRUE]
                  \/ f = [b EXCEPT !.sess = s, !.tab = TRUE, !.decided = TRUE]

LEMMA FileEdited ==
  ASSUME NEW m \in Nat, NEW b \in Files(m), NEW s \in Built, NEW n \in Nat, Version(s) <= n,
         NEW f, Takes(f, b, s)
  PROVE  f \in Files(n) /\ f.sess = s
<1>1. b \in Buffers /\ s \in Sessions
  BY DEF Files, Built
<1>2. b \in [sess : Sessions, saved : Seq(Nat), savedAt : Nat, digest : Seq(Nat) \cup {None},
             stamp : Seq(Nat) \cup {None}, seen : Seq(Nat), tab : BOOLEAN,
             decided : BOOLEAN]
  BY <1>1 DEF Buffers
<1> DEFINE c == [b EXCEPT !.sess = s, !.decided = TRUE]
           d == [b EXCEPT !.sess = s, !.tab = TRUE]
           e == [b EXCEPT !.sess = s, !.tab = TRUE, !.decided = TRUE]
<1>3. c \in Buffers /\ c.sess = s
  BY <1>1, <1>2 DEF Buffers
<1>4. d \in Buffers /\ d.sess = s
  BY <1>1, <1>2 DEF Buffers
<1>5. e \in Buffers /\ e.sess = s
  BY <1>1, <1>2 DEF Buffers
<1> HIDE DEF c, d, e
<1>6. c \in Files(n) /\ d \in Files(n) /\ e \in Files(n)
  BY <1>3, <1>4, <1>5 DEF Files
<1>7. f = c \/ f = d \/ f = e
  BY DEF c, d, e, Takes
<1> QED BY <1>3, <1>4, <1>5, <1>6, <1>7

LEMMA RowParts ==
  ASSUME NEW m \in Nat, NEW r \in Rows(m)
  PROVE  /\ r.sess \in Built /\ Version(r.sess) <= m /\ Version(r.sess) \in Nat
         /\ r.savedAt \in Nat /\ r.digest \in Seq(Nat) \cup {None}
         /\ \A n \in Nat : m <= n => r \in Rows(n)
<1>1. r \in [sess : Built, savedAt : Nat, digest : Seq(Nat) \cup {None}] /\ Version(r.sess) <= m
  BY DEF Rows
<1>2. r.sess \in Built /\ r.savedAt \in Nat /\ r.digest \in Seq(Nat) \cup {None}
  BY <1>1
<1>3. Version(r.sess) \in Nat
  BY <1>2, BuiltParts
<1>4. \A n \in Nat : m <= n => Version(r.sess) <= n
  BY <1>1, <1>3
<1>5. \A n \in Nat : m <= n => r \in Rows(n)
  BY <1>1, <1>4, Zenon DEF Rows
<1> QED BY <1>1, <1>2, <1>3, <1>5

LEMMA RowOfFile ==
  ASSUME NEW m \in Nat, NEW b \in Files(m)
  PROVE  [sess |-> b.sess, savedAt |-> b.savedAt, digest |-> b.digest] \in Rows(m)
<1>1. b.sess \in Built /\ b.savedAt \in Nat /\ b.digest \in Seq(Nat) \cup {None} /\ Version(b.sess) <= m
  BY FileParts
<1> DEFINE r == [sess |-> b.sess, savedAt |-> b.savedAt, digest |-> b.digest]
<1>2. r \in [sess : Built, savedAt : Nat, digest : Seq(Nat) \cup {None}] /\ r.sess = b.sess
  BY <1>1
<1> HIDE DEF r
<1>3. r \in Rows(m)
  BY <1>1, <1>2 DEF Rows
<1> QED BY <1>3 DEF r

-----------------------------------------------------------------------------
(* Telling a log about a buffer.                                           *)

\* Session s has every byte, op and decision of session b.
SameAs(s, b) == /\ s.base = b.base /\ s.ops = b.ops /\ s.store = b.store
                /\ \A i \in Sets : i <= Version(b) => s.state[i] = b.state[i]

LEMMA PairedLater ==
  ASSUME NEW m \in Nat, NEW n \in Nat, m <= n, NEW o, Paired(o, m)
  PROVE  Paired(o, n) /\ o.tap \in Taps /\ o.tap # None /\ BuildSession(o.log) \in Built
<1>1. Sound(o.log) /\ o.tap = TapFromLog(o.log) /\ Version(BuildSession(o.log)) <= m
  BY DEF Paired
<1>2. o.tap \in Taps /\ BuildSession(o.log) \in Built
  BY <1>1 DEF Sound, Fits
<1>3. Version(BuildSession(o.log)) \in Nat
  BY <1>2, BuiltParts
<1>4. Version(BuildSession(o.log)) <= n
  BY <1>1, <1>3
<1> QED BY <1>1, <1>2, <1>4, NoneAssumption DEF Paired

LEMMA ToldPaired ==
  ASSUME NEW m \in Nat, NEW o, Paired(o, m), NEW b \in Files(m),
         NEW n \in 0 .. Len(Batch(o.tap, b.sess)), NEW p, p = Told(o, b, n)
  PROVE  /\ Paired(p, m)
         /\ PartOf(BuildSession(o.log), b.sess) => PartOf(BuildSession(p.log), b.sess)
         /\ PartOf(BuildSession(o.log), b.sess) /\ n = Len(Batch(o.tap, b.sess))
              => SameAs(BuildSession(p.log), b.sess)
<1> DEFINE new == SubSeq(Batch(o.tap, b.sess), 1, n)
<1>1. Sound(o.log) /\ o.tap = TapFromLog(o.log) /\ Version(BuildSession(o.log)) <= m
  BY DEF Paired
<1>2. o.log \in Seq(Records) /\ o.tap \in Taps /\ BuildSession(o.log) \in Built
  BY <1>1 DEF Sound, Fits
<1>3. b.sess \in Built /\ Version(b.sess) <= m /\ Version(b.sess) \in Nat
  BY FileParts
<1>4. Batch(o.tap, b.sess) \in Seq(Records)
  <2>1. Parts(Len(Growth(o.tap, b.sess, user)), Len(Growth(o.tap, b.sess, agent)),
              Len(NewOps(o.tap, b.sess)), Len(NewDecisions(o.tap, b.sess)), o.tap, b.sess)
    BY DEF Parts
  <2> QED BY <1>2, <1>3, <2>1, BatchShape
<1>5. new \in Seq(Records)
  BY <1>4, PrefixShape
<1>6. p.log = o.log \o new /\ p.tap = Frontier(o.tap, new)
  BY DEF Told, Frontier
<1>7. p.tap = TapFromLog(p.log)
  <2>1. TapFromLog(o.log) = Frontier(NewTap, o.log) /\ TapFromLog(o.log \o new) = Frontier(NewTap, o.log \o new)
    BY DEF TapFromLog, Frontier
  <2>2. Frontier(NewTap, o.log \o new) = Frontier(Frontier(NewTap, o.log), new)
    BY <1>2, <1>5, NewTapTyped, TellConcat
  <2> QED BY <1>1, <1>6, <2>1, <2>2
<1> DEFINE s == BuildSession(p.log)
           s0 == BuildSession(o.log)
           t == o.tap
           a == b.sess
           l == p.log
           k == o.log
<1>8. l = k \o SubSeq(Batch(t, a), 1, n) /\ n \in 0 .. Len(Batch(t, a))
  BY <1>6
<1>9. Sound(k) /\ t = TapFromLog(k) /\ a \in Built /\ s0 = BuildSession(k) /\ s = BuildSession(l)
  BY <1>1, <1>3
<1> HIDE DEF new, s, s0, t, a, l, k
<1>10. MadeOf(s, s0, a, l, n, Len(Batch(t, a)))
  BY <1>8, <1>9, BatchMakes
<1>11. Version(s) <= m
  <2>1. Version(s) \in Nat /\ Version(s0) \in Nat /\ Version(a) \in Nat /\ Version(a) <= m /\ Version(s0) <= m
    <3>1. s \in Built
      BY <1>9, <1>10 DEF Sound, Fits, MadeOf
    <3> QED BY <1>1, <1>2, <1>3, <3>1, BuiltParts DEF s0, a
  <2> QED BY <1>10, <2>1 DEF MadeOf
<1>12. Paired(p, m)
  BY <1>7, <1>10, <1>11, Zenon DEF Paired, MadeOf, s, l
<1>13. PartOf(s0, a) => s.base = a.base
  BY <1>10 DEF PartOf, MadeOf
<1> QED BY <1>10, <1>12, <1>13, Zenon DEF SameAs, MadeOf, s, s0, t, a, l, k

\* A new log builds the base, which every session of that base once was.
LEMMA NewLog ==
  ASSUME NEW m \in Nat, NEW base \in Seq(Nat), NEW h \in Seq(Nat),
         NEW o, o = [log |-> <<[k |-> "base", text |-> base, hash |-> h]>>, tap |-> NewTap]
  PROVE  Paired(o, m) /\ BuildSession(o.log) = Fresh(base)
<1> DEFINE r == [k |-> "base", text |-> base, hash |-> h]
<1>1. r \in Records /\ r.k = "base" /\ r.text = base
  BY DEF Records
<1> HIDE DEF r
<1>2. <<>> \in Seq(Records) /\ Append(<<>>, r) = <<r>> /\ <<r>> \in Seq(Records)
  BY <1>1
<1>3. BuildSession(<<r>>) = Replay(None, r)
  BY <1>1, <1>2, BuildAppend
<1>4. BuildSession(<<r>>) = Fresh(base)
  <2>1. Replay(None, r) = Fresh(r.text)
    BY <1>1 DEF Replay
  <2> QED BY <1>1, <1>3, <2>1
<1>5. TapFromLog(<<r>>) = NewTap
  <2>1. Frontier(NewTap, Append(<<>>, r)) = Tell(Frontier(NewTap, <<>>), r) /\ Frontier(NewTap, <<>>) = NewTap
    BY <1>1, <1>2, NewTapTyped, TellAppend
  <2>2. Tell(NewTap, r) = NewTap
    BY <1>1 DEF Tell
  <2>3. TapFromLog(<<r>>) = Frontier(NewTap, <<r>>)
    BY DEF TapFromLog, Frontier
  <2> QED BY <1>2, <2>1, <2>2, <2>3
<1>6. Fresh(base) \in Built /\ Version(Fresh(base)) = 0
  BY FreshBuilt
<1>7. Fits(NewTap, Fresh(base))
  <2>1. /\ NewTap.version = 0 /\ NewTap.state = Fresh(base).state
        /\ \A a \in Authors : NewTap.store[a] = 0 /\ Fresh(base).store[a] = <<>>
    BY DEF NewTap, Fresh
  <2>2. Len(<<>>) = 0
    OBVIOUS
  <2> QED BY <1>6, <2>1, <2>2, NewTapTyped DEF Fits
<1>8. o.log = <<r>> /\ o.tap = NewTap
  BY DEF r
<1>9. Sound(o.log) /\ Version(BuildSession(o.log)) <= m /\ o.tap = TapFromLog(o.log)
  BY <1>2, <1>4, <1>5, <1>6, <1>7, <1>8 DEF Sound
<1> QED BY <1>4, <1>8, <1>9 DEF Paired

LEMMA FreshPart ==
  ASSUME NEW s \in Built
  PROVE  PartOf(Fresh(s.base), s)
<1>1. s.base \in Seq(Nat) /\ Version(s) \in Nat /\ s.store \in [Authors -> Seq(Nat)]
  BY BuiltParts
<1>2. Fresh(s.base) \in Built /\ Version(Fresh(s.base)) = 0
  BY <1>1, FreshBuilt
<1>3. Fresh(s.base).base = s.base /\ \A a \in Authors : Fresh(s.base).store[a] = <<>>
  BY DEF Fresh
<1>4. Len(<<>>) = 0 /\ \A a \in Authors : Len(s.store[a]) \in Nat
  BY <1>1
<1>5. \A a \in Authors : /\ Len(Fresh(s.base).store[a]) <= Len(s.store[a])
                         /\ \A i \in 1 .. Len(Fresh(s.base).store[a]) : Fresh(s.base).store[a][i] = s.store[a][i]
  BY <1>3, <1>4
<1>6. Version(Fresh(s.base)) <= Version(s)
      /\ \A i \in 1 .. Version(Fresh(s.base)) : Fresh(s.base).ops[i] = s.ops[i]
  BY <1>1, <1>2
<1> QED BY <1>2, <1>3, <1>5, <1>6 DEF PartOf

-----------------------------------------------------------------------------
(* What an event leaves of the log.                                        *)

LEMMA OpenedPaired ==
  ASSUME LogState, up, logging, NEW b \in Files(marks), NEW o, o = Opened(b)
  PROVE  /\ Paired(o, marks)
         /\ tap # None => o.log = log
         /\ tap = None => PartOf(BuildSession(o.log), b.sess)
<1>0. marks \in Nat
  BY DEF LogState
<1>1. CASE tap # None
  <2>1. o = [log |-> log, tap |-> tap]
    BY <1>1 DEF Opened
  <2>2. Paired([log |-> log, tap |-> tap], marks)
    BY <1>1 DEF LogState
  <2>3. o.log = log /\ Paired(o, marks)
    BY <2>1, <2>2
  <2> QED BY <1>1, <2>3
<1>2. CASE tap = None
  <2>1. log = None
    BY <1>2 DEF LogState
  <2> DEFINE h == IF b.digest # None THEN b.digest ELSE b.sess.base
  <2>2. o = [log |-> <<[k |-> "base", text |-> b.sess.base, hash |-> h]>>, tap |-> NewTap]
    BY <1>2, <2>1 DEF Opened, StartTap
  <2>3. b.sess \in Built /\ b.sess.base \in Seq(Nat) /\ h \in Seq(Nat)
    BY <1>0, FileParts
  <2> HIDE DEF h
  <2>4. Paired(o, marks) /\ BuildSession(o.log) = Fresh(b.sess.base)
    BY <1>0, <2>2, <2>3, NewLog
  <2>5. PartOf(BuildSession(o.log), b.sess)
    BY <2>3, <2>4, FreshPart
  <2> QED BY <1>2, <2>4, <2>5
<1> QED BY <1>1, <1>2

\* A batch, whole or cut short, onto the log of b.
LEMMA TellingKeeps ==
  ASSUME LogState, up, logging, NEW b \in Files(marks),
         NEW n \in 0 .. Len(Batch(Opened(b).tap, b.sess)), NEW o, o = Told(Opened(b), b, n)
  PROVE  /\ Paired(o, marks)
         /\ tap = None \/ PartOf(BuildSession(log), b.sess) =>
              /\ PartOf(BuildSession(o.log), b.sess)
              /\ n = Len(Batch(Opened(b).tap, b.sess)) => SameAs(BuildSession(o.log), b.sess)
<1> DEFINE q == Opened(b)
<1>1. marks \in Nat
  BY DEF LogState
<1>2. /\ Paired(q, marks)
      /\ tap # None => q.log = log
      /\ tap = None => PartOf(BuildSession(q.log), b.sess)
  BY OpenedPaired
<1> HIDE DEF q
<1>3. /\ Paired(o, marks)
      /\ PartOf(BuildSession(q.log), b.sess) => PartOf(BuildSession(o.log), b.sess)
      /\ PartOf(BuildSession(q.log), b.sess) /\ n = Len(Batch(q.tap, b.sess))
           => SameAs(BuildSession(o.log), b.sess)
  <2>1. n \in 0 .. Len(Batch(q.tap, b.sess)) /\ o = Told(q, b, n)
    BY DEF q
  <2> QED BY <1>1, <1>2, <2>1, ToldPaired
<1>4. tap = None \/ PartOf(BuildSession(log), b.sess) => PartOf(BuildSession(q.log), b.sess)
  BY <1>2
<1> QED BY <1>3, <1>4 DEF q

LEMMA BatchLength ==
  ASSUME NEW t \in Taps, NEW b \in Built
  PROVE  Len(Batch(t, b)) \in Nat /\ Batch(t, b) \in Seq(Records)
<1>1. Parts(Len(Growth(t, b, user)), Len(Growth(t, b, agent)), Len(NewOps(t, b)),
            Len(NewDecisions(t, b)), t, b)
  BY DEF Parts
<1>2. Batch(t, b) \in Seq(Records)
  BY <1>1, BatchShape
<1> QED BY <1>2

LEMMA JournalKeeps ==
  ASSUME LogState, up, NEW b \in Files(marks), NEW o, o = AppendJournal(b)
  PROVE  /\ o.tap = None => o.log = log /\ tap = None
         /\ o.tap # None => logging /\ Paired(o, marks)
         /\ o.tap # None /\ (tap = None \/ PartOf(BuildSession(log), b.sess)) =>
              PartOf(BuildSession(o.log), b.sess) /\ SameAs(BuildSession(o.log), b.sess)
<1>0. marks \in Nat
  BY DEF LogState
<1>1. CASE Journals(b)
  <2> DEFINE q == Opened(b)
             n == Len(Batch(q.tap, b.sess))
  <2>1. logging /\ o = Told(q, b, n)
    BY <1>1 DEF AppendJournal, Journals
  <2>2. q.tap \in Taps /\ b.sess \in Built
    BY <1>0, <2>1, OpenedPaired, PairedLater, FileParts
  <2>3. n \in Nat
    BY <2>2, BatchLength
  <2>4. n \in 0 .. Len(Batch(Opened(b).tap, b.sess))
    BY <2>3
  <2>5. Paired(o, marks)
    BY <2>1, <2>4, TellingKeeps
  <2>6. tap = None \/ PartOf(BuildSession(log), b.sess) =>
          PartOf(BuildSession(o.log), b.sess) /\ SameAs(BuildSession(o.log), b.sess)
    BY <2>1, <2>4, TellingKeeps
  <2>7. o.tap # None
    BY <1>0, <2>5, PairedLater
  <2> QED BY <2>1, <2>5, <2>6, <2>7
<1>2. CASE ~Journals(b)
  <2>1. o = [log |-> log, tap |-> tap]
    BY <1>2 DEF AppendJournal
  <2>2. tap = None
    BY <1>2 DEF Journals, LogState
  <2>3. o.log = log /\ o.tap = tap
    BY <2>1
  <2> QED BY <2>2, <2>3
<1> QED BY <1>1, <1>2

\* The record of a save builds nothing.
LEMMA WrittenKeeps ==
  ASSUME NEW m \in Nat, NEW o, Paired(o, m), NEW w \in Records, w.k = "written",
         NEW p, p.log = Append(o.log, w), p.tap = o.tap
  PROVE  Paired(p, m) /\ BuildSession(p.log) = BuildSession(o.log)
<1>1. o.log \in Seq(Records) /\ Fits(TapFromLog(o.log), BuildSession(o.log))
  BY DEF Paired, Sound
<1>2. BuildSession(o.log) \in Built
  BY <1>1 DEF Fits
<1>3. BuildSession(p.log) = Replay(BuildSession(o.log), w)
  BY <1>1, BuildAppend
<1>4. BuildSession(p.log) = BuildSession(o.log)
  BY <1>2, <1>3, ReplayCases
<1>5. TapFromLog(p.log) = TapFromLog(o.log)
  <2>1. Frontier(NewTap, p.log) = Tell(Frontier(NewTap, o.log), w)
    BY <1>1, NewTapTyped, TellAppend
  <2>2. Tell(Frontier(NewTap, o.log), w) = Frontier(NewTap, o.log)
    BY DEF Tell
  <2> QED BY <2>1, <2>2 DEF Frontier, TapFromLog
<1>6. p.log \in Seq(Records)
  BY <1>1, AppendElements
<1> QED BY <1>1, <1>4, <1>5, <1>6 DEF Paired, Sound

\* The log and the tap that an event of a running editor leaves.
LEMMA KeptState ==
  ASSUME LogState, up' = up, logging' = logging,
         marks' \in Nat, marks <= marks', marks' <= MaxMarks, disk' \in Seq(Nat),
         buf' = None \/ buf' \in Files(marks'), row' = None \/ row' \in Rows(marks'),
         NEW l, NEW t, log' = l, tap' = t,
         \/ /\ l = log /\ t = tap
            /\ tap # None /\ ~swapped' => buf' \in Files(marks') /\ PartOf(BuildSession(log), buf'.sess)
         \/ /\ up /\ logging /\ Paired([log |-> l, tap |-> t], marks) /\ buf' \in Files(marks')
            /\ ~swapped' => PartOf(BuildSession(l), buf'.sess)
  PROVE  LogState'
<1>1. marks \in Nat
  BY DEF LogState
<1>2. CASE /\ l = log /\ t = tap
           /\ tap # None /\ ~swapped' => buf' \in Files(marks') /\ PartOf(BuildSession(log), buf'.sess)
  <2>1. log' = None \/ (logging' /\ Paired([log |-> log', tap |-> TapFromLog(log')], marks'))
    BY <1>1, <1>2, PairedLater DEF LogState
  <2>2. tap' # None => up' /\ logging' /\ Paired([log |-> log', tap |-> tap'], marks')
    BY <1>1, <1>2, PairedLater DEF LogState
  <2>3. up' /\ tap' = None => log' = None
    BY <1>2 DEF LogState
  <2>4. tap' # None /\ ~swapped' => buf' \in Files(marks') /\ PartOf(BuildSession(log'), buf'.sess)
    BY <1>2
  <2> QED BY <2>1, <2>2, <2>3, <2>4 DEF LogState
<1>3. CASE /\ up /\ logging /\ Paired([log |-> l, tap |-> t], marks) /\ buf' \in Files(marks')
           /\ ~swapped' => PartOf(BuildSession(l), buf'.sess)
  <2> DEFINE o == [log |-> l, tap |-> t]
  <2>0. o.log = l /\ o.tap = t /\ Paired(o, marks)
    BY <1>3
  <2>1. Paired(o, marks') /\ o.tap # None
    <3> HIDE DEF o
    <3> QED BY <1>1, <2>0, PairedLater
  <2>2. t = TapFromLog(l) /\ t # None
    BY <2>0, <2>1 DEF Paired
  <2>3. log' = None \/ (logging' /\ Paired([log |-> log', tap |-> TapFromLog(log')], marks'))
    BY <1>3, <2>1, <2>2
  <2>4. tap' # None => up' /\ logging' /\ Paired([log |-> log', tap |-> tap'], marks')
    BY <1>3, <2>1
  <2>5. up' /\ tap' = None => log' = None
    BY <2>2
  <2>6. tap' # None /\ ~swapped' => buf' \in Files(marks') /\ PartOf(BuildSession(log'), buf'.sess)
    BY <1>3
  <2> QED BY <2>3, <2>4, <2>5, <2>6 DEF LogState
<1> QED BY <1>2, <1>3

LEMMA SameLogState ==
  ASSUME LogState, up' = up, logging' = logging, log' = log, tap' = tap,
         marks' \in Nat, marks <= marks', marks' <= MaxMarks, disk' \in Seq(Nat),
         buf' = None \/ buf' \in Files(marks'), row' = None \/ row' \in Rows(marks'),
         tap # None /\ ~swapped' => buf' \in Files(marks') /\ PartOf(BuildSession(log), buf'.sess)
  PROVE  LogState'
  BY KeptState, Zenon

\* A stopped editor.
LEMMA StoppedState ==
  ASSUME LogState, up' = FALSE, logging' = logging, marks' = marks, disk' = disk, row' = row,
         buf' = None, tap' = None, NEW l, log' = l,
         l = None \/ (logging /\ Paired([log |-> l, tap |-> TapFromLog(l)], marks))
  PROVE  LogState'
  BY DEF LogState

-----------------------------------------------------------------------------
(* Buffers read from the disk, the row or the log.                         *)

LEMMA OpenTyped ==
  ASSUME LogState
  PROVE  /\ OpenDisk \in Files(marks) /\ OpenDisk.sess = Fresh(disk)
         /\ \A x \in BOOLEAN : /\ [OpenDisk EXCEPT !.tab = x] \in Files(marks)
                               /\ [OpenDisk EXCEPT !.tab = x].sess = Fresh(disk)
         /\ LoadFile \in Files(marks)
         /\ LoadFile.sess = Fresh(disk) \/ (row # None /\ LoadFile.sess = row.sess)
<1>1. marks \in Nat /\ disk \in Seq(Nat)
  BY DEF LogState
<1>2. Fresh(disk) \in Built /\ Version(Fresh(disk)) <= marks
  BY <1>1, FreshBuilt
<1>3. OpenDisk \in Files(marks) /\ OpenDisk.sess = Fresh(disk)
  <2>1. OpenDisk \in Files(marks)
    BY <1>1, <1>2, FileBuilt DEF OpenDisk
  <2> QED BY <2>1 DEF OpenDisk
<1>4. ASSUME NEW x \in BOOLEAN
      PROVE  /\ [OpenDisk EXCEPT !.tab = x] \in Files(marks)
             /\ [OpenDisk EXCEPT !.tab = x].sess = Fresh(disk)
  <2> DEFINE o == OpenDisk
             b == [o EXCEPT !.tab = x]
  <2>1. o \in Buffers /\ o.sess = Fresh(disk)
    BY <1>3 DEF Files
  <2> HIDE DEF o
  <2>2. b \in Buffers /\ b.sess = o.sess
    BY <2>1 DEF Buffers
  <2>3. b.sess = Fresh(disk) /\ b \in Files(marks)
    <3> HIDE DEF b
    <3> QED BY <1>2, <2>1, <2>2 DEF Files
  <2> QED BY <2>3 DEF o
<1>5. CASE RowMatches
  <2> DEFINE b == [sess |-> row.sess, saved |-> disk, savedAt |-> row.savedAt, digest |-> disk,
                   stamp |-> None, seen |-> disk, tab |-> TRUE, decided |-> FALSE]
  <2>1. row # None /\ row \in Rows(marks)
    BY <1>5 DEF RowMatches, LogState
  <2>2. row.sess \in Built /\ Version(row.sess) <= marks /\ row.savedAt \in Nat
    BY <1>1, <2>1, RowParts
  <2>3. b \in Files(marks)
    BY <1>1, <2>2, FileBuilt
  <2>4. LoadFile = b /\ b.sess = row.sess
    BY <1>5 DEF LoadFile, RestoreJournal
  <2> HIDE DEF b
  <2> QED BY <1>3, <1>4, <2>1, <2>3, <2>4
<1>6. CASE ~RowMatches
  <2>1. LoadFile = OpenDisk
    BY <1>6 DEF LoadFile
  <2> QED BY <1>3, <1>4, <2>1
<1> QED BY <1>5, <1>6

LEMMA CheckedTyped ==
  ASSUME LogState, buf \in Files(marks)
  PROVE  /\ Checked \in Files(marks)
         /\ Checked = buf \/ Checked.sess = Fresh(disk)
         /\ Reloaded(buf) \in Files(marks) /\ Reloaded(buf).sess = Fresh(disk)
<1>1. buf.tab \in BOOLEAN
  BY DEF Files, Buffers
<1>2. Reloaded(buf) \in Files(marks) /\ Reloaded(buf).sess = Fresh(disk)
  BY <1>1, OpenTyped DEF Reloaded
<1> QED BY <1>2 DEF Checked

LEMMA RestoredTyped ==
  ASSUME LogState, NEW tab \in BOOLEAN, Paired([log |-> log, tap |-> TapFromLog(log)], marks),
         NEW b, b = NewRestoredFile(log, tab)
  PROVE  b \in Files(marks) /\ b.sess = BuildSession(log)
<1> DEFINE s == BuildSession(log)
           mark == LastWritten(log)
           ours == mark # None /\ mark.hash = disk
           saved == IF ours THEN SavedContent(s, mark.version) ELSE s.base
           at == IF ours THEN mark.version ELSE 0
           digest == IF ours THEN disk ELSE None
           t == tab \/ Pending(s) # {}
           h == HasDecisions(s)
<1>1. marks \in Nat /\ disk \in Seq(Nat)
  BY DEF LogState
<1>2. log \in Seq(Records) /\ s \in Built /\ Version(s) <= marks
  BY DEF Paired, Sound, Fits
<1>3. mark # None => mark \in Records /\ mark.k = "written"
  <2> DEFINE T == {r \in ToSet(log) : r.k = "written"}
             saves == Filter(log, T)
  <2>1. saves \in Seq(Records) /\ Range(saves) = Range(log) \cap T
    BY <1>2, FilterElements
  <2>2. mark = IF saves = <<>> THEN None ELSE Last(saves)
    BY DEF LastWritten
  <2>3. ASSUME saves # <<>> PROVE Last(saves) \in Records /\ Last(saves) \in Range(saves)
    <3> HIDE DEF saves
    <3>1. Len(saves) \in 1 .. Len(saves) /\ DOMAIN saves = 1 .. Len(saves)
      BY <2>1, <2>3
    <3>2. Last(saves) = saves[Len(saves)]
      BY DEF Last
    <3> QED BY <2>1, <3>1, <3>2 DEF Range
  <2> HIDE DEF saves, mark
  <2> QED BY <2>1, <2>2, <2>3
<1>4. mark # None => mark.version \in Nat
  BY <1>3 DEF Records
<1>5. b = [sess |-> s, saved |-> saved, savedAt |-> at, digest |-> digest,
           stamp |-> None, seen |-> disk, tab |-> t, decided |-> h]
  BY DEF NewRestoredFile
<1>6. s.base \in Seq(Nat)
  BY <1>2, BuiltParts
<1> HIDE DEF s, mark
<1>7. saved \in Seq(Nat)
  BY <1>2, <1>4, <1>6, SavedTyped
<1>8. at \in Nat /\ digest \in Seq(Nat) \cup {None} /\ t \in BOOLEAN /\ h \in BOOLEAN
  BY <1>1, <1>4 DEF HasDecisions
<1> HIDE DEF saved, at, digest, t, h
<1>9. b \in Files(marks)
  <2>1. None \in Seq(Nat) \cup {None}
    OBVIOUS
  <2>2. [sess |-> s, saved |-> saved, savedAt |-> at, digest |-> digest,
         stamp |-> None, seen |-> disk, tab |-> t, decided |-> h] \in Files(marks)
    BY <1>1, <1>2, <1>7, <1>8, <2>1, FileBuilt
  <2> QED BY <1>5, <2>2
<1> QED BY <1>5, <1>9 DEF s

LEMMA Undamaged ==
  ASSUME NEW l \in Seq(Records)
  PROVE  ~Damaged(l) /\ Readable(l) = l
<1>1. ASSUME NEW i \in DOMAIN l PROVE l[i] # Torn
  <2>1. l[i] \in Records
    BY <1>1
  <2>2. l[i].k # "torn"
    BY <2>1 DEF Records
  <2> QED BY <2>2 DEF Torn
<1>2. ~Damaged(l)
  BY <1>1 DEF Damaged
<1> QED BY <1>2 DEF Readable

\* Reusing the log it was built from, or laying a new one for it.
LEMMA RestoredLog ==
  ASSUME LogState, log # None, NEW b \in Files(marks), b.sess = BuildSession(log), NEW o, o = StartTap(b)
  PROVE  /\ Paired(o, marks) /\ PartOf(BuildSession(o.log), b.sess)
         /\ BuildSession(o.log) = BuildSession(log) \/ BuildSession(o.log) = Fresh(b.sess.base)
<1>1. marks \in Nat /\ Paired([log |-> log, tap |-> TapFromLog(log)], marks)
  BY DEF LogState
<1>2. log \in Seq(Records)
  BY <1>1 DEF Paired, Sound
<1>3. Readable(log) = log
  BY <1>2, Undamaged
<1>4. b.sess \in Built /\ b.sess.base \in Seq(Nat)
  BY <1>1, FileParts
<1> DEFINE h == IF b.digest # None THEN b.digest ELSE b.sess.base
           new == [log |-> <<[k |-> "base", text |-> b.sess.base, hash |-> h]>>, tap |-> NewTap]
           old == [log |-> log, tap |-> TapFromLog(log)]
<1>5. o = old \/ o = new
  BY <1>3 DEF StartTap
<1>6. h \in Seq(Nat)
  BY <1>1, <1>4, FileParts
<1> HIDE DEF h
<1>7. Paired(new, marks) /\ BuildSession(new.log) = Fresh(b.sess.base)
  BY <1>1, <1>4, <1>6, NewLog
<1>8. PartOf(BuildSession(new.log), b.sess)
  BY <1>4, <1>7, FreshPart
<1>9. Paired(old, marks) /\ BuildSession(old.log) = b.sess /\ PartOf(BuildSession(old.log), b.sess)
  BY <1>1, <1>4, PartOfItself
<1> HIDE DEF new, old
<1> QED BY <1>5, <1>7, <1>8, <1>9

-----------------------------------------------------------------------------
(* The invariant is one.                                                   *)

LEMMA LogInit == Init => LogInv
<1> SUFFICES ASSUME Init PROVE LogInv
  OBVIOUS
<1>1. marks = 1 /\ disk = <<1>> /\ tap = None /\ log = None /\ row = None /\ tears = 0
  BY DEF Init
<1>2. <<1>> \in Seq(Nat) /\ 1 \in Nat /\ 0 \in Nat /\ 1 <= MaxMarks /\ 0 <= 1
  BY BoundAssumption
<1>3. Fresh(<<1>>) \in Built /\ Version(Fresh(<<1>>)) <= 1
  BY <1>2, FreshBuilt, Zenon
<1>4. buf \in Files(1)
  <2>1. [sess |-> Fresh(<<1>>), saved |-> <<1>>, savedAt |-> 0, digest |-> <<1>>,
         stamp |-> <<1>>, seen |-> <<1>>, tab |-> TRUE, decided |-> FALSE] \in Files(1)
    BY <1>2, <1>3, FileBuilt
  <2> QED BY <2>1 DEF Init
<1>5. LogState
  <2>1. marks \in Nat /\ marks <= MaxMarks /\ disk \in Seq(Nat) /\ buf \in Files(marks)
    BY <1>1, <1>2, <1>4
  <2>2. row = None /\ log = None /\ tap = None
    BY <1>1
  <2> HIDE DEF Init
  <2> QED BY <2>1, <2>2, Zenon DEF LogState
<1> QED BY <1>1, <1>2, <1>5 DEF LogInv

LEMMA TearsCount ==
  ASSUME LogInv, [Next]_vars
  PROVE  tears' \in Nat /\ (tears' = 0 => tears = 0)
<1>1. CASE \E n \in 0 .. MaxRecords, dies, torn \in BOOLEAN : CutTick(n, dies, torn)
  <2>1. tears' \in {tears, tears + 0, tears + 1}
    BY <1>1 DEF CutTick
  <2> QED BY <2>1 DEF LogInv
<1>2. CASE UNCHANGED tears
  BY <1>2 DEF LogInv
<1> QED BY <1>1, <1>2 DEF Next, vars, faults, Edit, Propose, Decide, Tick, Save, Overwrite, SaveOver,
           Reload, Close, Open, Announce, Outside, Stop, Start

\* Ordinary events: the session gains an op or is replaced, the log is left alone.
LEMMA EditKeeps ==
  ASSUME LogState, Edit \/ Propose
  PROVE  LogState'
<1>1. marks \in Nat /\ marks' = marks + 1 /\ marks' \in Nat /\ marks' <= MaxMarks /\ buf \in Files(marks)
  BY BoundAssumption DEF LogState, Edit, Propose, Running
<1> DEFINE s == buf.sess
<1>2. s \in Built /\ Version(s) \in Nat /\ Version(s) <= marks
  BY <1>1, FileParts
<1>3. buf' \in Files(marks') /\ PartOf(s, buf'.sess)
  <2>1. CASE Edit
    <3> DEFINE c == Commit(s, user, marks')
    <3>0. user \in Authors /\ c = Commit(s, user, marks')
      BY DEF Authors
    <3> HIDE DEF c
    <3>1. c \in Built /\ Version(c) = Version(s) + 1 /\ PartOf(s, c)
      <4> HIDE DEF s
      <4> QED BY <1>1, <1>2, <3>0, CommitShape, Zenon
    <3>2. buf' = [buf EXCEPT !.sess = c, !.tab = TRUE]
      BY <2>1 DEF Edit, c
    <3>3. Version(c) <= marks'
      BY <1>1, <1>2, <3>1
    <3>4. buf' \in Files(marks') /\ buf'.sess = c
      <4>1. Takes(buf', buf, c)
        BY <3>2 DEF Takes
      <4> QED BY <1>1, <3>1, <3>3, <4>1, FileEdited
    <3> QED BY <3>1, <3>4
  <2>2. CASE Propose
    <3> DEFINE c == Commit(s, agent, marks')
               p == [c EXCEPT !.state[Version(c)] = "Proposed"]
    <3>0. agent \in Authors /\ c = Commit(s, agent, marks')
      BY DEF Authors
    <3> HIDE DEF c
    <3>1. c \in Built /\ Version(c) = Version(s) + 1 /\ PartOf(s, c)
      <4> HIDE DEF s
      <4> QED BY <1>1, <1>2, <3>0, CommitShape, Zenon
    <3>2. buf' = [buf EXCEPT !.sess = p, !.tab = TRUE, !.decided = TRUE]
      BY <2>2 DEF Propose, c
    <3>3. Version(c) <= marks' /\ Version(c) \in Nat
      BY <1>1, <1>2, <3>1
    <3>4. p \in Built /\ Version(p) = Version(c) /\ PartOf(c, p)
      <4> DEFINE v == Version(c)
      <4>1. v \in Nat /\ IsProposed(p, c, v)
        BY <3>3 DEF IsProposed
      <4> HIDE DEF p, v
      <4> QED BY <3>1, <4>1, ProposedShape
    <3> HIDE DEF p
    <3>5. buf' \in Files(marks') /\ buf'.sess = p
      <4>1. Takes(buf', buf, p)
        BY <3>2 DEF Takes
      <4> QED BY <1>1, <3>3, <3>4, <4>1, FileEdited
    <3> QED BY <3>1, <3>4, <3>5, PartOfPart
  <2> QED BY <2>1, <2>2
<1>4. /\ up' = up /\ logging' = logging /\ disk' \in Seq(Nat) /\ row' = row /\ log' = log
      /\ tap' = tap /\ swapped' = swapped
  BY DEF LogState, Edit, Propose
<1>5. row' = None \/ row' \in Rows(marks')
  BY <1>1, <1>4, RowParts DEF LogState
<1>6. tap # None /\ ~swapped' => PartOf(BuildSession(log), buf'.sess)
  BY <1>3, <1>4, PartOfPart DEF LogState
<1> QED BY <1>1, <1>3, <1>4, <1>5, <1>6, SameLogState

LEMMA OutsideKeeps ==
  ASSUME LogState, Outside
  PROVE  LogState'
<1>1. marks \in Nat /\ marks' = marks + 1 /\ marks' <= MaxMarks /\ disk' = <<marks'>>
  BY BoundAssumption DEF LogState, Outside
<1>2. marks' \in Nat /\ marks <= marks' /\ disk' \in Seq(Nat)
  BY <1>1
<1>3. /\ up' = up /\ logging' = logging /\ log' = log /\ tap' = tap /\ swapped' = swapped
      /\ buf' = buf /\ row' = row
  BY DEF Outside
<1>4. (buf' = None \/ buf' \in Files(marks')) /\ (row' = None \/ row' \in Rows(marks'))
  BY <1>1, <1>2, <1>3, FileParts, RowParts DEF LogState
<1>5. tap # None /\ ~swapped' => buf' \in Files(marks') /\ PartOf(BuildSession(log), buf'.sess)
  BY <1>1, <1>2, <1>3, FileParts DEF LogState
<1> QED BY <1>1, <1>2, <1>3, <1>4, <1>5, SameLogState

\* A reload, an announcement and an opening leave the log to the session it had.
LEMMA ReplacedKeeps ==
  ASSUME LogState, Reload \/ Announce \/ Open
  PROVE  LogState'
<1>1. marks \in Nat /\ marks <= MaxMarks /\ disk \in Seq(Nat) /\ marks <= marks
  BY DEF LogState
<1>2. /\ up' = up /\ logging' = logging /\ log' = log /\ tap' = tap
      /\ marks' = marks /\ disk' = disk
  BY DEF Reload, Announce, Open
<1>3. CASE Reload
  <2>1. buf \in Files(marks)
    BY <1>3 DEF Reload, Running, LogState
  <2>2. buf' \in Files(marks)
    BY <1>3, <2>1, CheckedTyped DEF Reload
  <2>3. swapped' = (tap # None) /\ row' = row
    BY <1>3 DEF Reload
  <2>4. tap # None => swapped'
    BY <2>3
  <2>5. row' = None \/ row' \in Rows(marks)
    BY <2>3 DEF LogState
  <2> QED BY <1>1, <1>2, <2>2, <2>4, <2>5, SameLogState
<1>4. CASE Announce
  <2>1. buf \in Files(marks)
    BY <1>4 DEF Announce, Running, LogState
  <2>2. buf \in [sess : Sessions, saved : Seq(Nat), savedAt : Nat, digest : Seq(Nat) \cup {None},
                 stamp : Seq(Nat) \cup {None}, seen : Seq(Nat), tab : BOOLEAN,
             decided : BOOLEAN]
    BY <2>1 DEF Files, Buffers
  <2>3. buf' = [buf EXCEPT !.tab = TRUE] /\ swapped' = swapped /\ row' = row
    BY <1>4 DEF Announce
  <2>4. buf' \in Buffers /\ buf'.sess = buf.sess
    BY <2>2, <2>3 DEF Buffers
  <2>5. buf' \in Files(marks)
    BY <2>1, <2>4 DEF Files
  <2>6. row' = None \/ row' \in Rows(marks)
    BY <2>3 DEF LogState
  <2>7. tap # None /\ ~swapped' => PartOf(BuildSession(log), buf'.sess)
    BY <2>3, <2>4 DEF LogState
  <2> QED BY <1>1, <1>2, <2>5, <2>6, <2>7, SameLogState
<1>5. CASE Open
  <2>1. buf' = LoadFile /\ buf = None /\ swapped' = swapped
    BY <1>5 DEF Open
  <2>2. buf' \in Files(marks)
    BY <2>1, OpenTyped
  <2>3. tap # None => swapped'
    BY <1>1, <2>1, FileParts DEF LogState
  <2>4. row' = None \/ row' \in Rows(marks)
    BY <1>5 DEF LogState, Open
  <2> QED BY <1>1, <1>2, <2>2, <2>3, <2>4, SameLogState
<1> QED BY <1>3, <1>4, <1>5

\* A decision is journalled at once.
LEMMA DecideKeeps ==
  ASSUME LogState, NEW i \in Sets, NEW to \in {"Accepted", "Rejected"}, Decide(i, to)
  PROVE  LogState'
<1> DEFINE b == [buf EXCEPT !.sess.state[i] = to, !.decided = TRUE]
           d == [buf.sess.state EXCEPT ![i] = to]
           s == [buf.sess EXCEPT !.state = d]
           o == AppendJournal(b)
<1>1. marks \in Nat /\ marks <= MaxMarks /\ disk \in Seq(Nat) /\ marks <= marks /\ up
  BY DEF LogState, Decide, Running
<1>2. buf \in Files(marks)
  BY DEF LogState, Decide, Running
<1>3. buf.sess \in Built /\ Version(buf.sess) <= marks
  BY <1>1, <1>2, FileParts
<1>4. d \in [Sets -> States]
  <2>1. buf.sess.state \in [Sets -> States] /\ to \in States
    BY <1>3, BuiltParts DEF States
  <2> QED BY <2>1
<1>5. b = [buf EXCEPT !.sess = s, !.decided = TRUE]
  OBVIOUS
<1> HIDE DEF b, d
<1>6. s \in Built /\ Version(s) = Version(buf.sess) /\ PartOf(buf.sess, s)
  BY <1>3, <1>4, PartOfDecided
<1> HIDE DEF s
<1>7. b \in Files(marks) /\ b.sess = s
  <2>1. Takes(b, buf, s)
    BY <1>5 DEF Takes
  <2> QED BY <1>1, <1>2, <1>3, <1>6, <2>1, FileEdited
<1>8. /\ o.tap = None => o.log = log /\ tap = None
      /\ o.tap # None => logging /\ Paired(o, marks)
      /\ o.tap # None /\ (tap = None \/ PartOf(BuildSession(log), s)) => PartOf(BuildSession(o.log), s)
  BY <1>1, <1>7, JournalKeeps
<1>9. /\ up' = up /\ logging' = logging /\ marks' = marks /\ disk' = disk /\ row' = row
      /\ buf' = b /\ log' = o.log /\ tap' = o.tap /\ swapped' = (swapped /\ tap # None)
  BY DEF Decide, Keep, b
<1> HIDE DEF o
<1>10. row' = None \/ row' \in Rows(marks)
  BY <1>9 DEF LogState
<1>11. CASE o.tap = None
  <2>1. log' = log /\ tap' = tap /\ tap = None
    BY <1>8, <1>9, <1>11
  <2> QED BY <1>1, <1>7, <1>9, <1>10, <2>1, SameLogState
<1>12. CASE o.tap # None
  <2>1. ~swapped' => tap = None \/ PartOf(BuildSession(log), s)
    BY <1>6, <1>9, PartOfPart DEF LogState
  <2>2. ~swapped' => PartOf(BuildSession(o.log), buf'.sess)
    BY <1>7, <1>8, <1>9, <1>12, <2>1
  <2>3. logging /\ Paired([log |-> o.log, tap |-> o.tap], marks)
    BY <1>8, <1>12 DEF Paired
  <2> QED BY <1>1, <1>7, <1>9, <1>10, <2>2, <2>3, KeptState
<1> QED BY <1>11, <1>12

LEMMA TickKeeps ==
  ASSUME LogState, Tick
  PROVE  LogState'
<1> DEFINE b == Checked
           o == IF ViewDirty(b) THEN AppendJournal(b) ELSE [log |-> log, tap |-> tap]
<1>1. marks \in Nat /\ marks <= MaxMarks /\ disk \in Seq(Nat) /\ marks <= marks /\ up
  BY DEF LogState, Tick, Running
<1>2. buf \in Files(marks)
  BY DEF LogState, Tick, Running
<1>3. b \in Files(marks)
  BY <1>2, CheckedTyped
<1>4. /\ up' = up /\ logging' = logging /\ marks' = marks /\ disk' = disk
      /\ buf' = b /\ log' = o.log /\ tap' = o.tap /\ swapped' = (tap # None /\ (swapped \/ b # buf))
      /\ Persist(b)
  BY DEF Tick
<1> HIDE DEF b
<1>5. row' = None \/ row' \in Rows(marks)
  BY <1>1, <1>3, <1>4, RowOfFile DEF Persist, LogState
<1>6. tap # None /\ ~swapped' => b = buf /\ PartOf(BuildSession(log), b.sess)
  BY <1>4 DEF LogState
<1>7. CASE ViewDirty(b)
  <2>1. /\ o.tap = None => o.log = log /\ tap = None
        /\ o.tap # None => logging /\ Paired(o, marks)
        /\ o.tap # None /\ (tap = None \/ PartOf(BuildSession(log), b.sess)) => PartOf(BuildSession(o.log), b.sess)
    BY <1>1, <1>3, <1>7, JournalKeeps
  <2> HIDE DEF o
  <2>2. CASE o.tap = None
    <3>1. log' = log /\ tap' = tap /\ tap = None
      BY <1>4, <2>1, <2>2
    <3> QED BY <1>1, <1>3, <1>4, <1>5, <3>1, SameLogState
  <2>3. CASE o.tap # None
    <3>1. ~swapped' => PartOf(BuildSession(o.log), buf'.sess)
      BY <1>4, <1>6, <2>1, <2>3
    <3>2. logging /\ Paired([log |-> o.log, tap |-> o.tap], marks)
      BY <2>1, <2>3 DEF Paired
    <3> QED BY <1>1, <1>3, <1>4, <1>5, <3>1, <3>2, KeptState
  <2> QED BY <2>2, <2>3
<1>8. CASE ~ViewDirty(b)
  <2>1. log' = log /\ tap' = tap
    BY <1>4, <1>8
  <2> HIDE DEF o
  <2> QED BY <1>1, <1>3, <1>4, <1>5, <1>6, <2>1, SameLogState
<1> QED BY <1>7, <1>8

\* A tick cut short, by an error or by the end of the process.
LEMMA CutKeeps ==
  ASSUME LogState, tears \in Nat, tears' = 0,
         NEW n \in 0 .. MaxRecords, NEW dies \in BOOLEAN, NEW torn \in BOOLEAN, CutTick(n, dies, torn)
  PROVE  LogState'
<1> DEFINE q == Opened(buf)
           o == Told(q, buf, n)
<1>1. marks \in Nat /\ marks <= MaxMarks /\ disk \in Seq(Nat) /\ marks <= marks /\ up /\ logging
  BY DEF LogState, CutTick, Running, Journals
<1>2. buf \in Files(marks)
  BY DEF LogState, CutTick, Running
<1>3. buf.sess \in Built
  BY <1>1, <1>2, FileParts
<1>4. q.tap \in Taps
  BY <1>1, <1>2, OpenedPaired, PairedLater
<1>5. n \in 0 .. Len(Batch(Opened(buf).tap, buf.sess))
  <2>1. n < Len(Batch(q.tap, buf.sess))
    BY DEF CutTick
  <2>2. Len(Batch(q.tap, buf.sess)) \in Nat
    BY <1>3, <1>4, BatchLength
  <2> HIDE DEF q
  <2>3. n \in 0 .. Len(Batch(q.tap, buf.sess))
    BY <2>1, <2>2
  <2> QED BY <2>3 DEF q
<1>6. /\ Paired(o, marks)
      /\ tap = None \/ PartOf(BuildSession(log), buf.sess) => PartOf(BuildSession(o.log), buf.sess)
  BY <1>1, <1>2, <1>5, TellingKeeps
<1>7. logging' = logging /\ disk' = disk /\ marks' = marks
  BY DEF CutTick
<1>8. CASE /\ ~dies /\ ~torn
           /\ Keep(o) /\ Persist(buf)
           /\ UNCHANGED <<up, buf, stops, tears>>
  <2>1. up' = up /\ buf' = buf /\ log' = o.log /\ tap' = o.tap /\ swapped' = (swapped /\ tap # None)
        /\ Persist(buf)
    BY <1>8 DEF Keep
  <2> HIDE DEF o
  <2>2. row' = None \/ row' \in Rows(marks)
    BY <1>1, <1>2, <2>1, RowOfFile DEF Persist, LogState
  <2>3. ~swapped' => PartOf(BuildSession(o.log), buf'.sess)
    BY <1>6, <2>1 DEF LogState
  <2>4. Paired([log |-> o.log, tap |-> o.tap], marks)
    BY <1>6 DEF Paired
  <2> QED BY <1>1, <1>2, <1>7, <2>1, <2>2, <2>3, <2>4, KeptState
<1>9. CASE /\ dies /\ tears' = tears + (IF torn THEN 1 ELSE 0)
           /\ log' = o.log \o (IF torn THEN <<Torn>> ELSE <<>>)
           /\ tap' = None /\ up' = FALSE /\ buf' = None /\ UNCHANGED row
  <2>1. ~torn
    BY <1>9
  <2>2. o.log \in Seq(Records) /\ o.tap = TapFromLog(o.log)
    BY <1>6 DEF Paired, Sound
  <2> HIDE DEF o
  <2>3. log' = o.log
    BY <1>9, <2>1, <2>2
  <2>4. Paired([log |-> o.log, tap |-> TapFromLog(o.log)], marks)
    BY <1>6, <2>2 DEF Paired
  <2> QED BY <1>1, <1>7, <1>9, <2>3, <2>4, StoppedState
<1>10. \/ /\ ~dies /\ ~torn
          /\ Keep(o) /\ Persist(buf)
          /\ UNCHANGED <<up, buf, stops, tears>>
       \/ /\ dies /\ tears' = tears + (IF torn THEN 1 ELSE 0)
          /\ log' = o.log \o (IF torn THEN <<Torn>> ELSE <<>>)
          /\ tap' = None /\ up' = FALSE /\ buf' = None /\ UNCHANGED row
  BY DEF CutTick
<1> QED BY <1>8, <1>9, <1>10

\* A save journals what it saves before it approves it, and again after.
LEMMA SaveRuns ==
  ASSUME LogState, up, buf \in Files(marks), SaveOver
  PROVE  \E l, t : \E s \in Built :
            /\ log' = l /\ tap' = t /\ s = AcceptPending(buf.sess)
            /\ buf' \in Files(marks) /\ buf'.sess = s /\ disk' = Agreed(s) /\ disk' \in Seq(Nat)
            /\ swapped' = (swapped /\ tap # None) /\ row' = None
            /\ spliced' = (spliced \/ (swapped /\ l # log))
            /\ \/ l = log /\ t = tap /\ tap = None
               \/ /\ logging /\ Paired([log |-> l, tap |-> t], marks)
                  /\ tap = None \/ PartOf(BuildSession(log), buf.sess) =>
                        PartOf(BuildSession(l), s) /\ SameAs(BuildSession(l), s)
                  /\ tap # None => l # log
<1> DEFINE a == AppendJournal(buf)
           s == AcceptPending(buf.sess)
           b == [buf EXCEPT !.sess = s, !.saved = Agreed(s), !.savedAt = Version(s),
                            !.digest = Agreed(s), !.stamp = Agreed(s), !.seen = Agreed(s),
                            !.decided = FALSE]
           n == Len(Batch(a.tap, s))
           o == Told(a, b, n)
           w == [k |-> "written", hash |-> Agreed(s), version |-> Version(s)]
           f == IF a.tap = None THEN a ELSE [o EXCEPT !.log = Append(@, w)]
<1>1. marks \in Nat
  BY DEF LogState
<1>2. buf.sess \in Built /\ Version(buf.sess) <= marks
  BY <1>1, FileParts
<1>3. s \in Built /\ Version(s) = Version(buf.sess) /\ PartOf(buf.sess, s)
  BY <1>2, AcceptShape
<1>4. Version(s) \in Nat /\ Version(s) <= marks
  BY <1>2, <1>3, BuiltParts
<1>5. Agreed(s) \in Seq(Nat)
  BY <1>3, TextShape DEF Agreed
<1>6. /\ disk' = Agreed(s) /\ buf' = b /\ Keep(f) /\ row' = None
  BY DEF SaveOver
<1>7. b \in Files(marks) /\ b.sess = s
  <2> DEFINE v == Version(s)
             g == Agreed(s)
  <2>1. buf \in Buffers /\ s \in Sessions
    BY <1>3 DEF Files, Built
  <2>2. v \in Nat /\ g \in Seq(Nat) /\ b = [buf EXCEPT !.sess = s, !.saved = g, !.savedAt = v,
                                               !.digest = g, !.stamp = g, !.seen = g,
                                               !.decided = FALSE]
    BY <1>4, <1>5
  <2> HIDE DEF v, g, s, b
  <2>3. b \in Buffers /\ b.sess = s
    BY <2>1, <2>2 DEF Buffers
  <2> QED BY <1>3, <1>4, <2>3 DEF Files
<1>8. log' = f.log /\ tap' = f.tap /\ swapped' = (swapped /\ tap # None)
      /\ spliced' = (spliced \/ (swapped /\ f.log # log))
  BY <1>6 DEF Keep
<1>9. /\ a.tap = None => a.log = log /\ tap = None
      /\ a.tap # None => logging /\ Paired(a, marks)
      /\ a.tap # None /\ (tap = None \/ PartOf(BuildSession(log), buf.sess)) =>
            PartOf(BuildSession(a.log), buf.sess)
  BY JournalKeeps
<1>10. ASSUME a.tap = None PROVE f.log = log /\ f.tap = tap /\ tap = None
  BY <1>9, <1>10
<1>11. ASSUME a.tap # None
       PROVE  /\ logging /\ Paired([log |-> f.log, tap |-> f.tap], marks)
              /\ tap = None \/ PartOf(BuildSession(log), buf.sess) =>
                    PartOf(BuildSession(f.log), s) /\ SameAs(BuildSession(f.log), s)
              /\ tap # None => f.log # log
  <2>1. Paired(a, marks) /\ logging /\ a.tap \in Taps
    BY <1>1, <1>9, <1>11, PairedLater
  <2> HIDE DEF a, b, s
  <2>2. n \in 0 .. Len(Batch(a.tap, b.sess)) /\ n = Len(Batch(a.tap, b.sess))
    BY <1>3, <1>7, <2>1, BatchLength
  <2>3. /\ Paired(o, marks)
        /\ PartOf(BuildSession(a.log), b.sess) => PartOf(BuildSession(o.log), b.sess)
        /\ PartOf(BuildSession(a.log), b.sess) /\ n = Len(Batch(a.tap, b.sess))
             => SameAs(BuildSession(o.log), b.sess)
    BY <1>1, <1>7, <2>1, <2>2, ToldPaired
  <2>4. w \in Records /\ w.k = "written"
    BY <1>4, <1>5 DEF Records
  <2>5. f.log = Append(o.log, w) /\ f.tap = o.tap
    <3>1. o = [log |-> o.log, tap |-> o.tap]
      BY DEF Told
    <3>2. f = [o EXCEPT !.log = Append(@, w)]
      BY <1>11
    <3> HIDE DEF o, w, f
    <3> QED BY <3>1, <3>2
  <2>6. o.log \in Seq(Records)
    BY <2>3 DEF Paired, Sound
  <2>7. o.log = a.log \o SubSeq(Batch(a.tap, b.sess), 1, n)
    BY DEF Told
  <2> HIDE DEF o, w, f
  <2>8. Paired(f, marks) /\ BuildSession(f.log) = BuildSession(o.log)
    BY <1>1, <2>3, <2>4, <2>5, WrittenKeeps
  <2>9. Paired([log |-> f.log, tap |-> f.tap], marks)
    BY <2>8 DEF Paired
  <2>10. tap = None \/ PartOf(BuildSession(log), buf.sess) =>
            PartOf(BuildSession(f.log), s) /\ SameAs(BuildSession(f.log), s)
    <3>1. PartOf(BuildSession(a.log), buf.sess) => PartOf(BuildSession(a.log), b.sess)
      BY <1>3, <1>7, PartOfPart
    <3> QED BY <1>7, <1>9, <1>11, <2>2, <2>3, <2>8, <3>1
  <2>11. tap # None => f.log # log
    <3> SUFFICES ASSUME tap # None PROVE f.log # log
      OBVIOUS
    <3>1. log \in Seq(Records)
      BY DEF LogState, Paired, Sound
    <3>2. a.log = log \/ \E x \in Seq(Records) : a.log = log \o x
      <4>1. CASE Journals(buf)
        <5> DEFINE q == Opened(buf)
                   k == Len(Batch(q.tap, buf.sess))
        <5>1. a = Told(q, buf, k) /\ q.log = log /\ q.tap = tap
          BY <4>1 DEF a, AppendJournal, Opened
        <5>2. tap \in Taps
          BY <1>1, PairedLater DEF LogState
        <5>3. k \in Nat /\ Batch(tap, buf.sess) \in Seq(Records) /\ k = Len(Batch(tap, buf.sess))
          BY <1>2, <5>1, <5>2, BatchLength
        <5> HIDE DEF q, k
        <5>4. SubSeq(Batch(tap, buf.sess), 1, k) \in Seq(Records)
          BY <5>3, PrefixShape
        <5> QED BY <5>1, <5>4 DEF Told
      <4>2. CASE ~Journals(buf)
        BY <4>2 DEF a, AppendJournal
      <4> QED BY <4>1, <4>2
    <3>3. SubSeq(Batch(a.tap, b.sess), 1, n) \in Seq(Records) /\ a.log \in Seq(Records)
      <4>1. Batch(a.tap, b.sess) \in Seq(Records)
        BY <1>3, <1>7, <2>1, BatchLength
      <4> QED BY <2>1, <2>2, <4>1, PrefixShape DEF Paired, Sound
    <3>4. Len(a.log) >= Len(log)
      BY <3>1, <3>2, ConcatElements
    <3>5. Len(o.log) >= Len(a.log)
      <4> DEFINE x == SubSeq(Batch(a.tap, b.sess), 1, n)
      <4>1. x \in Seq(Records) /\ a.log \in Seq(Records) /\ o.log = a.log \o x
        BY <2>7, <3>3
      <4> HIDE DEF x
      <4> QED BY <4>1, ConcatElements
    <3>6. Len(f.log) = Len(o.log) + 1
      BY <2>4, <2>5, <2>6, AppendElements
    <3>7. Len(log) \in Nat /\ Len(a.log) \in Nat /\ Len(o.log) \in Nat
      BY <2>6, <3>1, <3>3
    <3> QED BY <3>4, <3>5, <3>6, <3>7
  <2> QED BY <2>1, <2>9, <2>10, <2>11
<1>12. s = AcceptPending(buf.sess)
  OBVIOUS
<1>13. \/ f.log = log /\ f.tap = tap /\ tap = None
       \/ /\ logging /\ Paired([log |-> f.log, tap |-> f.tap], marks)
          /\ tap = None \/ PartOf(BuildSession(log), buf.sess) =>
                PartOf(BuildSession(f.log), s) /\ SameAs(BuildSession(f.log), s)
          /\ tap # None => f.log # log
  <2> HIDE DEF f, s, a
  <2> QED BY <1>10, <1>11
<1> HIDE DEF f, a, b, s
<1>14. buf' \in Files(marks) /\ buf'.sess = s /\ disk' \in Seq(Nat)
  BY <1>5, <1>6, <1>7
<1> WITNESS f.log, f.tap
<1> QED BY <1>3, <1>6, <1>8, <1>12, <1>13, <1>14

LEMMA SaveKeeps ==
  ASSUME LogState, Save \/ Overwrite
  PROVE  LogState'
<1>1. up /\ buf \in Files(marks) /\ marks \in Nat /\ marks <= MaxMarks /\ marks <= marks /\ SaveOver
  BY DEF LogState, Save, Overwrite, Running
<1>2. /\ up' = up /\ logging' = logging /\ marks' = marks
  BY <1>1 DEF SaveOver
<1>3. PICK l, t : \E s \in Built :
            /\ log' = l /\ tap' = t /\ s = AcceptPending(buf.sess)
            /\ buf' \in Files(marks) /\ buf'.sess = s /\ disk' = Agreed(s) /\ disk' \in Seq(Nat)
            /\ swapped' = (swapped /\ tap # None) /\ row' = None
            /\ spliced' = (spliced \/ (swapped /\ l # log))
            /\ \/ l = log /\ t = tap /\ tap = None
               \/ /\ logging /\ Paired([log |-> l, tap |-> t], marks)
                  /\ tap = None \/ PartOf(BuildSession(log), buf.sess) =>
                        PartOf(BuildSession(l), s) /\ SameAs(BuildSession(l), s)
                  /\ tap # None => l # log
  BY <1>1, SaveRuns
<1>4. /\ log' = l /\ tap' = t /\ buf' \in Files(marks) /\ disk' \in Seq(Nat)
      /\ swapped' = (swapped /\ tap # None) /\ row' = None
      /\ \/ l = log /\ t = tap /\ tap = None
         \/ /\ logging /\ Paired([log |-> l, tap |-> t], marks)
            /\ tap = None \/ PartOf(BuildSession(log), buf.sess) => PartOf(BuildSession(l), buf'.sess)
  BY <1>3
<1>5. ~swapped' => tap = None \/ PartOf(BuildSession(log), buf.sess)
  BY <1>4 DEF LogState
<1>6. CASE l = log /\ t = tap /\ tap = None
  BY <1>1, <1>2, <1>4, <1>6, SameLogState
<1>7. CASE /\ logging /\ Paired([log |-> l, tap |-> t], marks)
           /\ ~swapped' => PartOf(BuildSession(l), buf'.sess)
  BY <1>1, <1>2, <1>4, <1>7, KeptState
<1> QED BY <1>4, <1>5, <1>6, <1>7

\* Closing a tab and stopping.
LEMMA EndKeeps ==
  ASSUME LogState, Close \/ Stop
  PROVE  LogState'
<1>1. CASE Close
  <2>1. log = None \/ logging
    BY DEF LogState
  <2>2. /\ log' = None /\ tap' = None /\ buf' = None
        /\ marks' = marks /\ disk' = disk /\ row' = row
    BY <1>1, <2>1 DEF Close
  <2>3. row' = None \/ row' \in Rows(marks')
    BY <2>2 DEF LogState
  <2> QED BY <2>2, <2>3 DEF LogState
<1>2. CASE Stop
  <2>1. /\ up' = FALSE /\ logging' = logging /\ marks' = marks /\ disk' = disk /\ row' = row
        /\ buf' = None /\ tap' = None /\ log' = log
    BY <1>2 DEF Stop
  <2>2. log = None \/ (logging /\ Paired([log |-> log, tap |-> TapFromLog(log)], marks))
    BY DEF LogState
  <2> QED BY <2>1, <2>2, StoppedState
<1> QED BY <1>1, <1>2

\* A start over a sound log: nothing of the log is left, or the buffer is what it builds.
LEMMA StartRuns ==
  ASSUME LogState, NEW tab \in BOOLEAN, Start(tab)
  PROVE  /\ up' = TRUE /\ logging' = logging /\ marks' = marks /\ disk' = disk
         /\ row' = row \/ row' = None
         /\ \/ /\ log' = None /\ tap' = None
               /\ \/ buf' = None
                  \/ buf' \in Files(marks) /\ buf'.sess = Fresh(disk)
                  \/ buf' \in Files(marks) /\ row # None /\ buf'.sess = row.sess
            \/ /\ log # None /\ logging /\ tap' # None
               /\ Paired([log |-> log', tap |-> tap'], marks)
               /\ buf' \in Files(marks) /\ buf'.sess = BuildSession(log)
               /\ PartOf(BuildSession(log'), buf'.sess)
               /\ \/ BuildSession(log') = BuildSession(log)
                  \/ BuildSession(log') = Fresh(BuildSession(log).base)
<1> DEFINE opened == IF tab THEN LoadFile ELSE [OpenDisk EXCEPT !.tab = FALSE]
<1>1. /\ up' = TRUE /\ logging' = logging /\ marks' = marks /\ disk' = disk
      /\ row' = row \/ row' = None
  BY DEF Start
<1>2. \/ opened \in Files(marks) /\ opened.sess = Fresh(disk)
      \/ opened \in Files(marks) /\ row # None /\ opened.sess = row.sess
  BY OpenTyped
<1>3. marks \in Nat
  BY DEF LogState
<1>4. CASE log = None
  <2>1. buf' = (IF tab THEN opened ELSE None) /\ log' = None /\ tap' = None
    BY <1>4 DEF Start
  <2> HIDE DEF opened
  <2> QED BY <1>1, <1>2, <2>1
<1>5. CASE log # None
  <2>1. logging /\ Paired([log |-> log, tap |-> TapFromLog(log)], marks)
    BY <1>5 DEF LogState
  <2>2. log \in Seq(Records) /\ BuildSession(log) \in Built
    BY <2>1 DEF Paired, Sound, Fits
  <2>3. ~Damaged(log) /\ BuildSession(log) # None
    BY <2>2, Undamaged, BuiltParts
  <2>4. CASE ~tab /\ CleanOnDisk(log)
    <3>1. log' = None /\ tap' = None /\ buf' = None
      BY <1>5, <2>1, <2>3, <2>4 DEF Start
    <3> QED BY <1>1, <3>1
  <2>5. CASE ~(~tab /\ CleanOnDisk(log)) /\ NotOurs(log)
    <3>1. log' = None /\ tap' = None /\ buf' = opened
      BY <1>5, <2>1, <2>3, <2>5 DEF Start
    <3> HIDE DEF opened
    <3> QED BY <1>1, <1>2, <3>1
  <2>6. CASE ~(~tab /\ CleanOnDisk(log)) /\ ~NotOurs(log)
    <3> DEFINE b == NewRestoredFile(log, tab)
               o == StartTap(b)
    <3>1. buf' = b /\ log' = o.log /\ tap' = o.tap
      BY <1>5, <2>1, <2>3, <2>6 DEF Start
    <3>2. b \in Files(marks) /\ b.sess = BuildSession(log)
      BY <2>1, RestoredTyped
    <3> HIDE DEF b
    <3>3. /\ Paired(o, marks) /\ PartOf(BuildSession(o.log), b.sess)
          /\ BuildSession(o.log) = BuildSession(log) \/ BuildSession(o.log) = Fresh(b.sess.base)
      BY <1>5, <3>2, RestoredLog
    <3> HIDE DEF o
    <3>4. o.tap # None /\ Paired([log |-> o.log, tap |-> o.tap], marks)
      BY <1>3, <3>3, PairedLater DEF Paired
    <3> QED BY <1>1, <1>5, <2>1, <3>1, <3>2, <3>3, <3>4
  <2> QED BY <2>4, <2>5, <2>6
<1> QED BY <1>4, <1>5

LEMMA StartKeeps ==
  ASSUME LogState, NEW tab \in BOOLEAN, Start(tab)
  PROVE  LogState'
<1>1. /\ up' = TRUE /\ logging' = logging /\ marks' = marks /\ disk' = disk
      /\ row' = row \/ row' = None
      /\ \/ log' = None /\ tap' = None /\ (buf' = None \/ buf' \in Files(marks))
         \/ /\ logging /\ tap' # None
            /\ Paired([log |-> log', tap |-> tap'], marks)
            /\ buf' \in Files(marks) /\ PartOf(BuildSession(log'), buf'.sess)
  BY StartRuns
<1>2. row' = None \/ row' \in Rows(marks')
  BY <1>1 DEF LogState
<1>3. marks' \in Nat /\ marks' <= MaxMarks /\ disk' \in Seq(Nat)
  BY <1>1 DEF LogState
<1>4. CASE log' = None /\ tap' = None /\ (buf' = None \/ buf' \in Files(marks))
  BY <1>1, <1>2, <1>3, <1>4 DEF LogState
<1>5. CASE /\ logging /\ tap' # None
           /\ Paired([log |-> log', tap |-> tap'], marks)
           /\ buf' \in Files(marks) /\ PartOf(BuildSession(log'), buf'.sess)
  <2>1. Paired([log |-> log', tap |-> TapFromLog(log')], marks')
    BY <1>1, <1>5 DEF Paired
  <2> QED BY <1>1, <1>2, <1>3, <1>5, <2>1 DEF LogState
<1> QED BY <1>1, <1>4, <1>5

LEMMA LogNext ==
  ASSUME LogInv, [Next]_vars
  PROVE  LogInv'
<1>1. tears' \in Nat /\ (tears' = 0 => tears = 0)
  BY TearsCount
<1> SUFFICES ASSUME tears' = 0 PROVE LogState'
  BY <1>1 DEF LogInv
<1>2. LogState /\ tears \in Nat
  BY <1>1 DEF LogInv
<1>3. CASE Edit \/ Propose
  BY <1>2, <1>3, EditKeeps
<1>4. CASE \E i \in Sets, to \in {"Accepted", "Rejected"} : Decide(i, to)
  BY <1>2, <1>4, DecideKeeps
<1>5. CASE Tick
  BY <1>2, <1>5, TickKeeps
<1>6. CASE \E n \in 0 .. MaxRecords, dies, torn \in BOOLEAN : CutTick(n, dies, torn)
  BY <1>2, <1>6, CutKeeps
<1>7. CASE Save \/ Overwrite
  BY <1>2, <1>7, SaveKeeps
<1>8. CASE Reload \/ Announce \/ Open
  BY <1>2, <1>8, ReplacedKeeps
<1>9. CASE Close \/ Stop
  BY <1>2, <1>9, EndKeeps
<1>10. CASE Outside
  BY <1>2, <1>10, OutsideKeeps
<1>11. CASE \E tab \in BOOLEAN : Start(tab)
  BY <1>2, <1>11, StartKeeps
<1>12. CASE UNCHANGED vars
  BY <1>2, <1>12 DEF LogState, vars
<1> QED BY <1>3, <1>4, <1>5, <1>6, <1>7, <1>8, <1>9, <1>10, <1>11, <1>12 DEF Next

\* What the log of an open buffer would bring back is a state that buffer has been in.
LEMMA LogStateReplays == LogInv => LogReplaysTheBuffer
<1> SUFFICES ASSUME LogInv, tears = 0, tap # None, buf # None, ~swapped
             PROVE  ReplaysTheBuffer
  BY DEF LogReplaysTheBuffer
<1> DEFINE s == BuildSession(log)
<1>1. /\ Paired([log |-> log, tap |-> tap], marks) /\ PartOf(s, buf.sess)
  BY DEF LogInv, LogState
<1>2. Fits(TapFromLog(log), s) /\ tap = TapFromLog(log)
  BY <1>1 DEF Paired, Sound
<1>3. s # None /\ Version(s) = tap.version /\ s.state = tap.state
  BY <1>2, BuiltParts DEF Fits
<1>4. Version(s) <= Version(buf.sess)
  BY <1>1 DEF PartOf
<1>5. Whole(s) = Whole(Prefix(buf.sess, Version(s)))
  BY <1>1, WholeOfPart
<1> QED BY <1>3, <1>4, <1>5 DEF ReplaysTheBuffer

\* For every bound: as long as no record was cut short, the log of an open buffer
\* builds, and builds a state that buffer has been in, with the decisions its tap was
\* told (appendTap, startTap, restoreLog).
THEOREM LogsReplayTheBuffer == Spec => []LogReplaysTheBuffer
<1>1. Spec => []LogInv
  BY LogInit, LogNext, PTL DEF Spec
<1> QED BY <1>1, LogStateReplays, PTL

-----------------------------------------------------------------------------
(* Agreement.                                                              *)

\* Of the agent's accepted bytes in s every one is in ap, all bytes are among the
\* first m, and none is both the agent's and somebody else's.
Honest(s, ap, m) ==
    /\ ToSet(s.base) \subseteq 0 .. m
    /\ \A a \in Authors : ToSet(s.store[a]) \subseteq 0 .. m
    /\ ToSet(s.base) \cap ToSet(s.store[agent]) = {}
    /\ ToSet(s.store[user]) \cap ToSet(s.store[agent]) = {}
    /\ \A i \in 1 .. Version(s) :
          s.ops[i].by = agent /\ s.state[i] = "Accepted" => MarkOf(s, i) \in ap

\* Everything a buffer can be made from is honest.
ApprovalState ==
    /\ ToSet(disk) \subseteq 0 .. marks
    /\ buf = None \/ Honest(buf.sess, approved, marks)
    /\ row = None \/ Honest(row.sess, approved, marks)
    /\ log = None \/ Honest(BuildSession(log), approved, marks)
    /\ tap # None => Honest(BuildSession(log), approved, marks)
ApprovalInv == /\ cuts \in Nat /\ (cuts = 0 => tears = 0)
               /\ cuts = 0 /\ ~spliced => ApprovalState

\* What is agreed in an honest session is approved, and made by somebody.
LEMMA HonestAgreed ==
  ASSUME NEW s \in Built, NEW ap, NEW m \in Nat, Honest(s, ap, m)
  PROVE  /\ (ToSet(Agreed(s)) \cap ToSet(s.store[agent])) \ ap = {}
         /\ ToSet(Agreed(s)) \subseteq 0 .. m
<1>1. ASSUME NEW x \in ToSet(Agreed(s))
      PROVE  x \in 0 .. m /\ (x \in ToSet(s.store[agent]) => x \in ap)
  <2>1. \/ x \in ToSet(s.base)
        \/ \E i \in 1 .. Version(s) : i \in Sets /\ s.state[i] \in {"Accepted"} /\ x = MarkOf(s, i)
    BY <1>1, TextShape DEF Agreed
  <2>2. CASE x \in ToSet(s.base)
    BY <2>2 DEF Honest
  <2>3. ASSUME NEW i \in 1 .. Version(s), s.state[i] = "Accepted", x = MarkOf(s, i)
        PROVE  x \in 0 .. m /\ (x \in ToSet(s.store[agent]) => x \in ap)
    <3>1. s.ops[i].by \in Authors /\ x \in ToSet(s.store[s.ops[i].by])
      BY <2>3, MarkTyped
    <3>2. x \in 0 .. m
      BY <3>1 DEF Honest
    <3>3. CASE s.ops[i].by = agent
      BY <2>3, <3>2, <3>3 DEF Honest
    <3>4. CASE s.ops[i].by # agent
      <4>1. s.ops[i].by = user
        BY <3>1, <3>4 DEF Authors
      <4>2. x \notin ToSet(s.store[agent])
        BY <3>1, <4>1 DEF Honest
      <4> QED BY <3>2, <4>2
    <3> QED BY <3>3, <3>4
  <2> QED BY <2>1, <2>2, <2>3
<1> QED BY <1>1

LEMMA HonestMore ==
  ASSUME NEW s \in Built, NEW ap, NEW bp, ap \subseteq bp, NEW m \in Nat, NEW n \in Nat, m <= n,
         Honest(s, ap, m)
  PROVE  Honest(s, bp, n)
<1>1. 0 .. m \subseteq 0 .. n
  OBVIOUS
<1> QED BY <1>1 DEF Honest

LEMMA HonestFresh ==
  ASSUME NEW d \in Seq(Nat), NEW m, ToSet(d) \subseteq 0 .. m, NEW ap
  PROVE  Honest(Fresh(d), ap, m)
<1> DEFINE s == Fresh(d)
<1>1. s.base = d /\ \A a \in Authors : s.store[a] = <<>>
  BY DEF Fresh
<1>2. ToSet(<<>>) = {}
  BY DEF ToSet
<1>3. Version(s) = 0
  BY FreshBuilt
<1> HIDE DEF s
<1>4. user \in Authors /\ agent \in Authors
  BY DEF Authors
<1>5. 1 .. Version(s) = {}
  BY <1>3
<1>6. Honest(s, ap, m)
  BY <1>1, <1>2, <1>4, <1>5 DEF Honest
<1> QED BY <1>6 DEF s

LEMMA HonestBase ==
  ASSUME NEW s \in Built, NEW ap, NEW m, Honest(s, ap, m), NEW bp
  PROVE  Honest(Fresh(s.base), bp, m)
<1>1. s.base \in Seq(Nat) /\ ToSet(s.base) \subseteq 0 .. m
  BY BuiltParts DEF Honest
<1> QED BY <1>1, HonestFresh

LEMMA HonestSame ==
  ASSUME NEW s \in Built, NEW b \in Built, Version(b) <= MaxMarks, SameAs(s, b),
         NEW ap, NEW m, Honest(b, ap, m)
  PROVE  Honest(s, ap, m)
<1>1. s.base = b.base /\ s.ops = b.ops /\ s.store = b.store
  BY DEF SameAs
<1>2. Version(s) = Version(b) /\ Version(b) \in Nat
  BY <1>1, BuiltParts DEF Version
<1>3. \A i \in 1 .. Version(s) : s.state[i] = b.state[i] /\ MarkOf(s, i) = MarkOf(b, i)
  <2> SUFFICES ASSUME NEW i \in 1 .. Version(s)
               PROVE  s.state[i] = b.state[i] /\ MarkOf(s, i) = MarkOf(b, i)
    OBVIOUS
  <2>1. i \in Sets /\ i <= Version(b)
    BY <1>2, BoundAssumption DEF Sets
  <2> QED BY <1>1, <2>1 DEF SameAs, MarkOf
<1>4. \A i \in 1 .. Version(s) :
         s.ops[i].by = agent /\ s.state[i] = "Accepted" => MarkOf(s, i) \in ap
  BY <1>1, <1>2, <1>3, Zenon DEF Honest
<1> QED BY <1>1, <1>4, Zenon DEF Honest

\* A person's edit.
LEMMA HonestEdit ==
  ASSUME NEW s \in Built, NEW ap, NEW m \in Nat, Honest(s, ap, m),
         NEW a \in Authors, NEW c, c = Commit(s, a, m + 1)
  PROVE  /\ ToSet(c.base) \subseteq 0 .. m + 1
         /\ \A x \in Authors : ToSet(c.store[x]) \subseteq 0 .. m + 1
         /\ ToSet(c.base) \cap ToSet(c.store[agent]) = {}
         /\ ToSet(c.store[user]) \cap ToSet(c.store[agent]) = {}
         /\ \A i \in 1 .. Version(s) :
               c.ops[i].by = agent /\ c.state[i] = "Accepted" => MarkOf(c, i) \in ap
<1>0. m + 1 \in Nat /\ m + 1 \notin 0 .. m /\ 0 .. m + 1 = (0 .. m) \cup {m + 1}
  OBVIOUS
<1>1. /\ c \in Built /\ c.base = s.base /\ c.state = s.state
      /\ c.store = [s.store EXCEPT ![a] = Append(s.store[a], m + 1)]
      /\ Version(c) = Version(s) + 1
      /\ \A i \in 1 .. Version(s) : c.ops[i] = s.ops[i]
      /\ c.ops[Version(s) + 1] = [by |-> a, at |-> Len(s.store[a]) + 1]
      /\ PartOf(s, c)
  <2> DEFINE n == m + 1
  <2>1. n \in Nat /\ c = Commit(s, a, n)
    BY <1>0
  <2> HIDE DEF n
  <2>2. /\ c \in Built /\ c.base = s.base /\ c.state = s.state
        /\ c.store = [s.store EXCEPT ![a] = Append(s.store[a], n)]
        /\ Version(c) = Version(s) + 1
        /\ \A i \in 1 .. Version(s) : c.ops[i] = s.ops[i]
        /\ c.ops[Version(s) + 1] = [by |-> a, at |-> Len(s.store[a]) + 1]
        /\ PartOf(s, c)
    BY <2>1, CommitShape
  <2> QED BY <2>2 DEF n
<1>2. s.store \in [Authors -> Seq(Nat)] /\ user \in Authors /\ agent \in Authors /\ user # agent
  BY BuiltParts, BoundAssumption DEF Authors
<1>3. ToSet(c.store[a]) = ToSet(s.store[a]) \cup {m + 1}
  <2>1. s.store[a] \in Seq(Nat) /\ c.store[a] = Append(s.store[a], m + 1)
    BY <1>1, <1>2
  <2>2. Range(Append(s.store[a], m + 1)) = Range(s.store[a]) \cup {m + 1}
    BY <1>0, <2>1, RangeOfAppend
  <2> QED BY <2>1, <2>2, Zenon DEF Range, ToSet
<1>4. \A x \in Authors : x # a => c.store[x] = s.store[x]
  BY <1>1, <1>2
<1>5. \A x \in Authors : ToSet(c.store[x]) \subseteq 0 .. m + 1
  <2> SUFFICES ASSUME NEW x \in Authors PROVE ToSet(c.store[x]) \subseteq 0 .. m + 1
    OBVIOUS
  <2>1. ToSet(s.store[x]) \subseteq 0 .. m
    BY DEF Honest
  <2>2. ToSet(c.store[x]) \subseteq ToSet(s.store[x]) \cup {m + 1}
    BY <1>3, <1>4
  <2> HIDE DEF ToSet
  <2> QED BY <1>0, <2>1, <2>2
<1>6. ToSet(s.base) \subseteq 0 .. m /\ ToSet(s.store[user]) \subseteq 0 .. m /\ ToSet(s.store[agent]) \subseteq 0 .. m
      /\ ToSet(s.base) \cap ToSet(s.store[agent]) = {}
      /\ ToSet(s.store[user]) \cap ToSet(s.store[agent]) = {}
  BY <1>2 DEF Honest
<1>7. /\ ToSet(c.store[agent]) \subseteq ToSet(s.store[agent]) \cup {m + 1}
      /\ ToSet(c.store[user]) \subseteq ToSet(s.store[user]) \cup {m + 1}
      /\ ToSet(c.store[user]) = ToSet(s.store[user]) \/ ToSet(c.store[agent]) = ToSet(s.store[agent])
  <2>1. CASE a = user
    <3>1. c.store[agent] = s.store[agent] /\ ToSet(c.store[user]) = ToSet(s.store[user]) \cup {m + 1}
      BY <1>2, <1>3, <1>4, <2>1
    <3> HIDE DEF ToSet
    <3> QED BY <3>1
  <2>2. CASE a = agent
    <3>1. c.store[user] = s.store[user] /\ ToSet(c.store[agent]) = ToSet(s.store[agent]) \cup {m + 1}
      BY <1>2, <1>3, <1>4, <2>2
    <3> HIDE DEF ToSet
    <3> QED BY <3>1
  <2> QED BY <2>1, <2>2 DEF Authors
<1>8. /\ ToSet(c.base) \subseteq 0 .. m + 1
      /\ ToSet(c.base) \cap ToSet(c.store[agent]) = {}
      /\ ToSet(c.store[user]) \cap ToSet(c.store[agent]) = {}
  BY <1>0, <1>1, <1>6, <1>7
<1>9. ASSUME NEW i \in 1 .. Version(s), c.ops[i].by = agent, c.state[i] = "Accepted"
      PROVE  MarkOf(c, i) \in ap
  <2>1. c.ops[i] = s.ops[i] /\ s.state[i] = "Accepted"
    BY <1>1, <1>9
  <2>2. MarkOf(s, i) \in ap
    BY <1>9, <2>1 DEF Honest
  <2>3. s.ops[i].by \in Authors /\ s.ops[i].at \in 1 .. Len(s.store[s.ops[i].by])
    BY <1>9, BuiltParts
  <2>4. c.store[s.ops[i].by][s.ops[i].at] = s.store[s.ops[i].by][s.ops[i].at]
    BY <1>1, <2>3 DEF PartOf
  <2> QED BY <2>1, <2>2, <2>4 DEF MarkOf
<1> QED BY <1>5, <1>8, <1>9

\* Decisions of which the accepting ones are approved.
LEMMA HonestDecided ==
  ASSUME NEW s \in Built, NEW ap, NEW bp, ap \subseteq bp, NEW m, Honest(s, ap, m),
         NEW p \in Built, p.base = s.base, p.ops = s.ops, p.store = s.store,
         \A i \in 1 .. Version(s) : p.state[i] = "Accepted" /\ s.state[i] # "Accepted" => MarkOf(s, i) \in bp
  PROVE  Honest(p, bp, m)
<1>1. Version(p) = Version(s) /\ \A i \in 1 .. Version(s) : MarkOf(p, i) = MarkOf(s, i)
  BY DEF Version, MarkOf
<1>2. \A i \in 1 .. Version(s) : s.ops[i].by = agent /\ s.state[i] = "Accepted" => MarkOf(s, i) \in bp
  BY DEF Honest
<1>3. \A i \in 1 .. Version(p) : p.ops[i].by = agent /\ p.state[i] = "Accepted" => MarkOf(p, i) \in bp
  BY <1>1, <1>2, Zenon
<1> QED BY <1>3 DEF Honest

\* The text of a session that has no ops.
LEMMA FreshWhole ==
  ASSUME NEW d \in Seq(Nat)
  PROVE  Whole(Fresh(d)) = d
<1> DEFINE s == Fresh(d)
           k == Chosen(s, States)
<1>1. s \in Built /\ Version(s) = 0 /\ s.base = d
  BY FreshBuilt DEF Fresh
<1> HIDE DEF s
<1>2. k \in Seq(Nat) /\ Text(s, States) = s.base \o [j \in DOMAIN k |-> MarkOf(s, k[j])]
      /\ \A j \in DOMAIN k : k[j] \in 1 .. Version(s)
  BY <1>1, ChosenShape
<1>3. 1 .. Version(s) = {}
  BY <1>1
<1> HIDE DEF k
<1>4. DOMAIN k = {}
  BY <1>2, <1>3
<1>5. [j \in DOMAIN k |-> MarkOf(s, k[j])] = <<>>
  BY <1>4
<1>6. Text(s, States) = d
  BY <1>1, <1>2, <1>5
<1> QED BY <1>6 DEF Whole, s

\* What an event leaves is honest when the buffer is.
LEMMA KeptApproval ==
  ASSUME LogState, ApprovalState, marks' \in Nat, marks <= marks', approved \subseteq approved',
         ToSet(disk') \subseteq 0 .. marks',
         buf' = None \/ buf' = buf \/ Honest(buf'.sess, approved', marks'),
         row' = None \/ row' = row \/ Honest(row'.sess, approved', marks'),
         \/ log' = log /\ tap' \in {tap, None}
         \/ log' = None /\ tap' = None
         \/ Honest(BuildSession(log'), approved', marks')
  PROVE  ApprovalState'
<1>1. marks \in Nat
  BY DEF LogState
<1>2. buf' = None \/ Honest(buf'.sess, approved', marks')
  <2>1. CASE buf' = buf /\ buf # None
    <3>1. buf.sess \in Built
      BY <1>1, <2>1, FileParts DEF LogState
    <3>2. Honest(buf.sess, approved, marks)
      BY <2>1 DEF ApprovalState
    <3> QED BY <1>1, <2>1, <3>1, <3>2, HonestMore
  <2> QED BY <2>1
<1>3. row' = None \/ Honest(row'.sess, approved', marks')
  <2>1. CASE row' = row /\ row # None
    <3>1. row.sess \in Built
      BY <1>1, <2>1, RowParts DEF LogState
    <3>2. Honest(row.sess, approved, marks)
      BY <2>1 DEF ApprovalState
    <3> QED BY <1>1, <2>1, <3>1, <3>2, HonestMore
  <2> QED BY <2>1
<1>4. /\ log' = None \/ Honest(BuildSession(log'), approved', marks')
      /\ tap' # None => Honest(BuildSession(log'), approved', marks')
  <2>1. CASE log' = log /\ tap' \in {tap, None}
    <3>1. ASSUME log # None \/ tap # None PROVE Honest(BuildSession(log), approved', marks')
      <4>1. BuildSession(log) \in Built
        BY <3>1 DEF LogState, Paired, Sound, Fits
      <4>2. Honest(BuildSession(log), approved, marks)
        BY <3>1 DEF ApprovalState
      <4> QED BY <1>1, <4>1, <4>2, HonestMore
    <3> QED BY <2>1, <3>1
  <2>2. CASE log' = None /\ tap' = None
    BY <2>2
  <2>3. CASE Honest(BuildSession(log'), approved', marks')
    BY <2>3
  <2> QED BY <2>1, <2>2, <2>3
<1> QED BY <1>2, <1>3, <1>4 DEF ApprovalState

\* A log that was told everything of an honest session.
LEMMA ToldHonest ==
  ASSUME LogState, ApprovalState, marks' \in Nat, marks <= marks', marks' <= MaxMarks,
         approved \subseteq approved',
         NEW s \in Built, Version(s) <= marks', Honest(s, approved', marks'),
         NEW l, NEW t, Paired([log |-> l, tap |-> t], marks),
         ~(swapped /\ l # log) \/ tap = None,
         NEW q, PartOf(BuildSession(log), buf.sess) => PartOf(BuildSession(log), q),
         tap = None \/ PartOf(BuildSession(log), q) => SameAs(BuildSession(l), s)
  PROVE  Honest(BuildSession(l), approved', marks')
<1>1. marks \in Nat /\ BuildSession(l) \in Built
  BY DEF LogState, Paired, Sound, Fits
<1>2. CASE tap = None \/ ~swapped
  <2>1. tap = None \/ PartOf(BuildSession(log), q)
    BY <1>2 DEF LogState
  <2>2. SameAs(BuildSession(l), s) /\ Version(s) <= MaxMarks
    <3>1. Version(s) \in Nat
      BY BuiltParts
    <3> QED BY <2>1, <3>1, BoundAssumption
  <2> QED BY <1>1, <2>2, HonestSame
<1>3. CASE ~(tap = None \/ ~swapped)
  <2>1. l = log /\ Honest(BuildSession(log), approved, marks)
    BY <1>3 DEF ApprovalState
  <2> QED BY <1>1, <2>1, HonestMore
<1> QED BY <1>2, <1>3

LEMMA ApprovalEdits ==
  ASSUME LogState, ApprovalState, Edit \/ Propose
  PROVE  ApprovalState'
<1>1. /\ marks \in Nat /\ marks' = marks + 1 /\ marks' <= MaxMarks /\ buf \in Files(marks)
      /\ buf # None
  BY BoundAssumption DEF LogState, Edit, Propose, Running
<1> DEFINE s == buf.sess
<1>2. s \in Built /\ Version(s) \in Nat /\ Version(s) <= marks
  BY <1>1, FileParts
<1>3. Honest(s, approved, marks)
  BY <1>1 DEF ApprovalState
<1> HIDE DEF s
<1>4. Honest(buf'.sess, approved, marks')
  <2>1. CASE Edit
    <3> DEFINE c == Commit(s, user, marks + 1)
    <3>0. user \in Authors /\ c = Commit(s, user, marks + 1) /\ user # agent /\ marks + 1 \in Nat
      BY <1>1, BoundAssumption DEF Authors
    <3>1. buf' = [buf EXCEPT !.sess = c, !.tab = TRUE]
      BY <1>1, <2>1 DEF Edit, s
    <3> HIDE DEF c
    <3>2. /\ c \in Built /\ Version(c) = Version(s) + 1
          /\ c.ops[Version(s) + 1] = [by |-> user, at |-> Len(s.store[user]) + 1]
      <4> DEFINE m == marks + 1
      <4> HIDE DEF m
      <4>1. m \in Nat /\ c = Commit(s, user, m) /\ user \in Authors
        BY <3>0 DEF m
      <4>2. c \in Built /\ Version(c) = Version(s) + 1
        BY <1>2, <4>1, CommitShape, Zenon
      <4>3. c.ops[Version(s) + 1] = [by |-> user, at |-> Len(s.store[user]) + 1]
        BY <1>2, <4>1, CommittedOp
      <4> QED BY <4>2, <4>3
    <3>3. /\ ToSet(c.base) \subseteq 0 .. marks + 1
          /\ \A x \in Authors : ToSet(c.store[x]) \subseteq 0 .. marks + 1
          /\ ToSet(c.base) \cap ToSet(c.store[agent]) = {}
          /\ ToSet(c.store[user]) \cap ToSet(c.store[agent]) = {}
          /\ \A i \in 1 .. Version(s) :
                c.ops[i].by = agent /\ c.state[i] = "Accepted" => MarkOf(c, i) \in approved
      BY <1>1, <1>2, <1>3, <3>0, HonestEdit
    <3>4. \A i \in 1 .. Version(c) : i \in 1 .. Version(s) \/ c.ops[i].by # agent
      BY <1>2, <3>0, <3>2
    <3>5. Honest(c, approved, marks + 1)
      BY <3>3, <3>4 DEF Honest
    <3>6. Version(c) <= marks + 1
      BY <1>1, <1>2, <3>2
    <3>7. buf'.sess = c
      <4>1. Takes(buf', buf, c)
        BY <3>1 DEF Takes
      <4> QED BY <1>1, <3>0, <3>2, <3>6, <4>1, FileEdited
    <3> QED BY <1>1, <3>5, <3>7
  <2>2. CASE Propose
    <3> DEFINE c == Commit(s, agent, marks + 1)
               p == [c EXCEPT !.state[Version(c)] = "Proposed"]
    <3>0. agent \in Authors /\ c = Commit(s, agent, marks + 1) /\ marks + 1 \in Nat
      BY <1>1 DEF Authors
    <3>1. buf' = [buf EXCEPT !.sess = p, !.tab = TRUE, !.decided = TRUE]
      BY <1>1, <2>2 DEF Propose, s
    <3> HIDE DEF c
    <3>2. /\ c \in Built /\ Version(c) = Version(s) + 1
      <4> DEFINE m == marks + 1
      <4> HIDE DEF m
      <4>1. m \in Nat /\ c = Commit(s, agent, m) /\ agent \in Authors
        BY <3>0 DEF m
      <4> QED BY <1>2, <4>1, CommitShape, Zenon
    <3>3. /\ ToSet(c.base) \subseteq 0 .. marks + 1
          /\ \A x \in Authors : ToSet(c.store[x]) \subseteq 0 .. marks + 1
          /\ ToSet(c.base) \cap ToSet(c.store[agent]) = {}
          /\ ToSet(c.store[user]) \cap ToSet(c.store[agent]) = {}
          /\ \A i \in 1 .. Version(s) :
                c.ops[i].by = agent /\ c.state[i] = "Accepted" => MarkOf(c, i) \in approved
      BY <1>1, <1>2, <1>3, <3>0, HonestEdit
    <3>4. Version(c) \in Nat /\ Version(c) \in Sets /\ Version(c) <= marks + 1
      BY <1>1, <1>2, <3>2, BoundAssumption DEF Sets
    <3>5. /\ p \in Built /\ p.base = c.base /\ p.ops = c.ops /\ p.store = c.store
          /\ p.state = [c.state EXCEPT ![Version(c)] = "Proposed"]
          /\ Version(p) = Version(c)
      <4> DEFINE v == Version(c)
      <4>1. v \in Nat /\ IsProposed(p, c, v)
        BY <3>4 DEF IsProposed
      <4> HIDE DEF p, v
      <4>2. /\ p \in Built /\ p.base = c.base /\ p.ops = c.ops /\ p.store = c.store
            /\ p.state = [c.state EXCEPT ![v] = "Proposed"] /\ Version(p) = Version(c)
        BY <3>2, <4>1, ProposedShape
      <4> QED BY <4>2 DEF v
    <3> HIDE DEF p
    <3>6. ASSUME NEW i \in 1 .. Version(p), p.ops[i].by = agent, p.state[i] = "Accepted"
          PROVE  MarkOf(p, i) \in approved
      <4>1. c.state \in [Sets -> States]
        BY <3>2, BuiltParts
      <4>2. i # Version(c)
        BY <3>4, <3>5, <3>6, <4>1
      <4>3. i \in 1 .. Version(s)
        BY <1>2, <3>2, <3>5, <4>2
      <4>4. i \in Sets
        BY <1>1, <1>2, <4>3, BoundAssumption DEF Sets
      <4>5. c.state[i] = "Accepted"
        BY <3>5, <3>6, <4>1, <4>2, <4>4
      <4> QED BY <3>3, <3>5, <3>6, <4>3, <4>5 DEF MarkOf
    <3>7. Honest(p, approved, marks + 1)
      <4>1. /\ ToSet(p.base) \subseteq 0 .. marks + 1
            /\ ToSet(p.base) \cap ToSet(p.store[agent]) = {}
            /\ ToSet(p.store[user]) \cap ToSet(p.store[agent]) = {}
        BY <3>3, <3>5
      <4>2. \A x \in Authors : ToSet(p.store[x]) \subseteq 0 .. marks + 1
        BY <3>3, <3>5
      <4> QED BY <3>6, <4>1, <4>2, Zenon DEF Honest
    <3>8. buf'.sess = p
      <4>1. Takes(buf', buf, p)
        BY <3>1 DEF Takes
      <4>2. p \in Built /\ Version(p) <= marks + 1
        BY <3>4, <3>5
      <4> QED BY <1>1, <3>0, <4>1, <4>2, FileEdited
    <3> QED BY <1>1, <3>7, <3>8
  <2> QED BY <2>1, <2>2
<1>5. /\ row' = row /\ log' = log /\ tap' = tap /\ approved' = approved /\ disk' = disk
  BY DEF Edit, Propose
<1>6. ToSet(disk') \subseteq 0 .. marks' /\ marks' \in Nat /\ marks <= marks'
  <2>1. 0 .. marks \subseteq 0 .. marks'
    BY <1>1
  <2>2. ToSet(disk) \subseteq 0 .. marks
    BY DEF ApprovalState
  <2> QED BY <1>1, <1>5, <2>1, <2>2
<1> QED BY <1>4, <1>5, <1>6, KeptApproval

\* Outside writes, reloads, openings, and the end of a tab or of the editor.
LEMMA ApprovalMoves ==
  ASSUME LogState, ApprovalState, Outside \/ Reload \/ Announce \/ Open \/ Close \/ Stop
  PROVE  ApprovalState'
<1>1. marks \in Nat /\ disk \in Seq(Nat) /\ ToSet(disk) \subseteq 0 .. marks
  BY DEF LogState, ApprovalState
<1>2. \A ap : Honest(Fresh(disk), ap, marks)
  BY <1>1, HonestFresh
<1>3. CASE Outside
  <2>1. /\ marks' = marks + 1 /\ disk' = <<marks'>> /\ approved' = approved
        /\ buf' = buf /\ row' = row /\ log' = log /\ tap' = tap
    BY <1>3 DEF Outside
  <2>2. ToSet(disk') = {marks'} /\ marks' \in 0 .. marks'
    <3> DEFINE m == marks'
    <3>1. m \in Nat /\ disk' = <<m>>
      BY <1>1, <2>1
    <3> HIDE DEF m
    <3>2. ToSet(<<m>>) = {m}
      BY <3>1 DEF ToSet
    <3> QED BY <3>1, <3>2 DEF m
  <2> QED BY <1>1, <2>1, <2>2, KeptApproval
<1>4. CASE Reload \/ Announce \/ Open
  <2>1. /\ marks' = marks /\ disk' = disk /\ approved' = approved
        /\ log' = log /\ tap' = tap /\ (row' = row \/ row' = None)
    BY <1>4 DEF Reload, Announce, Open
  <2>2. buf' = None \/ buf' = buf \/ Honest(buf'.sess, approved', marks')
    <3>1. CASE Reload
      <4>1. buf \in Files(marks) /\ buf' = Reloaded(buf)
        BY <3>1 DEF Reload, Running, LogState
      <4>2. buf'.sess = Fresh(disk)
        BY <4>1, CheckedTyped
      <4> QED BY <1>2, <2>1, <4>2
    <3>2. CASE Announce
      <4>1. buf \in Files(marks) /\ buf # None /\ buf' = [buf EXCEPT !.tab = TRUE]
        BY <3>2 DEF Announce, Running, LogState
      <4>2. buf \in [sess : Sessions, saved : Seq(Nat), savedAt : Nat, digest : Seq(Nat) \cup {None},
                     stamp : Seq(Nat) \cup {None}, seen : Seq(Nat), tab : BOOLEAN,
             decided : BOOLEAN]
        BY <4>1 DEF Files, Buffers
      <4>3. buf'.sess = buf.sess
        BY <4>1, <4>2
      <4>4. Honest(buf.sess, approved, marks)
        BY <4>1 DEF ApprovalState
      <4> QED BY <2>1, <4>3, <4>4
    <3>3. CASE Open
      <4>1. buf'.sess = Fresh(disk) \/ (row # None /\ buf'.sess = row.sess)
        BY <3>3, OpenTyped DEF Open
      <4> QED BY <1>2, <2>1, <4>1 DEF ApprovalState
    <3> QED BY <1>4, <3>1, <3>2, <3>3
  <2> QED BY <1>1, <2>1, <2>2, KeptApproval
<1>5. CASE Close \/ Stop
  <2>1. /\ marks' = marks /\ disk' = disk /\ approved' = approved /\ row' = row
        /\ buf' = None /\ tap' = None /\ (log' = log \/ log' = None)
    BY <1>5 DEF Close, Stop
  <2> QED BY <1>1, <2>1, KeptApproval
<1> QED BY <1>3, <1>4, <1>5

LEMMA ApprovalDecide ==
  ASSUME LogState, ApprovalState, LogState',
         NEW i \in Sets, NEW to \in {"Accepted", "Rejected"}, Decide(i, to), ~spliced'
  PROVE  ApprovalState'
<1> DEFINE b == [buf EXCEPT !.sess.state[i] = to, !.decided = TRUE]
           d == [buf.sess.state EXCEPT ![i] = to]
           s == [buf.sess EXCEPT !.state = d]
           o == AppendJournal(b)
<1>1. /\ marks \in Nat /\ marks <= MaxMarks /\ marks <= marks /\ up
      /\ buf \in Files(marks) /\ buf # None /\ ToSet(disk) \subseteq 0 .. marks
  BY DEF LogState, ApprovalState, Decide, Running
<1>2. buf.sess \in Built /\ Version(buf.sess) <= marks /\ Version(buf.sess) \in Nat
  BY <1>1, FileParts
<1>3. d \in [Sets -> States] /\ d[i] = to /\ \A j \in Sets : j # i => d[j] = buf.sess.state[j]
  <2>1. buf.sess.state \in [Sets -> States] /\ to \in States
    BY <1>2, BuiltParts DEF States
  <2> QED BY <2>1
<1>4. b = [buf EXCEPT !.sess = s, !.decided = TRUE]
  OBVIOUS
<1> HIDE DEF b, d
<1>5. /\ s \in Built /\ s.base = buf.sess.base /\ s.ops = buf.sess.ops /\ s.store = buf.sess.store
      /\ s.state = d /\ Version(s) = Version(buf.sess) /\ PartOf(buf.sess, s)
  BY <1>2, <1>3, PartOfDecided
<1> HIDE DEF s
<1>6. b \in Files(marks) /\ b.sess = s
  <2>1. Takes(b, buf, s)
    BY <1>4 DEF Takes
  <2> QED BY <1>1, <1>2, <1>5, <2>1, FileEdited
<1>7. /\ o.tap = None => o.log = log /\ tap = None
      /\ o.tap # None => Paired(o, marks)
      /\ o.tap # None /\ (tap = None \/ PartOf(BuildSession(log), s)) => SameAs(BuildSession(o.log), s)
  BY <1>1, <1>6, JournalKeeps
<1>8. /\ marks' = marks /\ disk' = disk /\ row' = row
      /\ buf' = b /\ log' = o.log /\ tap' = o.tap /\ (spliced' = (spliced \/ (swapped /\ o.log # log)))
      /\ approved' = approved \union (IF to = "Accepted" THEN MarksOf(buf.sess, {i}) ELSE {})
  BY DEF Decide, Keep, b
<1> HIDE DEF o
<1>9. Honest(s, approved', marks)
  <2>1. Honest(buf.sess, approved, marks) /\ approved \subseteq approved'
    BY <1>1, <1>8 DEF ApprovalState
  <2>2. ASSUME NEW j \in 1 .. Version(buf.sess), s.state[j] = "Accepted", buf.sess.state[j] # "Accepted"
        PROVE  MarkOf(buf.sess, j) \in approved'
    <3>1. j \in Sets
      BY <1>1, <1>2, BoundAssumption DEF Sets
    <3>2. j = i /\ to = "Accepted"
      BY <1>3, <1>5, <2>2, <3>1
    <3>3. MarkOf(buf.sess, i) \in MarksOf(buf.sess, {i})
      BY DEF MarksOf, MarkOf
    <3> QED BY <1>8, <3>2, <3>3
  <2> QED BY <1>2, <1>5, <2>1, <2>2, HonestDecided
<1>10. CASE o.tap = None
  <2>1. log' = log /\ tap' = tap
    BY <1>7, <1>8, <1>10
  <2> QED BY <1>1, <1>6, <1>8, <1>9, <2>1, KeptApproval
<1>11. CASE o.tap # None
  <2>1. PartOf(BuildSession(log), buf.sess) => PartOf(BuildSession(log), s)
    BY <1>5, PartOfPart
  <2>2. Paired([log |-> o.log, tap |-> o.tap], marks)
    BY <1>7, <1>11 DEF Paired
  <2>3. marks' \in Nat /\ marks <= marks' /\ marks' <= MaxMarks /\ approved \subseteq approved'
        /\ Version(s) <= marks' /\ Honest(s, approved', marks')
    BY <1>1, <1>2, <1>5, <1>8, <1>9
  <2>4. ~(swapped /\ o.log # log) \/ tap = None
    BY <1>8
  <2>5. tap = None \/ PartOf(BuildSession(log), s) => SameAs(BuildSession(o.log), s)
    BY <1>7, <1>11
  <2>6. Honest(BuildSession(o.log), approved', marks')
    BY <1>5, <2>1, <2>2, <2>3, <2>4, <2>5, ToldHonest
  <2> QED BY <1>1, <1>6, <1>8, <2>3, <2>6, KeptApproval
<1> QED BY <1>10, <1>11

LEMMA ApprovalTick ==
  ASSUME LogState, ApprovalState, LogState', Tick, ~spliced'
  PROVE  ApprovalState'
<1> DEFINE b == Checked
           o == IF ViewDirty(b) THEN AppendJournal(b) ELSE [log |-> log, tap |-> tap]
<1>1. /\ marks \in Nat /\ marks <= MaxMarks /\ disk \in Seq(Nat) /\ marks <= marks /\ up
      /\ buf \in Files(marks) /\ buf # None /\ ToSet(disk) \subseteq 0 .. marks
  BY DEF LogState, ApprovalState, Tick, Running
<1>2. b \in Files(marks) /\ (b = buf \/ b.sess = Fresh(disk))
  BY <1>1, CheckedTyped
<1>3. b = buf \/ ~ViewDirty(b)
  <2>1. CASE b # buf
    <3>1. b = Reloaded(buf)
      BY <2>1 DEF Checked
    <3>2. b.sess = Fresh(disk)
      BY <1>2, <2>1
    <3>3. b.saved = disk
      <4>1. buf.tab \in BOOLEAN
        BY <1>1 DEF Files, Buffers
      <4> HIDE DEF b
      <4> QED BY <3>1 DEF Reloaded, OpenDisk
    <3>4. Whole(Fresh(disk)) = disk
      BY <1>1, FreshWhole
    <3> HIDE DEF b
    <3> QED BY <3>2, <3>3, <3>4 DEF ViewDirty
  <2> QED BY <2>1
<1>4. /\ marks' = marks /\ disk' = disk /\ approved' = approved
      /\ buf' = b /\ log' = o.log /\ tap' = o.tap /\ (spliced' = (spliced \/ (swapped /\ o.log # log)))
      /\ Persist(b)
  BY DEF Tick
<1> HIDE DEF b
<1>5. b.sess \in Built /\ Version(b.sess) <= marks
  BY <1>1, <1>2, FileParts
<1>6. Honest(b.sess, approved', marks')
  <2>1. Honest(Fresh(disk), approved, marks)
    BY <1>1, HonestFresh
  <2> QED BY <1>1, <1>2, <1>4, <2>1 DEF ApprovalState
<1>7. row' = None \/ row' = row \/ Honest(row'.sess, approved', marks')
  BY <1>4, <1>6 DEF Persist
<1>8. CASE ViewDirty(b)
  <2>1. /\ o.tap = None => o.log = log /\ tap = None
        /\ o.tap # None => Paired(o, marks)
        /\ o.tap # None /\ (tap = None \/ PartOf(BuildSession(log), b.sess)) => SameAs(BuildSession(o.log), b.sess)
    BY <1>1, <1>2, <1>8, JournalKeeps
  <2> HIDE DEF o
  <2>2. CASE o.tap = None
    <3>1. log' = log /\ tap' = tap
      BY <1>4, <2>1, <2>2
    <3> QED BY <1>1, <1>4, <1>6, <1>7, <3>1, KeptApproval
  <2>3. CASE o.tap # None
    <3>1. PartOf(BuildSession(log), buf.sess) => PartOf(BuildSession(log), b.sess)
      BY <1>3, <1>8
    <3>2. Paired([log |-> o.log, tap |-> o.tap], marks)
      BY <2>1, <2>3 DEF Paired
    <3>3. marks' \in Nat /\ marks <= marks' /\ marks' <= MaxMarks /\ approved \subseteq approved'
          /\ Version(b.sess) <= marks'
      BY <1>1, <1>4, <1>5
    <3>4. ~(swapped /\ o.log # log) \/ tap = None
      BY <1>4
    <3>5. tap = None \/ PartOf(BuildSession(log), b.sess) => SameAs(BuildSession(o.log), b.sess)
      BY <2>1, <2>3
    <3>6. Honest(BuildSession(o.log), approved', marks')
      BY <1>5, <1>6, <3>1, <3>2, <3>3, <3>4, <3>5, ToldHonest
    <3> QED BY <1>1, <1>4, <1>6, <1>7, <3>3, <3>6, KeptApproval
  <2> QED BY <2>2, <2>3
<1>9. CASE ~ViewDirty(b)
  <2>1. log' = log /\ tap' = tap
    BY <1>4, <1>9
  <2> HIDE DEF o
  <2> QED BY <1>1, <1>4, <1>6, <1>7, <2>1, KeptApproval
<1> QED BY <1>8, <1>9

LEMMA ApprovalSave ==
  ASSUME LogState, ApprovalState, LogState', Save \/ Overwrite, ~spliced'
  PROVE  ApprovalState'
<1>1. /\ up /\ buf \in Files(marks) /\ buf # None /\ marks \in Nat /\ marks <= MaxMarks
      /\ marks <= marks /\ SaveOver
  BY DEF LogState, Save, Overwrite, Running
<1>2. /\ marks' = marks /\ approved' = approved \union MarksOf(buf.sess, Pending(buf.sess))
  BY <1>1 DEF SaveOver
<1> DEFINE s == AcceptPending(buf.sess)
<1>3. buf.sess \in Built /\ Version(buf.sess) <= marks /\ Version(buf.sess) \in Nat
  BY <1>1, FileParts
<1>4. /\ s \in Built /\ s.base = buf.sess.base /\ s.ops = buf.sess.ops /\ s.store = buf.sess.store
      /\ s.state = [i \in Sets |-> IF i \in Pending(buf.sess) THEN "Accepted" ELSE buf.sess.state[i]]
      /\ Version(s) = Version(buf.sess)
  BY <1>3, AcceptShape
<1>5. PICK l, t :
            /\ log' = l /\ tap' = t
            /\ buf'.sess = s /\ disk' = Agreed(s) /\ row' = None
            /\ spliced' = (spliced \/ (swapped /\ l # log))
            /\ \/ l = log /\ t = tap /\ tap = None
               \/ /\ Paired([log |-> l, tap |-> t], marks)
                  /\ tap = None \/ PartOf(BuildSession(log), buf.sess) => SameAs(BuildSession(l), s)
  BY <1>1, SaveRuns
<1> HIDE DEF s
<1>6. approved \subseteq approved'
  BY <1>2
<1>7. Honest(s, approved', marks)
  <2>1. Honest(buf.sess, approved, marks)
    BY <1>1 DEF ApprovalState
  <2>2. ASSUME NEW j \in 1 .. Version(buf.sess), s.state[j] = "Accepted", buf.sess.state[j] # "Accepted"
        PROVE  MarkOf(buf.sess, j) \in approved'
    <3>1. j \in Sets
      BY <1>1, <1>3, BoundAssumption DEF Sets
    <3>2. j \in Pending(buf.sess)
      BY <1>4, <2>2, <3>1
    <3>3. MarkOf(buf.sess, j) \in MarksOf(buf.sess, Pending(buf.sess))
      BY <3>2 DEF MarksOf, MarkOf
    <3> QED BY <1>2, <3>3
  <2> QED BY <1>3, <1>4, <1>6, <2>1, <2>2, HonestDecided
<1>8. ToSet(disk') \subseteq 0 .. marks'
  BY <1>1, <1>2, <1>4, <1>5, <1>7, HonestAgreed
<1>9. /\ Honest(buf'.sess, approved', marks') /\ marks' \in Nat /\ marks <= marks' /\ marks' <= MaxMarks
  BY <1>1, <1>2, <1>5, <1>7
<1>10. CASE l = log /\ t = tap /\ tap = None
  BY <1>5, <1>6, <1>8, <1>9, <1>10, KeptApproval
<1>11. CASE /\ Paired([log |-> l, tap |-> t], marks)
            /\ tap = None \/ PartOf(BuildSession(log), buf.sess) => SameAs(BuildSession(l), s)
  <2>1. Version(s) <= marks' /\ Honest(s, approved', marks')
    BY <1>2, <1>3, <1>4, <1>7
  <2>2. ~(swapped /\ l # log) \/ tap = None
    BY <1>5
  <2>3. Honest(BuildSession(l), approved', marks')
    BY <1>4, <1>6, <1>9, <1>11, <2>1, <2>2, ToldHonest
  <2> QED BY <1>5, <1>6, <1>8, <1>9, <2>3, KeptApproval
<1> QED BY <1>5, <1>10, <1>11

LEMMA ApprovalStart ==
  ASSUME LogState, ApprovalState, NEW tab \in BOOLEAN, Start(tab)
  PROVE  ApprovalState'
<1>1. marks \in Nat /\ disk \in Seq(Nat) /\ ToSet(disk) \subseteq 0 .. marks
  BY DEF LogState, ApprovalState
<1>2. approved' = approved
  BY DEF Start
<1>3. /\ marks' = marks /\ disk' = disk
      /\ row' = row \/ row' = None
      /\ \/ /\ log' = None /\ tap' = None
            /\ buf' = None \/ buf'.sess = Fresh(disk) \/ (row # None /\ buf'.sess = row.sess)
         \/ /\ log # None
            /\ buf'.sess = BuildSession(log)
            /\ \/ BuildSession(log') = BuildSession(log)
               \/ BuildSession(log') = Fresh(BuildSession(log).base)
  BY StartRuns
<1>4. Honest(Fresh(disk), approved, marks)
  BY <1>1, HonestFresh
<1>5. CASE /\ log' = None /\ tap' = None
           /\ buf' = None \/ buf'.sess = Fresh(disk) \/ (row # None /\ buf'.sess = row.sess)
  <2>1. buf' = None \/ Honest(buf'.sess, approved', marks')
    BY <1>2, <1>3, <1>4, <1>5 DEF ApprovalState
  <2> QED BY <1>1, <1>2, <1>3, <1>5, <2>1, KeptApproval
<1>6. CASE /\ log # None
           /\ buf'.sess = BuildSession(log)
           /\ \/ BuildSession(log') = BuildSession(log)
              \/ BuildSession(log') = Fresh(BuildSession(log).base)
  <2>1. BuildSession(log) \in Built /\ Honest(BuildSession(log), approved, marks)
    BY <1>6 DEF LogState, ApprovalState, Paired, Sound, Fits
  <2>2. Honest(Fresh(BuildSession(log).base), approved, marks)
    BY <2>1, HonestBase
  <2>3. Honest(BuildSession(log'), approved', marks') /\ Honest(buf'.sess, approved', marks')
    BY <1>2, <1>3, <1>6, <2>1, <2>2
  <2> QED BY <1>1, <1>2, <1>3, <2>3, KeptApproval
<1> QED BY <1>3, <1>5, <1>6

LEMMA ApprovalInit == Init => ApprovalInv
<1> SUFFICES ASSUME Init PROVE ApprovalInv
  OBVIOUS
<1>1. /\ disk = <<1>> /\ marks = 1 /\ buf # None => buf.sess = Fresh(<<1>>)
      /\ tap = None /\ log = None /\ row = None /\ cuts = 0 /\ tears = 0
  BY DEF Init
<1> DEFINE d == <<1>>
<1>2. d \in Seq(Nat) /\ ToSet(d) \subseteq 0 .. 1
  BY DEF ToSet
<1>3. disk = d /\ marks = 1 /\ (buf # None => buf.sess = Fresh(d))
  BY DEF Init
<1> HIDE DEF d
<1>4. Honest(Fresh(d), approved, 1)
  BY <1>2, HonestFresh
<1>5. tap = None /\ log = None /\ row = None /\ cuts = 0 /\ tears = 0
  BY DEF Init
<1>6. ApprovalState
  BY <1>2, <1>3, <1>4, <1>5 DEF ApprovalState
<1> QED BY <1>5, <1>6 DEF ApprovalInv

LEMMA ApprovalNext ==
  ASSUME LogInv, LogInv', ApprovalInv, [Next]_vars
  PROVE  ApprovalInv'
<1>1. /\ cuts' \in Nat /\ (cuts' = 0 => cuts = 0 /\ tears' = tears)
  <2>1. CASE \E n \in 0 .. MaxRecords, dies, torn \in BOOLEAN : CutTick(n, dies, torn)
    <3>1. cuts' = cuts + 1
      BY <2>1 DEF CutTick
    <3> QED BY <3>1 DEF ApprovalInv
  <2>2. CASE UNCHANGED <<cuts, tears>>
    BY <2>2 DEF ApprovalInv
  <2> QED BY <2>1, <2>2 DEF Next, vars, faults, Edit, Propose, Decide, Tick, Save, Overwrite, SaveOver,
             Reload, Close, Open, Announce, Outside, Stop, Start
<1>2. spliced => spliced'
  BY DEF Next, vars, Edit, Propose, Decide, Keep, Tick, CutTick, Save, Overwrite, SaveOver,
         Reload, Close, Open, Announce, Outside, Stop, Start
<1>3. cuts' = 0 => tears' = 0
  BY <1>1 DEF ApprovalInv
<1> SUFFICES ASSUME cuts' = 0, ~spliced' PROVE ApprovalState'
  BY <1>1, <1>3 DEF ApprovalInv
<1>4. LogState /\ ApprovalState /\ LogState'
  BY <1>1, <1>2, <1>3 DEF LogInv, ApprovalInv
<1>5. CASE Edit \/ Propose
  BY <1>4, <1>5, ApprovalEdits
<1>6. CASE \E i \in Sets, to \in {"Accepted", "Rejected"} : Decide(i, to)
  BY <1>4, <1>6, ApprovalDecide
<1>7. CASE Tick
  BY <1>4, <1>7, ApprovalTick
<1>8. CASE \E n \in 0 .. MaxRecords, dies, torn \in BOOLEAN : CutTick(n, dies, torn)
  <2>1. cuts' = cuts + 1
    BY <1>8 DEF CutTick
  <2> QED BY <1>1, <2>1
<1>9. CASE Save \/ Overwrite
  BY <1>4, <1>9, ApprovalSave
<1>10. CASE Outside \/ Reload \/ Announce \/ Open \/ Close \/ Stop
  BY <1>4, <1>10, ApprovalMoves
<1>11. CASE \E tab \in BOOLEAN : Start(tab)
  BY <1>4, <1>11, ApprovalStart
<1>12. CASE UNCHANGED vars
  BY <1>4, <1>12 DEF ApprovalState, vars
<1> QED BY <1>5, <1>6, <1>7, <1>8, <1>9, <1>10, <1>11, <1>12 DEF Next

LEMMA HonestIsApproved == LogInv /\ ApprovalInv => AgreedIsApproved
<1> SUFFICES ASSUME LogInv, ApprovalInv, cuts = 0, ~spliced
             PROVE  /\ buf # None => AgreedByNobody(buf.sess) = {}
                    /\ row # None => AgreedByNobody(row.sess) = {}
  BY DEF AgreedIsApproved
<1>1. LogState /\ ApprovalState
  BY DEF LogInv, ApprovalInv
<1>2. marks \in Nat
  BY <1>1 DEF LogState
<1>3. ASSUME buf # None PROVE AgreedByNobody(buf.sess) = {}
  <2>1. buf.sess \in Built /\ Honest(buf.sess, approved, marks)
    BY <1>1, <1>2, <1>3, FileParts DEF LogState, ApprovalState
  <2> QED BY <1>2, <2>1, HonestAgreed DEF AgreedByNobody
<1>4. ASSUME row # None PROVE AgreedByNobody(row.sess) = {}
  <2>1. row.sess \in Built /\ Honest(row.sess, approved, marks)
    BY <1>1, <1>2, <1>4, RowParts DEF LogState, ApprovalState
  <2> QED BY <1>2, <2>1, HonestAgreed DEF AgreedByNobody
<1> QED BY <1>3, <1>4

\* For every bound: neither the log nor the row brings an agent's text back accepted
\* that nobody accepted, as long as batches reach the log whole and tell it of the
\* session it was opened for (appendTap, appendSave, NewRestoredFile, RestoreJournal).
THEOREM NothingComesBackAgreed == Spec => []AgreedIsApproved
<1>1. Spec => []LogInv
  BY LogInit, LogNext, PTL DEF Spec
<1>2. Spec => [](LogInv /\ ApprovalInv)
  BY <1>1, ApprovalInit, ApprovalNext, PTL DEF Spec
<1> QED BY <1>2, HonestIsApproved, PTL
=============================================================================
