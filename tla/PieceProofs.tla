----------------------------- MODULE PieceProofs ------------------------------
(***************************************************************************)
(* Proofs about a session for every choice of authors, texts and bounds:   *)
(* what the journal records about authorship, and that it only grows; that *)
(* its ops stay inside the document they are applied to, and carried       *)
(* offsets inside the document of today; that replaying the journal yields *)
(* that document; what an edit removes and what a save leaves out.         *)
(***************************************************************************)
EXTENDS ReviewProperties, ListProofs, WellFoundedInduction, TLAPS

-----------------------------------------------------------------------------
(* Extremes of sets of numbers *)

LEMMA MinExists ==
    ASSUME NEW S, S \subseteq Nat, S # {}
    PROVE  Min(S) \in S /\ \A y \in S : Min(S) <= y
<1> DEFINE R == {ss \in Nat \X Nat : ss[1] < ss[2]}
<1>1. OpToRel(<, Nat) = R
    BY Zenon DEF OpToRel
<1>2. IsWellFoundedOn(R, Nat)
    <2> HIDE DEF R
    <2> QED BY <1>1, NatLessThanWellFounded
<1>3. \E x \in S : \A y \in S : ~(<<y, x>> \in R)
    <2> HIDE DEF R
    <2> QED BY <1>2, WFMin
<1>4. \E x \in S : \A y \in S : x <= y
    <2>1. PICK x \in S : \A y \in S : ~(<<y, x>> \in R)
        BY <1>3
    <2>2. SUFFICES ASSUME NEW y \in S PROVE x <= y
        BY <2>1
    <2>3. ~(y < x)
        BY <2>1, Zenon
    <2> QED BY <2>3
<1> QED BY <1>4 DEF Min

LEMMA MaxExists ==
    ASSUME NEW S, NEW n \in Nat, S \subseteq 0 .. n, S # {}
    PROVE  Max(S) \in S /\ \A y \in S : y <= Max(S)
<1> DEFINE T == {n - x : x \in S}
<1>1. T \subseteq Nat /\ T # {}
    <2>1. \A x \in S : n - x \in Nat
        OBVIOUS
    <2> QED BY <2>1
<1>2. Min(T) \in T /\ \A y \in T : Min(T) <= y
    <2> HIDE DEF T
    <2> QED BY <1>1, MinExists
<1>3. PICK x \in S : Min(T) = n - x
    BY <1>2
<1>4. ASSUME NEW y \in S PROVE y <= x
    <2>1. n - y \in T
        OBVIOUS
    <2>2. n - x <= n - y
        BY <1>2, <1>3, <2>1
    <2> QED BY <2>2
<1> QED BY <1>3, <1>4 DEF Max

-----------------------------------------------------------------------------
(* The inductive invariant                                                   *)

IsOp(o) == o \in [seq : {o.seq}, author : {o.author}, pos : {o.pos}, del : {o.del},
                  ins : {o.ins}, undoes : {o.undoes}, group : {o.group}, kind : {o.kind}]

IsEdit(j, s) == OpAt(j, s).kind = "edit"

\* What the log of ops and decisions always satisfies.
Log ==
    /\ group \in Nat
    /\ journal \in Seq(ToSet(journal))
    /\ \A s \in Seqs(journal) : IsOp(OpAt(journal, s))
    /\ DOMAIN decided \subseteq 1 .. group
    /\ JournalWellFormed
    /\ OneAuthorPerSet
    /\ ProposedByAgents

\* The locals of the handler in progress, and the nesting of Begin and End.
Handler ==
    \/ work = Idle /\ depth = 0
    \/ /\ work \in [on : {"action"}, by : Humans, left : {work.left}]
       /\ depth = 1
    \/ /\ work \in [on : {"diff"}, by : Differs, base : {work.base},
                    left : {work.left}, from : {work.from}]
       /\ depth = 1
    \/ /\ work \in [on : {"reverse"}, goal : {work.goal}, group : {work.group},
                    keep : {work.keep}, failed : {work.failed}, from : {work.from},
                    todo : SUBSET Seqs(journal), applied : SUBSET Seqs(journal),
                    queue : SUBSET Seqs(journal)]
       /\ depth = 1

\* The change set of the handler in progress carries no decision yet and holds
\* edits of that handler's author only.
OpenSet ==
    depth = 1 =>
        /\ group > 0
        /\ group \notin DOMAIN decided
        /\ \A s \in Seqs(journal) :
              IsEdit(journal, s) /\ OpAt(journal, s).group = group
              => work.on \in {"action", "diff"} /\ OpAt(journal, s).author = work.by

IInv == Log /\ Handler /\ OpenSet

-----------------------------------------------------------------------------
(* Appending an op *)

LEMMA AppendSeq ==
    ASSUME NEW j, j \in Seq(ToSet(j)), NEW op
    PROVE  LET k == Append(j, op) IN
           /\ k \in Seq(ToSet(k))
           /\ Len(j) \in Nat
           /\ Len(k) = Len(j) + 1
           /\ Seqs(k) = Seqs(j) \cup {Len(j)}
           /\ \A s \in Seqs(j) : OpAt(k, s) = OpAt(j, s)
           /\ OpAt(k, Len(j)) = op
<1> DEFINE k == Append(j, op)
<1> DEFINE D == ToSet(j) \cup {op}
<1>1. j \in Seq(D)
    OBVIOUS
<1>2. /\ k \in Seq(D)
      /\ Len(j) \in Nat
      /\ Len(k) = Len(j) + 1
      /\ \A i \in 1 .. Len(j) : k[i] = j[i]
      /\ k[Len(j) + 1] = op
    BY <1>1
<1>3. k \in Seq(ToSet(k))
    <2>1. \A i \in 1 .. Len(k) : k[i] \in ToSet(k)
        BY <1>2 DEF ToSet
    <2> QED BY <1>2, <2>1
<1>4. Seqs(k) = Seqs(j) \cup {Len(j)}
    BY <1>2 DEF Seqs
<1>5. \A s \in Seqs(j) : OpAt(k, s) = OpAt(j, s)
    BY <1>2 DEF Seqs, OpAt
<1> QED BY <1>2, <1>3, <1>4, <1>5 DEF OpAt

\* An op that fits the set it joins keeps the log in order.
LEMMA AppendLog ==
    ASSUME Log, NEW op, IsOp(op),
           journal' = Append(journal, op),
           decided' = decided,
           group' \in Nat, group' >= group,
           op.seq = Version,
           op.group \in 1 .. group',
           op.kind = "edit" =>
               /\ \A s \in Seqs(journal) :
                     IsEdit(journal, s) /\ OpAt(journal, s).group = op.group
                     => OpAt(journal, s).author = op.author
               /\ StateOf(decided, op.group) = "proposed" => op.author \in Agents,
           op.kind # "edit" =>
               /\ op.undoes \in Seqs(journal)
               /\ (op.kind = "redo") = (OpAt(journal, op.undoes).kind = "undo")
               /\ op.author = OpAt(journal, op.undoes).author
    PROVE  Log'
<1>1. /\ journal' \in Seq(ToSet(journal'))
      /\ Len(journal) \in Nat
      /\ Len(journal') = Len(journal) + 1
      /\ Seqs(journal') = Seqs(journal) \cup {Len(journal)}
      /\ \A s \in Seqs(journal) : OpAt(journal', s) = OpAt(journal, s)
      /\ OpAt(journal', Len(journal)) = op
    <2>1. journal \in Seq(ToSet(journal))
        BY DEF Log
    <2> QED BY <2>1, AppendSeq
<1>2. \A s \in Seqs(journal') : s \in Seqs(journal) \/ s = Len(journal)
    BY <1>1
<1>3. \A s \in Seqs(journal') : IsOp(OpAt(journal', s))
    BY <1>1, <1>2 DEF Log
<1>4. DOMAIN decided' \subseteq 1 .. group'
    BY DEF Log
<1>5. JournalWellFormed'
    <2> SUFFICES ASSUME NEW s \in Seqs(journal')
                 PROVE  LET o == OpAt(journal', s) IN
                        /\ o.seq = s
                        /\ o.group \in 1 .. group'
                        /\ o.kind # "edit" =>
                              /\ o.undoes \in 0 .. (s - 1)
                              /\ (o.kind = "redo") = (OpAt(journal', o.undoes).kind = "undo")
                              /\ o.author = OpAt(journal', o.undoes).author
        BY DEF JournalWellFormed
    <2>1. CASE s = Len(journal)
        <3>1. op.kind # "edit" => OpAt(journal', op.undoes) = OpAt(journal, op.undoes)
            BY <1>1
        <3>2. op.kind # "edit" => op.undoes \in 0 .. (s - 1)
            BY <1>1, <2>1 DEF Seqs
        <3> QED BY <1>1, <2>1, <3>1, <3>2 DEF Version
    <2>2. CASE s \in Seqs(journal)
        <3> DEFINE o == OpAt(journal, s)
        <3>1. /\ o.seq = s
              /\ o.group \in 1 .. group
              /\ o.kind # "edit" =>
                    /\ o.undoes \in 0 .. (s - 1)
                    /\ (o.kind = "redo") = (OpAt(journal, o.undoes).kind = "undo")
                    /\ o.author = OpAt(journal, o.undoes).author
            BY <2>2 DEF Log, JournalWellFormed
        <3>2. o.kind # "edit" => o.undoes \in Seqs(journal)
            BY <1>1, <2>2, <3>1 DEF Seqs
        <3>3. o.kind # "edit" => OpAt(journal', o.undoes) = OpAt(journal, o.undoes)
            BY <1>1, <3>2
        <3>4. o.group \in 1 .. group'
            BY <3>1 DEF Log
        <3> QED BY <1>1, <2>2, <3>1, <3>3, <3>4
    <2> QED BY <1>2, <2>1, <2>2
<1>6. OneAuthorPerSet'
    <2> SUFFICES ASSUME NEW s \in Seqs(journal'), NEW t \in Seqs(journal'),
                        IsEdit(journal', s), IsEdit(journal', t),
                        OpAt(journal', s).group = OpAt(journal', t).group
                 PROVE  OpAt(journal', s).author = OpAt(journal', t).author
        BY DEF OneAuthorPerSet, IsEdit
    <2>1. CASE s \in Seqs(journal) /\ t \in Seqs(journal)
        BY <1>1, <2>1 DEF Log, OneAuthorPerSet, IsEdit
    <2>2. CASE s = Len(journal) /\ t \in Seqs(journal)
        BY <1>1, <2>2 DEF IsEdit
    <2>3. CASE s \in Seqs(journal) /\ t = Len(journal)
        BY <1>1, <2>3 DEF IsEdit
    <2>4. CASE s = Len(journal) /\ t = Len(journal)
        BY <2>4
    <2> QED BY <1>2, <2>1, <2>2, <2>3, <2>4
<1>7. ProposedByAgents'
    <2> SUFFICES ASSUME NEW s \in Seqs(journal'), IsEdit(journal', s),
                        StateOf(decided', OpAt(journal', s).group) = "proposed"
                 PROVE  OpAt(journal', s).author \in Agents
        BY DEF ProposedByAgents, IsEdit
    <2>1. CASE s \in Seqs(journal)
        BY <1>1, <2>1 DEF Log, ProposedByAgents, IsEdit
    <2>2. CASE s = Len(journal)
        BY <1>1, <2>2 DEF IsEdit
    <2> QED BY <1>2, <2>1, <2>2
<1> QED BY <1>1, <1>3, <1>4, <1>5, <1>6, <1>7 DEF Log

\* Deciding proposes nothing that was not proposed, except as stated.
LEMMA DecideLog ==
    ASSUME Log,
           journal' = journal,
           group' \in Nat, group' >= group,
           DOMAIN decided' \subseteq 1 .. group',
           \A s \in Seqs(journal) :
              /\ IsEdit(journal, s)
              /\ StateOf(decided', OpAt(journal, s).group) = "proposed"
              => \/ StateOf(decided, OpAt(journal, s).group) = "proposed"
                 \/ OpAt(journal, s).author \in Agents
    PROVE  Log'
<1>1. JournalWellFormed'
    BY DEF Log, JournalWellFormed
<1>2. OneAuthorPerSet'
    BY DEF Log, OneAuthorPerSet
<1>3. ProposedByAgents'
    BY DEF Log, ProposedByAgents, IsEdit
<1> QED BY <1>1, <1>2, <1>3 DEF Log

LEMMA NewestExists ==
    ASSUME Log, NEW seqs, seqs \subseteq Seqs(journal), seqs # {}
    PROVE  /\ Max(seqs) \in seqs
           /\ IsOp(Newest(seqs))
           /\ Newest(seqs).seq = Max(seqs)
           /\ Older(seqs) \subseteq seqs
<1>1. Version \in Nat /\ Len(journal) > 0
    <2>1. journal \in Seq(ToSet(journal))
        BY DEF Log
    <2>2. Len(journal) \in Nat
        BY <2>1
    <2>3. PICK s \in seqs : s \in 0 .. (Len(journal) - 1)
        BY DEF Seqs
    <2> QED BY <2>2, <2>3 DEF Version
<1>2. seqs \subseteq 0 .. (Version - 1) /\ Version - 1 \in Nat
    BY <1>1 DEF Seqs, Version
<1>3. Max(seqs) \in seqs
    BY <1>2, MaxExists
<1> QED BY <1>3 DEF Log, JournalWellFormed, Newest, Older

\* What a reversal commits: the record of the op it reverses, turned round.
LEMMA InverseShape ==
    ASSUME NEW j, NEW d, NEW o, IsOp(o)
    PROVE  LET op == RebasedInverse(j, d, o).op IN
           /\ IsOp(op)
           /\ op.undoes = o.seq
           /\ op.author = o.author
           /\ op.kind = IF o.kind = "undo" THEN "redo" ELSE "undo"
BY DEF RebasedInverse, InverseAt, InverseOp, IsOp

\* What commitInto stamps on an op.
LEMMA CommitStamps ==
    ASSUME NEW o, IsOp(o), NEW join, Commit(o, join)
    PROVE  \E op : /\ IsOp(op)
                   /\ journal' = Append(journal, op)
                   /\ op.seq = Version
                   /\ op.group = IF join # 0 THEN join
                                 ELSE IF depth = 0 THEN group + 1 ELSE group
                   /\ op.kind = o.kind
                   /\ op.undoes = o.undoes
                   /\ op.author = o.author
                   /\ group' = IF join # 0 THEN group
                               ELSE IF depth = 0 THEN group + 1 ELSE group
<1> DEFINE g == IF join # 0 THEN join ELSE IF depth = 0 THEN group + 1 ELSE group
           op == [o EXCEPT !.seq = Version, !.group = g]
<1>1. /\ journal' = Append(journal, op)
      /\ group' = IF join # 0 THEN group ELSE IF depth = 0 THEN group + 1 ELSE group
    BY DEF Commit
<1>2. /\ IsOp(op)
      /\ op.seq = Version /\ op.group = g
      /\ op.kind = o.kind /\ op.undoes = o.undoes /\ op.author = o.author
    <2> HIDE DEF g
    <2> QED BY DEF IsOp
<1> HIDE DEF op
<1> QED BY <1>1, <1>2

-----------------------------------------------------------------------------
(* Change sets                                                               *)

LEMMA OwnerIsSet ==
    ASSUME Log, NEW b
    PROVE  OwnerOf(journal, b) \in {0} \cup GroupIds(journal)
<1> DEFINE claims == {s \in LiveEdits(journal) : b \in Owned(OpAt(journal, s))}
<1>1. /\ claims \subseteq Seqs(journal)
      /\ \A s \in claims : IsEdit(journal, s)
    BY DEF LiveEdits, IsEdit
<1>2. CASE claims = {}
    BY <1>2 DEF OwnerOf
<1>3. CASE claims # {}
    <2>1. Max(claims) \in claims
        <3> HIDE DEF claims
        <3> QED BY <1>1, <1>3, NewestExists
    <2>2. OpAt(journal, Max(claims)).group \in GroupIds(journal)
        <3> HIDE DEF claims
        <3> QED BY <1>1, <2>1 DEF GroupIds, IsEdit
    <2> QED BY <1>3, <2>2 DEF OwnerOf
<1> QED BY <1>2, <1>3

LEMMA LeasesAreSets ==
    ASSUME Log, NEW pos, NEW len
    PROVE  ProposedLeases(journal, doc, decided, pos, len) \subseteq GroupIds(journal)
<1>1. ASSUME NEW g \in DOMAIN decided, Touches(journal, doc, g, pos, len)
      PROVE  g \in GroupIds(journal)
    <2>1. \E b : OwnerOf(journal, b) = g
        BY <1>1 DEF Touches
    <2>2. g # 0
        BY DEF Log
    <2> QED BY <2>1, <2>2, OwnerIsSet
<1> QED BY <1>1 DEF ProposedLeases, RunLeases, DeletionLeases

LEMMA AuthorOfSet ==
    ASSUME Log, NEW g \in GroupIds(journal)
    PROVE  /\ g \in 1 .. group
           /\ \E s \in Seqs(journal) : /\ IsEdit(journal, s)
                                       /\ OpAt(journal, s).group = g
           /\ \A s \in Seqs(journal) :
                 IsEdit(journal, s) /\ OpAt(journal, s).group = g
                 => OpAt(journal, s).author = GroupAuthor(journal, g)
<1> DEFINE S == {s \in AllMembers(journal, g) : OpAt(journal, s).kind = "edit"}
<1>1. /\ S \subseteq Seqs(journal) /\ S # {}
      /\ \A s \in S : IsEdit(journal, s) /\ OpAt(journal, s).group = g
    BY DEF AllMembers, GroupIds, IsEdit
<1>2. Seqs(journal) \subseteq Nat
    BY DEF Seqs
<1>3. Min(S) \in S
    <2> HIDE DEF S
    <2> QED BY <1>1, <1>2, MinExists
<1>4. GroupAuthor(journal, g) = OpAt(journal, Min(S)).author
    BY DEF GroupAuthor
<1> HIDE DEF S
<1>5. \A s \in Seqs(journal) : IsEdit(journal, s) /\ OpAt(journal, s).group = g
                               => OpAt(journal, s).author = GroupAuthor(journal, g)
    BY <1>1, <1>3, <1>4 DEF Log, OneAuthorPerSet, IsEdit
<1> QED BY <1>1, <1>3, <1>5 DEF Log, JournalWellFormed

-----------------------------------------------------------------------------
(* What the steps of the handlers share                                      *)

LEMMA BeginKeeps ==
    ASSUME Log, depth = 0, Begin, journal' = journal, decided' = decided
    PROVE  Log' /\ OpenSet' /\ depth' = 1
<1>1. group \in Nat /\ group' = group + 1 /\ depth' = 1
    BY DEF Log, Begin
<1>2. Log'
    <2>1. DOMAIN decided' \subseteq 1 .. group'
        BY <1>1 DEF Log
    <2> QED BY <1>1, <2>1, DecideLog
<1>3. \A s \in Seqs(journal) : OpAt(journal, s).group # group'
    BY <1>1 DEF Log, JournalWellFormed
<1>4. group' \notin DOMAIN decided'
    BY <1>1 DEF Log
<1> QED BY <1>1, <1>2, <1>3, <1>4 DEF OpenSet

\* An edit committed into the open set, a fresh one, or one its author owns.
LEMMA EditKeeps ==
    ASSUME IInv, NEW o, IsOp(o), o.kind = "edit",
           NEW join, join = 0 \/ join \in GroupIds(journal),
           join # 0 => o.author = GroupAuthor(journal, join),
           Commit(o, join),
           depth \in {0, 1}, depth' = depth, decided' = decided,
           depth = 1 => /\ work.on \in {"action", "diff"}
                        /\ o.author = work.by
                        /\ work'.on = work.on /\ work'.by = work.by,
           depth = 0 => o.author \in Humans /\ join = 0
    PROVE  Log' /\ OpenSet' /\ Seqs(journal) \subseteq Seqs(journal')
<1>1. PICK op : /\ IsOp(op)
                /\ journal' = Append(journal, op)
                /\ op.seq = Version
                /\ op.group = IF join # 0 THEN join
                              ELSE IF depth = 0 THEN group + 1 ELSE group
                /\ op.kind = "edit"
                /\ op.author = o.author
                /\ group' = IF join # 0 THEN group
                            ELSE IF depth = 0 THEN group + 1 ELSE group
    BY CommitStamps
<1>2. Log /\ group \in Nat /\ journal \in Seq(ToSet(journal))
    BY DEF IInv, Log
<1>3. /\ Seqs(journal') = Seqs(journal) \cup {Len(journal)}
      /\ \A s \in Seqs(journal) : OpAt(journal', s) = OpAt(journal, s)
      /\ OpAt(journal', Len(journal)) = op
    BY <1>1, <1>2, AppendSeq
<1>4. depth = 1 => group > 0 /\ group \notin DOMAIN decided /\ group' = group
    BY <1>1 DEF IInv, OpenSet
<1>5. OpenSet'
    <2> SUFFICES ASSUME depth = 1, NEW s \in Seqs(journal'),
                        IsEdit(journal', s), OpAt(journal', s).group = group'
                 PROVE  work.on \in {"action", "diff"} /\ OpAt(journal', s).author = work.by
        BY <1>4 DEF OpenSet
    <2>1. CASE s \in Seqs(journal)
        BY <1>3, <1>4, <2>1 DEF IInv, OpenSet, IsEdit
    <2>2. CASE s = Len(journal)
        BY <1>1, <1>3, <2>2
    <2> QED BY <1>3, <2>1, <2>2
<1>6. ASSUME NEW s \in Seqs(journal), IsEdit(journal, s), OpAt(journal, s).group = op.group
      PROVE  OpAt(journal, s).author = op.author
    <2>1. CASE join # 0
        BY <1>1, <1>2, <1>6, <2>1, AuthorOfSet
    <2>2. CASE join = 0 /\ depth = 1
        BY <1>1, <1>6, <2>2 DEF IInv, OpenSet
    <2>3. CASE join = 0 /\ depth = 0
        <3>1. OpAt(journal, s).group \in 1 .. group
            BY DEF IInv, Log, JournalWellFormed
        <3> QED BY <1>1, <1>2, <1>6, <2>3, <3>1
    <2> QED BY <2>1, <2>2, <2>3
<1>7. StateOf(decided, op.group) = "proposed" => op.author \in Agents
    <2>1. CASE join # 0
        BY <1>1, <1>2, <1>6, <2>1, AuthorOfSet DEF Log, ProposedByAgents, IsEdit
    <2>2. CASE join = 0
        <3>1. op.group \notin DOMAIN decided
            BY <1>1, <1>2, <1>4, <2>2 DEF Log
        <3> QED BY <3>1 DEF StateOf
    <2> QED BY <2>1, <2>2
<1>8. op.group \in 1 .. group' /\ group' \in Nat /\ group' >= group
    <2>1. CASE join # 0
        BY <1>1, <1>2, <2>1, AuthorOfSet
    <2>2. CASE join = 0
        BY <1>1, <1>2, <1>4, <2>2
    <2> QED BY <2>1, <2>2
<1>9. Log'
    BY <1>1, <1>2, <1>6, <1>7, <1>8, AppendLog
<1> QED BY <1>3, <1>5, <1>9

\* A reversal committed into the handler's own set.
LEMMA ReversalKeeps ==
    ASSUME IInv, NEW s \in Seqs(journal),
           Commit(RebasedInverse(journal, doc, OpAt(journal, s)).op, 0),
           work.on = "reverse", work'.on = "reverse",
           depth = 1, depth' = 1, decided' = decided
    PROVE  Log' /\ OpenSet' /\ Seqs(journal') = Seqs(journal) \cup {Version}
<1> DEFINE o == OpAt(journal, s)
<1>1. /\ Log /\ group \in Nat /\ journal \in Seq(ToSet(journal))
      /\ group > 0 /\ group \notin DOMAIN decided
      /\ IsOp(o) /\ o.seq = s
    BY DEF IInv, Log, OpenSet, JournalWellFormed
<1>2. PICK op : /\ IsOp(op)
                /\ journal' = Append(journal, op)
                /\ op.seq = Version
                /\ op.group = group
                /\ op.kind = IF o.kind = "undo" THEN "redo" ELSE "undo"
                /\ op.undoes = s
                /\ op.author = o.author
                /\ group' = group
    <2> DEFINE inv == RebasedInverse(journal, doc, o).op
    <2>1. /\ IsOp(inv) /\ inv.undoes = s /\ inv.author = o.author
          /\ inv.kind = IF o.kind = "undo" THEN "redo" ELSE "undo"
        BY <1>1, InverseShape
    <2>2. Commit(inv, 0)
        OBVIOUS
    <2> HIDE DEF inv, o
    <2> QED BY <2>1, <2>2, CommitStamps
<1>3. /\ Seqs(journal') = Seqs(journal) \cup {Len(journal)}
      /\ \A t \in Seqs(journal) : OpAt(journal', t) = OpAt(journal, t)
      /\ OpAt(journal', Len(journal)) = op
    BY <1>1, <1>2, AppendSeq
<1>4. op.kind # "edit" /\ (op.kind = "redo") = (o.kind = "undo")
    BY <1>2
<1>5. Log'
    BY <1>1, <1>2, <1>4, AppendLog
<1>6. OpenSet'
    <2> SUFFICES ASSUME NEW t \in Seqs(journal'),
                        IsEdit(journal', t), OpAt(journal', t).group = group'
                 PROVE  FALSE
        BY <1>1, <1>2 DEF OpenSet
    <2>1. CASE t \in Seqs(journal)
        BY <1>2, <1>3, <2>1 DEF IInv, OpenSet, IsEdit
    <2>2. CASE t = Len(journal)
        BY <1>3, <1>4, <2>2 DEF IsEdit
    <2> QED BY <1>3, <2>1, <2>2
<1> QED BY <1>3, <1>5, <1>6 DEF Version

LEMMA DepthOf ==
    ASSUME Handler
    PROVE  /\ depth \in {0, 1}
           /\ work = Idle => depth = 0
           /\ work.on \in {"action", "diff", "reverse"} => depth = 1
           /\ work.on = "action" => work \in [on : {"action"}, by : Humans, left : {work.left}]
           /\ work.on = "diff" =>
                 work \in [on : {"diff"}, by : Differs, base : {work.base},
                           left : {work.left}, from : {work.from}]
           /\ work.on = "reverse" =>
                 work \in [on : {"reverse"}, goal : {work.goal}, group : {work.group},
                           keep : {work.keep}, failed : {work.failed}, from : {work.from},
                           todo : SUBSET Seqs(journal), applied : SUBSET Seqs(journal),
                           queue : SUBSET Seqs(journal)]
BY DEF Handler, Idle

\* A stroke at the keyboard, on its own or within an action.
LEMMA StrokeKeeps ==
    ASSUME IInv, NEW h \in Humans, NEW move, Typist(h, move),
           NEW pos, NEW del, NEW ins, Commit(Edit(h, pos, del, ins), 0),
           depth' = depth, decided' = decided
    PROVE  IInv'
<1> DEFINE o == Edit(h, pos, del, ins)
<1>1. IsOp(o) /\ o.kind = "edit" /\ o.author = h
    BY DEF Edit, IsOp
<1>2. Handler
    BY DEF IInv
<1>3. Commit(o, 0)
    OBVIOUS
<1> HIDE DEF o
<1>4. CASE work = Idle /\ work' = work
    <2>1. depth = 0
        BY <1>2, <1>4, DepthOf
    <2>2. Log' /\ OpenSet'
        BY <1>1, <1>3, <2>1, EditKeeps
    <2> QED BY <1>4, <2>1, <2>2 DEF IInv, Handler, Idle
<1>5. CASE work.on = "action" /\ work.by = h /\ work' = [work EXCEPT !.left = @ - 1]
    <2>1. depth = 1 /\ work \in [on : {"action"}, by : Humans, left : {work.left}]
        BY <1>2, <1>5, DepthOf
    <2>2. work' \in [on : {"action"}, by : Humans, left : {work'.left}] /\ work'.by = h
        BY <1>5, <2>1
    <2>3. Log' /\ OpenSet'
        BY <1>1, <1>3, <1>5, <2>1, <2>2, EditKeeps
    <2> QED BY <2>1, <2>2, <2>3 DEF IInv, Handler
<1> QED BY <1>4, <1>5 DEF Typist, Ready, Free

\* The start of a reversal, whoever asks for it.
LEMMA StartKeeps ==
    ASSUME IInv, work = Idle, NEW goal, NEW g, NEW want, NEW keep,
           NEW queue, queue \subseteq Seqs(journal),
           StartReversal(goal, g, want, keep, queue)
    PROVE  IInv'
<1>1. depth = 0
    BY DepthOf DEF IInv
<1>2. Begin /\ journal' = journal /\ decided' = decided
      /\ work' = Reversal(goal, g, want, keep, queue)
    BY DEF StartReversal
<1>3. Log' /\ OpenSet' /\ depth' = 1
    BY <1>1, <1>2, BeginKeeps DEF IInv
<1>4. ReverseMembers(g, want, keep) \subseteq Seqs(journal)
    BY DEF ReverseMembers
<1>5. Handler'
    BY <1>2, <1>3, <1>4 DEF Handler, Reversal
<1> QED BY <1>3, <1>5 DEF IInv

LEMMA MarkShape ==
    ASSUME NEW st, NEW g, NEW state
    PROVE  /\ DOMAIN Mark(st, g, state) \subseteq DOMAIN st \cup {g}
           /\ state = "accepted" => DOMAIN Mark(st, g, state) \subseteq DOMAIN st
           /\ \A x : StateOf(Mark(st, g, state), x) = "proposed"
                     => StateOf(st, x) = "proposed" \/ (x = g /\ state = "proposed")
BY DEF Mark, StateOf

\* A decision taken while no handler is in progress.
LEMMA DecisionKeeps ==
    ASSUME IInv, work = Idle, work' = work, journal' = journal, group' = group, depth' = depth,
           DOMAIN decided' \subseteq DOMAIN decided \cup 1 .. group,
           \A g : StateOf(decided', g) = "proposed" => StateOf(decided, g) = "proposed"
    PROVE  IInv'
<1>1. depth = 0
    BY DepthOf DEF IInv
<1>2. Log'
    <2>1. Log /\ group \in Nat /\ DOMAIN decided \subseteq 1 .. group
        BY DEF IInv, Log
    <2> QED BY <2>1, DecideLog
<1> QED BY <1>1, <1>2 DEF IInv, Handler, OpenSet, Idle

\* The end of a handler, or of one of the reversals of a revert.
LEMMA SettledShape ==
    /\ DOMAIN Settled \subseteq DOMAIN decided
    /\ \A g : StateOf(Settled, g) = "proposed" => StateOf(decided, g) = "proposed"
BY MarkShape DEF Settled

LEMMA EndKeeps ==
    ASSUME IInv, End, work' = Idle, depth = 1, journal' = journal, group' = group,
           DOMAIN decided' \subseteq DOMAIN decided \cup {group},
           \A s \in Seqs(journal) :
              /\ IsEdit(journal, s)
              /\ StateOf(decided', OpAt(journal, s).group) = "proposed"
              => \/ StateOf(decided, OpAt(journal, s).group) = "proposed"
                 \/ OpAt(journal, s).author \in Agents
    PROVE  IInv'
<1>1. Log /\ group \in Nat /\ group > 0 /\ DOMAIN decided \subseteq 1 .. group
    BY DEF IInv, Log, OpenSet
<1>2. Log'
    BY <1>1, DecideLog
<1>3. depth' = 0
    BY DEF End
<1> QED BY <1>2, <1>3 DEF IInv, Handler, OpenSet

-----------------------------------------------------------------------------
(* One lemma per group of actions                                            *)

LEMMA TypingKeeps == ASSUME IInv, Typing PROVE IInv'
<1>1. PICK h \in Humans : Insert(h) \/ Delete(h) \/ Paste(h) \/ BeginAction(h)
    BY DEF Typing
<1>2. CASE Insert(h)
    <2>1. PICK pos, ins : /\ Typist(h, "type")
                          /\ Commit(Edit(h, pos, <<>>, ins), 0)
                          /\ UNCHANGED <<depth, decided>>
        BY <1>2 DEF Insert
    <2> QED BY <2>1, StrokeKeeps
<1>3. CASE Delete(h)
    <2>1. PICK pos, del : /\ Typist(h, "erase")
                          /\ Commit(Edit(h, pos, del, <<>>), 0)
                          /\ UNCHANGED <<depth, decided>>
        BY <1>3 DEF Delete
    <2> QED BY <2>1, StrokeKeeps
<1>4. CASE Paste(h)
    <2>1. PICK pos, ins : /\ Typist(h, "paste")
                          /\ Commit(Edit(h, pos, <<>>, ins), 0)
                          /\ UNCHANGED <<depth, decided>>
        BY <1>4 DEF Paste
    <2> QED BY <2>1, StrokeKeeps
<1>5. CASE BeginAction(h)
    <2>1. depth = 0
        BY <1>5, DepthOf DEF IInv, BeginAction, Ready, Free
    <2>2. Log' /\ OpenSet' /\ depth' = 1
        BY <1>5, <2>1, BeginKeeps DEF IInv, BeginAction
    <2>3. work' \in [on : {"action"}, by : Humans, left : {work'.left}]
        BY <1>5 DEF BeginAction
    <2> QED BY <2>2, <2>3 DEF IInv, Handler
<1> QED BY <1>1, <1>2, <1>3, <1>4, <1>5

LEMMA StartingKeeps ==
    ASSUME IInv, History \/ ClearReversal \/ Reverting
    PROVE  IInv'
<1>1. ASSUME NEW h \in Humans, NEW want, UndoRedo(h, want) PROVE IInv'
    <2>1. /\ work = Idle
          /\ \E g : StartReversal(want, g, want, {h}, {})
        BY <1>1 DEF UndoRedo, Ready, Free
    <2> QED BY <2>1, StartKeeps
<1>2. ASSUME ClearReversal PROVE IInv'
    <2>1. /\ work = Idle
          /\ \E g : StartReversal("clear", g, "undo", Writers, {})
        BY <1>2 DEF ClearReversal, Ready, Free
    <2> QED BY <2>1, StartKeeps
<1>3. ASSUME NEW a \in Agents, Revert(a) PROVE IInv'
    <2> DEFINE own == {s \in LiveEdits(journal) : OpAt(journal, s).author = a}
               firsts == {s \in own : \A t \in own :
                             OpAt(journal, t).group = OpAt(journal, s).group => s <= t}
    <2>1. firsts \subseteq Seqs(journal)
        BY DEF LiveEdits
    <2>2. /\ work = Idle
          /\ StartReversal("revert", Newest(firsts).group, "undo", {a}, Older(firsts))
        BY <1>3 DEF Revert, Ready, Free
    <2>3. Older(firsts) \subseteq Seqs(journal)
        BY <2>1 DEF Older
    <2> HIDE DEF firsts
    <2> QED BY <2>2, <2>3, StartKeeps
<1> QED BY <1>1, <1>2, <1>3 DEF History, Reverting

LEMMA ReversingKeeps ==
    ASSUME IInv, ReverseMember \/ ReverseBlocked \/ RollbackMember
                   \/ EndFailed \/ EndReversal \/ NextReversal
    PROVE  IInv'
<1>1. /\ work.on = "reverse"
      /\ depth = 1
      /\ work \in [on : {"reverse"}, goal : {work.goal}, group : {work.group},
                   keep : {work.keep}, failed : {work.failed}, from : {work.from},
                   todo : SUBSET Seqs(journal), applied : SUBSET Seqs(journal),
                   queue : SUBSET Seqs(journal)]
    BY DepthOf DEF IInv, ReverseMember, ReverseBlocked, RollbackMember, EndFailed,
                   EndReversal, NextReversal
<1>2. Log
    BY DEF IInv
<1> DEFINE Reversing ==
        work' \in [on : {"reverse"}, goal : {work'.goal}, group : {work'.group},
                   keep : {work'.keep}, failed : {work'.failed}, from : {work'.from},
                   todo : SUBSET Seqs(journal'), applied : SUBSET Seqs(journal'),
                   queue : SUBSET Seqs(journal')]
<1>3. CASE ReverseMember
    <2>1. /\ work.todo # {}
          /\ Commit(RebasedInverse(journal, doc, Newest(work.todo)).op, 0)
          /\ work' = [work EXCEPT !.todo = Older(@), !.applied = @ \cup {Version}]
          /\ UNCHANGED <<depth, decided>>
        BY <1>3 DEF ReverseMember
    <2>2. Max(work.todo) \in Seqs(journal)
        BY <1>1, <1>2, <2>1, NewestExists
    <2>3. Log' /\ OpenSet' /\ Seqs(journal') = Seqs(journal) \cup {Version}
        BY <1>1, <2>1, <2>2, ReversalKeeps DEF Newest
    <2>4. Reversing
        BY <1>1, <2>1, <2>3 DEF Older
    <2> QED BY <1>1, <2>1, <2>3, <2>4 DEF IInv, Handler
<1>4. CASE ReverseBlocked
    <2>1. work' = [work EXCEPT !.failed = TRUE] /\ UNCHANGED <<journal, group, depth, decided>>
        BY <1>4 DEF ReverseBlocked
    <2>2. Reversing
        BY <1>1, <2>1
    <2>3. Log'
        BY <1>2, <2>1, DecideLog DEF Log
    <2>4. OpenSet'
        BY <1>1, <2>1 DEF IInv, OpenSet
    <2> QED BY <1>1, <2>1, <2>2, <2>3, <2>4 DEF IInv, Handler
<1>5. CASE RollbackMember
    <2>1. CASE /\ work.applied # {}
               /\ Commit(RebasedInverse(journal, doc, Newest(work.applied)).op, 0)
               /\ work' = [work EXCEPT !.applied = Older(@)]
               /\ UNCHANGED <<depth, decided>>
        <3>1. Max(work.applied) \in Seqs(journal)
            BY <1>1, <1>2, <2>1, NewestExists
        <3>2. Log' /\ OpenSet' /\ Seqs(journal') = Seqs(journal) \cup {Version}
            BY <1>1, <2>1, <3>1, ReversalKeeps DEF Newest
        <3>3. Reversing
            BY <1>1, <2>1, <3>2 DEF Older
        <3> QED BY <1>1, <2>1, <3>2, <3>3 DEF IInv, Handler
    <2>2. CASE /\ work' = [work EXCEPT !.applied = {}]
               /\ UNCHANGED <<journal, group, depth, decided>>
        <3>1. Reversing
            BY <1>1, <2>2
        <3>2. Log'
            BY <1>2, <2>2, DecideLog DEF Log
        <3>3. OpenSet'
            BY <1>1, <2>2 DEF IInv, OpenSet
        <3> QED BY <1>1, <2>2, <3>1, <3>2, <3>3 DEF IInv, Handler
    <2> QED BY <1>5, <2>1, <2>2 DEF RollbackMember
<1>6. CASE EndFailed
    <2>1. End /\ work' = Idle /\ UNCHANGED <<journal, group, decided>>
        BY <1>6 DEF EndFailed
    <2> QED BY <1>1, <2>1, EndKeeps
<1>7. CASE EndReversal
    <2>1. End /\ work' = Idle /\ UNCHANGED <<journal, group>> /\ decided' = Settled
        BY <1>7 DEF EndReversal
    <2> QED BY <1>1, <2>1, SettledShape, EndKeeps
<1>8. CASE NextReversal
    <2>1. /\ decided' = Settled
          /\ work' = Reversal("revert", Newest(work.queue).group, "undo", work.keep,
                              Older(work.queue))
          /\ group' = group + 1
          /\ UNCHANGED <<journal, depth>>
        BY <1>8 DEF NextReversal
    <2>2. group \in Nat /\ DOMAIN decided \subseteq 1 .. group
        BY <1>2 DEF Log
    <2>3. DOMAIN decided' \subseteq 1 .. group /\ Log'
        BY <1>2, <2>1, <2>2, SettledShape, DecideLog
    <2>4. \A s \in Seqs(journal) : OpAt(journal, s).group # group'
        BY <1>2, <2>1, <2>2 DEF Log, JournalWellFormed
    <2>5. OpenSet'
        BY <2>1, <2>2, <2>3, <2>4 DEF OpenSet
    <2>6. ReverseMembers(Newest(work.queue).group, "undo", work.keep) \subseteq Seqs(journal)
        BY DEF ReverseMembers
    <2>7. Older(work.queue) \subseteq Seqs(journal)
        BY <1>1 DEF Older
    <2>8. Reversing
        BY <2>1, <2>6, <2>7 DEF Reversal
    <2> QED BY <1>1, <2>1, <2>3, <2>5, <2>8 DEF IInv, Handler
<1> QED BY <1>3, <1>4, <1>5, <1>6, <1>7, <1>8

LEMMA DiffKeeps ==
    ASSUME IInv, Diffing \/ Hunk \/ EndDiff
    PROVE  IInv'
<1>1. CASE Diffing
    <2>1. PICK a \in Differs, base \in 0 .. Version :
              /\ work = Idle /\ Begin
              /\ work' = [on |-> "diff", by |-> a, base |-> base, left |-> MaxHunks,
                          from |-> Version]
              /\ UNCHANGED <<journal, decided>>
        BY <1>1 DEF Diffing, BeginDiff, Ready, Free
    <2>2. Log' /\ OpenSet' /\ depth' = 1
        BY <2>1, DepthOf, BeginKeeps DEF IInv
    <2>3. work' \in [on : {"diff"}, by : Differs, base : {work'.base},
                     left : {work'.left}, from : {work'.from}]
        BY <2>1
    <2> QED BY <2>2, <2>3 DEF IInv, Handler
<1>2. CASE Hunk
    <2>1. /\ Log /\ work.on = "diff" /\ depth = 1
          /\ work \in [on : {"diff"}, by : Differs, base : {work.base},
                       left : {work.left}, from : {work.from}]
        BY <1>2, DepthOf DEF IInv, Hunk
    <2>2. work' = [work EXCEPT !.left = @ - 1] /\ UNCHANGED <<depth, decided>>
        BY <1>2 DEF Hunk
    <2>3. /\ work'.on = "diff" /\ work'.by = work.by
          /\ work' \in [on : {"diff"}, by : Differs, base : {work'.base},
                        left : {work'.left}, from : {work'.from}]
        BY <2>1, <2>2
    <2>4. CASE UNCHANGED <<journal, group>>
        <3>1. Log'
            BY <2>1, <2>2, <2>4, DecideLog DEF Log
        <3>2. OpenSet'
            BY <2>1, <2>2, <2>3, <2>4 DEF IInv, OpenSet
        <3> QED BY <2>1, <2>2, <2>3, <3>1, <3>2 DEF IInv, Handler
    <2>5. ASSUME NEW start, NEW end, NEW text, NEW ins,
                 LET p == Placement(work.by, work.base, start, end, text) IN
                     Commit(Edit(work.by, p.pos, p.del, ins), p.join)
          PROVE  IInv'
        <3> DEFINE p == Placement(work.by, work.base, start, end, text)
                   o == Edit(work.by, p.pos, p.del, ins)
                   at == Rebase(journal, start, end, work.base)
                   over == ProposedLeases(journal, doc, decided, at.lo, at.hi - at.lo)
        <3>1. IsOp(o) /\ o.kind = "edit" /\ o.author = work.by
            BY DEF Edit, IsOp
        <3>2. p.join = 0 \/ p.join \in Own(work.by, over)
            <4>1. p = Placed(work.by, at, over, text)
                BY DEF Placement
            <4> HIDE DEF p, at, over
            <4> QED BY <4>1 DEF Placed
        <3>3. over \subseteq GroupIds(journal)
            BY <2>1, LeasesAreSets
        <3> HIDE DEF p, at, over
        <3>4. p.join = 0 \/ p.join \in GroupIds(journal)
            BY <3>2, <3>3 DEF Own
        <3>5. p.join # 0 => o.author = GroupAuthor(journal, p.join)
            BY <3>1, <3>2 DEF Own
        <3>6. Commit(o, p.join)
            BY <2>5 DEF p
        <3> HIDE DEF o
        <3>7. Log' /\ OpenSet'
            BY <2>1, <2>2, <2>3, <3>1, <3>4, <3>5, <3>6, EditKeeps
        <3> QED BY <2>1, <2>2, <2>3, <3>7 DEF IInv, Handler
    <2> QED BY <1>2, <2>4, <2>5 DEF Hunk, Write
<1>3. CASE EndDiff
    <2>1. /\ work.on = "diff" /\ End /\ work' = Idle /\ UNCHANGED <<journal, group>>
          /\ decided' = IF Proposes THEN Mark(decided, group, "proposed") ELSE decided
        BY <1>3 DEF EndDiff
    <2>2. depth = 1
        BY <2>1, DepthOf DEF IInv
    <2>3. DOMAIN decided' \subseteq DOMAIN decided \cup {group}
        BY <2>1, MarkShape
    <2>4. ASSUME NEW s \in Seqs(journal), IsEdit(journal, s),
                 StateOf(decided', OpAt(journal, s).group) = "proposed"
          PROVE  \/ StateOf(decided, OpAt(journal, s).group) = "proposed"
                 \/ OpAt(journal, s).author \in Agents
        <3>1. CASE Proposes /\ OpAt(journal, s).group = group
            BY <2>2, <2>4, <3>1 DEF IInv, OpenSet, Proposes
        <3>2. CASE ~(Proposes /\ OpAt(journal, s).group = group)
            BY <2>1, <2>4, <3>2, MarkShape
        <3> QED BY <3>1, <3>2
    <2> QED BY <2>1, <2>2, <2>3, <2>4, EndKeeps
<1> QED BY <1>1, <1>2, <1>3

LEMMA DecidingKeeps ==
    ASSUME IInv, Accept \/ Reject \/ ClearMark \/ Save \/ SaveFails
    PROVE  IInv'
<1>1. /\ Log /\ DOMAIN decided \subseteq 1 .. group
      /\ \A g \in GroupIds(journal) : g \in 1 .. group
    BY AuthorOfSet DEF IInv, Log
<1>2. /\ work = Idle
      /\ UNCHANGED <<journal, group, depth, work>>
    BY DEF Accept, Reject, ClearMark, Save, SaveFails, Free
<1>3. ASSUME NEW g \in 1 .. group, NEW state \in {"accepted", "rejected"},
             decided' = Mark(decided, g, state)
      PROVE  IInv'
    <2>1. /\ DOMAIN decided' \subseteq DOMAIN decided \cup 1 .. group
          /\ \A x : StateOf(decided', x) = "proposed" => StateOf(decided, x) = "proposed"
        BY <1>3, MarkShape
    <2> QED BY <1>2, <2>1, DecisionKeeps
<1>4. CASE Accept
    BY <1>1, <1>3, <1>4 DEF Accept
<1>5. CASE Reject
    BY <1>1, <1>3, <1>5 DEF Reject
<1>6. CASE ClearMark
    <2>1. PICK g \in DOMAIN decided : \/ decided' = Mark(decided, g, "accepted")
                                      \/ decided' = Mark(decided, g, "rejected")
        BY <1>6 DEF ClearMark
    <2> QED BY <1>1, <1>3, <2>1
<1> DEFINE st == Agreed(decided)
<1>7. /\ DOMAIN st \subseteq DOMAIN decided
      /\ \A g \in DOMAIN st : st[g] = decided[g]
    BY DEF Agreed
<1>8. CASE Save
    <2>1. PICK spent : decided' = [g \in DOMAIN st |-> IF g \in spent THEN "rejected" ELSE st[g]]
        BY <1>8 DEF Save, SaveAs, RejectAll
    <2>2. /\ DOMAIN decided' \subseteq DOMAIN decided
          /\ \A g : StateOf(decided', g) = "proposed" => StateOf(decided, g) = "proposed"
        <3> HIDE DEF st
        <3> QED BY <1>7, <2>1 DEF StateOf
    <2> QED BY <1>2, <2>2, DecisionKeeps
<1>9. CASE SaveFails
    <2>1. decided' = st
        BY <1>9 DEF SaveFails
    <2>2. /\ DOMAIN decided' \subseteq DOMAIN decided
          /\ \A g : StateOf(decided', g) = "proposed" => StateOf(decided, g) = "proposed"
        <3> HIDE DEF st
        <3> QED BY <1>7, <2>1 DEF StateOf
    <2> QED BY <1>2, <2>2, DecisionKeeps
<1> QED BY <1>4, <1>5, <1>6, <1>8, <1>9

LEMMA RestartKeeps == ASSUME IInv, Restart PROVE IInv'
<1> DEFINE groups == {OpAt(journal, s).group : s \in Seqs(journal)}
<1>1. /\ work = Idle
      /\ UNCHANGED <<journal, work>>
      /\ group' = IF journal = <<>> THEN 0 ELSE Max(groups)
      /\ depth' = 0
      /\ decided' = Recorded
    BY DEF Restart, Free
<1>2. /\ Log /\ group \in Nat
      /\ journal \in Seq(ToSet(journal))
    BY DEF IInv, Log
<1>3. groups \subseteq 1 .. group
    BY DEF IInv, Log, JournalWellFormed
<1>4. group' \in Nat /\ groups \subseteq 1 .. group'
    <2>1. CASE journal = <<>>
        <3>1. Seqs(journal) = {}
            BY <2>1 DEF Seqs
        <3> QED BY <1>1, <2>1, <3>1
    <2>2. CASE journal # <<>>
        <3>1. 0 \in Seqs(journal)
            BY <1>2, <2>2 DEF Seqs
        <3>2. groups # {} /\ groups \subseteq 0 .. group
            BY <1>3, <3>1
        <3>3. Max(groups) \in groups /\ \A g \in groups : g <= Max(groups)
            <4> HIDE DEF groups
            <4> QED BY <1>2, <3>2, MaxExists
        <3> HIDE DEF groups
        <3> QED BY <1>1, <1>2, <1>3, <2>2, <3>3
    <2> QED BY <2>1, <2>2
<1>5. /\ DOMAIN decided' \subseteq GroupIds(journal)
      /\ \A g : StateOf(decided', g) = "proposed" => StateOf(decided, g) = "proposed"
    BY <1>1 DEF Recorded, StateOf
<1>6. DOMAIN decided' \subseteq 1 .. group'
    BY <1>4, <1>5 DEF GroupIds
<1>7. JournalWellFormed'
    BY <1>1, <1>2, <1>4 DEF Log, JournalWellFormed
<1>8. OneAuthorPerSet'
    BY <1>1, <1>2 DEF Log, OneAuthorPerSet
<1>9. ProposedByAgents'
    BY <1>1, <1>2, <1>5 DEF Log, ProposedByAgents
<1>10. Log'
    BY <1>1, <1>2, <1>4, <1>6, <1>7, <1>8, <1>9 DEF Log
<1> QED BY <1>1, <1>10 DEF IInv, Handler, OpenSet, Idle

-----------------------------------------------------------------------------
(* The theorems                                                              *)

LEMMA InitInv == Init => IInv
<1> SUFFICES ASSUME Init PROVE IInv
    OBVIOUS
<1>1. /\ journal = <<>> /\ group = 0 /\ depth = 0 /\ work = Idle
      /\ DOMAIN decided = {}
    BY DEF Init, NoDecisions
<1>2. Seqs(journal) = {} /\ journal \in Seq(ToSet(journal))
    BY <1>1 DEF Seqs
<1> QED BY <1>1, <1>2 DEF IInv, Log, Handler, OpenSet, JournalWellFormed, OneAuthorPerSet,
                          ProposedByAgents

LEMMA NextInv == IInv /\ [Next]_vars => IInv'
<1> SUFFICES ASSUME IInv, [Next]_vars PROVE IInv'
    OBVIOUS
<1>1. CASE Typing
    BY <1>1, TypingKeeps
<1>2. CASE History \/ ClearReversal \/ Reverting
    BY <1>2, StartingKeeps
<1>3. CASE Diffing \/ Hunk \/ EndDiff
    BY <1>3, DiffKeeps
<1>4. CASE ReverseMember \/ ReverseBlocked \/ RollbackMember
             \/ EndFailed \/ EndReversal \/ NextReversal
    BY <1>4, ReversingKeeps
<1>5. CASE Accept \/ Reject \/ ClearMark \/ Save \/ SaveFails
    BY <1>5, DecidingKeeps
<1>6. CASE Restart
    BY <1>6, RestartKeeps
<1>7. CASE EndAction
    <2>1. depth = 1
        BY <1>7, DepthOf DEF IInv, EndAction
    <2>2. End /\ work' = Idle /\ UNCHANGED <<journal, group, decided>>
        BY <1>7 DEF EndAction
    <2> QED BY <2>1, <2>2, EndKeeps
<1>8. CASE UNCHANGED vars
    BY <1>8 DEF vars, IInv, Log, Handler, OpenSet, JournalWellFormed, OneAuthorPerSet,
                ProposedByAgents
<1> QED BY <1>1, <1>2, <1>3, <1>4, <1>5, <1>6, <1>7, <1>8 DEF Next, Continue

LEMMA HoldsAlways == Spec => []IInv
BY InitInv, NextInv, PTL DEF Spec

\* The journal is always well formed: ops are numbered in order, belong to opened
\* sets, and a reversal names an earlier op of its author and the opposite sense.
THEOREM JournalIsWellFormed == Spec => []JournalWellFormed
<1>1. IInv => JournalWellFormed
    BY DEF IInv, Log
<1> QED BY <1>1, HoldsAlways, PTL

\* The edits of a change set are all by one author, amendments included.
THEOREM SetsHaveOneAuthor == Spec => []OneAuthorPerSet
<1>1. IInv => OneAuthorPerSet
    BY DEF IInv, Log
<1> QED BY <1>1, HoldsAlways, PTL

\* A proposal awaiting a decision holds agents' edits only.
THEOREM ProposalsAreByAgents == Spec => []ProposedByAgents
<1>1. IInv => ProposedByAgents
    BY DEF IInv, Log
<1> QED BY <1>1, HoldsAlways, PTL

\* Every step leaves the journal alone or appends one op to it.
LEMMA StepAppends ==
    ASSUME [Next]_vars
    PROVE  journal' = journal \/ \E op : journal' = Append(journal, op)
<1>1. ASSUME NEW o, NEW join, Commit(o, join)
      PROVE  \E op : journal' = Append(journal, op)
    BY <1>1 DEF Commit
<1>2. CASE Typing
    BY <1>1, <1>2 DEF Typing, Insert, Delete, Paste, BeginAction
<1>3. CASE History \/ ClearReversal \/ Reverting
    BY <1>3 DEF History, UndoRedo, ClearReversal, Reverting, Revert, StartReversal
<1>4. CASE Diffing \/ EndDiff
    BY <1>4 DEF Diffing, BeginDiff, EndDiff
<1>5. CASE Hunk
    <2>1. journal' = journal \/ \E o, join : Commit(o, join)
        BY <1>5 DEF Hunk, Write
    <2> QED BY <1>1, <2>1
<1>6. CASE ReverseMember \/ RollbackMember
    <2>1. journal' = journal \/ \E o, join : Commit(o, join)
        BY <1>6 DEF ReverseMember, RollbackMember
    <2> QED BY <1>1, <2>1
<1>7. CASE ReverseBlocked \/ EndFailed \/ EndReversal \/ NextReversal \/ EndAction
    BY <1>7 DEF ReverseBlocked, EndFailed, EndReversal, NextReversal, EndAction
<1>8. CASE Accept \/ Reject \/ ClearMark \/ Save \/ SaveFails \/ Restart
    BY <1>8 DEF Accept, Reject, ClearMark, Save, SaveAs, SaveFails, Restart
<1>9. CASE UNCHANGED vars
    BY <1>9 DEF vars
<1> QED BY <1>2, <1>3, <1>4, <1>5, <1>6, <1>7, <1>8, <1>9 DEF Next, Continue

\* No handler removes or rewrites an op of the journal.
THEOREM JournalGrows == Spec => JournalOnlyGrows
<1>1. IInv /\ [Next]_vars =>
        [/\ Len(journal) <= Len(journal')
         /\ \A s \in Seqs(journal) : OpAt(journal', s) = OpAt(journal, s)]_vars
    <2> SUFFICES ASSUME IInv, [Next]_vars
                 PROVE  /\ Len(journal) <= Len(journal')
                        /\ \A s \in Seqs(journal) : OpAt(journal', s) = OpAt(journal, s)
        OBVIOUS
    <2>1. journal \in Seq(ToSet(journal)) /\ Len(journal) \in Nat
        BY DEF IInv, Log
    <2>2. CASE journal' = journal
        BY <2>1, <2>2
    <2>3. ASSUME NEW op, journal' = Append(journal, op)
          PROVE  /\ Len(journal) <= Len(journal')
                 /\ \A s \in Seqs(journal) : OpAt(journal', s) = OpAt(journal, s)
        <3>1. /\ Len(journal') = Len(journal) + 1
              /\ \A s \in Seqs(journal) : OpAt(journal', s) = OpAt(journal, s)
            BY <2>1, <2>3, AppendSeq
        <3> QED BY <2>1, <3>1
    <2> QED BY <2>2, <2>3, StepAppends
<1> QED BY <1>1, HoldsAlways, PTL DEF Spec, JournalOnlyGrows

-----------------------------------------------------------------------------
(* Types of the control state                                                *)

States(st) == \A g \in DOMAIN st : st[g] \in {"proposed", "rejected"}

\* What ControlTypes says beyond IInv.
DataTyped ==
    /\ States(decided)
    /\ store \in [Writers -> Nat]
    /\ disk \in [text : {disk.text}, version : Nat]

\* Marking a set keeps decisions what they may be.
LEMMA MarkStates ==
    ASSUME NEW st, States(st), NEW g, NEW state \in {"accepted", "proposed", "rejected"}
    PROVE  States(Mark(st, g, state))
<1>1. CASE state = "accepted"
    BY <1>1 DEF Mark, States
<1>2. CASE state # "accepted"
    BY <1>2 DEF Mark, States
<1> QED BY <1>1, <1>2

\* Every handler leaves the decisions among the two states.
LEMMA StatesKept ==
    ASSUME States(decided), [Next]_vars
    PROVE  States(decided')
<1>1. States(Settled)
    BY MarkStates DEF Settled
<1>2. States(Agreed(decided))
    BY DEF Agreed, States
<1>3. CASE Typing \/ History \/ Diffing \/ Reverting \/ ClearReversal
    BY <1>3 DEF Typing, Insert, Delete, Paste, BeginAction, History, UndoRedo, Diffing,
                BeginDiff, Reverting, Revert, ClearReversal, StartReversal
<1>4. CASE EndAction \/ Hunk \/ ReverseMember \/ ReverseBlocked \/ RollbackMember \/ EndFailed
    BY <1>4 DEF EndAction, Hunk, ReverseMember, ReverseBlocked, RollbackMember, EndFailed
<1>5. CASE EndReversal \/ NextReversal
    BY <1>1, <1>5 DEF EndReversal, NextReversal
<1>6. CASE EndDiff \/ Accept \/ Reject \/ ClearMark
    BY <1>6, MarkStates DEF EndDiff, Accept, Reject, ClearMark
<1>7. CASE Save
    <2>1. PICK spent : decided' = RejectAll(Agreed(decided), spent)
        BY <1>7 DEF Save, SaveAs
    <2> QED BY <1>2, <2>1 DEF RejectAll, States
<1>8. CASE SaveFails
    BY <1>2, <1>8 DEF SaveFails
<1>9. CASE Restart
    BY <1>9 DEF Restart, Recorded, States
<1>10. CASE UNCHANGED vars
    BY <1>10 DEF vars
<1> QED BY <1>3, <1>4, <1>5, <1>6, <1>7, <1>8, <1>9, <1>10 DEF Next, Continue

\* A store only grows, by the length of a text.
LEMMA StoreKept ==
    ASSUME store \in [Writers -> Nat], [Next]_vars
    PROVE  store' \in [Writers -> Nat]
<1>1. ASSUME NEW a, NEW text \in Texts \cup {<<>>}, store' = [store EXCEPT ![a] = @ + Len(text)]
      PROVE  store' \in [Writers -> Nat]
    <2>1. Len(text) \in Nat
        <3>1. CASE text \in Texts
            <4>1. text \in Seq(ToSet(text))
                BY <3>1, TextsAssumption
            <4> QED BY <4>1
        <3>2. CASE text = <<>>
            BY <3>2
        <3> QED BY <3>1, <3>2
    <2> DEFINE n == Len(text)
    <2>2. n \in Nat /\ store' = [store EXCEPT ![a] = store[a] + n]
        BY <1>1, <2>1
    <2> HIDE DEF n
    <2>3. \A w \in Writers : store'[w] \in Nat
        BY <2>2
    <2> QED BY <2>2, <2>3
<1>2. CASE Typing
    <2>1. store' = store \/ \E text \in Texts : \E a : store' = [store EXCEPT ![a] = @ + Len(text)]
        BY <1>2 DEF Typing, Insert, Delete, Paste, BeginAction
    <2> QED BY <1>1, <2>1
<1>3. CASE Hunk
    <2>1. \/ store' = store
          \/ \E text \in Texts \cup {<<>>} : \E a : store' = [store EXCEPT ![a] = @ + Len(text)]
        BY <1>3 DEF Hunk, Write
    <2> QED BY <1>1, <2>1
<1>4. CASE History \/ Diffing \/ Reverting \/ ClearReversal
    BY <1>4 DEF History, UndoRedo, Diffing, BeginDiff, Reverting, Revert, ClearReversal,
                StartReversal
<1>5. CASE EndAction \/ EndDiff \/ ReverseMember \/ ReverseBlocked \/ RollbackMember
              \/ EndFailed \/ EndReversal \/ NextReversal
    BY <1>5 DEF EndAction, EndDiff, ReverseMember, ReverseBlocked, RollbackMember, EndFailed,
                EndReversal, NextReversal
<1>6. CASE Accept \/ Reject \/ ClearMark \/ Save \/ SaveFails \/ Restart
    BY <1>6 DEF Accept, Reject, ClearMark, Save, SaveFails, Restart
<1>7. CASE UNCHANGED vars
    BY <1>7 DEF vars
<1> QED BY <1>2, <1>3, <1>4, <1>5, <1>6, <1>7 DEF Next, Continue

\* A save records the version it wrote, and nothing else touches the disk.
LEMMA DiskKept ==
    ASSUME IInv, disk \in [text : {disk.text}, version : Nat], [Next]_vars
    PROVE  disk' \in [text : {disk'.text}, version : Nat]
<1>1. Version \in Nat
    <2>1. journal \in Seq(ToSet(journal))
        BY DEF IInv, Log
    <2> QED BY <2>1 DEF Version
<1>2. CASE Save
    <2>1. PICK text : disk' = [text |-> text, version |-> Version]
        BY <1>2 DEF Save, SaveAs
    <2> QED BY <1>1, <2>1
<1>3. CASE Typing \/ History \/ Diffing \/ Reverting \/ ClearReversal
    BY <1>3 DEF Typing, Insert, Delete, Paste, BeginAction, History, UndoRedo, Diffing,
                BeginDiff, Reverting, Revert, ClearReversal, StartReversal
<1>4. CASE EndAction \/ EndDiff \/ Hunk \/ ReverseMember \/ ReverseBlocked \/ RollbackMember
              \/ EndFailed \/ EndReversal \/ NextReversal
    BY <1>4 DEF EndAction, EndDiff, Hunk, ReverseMember, ReverseBlocked, RollbackMember,
                EndFailed, EndReversal, NextReversal
<1>5. CASE Accept \/ Reject \/ ClearMark \/ SaveFails \/ Restart
    BY <1>5 DEF Accept, Reject, ClearMark, SaveFails, Restart
<1>6. CASE UNCHANGED vars
    BY <1>6 DEF vars
<1> QED BY <1>2, <1>3, <1>4, <1>5, <1>6 DEF Next, Continue

\* Group numbers, nesting, decisions, stores and the handler in progress have
\* their types, whatever the handlers are given.
THEOREM ControlIsTyped == Spec => []ControlTypes
<1>1. Init => DataTyped
    BY DEF Init, DataTyped, States, NoDecisions
<1>2. IInv /\ DataTyped /\ [Next]_vars => DataTyped'
    BY StatesKept, StoreKept, DiskKept DEF DataTyped
<1>3. IInv /\ DataTyped => ControlTypes
    <2> SUFFICES ASSUME IInv, DataTyped PROVE ControlTypes
        OBVIOUS
    <2>1. /\ depth \in {0, 1}
          /\ work.on \in {"idle", "action", "diff", "reverse"}
          /\ (depth = 1) = (work # Idle)
        BY DEF IInv, Handler, Idle
    <2> QED BY <2>1 DEF IInv, Log, DataTyped, States, ControlTypes
<1> QED BY <1>1, <1>2, <1>3, HoldsAlways, PTL DEF Spec

-----------------------------------------------------------------------------
(* Splices.                                                                *)

LEMMA ConcatShape ==
  ASSUME NEW B, NEW s \in Seq(B), NEW t \in Seq(B)
  PROVE  s \o t \in Seq(B) /\ Len(s \o t) = Len(s) + Len(t)
  OBVIOUS

LEMMA SubSeqShape ==
  ASSUME NEW B, NEW d \in Seq(B), NEW m \in Nat \ {0}, NEW n \in Int, n <= Len(d)
  PROVE  SubSeq(d, m, n) \in Seq(B) /\ Len(SubSeq(d, m, n)) = IF m <= n THEN n - m + 1 ELSE 0
  BY RangeOfSubSeq

\* Whatever its offsets, a splice puts together bytes it was given.
LEMMA SpliceTyped ==
  ASSUME NEW B, NEW d \in Seq(B), NEW ins \in Seq(B), NEW pos \in Nat, NEW n \in Nat
  PROVE  Splice(d, pos, n, ins) \in Seq(B)
<1> DEFINE p == IF pos > Len(d) THEN Len(d) ELSE pos
           m == IF p + n > Len(d) THEN Len(d) - p ELSE n
<1>0. Len(d) \in Nat
  OBVIOUS
<1>1. p \in Nat /\ p <= Len(d) /\ p + m + 1 \in Nat \ {0} /\ Len(d) \in Nat
  <2>1. p \in Nat /\ p <= Len(d)
    BY <1>0
  <2>2. m \in Nat
    <3> HIDE DEF p
    <3> QED BY <1>0, <2>1
  <2> HIDE DEF p, m
  <2> QED BY <1>0, <2>1, <2>2
<1>2. Splice(d, pos, n, ins) = SubSeq(d, 1, p) \o ins \o SubSeq(d, p + m + 1, Len(d))
  BY DEF Splice
<1> HIDE DEF p, m
<1>3. SubSeq(d, 1, p) \in Seq(B) /\ SubSeq(d, p + m + 1, Len(d)) \in Seq(B)
  BY <1>1, SubSeqShape
<1> QED BY <1>2, <1>3

\* A splice inside the text changes its length by what it adds and takes.
LEMMA SpliceLength ==
  ASSUME NEW B, NEW d \in Seq(B), NEW ins \in Seq(B), NEW pos \in Nat, NEW n \in Nat,
         pos + n <= Len(d)
  PROVE  Len(Splice(d, pos, n, ins)) = Len(d) + Len(ins) - n
<1>1. Len(d) \in Nat /\ Len(ins) \in Nat
  OBVIOUS
<1>2. Splice(d, pos, n, ins) = SubSeq(d, 1, pos) \o ins \o SubSeq(d, pos + n + 1, Len(d))
  <2> DEFINE p == IF pos > Len(d) THEN Len(d) ELSE pos
             m == IF p + n > Len(d) THEN Len(d) - p ELSE n
  <2>1. ~(pos > Len(d)) /\ ~(pos + n > Len(d))
    BY <1>1
  <2>2. Splice(d, pos, n, ins) = SubSeq(d, 1, p) \o ins \o SubSeq(d, p + m + 1, Len(d))
    BY DEF Splice
  <2>3. p = pos /\ m = n
    BY <2>1, Zenon
  <2> HIDE DEF p, m
  <2> QED BY <2>2, <2>3
<1> DEFINE x == SubSeq(d, 1, pos)
           y == SubSeq(d, pos + n + 1, Len(d))
<1>3. x \in Seq(B) /\ Len(x) = pos
  <2>1. pos <= Len(d) /\ 1 \in Nat \ {0}
    BY <1>1
  <2> HIDE DEF x
  <2>2. x \in Seq(B) /\ Len(x) = IF 1 <= pos THEN pos - 1 + 1 ELSE 0
    BY <1>1, <2>1, SubSeqShape DEF x
  <2> QED BY <2>2
<1>4. y \in Seq(B) /\ Len(y) = Len(d) - (pos + n)
  <2>1. pos + n + 1 \in Nat \ {0} /\ Len(d) <= Len(d)
    BY <1>1
  <2> HIDE DEF y
  <2>2. y \in Seq(B) /\ Len(y) = IF pos + n + 1 <= Len(d) THEN Len(d) - (pos + n + 1) + 1 ELSE 0
    BY <1>1, <2>1, SubSeqShape DEF y
  <2> QED BY <1>1, <2>2
<1> HIDE DEF x, y
<1> DEFINE z == x \o ins
<1>5. z \in Seq(B) /\ Len(z) = pos + Len(ins)
  BY <1>3, ConcatShape
<1> HIDE DEF z
<1>6. Len(z \o y) = Len(z) + Len(y)
  BY <1>4, <1>5, ConcatShape
<1>7. Splice(d, pos, n, ins) = z \o y
  BY <1>2 DEF x, y, z
<1>8. Len(Splice(d, pos, n, ins)) = Len(z) + Len(y)
  BY <1>6, <1>7, Zenon
<1> QED BY <1>1, <1>4, <1>5, <1>8

-----------------------------------------------------------------------------
(* Carrying a point.                                                       *)

\* The record of a reversal is its target's, turned round.
TurnedRound(j) ==
    \A s \in Seqs(j) : OpAt(j, s).kind # "edit" =>
        /\ OpAt(j, s).ins = OpAt(j, OpAt(j, s).undoes).del
        /\ OpAt(j, s).del = OpAt(j, OpAt(j, s).undoes).ins

Numbered(j) == j \in Seq(Ops) /\ \A s \in Seqs(j) : OpAt(j, s).seq = s

Points == [at : Nat, held : BOOLEAN, by : Nat, off : Nat,
           anchored : SUBSET [seq : Nat, right : BOOLEAN]]

\* A point is inside a document of n bytes, or as far inside what the op that holds it
\* will bring back.
Inside(j, p, n) ==
    IF p.held THEN p.by \in Seqs(j) /\ p.off <= InsLen(OpAt(j, p.by)) ELSE p.at <= n

LEMMA OpShape ==
  ASSUME NEW j, Numbered(j), NEW s \in Seqs(j)
  PROVE  /\ OpAt(j, s) \in Ops /\ OpAt(j, s).seq = s /\ s \in Nat
         /\ OpAt(j, s).pos \in Nat /\ OpAt(j, s).kind \in Kinds
         /\ OpAt(j, s).del \in Seq(Bytes) /\ OpAt(j, s).ins \in Seq(Bytes)
         /\ DelLen(OpAt(j, s)) \in Nat /\ InsLen(OpAt(j, s)) \in Nat
<1>1. OpAt(j, s) \in Ops /\ OpAt(j, s).seq = s /\ s \in Nat
  BY DEF Numbered, Seqs, OpAt
<1> DEFINE o == OpAt(j, s)
<1> HIDE DEF o
<1>2. /\ o.pos \in Nat /\ o.kind \in Kinds
      /\ o.del \in Seq(Bytes) /\ o.ins \in Seq(Bytes)
  BY <1>1 DEF Ops, o
<1>3. DelLen(o) \in Nat /\ InsLen(o) \in Nat
  BY <1>2 DEF DelLen, InsLen
<1> QED BY <1>1, <1>2, <1>3 DEF o

\* A point that is not held, moved, or with other anchors, or both.
LEMMA PointPut ==
  ASSUME NEW p \in Points, ~p.held, NEW x \in Nat, NEW q, q = [p EXCEPT !.at = x]
  PROVE  q \in Points /\ ~q.held /\ q.at = x
<1>1. p.held = FALSE
  BY DEF Points
<1>2. q \in Points /\ q.at = x /\ q.held = FALSE
  BY <1>1 DEF Points
<1> QED BY <1>2

LEMMA PointMarked ==
  ASSUME NEW p \in Points, ~p.held, NEW an \in SUBSET [seq : Nat, right : BOOLEAN],
         NEW q, q = [p EXCEPT !.anchored = an]
  PROVE  q \in Points /\ ~q.held /\ q.at = p.at
<1>1. p.held = FALSE
  BY DEF Points
<1>2. q \in Points /\ q.at = p.at /\ q.held = FALSE
  BY <1>1 DEF Points
<1> QED BY <1>2

LEMMA PutInside ==
  ASSUME NEW j, NEW p, ~p.held, NEW n, p.at <= n
  PROVE  Inside(j, p, n)
  BY Zenon DEF Inside

LEMMA LandsShape ==
  ASSUME NEW p \in Points, ~p.held, NEW o, InsLen(o) \in Nat, DelLen(o) = 0, NEW rightward
  PROVE  /\ LandsOn(p, o, rightward) \in Points /\ ~LandsOn(p, o, rightward).held
         /\ LandsOn(p, o, rightward).at <= p.at + InsLen(o)
<1> DEFINE known == {a \in p.anchored : a.seq = o.undoes}
           right == IF known # {} THEN \E a \in known : a.right ELSE ~rightward
           at == IF right THEN p.at ELSE p.at + Delta(o)
<1>1. /\ p.at \in Nat /\ p.held = FALSE /\ p.by \in Nat /\ p.off \in Nat
      /\ p.anchored \in SUBSET [seq : Nat, right : BOOLEAN]
      /\ p = [at |-> p.at, held |-> p.held, by |-> p.by, off |-> p.off, anchored |-> p.anchored]
  BY DEF Points
<1>2. LandsOn(p, o, rightward) = [p EXCEPT !.anchored = p.anchored \ known, !.at = at]
  BY DEF LandsOn
<1> HIDE DEF known, right
<1>3. at \in Nat /\ at <= p.at + InsLen(o)
  BY <1>1 DEF Delta
<1> HIDE DEF at
<1>4. p.anchored \ known \in SUBSET [seq : Nat, right : BOOLEAN]
  BY <1>1
<1> QED
  <2> DEFINE c == LandsOn(p, o, rightward)
             an == p.anchored \ known
  <2>1. c = [p EXCEPT !.anchored = an, !.at = at]
    BY <1>2
  <2>2. an \in SUBSET [seq : Nat, right : BOOLEAN]
    BY <1>4
  <2> HIDE DEF c, an
  <2>3. c \in Points /\ c.held = FALSE /\ c.at = at
    BY <1>1, <1>3, <2>1, <2>2 DEF Points
  <2> QED BY <1>3, <2>3 DEF c

\* Carrying a point over an op keeps it inside the document, whatever was undone.
LEMMA CarryShape ==
  ASSUME NEW j, Numbered(j), TurnedRound(j), NEW live, NEW s \in Seqs(j),
         NEW p \in Points, NEW n \in Nat, Inside(j, p, n),
         OpAt(j, s).pos + DelLen(OpAt(j, s)) <= n, NEW rightward
  PROVE  /\ Carry(j, live, p, OpAt(j, s), rightward) \in Points
         /\ Inside(j, Carry(j, live, p, OpAt(j, s), rightward), n + Delta(OpAt(j, s)))
<1> DEFINE o == OpAt(j, s)
           c == Carry(j, live, p, o, rightward)
           del == DelLen(o)
           ins == InsLen(o)
           end == o.pos + del
           r == LiveReversers(j, live, o.seq)
<1>1. /\ o.seq = s /\ s \in Nat /\ o.pos \in Nat /\ del \in Nat /\ ins \in Nat
      /\ Delta(o) = ins - del /\ o.pos + del <= n
  BY OpShape DEF Delta
<1>2. /\ p.at \in Nat /\ p.held \in BOOLEAN /\ p.by \in Nat /\ p.off \in Nat
      /\ p.anchored \in SUBSET [seq : Nat, right : BOOLEAN]
      /\ p = [at |-> p.at, held |-> p.held, by |-> p.by, off |-> p.off, anchored |-> p.anchored]
  BY DEF Points
<1>3. /\ Anchor(p, o, TRUE) \in SUBSET [seq : Nat, right : BOOLEAN]
      /\ Anchor(p, o, FALSE) \in SUBSET [seq : Nat, right : BOOLEAN]
  <2>1. \A b \in BOOLEAN : [seq |-> o.seq, right |-> b] \in [seq : Nat, right : BOOLEAN]
    BY <1>1
  <2> QED BY <1>2, <2>1 DEF Anchor
<1>4. CASE p.held
  <2>1. c = IF o.seq = p.by THEN [p EXCEPT !.at = o.pos + p.off, !.held = FALSE] ELSE p
    BY <1>4 DEF Carry
  <2>2. p.by \in Seqs(j) /\ p.off <= InsLen(OpAt(j, p.by))
    BY <1>4 DEF Inside
  <2>3. CASE o.seq # p.by
    BY <1>4, <2>1, <2>2, <2>3 DEF Inside
  <2>4. CASE o.seq = p.by
    <3>1. p.off <= ins
      BY <1>1, <2>2, <2>4
    <3> DEFINE q == [at |-> o.pos + p.off, held |-> FALSE, by |-> p.by, off |-> p.off,
                     anchored |-> p.anchored]
    <3>2. c = q
      BY <1>2, <2>1, <2>4
    <3>3. o.pos + p.off \in Nat /\ o.pos + p.off <= n + (ins - del)
      <4> HIDE DEF o, c, del, ins
      <4> QED BY <1>1, <1>2, <3>1
    <3>4. q \in Points /\ q.held = FALSE /\ q.at = o.pos + p.off
      BY <1>2, <3>3 DEF Points
    <3> HIDE DEF c, q, o, del, ins
    <3> QED BY <1>1, <3>2, <3>3, <3>4 DEF Inside, o, c
  <2> QED BY <2>3, <2>4
<1>5. ASSUME ~p.held PROVE c \in Points /\ Inside(j, c, n + Delta(o))
  <2>1. p.held = FALSE /\ p.at <= n
    BY <1>2, <1>5 DEF Inside
  <2>2. c = CASE DelLen(o) = 0 /\ o.pos = p.at -> LandsOn(p, o, rightward)
           [] DelLen(o) # 0 /\ end = p.at ->
                [p EXCEPT !.at = @ + Delta(o), !.anchored = Anchor(p, o, FALSE)]
           [] end < p.at -> [p EXCEPT !.at = @ + Delta(o)]
           [] o.pos = p.at /\ DelLen(o) # 0 -> [p EXCEPT !.anchored = Anchor(p, o, TRUE)]
           [] o.pos > p.at -> p
           [] OTHER ->
                IF r # {}
                THEN [p EXCEPT !.held = TRUE, !.off = p.at - o.pos,
                               !.by = CHOOSE x \in r : \A y \in r : x <= y]
                ELSE [p EXCEPT !.at = o.pos]
    BY <1>5 DEF Carry
  <2>3. Delta(o) = ins - del
    BY <1>1
  <2>4. CASE del = 0 /\ o.pos = p.at
    <3>1. c = LandsOn(p, o, rightward)
      BY <1>1, <2>2, <2>4
    <3>2. c \in Points /\ ~c.held /\ c.at <= p.at + ins
      <4> HIDE DEF c
      <4> QED BY <1>1, <1>5, <2>4, <3>1, LandsShape
    <3>3. c.at <= n + Delta(o)
      <4>1. c.at \in Nat
        BY <3>2 DEF Points
      <4> HIDE DEF c, o, ins, del
      <4> QED BY <1>1, <1>2, <2>1, <2>3, <2>4, <3>2, <4>1
    <3> QED BY <3>2, <3>3, PutInside
  <2>5. CASE del # 0 /\ end = p.at
    <3> DEFINE x == p.at + Delta(o)
               an == Anchor(p, o, FALSE)
    <3>1. c = [p EXCEPT !.at = x, !.anchored = an]
      BY <1>1, <2>2, <2>5
    <3>2. x \in Nat /\ x <= n + Delta(o) /\ an \in SUBSET [seq : Nat, right : BOOLEAN]
      <4>1. x \in Nat /\ x <= n + Delta(o)
        <5> HIDE DEF c, o, ins, del
        <5> QED BY <1>1, <1>2, <2>1, <2>3, <2>5
      <4> QED BY <1>3, <4>1
    <3> HIDE DEF c, x, an
    <3>3. c \in Points /\ ~c.held /\ c.at = x
      BY <1>2, <2>1, <3>1, <3>2 DEF Points
    <3> QED BY <3>2, <3>3, PutInside
  <2>6. CASE end < p.at
    <3> DEFINE x == p.at + Delta(o)
    <3>1. c = [p EXCEPT !.at = x]
      BY <1>1, <1>2, <2>2, <2>6
    <3>2. x \in Nat /\ x <= n + Delta(o)
      <4> HIDE DEF c, o, ins, del
      <4> QED BY <1>1, <1>2, <2>1, <2>3, <2>6
    <3> HIDE DEF c, x
    <3>3. c \in Points /\ ~c.held /\ c.at = x
      BY <1>5, <3>1, <3>2, PointPut
    <3> QED BY <3>2, <3>3, PutInside
  <2>7. CASE o.pos = p.at /\ del # 0
    <3> DEFINE an == Anchor(p, o, TRUE)
    <3>1. c = [p EXCEPT !.anchored = an]
      BY <1>1, <1>2, <2>2, <2>7
    <3>2. p.at <= n + Delta(o)
      <4> HIDE DEF c, o, ins, del
      <4> QED BY <1>1, <1>2, <2>1, <2>3, <2>7
    <3>4. an \in SUBSET [seq : Nat, right : BOOLEAN]
      BY <1>3
    <3> HIDE DEF c, an
    <3>3. c \in Points /\ ~c.held /\ c.at = p.at
      BY <1>5, <3>1, <3>4, PointMarked
    <3> QED BY <3>2, <3>3, PutInside
  <2>8. CASE o.pos > p.at
    <3>1. c = p
      BY <1>1, <1>2, <2>2, <2>8
    <3>2. p.at <= n + Delta(o)
      <4> HIDE DEF c, o, ins, del
      <4> QED BY <1>1, <1>2, <2>1, <2>3, <2>8
    <3> QED BY <1>5, <3>1, <3>2, PutInside
  <2>9. CASE o.pos < p.at /\ p.at < end
    <3>1. c = IF r # {}
              THEN [p EXCEPT !.held = TRUE, !.off = p.at - o.pos,
                             !.by = CHOOSE x \in r : \A y \in r : x <= y]
              ELSE [p EXCEPT !.at = o.pos]
      BY <1>1, <1>2, <2>2, <2>9
    <3>2. CASE r = {}
      <4>1. o.pos <= n + Delta(o)
        <5> HIDE DEF c, o, ins, del
        <5> QED BY <1>1, <1>2, <2>1, <2>3, <2>9
      <4> HIDE DEF c
      <4> DEFINE x == o.pos
      <4>3. c = [p EXCEPT !.at = x] /\ x \in Nat
        BY <1>1, <3>1, <3>2
      <4> HIDE DEF x
      <4>4. c \in Points /\ ~c.held /\ c.at = x
        BY <1>5, <4>3, PointPut
      <4>2. c \in Points /\ ~c.held /\ c.at <= n + Delta(o)
        BY <4>1, <4>4 DEF x
      <4> QED BY <4>2, PutInside
    <3>3. CASE r # {}
      <4>1. r \in SUBSET Nat /\ r \in SUBSET Seqs(j)
            /\ \A x \in r : InsLen(OpAt(j, x)) = del
        <5>1. \A x \in r : /\ x \in Seqs(j) /\ x \in Nat /\ OpAt(j, x).kind # "edit"
                            /\ OpAt(j, x).undoes = s
          BY <1>1 DEF LiveReversers, Reversers, Seqs
        <5>2. \A x \in r : OpAt(j, x).ins = o.del
          BY <5>1 DEF TurnedRound
        <5> QED BY <5>1, <5>2 DEF InsLen, DelLen
      <4> DEFINE by == CHOOSE x \in r : \A y \in r : x <= y
                 off == p.at - o.pos
      <4>2. by \in r
        <5>1. \E x \in r : \A y \in r : x <= y
          BY <3>3, <4>1, Least
        <5> QED BY <5>1
      <4>3. off \in Nat /\ off <= del
        <5> HIDE DEF o, del, c
        <5> QED BY <1>1, <1>2, <2>9
      <4>4. c = [p EXCEPT !.held = TRUE, !.off = off, !.by = by]
        BY <3>1, <3>3
      <4> HIDE DEF c, off, by
      <4>5. c = [at |-> p.at, held |-> TRUE, by |-> by, off |-> off, anchored |-> p.anchored]
        BY <4>4 DEF Points
      <4>6. c \in Points /\ c.held /\ c.by = by /\ c.off = off
        BY <1>2, <4>1, <4>2, <4>3, <4>5 DEF Points
      <4> HIDE DEF o, del, r
      <4> QED BY <4>1, <4>2, <4>3, <4>6 DEF Inside
    <3> QED BY <3>2, <3>3
  <2>10. \/ del = 0 /\ o.pos = p.at
         \/ del # 0 /\ end = p.at
         \/ end < p.at
         \/ o.pos = p.at /\ del # 0
         \/ o.pos > p.at
         \/ o.pos < p.at /\ p.at < end
    <3> HIDE DEF o, del
    <3> QED BY <1>1, <1>2
  <2> QED BY <2>4, <2>5, <2>6, <2>7, <2>8, <2>9, <2>10
<1> QED BY <1>4, <1>5

-----------------------------------------------------------------------------
(* Replaying a journal.                                                    *)

LEMMA PrefixOf ==
  ASSUME NEW R, NEW j \in Seq(R), NEW n \in 0 .. Len(j)
  PROVE  /\ SubSeq(j, 1, n) \in Seq(R) /\ Len(SubSeq(j, 1, n)) = n
         /\ DOMAIN SubSeq(j, 1, n) = 1 .. n
         /\ \A i \in 1 .. n : SubSeq(j, 1, n)[i] = j[i] /\ j[i] \in R
  BY SMT

LEMMA ApplyTyped ==
  ASSUME NEW d \in Seq(Bytes), NEW o \in Ops
  PROVE  Apply(d, o) \in Seq(Bytes)
<1>1. o.pos \in Nat /\ o.ins \in Seq(Bytes) /\ DelLen(o) \in Nat
  BY DEF Ops, DelLen
<1> QED BY <1>1, SpliceTyped DEF Apply

\* The documents of a replay.
Replays(F, d, j, n) ==
    /\ F \in [0 .. n -> Seq(Bytes)]
    /\ F[0] = d
    /\ \A i \in 1 .. n : F[i] = Apply(F[i - 1], j[i])

LEMMA ReplayRuns ==
  ASSUME NEW d \in Seq(Bytes), NEW j \in Seq(Ops), NEW n \in 0 .. Len(j)
  PROVE  \E F : Replays(F, d, j, n) /\ ReplayTo(d, j, n) = F[n]
<1> DEFINE q == SubSeq(j, 1, n)
           f == [z \in Seq(Bytes) \X (1 .. n) |-> Apply(z[1], q[z[2]])]
           Body(g) == [s \in SUBSET (1 .. n) |->
                          IF s = {} THEN d ELSE Apply(g[s \ {Max(s)}], q[Max(s)])]
           K == CHOOSE g : g = Body(g)
           F == [i \in 0 .. n |-> K[1 .. i]]
<1>1. n \in Nat /\ DOMAIN q = 1 .. n /\ \A i \in 1 .. n : q[i] = j[i] /\ q[i] \in Ops
  BY PrefixOf
<1>2. ReplayTo(d, j, n) = K[1 .. n]
  BY <1>1 DEF ReplayTo, FoldLeft, MapThenFoldSet
<1> HIDE DEF q
<1>3. f \in [Seq(Bytes) \X (1 .. n) -> Seq(Bytes)]
  BY <1>1, ApplyTyped
<1>4. \E g : g = Body(g)
  <2> HIDE DEF f, K
  <2>1. PICK g \in [SUBSET (1 .. n) -> Seq(Bytes)] : \A s \in SUBSET (1 .. n) :
            g[s] = IF s = {} THEN d ELSE f[<<g[s \ {Max(s)}], Max(s)>>]
    <3> DEFINE X == Seq(Bytes)
    <3>1. n \in Nat /\ d \in X /\ f \in [X \X (1 .. n) -> X]
      BY <1>1, <1>3
    <3> HIDE DEF X
    <3>2. \E g : LeftTable(g, n, X, d, f)
      BY <3>1, FoldLeftTable, Zenon
    <3> QED BY <3>2, Zenon DEF X, LeftTable
  <2>2. ASSUME NEW s \in SUBSET (1 .. n), s # {}
        PROVE  f[<<g[s \ {Max(s)}], Max(s)>>] = Apply(g[s \ {Max(s)}], q[Max(s)])
    <3>1. Max(s) \in s
      BY <1>1, <2>2, TopOfSet
    <3>2. s \ {Max(s)} \in SUBSET (1 .. n) /\ Max(s) \in 1 .. n
      BY <3>1
    <3>3. g[s \ {Max(s)}] \in Seq(Bytes)
      BY <3>2
    <3> QED BY <3>2, <3>3 DEF f
  <2>3. g = Body(g)
    BY <2>1, <2>2
  <2> QED BY <2>3
<1>5. K = Body(K)
  BY <1>4
<1> HIDE DEF K, f
<1>6. F[0] = d
  <2>1. 0 \in 0 .. n /\ 1 .. 0 = {}
    BY <1>1
  <2> QED BY <1>5, <2>1
<1>7. \A i \in 1 .. n : F[i] = Apply(F[i - 1], j[i])
  <2> SUFFICES ASSUME NEW i \in 1 .. n PROVE F[i] = Apply(F[i - 1], j[i])
    OBVIOUS
  <2>1. i \in 0 .. n /\ i - 1 \in 0 .. n
    BY <1>1
  <2>2. \A s \in SUBSET (1 .. n) :
           K[s] = IF s = {} THEN d ELSE Apply(K[s \ {Max(s)}], q[Max(s)])
    BY <1>5, Zenon
  <2>3. /\ Max(1 .. i) = i /\ (1 .. i) \ {i} = 1 .. (i - 1)
        /\ 1 .. i # {} /\ (1 .. i) \in SUBSET (1 .. n)
    BY <1>1, TopOfInitial
  <2>4. K[1 .. i] = Apply(K[1 .. (i - 1)], q[i])
    BY <2>2, <2>3, Zenon
  <2> QED BY <1>1, <2>1, <2>4
<1>8. F \in [0 .. n -> Seq(Bytes)]
  <2> DEFINE S == {m \in Nat : m <= n => F[m] \in Seq(Bytes)}
  <2>1. 0 \in S
    BY <1>6
  <2>2. ASSUME NEW m \in Nat, m \in S PROVE m + 1 \in S
    <3> SUFFICES ASSUME m + 1 <= n PROVE F[m + 1] \in Seq(Bytes)
      OBVIOUS
    <3>1. F[m] \in Seq(Bytes) /\ m + 1 \in 1 .. n /\ (m + 1) - 1 = m
      BY <1>1, <2>2
    <3> HIDE DEF F
    <3>2. F[m + 1] = Apply(F[m], j[m + 1]) /\ j[m + 1] \in Ops
      BY <1>1, <1>7, <3>1
    <3> QED BY <3>1, <3>2, ApplyTyped
  <2>3. \A m \in Nat : m \in S
    <3> HIDE DEF S
    <3> QED BY <2>1, <2>2, Inductive
  <2>4. \A i \in 0 .. n : K[1 .. i] \in Seq(Bytes)
    <3>1. \A i \in 0 .. n : F[i] \in Seq(Bytes)
      <4> HIDE DEF F
      <4> QED BY <1>1, <2>3
    <3> QED BY <3>1, Zenon
  <2> QED BY <2>4
<1>9. F[n] = K[1 .. n]
  BY <1>1
<1> HIDE DEF F
<1> QED BY <1>2, <1>6, <1>7, <1>8, <1>9 DEF Replays

LEMMA ReplaysAgree ==
  ASSUME NEW d, NEW j, NEW n \in Nat, NEW m \in 0 .. n, NEW F, NEW G,
         Replays(F, d, j, n), Replays(G, d, j, m)
  PROVE  \A i \in 0 .. m : F[i] = G[i]
<1> DEFINE S == {i \in Nat : i <= m => F[i] = G[i]}
<1>1. 0 \in S
  BY DEF Replays
<1>2. ASSUME NEW i \in Nat, i \in S PROVE i + 1 \in S
  <2> SUFFICES ASSUME i + 1 <= m PROVE F[i + 1] = G[i + 1]
    OBVIOUS
  <2>1. /\ F[i] = G[i] /\ i + 1 \in 1 .. m /\ i + 1 \in 1 .. n /\ (i + 1) - 1 = i
    BY <1>2
  <2> QED BY <2>1, Zenon DEF Replays
<1>3. \A i \in Nat : i \in S
  <2> HIDE DEF S
  <2> QED BY <1>1, <1>2, Inductive
<1> QED BY <1>3

\* A replay goes on from the replay of one op less.
LEMMA ReplayNext ==
  ASSUME NEW d \in Seq(Bytes), NEW j \in Seq(Ops), NEW n \in 0 .. Len(j)
  PROVE  /\ ReplayTo(d, j, n) \in Seq(Bytes)
         /\ n = 0 => ReplayTo(d, j, n) = d
         /\ n # 0 => ReplayTo(d, j, n) = Apply(ReplayTo(d, j, n - 1), j[n])
<1>1. PICK F : Replays(F, d, j, n) /\ ReplayTo(d, j, n) = F[n]
  BY ReplayRuns
<1>2. F[n] \in Seq(Bytes) /\ F[0] = d
  BY <1>1 DEF Replays
<1>3. ASSUME n # 0 PROVE F[n] = Apply(ReplayTo(d, j, n - 1), j[n])
  <2>1. n \in Nat /\ n \in 1 .. n /\ n - 1 \in 0 .. Len(j) /\ n - 1 \in 0 .. n /\ n - 1 \in 0 .. (n - 1)
    BY <1>3
  <2>2. PICK G : Replays(G, d, j, n - 1) /\ ReplayTo(d, j, n - 1) = G[n - 1]
    BY <2>1, ReplayRuns
  <2>3. F[n - 1] = G[n - 1]
    BY <1>1, <2>1, <2>2, ReplaysAgree
  <2> QED BY <1>1, <2>1, <2>2, <2>3 DEF Replays
<1> QED BY <1>1, <1>2, <1>3, Zenon

\* What is replayed is what the journal held then.
LEMMA ReplayOfPrefix ==
  ASSUME NEW d \in Seq(Bytes), NEW j \in Seq(Ops), NEW o \in Ops, NEW n \in 0 .. Len(j)
  PROVE  ReplayTo(d, Append(j, o), n) = ReplayTo(d, j, n)
<1>1. SubSeq(Append(j, o), 1, n) = SubSeq(j, 1, n)
  <2>1. Append(j, o) \in Seq(Ops) /\ n \in 0 .. Len(Append(j, o))
        /\ \A i \in 1 .. n : Append(j, o)[i] = j[i]
    BY SMT
  <2> DEFINE a == SubSeq(Append(j, o), 1, n)
             b == SubSeq(j, 1, n)
  <2>2. a \in Seq(Ops) /\ Len(a) = n /\ DOMAIN a = 1 .. n /\ \A i \in 1 .. n : a[i] = Append(j, o)[i]
    BY <2>1, PrefixOf
  <2>3. b \in Seq(Ops) /\ Len(b) = n /\ DOMAIN b = 1 .. n /\ \A i \in 1 .. n : b[i] = j[i]
    BY PrefixOf
  <2> HIDE DEF a, b
  <2>4. a = b
    BY <2>1, <2>2, <2>3
  <2> QED BY <2>4 DEF a, b
<1> QED BY <1>1, Zenon DEF ReplayTo

\* The op numbered n - 1 is the n-th of the list.
LEMMA ReplayOp ==
  ASSUME NEW d \in Seq(Bytes), NEW j \in Seq(Ops), NEW s \in Seqs(j)
  PROVE  /\ s \in 0 .. Len(j) /\ s + 1 \in 0 .. Len(j)
         /\ ReplayTo(d, j, s + 1) = Apply(ReplayTo(d, j, s), OpAt(j, s))
<1>1. s \in 0 .. Len(j) /\ s + 1 \in 0 .. Len(j) /\ s + 1 # 0 /\ (s + 1) - 1 = s
  BY DEF Seqs
<1> QED BY <1>1, ReplayNext DEF OpAt

\* Every op fits into the document it is applied to.
StaysInside(d, j) ==
    \A s \in Seqs(j) : OpAt(j, s).pos + DelLen(OpAt(j, s)) <= Len(ReplayTo(d, j, s))

LEMMA ApplyLength ==
  ASSUME NEW d \in Seq(Bytes), NEW o \in Ops, o.pos + DelLen(o) <= Len(d)
  PROVE  Len(Apply(d, o)) = Len(d) + Delta(o) /\ Delta(o) \in Int
<1>1. o.pos \in Nat /\ o.ins \in Seq(Bytes) /\ DelLen(o) \in Nat /\ InsLen(o) \in Nat
  BY DEF Ops, DelLen, InsLen
<1>2. Len(Apply(d, o)) = Len(d) + Len(o.ins) - DelLen(o)
  <2> DEFINE pos == o.pos
             n == DelLen(o)
             ins == o.ins
  <2>1. pos \in Nat /\ ins \in Seq(Bytes) /\ n \in Nat /\ pos + n <= Len(d)
        /\ Apply(d, o) = Splice(d, pos, n, ins)
    BY <1>1 DEF Apply
  <2> HIDE DEF pos, n, ins
  <2>2. Len(Splice(d, pos, n, ins)) = Len(d) + Len(ins) - n
    BY <2>1, SpliceLength
  <2> QED BY <2>1, <2>2 DEF n, ins
<1>3. Len(d) \in Nat
  OBVIOUS
<1> QED BY <1>1, <1>2, <1>3 DEF Delta, InsLen

Measures(F, x, j, n) ==
    /\ F \in [0 .. n -> Int]
    /\ F[0] = x
    /\ \A i \in 1 .. n : F[i] = F[i - 1] + Delta(j[i])

LEMMA DeltaTyped == ASSUME NEW o \in Ops PROVE Delta(o) \in Int
<1>1. o.ins \in Seq(Bytes) /\ o.del \in Seq(Bytes)
  BY DEF Ops
<1> QED BY <1>1 DEF Delta, DelLen, InsLen

LEMMA LengthRuns ==
  ASSUME NEW d \in Seq(Bytes), NEW j \in Seq(Ops), NEW n \in 0 .. Len(j)
  PROVE  \E F : Measures(F, Len(d), j, n) /\ LengthAt(d, j, n) = F[n]
<1> DEFINE q == SubSeq(j, 1, n)
           X == Int
           f == [z \in X \X (1 .. n) |-> z[1] + Delta(q[z[2]])]
           Body(g) == [s \in SUBSET (1 .. n) |->
                          IF s = {} THEN Len(d) ELSE g[s \ {Max(s)}] + Delta(q[Max(s)])]
           K == CHOOSE g : g = Body(g)
           F == [i \in 0 .. n |-> K[1 .. i]]
<1>1. /\ n \in Nat /\ DOMAIN q = 1 .. n
      /\ \A i \in 1 .. n : q[i] = j[i] /\ q[i] \in Ops /\ Delta(q[i]) \in Int
  <2>1. n \in Nat /\ DOMAIN q = 1 .. n /\ \A i \in 1 .. n : q[i] = j[i] /\ q[i] \in Ops
    BY PrefixOf
  <2> QED BY <2>1, DeltaTyped
<1>2. LengthAt(d, j, n) = K[1 .. n]
  BY <1>1 DEF LengthAt, FoldLeft, MapThenFoldSet
<1> HIDE DEF q
<1>3. f \in [X \X (1 .. n) -> X] /\ Len(d) \in X
  BY <1>1
<1>4. \E g : g = Body(g)
  <2> HIDE DEF f, K, X
  <2>1. PICK g : LeftTable(g, n, X, Len(d), f)
    BY <1>1, <1>3, FoldLeftTable, Zenon
  <2>2. ASSUME NEW s \in SUBSET (1 .. n), s # {}
        PROVE  f[<<g[s \ {Max(s)}], Max(s)>>] = g[s \ {Max(s)}] + Delta(q[Max(s)])
    <3>1. s \ {Max(s)} \in SUBSET (1 .. n) /\ Max(s) \in 1 .. n
      BY <1>1, <2>2, TopOfSet
    <3>2. g[s \ {Max(s)}] \in X
      BY <2>1, <3>1 DEF LeftTable
    <3> QED BY <3>1, <3>2 DEF f
  <2>3. g = [s \in SUBSET (1 .. n) |-> g[s]]
    BY <2>1, Zenon DEF LeftTable
  <2>4. \A s \in SUBSET (1 .. n) :
           g[s] = IF s = {} THEN Len(d) ELSE g[s \ {Max(s)}] + Delta(q[Max(s)])
    BY <2>1, <2>2, Zenon DEF LeftTable
  <2>5. g = Body(g)
    BY <2>3, <2>4, Zenon
  <2> QED BY <2>5
<1>5. K = Body(K)
  BY <1>4
<1> HIDE DEF K, f, X
<1>6. F[0] = Len(d)
  <2>1. 0 \in 0 .. n /\ 1 .. 0 = {}
    BY <1>1
  <2> QED BY <1>5, <2>1
<1>7. \A i \in 1 .. n : F[i] = F[i - 1] + Delta(j[i])
  <2> SUFFICES ASSUME NEW i \in 1 .. n PROVE F[i] = F[i - 1] + Delta(j[i])
    OBVIOUS
  <2>1. i \in 0 .. n /\ i - 1 \in 0 .. n
    BY <1>1
  <2>3. \A s \in SUBSET (1 .. n) :
           K[s] = IF s = {} THEN Len(d) ELSE K[s \ {Max(s)}] + Delta(q[Max(s)])
    BY <1>5, Zenon
  <2>4. /\ Max(1 .. i) = i /\ (1 .. i) \ {i} = 1 .. (i - 1)
        /\ 1 .. i # {} /\ (1 .. i) \in SUBSET (1 .. n)
    BY <1>1, TopOfInitial
  <2>2. K[1 .. i] = K[1 .. (i - 1)] + Delta(q[i])
    BY <2>3, <2>4, Zenon
  <2> QED BY <1>1, <2>1, <2>2
<1>8. F \in [0 .. n -> Int]
  <2> DEFINE S == {m \in Nat : m <= n => F[m] \in Int}
  <2>1. 0 \in S
    BY <1>6
  <2>2. ASSUME NEW m \in Nat, m \in S PROVE m + 1 \in S
    <3> SUFFICES ASSUME m + 1 <= n PROVE F[m + 1] \in Int
      OBVIOUS
    <3>1. F[m] \in Int /\ m + 1 \in 1 .. n /\ (m + 1) - 1 = m
      BY <1>1, <2>2
    <3> HIDE DEF F
    <3>2. F[m + 1] = F[m] + Delta(j[m + 1]) /\ Delta(j[m + 1]) \in Int
      BY <1>1, <1>7, <3>1, Zenon
    <3> QED BY <3>1, <3>2
  <2>3. \A m \in Nat : m \in S
    <3> HIDE DEF S
    <3> QED BY <2>1, <2>2, Inductive
  <2>4. \A i \in 0 .. n : K[1 .. i] \in Int
    <3>1. \A i \in 0 .. n : F[i] \in Int
      <4> HIDE DEF F
      <4> QED BY <1>1, <2>3
    <3> QED BY <3>1, Zenon
  <2> QED BY <2>4
<1>9. F[n] = K[1 .. n]
  BY <1>1
<1> HIDE DEF F
<1> QED BY <1>2, <1>6, <1>7, <1>8, <1>9 DEF Measures

\* Session.LengthAt is the length the document had.
LEMMA LengthOfReplay ==
  ASSUME NEW d \in Seq(Bytes), NEW j \in Seq(Ops), StaysInside(d, j), NEW n \in 0 .. Len(j)
  PROVE  LengthAt(d, j, n) = Len(ReplayTo(d, j, n))
<1>1. PICK F : Measures(F, Len(d), j, n) /\ LengthAt(d, j, n) = F[n]
  BY LengthRuns
<1> DEFINE S == {m \in Nat : m <= n => F[m] = Len(ReplayTo(d, j, m))}
<1>2. 0 \in S
  <2>1. 0 \in 0 .. Len(j) /\ F[0] = Len(d)
    BY <1>1 DEF Measures
  <2>2. ReplayTo(d, j, 0) = d
    BY <2>1, ReplayNext
  <2> QED BY <2>1, <2>2
<1>3. ASSUME NEW m \in Nat, m \in S PROVE m + 1 \in S
  <2> SUFFICES ASSUME m + 1 <= n PROVE F[m + 1] = Len(ReplayTo(d, j, m + 1))
    OBVIOUS
  <2>1. /\ m \in Seqs(j) /\ m \in 0 .. Len(j) /\ m + 1 \in 1 .. n /\ (m + 1) - 1 = m
        /\ F[m] = Len(ReplayTo(d, j, m)) /\ OpAt(j, m) = j[m + 1] /\ OpAt(j, m) \in Ops
    BY <1>3 DEF Seqs, OpAt
  <2>2. F[m + 1] = F[m] + Delta(OpAt(j, m))
    BY <1>1, <2>1 DEF Measures
  <2>3. ReplayTo(d, j, m) \in Seq(Bytes)
    BY <2>1, ReplayNext
  <2>4. ReplayTo(d, j, m + 1) = Apply(ReplayTo(d, j, m), OpAt(j, m))
    BY <2>1, ReplayOp
  <2>5. Len(ReplayTo(d, j, m + 1)) = Len(ReplayTo(d, j, m)) + Delta(OpAt(j, m))
    BY <2>1, <2>3, <2>4, ApplyLength DEF StaysInside
  <2> QED BY <2>1, <2>2, <2>5
<1>4. \A m \in Nat : m \in S
  <2> HIDE DEF S
  <2> QED BY <1>2, <1>3, Inductive
<1> QED BY <1>1, <1>4

-----------------------------------------------------------------------------
(* Carrying a range through the journal.                                   *)

Walks == [lo : Points, hi : Points, bad : Int]

InsideWalk(j, w, n) == Inside(j, w.lo, n) /\ Inside(j, w.hi, n)

LEMMA InsideMore ==
  ASSUME NEW j, NEW p \in Points, NEW n \in Nat, NEW m \in Nat, n <= m, Inside(j, p, n)
  PROVE  Inside(j, p, m)
<1>1. p.at \in Nat
  BY DEF Points
<1>2. CASE p.held
  BY <1>2, Zenon DEF Inside
<1>3. ASSUME ~p.held PROVE Inside(j, p, m)
  <2>1. p.at <= n
    BY <1>3, Zenon DEF Inside
  <2>2. p.at <= m
    BY <1>1, <2>1
  <2> QED BY <1>3, <2>2, Zenon DEF Inside
<1> QED BY <1>2, <1>3

\* One op of the walk.
LEMMA WalkStep ==
  ASSUME NEW j, Numbered(j), TurnedRound(j), NEW live, NEW s \in Seqs(j),
         NEW w \in Walks, NEW n \in Nat, InsideWalk(j, w, n),
         OpAt(j, s).pos + DelLen(OpAt(j, s)) <= n
  PROVE  LET o == OpAt(j, s)
             c == Carried(j, live, w, o)
         IN  /\ c \in Walks /\ n + Delta(o) \in Nat
             /\ InsideWalk(j, c, n) \/ InsideWalk(j, c, n + Delta(o))
             /\ c.bad = Whole => w.bad = Whole /\ InsideWalk(j, c, n + Delta(o))
<1> DEFINE o == OpAt(j, s)
           c == Carried(j, live, w, o)
           empty == ~w.lo.held /\ ~w.hi.held /\ w.lo.at = w.hi.at
           a == Carry(j, live, w.lo, o, TRUE)
           b == Carry(j, live, w.hi, o, empty)
<1>1. w.lo \in Points /\ w.hi \in Points /\ w.bad \in Int
      /\ w = [lo |-> w.lo, hi |-> w.hi, bad |-> w.bad]
  BY DEF Walks
<1>2. o.seq = s /\ s \in Nat /\ Delta(o) \in Int /\ n + Delta(o) \in Nat
  <2>1. o.seq = s /\ s \in Nat /\ o.pos \in Nat /\ DelLen(o) \in Nat /\ InsLen(o) \in Nat
    BY OpShape
  <2>2. Delta(o) = InsLen(o) - DelLen(o) /\ o.pos + DelLen(o) <= n
    BY DEF Delta
  <2> HIDE DEF o
  <2> QED BY <2>1, <2>2
<1>3. CASE w.bad # Whole
  <2>1. c = w
    BY <1>3 DEF Carried
  <2> QED BY <1>2, <1>3, <2>1
<1>4. CASE w.bad = Whole /\ Damages(live, o, w.lo, w.hi)
  <2>1. c = [w EXCEPT !.bad = o.seq]
    BY <1>4 DEF Carried
  <2> HIDE DEF c, o
  <2>2. c = [lo |-> w.lo, hi |-> w.hi, bad |-> s]
    BY <1>1, <1>2, <2>1
  <2>3. c \in Walks /\ c.lo = w.lo /\ c.hi = w.hi /\ c.bad # Whole
    BY <1>1, <1>2, <2>2 DEF Walks, Whole
  <2>4. InsideWalk(j, c, n)
    BY <2>3 DEF InsideWalk
  <2> QED BY <1>2, <2>3, <2>4 DEF o, c
<1>5. CASE w.bad = Whole /\ ~Damages(live, o, w.lo, w.hi)
  <2>1. c = [w EXCEPT !.lo = a, !.hi = b]
    BY <1>5 DEF Carried
  <2>2. a \in Points /\ Inside(j, a, n + Delta(o))
    BY <1>1, CarryShape DEF InsideWalk
  <2>3. b \in Points /\ Inside(j, b, n + Delta(o))
    <3> DEFINE e == empty
    <3>1. b = Carry(j, live, w.hi, o, e)
      OBVIOUS
    <3> HIDE DEF e
    <3> QED BY <1>1, CarryShape DEF InsideWalk
  <2> HIDE DEF a, b, c, o
  <2>4. c = [lo |-> a, hi |-> b, bad |-> Whole]
    BY <1>1, <1>5, <2>1
  <2>5. c \in Walks /\ c.lo = a /\ c.hi = b
    BY <2>2, <2>3, <2>4 DEF Walks, Whole
  <2> QED BY <1>2, <1>5, <2>2, <2>3, <2>5 DEF InsideWalk, o, c
<1> QED BY <1>3, <1>4, <1>5

LEMMA SuffixOf ==
  ASSUME NEW R, NEW j \in Seq(R), NEW base \in 0 .. Len(j)
  PROVE  /\ DOMAIN SubSeq(j, base + 1, Len(j)) = 1 .. (Len(j) - base)
         /\ \A i \in 1 .. (Len(j) - base) :
               /\ base + i - 1 \in Seqs(j)
               /\ SubSeq(j, base + 1, Len(j))[i] = OpAt(j, base + i - 1)
<1>1. base \in Nat /\ Len(j) \in Nat
  OBVIOUS
<1>2. /\ DOMAIN SubSeq(j, base + 1, Len(j)) = 1 .. (Len(j) - base)
      /\ \A i \in 1 .. (Len(j) - base) : SubSeq(j, base + 1, Len(j))[i] = j[base + i]
  BY <1>1, SMT
<1>3. \A i \in 1 .. (Len(j) - base) : base + i - 1 \in Seqs(j) /\ (base + i - 1) + 1 = base + i
  BY <1>1 DEF Seqs
<1> QED BY <1>2, <1>3 DEF OpAt

Start(lo, hi) == [lo |-> PointAt(lo), hi |-> PointAt(hi), bad |-> Whole]

\* The states of a walk over the ops from number base on.
Walked(F, j, w, base) ==
    /\ F[0] = w
    /\ \A i \in 1 .. (Len(j) - base) :
          F[i] = Carried(j, InEffect(j), F[i - 1], OpAt(j, base + i - 1))

LEMMA StartInside ==
  ASSUME NEW j, NEW lo \in Nat, NEW hi \in Nat, NEW n \in Nat, lo <= n, hi <= n
  PROVE  Start(lo, hi) \in Walks /\ InsideWalk(j, Start(lo, hi), n)
<1>1. ASSUME NEW p \in Nat, p <= n PROVE PointAt(p) \in Points /\ Inside(j, PointAt(p), n)
  <2>1. PointAt(p) \in Points /\ PointAt(p).held = FALSE /\ PointAt(p).at = p
    BY DEF PointAt, Points
  <2> QED BY <1>1, <2>1, Zenon DEF Inside
<1> DEFINE a == PointAt(lo)
           b == PointAt(hi)
<1>2. a \in Points /\ Inside(j, a, n) /\ b \in Points /\ Inside(j, b, n)
  BY <1>1
<1> HIDE DEF a, b
<1>3. [lo |-> a, hi |-> b, bad |-> Whole] \in Walks
      /\ InsideWalk(j, [lo |-> a, hi |-> b, bad |-> Whole], n)
  BY <1>2 DEF Walks, InsideWalk, Whole
<1> QED BY <1>3 DEF Start, a, b

LEMMA WalkRuns ==
  ASSUME NEW j, Numbered(j), TurnedRound(j), NEW base \in 0 .. Len(j),
         NEW lo \in Nat, NEW hi \in Nat
  PROVE  \E F : Walked(F, j, Start(lo, hi), base)
                /\ Rebase(j, lo, hi, base) = Landing(F[Len(j) - base])
<1> DEFINE m == Len(j) - base
           q == SubSeq(j, base + 1, Len(j))
           live == InEffect(j)
           w0 == Start(lo, hi)
           X == {w \in Walks : \E n \in Nat : InsideWalk(j, w, n)}
           f == [z \in X \X (1 .. m) |-> Carried(j, live, z[1], q[z[2]])]
           Body(g) == [s \in SUBSET (1 .. m) |->
                          IF s = {} THEN w0 ELSE Carried(j, live, g[s \ {Max(s)}], q[Max(s)])]
           K == CHOOSE g : g = Body(g)
           F == [i \in 0 .. m |-> K[1 .. i]]
<1>1. /\ m \in Nat /\ DOMAIN q = 1 .. m
      /\ \A i \in 1 .. m : base + i - 1 \in Seqs(j) /\ q[i] = OpAt(j, base + i - 1)
  <2>1. j \in Seq(Ops) /\ m \in Nat
    BY DEF Numbered
  <2> QED BY <2>1, SuffixOf
<1>2. Rebase(j, lo, hi, base) = Landing(K[1 .. m])
  <2>1. ~(base > Len(j))
    BY <1>1
  <2> QED BY <1>1, <2>1 DEF Rebase, FoldLeft, MapThenFoldSet, Start
<1> HIDE DEF q, m, live, w0
<1>3. ASSUME NEW w \in X, NEW i \in 1 .. m PROVE Carried(j, live, w, q[i]) \in X
  <2> DEFINE s == base + i - 1
             o == OpAt(j, s)
             c == Carried(j, live, w, o)
  <2>1. s \in Seqs(j) /\ q[i] = o
    BY <1>1
  <2> HIDE DEF s
  <2>2. PICK n \in Nat : InsideWalk(j, w, n)
    OBVIOUS
  <2>3. w \in Walks /\ w.lo \in Points /\ w.hi \in Points
    BY DEF Walks
  <2>4. o.pos \in Nat /\ DelLen(o) \in Nat
    BY <2>1, OpShape
  <2> DEFINE N == n + (o.pos + DelLen(o))
  <2>5. N \in Nat /\ n <= N /\ o.pos + DelLen(o) <= N
    <3> HIDE DEF o
    <3> QED BY <2>4
  <2> HIDE DEF N
  <2>6. InsideWalk(j, w, N)
    BY <2>2, <2>3, <2>5, InsideMore DEF InsideWalk
  <2>7. /\ c \in Walks /\ N + Delta(o) \in Nat
        /\ InsideWalk(j, c, N) \/ InsideWalk(j, c, N + Delta(o))
    BY <2>1, <2>3, <2>5, <2>6, WalkStep
  <2> HIDE DEF c, o
  <2>8. c \in X
    BY <2>5, <2>7
  <2> QED BY <2>1, <2>8 DEF c
<1>4. w0 \in X
  <2>1. lo + hi \in Nat /\ lo <= lo + hi /\ hi <= lo + hi
    OBVIOUS
  <2>2. w0 \in Walks /\ InsideWalk(j, w0, lo + hi)
    BY <2>1, StartInside DEF w0
  <2> QED BY <2>1, <2>2
<1> HIDE DEF X
<1>5. f \in [X \X (1 .. m) -> X]
  BY <1>3
<1>6. \E g : g = Body(g)
  <2> HIDE DEF f, K
  <2>1. PICK g : LeftTable(g, m, X, w0, f)
    BY <1>1, <1>4, <1>5, FoldLeftTable, Zenon
  <2>2. ASSUME NEW s \in SUBSET (1 .. m), s # {}
        PROVE  f[<<g[s \ {Max(s)}], Max(s)>>] = Carried(j, live, g[s \ {Max(s)}], q[Max(s)])
    <3>1. s \ {Max(s)} \in SUBSET (1 .. m) /\ Max(s) \in 1 .. m
      BY <1>1, <2>2, TopOfSet
    <3>2. g[s \ {Max(s)}] \in X
      BY <2>1, <3>1 DEF LeftTable
    <3> QED BY <3>1, <3>2 DEF f
  <2>3. g = [s \in SUBSET (1 .. m) |-> g[s]]
    BY <2>1, Zenon DEF LeftTable
  <2>4. \A s \in SUBSET (1 .. m) :
           g[s] = IF s = {} THEN w0 ELSE Carried(j, live, g[s \ {Max(s)}], q[Max(s)])
    BY <2>1, <2>2, Zenon DEF LeftTable
  <2>5. g = Body(g)
    BY <2>3, <2>4, Zenon
  <2> QED BY <2>5
<1>7. K = Body(K)
  BY <1>6
<1> HIDE DEF K, f
<1>8. \A s \in SUBSET (1 .. m) :
           K[s] = IF s = {} THEN w0 ELSE Carried(j, live, K[s \ {Max(s)}], q[Max(s)])
  BY <1>7, Zenon
<1>9. F[0] = w0
  <2>1. 0 \in 0 .. m /\ 1 .. 0 = {}
    BY <1>1
  <2> QED BY <1>8, <2>1
<1>10. \A i \in 1 .. m : F[i] = Carried(j, live, F[i - 1], OpAt(j, base + i - 1))
  <2> SUFFICES ASSUME NEW i \in 1 .. m
               PROVE  F[i] = Carried(j, live, F[i - 1], OpAt(j, base + i - 1))
    OBVIOUS
  <2>1. i \in 0 .. m /\ i - 1 \in 0 .. m
    BY <1>1
  <2>2. /\ Max(1 .. i) = i /\ (1 .. i) \ {i} = 1 .. (i - 1)
        /\ 1 .. i # {} /\ (1 .. i) \in SUBSET (1 .. m)
    BY <1>1, TopOfInitial
  <2>3. K[1 .. i] = Carried(j, live, K[1 .. (i - 1)], q[i])
    BY <1>8, <2>2, Zenon
  <2> QED BY <1>1, <2>1, <2>3
<1>11. F[m] = K[1 .. m]
  BY <1>1
<1> HIDE DEF F
<1> QED BY <1>2, <1>9, <1>10, <1>11 DEF Walked, m, live, w0

LEMMA LandingShape ==
  ASSUME NEW j, NEW w \in Walks, NEW n \in Nat, w.bad = Whole => InsideWalk(j, w, n)
  PROVE  /\ Landing(w).lo \in Nat /\ Landing(w).hi \in Nat
         /\ Landing(w).ok => Landing(w).lo <= n /\ Landing(w).hi <= n
<1>1. w.lo.at \in Nat /\ w.hi.at \in Nat
  BY DEF Walks, Points
<1>2. \A x : ~Lost(x).ok /\ Lost(x).lo = 0 /\ Lost(x).hi = 0
  BY DEF Lost
<1>3. CASE w.bad # Whole \/ w.lo.held \/ w.hi.held
  <2>1. \E x : Landing(w) = Lost(x)
    BY <1>3, Zenon DEF Landing
  <2> QED BY <1>2, <2>1
<1>4. CASE ~(w.bad # Whole \/ w.lo.held \/ w.hi.held)
  <2>1. Landing(w) = [ok |-> TRUE, lo |-> w.lo.at, hi |-> w.hi.at, at |-> 0]
    BY <1>4, Zenon DEF Landing
  <2>2. w.lo.at <= n /\ w.hi.at <= n
    BY <1>4, Zenon DEF InsideWalk, Inside
  <2>3. Landing(w).lo = w.lo.at /\ Landing(w).hi = w.hi.at
    BY <2>1
  <2> QED BY <1>1, <2>2, <2>3
<1> QED BY <1>3, <1>4

\* A range of an old document, carried to the present, is inside today's, or it is
\* reported lost.
LEMMA RebaseInside ==
  ASSUME NEW d \in Seq(Bytes), NEW j, Numbered(j), TurnedRound(j), StaysInside(d, j),
         NEW base \in 0 .. Len(j), NEW lo \in Nat, NEW hi \in Nat,
         lo <= Len(ReplayTo(d, j, base)), hi <= Len(ReplayTo(d, j, base))
  PROVE  LET r == Rebase(j, lo, hi, base)
         IN  /\ r.lo \in Nat /\ r.hi \in Nat
             /\ r.ok => /\ r.lo <= Len(ReplayTo(d, j, Len(j)))
                        /\ r.hi <= Len(ReplayTo(d, j, Len(j)))
<1> DEFINE L == [s \in 0 .. Len(j) |-> Len(ReplayTo(d, j, s))]
           m == Len(j) - base
           live == InEffect(j)
<1>1. j \in Seq(Ops) /\ Len(j) \in Nat /\ base \in Nat /\ m \in Nat /\ base + m = Len(j)
  BY DEF Numbered
<1>2. \A s \in 0 .. Len(j) : L[s] \in Nat
  BY <1>1, ReplayNext
<1>3. ASSUME NEW s \in Seqs(j)
      PROVE  /\ OpAt(j, s).pos + DelLen(OpAt(j, s)) <= L[s]
             /\ L[s + 1] = L[s] + Delta(OpAt(j, s))
  <2>1. OpAt(j, s) \in Ops
    BY OpShape
  <2>2. /\ s \in 0 .. Len(j) /\ s + 1 \in 0 .. Len(j)
        /\ ReplayTo(d, j, s + 1) = Apply(ReplayTo(d, j, s), OpAt(j, s))
    BY <1>1, ReplayOp
  <2>3. ReplayTo(d, j, s) \in Seq(Bytes)
    BY <1>1, <2>2, ReplayNext
  <2>4. Len(ReplayTo(d, j, s + 1)) = Len(ReplayTo(d, j, s)) + Delta(OpAt(j, s))
    BY <2>1, <2>2, <2>3, ApplyLength DEF StaysInside
  <2> QED BY <2>2, <2>4 DEF StaysInside
<1>4. PICK F : Walked(F, j, Start(lo, hi), base)
               /\ Rebase(j, lo, hi, base) = Landing(F[m])
  BY WalkRuns
<1>5. lo <= L[base] /\ hi <= L[base]
  BY <1>1
<1>6. L[Len(j)] = Len(ReplayTo(d, j, Len(j)))
  BY <1>1
<1> HIDE DEF L, m
<1> DEFINE Fine(i) == F[i] \in Walks /\ (F[i].bad = Whole => InsideWalk(j, F[i], L[base + i]))
           S == {i \in Nat : i <= m => Fine(i)}
<1>7. 0 \in S
  <2>1. base + 0 = base /\ L[base] \in Nat
    BY <1>1, <1>2
  <2>2. Start(lo, hi) \in Walks /\ InsideWalk(j, Start(lo, hi), L[base])
    BY <1>5, <2>1, StartInside
  <2> QED BY <1>4, <2>1, <2>2 DEF Walked
<1>8. ASSUME NEW i \in Nat, i \in S PROVE i + 1 \in S
  <2> SUFFICES ASSUME i + 1 <= m PROVE Fine(i + 1)
    OBVIOUS
  <2> DEFINE s == base + i
             w == F[i]
             o == OpAt(j, s)
  <2>1. Fine(i)
    <3>1. i <= m
      BY <1>1
    <3> QED BY <1>8, <3>1
  <2>2. /\ s \in Seqs(j) /\ s \in 0 .. Len(j) /\ i + 1 \in 1 .. m
        /\ (i + 1) - 1 = i /\ base + (i + 1) - 1 = s /\ base + (i + 1) = s + 1
    BY <1>1 DEF Seqs
  <2>3. F[i + 1] = Carried(j, live, w, o)
    BY <1>4, <2>2, Zenon DEF Walked, m
  <2>4. L[s] \in Nat /\ o.pos + DelLen(o) <= L[s] /\ L[s + 1] = L[s] + Delta(o)
    BY <1>2, <1>3, <2>2
  <2>5. CASE w.bad # Whole
    <3>1. F[i + 1] = w
      BY <2>3, <2>5 DEF Carried
    <3> QED BY <2>1, <2>5, <3>1
  <2>6. CASE w.bad = Whole
    <3> DEFINE c == Carried(j, live, w, o)
    <3>1. w \in Walks /\ InsideWalk(j, w, L[s])
      BY <2>1, <2>6
    <3>2. c \in Walks /\ (c.bad = Whole => InsideWalk(j, c, L[s] + Delta(o)))
      <4> HIDE DEF w, s, live
      <4> QED BY <2>2, <2>4, <3>1, WalkStep
    <3> HIDE DEF c, o
    <3> QED BY <2>2, <2>3, <2>4, <3>2 DEF c
  <2> QED BY <2>5, <2>6
<1>9. \A i \in Nat : i \in S
  <2> HIDE DEF S
  <2> QED BY <1>7, <1>8, Inductive
<1>10. Fine(m)
  BY <1>1, <1>9
<1>11. L[Len(j)] \in Nat
  BY <1>1, <1>2
<1>12. /\ Landing(F[m]).lo \in Nat /\ Landing(F[m]).hi \in Nat
       /\ Landing(F[m]).ok => Landing(F[m]).lo <= L[Len(j)] /\ Landing(F[m]).hi <= L[Len(j)]
  BY <1>1, <1>10, <1>11, LandingShape
<1> QED BY <1>4, <1>6, <1>12

-----------------------------------------------------------------------------
(* The invariant.                                                          *)

\* Every op fits into the document it is applied to.
OpsStayInside == StaysInside(Base, journal)

Text ==
    /\ journal \in Seq(Ops)
    /\ doc = ReplayTo(Base, journal, Version)
    /\ TurnedRound(journal)
    /\ OpsStayInside
    /\ work.on = "diff" => work.base \in 0 .. Version

HInv == IInv /\ DataTyped /\ Text

\* An op that may be committed now.
Fits(o) ==
    /\ o \in Ops
    /\ o.pos + DelLen(o) <= Len(doc)
    /\ o.kind # "edit" => /\ o.undoes \in Seqs(journal)
                          /\ o.ins = OpAt(journal, o.undoes).del
                          /\ o.del = OpAt(journal, o.undoes).ins

LEMMA BaseTyped == Base \in Seq(Bytes)
<1> DEFINE T == BaseText
<1>1. T \in Seq(ToSet(T))
  BY TextsAssumption
<1>2. Len(T) \in Nat /\ \A i \in 1 .. Len(T) : T[i] \in ToSet(T)
  BY <1>1
<1>3. \A i \in 1 .. Len(T) : [a |-> Original, i |-> i - 1, c |-> T[i]] \in Bytes
  BY <1>2 DEF Bytes
<1> QED BY <1>2, <1>3 DEF Base

LEMMA AppendedTyped ==
  ASSUME store \in [Writers -> Nat], NEW a \in Writers, NEW text \in Texts \cup {<<>>}
  PROVE  Appended(a, text) \in Seq(Bytes)
<1>1. CASE text = <<>>
  <2>1. Len(text) = 0
    BY <1>1
  <2>2. Appended(a, text) = <<>>
    BY <2>1 DEF Appended
  <2> QED BY <2>2
<1>2. CASE text \in Texts
  <2>1. text \in Seq(ToSet(text))
    BY <1>2, TextsAssumption
  <2>2. Len(text) \in Nat /\ \A i \in 1 .. Len(text) : text[i] \in ToSet(text)
    BY <2>1
  <2>3. \A i \in 1 .. Len(text) : text[i] \in UNION {ToSet(t) : t \in Texts}
    BY <1>2, <2>2
  <2>4. store[a] \in Nat
    OBVIOUS
  <2>5. \A i \in 1 .. Len(text) : [a |-> a, i |-> store[a] + i - 1, c |-> text[i]] \in Bytes
    BY <2>2, <2>3, <2>4 DEF Bytes
  <2> QED BY <2>2, <2>5 DEF Appended
<1> QED BY <1>1, <1>2

LEMMA TextShape ==
  ASSUME IInv, Text
  PROVE  /\ Version \in Nat /\ Numbered(journal)
         /\ \A v \in 0 .. Version : DocAt(v) \in Seq(Bytes)
         /\ doc \in Seq(Bytes) /\ Len(doc) \in Nat
<1>1. journal \in Seq(Ops) /\ Version \in Nat /\ Version \in 0 .. Version /\ Version = Len(journal)
  BY DEF Text, Version
<1>2. Numbered(journal)
  BY <1>1 DEF Numbered, IInv, Log, JournalWellFormed
<1>3. \A v \in 0 .. Version : DocAt(v) \in Seq(Bytes)
  BY <1>1, BaseTyped, ReplayNext DEF DocAt
<1>4. doc \in Seq(Bytes)
  BY <1>1, <1>3 DEF Text, DocAt
<1> QED BY <1>1, <1>2, <1>3, <1>4

\* Committing an op that fits.
LEMMA CommitKeeps ==
  ASSUME IInv, Text, NEW o, Fits(o), NEW join \in Nat, Commit(o, join),
         work'.on = "diff" => work.on = "diff" /\ work'.base = work.base
  PROVE  Text'
<1> DEFINE g == IF join # 0 THEN join ELSE IF depth = 0 THEN group + 1 ELSE group
           op == [o EXCEPT !.seq = Version, !.group = g]
           k == Append(journal, op)
<1>1. journal' = k /\ doc' = Apply(doc, op)
  BY DEF Commit
<1>2. /\ Version \in Nat /\ Version = Len(journal) /\ journal \in Seq(Ops)
      /\ doc \in Seq(Bytes) /\ Numbered(journal)
  BY TextShape DEF Text, Version
<1>3. g \in Nat
  BY DEF IInv, Log
<1>4. /\ op \in Ops /\ op.pos = o.pos /\ op.del = o.del /\ op.ins = o.ins
      /\ op.kind = o.kind /\ op.undoes = o.undoes
  <2> HIDE DEF g
  <2> QED BY <1>2, <1>3 DEF Fits, Ops
<1>5. DelLen(op) = DelLen(o)
  BY <1>4 DEF DelLen
<1> HIDE DEF op
<1>6. /\ k \in Seq(Ops) /\ Len(k) = Version + 1
      /\ Seqs(k) = Seqs(journal) \cup {Version}
      /\ \A s \in Seqs(journal) : OpAt(k, s) = OpAt(journal, s)
      /\ OpAt(k, Version) = op
  <2>1. k \in Seq(Ops) /\ Len(k) = Version + 1
    BY <1>2, <1>4
  <2>2. /\ \A i \in 1 .. Version : k[i] = journal[i]
        /\ k[Version + 1] = op
    BY <1>2, <1>4
  <2> HIDE DEF k
  <2>3. Seqs(k) = Seqs(journal) \cup {Version} /\ \A s \in Seqs(journal) : s + 1 \in 1 .. Version
    BY <1>2, <2>1 DEF Seqs
  <2> QED BY <2>1, <2>2, <2>3 DEF OpAt
<1>7. \A n \in 0 .. Version : ReplayTo(Base, k, n) = ReplayTo(Base, journal, n)
  BY <1>2, <1>4, BaseTyped, ReplayOfPrefix
<1> HIDE DEF k
<1>8. ReplayTo(Base, k, Version + 1) = Apply(doc, op)
  <2>1. Version \in Seqs(k)
    BY <1>6
  <2>2. ReplayTo(Base, k, Version + 1) = Apply(ReplayTo(Base, k, Version), OpAt(k, Version))
    BY <1>6, <2>1, BaseTyped, ReplayOp
  <2>3. ReplayTo(Base, k, Version) = doc
    BY <1>2, <1>7 DEF Text
  <2> QED BY <1>6, <2>2, <2>3
<1>9. StaysInside(Base, k)
  <2> SUFFICES ASSUME NEW s \in Seqs(k)
               PROVE  OpAt(k, s).pos + DelLen(OpAt(k, s)) <= Len(ReplayTo(Base, k, s))
    BY DEF StaysInside
  <2>1. CASE s \in Seqs(journal)
    <3>1. s \in 0 .. Version
      BY <1>2, <2>1 DEF Seqs
    <3> QED BY <1>6, <1>7, <2>1, <3>1 DEF Text, OpsStayInside, StaysInside
  <2>2. CASE s = Version
    <3>1. ReplayTo(Base, k, Version) = doc
      BY <1>2, <1>7 DEF Text
    <3> QED BY <1>4, <1>5, <1>6, <2>2, <3>1 DEF Fits
  <2> QED BY <1>6, <2>1, <2>2
<1>10. TurnedRound(k)
  <2> SUFFICES ASSUME NEW s \in Seqs(k), OpAt(k, s).kind # "edit"
               PROVE  /\ OpAt(k, s).ins = OpAt(k, OpAt(k, s).undoes).del
                      /\ OpAt(k, s).del = OpAt(k, OpAt(k, s).undoes).ins
    BY DEF TurnedRound
  <2>1. CASE s \in Seqs(journal)
    <3>1. OpAt(k, s) = OpAt(journal, s)
      BY <1>6, <2>1
    <3>2. OpAt(journal, s).undoes \in Seqs(journal)
      <4>1. OpAt(journal, s).undoes \in 0 .. (s - 1)
        BY <2>1, <3>1 DEF IInv, Log, JournalWellFormed
      <4> QED BY <1>2, <2>1, <4>1 DEF Seqs
    <3> QED BY <1>6, <2>1, <3>1, <3>2 DEF Text, TurnedRound
  <2>2. CASE s = Version
    BY <1>4, <1>6, <2>2 DEF Fits
  <2> QED BY <1>6, <2>1, <2>2
<1>11. Version' = Version + 1
  BY <1>1, <1>6 DEF Version
<1>12. work'.on = "diff" => work'.base \in 0 .. Version'
  BY <1>2, <1>11 DEF Text
<1> QED BY <1>1, <1>6, <1>8, <1>9, <1>10, <1>11, <1>12 DEF Text, OpsStayInside, Base

LEMMA EditFits ==
  ASSUME IInv, Text, NEW a \in Writers, NEW pos \in Nat, NEW del \in Seq(Bytes),
         NEW ins \in Seq(Bytes), pos + Len(del) <= Len(doc)
  PROVE  Fits(Edit(a, pos, del, ins))
<1> DEFINE o == Edit(a, pos, del, ins)
<1>1. /\ o.pos = pos /\ o.del = del /\ o.kind = "edit"
      /\ o = [seq |-> Version, author |-> a, pos |-> pos, del |-> del, ins |-> ins,
              undoes |-> 0, group |-> group, kind |-> "edit"]
  BY DEF Edit
<1>2. Version \in Nat /\ group \in Nat /\ "edit" \in Kinds
  BY TextShape DEF IInv, Log, Kinds
<1> HIDE DEF o
<1>3. o \in Ops
  BY <1>1, <1>2 DEF Ops
<1> QED BY <1>1, <1>3 DEF Fits, DelLen, o

\* What leaves the journal alone.
LEMMA TextKept ==
  ASSUME Text, journal' = journal, doc' = doc \/ doc' = DocAt(Version),
         work'.on = "diff" => work'.base \in 0 .. Version
  PROVE  Text'
<1>1. Version' = Version
  BY DEF Version
<1>2. doc' = ReplayTo(Base, journal, Version)
  BY DEF Text, DocAt
<1>3. OpsStayInside'
  BY DEF Text, OpsStayInside, Base
<1> QED BY <1>1, <1>2, <1>3 DEF Text, Base

\* A clip holds bytes of documents there have been.
LEMMA CapturedTyped ==
  ASSUME HInv, NEW clip \in Captured
  PROVE  clip \in Seq(Bytes)
<1>1. PICK v \in 0 .. Version : \E r \in Ranges(Len(ReplayTo(Base, journal, v))) :
          clip = SubSeq(ReplayTo(Base, journal, v), r[1] + 1, r[2])
  BY DEF Captured
<1> DEFINE d == ReplayTo(Base, journal, v)
<1>2. PICK r \in (0 .. Len(d)) \X (0 .. Len(d)) : clip = SubSeq(d, r[1] + 1, r[2])
  BY <1>1 DEF Ranges
<1>3. d \in Seq(Bytes)
  BY BaseTyped, ReplayNext DEF HInv, Text, Version
<1> HIDE DEF d
<1>4. r[1] + 1 \in Nat \ {0} /\ r[2] \in Int /\ r[2] <= Len(d)
  BY <1>2, <1>3
<1> QED BY <1>2, <1>3, <1>4, SubSeqShape

\* A stroke at the keyboard.
LEMMA TypingKeepsText ==
  ASSUME HInv, Typing
  PROVE  Text'
<1>1. /\ doc \in Seq(Bytes) /\ Len(doc) \in Nat /\ Version \in Nat
      /\ store \in [Writers -> Nat] /\ Text /\ IInv
  BY TextShape DEF HInv, DataTyped
<1>2. PICK h \in Humans : Insert(h) \/ Delete(h) \/ Paste(h) \/ BeginAction(h)
  BY DEF Typing
<1>3. h \in Writers /\ 0 \in Nat
  BY DEF Writers
<1>4. ASSUME NEW move, Typist(h, move) PROVE work'.on # "diff"
  <2>1. CASE work = Idle /\ work' = work
    BY <2>1 DEF Idle
  <2>2. CASE work.on = "action" /\ work' = [work EXCEPT !.left = @ - 1]
    <3>1. work \in [on : {"action"}, by : Humans, left : {work.left}]
      BY <1>1, <2>2, DepthOf DEF IInv
    <3> QED BY <2>2, <3>1
  <2> QED BY <1>4, <2>1, <2>2 DEF Typist, Ready, Free
<1>5. CASE Insert(h)
  <2>1. PICK pos \in 0 .. Len(doc), text \in Texts :
            /\ Typist(h, "type")
            /\ Commit(Edit(h, pos, <<>>, Appended(h, text)), 0)
    BY <1>5 DEF Insert
  <2>2. Appended(h, text) \in Seq(Bytes)
    BY <1>1, <1>3, AppendedTyped
  <2>3. pos \in Nat /\ pos + Len(<<>>) <= Len(doc) /\ <<>> \in Seq(Bytes)
    BY <1>1
  <2>4. Fits(Edit(h, pos, <<>>, Appended(h, text)))
    BY <1>1, <1>3, <2>2, <2>3, EditFits
  <2>5. work'.on # "diff"
    BY <1>4, <2>1
  <2> QED BY <1>1, <1>3, <2>1, <2>4, <2>5, CommitKeeps
<1>6. CASE Delete(h)
  <2>1. PICK pos \in 0 .. (Len(doc) - 1), len \in 1 .. MaxCut :
            /\ Typist(h, "erase")
            /\ pos + len <= Len(doc)
            /\ Commit(Edit(h, pos, SubSeq(doc, pos + 1, pos + len), <<>>), 0)
    BY <1>6 DEF Delete
  <2>2. pos \in Nat /\ pos + 1 \in Nat \ {0} /\ pos + len \in Int /\ len \in Nat /\ 1 <= len
    BY <1>1, BoundsAssumption
  <2> DEFINE del == SubSeq(doc, pos + 1, pos + len)
             upto == pos + len
  <2>3. del \in Seq(Bytes)
        /\ Len(del) = IF pos + 1 <= pos + len THEN (pos + len) - (pos + 1) + 1 ELSE 0
    BY <1>1, <2>1, <2>2, SubSeqShape
  <2> HIDE DEF del
  <2>4. pos + Len(del) <= Len(doc) /\ <<>> \in Seq(Bytes)
    BY <1>1, <2>1, <2>2, <2>3
  <2>5. Fits(Edit(h, pos, del, <<>>))
    BY <1>1, <1>3, <2>2, <2>3, <2>4, EditFits
  <2>6. Commit(Edit(h, pos, del, <<>>), 0)
    BY <2>1 DEF del
  <2>7. work'.on # "diff"
    BY <1>4, <2>1
  <2> QED BY <1>1, <1>3, <2>5, <2>6, <2>7, CommitKeeps
<1>7. CASE Paste(h)
  <2>1. PICK pos \in 0 .. Len(doc), clip \in Captured :
            Typist(h, "paste") /\ Commit(Edit(h, pos, <<>>, clip), 0)
    BY <1>7 DEF Paste
  <2>2. clip \in Seq(Bytes)
    BY CapturedTyped
  <2>3. pos \in Nat /\ pos + Len(<<>>) <= Len(doc) /\ <<>> \in Seq(Bytes)
    BY <1>1
  <2>4. Fits(Edit(h, pos, <<>>, clip))
    BY <1>1, <1>3, <2>2, <2>3, EditFits
  <2>5. work'.on # "diff"
    BY <1>4, <2>1
  <2> QED BY <1>1, <1>3, <2>1, <2>4, <2>5, CommitKeeps
<1>8. CASE BeginAction(h)
  <2>1. UNCHANGED <<doc, journal>> /\ work'.on = "action"
    BY <1>8 DEF BeginAction
  <2> QED BY <1>1, <2>1, TextKept
<1> QED BY <1>2, <1>5, <1>6, <1>7, <1>8

\* The inverse of an op, where the walk put it.
LEMMA InverseFits ==
  ASSUME HInv, NEW s \in Seqs(journal), RebasedInverse(journal, doc, OpAt(journal, s)).ok
  PROVE  Fits(RebasedInverse(journal, doc, OpAt(journal, s)).op)
<1> DEFINE o == OpAt(journal, s)
           r == Rebase(journal, o.pos, o.pos + InsLen(o), o.seq + 1)
           op == RebasedInverse(journal, doc, o).op
<1>1. /\ Text /\ IInv /\ Numbered(journal) /\ TurnedRound(journal)
      /\ StaysInside(Base, journal) /\ doc \in Seq(Bytes) /\ Len(doc) \in Nat
      /\ doc = ReplayTo(Base, journal, Len(journal))
  BY TextShape DEF HInv, Text, OpsStayInside, Version
<1>2. /\ o \in Ops /\ o.seq = s /\ s \in Nat /\ o.pos \in Nat
      /\ DelLen(o) \in Nat /\ InsLen(o) \in Nat
      /\ o.del \in Seq(Bytes) /\ o.ins \in Seq(Bytes) /\ o.kind \in Kinds
  BY <1>1, OpShape
<1>3. o.pos + InsLen(o) <= Len(ReplayTo(Base, journal, s + 1)) /\ s + 1 \in 0 .. Len(journal)
  <2>1. /\ s \in 0 .. Len(journal) /\ s + 1 \in 0 .. Len(journal)
        /\ ReplayTo(Base, journal, s + 1) = Apply(ReplayTo(Base, journal, s), o)
    BY <1>1, BaseTyped, ReplayOp DEF Text
  <2>2. ReplayTo(Base, journal, s) \in Seq(Bytes)
    BY <1>1, <2>1, BaseTyped, ReplayNext DEF Text
  <2>3. o.pos + DelLen(o) <= Len(ReplayTo(Base, journal, s))
    BY <1>1 DEF StaysInside
  <2> DEFINE n == Len(ReplayTo(Base, journal, s))
  <2>4. Len(ReplayTo(Base, journal, s + 1)) = n + Delta(o) /\ n \in Nat
    BY <1>2, <2>1, <2>2, <2>3, ApplyLength
  <2> HIDE DEF n
  <2>5. o.pos + DelLen(o) <= n /\ Delta(o) = InsLen(o) - DelLen(o)
    BY <2>3 DEF n, Delta
  <2> HIDE DEF o
  <2>6. o.pos + InsLen(o) <= n + Delta(o)
    BY <1>2, <2>4, <2>5
  <2> QED BY <2>1, <2>4, <2>6
<1>4. r.lo \in Nat /\ r.hi \in Nat
  <2>1. o.pos + InsLen(o) \in Nat /\ o.pos <= o.pos + InsLen(o)
    <3> HIDE DEF o
    <3> QED BY <1>2
  <2> DEFINE lo == o.pos
             hi == o.pos + InsLen(o)
             v == s + 1
             n == Len(ReplayTo(Base, journal, v))
  <2>2. n \in Nat
    BY <1>1, <1>3, BaseTyped, ReplayNext DEF Text
  <2>3. lo \in Nat /\ hi \in Nat /\ v \in 0 .. Len(journal) /\ lo <= n /\ hi <= n
    <3>1. lo \in Nat /\ hi \in Nat /\ v \in 0 .. Len(journal) /\ lo <= hi /\ hi <= n
      BY <1>2, <1>3, <2>1
    <3> HIDE DEF lo, hi, v, n
    <3> QED BY <2>2, <3>1
  <2>4. r = Rebase(journal, lo, hi, v)
    BY <1>2
  <2>5. LET q == Rebase(journal, lo, hi, v) IN q.lo \in Nat /\ q.hi \in Nat
    <3> HIDE DEF lo, hi, v
    <3> QED BY <1>1, <2>3, BaseTyped, RebaseInside DEF n
  <2> QED BY <2>4, <2>5
<1>5. /\ op = [InverseOp(o) EXCEPT !.pos = r.lo]
      /\ r.hi - r.lo = InsLen(o) /\ r.hi <= Len(doc)
  BY DEF RebasedInverse, InverseAt
<1> HIDE DEF r, o, op
<1>6. /\ op.pos = r.lo /\ op.del = o.ins /\ op.ins = o.del /\ op.undoes = s
      /\ op \in Ops
  <2>1. {"undo", "redo"} \subseteq Kinds
    BY DEF Kinds
  <2> QED BY <1>2, <1>4, <1>5, <2>1 DEF InverseOp, Ops
<1>7. op.pos + DelLen(op) <= Len(doc)
  <2>1. DelLen(op) = InsLen(o)
    BY <1>6 DEF DelLen, InsLen
  <2> QED BY <1>1, <1>2, <1>4, <1>5, <1>6, <2>1
<1> QED BY <1>6, <1>7 DEF Fits, op, o

\* A hunk replaces what its range covers today.
LEMMA HunkKeepsText ==
  ASSUME HInv, Hunk
  PROVE  Text'
<1>1. /\ Text /\ IInv /\ Log /\ Numbered(journal) /\ TurnedRound(journal)
      /\ StaysInside(Base, journal) /\ doc \in Seq(Bytes) /\ Len(doc) \in Nat
      /\ journal \in Seq(Ops) /\ Version = Len(journal)
      /\ doc = ReplayTo(Base, journal, Len(journal)) /\ store \in [Writers -> Nat]
  BY TextShape DEF HInv, IInv, DataTyped, Text, OpsStayInside, Version
<1>2. /\ work.on = "diff" /\ work.base \in 0 .. Len(journal) /\ work.by \in Writers
      /\ work'.on = "diff" /\ work'.base = work.base
  <2>1. work.on = "diff" /\ work' = [work EXCEPT !.left = @ - 1]
    BY DEF Hunk
  <2>2. work \in [on : {"diff"}, by : Differs, base : {work.base},
                  left : {work.left}, from : {work.from}]
    BY <1>1, <2>1, DepthOf DEF IInv
  <2>3. Differs \subseteq Writers
    BY AuthorsAssumption DEF Writers
  <2> QED BY <1>1, <2>1, <2>2, <2>3 DEF Text
<1>3. PICK r \in Ranges(LengthAt(Base, journal, work.base)), text \in Texts \cup {<<>>} :
          Write(work.by, Placement(work.by, work.base, r[1], r[2], text), text)
  BY DEF Hunk
<1> DEFINE n == Len(ReplayTo(Base, journal, work.base))
           lo == r[1]
           hi == r[2]
           at == Rebase(journal, lo, hi, work.base)
           over == ProposedLeases(journal, doc, decided, at.lo, at.hi - at.lo)
           p == Placement(work.by, work.base, lo, hi, text)
<1>4. n \in Nat /\ lo \in Nat /\ hi \in Nat /\ lo <= n /\ hi <= n
  <2>1. LengthAt(Base, journal, work.base) = n
    BY <1>1, <1>2, BaseTyped, LengthOfReplay
  <2>2. n \in Nat
    BY <1>1, <1>2, BaseTyped, ReplayNext
  <2> HIDE DEF n
  <2>3. r \in (0 .. n) \X (0 .. n)
    BY <2>1 DEF Ranges
  <2> QED BY <2>2, <2>3
<1>5. /\ at.lo \in Nat /\ at.hi \in Nat
      /\ at.ok => at.lo <= Len(doc) /\ at.hi <= Len(doc)
  <2> HIDE DEF lo, hi
  <2> QED BY <1>1, <1>2, <1>4, BaseTyped, RebaseInside DEF n
<1>6. /\ p.why = Verdict(work.by, at, over, text) /\ p.pos = at.lo
      /\ p.del = SubSeq(doc, at.lo + 1, at.hi)
      /\ p.join = 0 \/ p.join \in Own(work.by, over)
  <2>1. p = Placed(work.by, at, over, text)
    BY DEF Placement
  <2> HIDE DEF p, at, over
  <2> QED BY <2>1 DEF Placed
<1>7. over \subseteq GroupIds(journal)
  BY <1>1, LeasesAreSets
<1> HIDE DEF n, lo, hi, at, over
<1>8. p.join \in Nat
  <2>1. p.join = 0 \/ p.join \in 1 .. group
    BY <1>1, <1>6, <1>7, AuthorOfSet DEF Own
  <2>2. group \in Nat
    BY <1>1 DEF Log
  <2> QED BY <2>1, <2>2
<1>9. Write(work.by, p, text)
  BY <1>3 DEF lo, hi
<1> HIDE DEF p
<1>10. CASE p.why # "lands"
  <2>1. UNCHANGED <<doc, journal>>
    BY <1>9, <1>10 DEF Write
  <2> QED BY <1>1, <1>2, <2>1, TextKept
<1>11. CASE p.why = "lands"
  <2>1. at.ok
    BY <1>6, <1>11 DEF Verdict
  <2> DEFINE ins == Appended(work.by, text)
             o == Edit(work.by, p.pos, p.del, ins)
  <2>2. Commit(o, p.join)
    BY <1>9, <1>11 DEF Write
  <2>3. ins \in Seq(Bytes)
    BY <1>1, <1>2, AppendedTyped
  <2>4. p.del \in Seq(Bytes)
        /\ Len(p.del) = IF at.lo + 1 <= at.hi THEN at.hi - (at.lo + 1) + 1 ELSE 0
    <3> DEFINE m == at.lo + 1
    <3>1. m \in Nat \ {0} /\ at.hi \in Int /\ at.hi <= Len(doc)
      BY <1>5, <2>1
    <3> HIDE DEF m
    <3>2. /\ SubSeq(doc, m, at.hi) \in Seq(Bytes)
          /\ Len(SubSeq(doc, m, at.hi)) = IF m <= at.hi THEN at.hi - m + 1 ELSE 0
      BY <1>1, <3>1, SubSeqShape
    <3> QED BY <1>6, <3>2 DEF m
  <2>5. p.pos \in Nat /\ p.pos + Len(p.del) <= Len(doc)
    BY <1>1, <1>5, <1>6, <2>1, <2>4
  <2> HIDE DEF ins
  <2>6. Fits(o)
    BY <1>1, <1>2, <2>3, <2>4, <2>5, EditFits
  <2> HIDE DEF o
  <2> QED BY <1>1, <1>2, <1>8, <2>2, <2>6, CommitKeeps
<1> QED BY <1>10, <1>11

\* A reversal commits inverses only, and only where they fit.
LEMMA ReversingKeepsText ==
  ASSUME HInv, ReverseMember \/ ReverseBlocked \/ RollbackMember
                 \/ EndFailed \/ EndReversal \/ NextReversal
  PROVE  Text'
<1>1. IInv /\ Log /\ Text
  BY DEF HInv, IInv
<1>2. /\ work.on = "reverse"
      /\ work \in [on : {"reverse"}, goal : {work.goal}, group : {work.group},
                   keep : {work.keep}, failed : {work.failed}, from : {work.from},
                   todo : SUBSET Seqs(journal), applied : SUBSET Seqs(journal),
                   queue : SUBSET Seqs(journal)]
  BY <1>1, DepthOf DEF IInv, ReverseMember, ReverseBlocked, RollbackMember, EndFailed,
                       EndReversal, NextReversal
<1>3. ASSUME NEW seqs \in SUBSET Seqs(journal), seqs # {},
             RebasedInverse(journal, doc, Newest(seqs)).ok,
             Commit(RebasedInverse(journal, doc, Newest(seqs)).op, 0),
             work'.on = "reverse"
      PROVE  Text'
  <2>1. Max(seqs) \in Seqs(journal)
    BY <1>1, <1>3, NewestExists
  <2>2. Fits(RebasedInverse(journal, doc, Newest(seqs)).op) /\ 0 \in Nat
    BY <1>3, <2>1, InverseFits DEF Newest
  <2>3. work'.on # "diff"
    BY <1>3
  <2> QED BY <1>1, <1>3, <2>2, <2>3, CommitKeeps
<1>4. CASE ReverseMember
  <2>1. /\ work.todo # {} /\ RebasedInverse(journal, doc, Newest(work.todo)).ok
        /\ Commit(RebasedInverse(journal, doc, Newest(work.todo)).op, 0)
        /\ work' = [work EXCEPT !.todo = Older(@), !.applied = @ \cup {Version}]
    BY <1>4 DEF ReverseMember
  <2>2. work'.on = "reverse" /\ work.todo \in SUBSET Seqs(journal)
    BY <1>2, <2>1
  <2> QED BY <1>3, <2>1, <2>2
<1>5. CASE RollbackMember
  <2>1. CASE /\ work.applied # {} /\ RebasedInverse(journal, doc, Newest(work.applied)).ok
             /\ Commit(RebasedInverse(journal, doc, Newest(work.applied)).op, 0)
             /\ work' = [work EXCEPT !.applied = Older(@)]
    <3>1. work'.on = "reverse" /\ work.applied \in SUBSET Seqs(journal)
      BY <1>2, <2>1
    <3> QED BY <1>3, <2>1, <3>1
  <2>2. CASE work' = [work EXCEPT !.applied = {}] /\ UNCHANGED <<doc, journal>>
    <3>1. work'.on = "reverse"
      BY <1>2, <2>2
    <3> QED BY <1>1, <2>2, <3>1, TextKept
  <2> QED BY <1>5, <2>1, <2>2 DEF RollbackMember
<1>6. CASE ReverseBlocked \/ EndFailed \/ EndReversal \/ NextReversal
  <2>1. UNCHANGED <<doc, journal>>
    BY <1>6 DEF ReverseBlocked, EndFailed, EndReversal, NextReversal
  <2>2. work'.on # "diff"
    <3>1. CASE ReverseBlocked
      <4>1. work' = [work EXCEPT !.failed = TRUE]
        BY <3>1 DEF ReverseBlocked
      <4> QED BY <1>2, <4>1
    <3>2. CASE EndFailed \/ EndReversal \/ NextReversal
      BY <3>2 DEF EndFailed, EndReversal, NextReversal, Idle, Reversal
    <3> QED BY <1>6, <3>1, <3>2
  <2> QED BY <1>1, <2>1, <2>2, TextKept
<1> QED BY <1>4, <1>5, <1>6

LEMMA InitText == Init => HInv
<1> SUFFICES ASSUME Init PROVE HInv
  OBVIOUS
<1>1. IInv /\ DataTyped
  BY InitInv DEF Init, DataTyped, States, NoDecisions
<1>2. /\ journal = <<>> /\ journal \in Seq(Ops) /\ Version = 0 /\ Seqs(journal) = {}
      /\ doc = Base /\ 0 \in 0 .. Len(journal) /\ work.on # "diff"
  BY DEF Init, Version, Seqs, Idle
<1>3. ReplayTo(Base, journal, 0) = Base
  BY <1>2, BaseTyped, ReplayNext
<1> QED BY <1>1, <1>2, <1>3 DEF HInv, Text, TurnedRound, OpsStayInside, StaysInside

LEMMA NextText == HInv /\ [Next]_vars => HInv'
<1> SUFFICES ASSUME HInv, [Next]_vars PROVE HInv'
  OBVIOUS
<1>1. IInv' /\ DataTyped'
  BY NextInv, StatesKept, StoreKept, DiskKept DEF HInv, DataTyped
<1>2. Text /\ IInv
  BY DEF HInv
<1>3. CASE Typing
  BY <1>1, <1>3, TypingKeepsText DEF HInv
<1>4. CASE Hunk
  BY <1>1, <1>4, HunkKeepsText DEF HInv
<1>5. CASE ReverseMember \/ ReverseBlocked \/ RollbackMember
             \/ EndFailed \/ EndReversal \/ NextReversal
  BY <1>1, <1>5, ReversingKeepsText DEF HInv
<1>6. CASE Diffing
  <2>1. PICK a \in Differs, base \in 0 .. Version :
            /\ work' = [on |-> "diff", by |-> a, base |-> base, left |-> MaxHunks,
                        from |-> Version]
            /\ UNCHANGED <<doc, journal>>
    BY <1>6 DEF Diffing, BeginDiff
  <2> QED BY <1>1, <1>2, <2>1, TextKept DEF HInv
<1>7. CASE History \/ ClearReversal \/ Reverting
  <2>1. UNCHANGED <<doc, journal>> /\ work'.on = "reverse"
    <3>1. ASSUME NEW goal, NEW g, NEW want, NEW keep, NEW queue,
                 StartReversal(goal, g, want, keep, queue)
          PROVE  UNCHANGED <<doc, journal>> /\ work'.on = "reverse"
      BY <3>1 DEF StartReversal, Reversal
    <3>2. \E goal, g, want, keep, queue : StartReversal(goal, g, want, keep, queue)
      <4>1. CASE History
        BY <4>1 DEF History, UndoRedo
      <4>2. CASE ClearReversal
        BY <4>2 DEF ClearReversal
      <4>3. CASE Reverting
        BY <4>3 DEF Reverting, Revert
      <4> QED BY <1>7, <4>1, <4>2, <4>3
    <3> QED BY <3>1, <3>2
  <2> QED BY <1>1, <1>2, <2>1, TextKept DEF HInv
<1>8. CASE EndAction \/ EndDiff
  <2>1. UNCHANGED <<doc, journal>> /\ work'.on = "idle"
    BY <1>8 DEF EndAction, EndDiff, Idle
  <2> QED BY <1>1, <1>2, <2>1, TextKept DEF HInv
<1>9. CASE Accept \/ Reject \/ ClearMark \/ Save \/ SaveFails \/ Restart
  <2>1. /\ journal' = journal /\ (doc' = doc \/ doc' = DocAt(Version)) /\ work' = work
    BY <1>9 DEF Accept, Reject, ClearMark, Save, SaveFails, Restart, DocAt
  <2> QED BY <1>1, <1>2, <2>1, TextKept DEF HInv, Text
<1>10. CASE UNCHANGED vars
  <2>1. UNCHANGED <<doc, journal, work>>
    BY <1>10 DEF vars
  <2> QED BY <1>1, <1>2, <2>1, TextKept DEF HInv, Text
<1> QED BY <1>3, <1>4, <1>5, <1>6, <1>7, <1>8, <1>9, <1>10 DEF Next, Continue

LEMMA TextAlways == Spec => []HInv
BY InitText, NextText, PTL DEF Spec

\* Every op of the journal, an undo placed by rebasing and a hunk carried over any
\* number of edits included, names a range of the document it is applied to: no
\* splice is ever cut short at the end of the text (Table.Apply clamps).
THEOREM OpsFitTheirDocument == Spec => []OpsStayInside
<1>1. HInv => OpsStayInside
  BY DEF HInv, Text
<1> QED BY <1>1, TextAlways, PTL

-----------------------------------------------------------------------------
(* Compositions.                                                           *)

\* The document with the given edits taken back out, newest first.
Without(j, d, out) ==
    FoldRight(LAMBDA o, comp : IF o.seq \in out THEN Unapply(j, comp, o) ELSE comp, j, d)

\* Leaving nothing out shows the document.
LEMMA NothingOut ==
  ASSUME NEW R, NEW j \in Seq(R), NEW d
  PROVE  Without(j, d, {}) = d
<1> DEFINE n == Len(j)
           X == {d}
           f == [z \in X \X (1 .. n) |-> d]
           Body(g) == [s \in SUBSET (1 .. n) |->
                          IF s = {} THEN d
                          ELSE IF j[Min(s)].seq \in {} THEN Unapply(j, g[s \ {Min(s)}], j[Min(s)])
                               ELSE g[s \ {Min(s)}]]
           K == CHOOSE g : g = Body(g)
<1>1. n \in Nat /\ DOMAIN j = 1 .. n
  BY SMT
<1>2. Without(j, d, {}) = K[1 .. n]
  BY <1>1 DEF Without, FoldRight, MapThenFoldSet
<1> HIDE DEF n, K
<1>3. \E g : RightTable(g, n, X, d, f)
  <2>1. d \in X /\ f \in [X \X (1 .. n) -> X]
    OBVIOUS
  <2> HIDE DEF X, f
  <2> QED BY <1>1, <2>1, FoldRightTable, Zenon
<1>4. PICK g : RightTable(g, n, X, d, f)
  BY <1>3
<1>5. \A s \in SUBSET (1 .. n) : g[s] = d
  BY <1>4 DEF RightTable
<1>6. g = [s \in SUBSET (1 .. n) |-> g[s]]
  BY <1>4, Zenon DEF RightTable
<1>7. \A s \in SUBSET (1 .. n) :
         g[s] = IF s = {} THEN d
                ELSE IF j[Min(s)].seq \in {} THEN Unapply(j, g[s \ {Min(s)}], j[Min(s)])
                     ELSE g[s \ {Min(s)}]
  BY <1>5
<1>8. g = Body(g)
  BY <1>6, <1>7, Zenon
<1>9. K = Body(K)
  BY <1>8, Zenon DEF K
<1>10. \A s \in SUBSET (1 .. n) : K[s] = IF s = {} THEN d ELSE K[s \ {Min(s)}]
  BY <1>9
<1> DEFINE S == {m \in Nat : m <= n => K[(n - m + 1) .. n] = d}
<1>11. 0 \in S
  <2>1. (n - 0 + 1) .. n = {} /\ {} \in SUBSET (1 .. n)
    BY <1>1
  <2> QED BY <1>10, <2>1
<1>12. ASSUME NEW m \in Nat, m \in S PROVE m + 1 \in S
  <2> SUFFICES ASSUME m + 1 <= n PROVE K[(n - (m + 1) + 1) .. n] = d
    OBVIOUS
  <2> DEFINE e == n - m
             s == e .. n
  <2>1. /\ e \in 1 .. n /\ n - (m + 1) + 1 = e /\ n - m + 1 = e + 1
        /\ K[(n - m + 1) .. n] = d
    BY <1>1, <1>12
  <2> HIDE DEF e
  <2>2. s \in SUBSET (1 .. n) /\ e \in s /\ \A i \in s : e <= i
    BY <1>1, <2>1
  <2>3. Min(s) = e
    <3>1. Min(s) \in s /\ \A i \in s : Min(s) <= i
      <4> HIDE DEF s
      <4> QED BY <1>1, <2>2, BottomOfSet
    <3> QED BY <1>1, <2>1, <2>2, <3>1
  <2>4. s \ {e} = (e + 1) .. n
    BY <1>1, <2>1
  <2> HIDE DEF s
  <2>5. K[s] = K[s \ {e}]
    BY <1>10, <2>2, <2>3
  <2> QED BY <2>1, <2>4, <2>5 DEF s
<1>13. \A m \in Nat : m \in S
  <2> HIDE DEF S
  <2> QED BY <1>11, <1>12, Inductive
<1>14. (n - n + 1) .. n = 1 .. n /\ n <= n
  BY <1>1
<1> QED BY <1>1, <1>2, <1>13, <1>14

\* A composition is the document without what the policy leaves out, whether or not
\* any decision was taken.
LEMMA ProjectIs ==
  ASSUME NEW R, NEW j \in Seq(R), NEW d, NEW st, NEW p,
         DOMAIN st = {} => LiveEdits(j) \subseteq Kept(j, d, st, p)
  PROVE  Project(j, d, st, p) = Without(j, d, LiveEdits(j) \ Kept(j, d, st, p))
<1> DEFINE out == LiveEdits(j) \ Kept(j, d, st, p)
<1>1. CASE DOMAIN st = {}
  <2>1. out = {}
    BY <1>1
  <2>2. Project(j, d, st, p) = d
    BY <1>1 DEF Project
  <2> HIDE DEF out
  <2> QED BY <2>1, <2>2, NothingOut DEF out
<1>2. CASE DOMAIN st # {}
  BY <1>2 DEF Project, Without
<1> QED BY <1>1, <1>2

LEMMA KeptUndecided ==
  ASSUME NEW j, NEW d, NEW st, DOMAIN st = {}, NEW p \in Policies
  PROVE  LiveEdits(j) \subseteq Kept(j, d, st, p)
<1>1. \A g : StateOf(st, g) = "accepted"
  BY DEF StateOf
<1>2. Proposed(j, st) = {}
  BY <1>1 DEF Proposed
<1>3. Invalid(j, d, st) = {} /\ Deferred(j, st, p) = {}
  BY <1>2 DEF Invalid, Deferred
<1>4. \A g : Admits(st, g, p)
  BY <1>1 DEF Admits, Policies
<1> QED BY <1>3, <1>4 DEF Kept, Included

\* A composition depends on what it leaves out, and on nothing else of the decisions.
LEMMA SameComposition ==
  ASSUME NEW R, NEW j \in Seq(R), NEW d, NEW st, NEW st2, NEW p \in Policies, NEW p2 \in Policies,
         \A s \in LiveEdits(j) : s \in Kept(j, d, st, p) <=> s \in Kept(j, d, st2, p2)
  PROVE  Project(j, d, st, p) = Project(j, d, st2, p2)
<1> DEFINE a == LiveEdits(j) \ Kept(j, d, st, p)
           b == LiveEdits(j) \ Kept(j, d, st2, p2)
<1>1. Project(j, d, st, p) = Without(j, d, a)
  BY KeptUndecided, ProjectIs
<1>2. Project(j, d, st2, p2) = Without(j, d, b)
  BY KeptUndecided, ProjectIs
<1>3. a = b
  OBVIOUS
<1> HIDE DEF a, b
<1> QED BY <1>1, <1>2, <1>3

\* Live edits belong to sets with a live member.
LEMMA LiveSets ==
  ASSUME NEW j, NEW s \in LiveEdits(j)
  PROVE  s \in Seqs(j) /\ OpAt(j, s).group \in GroupIds(j) /\ s \in Members(j, OpAt(j, s).group)
<1>1. s \in Seqs(j) /\ OpAt(j, s).kind = "edit"
  BY DEF LiveEdits
<1> QED BY <1>1 DEF GroupIds, Members

-----------------------------------------------------------------------------
(* Saving and restarting.                                                  *)

\* Once the pending sets are agreed to, the sets still proposed are superseded ones and
\* sets nothing is left of.
LEMMA AgreedSets ==
  ASSUME States(decided)
  PROVE  LET st == Agreed(decided)
             inv == Invalid(journal, doc, decided)
         IN  /\ DOMAIN st \subseteq DOMAIN decided
             /\ Invalid(journal, doc, st) = inv
             /\ \A g \in GroupIds(journal) : Members(journal, g) # {} =>
                   /\ StateOf(st, g) = "accepted" <=>
                         g \notin inv /\ StateOf(decided, g) \in {"accepted", "proposed"}
                   /\ StateOf(st, g) = "proposed" <=> g \in inv
<1> DEFINE st == Agreed(decided)
           inv == Invalid(journal, doc, decided)
           pend == Pending(journal, doc, decided)
           Seen(g) == \E s \in Members(journal, g) : MemberSpans(journal, doc, OpAt(journal, s)) # {}
           old == Proposed(journal, decided)
<1>1. /\ pend = {g \in old : Seen(g)}
      /\ inv = {g \in old : Members(journal, g) # {} /\ ~Seen(g)}
  BY DEF Pending, Invalid
<1>2. /\ DOMAIN st = DOMAIN decided \ pend
      /\ \A g \in DOMAIN st : st[g] = decided[g]
  BY DEF Agreed
<1>3. \A g : StateOf(st, g) = IF g \in pend THEN "accepted" ELSE StateOf(decided, g)
  <2>1. \A g : g \in pend => g \in DOMAIN decided
    BY <1>1 DEF Proposed, StateOf
  <2> HIDE DEF st, pend
  <2> QED BY <1>2, <2>1 DEF StateOf
<1>4. \A g : StateOf(decided, g) \in {"accepted", "proposed", "rejected"}
  BY DEF StateOf, States
<1>5. \A g \in GroupIds(journal) : g \in old <=> StateOf(decided, g) = "proposed"
  BY DEF Proposed
<1>6. Proposed(journal, st) = old \ pend
  <2> HIDE DEF st, pend
  <2> QED BY <1>3 DEF Proposed
<1>7. Invalid(journal, doc, st) = {g \in old \ pend : Members(journal, g) # {} /\ ~Seen(g)}
  <2> HIDE DEF st, pend, old
  <2> QED BY <1>6 DEF Invalid
<1>8. Invalid(journal, doc, st) = inv
  <2> HIDE DEF st, pend, old, inv, Seen
  <2> QED BY <1>1, <1>7
<1>9. ASSUME NEW g \in GroupIds(journal), Members(journal, g) # {}
      PROVE  /\ StateOf(st, g) = "accepted" <=>
                   g \notin inv /\ StateOf(decided, g) \in {"accepted", "proposed"}
             /\ StateOf(st, g) = "proposed" <=> g \in inv
  <2> HIDE DEF st, pend, old, inv, Seen
  <2>1. g \in inv <=> g \in old /\ ~Seen(g)
    BY <1>1, <1>9
  <2>2. g \in pend <=> g \in old /\ Seen(g)
    BY <1>1
  <2> QED BY <1>3, <1>4, <1>5, <2>1, <2>2
<1> HIDE DEF st, inv
<1> QED BY <1>2, <1>8, <1>9 DEF st, inv

\* Only a save writes the file.
LEMMA OnlySavesWrite == ASSUME Next, disk' # disk PROVE Save
<1>1. CASE Typing \/ History \/ Diffing \/ Reverting \/ ClearReversal
  BY <1>1 DEF Typing, Insert, Delete, Paste, BeginAction, History, UndoRedo, Diffing,
              BeginDiff, Reverting, Revert, ClearReversal, StartReversal
<1>2. CASE Continue
  BY <1>2 DEF Continue, EndAction, EndDiff, Hunk, ReverseMember, ReverseBlocked,
              RollbackMember, EndFailed, EndReversal, NextReversal
<1>3. CASE Accept \/ Reject \/ ClearMark \/ SaveFails \/ Restart
  BY <1>3 DEF Accept, Reject, ClearMark, SaveFails, Restart
<1> QED BY <1>1, <1>2, <1>3 DEF Next

\* A save writes what the editor would show with every proposal applied, and leaves
\* nothing on screen that is not on disk, whatever was proposed, rejected or superseded.
THEOREM SavesWriteWhatWasShown == Spec => SaveWritesWhatWasShown
<1>1. HInv /\ [Next]_vars =>
        [disk' # disk => /\ disk'.text = Comp("AcceptedAndProposedApplied")
                         /\ disk'.text = CompAfter("AcceptedAndProposed")]_vars
  <2> SUFFICES ASSUME HInv, Next, disk' # disk
               PROVE  /\ disk'.text = Comp("AcceptedAndProposedApplied")
                      /\ disk'.text = CompAfter("AcceptedAndProposed")
    BY DEF vars
  <2>1. Save
    BY OnlySavesWrite
  <2> DEFINE st == Agreed(decided)
             inv == Invalid(journal, doc, decided)
  <2>2. /\ journal' = journal /\ doc' = doc
        /\ disk'.text = Project(journal, doc, st, "AcceptedOnly")
        /\ \E spent \in SUBSET Invalid(journal, doc, st) : decided' = RejectAll(st, spent)
    BY <2>1 DEF Save, SaveAs, Spent
  <2>3. States(decided) /\ journal \in Seq(Ops)
    BY DEF HInv, DataTyped, Text
  <2>4. /\ Invalid(journal, doc, st) = inv
        /\ \A g \in GroupIds(journal) : Members(journal, g) # {} =>
              /\ StateOf(st, g) = "accepted" <=>
                    g \notin inv /\ StateOf(decided, g) \in {"accepted", "proposed"}
              /\ StateOf(st, g) = "proposed" <=> g \in inv
    BY <2>3, AgreedSets
  <2> HIDE DEF st
  <2>5. \A p \in Policies : p \in {"AcceptedOnly", "AcceptedAndProposedApplied"}
            => Deferred(journal, st, p) = {} /\ Deferred(journal, decided, p) = {}
    BY DEF Deferred
  <2>6. {"AcceptedOnly", "AcceptedAndProposed", "AcceptedAndProposedApplied"} \subseteq Policies
    BY DEF Policies
  <2>7. ASSUME NEW s \in LiveEdits(journal)
        PROVE  s \in Kept(journal, doc, st, "AcceptedOnly") <=>
                  StateOf(st, OpAt(journal, s).group) = "accepted"
    <3> DEFINE g == OpAt(journal, s).group
    <3>1. g \in GroupIds(journal) /\ Members(journal, g) # {}
      BY LiveSets
    <3>2. s \in Kept(journal, doc, st, "AcceptedOnly") <=>
             StateOf(st, g) = "accepted" /\ g \notin inv
      BY <2>4, <2>5, <2>6 DEF Kept, Included, Admits
    <3> HIDE DEF g, inv
    <3> QED BY <2>4, <3>1, <3>2 DEF g
  <2>8. disk'.text = Comp("AcceptedAndProposedApplied")
    <3>1. ASSUME NEW s \in LiveEdits(journal)
          PROVE  s \in Kept(journal, doc, st, "AcceptedOnly") <=>
                    s \in Kept(journal, doc, decided, "AcceptedAndProposedApplied")
      <4> DEFINE g == OpAt(journal, s).group
      <4>1. g \in GroupIds(journal) /\ Members(journal, g) # {}
        BY LiveSets
      <4>2. s \in Kept(journal, doc, decided, "AcceptedAndProposedApplied") <=>
               StateOf(decided, g) \in {"accepted", "proposed"} /\ g \notin inv
        BY <2>5, <2>6 DEF Kept, Included, Admits
      <4> HIDE DEF g, inv
      <4> QED BY <2>4, <2>7, <4>1, <4>2 DEF g
    <3> QED BY <2>2, <2>3, <2>6, <3>1, SameComposition DEF Comp
  <2>9. disk'.text = CompAfter("AcceptedAndProposed")
    <3>1. PICK spent \in SUBSET inv : decided' = RejectAll(st, spent)
      BY <2>2, <2>4
    <3> DEFINE new == decided'
    <3>2. \A g \in inv : StateOf(st, g) = "proposed"
      BY <2>4 DEF Invalid, Proposed
    <3>3. \A g : StateOf(new, g) = IF g \in spent THEN "rejected" ELSE StateOf(st, g)
      <4>1. \A g : g \in spent => g \in DOMAIN st
        BY <3>2 DEF StateOf
      <4>2. /\ DOMAIN new = DOMAIN st
            /\ \A g \in DOMAIN st : new[g] = IF g \in spent THEN "rejected" ELSE st[g]
        BY <3>1 DEF RejectAll
      <4> HIDE DEF new
      <4> QED BY <4>1, <4>2 DEF StateOf
    <3>4. Invalid(journal, doc, new) = inv \ spent
      <4>1. Proposed(journal, new) = Proposed(journal, st) \ spent
        <5> HIDE DEF new
        <5> QED BY <3>3 DEF Proposed
      <4>2. Invalid(journal, doc, new) = Invalid(journal, doc, st) \ spent
        <5> HIDE DEF new
        <5> QED BY <4>1 DEF Invalid
      <4> QED BY <2>4, <4>2
    <3> HIDE DEF new
    <3>5. ASSUME NEW s \in LiveEdits(journal)
          PROVE  s \in Kept(journal, doc, st, "AcceptedOnly") <=>
                    s \in Kept(journal, doc, new, "AcceptedAndProposed")
      <4> DEFINE g == OpAt(journal, s).group
      <4>1. g \in GroupIds(journal) /\ Members(journal, g) # {}
        BY LiveSets
      <4>2. s \in Kept(journal, doc, new, "AcceptedAndProposed") <=>
               /\ StateOf(new, g) \in {"accepted", "proposed"}
               /\ g \notin inv \ spent
               /\ g \notin Deferred(journal, new, "AcceptedAndProposed")
        BY <2>6, <3>4 DEF Kept, Included, Admits
      <4>3. g \in Deferred(journal, new, "AcceptedAndProposed") => StateOf(new, g) = "proposed"
        BY DEF Deferred, Proposed
      <4> HIDE DEF g, inv
      <4>4. s \in Kept(journal, doc, st, "AcceptedOnly") <=> StateOf(st, g) = "accepted"
        BY <2>7 DEF g
      <4> QED BY <2>4, <3>2, <3>3, <4>1, <4>2, <4>3, <4>4
    <3>6. Project(journal, doc, st, "AcceptedOnly") = Project(journal, doc, new, "AcceptedAndProposed")
      BY <2>3, <2>6, <3>5, SameComposition
    <3> QED BY <2>2, <3>6 DEF CompAfter, new
  <2> QED BY <2>8, <2>9
<1> QED BY <1>1, TextAlways, PTL DEF Spec, SaveWritesWhatWasShown

\* A restart replays the text that was there, changes what no composition shows, and
\* hands out change set numbers that no op and no decision has.
THEOREM RestartsAreInvisible == Spec => RestartIsInvisible
<1>1. HInv /\ [Next]_vars =>
        [work' = Idle /\ Restart =>
            /\ doc' = doc
            /\ \A p \in Policies : CompAfter(p) = Comp(p)
            /\ \A g \in DOMAIN decided' \cup GroupIds(journal) : g <= group']_vars
  <2> SUFFICES ASSUME HInv, Restart
               PROVE  /\ doc' = doc
                      /\ \A p \in Policies : CompAfter(p) = Comp(p)
                      /\ \A g \in DOMAIN decided' \cup GroupIds(journal) : g <= group'
    OBVIOUS
  <2>1. doc' = doc /\ journal' = journal /\ decided' = Recorded
    BY DEF HInv, Text, Restart
  <2>2. ASSUME NEW p \in Policies PROVE CompAfter(p) = Comp(p)
    <3> DEFINE new == Recorded
    <3>1. \A g \in GroupIds(journal) : StateOf(new, g) = StateOf(decided, g)
      BY DEF Recorded, StateOf
    <3> HIDE DEF new
    <3>2. Proposed(journal, new) = Proposed(journal, decided)
      BY <3>1 DEF Proposed
    <3>3. /\ Invalid(journal, doc, new) = Invalid(journal, doc, decided)
          /\ Deferred(journal, new, p) = Deferred(journal, decided, p)
      BY <3>2 DEF Invalid, Deferred
    <3>4. ASSUME NEW s \in LiveEdits(journal)
          PROVE  s \in Kept(journal, doc, new, p) <=> s \in Kept(journal, doc, decided, p)
      <4> DEFINE g == OpAt(journal, s).group
      <4>1. g \in GroupIds(journal)
        BY LiveSets
      <4>2. Admits(new, g, p) <=> Admits(decided, g, p)
        <5> HIDE DEF g
        <5>1. StateOf(new, g) = StateOf(decided, g)
          BY <3>1, <4>1
        <5>2. CASE p = "AcceptedOnly"
          BY <5>1, <5>2 DEF Admits
        <5>3. CASE p = "Annotated"
          BY <5>3 DEF Admits
        <5>4. CASE p \notin {"AcceptedOnly", "Annotated"}
          BY <5>1, <5>4 DEF Admits
        <5> QED BY <5>2, <5>3, <5>4
      <4> QED BY <3>3, <4>2 DEF Kept, Included
    <3>5. journal \in Seq(Ops)
      BY DEF HInv, Text
    <3>6. Project(journal, doc, new, p) = Project(journal, doc, decided, p)
      BY <3>4, <3>5, SameComposition
    <3> QED BY <2>1, <3>6 DEF CompAfter, Comp, new
  <2>3. ASSUME NEW g \in DOMAIN decided' \cup GroupIds(journal) PROVE g <= group'
    <3>1. Log'
      BY RestartKeeps DEF HInv, IInv
    <3>2. group' \in Nat /\ DOMAIN decided' \subseteq 1 .. group'
      BY <3>1 DEF Log
    <3>3. GroupIds(journal) \subseteq 1 .. group'
      BY <2>1, <3>1 DEF Log, JournalWellFormed, GroupIds
    <3> QED BY <3>2, <3>3
  <2> QED BY <2>1, <2>2, <2>3
<1> QED BY <1>1, TextAlways, PTL DEF Spec, RestartIsInvisible

-----------------------------------------------------------------------------
(* Which ops are in effect.                                                *)

\* A reversal names an earlier op.
Ordered(j) == \A s \in Seqs(j) : OpAt(j, s).kind # "edit" => OpAt(j, s).undoes \in 0 .. (s - 1)

LiveOps(j) == {s \in Seqs(j) : InEffect(j)[s]}

\* Induction from the newest op to the oldest.
LEMMA FromTheNewest ==
  ASSUME NEW n \in Nat, NEW S,
         \A s \in 0 .. (n - 1) : (\A t \in (s + 1) .. (n - 1) : t \in S) => s \in S
  PROVE  \A s \in 0 .. (n - 1) : s \in S
<1> SUFFICES ASSUME NEW x \in 0 .. (n - 1), x \notin S PROVE FALSE
  OBVIOUS
<1> DEFINE T == {s \in 0 .. (n - 1) : s \notin S}
<1>1. T \in SUBSET (0 .. n) /\ T # {}
  OBVIOUS
<1>2. Max(T) \in T /\ \A s \in T : s <= Max(T)
  <2> HIDE DEF T
  <2> QED BY <1>1, MaxOfInterval
<1>3. \A t \in (Max(T) + 1) .. (n - 1) : t \in S
  <2> SUFFICES ASSUME NEW t \in (Max(T) + 1) .. (n - 1), t \notin S PROVE FALSE
    OBVIOUS
  <2>1. Max(T) \in 0 .. (n - 1)
    BY <1>2
  <2>2. t \in 0 .. (n - 1) /\ ~(t <= Max(T))
    BY <2>1
  <2> QED BY <1>2, <2>2
<1> QED BY <1>2, <1>3

LEMMA LaterReversers ==
  ASSUME NEW R, NEW j \in Seq(R), Ordered(j), NEW s \in Seqs(j), NEW r \in Reversers(j, s)
  PROVE  r \in Seqs(j) /\ r \in (s + 1) .. (Len(j) - 1) /\ OpAt(j, r).kind # "edit"
<1>1. r \in Seqs(j) /\ OpAt(j, r).kind # "edit" /\ OpAt(j, r).undoes = s
  BY DEF Reversers
<1>2. s \in 0 .. (r - 1) /\ Len(j) \in Nat
  BY <1>1 DEF Ordered
<1> QED BY <1>1, <1>2 DEF Seqs

LEMMA LivenessExists ==
  ASSUME NEW R, NEW j \in Seq(R), Ordered(j)
  PROVE  \E T \in SUBSET Seqs(j) : \A s \in Seqs(j) : s \in T <=> Reversers(j, s) \cap T = {}
<1> DEFINE n == Len(j)
           Right(T, s) == s \in T <=> Reversers(j, s) \cap T = {}
           Done(T, m) == \A s \in Seqs(j) : n - m <= s => Right(T, s)
           S == {m \in Nat : m <= n => \E T \in SUBSET Seqs(j) : Done(T, m)}
<1>1. n \in Nat /\ Seqs(j) = 0 .. (n - 1)
  BY DEF Seqs
<1>2. 0 \in S
  <2>1. Done({}, 0)
    BY <1>1
  <2> QED BY <2>1
<1>3. ASSUME NEW m \in Nat, m \in S PROVE m + 1 \in S
  <2> SUFFICES ASSUME m + 1 <= n PROVE \E T \in SUBSET Seqs(j) : Done(T, m + 1)
    OBVIOUS
  <2>1. m <= n
    BY <1>1
  <2>2. PICK T \in SUBSET Seqs(j) : Done(T, m)
    BY <1>3, <2>1
  <2> DEFINE e == n - (m + 1)
             U == IF Reversers(j, e) \cap T = {} THEN T \cup {e} ELSE T \ {e}
  <2>3. e \in Seqs(j) /\ \A s \in Seqs(j) : n - (m + 1) <= s => s = e \/ n - m <= s
    BY <1>1
  <2>4. ASSUME NEW s \in Seqs(j), n - (m + 1) <= s
        PROVE  Reversers(j, s) \cap U = Reversers(j, s) \cap T
    <3>1. \A r \in Reversers(j, s) : r # e
      <4> SUFFICES ASSUME NEW r \in Reversers(j, s) PROVE r # e
        OBVIOUS
      <4>1. r \in (s + 1) .. (n - 1)
        BY LaterReversers
      <4> QED BY <1>1, <2>4, <4>1
    <3> HIDE DEF e
    <3> QED BY <3>1
  <2>5. ASSUME NEW s \in Seqs(j), n - (m + 1) <= s PROVE Right(U, s)
    <3>1. Reversers(j, s) \cap U = Reversers(j, s) \cap T
      BY <2>4, <2>5
    <3>2. CASE s = e
      <4> HIDE DEF e
      <4> QED BY <3>1, <3>2
    <3>3. CASE s # e
      <4>1. Right(T, s)
        BY <2>2, <2>3, <2>5, <3>3
      <4>2. s \in U <=> s \in T
        <5> HIDE DEF e
        <5> QED BY <3>3
      <4> HIDE DEF U
      <4> QED BY <3>1, <4>1, <4>2
    <3> QED BY <3>2, <3>3
  <2>6. U \in SUBSET Seqs(j)
    BY <2>3
  <2>7. Done(U, m + 1)
    <3> HIDE DEF U, Right
    <3> QED BY <2>5
  <2> HIDE DEF U, Done
  <2> QED BY <2>6, <2>7
<1>4. \A m \in Nat : m \in S
  <2> HIDE DEF S
  <2> QED BY <1>2, <1>3, Inductive
<1>5. PICK T \in SUBSET Seqs(j) : Done(T, n)
  BY <1>1, <1>4
<1>6. \A s \in Seqs(j) : n - n <= s
  BY <1>1
<1> QED BY <1>5, <1>6

\* An op is in effect exactly when nothing that reverses it is.
LEMMA LivenessIs ==
  ASSUME NEW R, NEW j \in Seq(R), Ordered(j)
  PROVE  /\ InEffect(j) = [s \in Seqs(j) |-> s \in LiveOps(j)]
         /\ \A s \in Seqs(j) : s \in LiveOps(j) <=> Reversers(j, s) \cap LiveOps(j) = {}
<1> DEFINE Body(g) == [s \in Seqs(j) |-> \A r \in Reversers(j, s) : ~g[r]]
           K == CHOOSE g : g = Body(g)
<1>1. InEffect(j) = K
  BY DEF InEffect
<1>2. PICK T \in SUBSET Seqs(j) : \A s \in Seqs(j) : s \in T <=> Reversers(j, s) \cap T = {}
  BY LivenessExists
<1> DEFINE f == [s \in Seqs(j) |-> s \in T]
<1>3. f = Body(f)
  <2>1. \A s \in Seqs(j) : \A r \in Reversers(j, s) : r \in Seqs(j)
    BY DEF Reversers
  <2>2. ASSUME NEW s \in Seqs(j) PROVE (s \in T) = (\A r \in Reversers(j, s) : ~f[r])
    <3>1. \A r \in Reversers(j, s) : f[r] = (r \in T)
      BY <2>1
    <3>2. (s \in T) <=> \A r \in Reversers(j, s) : ~(r \in T)
      BY <1>2
    <3> HIDE DEF f
    <3>3. (s \in T) <=> \A r \in Reversers(j, s) : ~f[r]
      BY <3>1, <3>2, Zenon
    <3> DEFINE P == \A r \in Reversers(j, s) : ~f[r]
    <3>4. P \in BOOLEAN /\ ((s \in T) <=> P)
      BY <3>3, Zenon
    <3> HIDE DEF P
    <3>5. (s \in T) = P
      BY <3>4, SMT
    <3> QED BY <3>5 DEF P
  <2>3. [s \in Seqs(j) |-> s \in T] = [s \in Seqs(j) |-> \A r \in Reversers(j, s) : ~f[r]]
    <3> HIDE DEF f
    <3> QED BY <2>2, Zenon
  <2> QED BY <2>3, Zenon
<1>4. K = Body(K)
  <2> HIDE DEF f
  <2> QED BY <1>3, Zenon
<1> HIDE DEF K
<1>5. \A s \in Seqs(j) : K[s] = (\A r \in Reversers(j, s) : ~K[r])
  BY <1>4, Zenon
<1>6. LiveOps(j) = {s \in Seqs(j) : K[s]}
  BY <1>1, Zenon DEF LiveOps
<1>7. ASSUME NEW s \in Seqs(j) PROVE K[s] = (s \in LiveOps(j))
  <2>1. (s \in LiveOps(j)) <=> K[s]
    BY <1>6, Zenon
  <2>2. K[s] = (\A r \in Reversers(j, s) : ~K[r])
    BY <1>5
  <2>3. K[s] \in BOOLEAN
    BY <2>2, Zenon
  <2> QED BY <2>1, <2>3, SMT
<1>8. K = [s \in Seqs(j) |-> K[s]]
  BY <1>4, Zenon
<1>9. K = [s \in Seqs(j) |-> s \in LiveOps(j)]
  BY <1>7, <1>8, Zenon
<1>10. ASSUME NEW s \in Seqs(j) PROVE s \in LiveOps(j) <=> Reversers(j, s) \cap LiveOps(j) = {}
  <2>1. \A r \in Reversers(j, s) : r \in Seqs(j)
    BY DEF Reversers
  <2>2. s \in LiveOps(j) <=> \A r \in Reversers(j, s) : ~(r \in LiveOps(j))
    BY <1>5, <1>6, <2>1, Zenon
  <2> QED BY <2>2
<1> QED BY <1>1, <1>9, <1>10, Zenon

\* k is j with one more op.
Longer(k, j, o) ==
    /\ j \in Seq(ToSet(j)) /\ k \in Seq(ToSet(k))
    /\ Len(j) \in Nat /\ Len(k) = Len(j) + 1
    /\ Seqs(k) = Seqs(j) \cup {Len(j)}
    /\ \A s \in Seqs(j) : OpAt(k, s) = OpAt(j, s)
    /\ OpAt(k, Len(j)) = o

LEMMA OneMore ==
  ASSUME NEW R, NEW j \in Seq(R), NEW o
  PROVE  Longer(Append(j, o), j, o)
<1>1. j \in Seq(ToSet(j))
  <2>1. \A i \in 1 .. Len(j) : j[i] \in ToSet(j)
    BY DEF ToSet
  <2> QED BY <2>1
<1> DEFINE k == Append(j, o)
<1>2. /\ k \in Seq(ToSet(k)) /\ Len(j) \in Nat /\ Len(k) = Len(j) + 1
      /\ Seqs(k) = Seqs(j) \cup {Len(j)}
      /\ \A s \in Seqs(j) : OpAt(k, s) = OpAt(j, s)
      /\ OpAt(k, Len(j)) = o
  BY <1>1, AppendSeq
<1> HIDE DEF k
<1> QED BY <1>1, <1>2 DEF Longer, k

LEMMA ReversersMore ==
  ASSUME NEW j, NEW k, NEW o, Longer(k, j, o), Ordered(k)
  PROVE  /\ Reversers(k, Len(j)) = {}
         /\ \A s \in Seqs(j) :
               Reversers(k, s) = IF o.kind # "edit" /\ o.undoes = s
                                 THEN Reversers(j, s) \cup {Len(j)} ELSE Reversers(j, s)
<1>1. /\ Len(j) \in Nat /\ Len(j) \in Seqs(k) /\ k \in Seq(ToSet(k)) /\ Len(k) = Len(j) + 1
  BY DEF Longer
<1>2. ASSUME NEW r \in Reversers(k, Len(j)) PROVE FALSE
  <2>1. r \in (Len(j) + 1) .. (Len(k) - 1)
    BY <1>1, LaterReversers
  <2> QED BY <1>1, <2>1
<1>3. ASSUME NEW s \in Seqs(j)
      PROVE  Reversers(k, s) = IF o.kind # "edit" /\ o.undoes = s
                               THEN Reversers(j, s) \cup {Len(j)} ELSE Reversers(j, s)
  <2>1. \A r : r \in Reversers(k, s) <=> r \in Seqs(k) /\ OpAt(k, r).kind # "edit" /\ OpAt(k, r).undoes = s
    BY DEF Reversers
  <2>2. \A r : r \in Reversers(j, s) <=> r \in Seqs(j) /\ OpAt(j, r).kind # "edit" /\ OpAt(j, r).undoes = s
    BY DEF Reversers
  <2>3. \A r \in Seqs(j) : r \in Reversers(k, s) <=> r \in Reversers(j, s)
    BY <2>1, <2>2 DEF Longer
  <2>4. Len(j) \in Reversers(k, s) <=> o.kind # "edit" /\ o.undoes = s
    BY <2>1 DEF Longer
  <2>5. Reversers(k, s) \subseteq Seqs(j) \cup {Len(j)} /\ Reversers(j, s) \subseteq Seqs(j)
    BY <2>1, <2>2 DEF Longer
  <2>6. CASE o.kind # "edit" /\ o.undoes = s
    BY <2>3, <2>4, <2>5, <2>6
  <2>7. CASE ~(o.kind # "edit" /\ o.undoes = s)
    <3>1. Len(j) \notin Reversers(k, s)
      BY <2>4, <2>7
    <3>2. Reversers(k, s) = Reversers(j, s)
      BY <2>3, <2>5, <3>1
    <3> QED BY <2>7, <3>2, Zenon
  <2> QED BY <2>6, <2>7
<1> QED BY <1>2, <1>3

\* An edit takes effect, and changes nothing about what was done before.
LEMMA EditTakesEffect ==
  ASSUME NEW j, NEW k, NEW o, Longer(k, j, o), Ordered(j), Ordered(k), o.kind = "edit"
  PROVE  /\ LiveOps(k) = LiveOps(j) \cup {Len(j)}
         /\ \A s \in Seqs(j) : Reversers(k, s) = Reversers(j, s)
         /\ \A r \in Seqs(j) : InEffect(k)[r] = InEffect(j)[r]
         /\ InEffect(k)[Len(j)]
<1>1. /\ j \in Seq(ToSet(j)) /\ k \in Seq(ToSet(k)) /\ Len(j) \in Nat
      /\ Seqs(k) = Seqs(j) \cup {Len(j)} /\ Seqs(j) = 0 .. (Len(j) - 1)
  BY DEF Longer, Seqs
<1>2. Reversers(k, Len(j)) = {} /\ \A s \in Seqs(j) : Reversers(k, s) = Reversers(j, s)
  BY ReversersMore
<1>3. InEffect(j) = [s \in Seqs(j) |-> s \in LiveOps(j)]
  BY <1>1, LivenessIs, Zenon
<1>4. \A s \in Seqs(j) : s \in LiveOps(j) <=> Reversers(j, s) \cap LiveOps(j) = {}
  BY <1>1, LivenessIs, Zenon
<1>5. InEffect(k) = [s \in Seqs(k) |-> s \in LiveOps(k)]
  BY <1>1, LivenessIs, Zenon
<1>6. \A s \in Seqs(k) : s \in LiveOps(k) <=> Reversers(k, s) \cap LiveOps(k) = {}
  BY <1>1, LivenessIs, Zenon
<1> DEFINE S == {s \in Nat : s \in LiveOps(k) <=> s \in LiveOps(j)}
<1>7. ASSUME NEW s \in 0 .. (Len(j) - 1), \A t \in (s + 1) .. (Len(j) - 1) : t \in S
      PROVE  s \in S
  <2>1. s \in Seqs(j) /\ s \in Seqs(k) /\ s \in Nat
    BY <1>1
  <2>2. \A r \in Reversers(j, s) : r \in S
    <3> HIDE DEF S
    <3> QED BY <1>1, <1>7, <2>1, LaterReversers
  <2>3. Reversers(k, s) \cap LiveOps(k) = Reversers(j, s) \cap LiveOps(j)
    BY <1>2, <2>1, <2>2
  <2> QED BY <1>4, <1>6, <2>1, <2>3
<1>8. \A s \in 0 .. (Len(j) - 1) : s \in S
  <2> HIDE DEF S
  <2> QED BY <1>1, <1>7, FromTheNewest
<1>9. LiveOps(j) \subseteq Seqs(j) /\ LiveOps(k) \subseteq Seqs(k)
  BY DEF LiveOps
<1>10. Len(j) \in LiveOps(k)
  BY <1>1, <1>2, <1>6
<1>11. LiveOps(k) = LiveOps(j) \cup {Len(j)}
  BY <1>1, <1>8, <1>9, <1>10
<1>12. ASSUME NEW r \in Seqs(j) PROVE InEffect(k)[r] = InEffect(j)[r]
  <2>1. InEffect(k)[r] = (r \in LiveOps(k)) /\ InEffect(j)[r] = (r \in LiveOps(j))
    BY <1>1, <1>3, <1>5, Zenon
  <2>2. r \in LiveOps(k) <=> r \in LiveOps(j)
    BY <1>1, <1>8
  <2> QED BY <2>1, <2>2, SMT
<1>13. InEffect(k)[Len(j)]
  BY <1>10 DEF LiveOps
<1> QED BY <1>2, <1>11, <1>12, <1>13

\* Each reversal is of the other sense than its target.
Alternating(j) ==
    \A s \in Seqs(j) : OpAt(j, s).kind # "edit" =>
        (OpAt(j, s).kind = "redo" <=> OpAt(j, OpAt(j, s).undoes).kind = "undo")

SameSense(j, s, t) == OpAt(j, s).kind = "undo" <=> OpAt(j, t).kind = "undo"

\* A reversal takes effect and puts its target out of effect.  Of the other ops, it may
\* bring back into effect only those of the other sense than its target, and put out of
\* effect only those of the same sense.
LEMMA ReversalTakesEffect ==
  ASSUME NEW j, NEW k, NEW o, Longer(k, j, o), Ordered(j), Ordered(k), Alternating(j),
         \A s \in Seqs(j) : OpAt(j, s).kind \in Kinds,
         o.kind # "edit", NEW n \in Seqs(j), o.undoes = n
  PROVE  /\ Len(j) \in LiveOps(k)
         /\ n \notin LiveOps(k)
         /\ \A s \in Seqs(j) : SameSense(j, s, n) /\ s \in LiveOps(k) => s \in LiveOps(j)
         /\ \A s \in Seqs(j) : ~SameSense(j, s, n) /\ s \in LiveOps(j) => s \in LiveOps(k)
<1>1. /\ j \in Seq(ToSet(j)) /\ k \in Seq(ToSet(k)) /\ Len(j) \in Nat
      /\ Seqs(k) = Seqs(j) \cup {Len(j)} /\ Seqs(j) = 0 .. (Len(j) - 1)
  BY DEF Longer, Seqs
<1>2. /\ Reversers(k, Len(j)) = {}
      /\ \A s \in Seqs(j) : Reversers(k, s) = IF s = n THEN Reversers(j, s) \cup {Len(j)}
                                                       ELSE Reversers(j, s)
  BY ReversersMore
<1>3. \A s \in Seqs(j) : s \in LiveOps(j) <=> Reversers(j, s) \cap LiveOps(j) = {}
  BY <1>1, LivenessIs, Zenon
<1>4. \A s \in Seqs(k) : s \in LiveOps(k) <=> Reversers(k, s) \cap LiveOps(k) = {}
  BY <1>1, LivenessIs, Zenon
<1>5. Len(j) \in LiveOps(k)
  BY <1>1, <1>2, <1>4
<1>6. n \notin LiveOps(k)
  BY <1>1, <1>2, <1>4, <1>5
<1> DEFINE Fine(s) == /\ SameSense(j, s, n) /\ s \in LiveOps(k) => s \in LiveOps(j)
                      /\ ~SameSense(j, s, n) /\ s \in LiveOps(j) => s \in LiveOps(k)
           S == {s \in Nat : Fine(s)}
<1>7. ASSUME NEW s \in 0 .. (Len(j) - 1), \A t \in (s + 1) .. (Len(j) - 1) : t \in S
      PROVE  s \in S
  <2>1. s \in Seqs(j) /\ s \in Seqs(k) /\ s \in Nat
    BY <1>1
  <2>2. ASSUME NEW r \in Reversers(j, s)
        PROVE  Fine(r) /\ r \in Seqs(j) /\ (SameSense(j, r, n) <=> ~SameSense(j, s, n))
    <3>1. /\ r \in Seqs(j) /\ r \in (s + 1) .. (Len(j) - 1)
          /\ OpAt(j, r).kind # "edit" /\ OpAt(j, r).undoes = s
      BY <1>1, <2>1, LaterReversers DEF Reversers
    <3>2. Fine(r)
      <4> HIDE DEF Fine
      <4> QED BY <1>7, <3>1
    <3>3. OpAt(j, r).kind = "redo" <=> OpAt(j, s).kind = "undo"
      BY <3>1 DEF Alternating
    <3>4. OpAt(j, r).kind \in Kinds
      BY <3>1
    <3>5. SameSense(j, r, n) <=> ~SameSense(j, s, n)
      BY <3>1, <3>3, <3>4 DEF Kinds, SameSense
    <3> QED BY <3>1, <3>2, <3>5
  <2>3. ASSUME SameSense(j, s, n), s \in LiveOps(k) PROVE s \in LiveOps(j)
    <3>1. Reversers(k, s) \cap LiveOps(k) = {}
      BY <1>4, <2>1, <2>3
    <3>2. Reversers(j, s) \subseteq Reversers(k, s)
      BY <1>2, <2>1
    <3>3. \A r \in Reversers(j, s) : r \notin LiveOps(j)
      BY <2>2, <2>3, <3>1, <3>2
    <3> QED BY <1>3, <2>1, <3>3
  <2>4. ASSUME ~SameSense(j, s, n), s \in LiveOps(j) PROVE s \in LiveOps(k)
    <3>1. Reversers(j, s) \cap LiveOps(j) = {}
      BY <1>3, <2>1, <2>4
    <3>2. s # n
      BY <2>4 DEF SameSense
    <3>3. Reversers(k, s) = Reversers(j, s)
      BY <1>2, <2>1, <3>2
    <3>4. \A r \in Reversers(j, s) : r \notin LiveOps(k)
      BY <2>2, <2>4, <3>1
    <3> QED BY <1>4, <2>1, <3>3, <3>4
  <2> QED BY <2>1, <2>3, <2>4
<1>8. \A s \in 0 .. (Len(j) - 1) : s \in S
  <2> HIDE DEF S
  <2> QED BY <1>1, <1>7, FromTheNewest
<1>9. \A s \in Seqs(j) : Fine(s)
  BY <1>1, <1>8
<1> QED BY <1>5, <1>6, <1>9

\* An edit by a at pos that removes n bytes and inserts text, in the set join if that
\* is not 0.
Writes(a, pos, n, text, join) ==
    /\ pos + n <= Len(doc)
    /\ Commit(Edit(a, pos, SubSeq(doc, pos + 1, pos + n), Appended(a, text)), join)
    /\ store' = [store EXCEPT ![a] = @ + Len(text)]

WritesSome == \E a \in Writers, pos \in Nat, n \in Nat, text \in Texts \cup {<<>>}, join \in Nat :
                 Writes(a, pos, n, text, join)

LEMMA NoText == ASSUME NEW a PROVE Appended(a, <<>>) = <<>> /\ Len(<<>>) = 0
<1>1. Len(<<>>) = 0
  OBVIOUS
<1> QED BY <1>1 DEF Appended

LEMMA NothingTaken ==
  ASSUME NEW B, NEW d \in Seq(B), NEW pos \in Nat, NEW q \in Nat, pos <= Len(d), q <= pos
  PROVE  SubSeq(d, pos + 1, q) = <<>>
<1>1. pos + 1 \in Nat \ {0} /\ q <= Len(d)
  OBVIOUS
<1>2. SubSeq(d, pos + 1, q) \in Seq(B) /\ Len(SubSeq(d, pos + 1, q)) = 0
  <2> DEFINE m == pos + 1
  <2>1. m \in Nat \ {0} /\ q \in Int /\ q <= Len(d) /\ ~(m <= q)
    BY <1>1
  <2> HIDE DEF m
  <2>2. /\ SubSeq(d, m, q) \in Seq(B)
        /\ Len(SubSeq(d, m, q)) = IF m <= q THEN q - m + 1 ELSE 0
    BY <2>1, SubSeqShape
  <2> QED BY <2>1, <2>2 DEF m
<1> QED BY <1>2

\* A stroke writes text of its own, unless it pastes.
LEMMA StrokeWrites ==
  ASSUME HInv, NEW h \in Humans, Insert(h) \/ Delete(h)
  PROVE  WritesSome
<1>1. /\ doc \in Seq(Bytes) /\ Len(doc) \in Nat /\ store \in [Writers -> Nat] /\ h \in Writers
      /\ 0 \in Nat
  BY TextShape DEF HInv, DataTyped, Writers
<1>2. CASE Insert(h)
  <2>1. PICK pos \in 0 .. Len(doc), text \in Texts :
            /\ Commit(Edit(h, pos, <<>>, Appended(h, text)), 0)
            /\ store' = [store EXCEPT ![h] = @ + Len(text)]
    BY <1>2 DEF Insert
  <2>2. pos \in Nat /\ pos + 0 = pos /\ pos <= Len(doc)
    BY <1>1
  <2>3. SubSeq(doc, pos + 1, pos + 0) = <<>>
    BY <1>1, <2>2, NothingTaken
  <2>4. Writes(h, pos, 0, text, 0)
    BY <2>1, <2>2, <2>3 DEF Writes
  <2> QED BY <1>1, <2>2, <2>4 DEF WritesSome
<1>3. CASE Delete(h)
  <2>1. PICK pos \in 0 .. (Len(doc) - 1), len \in 1 .. MaxCut :
            /\ pos + len <= Len(doc)
            /\ Commit(Edit(h, pos, SubSeq(doc, pos + 1, pos + len), <<>>), 0)
            /\ store' = store
    BY <1>3 DEF Delete
  <2>2. pos \in Nat /\ len \in Nat
    BY <1>1, BoundsAssumption
  <2>3. store = [store EXCEPT ![h] = @ + Len(<<>>)]
    <3>1. store[h] + Len(<<>>) = store[h]
      BY <1>1, NoText
    <3> QED BY <1>1, <3>1
  <2>4. Writes(h, pos, len, <<>>, 0)
    BY <2>1, <2>3, NoText DEF Writes
  <2> QED BY <1>1, <2>2, <2>4 DEF WritesSome
<1> QED BY <1>2, <1>3

\* A hunk that lands replaces what its range covers today.
LEMMA HunkWrites ==
  ASSUME HInv, Hunk
  PROVE  UNCHANGED <<doc, journal, store>> \/ WritesSome
<1>1. /\ Text /\ IInv /\ Log /\ Numbered(journal) /\ TurnedRound(journal)
      /\ StaysInside(Base, journal) /\ doc \in Seq(Bytes) /\ Len(doc) \in Nat
      /\ journal \in Seq(Ops) /\ Version = Len(journal)
      /\ doc = ReplayTo(Base, journal, Len(journal)) /\ store \in [Writers -> Nat]
  BY TextShape DEF HInv, IInv, DataTyped, Text, OpsStayInside, Version
<1>2. /\ work.on = "diff" /\ work.base \in 0 .. Len(journal) /\ work.by \in Writers
      /\ work'.on = "diff" /\ work'.base = work.base
  <2>1. work.on = "diff" /\ work' = [work EXCEPT !.left = @ - 1]
    BY DEF Hunk
  <2>2. work \in [on : {"diff"}, by : Differs, base : {work.base},
                  left : {work.left}, from : {work.from}]
    BY <1>1, <2>1, DepthOf DEF IInv
  <2>3. Differs \subseteq Writers
    BY AuthorsAssumption DEF Writers
  <2> QED BY <1>1, <2>1, <2>2, <2>3 DEF Text
<1>3. PICK r \in Ranges(LengthAt(Base, journal, work.base)), text \in Texts \cup {<<>>} :
          Write(work.by, Placement(work.by, work.base, r[1], r[2], text), text)
  BY DEF Hunk
<1> DEFINE n == Len(ReplayTo(Base, journal, work.base))
           lo == r[1]
           hi == r[2]
           at == Rebase(journal, lo, hi, work.base)
           over == ProposedLeases(journal, doc, decided, at.lo, at.hi - at.lo)
           p == Placement(work.by, work.base, lo, hi, text)
<1>4. n \in Nat /\ lo \in Nat /\ hi \in Nat /\ lo <= n /\ hi <= n
  <2>1. LengthAt(Base, journal, work.base) = n
    BY <1>1, <1>2, BaseTyped, LengthOfReplay
  <2>2. n \in Nat
    BY <1>1, <1>2, BaseTyped, ReplayNext
  <2> HIDE DEF n
  <2>3. r \in (0 .. n) \X (0 .. n)
    BY <2>1 DEF Ranges
  <2> QED BY <2>2, <2>3
<1>5. /\ at.lo \in Nat /\ at.hi \in Nat
      /\ at.ok => at.lo <= Len(doc) /\ at.hi <= Len(doc)
  <2> HIDE DEF lo, hi
  <2> QED BY <1>1, <1>2, <1>4, BaseTyped, RebaseInside DEF n
<1>6. /\ p.why = Verdict(work.by, at, over, text) /\ p.pos = at.lo
      /\ p.del = SubSeq(doc, at.lo + 1, at.hi)
      /\ p.join = 0 \/ p.join \in Own(work.by, over)
  <2>1. p = Placed(work.by, at, over, text)
    BY DEF Placement
  <2> HIDE DEF p, at, over
  <2> QED BY <2>1 DEF Placed
<1>7. over \subseteq GroupIds(journal)
  BY <1>1, LeasesAreSets
<1> HIDE DEF n, lo, hi, at, over
<1>8. p.join \in Nat
  <2>1. p.join = 0 \/ p.join \in 1 .. group
    BY <1>1, <1>6, <1>7, AuthorOfSet DEF Own
  <2>2. group \in Nat
    BY <1>1 DEF Log
  <2> QED BY <2>1, <2>2
<1>9. Write(work.by, p, text)
  BY <1>3 DEF lo, hi
<1> HIDE DEF p
<1>10. CASE p.why # "lands"
  BY <1>9, <1>10 DEF Write
<1>11. CASE p.why = "lands"
  <2>1. at.ok
    BY <1>6, <1>11 DEF Verdict
  <2>2. /\ Commit(Edit(work.by, at.lo, p.del, Appended(work.by, text)), p.join)
        /\ store' = [store EXCEPT ![work.by] = @ + Len(text)]
    BY <1>6, <1>9, <1>11 DEF Write
  <2>3. \E k \in Nat : at.lo + k <= Len(doc) /\ p.del = SubSeq(doc, at.lo + 1, at.lo + k)
    <3>1. CASE at.lo <= at.hi
      <4>1. at.hi - at.lo \in Nat /\ at.lo + (at.hi - at.lo) = at.hi
        BY <1>5, <3>1
      <4> QED BY <1>5, <1>6, <2>1, <4>1
    <3>2. CASE ~(at.lo <= at.hi)
      <4>1. at.hi <= at.lo /\ at.lo <= Len(doc) /\ at.lo + 0 = at.lo /\ at.lo <= at.lo /\ 0 \in Nat
        BY <1>1, <1>5, <2>1, <3>2
      <4>2. p.del = <<>>
        BY <1>1, <1>5, <1>6, <4>1, NothingTaken
      <4>3. SubSeq(doc, at.lo + 1, at.lo + 0) = <<>>
        BY <1>1, <1>5, <4>1, NothingTaken
      <4> QED BY <4>1, <4>2, <4>3
    <3> QED BY <3>1, <3>2
  <2>4. PICK k \in Nat : at.lo + k <= Len(doc) /\ p.del = SubSeq(doc, at.lo + 1, at.lo + k)
    BY <2>3
  <2>5. Writes(work.by, at.lo, k, text, p.join)
    BY <2>2, <2>4 DEF Writes
  <2> QED BY <1>2, <1>5, <1>8, <2>4, <2>5 DEF WritesSome
<1> QED BY <1>10, <1>11

\* o is the inverse of an op of the journal, carried to the present.
IsInverse(o) ==
    LET r == RebasedInverse(journal, doc, OpAt(journal, o.undoes)) IN r.ok /\ o = r.op

\* What is committed: text of an author's own, or the inverse of an op of the journal.
Reverses == /\ store' = store
            /\ \E o : o.kind # "edit" /\ Fits(o) /\ IsInverse(o) /\ Commit(o, 0)

LEMMA ReversalFits ==
  ASSUME HInv, NEW seqs \in SUBSET Seqs(journal), seqs # {},
         RebasedInverse(journal, doc, Newest(seqs)).ok
  PROVE  LET op == RebasedInverse(journal, doc, Newest(seqs)).op
         IN  /\ Fits(op) /\ Max(seqs) \in seqs /\ Max(seqs) \in Seqs(journal)
             /\ op.undoes = Max(seqs) /\ op.author = Newest(seqs).author
             /\ op.kind = IF Newest(seqs).kind = "undo" THEN "redo" ELSE "undo"
<1>1. Log /\ Numbered(journal)
  BY TextShape DEF HInv, IInv
<1>2. Max(seqs) \in seqs /\ IsOp(Newest(seqs)) /\ Newest(seqs).seq = Max(seqs)
  BY <1>1, NewestExists
<1>3. Max(seqs) \in Seqs(journal)
  BY <1>2
<1>4. Fits(RebasedInverse(journal, doc, Newest(seqs)).op)
  BY <1>3, InverseFits DEF Newest
<1> QED BY <1>2, <1>3, <1>4, InverseShape

LEMMA StepShape ==
  ASSUME HInv, [Next]_vars
  PROVE  \/ UNCHANGED <<doc, journal, store>>
         \/ WritesSome
         \/ Reverses
         \/ \E h \in Humans : Paste(h)
<1>1. Text /\ IInv
  BY DEF HInv
<1>2. CASE Typing
  <2>1. PICK h \in Humans : Insert(h) \/ Delete(h) \/ Paste(h) \/ BeginAction(h)
    BY <1>2 DEF Typing
  <2>2. CASE Insert(h) \/ Delete(h)
    BY <2>2, StrokeWrites
  <2>3. CASE BeginAction(h)
    BY <2>3 DEF BeginAction
  <2> QED BY <2>1, <2>2, <2>3
<1>3. CASE Hunk
  BY <1>3, HunkWrites
<1>4. CASE ReverseMember \/ RollbackMember
  <2>1. /\ work.on = "reverse"
        /\ work \in [on : {"reverse"}, goal : {work.goal}, group : {work.group},
                     keep : {work.keep}, failed : {work.failed}, from : {work.from},
                     todo : SUBSET Seqs(journal), applied : SUBSET Seqs(journal),
                     queue : SUBSET Seqs(journal)]
    BY <1>1, <1>4, DepthOf DEF IInv, ReverseMember, RollbackMember
  <2>2. work.todo \in SUBSET Seqs(journal) /\ work.applied \in SUBSET Seqs(journal)
    BY <2>1
  <2>3. \/ UNCHANGED <<doc, journal, store>>
        \/ \E seqs \in SUBSET Seqs(journal) :
              /\ seqs # {} /\ RebasedInverse(journal, doc, Newest(seqs)).ok
              /\ Commit(RebasedInverse(journal, doc, Newest(seqs)).op, 0)
              /\ store' = store
    BY <1>4, <2>2 DEF ReverseMember, RollbackMember
  <2>4. ASSUME NEW seqs \in SUBSET Seqs(journal),
               seqs # {}, RebasedInverse(journal, doc, Newest(seqs)).ok,
               Commit(RebasedInverse(journal, doc, Newest(seqs)).op, 0), store' = store
        PROVE  Reverses
    <3> DEFINE op == RebasedInverse(journal, doc, Newest(seqs)).op
    <3>1. Fits(op) /\ op.kind # "edit" /\ op.undoes = Max(seqs)
      BY <2>4, ReversalFits
    <3>2. IsInverse(op)
      BY <2>4, <3>1 DEF IsInverse, Newest
    <3> HIDE DEF op
    <3> QED BY <2>4, <3>1, <3>2 DEF Reverses, op
  <2> QED BY <2>3, <2>4
<1>5. CASE ReverseBlocked \/ EndFailed \/ EndReversal \/ NextReversal \/ EndAction \/ EndDiff
  BY <1>5 DEF ReverseBlocked, EndFailed, EndReversal, NextReversal, EndAction, EndDiff
<1>6. CASE History \/ Diffing \/ Reverting \/ ClearReversal
  BY <1>6 DEF History, UndoRedo, Diffing, BeginDiff, Reverting, Revert, ClearReversal,
              StartReversal
<1>7. CASE Accept \/ Reject \/ ClearMark \/ Save \/ SaveFails
  BY <1>7 DEF Accept, Reject, ClearMark, Save, SaveFails
<1>8. CASE Restart
  BY <1>1, <1>8 DEF Restart, Text
<1>9. CASE UNCHANGED vars
  BY <1>9 DEF vars
<1> QED BY <1>2, <1>3, <1>4, <1>5, <1>6, <1>7, <1>8, <1>9 DEF Next, Continue

-----------------------------------------------------------------------------
(* Text is written once.                                                   *)

\* The bytes that are in the stores.
Stored(st) == {b \in Bytes : b.a # Original => b.i < st[b.a]}

InStores(j, d, st) ==
    /\ d \in Seq(Stored(st))
    /\ \A s \in Seqs(j) : OpAt(j, s).ins \in Seq(Stored(st)) /\ OpAt(j, s).del \in Seq(Stored(st))

\* No byte is inserted by an edit after another edit inserted or removed it, or by the
\* edit that removes it.
WrittenOnce(j) ==
    \A s, t \in Seqs(j) :
        s <= t /\ IsEdit(j, s) /\ IsEdit(j, t) =>
            \A b \in ToSet(OpAt(j, t).ins) :
                (s < t => b \notin ToSet(OpAt(j, s).ins)) /\ b \notin ToSet(OpAt(j, s).del)

PInv == HInv /\ InStores(journal, doc, store) /\ WrittenOnce(journal)

LEMMA StoredMore ==
  ASSUME store \in [Writers -> Nat], store' \in [Writers -> Nat],
         \A a \in Writers : store[a] <= store'[a]
  PROVE  \A q \in Seq(Stored(store)) : q \in Seq(Stored(store'))
<1>1. ASSUME NEW b \in Stored(store) PROVE b \in Stored(store')
  <2>1. b \in Bytes /\ (b.a # Original => b.i < store[b.a])
    BY DEF Stored
  <2>2. b.i \in Nat /\ b.a \in {Original} \cup Writers
    BY <2>1 DEF Bytes
  <2>3. CASE b.a = Original
    BY <2>1, <2>3 DEF Stored
  <2>4. CASE b.a # Original
    <3>1. b.a \in Writers
      BY <2>2, <2>4
    <3>2. b.i < store[b.a] /\ store[b.a] <= store'[b.a] /\ store[b.a] \in Nat /\ store'[b.a] \in Nat
      BY <2>1, <2>4, <3>1
    <3>3. b.i < store'[b.a]
      BY <2>2, <3>2
    <3> QED BY <2>1, <3>3 DEF Stored
  <2> QED BY <2>3, <2>4
<1>2. ASSUME NEW q \in Seq(Stored(store)) PROVE q \in Seq(Stored(store'))
  <2>1. \A i \in 1 .. Len(q) : q[i] \in Stored(store')
    BY <1>1
  <2> QED BY <2>1
<1> QED BY <1>2

\* What is appended to a store was not in it, and is then.
LEMMA AppendedNew ==
  ASSUME store \in [Writers -> Nat], NEW a \in Writers, NEW text \in Texts \cup {<<>>},
         store' = [store EXCEPT ![a] = @ + Len(text)]
  PROVE  /\ store' \in [Writers -> Nat] /\ \A w \in Writers : store[w] <= store'[w]
         /\ Appended(a, text) \in Seq(Stored(store'))
         /\ \A b \in ToSet(Appended(a, text)) : b \notin Stored(store)
<1> DEFINE q == Appended(a, text)
           n == Len(text)
<1>1. n \in Nat
  <2>1. CASE text = <<>>
    BY <2>1
  <2>2. CASE text \in Texts
    <3>1. text \in Seq(ToSet(text))
      BY <2>2, TextsAssumption
    <3> QED BY <3>1
  <2> QED BY <2>1, <2>2
<1>2. store[a] \in Nat /\ store' = [store EXCEPT ![a] = store[a] + n]
  OBVIOUS
<1>3. a # Original
  BY AuthorsAssumption DEF Writers
<1>4. q \in Seq(Bytes)
  BY AppendedTyped
<1>5. q = [i \in 1 .. n |-> [a |-> a, i |-> store[a] + i - 1, c |-> text[i]]]
  BY DEF Appended
<1> HIDE DEF q, n
<1>6. store' \in [Writers -> Nat] /\ store'[a] = store[a] + n
      /\ \A w \in Writers : store[w] <= store'[w]
  BY <1>1, <1>2
<1>7. Len(q) = n /\ DOMAIN q = 1 .. n
  BY <1>1, <1>4, <1>5
<1>8. ASSUME NEW k \in 1 .. n PROVE q[k] \in Stored(store') /\ q[k] \notin Stored(store)
  <2>1. q[k].a = a /\ q[k].i = store[a] + k - 1
    BY <1>5
  <2>2. q[k] \in Bytes
    BY <1>4, <1>7
  <2>3. q[k].i < store'[a] /\ ~(q[k].i < store[a])
    BY <1>1, <1>2, <1>6, <2>1
  <2> QED BY <1>3, <2>1, <2>2, <2>3 DEF Stored
<1>9. q \in Seq(Stored(store'))
  <2> DEFINE T == Stored(store')
  <2>1. \A k \in 1 .. Len(q) : q[k] \in T
    BY <1>7, <1>8
  <2> HIDE DEF T
  <2>2. q \in Seq(T)
    BY <1>4, <2>1
  <2> QED BY <2>2 DEF T
<1>10. \A b \in ToSet(q) : b \notin Stored(store)
  BY <1>7, <1>8 DEF ToSet
<1> QED BY <1>6, <1>9, <1>10 DEF q

\* What is committed: o, stamped with its number and its set.
LEMMA CommitAppends ==
  ASSUME HInv, NEW o, Fits(o), NEW join \in Nat, Commit(o, join)
  PROVE  \E op \in Ops :
            /\ Longer(journal', journal, op) /\ journal' = Append(journal, op)
            /\ doc' = Splice(doc, o.pos, DelLen(o), o.ins)
            /\ op.seq = Len(journal) /\ op.pos = o.pos /\ op.del = o.del /\ op.ins = o.ins
            /\ op.kind = o.kind /\ op.undoes = o.undoes /\ op.author = o.author
            /\ op.group = IF join # 0 THEN join ELSE IF depth = 0 THEN group + 1 ELSE group
            /\ group' = IF join # 0 THEN group ELSE IF depth = 0 THEN group + 1 ELSE group
<1> DEFINE g == IF join # 0 THEN join ELSE IF depth = 0 THEN group + 1 ELSE group
           op == [o EXCEPT !.seq = Version, !.group = g]
<1>1. /\ journal' = Append(journal, op) /\ doc' = Apply(doc, op)
      /\ group' = IF join # 0 THEN group ELSE IF depth = 0 THEN group + 1 ELSE group
  BY DEF Commit
<1>2. Version \in Nat /\ Version = Len(journal) /\ journal \in Seq(Ops)
  BY TextShape DEF HInv, Text, Version
<1>3. g \in Nat
  BY DEF HInv, IInv, Log
<1>4. /\ op \in Ops /\ op.pos = o.pos /\ op.del = o.del /\ op.ins = o.ins
      /\ op.kind = o.kind /\ op.undoes = o.undoes /\ op.author = o.author
      /\ op.seq = Version /\ op.group = g
  <2> HIDE DEF g
  <2> QED BY <1>2, <1>3 DEF Fits, Ops
<1> HIDE DEF op
<1>5. doc' = Splice(doc, o.pos, DelLen(o), o.ins)
  BY <1>1, <1>4 DEF Apply, DelLen
<1>6. Longer(journal', journal, op)
  BY <1>1, <1>2, OneMore
<1> QED BY <1>1, <1>2, <1>4, <1>5, <1>6

\* All there is is stored, and text is written once: each edit inserts what its author
\* appends to the store for it.
LEMMA WritingKeeps ==
  ASSUME PInv, WritesSome
  PROVE  InStores(journal', doc', store') /\ WrittenOnce(journal')
<1>1. PICK a \in Writers, pos \in Nat, n \in Nat, text \in Texts \cup {<<>>}, join \in Nat :
          Writes(a, pos, n, text, join)
  BY DEF WritesSome
<1> DEFINE ins == Appended(a, text)
           del == SubSeq(doc, pos + 1, pos + n)
           o == Edit(a, pos, del, ins)
           T == Stored(store)
           U == Stored(store')
<1>2. /\ pos + n <= Len(doc) /\ Commit(o, join)
      /\ store' = [store EXCEPT ![a] = @ + Len(text)]
  BY <1>1 DEF Writes
<1>3. /\ HInv /\ IInv /\ Text /\ doc \in Seq(Bytes) /\ Len(doc) \in Nat /\ journal \in Seq(Ops)
      /\ store \in [Writers -> Nat] /\ Numbered(journal) /\ doc \in Seq(T)
  BY TextShape DEF PInv, HInv, DataTyped, Text, InStores
<1>4. /\ store' \in [Writers -> Nat] /\ \A w \in Writers : store[w] <= store'[w]
      /\ ins \in Seq(U) /\ \A b \in ToSet(ins) : b \notin T
  BY <1>2, <1>3, AppendedNew
<1>5. \A q \in Seq(T) : q \in Seq(U)
  BY <1>3, <1>4, StoredMore
<1>6. del \in Seq(T) /\ del \in Seq(Bytes) /\ Len(del) = n
  <2>1. pos + 1 \in Nat \ {0} /\ pos + n \in Int /\ n \in Nat
        /\ (pos + 1 <= pos + n => pos + n - (pos + 1) + 1 = n)
        /\ (~(pos + 1 <= pos + n) => n = 0)
    OBVIOUS
  <2> HIDE DEF T
  <2> DEFINE lo == pos + 1
             hi == pos + n
  <2> HIDE DEF lo, hi
  <2>2. lo \in Nat \ {0} /\ hi \in Int /\ hi <= Len(doc)
    BY <1>2, <2>1 DEF lo, hi
  <2>3. SubSeq(doc, lo, hi) \in Seq(T) /\ Len(SubSeq(doc, lo, hi)) = IF lo <= hi THEN hi - lo + 1 ELSE 0
    BY <1>3, <2>2, SubSeqShape
  <2>4. SubSeq(doc, lo, hi) \in Seq(Bytes)
    BY <1>3, <2>2, SubSeqShape
  <2> QED BY <2>1, <2>3, <2>4 DEF lo, hi
<1>7. ins \in Seq(Bytes)
  BY <1>3, AppendedTyped
<1> HIDE DEF ins, del, T, U
<1>8. Fits(o) /\ o.kind = "edit" /\ o.ins = ins /\ o.del = del /\ o.pos = pos /\ DelLen(o) = n
  BY <1>2, <1>3, <1>6, <1>7, EditFits DEF Edit, DelLen
<1> HIDE DEF o
<1>9. PICK op \in Ops : /\ Longer(journal', journal, op) /\ doc' = Splice(doc, pos, n, ins)
                        /\ op.del = del /\ op.ins = ins /\ op.kind = "edit"
  <2>1. PICK op \in Ops : /\ Longer(journal', journal, op)
                          /\ doc' = Splice(doc, o.pos, DelLen(o), o.ins)
                          /\ op.del = o.del /\ op.ins = o.ins /\ op.kind = o.kind
    BY <1>2, <1>3, <1>8, CommitAppends, Zenon
  <2> QED BY <1>8, <2>1
<1>10. doc' \in Seq(U)
  BY <1>3, <1>4, <1>5, <1>9, SpliceTyped
<1>11. /\ Seqs(journal') = Seqs(journal) \cup {Len(journal)}
       /\ \A s \in Seqs(journal) : OpAt(journal', s) = OpAt(journal, s)
       /\ OpAt(journal', Len(journal)) = op
       /\ Len(journal) \in Nat /\ Seqs(journal) = 0 .. (Len(journal) - 1)
  BY <1>9 DEF Longer, Seqs
<1>12. InStores(journal', doc', store')
  <2>1. \A s \in Seqs(journal) : OpAt(journal, s).ins \in Seq(T) /\ OpAt(journal, s).del \in Seq(T)
    BY DEF PInv, InStores, T
  <2>2. \A s \in Seqs(journal') : OpAt(journal', s).ins \in Seq(U) /\ OpAt(journal', s).del \in Seq(U)
    BY <1>4, <1>5, <1>6, <1>9, <1>11, <2>1
  <2> QED BY <1>10, <2>2 DEF InStores, U
<1>13. WrittenOnce(journal')
  <2> SUFFICES ASSUME NEW s \in Seqs(journal'), NEW t \in Seqs(journal'), s <= t,
                      IsEdit(journal', s), IsEdit(journal', t),
                      NEW b \in ToSet(OpAt(journal', t).ins)
               PROVE  /\ s < t => b \notin ToSet(OpAt(journal', s).ins)
                      /\ b \notin ToSet(OpAt(journal', s).del)
    BY DEF WrittenOnce
  <2>1. CASE t \in Seqs(journal)
    <3>1. s \in Seqs(journal)
      BY <1>11, <2>1
    <3>2. OpAt(journal', s) = OpAt(journal, s) /\ OpAt(journal', t) = OpAt(journal, t)
      BY <1>11, <2>1, <3>1
    <3>3. IsEdit(journal, s) /\ IsEdit(journal, t) /\ b \in ToSet(OpAt(journal, t).ins)
      BY <3>2 DEF IsEdit
    <3> QED BY <2>1, <3>1, <3>2, <3>3 DEF PInv, WrittenOnce
  <2>2. CASE t = Len(journal)
    <3>1. b \notin T
      BY <1>4, <1>9, <1>11, <2>2
    <3>2. ASSUME NEW q \in Seq(T) PROVE b \notin ToSet(q)
      BY <3>1 DEF ToSet
    <3>3. CASE s \in Seqs(journal)
      <4>1. OpAt(journal, s).ins \in Seq(T) /\ OpAt(journal, s).del \in Seq(T)
        BY <3>3 DEF PInv, InStores, T
      <4> QED BY <1>11, <3>2, <3>3, <4>1
    <3>4. CASE s = t
      BY <1>6, <1>9, <1>11, <2>2, <3>2, <3>4
    <3> QED BY <1>11, <2>2, <3>3, <3>4
  <2> QED BY <1>11, <2>1, <2>2
<1> QED BY <1>12, <1>13

\* A reversal writes nothing new.
LEMMA ReversingKeeps2 ==
  ASSUME PInv, Reverses
  PROVE  InStores(journal', doc', store') /\ WrittenOnce(journal')
<1>1. PICK o : o.kind # "edit" /\ Fits(o) /\ Commit(o, 0)
  BY DEF Reverses
<1>2. store' = store /\ HInv /\ 0 \in Nat
  BY DEF Reverses, PInv
<1>3. PICK op \in Ops : /\ Longer(journal', journal, op)
                        /\ doc' = Splice(doc, o.pos, DelLen(o), o.ins)
                        /\ op.del = o.del /\ op.ins = o.ins /\ op.kind # "edit"
  BY <1>1, <1>2, CommitAppends
<1>4. /\ Seqs(journal') = Seqs(journal) \cup {Len(journal)}
      /\ \A s \in Seqs(journal) : OpAt(journal', s) = OpAt(journal, s)
      /\ OpAt(journal', Len(journal)) = op
  BY <1>3 DEF Longer
<1> DEFINE T == Stored(store)
<1>5. /\ doc \in Seq(T)
      /\ \A s \in Seqs(journal) : OpAt(journal, s).ins \in Seq(T) /\ OpAt(journal, s).del \in Seq(T)
  BY DEF PInv, InStores
<1>6. o.undoes \in Seqs(journal) /\ o.ins = OpAt(journal, o.undoes).del
      /\ o.del = OpAt(journal, o.undoes).ins /\ o.pos \in Nat
  BY <1>1 DEF Fits, Ops
<1> HIDE DEF T
<1>7. o.ins \in Seq(T) /\ o.del \in Seq(T) /\ DelLen(o) \in Nat
  BY <1>5, <1>6 DEF DelLen
<1>8. doc' \in Seq(T)
  BY <1>3, <1>5, <1>6, <1>7, SpliceTyped
<1>9. \A s \in Seqs(journal') : OpAt(journal', s).ins \in Seq(T) /\ OpAt(journal', s).del \in Seq(T)
  BY <1>3, <1>4, <1>5, <1>7
<1>10. InStores(journal', doc', store')
  BY <1>2, <1>8, <1>9 DEF InStores, T
<1>11. WrittenOnce(journal')
  <2> SUFFICES ASSUME NEW s \in Seqs(journal'), NEW t \in Seqs(journal'), s <= t,
                      IsEdit(journal', s), IsEdit(journal', t),
                      NEW b \in ToSet(OpAt(journal', t).ins)
               PROVE  /\ s < t => b \notin ToSet(OpAt(journal', s).ins)
                      /\ b \notin ToSet(OpAt(journal', s).del)
    BY DEF WrittenOnce
  <2>1. s \in Seqs(journal) /\ t \in Seqs(journal)
    BY <1>3, <1>4 DEF IsEdit
  <2>2. OpAt(journal', s) = OpAt(journal, s) /\ OpAt(journal', t) = OpAt(journal, t)
    BY <1>4, <2>1
  <2>3. IsEdit(journal, s) /\ IsEdit(journal, t) /\ b \in ToSet(OpAt(journal, t).ins)
    BY <2>2 DEF IsEdit
  <2> QED BY <2>1, <2>2, <2>3 DEF PInv, WrittenOnce
<1> QED BY <1>10, <1>11

\* Unless text is pasted, the stores hold every byte, and each was written once.
LEMMA WrittenOnceAlways ==
  ASSUME "paste" \notin Moves
  PROVE  Spec => []PInv
<1>1. ASSUME Init PROVE PInv
  <2>1. HInv
    BY <1>1, InitText
  <2>2. journal = <<>> /\ Seqs(journal) = {} /\ doc = Base
    BY <1>1 DEF Init, Seqs
  <2>3. doc \in Seq(Stored(store))
    <3>1. Base \in Seq(Bytes)
      BY BaseTyped
    <3>2. Len(Base) = Len(BaseText) /\ \A i \in 1 .. Len(Base) : Base[i].a = Original
      <4>1. Len(BaseText) \in Nat
        BY TextsAssumption
      <4> QED BY <4>1 DEF Base
    <3> DEFINE T == Stored(store)
    <3>3. \A i \in 1 .. Len(Base) : Base[i] \in T
      BY <3>1, <3>2 DEF Stored
    <3> HIDE DEF T
    <3>4. Base \in Seq(T)
      BY <3>1, <3>3
    <3> QED BY <2>2, <3>4 DEF T
  <2> QED BY <2>1, <2>2, <2>3 DEF PInv, InStores, WrittenOnce
<1>2. ASSUME PInv, [Next]_vars PROVE PInv'
  <2>1. HInv'
    BY <1>2, NextText DEF PInv
  <2>2. UNCHANGED <<doc, journal, store>> \/ WritesSome \/ Reverses
    <3>1. \A h \in Humans : ~Paste(h)
      BY DEF Paste, Typist, Ready, Free
    <3> QED BY <1>2, <3>1, StepShape DEF PInv
  <2>3. InStores(journal', doc', store') /\ WrittenOnce(journal')
    <3>1. CASE UNCHANGED <<doc, journal, store>>
      <4>1. InStores(journal, doc, store) /\ WrittenOnce(journal)
        BY <1>2 DEF PInv
      <4> QED BY <3>1, <4>1
    <3>2. CASE WritesSome
      BY <1>2, <3>2, WritingKeeps
    <3>3. CASE Reverses
      BY <1>2, <3>3, ReversingKeeps2
    <3> QED BY <2>2, <3>1, <3>2, <3>3
  <2> QED BY <2>1, <2>3 DEF PInv
<1> QED BY <1>1, <1>2, PTL DEF Spec

-----------------------------------------------------------------------------
(* Typing and leases.                                                      *)

\* The states of a walk are walks.
LEMMA WalksTyped ==
  ASSUME NEW j, Numbered(j), TurnedRound(j), NEW base \in 0 .. Len(j),
         NEW lo \in Nat, NEW hi \in Nat, NEW F, Walked(F, j, Start(lo, hi), base)
  PROVE  \A i \in 0 .. (Len(j) - base) :
            F[i] \in Walks /\ \E n \in Nat : InsideWalk(j, F[i], n)
<1> DEFINE m == Len(j) - base
           live == InEffect(j)
           X == {w \in Walks : \E n \in Nat : InsideWalk(j, w, n)}
           S == {i \in Nat : i <= m => F[i] \in X}
<1>1. j \in Seq(Ops) /\ Len(j) \in Nat /\ base \in Nat /\ m \in Nat
  BY DEF Numbered
<1>2. 0 \in S
  <2>1. lo + hi \in Nat /\ lo <= lo + hi /\ hi <= lo + hi
    OBVIOUS
  <2>2. Start(lo, hi) \in Walks /\ InsideWalk(j, Start(lo, hi), lo + hi)
    BY <2>1, StartInside
  <2> QED BY <2>1, <2>2 DEF Walked
<1>3. ASSUME NEW i \in Nat, i \in S PROVE i + 1 \in S
  <2> SUFFICES ASSUME i + 1 <= m PROVE F[i + 1] \in X
    OBVIOUS
  <2> DEFINE s == base + i
             o == OpAt(j, s)
             w == F[i]
             c == Carried(j, live, w, o)
  <2>1. w \in X
    <3>1. i <= m
      BY <1>1
    <3> QED BY <1>3, <3>1
  <2>2. /\ s \in Seqs(j) /\ i + 1 \in 1 .. m
        /\ (i + 1) - 1 = i /\ base + (i + 1) - 1 = s
    BY <1>1 DEF Seqs
  <2>3. F[i + 1] = c
    BY <2>2, Zenon DEF Walked
  <2> HIDE DEF s
  <2>4. PICK n \in Nat : InsideWalk(j, w, n)
    BY <2>1
  <2>5. w \in Walks /\ w.lo \in Points /\ w.hi \in Points
    BY <2>1 DEF Walks
  <2>6. o.pos \in Nat /\ DelLen(o) \in Nat
    BY <2>2, OpShape
  <2> DEFINE N == n + (o.pos + DelLen(o))
  <2>7. N \in Nat /\ n <= N /\ o.pos + DelLen(o) <= N
    <3> HIDE DEF o
    <3> QED BY <2>6
  <2> HIDE DEF N
  <2>8. InsideWalk(j, w, N)
    BY <2>4, <2>5, <2>7, InsideMore DEF InsideWalk
  <2>9. /\ c \in Walks /\ N + Delta(o) \in Nat
        /\ InsideWalk(j, c, N) \/ InsideWalk(j, c, N + Delta(o))
    <3> HIDE DEF w, live
    <3> QED BY <2>2, <2>5, <2>7, <2>8, WalkStep
  <2> HIDE DEF c, o
  <2> QED BY <2>3, <2>7, <2>9
<1>4. \A i \in Nat : i \in S
  <2> HIDE DEF S
  <2> QED BY <1>2, <1>3, Inductive
<1> QED BY <1>1, <1>4

\* A step of a walk depends on the journal only for the reversers of its op.
LEMMA SameStep ==
  ASSUME NEW j, NEW k, NEW lj, NEW lk, NEW o,
         LiveReversers(k, lk, o.seq) = LiveReversers(j, lj, o.seq),
         lk[o.seq] = lj[o.seq], NEW w
  PROVE  Carried(k, lk, w, o) = Carried(j, lj, w, o)
<1>1. \A p, right : Carry(k, lk, p, o, right) = Carry(j, lj, p, o, right)
  BY DEF Carry
<1>2. \A a, b : Damages(lk, o, a, b) = Damages(lj, o, a, b)
  BY DEF Damages
<1> DEFINE empty == ~w.lo.held /\ ~w.hi.held /\ w.lo.at = w.hi.at
           bad == [w EXCEPT !.bad = o.seq]
           A(k1, l1) == [w EXCEPT !.lo = Carry(k1, l1, w.lo, o, TRUE), !.hi = Carry(k1, l1, w.hi, o, empty)]
<1>3. A(k, lk) = A(j, lj)
  BY <1>1, Zenon
<1>4. Carried(k, lk, w, o) = IF w.bad # Whole THEN w ELSE IF Damages(lk, o, w.lo, w.hi) THEN bad ELSE A(k, lk)
  BY Zenon DEF Carried
<1>5. Carried(j, lj, w, o) = IF w.bad # Whole THEN w ELSE IF Damages(lj, o, w.lo, w.hi) THEN bad ELSE A(j, lj)
  BY Zenon DEF Carried
<1> HIDE DEF A, bad
<1>6. CASE w.bad # Whole
  BY <1>4, <1>5, <1>6, Zenon
<1>7. CASE w.bad = Whole /\ Damages(lj, o, w.lo, w.hi)
  <2>1. Damages(lk, o, w.lo, w.hi)
    BY <1>2, <1>7, Zenon
  <2> QED BY <1>4, <1>5, <1>7, <2>1, Zenon
<1>8. CASE w.bad = Whole /\ ~Damages(lj, o, w.lo, w.hi)
  <2>1. ~Damages(lk, o, w.lo, w.hi)
    BY <1>2, <1>8, Zenon
  <2> QED BY <1>3, <1>4, <1>5, <1>8, <2>1, Zenon
<1> QED BY <1>6, <1>7, <1>8, Zenon

\* The two ends of an empty range stay together.
LEMMA EndsTogether ==
  ASSUME NEW j, NEW live, NEW o, NEW w \in Walks, w.lo = w.hi
  PROVE  Carried(j, live, w, o).lo = Carried(j, live, w, o).hi
<1> DEFINE a == Carry(j, live, w.lo, o, TRUE)
           b == Carry(j, live, w.hi, o, ~w.lo.held /\ ~w.hi.held /\ w.lo.at = w.hi.at)
<1>1. a = b
  <2>1. CASE w.lo.held
    BY <2>1 DEF Carry
  <2>2. CASE ~w.lo.held
    <3>1. (~w.lo.held /\ ~w.hi.held /\ w.lo.at = w.hi.at) = TRUE
      BY <2>2
    <3> QED BY <3>1
  <2> QED BY <2>1, <2>2
<1>2. \/ Carried(j, live, w, o) = w
      \/ Carried(j, live, w, o) = [w EXCEPT !.bad = o.seq]
      \/ Carried(j, live, w, o) = [w EXCEPT !.lo = a, !.hi = b]
  BY DEF Carried
<1> HIDE DEF a, b
<1> QED BY <1>1, <1>2 DEF Walks

\* The walk over k is the walk over j and a step over the last op, o.
OneStepMore(j, k, o, base, lo, hi) ==
    \E w \in Walks :
        /\ \E n \in Nat : InsideWalk(k, w, n)
        /\ Rebase(j, lo, hi, base) = Landing(w)
        /\ Rebase(k, lo, hi, base) = Landing(Carried(k, InEffect(k), w, o))
        /\ lo = hi => w.lo = w.hi

\* An edit leaves the walks over the ops before it as they were.
LEMMA MoreWalks ==
  ASSUME NEW j, NEW k, NEW o, Longer(k, j, o), o.kind = "edit", Ordered(j), Ordered(k),
         Numbered(j), TurnedRound(j), Numbered(k), TurnedRound(k),
         NEW base \in 0 .. Len(j), NEW lo \in Nat, NEW hi \in Nat
  PROVE  OneStepMore(j, k, o, base, lo, hi)
<1> DEFINE m == Len(j) - base
           lj == InEffect(j)
           lk == InEffect(k)
<1>1. /\ Len(j) \in Nat /\ base \in Nat /\ m \in Nat /\ Len(k) = Len(j) + 1
      /\ base \in 0 .. Len(k) /\ Len(k) - base = m + 1 /\ base + (m + 1) - 1 = Len(j)
      /\ m + 1 \in 1 .. (m + 1) /\ (m + 1) - 1 = m /\ m \in 0 .. (m + 1)
      /\ OpAt(k, Len(j)) = o /\ \A s \in Seqs(j) : OpAt(k, s) = OpAt(j, s)
  BY DEF Longer
<1>2. /\ \A s \in Seqs(j) : Reversers(k, s) = Reversers(j, s)
      /\ \A r \in Seqs(j) : lk[r] = lj[r]
  BY EditTakesEffect, Zenon
<1>3. PICK F : Walked(F, j, Start(lo, hi), base) /\ Rebase(j, lo, hi, base) = Landing(F[m])
  BY <1>1, WalkRuns
<1>4. PICK G : Walked(G, k, Start(lo, hi), base) /\ Rebase(k, lo, hi, base) = Landing(G[m + 1])
  <2>1. PICK G : /\ Walked(G, k, Start(lo, hi), base)
                 /\ Rebase(k, lo, hi, base) = Landing(G[Len(k) - base])
    BY <1>1, WalkRuns
  <2>2. G[Len(k) - base] = G[m + 1]
    BY <1>1
  <2> HIDE DEF m
  <2> QED BY <2>1, <2>2, Zenon
<1>5. \A i \in 0 .. (m + 1) : G[i] \in Walks /\ \E n \in Nat : InsideWalk(k, G[i], n)
  BY <1>1, <1>4, WalksTyped
<1>6. ASSUME NEW s \in Seqs(j), NEW w
      PROVE  Carried(k, lk, w, OpAt(j, s)) = Carried(j, lj, w, OpAt(j, s))
  <2>1. OpAt(j, s).seq = s
    BY DEF Numbered
  <2>2. \A r \in Reversers(j, s) : r \in Seqs(j)
    BY DEF Reversers
  <2>3. LiveReversers(k, lk, s) = LiveReversers(j, lj, s)
    <3> HIDE DEF lk, lj
    <3> QED BY <1>2, <2>2 DEF LiveReversers
  <2> HIDE DEF lk, lj
  <2> QED BY <1>2, <2>1, <2>3, SameStep
<1> HIDE DEF lk, lj, m
<1> DEFINE S == {i \in Nat : i <= m => G[i] = F[i] /\ (lo = hi => G[i].lo = G[i].hi)}
<1>7. 0 \in S
  <2>1. G[0] = Start(lo, hi) /\ F[0] = Start(lo, hi)
    BY <1>3, <1>4 DEF Walked
  <2>2. Start(lo, hi).lo = PointAt(lo) /\ Start(lo, hi).hi = PointAt(hi)
    BY DEF Start
  <2> QED BY <2>1, <2>2
<1>8. ASSUME NEW i \in Nat, i \in S PROVE i + 1 \in S
  <2> SUFFICES ASSUME i + 1 <= m
               PROVE  G[i + 1] = F[i + 1] /\ (lo = hi => G[i + 1].lo = G[i + 1].hi)
    OBVIOUS
  <2> DEFINE s == base + i
  <2>1. /\ s \in Seqs(j) /\ i + 1 \in 1 .. m /\ i + 1 \in 1 .. (m + 1) /\ i \in 0 .. (m + 1)
        /\ (i + 1) - 1 = i /\ base + (i + 1) - 1 = s /\ i <= m
    BY <1>1 DEF Seqs, m
  <2>2. F[i + 1] = Carried(j, lj, F[i], OpAt(j, s))
    BY <1>3, <2>1, Zenon DEF Walked, lj, m
  <2>3. G[i + 1] = Carried(k, lk, G[i], OpAt(k, s))
    <3>1. i + 1 \in 1 .. (Len(k) - base)
      BY <1>1, <2>1
    <3> QED BY <1>4, <2>1, <3>1, Zenon DEF Walked, lk
  <2>4. G[i] = F[i] /\ (lo = hi => G[i].lo = G[i].hi) /\ G[i] \in Walks
    BY <1>5, <1>8, <2>1
  <2>5. OpAt(k, s) = OpAt(j, s)
    BY <1>1, <2>1
  <2> HIDE DEF s
  <2>6. G[i + 1] = F[i + 1]
    BY <1>6, <2>1, <2>2, <2>3, <2>4, <2>5
  <2>7. lo = hi => G[i + 1].lo = G[i + 1].hi
    BY <2>3, <2>4, EndsTogether
  <2> QED BY <2>6, <2>7
<1>9. \A i \in Nat : i \in S
  <2> HIDE DEF S
  <2> QED BY <1>7, <1>8, Inductive
<1>10. G[m] = F[m] /\ (lo = hi => G[m].lo = G[m].hi)
  BY <1>1, <1>9
<1>11. G[m + 1] = Carried(k, lk, G[m], o)
  <2>1. m + 1 \in 1 .. (Len(k) - base)
    BY <1>1
  <2> QED BY <1>1, <1>4, <2>1, Zenon DEF Walked, lk
<1>12. G[m] \in Walks /\ \E n \in Nat : InsideWalk(k, G[m], n)
  BY <1>1, <1>5
<1> QED BY <1>3, <1>4, <1>10, <1>11, <1>12 DEF lk, OneStepMore

\* Carrying a point over an edit in effect.
LEMMA OverEdit ==
  ASSUME NEW j, NEW live, NEW o, LiveReversers(j, live, o.seq) = {},
         o.pos \in Nat, InsLen(o) \in Nat, DelLen(o) \in Nat,
         NEW p \in Points, ~p.held, NEW right
  PROVE  ~Carry(j, live, p, o, right).held
<1> DEFINE c == Carry(j, live, p, o, right)
           end == o.pos + DelLen(o)
<1>1. c = CASE DelLen(o) = 0 /\ o.pos = p.at -> LandsOn(p, o, right)
         [] DelLen(o) # 0 /\ end = p.at ->
              [p EXCEPT !.at = @ + Delta(o), !.anchored = Anchor(p, o, FALSE)]
         [] end < p.at -> [p EXCEPT !.at = @ + Delta(o)]
         [] o.pos = p.at /\ DelLen(o) # 0 -> [p EXCEPT !.anchored = Anchor(p, o, TRUE)]
         [] o.pos > p.at -> p
         [] OTHER -> [p EXCEPT !.at = o.pos]
  BY DEF Carry
<1>2. CASE DelLen(o) = 0 /\ o.pos = p.at
  <2>1. c = LandsOn(p, o, right)
    BY <1>1, <1>2
  <2> QED BY <1>2, <2>1, LandsShape
<1>3. CASE DelLen(o) # 0 \/ o.pos # p.at
  <2>1. \/ c = [p EXCEPT !.at = @ + Delta(o), !.anchored = Anchor(p, o, FALSE)]
        \/ c = [p EXCEPT !.at = @ + Delta(o)]
        \/ c = [p EXCEPT !.anchored = Anchor(p, o, TRUE)]
        \/ c = p
        \/ c = [p EXCEPT !.at = o.pos]
    BY <1>1, <1>3
  <2> DEFINE x == p.at + Delta(o)
             y == o.pos
             A == Anchor(p, o, FALSE)
             B == Anchor(p, o, TRUE)
  <2>2. \/ c = [p EXCEPT !.at = x, !.anchored = A]
        \/ c = [p EXCEPT !.at = x]
        \/ c = [p EXCEPT !.anchored = B]
        \/ c = p
        \/ c = [p EXCEPT !.at = y]
    BY <2>1
  <2> HIDE DEF c, x, y, A, B
  <2>3. p = [at |-> p.at, held |-> p.held, by |-> p.by, off |-> p.off, anchored |-> p.anchored]
    BY DEF Points
  <2>4. c.held = p.held
    BY <2>2, <2>3
  <2> QED BY <2>4 DEF c
<1> QED BY <1>2, <1>3

\* A stroke of typing is an insertion or a deletion of a person's.
LEMMA TypedShape ==
  ASSUME HInv, [Next]_vars, Typed, "paste" \notin Moves
  PROVE  \E h \in Humans : Insert(h) \/ Delete(h)
<1>1. journal' # journal /\ work.on \in {"idle", "action"}
  <2>1. Len(journal) \in Nat
    BY TextShape DEF HInv, Text
  <2> QED BY <2>1 DEF Typed
<1>2. CASE Typing
  <2>1. PICK h \in Humans : Insert(h) \/ Delete(h) \/ Paste(h) \/ BeginAction(h)
    BY <1>2 DEF Typing
  <2>2. ~Paste(h) /\ ~BeginAction(h)
    BY <1>1 DEF Paste, Typist, Ready, Free, BeginAction
  <2> QED BY <2>1, <2>2
<1>3. CASE Hunk \/ ReverseMember \/ RollbackMember
  BY <1>1, <1>3 DEF Hunk, ReverseMember, RollbackMember
<1>4. CASE ReverseBlocked \/ EndFailed \/ EndReversal \/ NextReversal \/ EndAction \/ EndDiff
  BY <1>1, <1>4 DEF ReverseBlocked, EndFailed, EndReversal, NextReversal, EndAction, EndDiff
<1>5. CASE History \/ Diffing \/ Reverting \/ ClearReversal
  BY <1>1, <1>5 DEF History, UndoRedo, Diffing, BeginDiff, Reverting, Revert, ClearReversal,
                    StartReversal
<1>6. CASE Accept \/ Reject \/ ClearMark \/ Save \/ SaveFails \/ Restart
  BY <1>1, <1>6 DEF Accept, Reject, ClearMark, Save, SaveFails, Restart
<1>7. CASE UNCHANGED vars
  BY <1>1, <1>7 DEF vars
<1> QED BY <1>2, <1>3, <1>4, <1>5, <1>6, <1>7 DEF Next, Continue

\* Every byte a live edit wrote is that edit's.
LEMMA OwnerIs ==
  ASSUME PInv, NEW s \in LiveEdits(journal), NEW b \in Owned(OpAt(journal, s))
  PROVE  OwnerOf(journal, b) = OpAt(journal, s).group
<1> DEFINE claims == {t \in LiveEdits(journal) : b \in Owned(OpAt(journal, t))}
<1>1. journal \in Seq(Ops) /\ Len(journal) \in Nat
  BY DEF PInv, HInv, Text
<1>2. \A t \in claims : t = s
  <2> SUFFICES ASSUME NEW t \in claims, t # s PROVE FALSE
    OBVIOUS
  <2>1. /\ t \in Seqs(journal) /\ s \in Seqs(journal) /\ IsEdit(journal, t) /\ IsEdit(journal, s)
        /\ b \in ToSet(OpAt(journal, t).ins) /\ b \in ToSet(OpAt(journal, s).ins)
    BY DEF LiveEdits, IsEdit, Owned
  <2>2. (s < t /\ s <= t) \/ (t < s /\ t <= s)
    BY <1>1, <2>1 DEF Seqs
  <2> QED BY <2>1, <2>2 DEF PInv, WrittenOnce
<1>3. claims = {s}
  BY <1>2
<1>4. Max(claims) = s
  <2>1. s \in 0 .. Len(journal)
    BY <1>1 DEF LiveEdits, Seqs
  <2>2. claims \subseteq 0 .. Len(journal) /\ claims # {}
    BY <1>3, <2>1
  <2> HIDE DEF claims
  <2>3. Max(claims) \in claims
    BY <1>1, <2>2, MaxExists
  <2> QED BY <1>3, <2>3
<1> HIDE DEF claims
<1>5. OwnerOf(journal, b) = IF claims = {} THEN 0 ELSE OpAt(journal, Max(claims)).group
  BY DEF OwnerOf, claims
<1> QED BY <1>3, <1>4, <1>5

LEMMA ConcatAt ==
  ASSUME NEW B, NEW s \in Seq(B), NEW t \in Seq(B), NEW i \in 1 .. (Len(s) + Len(t))
  PROVE  (s \o t)[i] = IF i <= Len(s) THEN s[i] ELSE t[i - Len(s)]
OBVIOUS

\* e is d with the n bytes at pos replaced by ins.
Spliced(e, d, pos, n, ins) ==
    /\ Len(e) = Len(d) + Len(ins) - n
    /\ \A i \in 1 .. pos : e[i] = d[i]
    /\ \A i \in 1 .. Len(ins) : e[pos + i] = ins[i]
    /\ \A i \in (pos + n + 1) .. Len(d) : e[i + Len(ins) - n] = d[i]

\* Where the bytes of a splice inside the text come from.
LEMMA SpliceAt ==
  ASSUME NEW B, NEW d \in Seq(B), NEW ins \in Seq(B), NEW pos \in Nat, NEW n \in Nat,
         pos + n <= Len(d)
  PROVE  Spliced(Splice(d, pos, n, ins), d, pos, n, ins)
<1> DEFINE a == SubSeq(d, 1, pos)
           q == pos + n + 1
           c == SubSeq(d, q, Len(d))
           ac == a \o ins
           e == Splice(d, pos, n, ins)
<1>1. /\ Len(d) \in Nat /\ pos <= Len(d) /\ q \in Nat \ {0} /\ ~(pos > Len(d))
      /\ ~(pos + n > Len(d)) /\ Len(ins) \in Nat
  OBVIOUS
<1>2. e = ac \o c
  <2>1. e = SubSeq(d, 1, pos) \o ins \o SubSeq(d, pos + n + 1, Len(d))
    BY <1>1 DEF Splice
  <2> QED BY <2>1
<1>3. a \in Seq(B) /\ Len(a) = pos /\ \A i \in 1 .. pos : a[i] = d[i]
  BY <1>1
<1>4. c \in Seq(B) /\ Len(c) = Len(d) - (pos + n)
      /\ \A i \in 1 .. (Len(d) - (pos + n)) : c[i] = d[pos + n + i]
  BY <1>1
<1>5. ac \in Seq(B) /\ Len(ac) = pos + Len(ins)
  <2> HIDE DEF a
  <2> QED BY <1>3, ConcatShape
<1>6. /\ \A i \in 1 .. pos : ac[i] = d[i]
      /\ \A i \in 1 .. Len(ins) : ac[pos + i] = ins[i]
  <2> HIDE DEF a
  <2>1. ASSUME NEW i \in 1 .. (pos + Len(ins)) PROVE ac[i] = IF i <= pos THEN a[i] ELSE ins[i - pos]
    BY <1>3, ConcatAt
  <2> HIDE DEF ac
  <2>2. ASSUME NEW i \in 1 .. pos PROVE ac[i] = d[i]
    <3>1. i \in 1 .. (pos + Len(ins)) /\ i <= pos
      BY <1>1
    <3> QED BY <1>3, <2>1, <3>1
  <2>3. ASSUME NEW i \in 1 .. Len(ins) PROVE ac[pos + i] = ins[i]
    <3>1. pos + i \in 1 .. (pos + Len(ins)) /\ ~(pos + i <= pos) /\ (pos + i) - pos = i
      BY <1>1
    <3> QED BY <2>1, <3>1
  <2> QED BY <2>2, <2>3
<1> HIDE DEF a, c, ac, e
<1>7. e \in Seq(B) /\ Len(e) = Len(d) + Len(ins) - n
  <2>1. e \in Seq(B) /\ Len(e) = Len(ac) + Len(c)
    BY <1>2, <1>4, <1>5, ConcatShape
  <2> QED BY <1>1, <1>4, <1>5, <2>1
<1>8. ASSUME NEW i \in 1 .. (Len(ac) + Len(c))
      PROVE  e[i] = IF i <= Len(ac) THEN ac[i] ELSE c[i - Len(ac)]
  BY <1>2, <1>4, <1>5, ConcatAt
<1>9. ASSUME NEW i \in 1 .. pos PROVE e[i] = d[i]
  <2>1. i \in 1 .. (Len(ac) + Len(c)) /\ i <= Len(ac)
    BY <1>1, <1>4, <1>5
  <2> QED BY <1>6, <1>8, <2>1
<1>10. ASSUME NEW i \in 1 .. Len(ins) PROVE e[pos + i] = ins[i]
  <2>1. pos + i \in 1 .. (Len(ac) + Len(c)) /\ pos + i <= Len(ac)
    BY <1>1, <1>4, <1>5
  <2> QED BY <1>6, <1>8, <2>1
<1>11. ASSUME NEW i \in (pos + n + 1) .. Len(d) PROVE e[i + Len(ins) - n] = d[i]
  <2> DEFINE x == i + Len(ins) - n
             y == i - (pos + n)
  <2>1. /\ x \in 1 .. (Len(ac) + Len(c)) /\ ~(x <= Len(ac)) /\ x - Len(ac) = y
        /\ y \in 1 .. (Len(d) - (pos + n)) /\ pos + n + y = i
    BY <1>1, <1>4, <1>5
  <2> HIDE DEF x, y
  <2>2. e[x] = c[y]
    BY <1>8, <2>1
  <2> QED BY <1>4, <2>1, <2>2 DEF x
<1>12. Spliced(e, d, pos, n, ins)
  BY <1>7, <1>9, <1>10, <1>11 DEF Spliced
<1> QED BY <1>12 DEF e

\* A splice loses only bytes of its range.
LEMMA StaysIn ==
  ASSUME NEW d \in Seq(Bytes), NEW pos \in Nat, NEW n \in Nat, pos + n <= Len(d),
         NEW ins \in Seq(Bytes), NEW k \in 1 .. Len(d), k \notin (pos + 1) .. (pos + n)
  PROVE  d[k] \in ToSet(Splice(d, pos, n, ins))
<1> DEFINE e == Splice(d, pos, n, ins)
<1>1. /\ e \in Seq(Bytes) /\ Len(e) = Len(d) + Len(ins) - n
      /\ \A i \in 1 .. pos : e[i] = d[i]
      /\ \A i \in (pos + n + 1) .. Len(d) : e[i + Len(ins) - n] = d[i]
  <2>1. e \in Seq(Bytes)
    BY SpliceTyped
  <2>2. Spliced(e, d, pos, n, ins)
    BY SpliceAt
  <2> HIDE DEF e
  <2> QED BY <2>1, <2>2 DEF Spliced
<1> HIDE DEF e
<1>2. Len(d) \in Nat /\ Len(ins) \in Nat
  OBVIOUS
<1>3. CASE k <= pos
  <2>1. e[k] = d[k] /\ k \in 1 .. Len(e)
    BY <1>1, <1>2, <1>3
  <2> QED BY <2>1 DEF ToSet, e
<1>4. CASE k > pos + n
  <2> DEFINE i == k + Len(ins) - n
  <2>1. i \in 1 .. Len(e) /\ k \in (pos + n + 1) .. Len(d)
    BY <1>1, <1>2, <1>4
  <2>2. e[i] = d[k]
    BY <1>1, <2>1
  <2> HIDE DEF i
  <2>3. i \in DOMAIN e
    BY <1>1, <2>1
  <2>4. e[i] \in ToSet(e)
    BY <2>3 DEF ToSet
  <2> QED BY <2>2, <2>4 DEF e
<1> QED BY <1>3, <1>4

\* What a stroke does: it is an edit of a range that no decision holds.
Stroke(pos, n, ins, op) ==
    /\ pos + n <= Len(doc)
    /\ ~Leased(journal, doc, decided, pos, n)
    /\ decided' = decided
    /\ doc' = Splice(doc, pos, n, ins)
    /\ Longer(journal', journal, op)
    /\ op.kind = "edit" /\ op.pos = pos /\ DelLen(op) = n /\ op.seq = Len(journal)

LEMMA StrokeIs ==
  ASSUME HInv, NEW h \in Humans, Insert(h) \/ Delete(h)
  PROVE  \E pos \in Nat, n \in Nat, ins \in Seq(Bytes), op \in Ops : Stroke(pos, n, ins, op)
<1>1. /\ doc \in Seq(Bytes) /\ Len(doc) \in Nat /\ store \in [Writers -> Nat] /\ h \in Writers
      /\ 0 \in Nat /\ IInv /\ Text
  BY TextShape DEF HInv, DataTyped, Writers
<1>2. ASSUME NEW pos \in Nat, NEW n \in Nat, NEW del \in Seq(Bytes), NEW ins \in Seq(Bytes),
             Len(del) = n, pos + n <= Len(doc), Commit(Edit(h, pos, del, ins), 0),
             ~Leased(journal, doc, decided, pos, n), decided' = decided
      PROVE  \E op \in Ops : Stroke(pos, n, ins, op)
  <2> DEFINE o == Edit(h, pos, del, ins)
  <2>1. Fits(o) /\ o.kind = "edit" /\ o.ins = ins /\ o.del = del /\ o.pos = pos /\ DelLen(o) = n
    BY <1>1, <1>2, EditFits DEF Edit, DelLen
  <2> HIDE DEF o
  <2>2. Commit(o, 0)
    BY <1>2 DEF o
  <2>3. PICK op \in Ops :
            /\ Longer(journal', journal, op) /\ doc' = Splice(doc, o.pos, DelLen(o), o.ins)
            /\ op.seq = Len(journal) /\ op.pos = o.pos /\ op.del = o.del /\ op.kind = o.kind
    BY <1>1, <2>1, <2>2, CommitAppends, Zenon
  <2>4. DelLen(op) = n
    BY <2>1, <2>3 DEF DelLen
  <2> QED BY <1>2, <2>1, <2>3, <2>4 DEF Stroke
<1>3. CASE Insert(h)
  <2>1. PICK pos \in 0 .. Len(doc), text \in Texts :
            /\ ~Leased(journal, doc, decided, pos, 0)
            /\ Commit(Edit(h, pos, <<>>, Appended(h, text)), 0)
            /\ decided' = decided
    BY <1>3 DEF Insert
  <2>2. pos \in Nat /\ pos + 0 <= Len(doc) /\ <<>> \in Seq(Bytes) /\ Len(<<>>) = 0
    BY <1>1
  <2>3. Appended(h, text) \in Seq(Bytes)
    BY <1>1, AppendedTyped
  <2>4. \E op \in Ops : Stroke(pos, 0, Appended(h, text), op)
    BY <1>1, <1>2, <2>1, <2>2, <2>3
  <2> QED BY <1>1, <2>2, <2>3, <2>4
<1>4. CASE Delete(h)
  <2>1. PICK pos \in 0 .. (Len(doc) - 1), n \in 1 .. MaxCut :
            /\ pos + n <= Len(doc)
            /\ ~Leased(journal, doc, decided, pos, n)
            /\ Commit(Edit(h, pos, SubSeq(doc, pos + 1, pos + n), <<>>), 0)
            /\ decided' = decided
    BY <1>4 DEF Delete
  <2>2. pos \in Nat /\ n \in Nat /\ <<>> \in Seq(Bytes)
    BY <1>1, BoundsAssumption
  <2> DEFINE del == SubSeq(doc, pos + 1, pos + n)
  <2>3. del \in Seq(Bytes) /\ Len(del) = n
    <3> DEFINE lo == pos + 1
               hi == pos + n
    <3>1. /\ lo \in Nat \ {0} /\ hi \in Int /\ hi <= Len(doc)
          /\ (IF lo <= hi THEN hi - lo + 1 ELSE 0) = n
      BY <2>1, <2>2
    <3> HIDE DEF lo, hi
    <3>2. SubSeq(doc, lo, hi) \in Seq(Bytes)
          /\ Len(SubSeq(doc, lo, hi)) = IF lo <= hi THEN hi - lo + 1 ELSE 0
      BY <1>1, <3>1, SubSeqShape
    <3> QED BY <3>1, <3>2 DEF lo, hi
  <2>4. \E op \in Ops : Stroke(pos, n, <<>>, op)
    <3> HIDE DEF del
    <3>1. Commit(Edit(h, pos, del, <<>>), 0)
      BY <2>1 DEF del
    <3> QED BY <1>2, <2>1, <2>2, <2>3, <3>1
  <2> QED BY <2>2, <2>4
<1> QED BY <1>3, <1>4

\* Text of a set that carries a decision is leased.
LEMMA LeasedText ==
  ASSUME PInv, NEW pos \in Nat, NEW n \in Nat, ~Leased(journal, doc, decided, pos, n),
         NEW g \in DOMAIN decided, NEW s \in Members(journal, g),
         NEW k \in 1 .. Len(doc), doc[k] \in Owned(OpAt(journal, s))
  PROVE  k \notin (pos + 1) .. (pos + n)
<1> SUFFICES ASSUME k \in (pos + 1) .. (pos + n) PROVE FALSE
  OBVIOUS
<1>1. s \in LiveEdits(journal) /\ OpAt(journal, s).group = g
  BY DEF Members
<1>2. OwnerOf(journal, doc[k]) = g
  BY <1>1, OwnerIs
<1>3. n # 0
  OBVIOUS
<1>4. Touches(journal, doc, g, pos, n)
  BY <1>2, <1>3 DEF Touches
<1>5. decided[g] \in {"proposed", "rejected"}
  BY DEF PInv, HInv, DataTyped, States
<1>6. \/ g \in RunLeases(journal, doc, decided, pos, n, "proposed")
      \/ g \in RunLeases(journal, doc, decided, pos, n, "rejected")
  BY <1>4, <1>5 DEF RunLeases
<1> QED BY <1>6 DEF Leased, RejectedLeases, ProposedLeases

\* A gap that is still there after an op that does not surround it.
LEMMA GapStays ==
  ASSUME NEW j, NEW k, NEW o, Longer(k, j, o), o.kind = "edit", Ordered(j), Ordered(k),
         Numbered(j), TurnedRound(j), Numbered(k), TurnedRound(k),
         o.seq = Len(j), o \in Ops,
         NEW base \in 0 .. Len(j), NEW x \in Nat,
         Rebase(j, x, x, base).ok,
         LET at == Rebase(j, x, x, base).lo IN ~(o.pos < at /\ at < o.pos + DelLen(o))
  PROVE  Rebase(k, x, x, base).ok
<1>1. PICK w \in Walks : /\ Rebase(j, x, x, base) = Landing(w)
                         /\ Rebase(k, x, x, base) = Landing(Carried(k, InEffect(k), w, o))
                         /\ w.lo = w.hi
  <2>1. OneStepMore(j, k, o, base, x, x)
    BY MoreWalks
  <2> QED BY <2>1 DEF OneStepMore
<1>2. /\ w.lo \in Points /\ w.bad \in Int /\ w.lo.at \in Nat
      /\ w = [lo |-> w.lo, hi |-> w.hi, bad |-> w.bad]
  BY DEF Walks, Points
<1>3. w.bad = Whole /\ ~w.lo.held /\ Rebase(j, x, x, base).lo = w.lo.at
  BY <1>1 DEF Landing, Lost
<1>4. o.pos \in Nat /\ DelLen(o) \in Nat /\ InsLen(o) \in Nat
  BY DEF Ops, DelLen, InsLen
<1>5. ~Damages(InEffect(k), o, w.lo, w.hi)
  <2>1. ~(o.pos < w.lo.at /\ w.lo.at < o.pos + DelLen(o))
    BY <1>3
  <2> QED BY <1>1, <1>2, <1>4, <2>1 DEF Damages
<1>6. LiveReversers(k, InEffect(k), o.seq) = {}
  <2>1. Reversers(k, Len(j)) = {}
    BY ReversersMore
  <2> QED BY <2>1 DEF LiveReversers
<1> DEFINE a == Carry(k, InEffect(k), w.lo, o, TRUE)
           b == Carry(k, InEffect(k), w.hi, o, ~w.lo.held /\ ~w.hi.held /\ w.lo.at = w.hi.at)
           c == Carried(k, InEffect(k), w, o)
<1>7. ~a.held /\ ~b.held
  <2>1. \A right : ~Carry(k, InEffect(k), w.lo, o, right).held
    BY <1>2, <1>3, <1>4, <1>6, OverEdit
  <2> QED BY <1>1, <2>1
<1>8. c = [w EXCEPT !.lo = a, !.hi = b]
  BY <1>3, <1>5 DEF Carried
<1> HIDE DEF a, b, c
<1>9. c.lo = a /\ c.hi = b /\ c.bad = Whole
  BY <1>2, <1>3, <1>8
<1>10. Landing(c).ok
  BY <1>7, <1>9 DEF Landing
<1> QED BY <1>1, <1>10 DEF c

\* A proposed deletion is leased around the gap it left.
LEMMA LeasedGap ==
  ASSUME NEW pos \in Nat, NEW n \in Nat, ~Leased(journal, doc, decided, pos, n),
         NEW g \in GroupIds(journal), StateOf(decided, g) = "proposed",
         \A s \in Members(journal, g) : InsLen(OpAt(journal, s)) = 0,
         NEW s \in Members(journal, g), NEW r,
         r = Rebase(journal, OpAt(journal, s).pos, OpAt(journal, s).pos, OpAt(journal, s).seq + 1),
         r.ok, r.lo \in Nat
  PROVE  ~(pos < r.lo /\ r.lo < pos + n)
<1> SUFFICES ASSUME pos < r.lo, r.lo < pos + n PROVE FALSE
  OBVIOUS
<1> DEFINE h == [start |-> r.lo, end |-> r.lo]
<1>1. InsLen(OpAt(journal, s)) = 0
  OBVIOUS
<1>2. MemberSpans(journal, doc, OpAt(journal, s)) = GapAt(r)
  BY <1>1, Zenon DEF MemberSpans
<1>3. h \in MemberSpans(journal, doc, OpAt(journal, s))
  BY <1>2 DEF GapAt
<1>4. Overlapping(h, [start |-> pos, end |-> pos + n])
  BY DEF Overlapping
<1>5. DOMAIN decided # {}
  BY DEF StateOf
<1> HIDE DEF h
<1>6. g \in DeletionLeases(journal, doc, decided, pos, n, "proposed")
  BY <1>3, <1>4, <1>5 DEF DeletionLeases
<1> QED BY <1>6 DEF Leased, ProposedLeases

\* What is typed never takes text from a set that carries a decision, and never removes
\* the text around a proposed deletion, which would take it off the pending list.  This
\* rests on text being written once: pasted text is attributed to who pasted it last, so
\* the theorem is for sessions without paste.
THEOREM TypingRespectsDecisions ==
  ASSUME "paste" \notin Moves
  PROVE  Spec => TypingRespectsLeases
<1> DEFINE Step ==
      Typed =>
         /\ \A g \in DOMAIN decided : \A s \in Members(journal, g) :
                Owned(OpAt(journal, s)) \cap ToSet(doc) \subseteq ToSet(doc')
         /\ \A g \in Pending(journal, doc, decided) :
                (\A s \in Members(journal, g) : InsLen(OpAt(journal, s)) = 0)
                  => g \in Pending(journal', doc', decided')
<1>1. ASSUME PInv, PInv', [Next]_vars PROVE Step
  <2> SUFFICES ASSUME Typed
               PROVE /\ \A g \in DOMAIN decided : \A s \in Members(journal, g) :
                            Owned(OpAt(journal, s)) \cap ToSet(doc) \subseteq ToSet(doc')
                     /\ \A g \in Pending(journal, doc, decided) :
                            (\A s \in Members(journal, g) : InsLen(OpAt(journal, s)) = 0)
                              => g \in Pending(journal', doc', decided')
    OBVIOUS
  <2>1. /\ HInv /\ IInv /\ Text /\ journal \in Seq(Ops) /\ Len(journal) \in Nat
        /\ doc \in Seq(Bytes) /\ Numbered(journal) /\ TurnedRound(journal)
        /\ OpsStayInside /\ Ordered(journal)
    BY <1>1, TextShape DEF PInv, HInv, Text, IInv, Log, JournalWellFormed, Ordered
  <2>2. HInv' /\ Numbered(journal') /\ TurnedRound(journal') /\ Ordered(journal')
    <3>1. (IInv /\ Text => Numbered(journal))'
      BY TextShape, PTL
    <3> QED BY <1>1, <3>1 DEF PInv, HInv, Text, IInv, Log, JournalWellFormed, Ordered
  <2>3. PICK h \in Humans : Insert(h) \/ Delete(h)
    BY <1>1, <2>1, TypedShape
  <2>4. PICK pos \in Nat, n \in Nat, ins \in Seq(Bytes), op \in Ops : Stroke(pos, n, ins, op)
    BY <2>1, <2>3, StrokeIs
  <2>5. /\ pos + n <= Len(doc) /\ ~Leased(journal, doc, decided, pos, n)
        /\ decided' = decided /\ doc' = Splice(doc, pos, n, ins)
        /\ Longer(journal', journal, op)
        /\ op.kind = "edit" /\ op.pos = pos /\ DelLen(op) = n /\ op.seq = Len(journal)
    BY <2>4 DEF Stroke
  <2>6. ASSUME NEW g \in DOMAIN decided, NEW s \in Members(journal, g),
               NEW b \in Owned(OpAt(journal, s)), b \in ToSet(doc)
        PROVE  b \in ToSet(doc')
    <3>1. PICK k \in 1 .. Len(doc) : doc[k] = b
      BY <2>1, <2>6 DEF ToSet
    <3>2. k \notin (pos + 1) .. (pos + n)
      BY <1>1, <2>5, <2>6, <3>1, LeasedText
    <3> QED BY <2>1, <2>5, <3>1, <3>2, StaysIn
  <2>7. ASSUME NEW g \in Pending(journal, doc, decided),
               \A s \in Members(journal, g) : InsLen(OpAt(journal, s)) = 0
        PROVE  g \in Pending(journal', doc', decided')
    <3>1. g \in GroupIds(journal) /\ StateOf(decided, g) = "proposed"
      BY DEF Pending, Proposed
    <3>2. PICK s \in Members(journal, g) : MemberSpans(journal, doc, OpAt(journal, s)) # {}
      BY DEF Pending
    <3> DEFINE o == OpAt(journal, s)
               x == o.pos
               r == Rebase(journal, x, x, o.seq + 1)
    <3>3. /\ s \in LiveEdits(journal) /\ s \in Seqs(journal) /\ o.group = g /\ o.kind = "edit"
          /\ InEffect(journal)[s]
      BY DEF Members, LiveEdits
    <3>4. o \in Ops /\ o.seq = s /\ x \in Nat /\ s + 1 \in 0 .. Len(journal) /\ InsLen(o) = 0
          /\ DelLen(o) \in Nat
      BY <2>1, <2>7, <3>3, OpShape DEF Seqs
    <3>5. r.ok
      <4>1. MemberSpans(journal, doc, o) = GapAt(r)
        BY <3>4, Zenon DEF MemberSpans
      <4> QED BY <3>2, <4>1 DEF GapAt
    <3>6. r.lo \in Nat
      <4> DEFINE L == Len(ReplayTo(Base, journal, s + 1))
      <4>1. x <= L
        <5>1. /\ s \in 0 .. Len(journal) /\ ReplayTo(Base, journal, s) \in Seq(Bytes)
              /\ ReplayTo(Base, journal, s + 1) = Apply(ReplayTo(Base, journal, s), o)
          BY <2>1, <3>3, BaseTyped, ReplayOp, ReplayNext
        <5>2. x + DelLen(o) <= Len(ReplayTo(Base, journal, s))
          BY <2>1, <3>3 DEF OpsStayInside, StaysInside
        <5>3. L = Len(ReplayTo(Base, journal, s)) + Delta(o) /\ Delta(o) = 0 - DelLen(o)
          BY <3>4, <5>1, <5>2, ApplyLength DEF Delta
        <5>4. Len(ReplayTo(Base, journal, s)) \in Nat
          BY <5>1
        <5> HIDE DEF L, o
        <5> QED BY <3>4, <5>2, <5>3, <5>4
      <4> HIDE DEF o, L
      <4> QED BY <2>1, <3>4, <4>1, BaseTyped, RebaseInside DEF OpsStayInside, L
    <3>7. ~(pos < r.lo /\ r.lo < pos + n)
      BY <2>5, <2>7, <3>1, <3>5, <3>6, LeasedGap
    <3>8. Rebase(journal', x, x, s + 1).ok
      <4>1. r = Rebase(journal, x, x, s + 1)
        BY <3>4
      <4> HIDE DEF o, r
      <4> QED BY <2>1, <2>2, <2>5, <3>4, <3>5, <3>7, <4>1, GapStays
    <3>9. /\ OpAt(journal', s) = o /\ s \in Seqs(journal') /\ Seqs(journal) \subseteq Seqs(journal')
          /\ \A t \in Seqs(journal) : OpAt(journal', t) = OpAt(journal, t)
      BY <2>5, <3>3 DEF Longer
    <3>10. InEffect(journal')[s]
      <4>1. InEffect(journal')[s] = InEffect(journal)[s]
        BY <2>1, <2>2, <2>5, <3>3, EditTakesEffect
      <4> QED BY <3>3, <4>1
    <3>11. s \in Members(journal', g)
      BY <3>3, <3>9, <3>10 DEF Members, LiveEdits
    <3>12. MemberSpans(journal', doc', OpAt(journal', s)) # {}
      <4> HIDE DEF o
      <4>1. MemberSpans(journal', doc', o) = GapAt(Rebase(journal', x, x, s + 1))
        BY <3>4, Zenon DEF MemberSpans
      <4> QED BY <3>8, <3>9, <4>1 DEF GapAt
    <3>13. g \in GroupIds(journal') /\ StateOf(decided', g) = "proposed"
      BY <2>5, <3>1, <3>9 DEF GroupIds
    <3> QED BY <3>11, <3>12, <3>13 DEF Pending, Proposed
  <2> QED BY <2>6, <2>7
<1>2. PInv /\ PInv' /\ [Next]_vars => [Step]_vars
  <2> HIDE DEF Step
  <2> QED BY <1>1
<1>3. Spec => []PInv
  BY WrittenOnceAlways
<1> QED BY <1>2, <1>3, PTL DEF Spec, TypingRespectsLeases

-----------------------------------------------------------------------------
(* Reversals.                                                              *)

\* What the reversal in progress is to take back.
Want == IF work.goal = "redo" THEN "redo" ELSE "undo"

Asked(s) == /\ OpAt(journal, s).group = work.group
            /\ OpAt(journal, s).author \in work.keep
            /\ Reversible(OpAt(journal, s), Want)

\* What is asked for and still in effect is still to be done.
Remaining ==
    work.on = "reverse" /\ ~work.failed =>
        /\ \A s \in work.todo : Reversible(OpAt(journal, s), Want)
        /\ \A s \in LiveOps(journal) : Asked(s) => s \in work.todo

\* The reversal in progress keeps its shape.
LEMMA ReversalTyped ==
  ASSUME IInv, work.on = "reverse"
  PROVE  work \in [on : {"reverse"}, goal : {work.goal}, group : {work.group},
                   keep : {work.keep}, failed : {work.failed}, from : {work.from},
                   todo : SUBSET Seqs(journal), applied : SUBSET Seqs(journal),
                   queue : SUBSET Seqs(journal)]
  BY DepthOf DEF IInv

\* How a step leaves a reversal: it goes on, or another begins, or none is in progress.
LEMMA ReversalSteps ==
  ASSUME HInv, [Next]_vars
  PROVE  \/ ReverseMember \/ ReverseBlocked \/ RollbackMember
         \/ \E goal, g, want, keep, queue :
               /\ work' = Reversal(goal, g, want, keep, queue) /\ journal' = journal
               /\ want \in {"undo", "redo"} /\ (want = "redo" <=> goal = "redo")
         \/ work'.on # "reverse"
         \/ UNCHANGED vars
<1> DEFINE Starts == \E goal, g, want, keep, queue :
               /\ work' = Reversal(goal, g, want, keep, queue) /\ journal' = journal
               /\ want \in {"undo", "redo"} /\ (want = "redo" <=> goal = "redo")
<1>1. CASE NextReversal
  <2>1. /\ journal' = journal
        /\ work' = Reversal("revert", Newest(work.queue).group, "undo", work.keep,
                            Older(work.queue))
    BY <1>1 DEF NextReversal
  <2>2. Starts
    BY <2>1
  <2> QED BY <2>2
<1>2. CASE EndFailed \/ EndReversal \/ EndAction \/ EndDiff
  BY <1>2 DEF EndFailed, EndReversal, EndAction, EndDiff, Idle
<1>3. CASE Hunk
  <2>1. work.on = "diff" /\ work' = [work EXCEPT !.left = @ - 1] /\ IInv
    BY <1>3 DEF Hunk, HInv
  <2>2. work \in [on : {"diff"}, by : Differs, base : {work.base},
                  left : {work.left}, from : {work.from}]
    BY <2>1, DepthOf DEF IInv
  <2>3. work'.on = "diff"
    BY <2>1, <2>2
  <2> QED BY <2>3
<1>4. CASE Typing
  <2>1. PICK h \in Humans : Insert(h) \/ Delete(h) \/ Paste(h) \/ BeginAction(h)
    BY <1>4 DEF Typing
  <2>2. \/ work = Idle /\ work' = work
        \/ work.on = "action" /\ work' = [work EXCEPT !.left = @ - 1]
        \/ work'.on = "action"
    <3>1. ASSUME NEW move, Typist(h, move)
          PROVE  \/ work = Idle /\ work' = work
                 \/ work.on = "action" /\ work' = [work EXCEPT !.left = @ - 1]
      BY <3>1, Zenon DEF Typist, Ready, Free
    <3>2. \/ \E move : Typist(h, move)
          \/ work' = [on |-> "action", by |-> h, left |-> MaxStrokes]
      BY <2>1, Zenon DEF Insert, Delete, Paste, BeginAction
    <3> QED BY <3>1, <3>2
  <2>3. CASE work.on = "action" /\ work' = [work EXCEPT !.left = @ - 1]
    <3>1. work \in [on : {"action"}, by : Humans, left : {work.left}]
      BY <2>3, DepthOf DEF HInv, IInv
    <3>2. work'.on # "reverse"
      BY <2>3, <3>1
    <3> QED BY <3>2
  <2>4. CASE work = Idle /\ work' = work
    BY <2>4 DEF Idle
  <2> QED BY <2>2, <2>3, <2>4
<1>5. CASE Diffing
  BY <1>5 DEF Diffing, BeginDiff
<1>6. CASE History \/ ClearReversal \/ Reverting
  <2>1. ASSUME NEW goal, NEW g, NEW want \in {"undo", "redo"}, NEW keep, NEW queue,
               StartReversal(goal, g, want, keep, queue), want = "redo" <=> goal = "redo"
        PROVE  Starts
    BY <2>1 DEF StartReversal
  <2> HIDE DEF Starts
  <2>2. CASE History
    <3>1. PICK h \in Humans, want \in {"undo", "redo"} : UndoRedo(h, want)
      BY <2>2 DEF History
    <3>2. \E g : StartReversal(want, g, want, {h}, {})
      BY <3>1 DEF UndoRedo
    <3>3. Starts
      BY <2>1, <3>2
    <3> QED BY <3>3 DEF Starts
  <2>3. CASE ClearReversal
    <3>1. \E g : StartReversal("clear", g, "undo", Writers, {})
      BY <2>3 DEF ClearReversal
    <3>2. Starts
      BY <2>1, <3>1
    <3> QED BY <3>2 DEF Starts
  <2>4. CASE Reverting
    <3>1. \E g, keep, queue : StartReversal("revert", g, "undo", keep, queue)
      BY <2>4 DEF Reverting, Revert
    <3>2. Starts
      BY <2>1, <3>1
    <3> QED BY <3>2 DEF Starts
  <2> QED BY <1>6, <2>2, <2>3, <2>4
<1>7. CASE Accept \/ Reject \/ ClearMark \/ Save \/ SaveFails \/ Restart
  <2>1. work = Idle /\ work' = work
    BY <1>7 DEF Accept, Reject, ClearMark, Save, SaveFails, Restart, Free
  <2> QED BY <2>1 DEF Idle
<1> QED BY <1>1, <1>2, <1>3, <1>4, <1>5, <1>6, <1>7 DEF Next, Continue

LEMMA StartRemains ==
  ASSUME NEW g, NEW want \in {"undo", "redo"}, NEW keep, NEW queue, NEW goal,
         work' = Reversal(goal, g, want, keep, queue), journal' = journal,
         want = "redo" <=> goal = "redo"
  PROVE  Remaining'
<1>1. /\ work'.todo = ReverseMembers(g, want, keep) /\ work'.group = g /\ work'.keep = keep
      /\ work'.goal = goal
  BY DEF Reversal
<1>2. Want' = want
  BY <1>1 DEF Want
<1>3. \A s \in ReverseMembers(g, want, keep) : Reversible(OpAt(journal, s), want)
  BY DEF ReverseMembers
<1>4. ASSUME NEW s \in LiveOps(journal), OpAt(journal, s).group = g,
             OpAt(journal, s).author \in keep, Reversible(OpAt(journal, s), want)
      PROVE  s \in ReverseMembers(g, want, keep)
  BY <1>4 DEF LiveOps, ReverseMembers
<1> QED BY <1>1, <1>2, <1>3, <1>4 DEF Remaining, Asked

\* A member taken back is done, and brings nothing asked for back into effect.
LEMMA MemberRemains ==
  ASSUME HInv, Remaining, ReverseMember
  PROVE  Remaining'
<1> DEFINE n == Max(work.todo)
           o == RebasedInverse(journal, doc, Newest(work.todo)).op
<1>1. /\ work.on = "reverse" /\ ~work.failed /\ work.todo # {}
      /\ RebasedInverse(journal, doc, Newest(work.todo)).ok /\ Commit(o, 0)
      /\ work' = [work EXCEPT !.todo = Older(@), !.applied = @ \cup {Version}]
  BY DEF ReverseMember
<1>2. /\ IInv /\ Text /\ journal \in Seq(Ops) /\ Len(journal) \in Nat /\ Numbered(journal)
      /\ Ordered(journal) /\ Alternating(journal)
  BY TextShape DEF HInv, Text, IInv, Log, JournalWellFormed, Ordered, Alternating
<1>3. work \in [on : {"reverse"}, goal : {work.goal}, group : {work.group},
                keep : {work.keep}, failed : {work.failed}, from : {work.from},
                todo : SUBSET Seqs(journal), applied : SUBSET Seqs(journal),
                queue : SUBSET Seqs(journal)]
  BY <1>1, <1>2, DepthOf DEF IInv
<1>4. /\ work.todo \in SUBSET Seqs(journal)
      /\ work'.todo = work.todo \ {n} /\ work'.goal = work.goal /\ work'.group = work.group
      /\ work'.keep = work.keep /\ Want' = Want
  BY <1>1, <1>3 DEF Older, Want
<1>5. /\ Fits(o) /\ n \in work.todo /\ n \in Seqs(journal) /\ o.undoes = n
      /\ Newest(work.todo) = OpAt(journal, n)
      /\ o.kind = IF OpAt(journal, n).kind = "undo" THEN "redo" ELSE "undo"
  BY <1>1, <1>2, <1>4, ReversalFits DEF Newest
<1> HIDE DEF n, o
<1>6. PICK op \in Ops : /\ Longer(journal', journal, op) /\ op.kind = o.kind /\ op.undoes = o.undoes
  BY <1>1, <1>5, CommitAppends
<1>7. /\ op.kind # "edit" /\ op.undoes = n
      /\ op.kind = IF OpAt(journal, n).kind = "undo" THEN "redo" ELSE "undo"
  BY <1>5, <1>6
<1>8. /\ Len(journal) \in Nat /\ Seqs(journal') = Seqs(journal) \cup {Len(journal)}
      /\ \A s \in Seqs(journal) : OpAt(journal', s) = OpAt(journal, s)
      /\ OpAt(journal', Len(journal)) = op
  BY <1>6 DEF Longer
<1>9. Ordered(journal')
  <2>1. IInv'
    BY <1>2, ReversingKeeps
  <2> QED BY <2>1 DEF IInv, Log, JournalWellFormed, Ordered
<1>10. /\ n \notin LiveOps(journal')
       /\ \A s \in Seqs(journal) :
             SameSense(journal, s, n) /\ s \in LiveOps(journal') => s \in LiveOps(journal)
  <2>1. \A s \in Seqs(journal) : OpAt(journal, s).kind \in Kinds
    BY <1>2, OpShape
  <2> QED BY <1>2, <1>5, <1>6, <1>7, <1>9, <2>1, ReversalTakesEffect
<1>11. Reversible(OpAt(journal, n), Want)
  BY <1>1, <1>5 DEF Remaining
<1>12. ASSUME NEW s \in Seqs(journal), Reversible(OpAt(journal, s), Want)
       PROVE  SameSense(journal, s, n)
  BY <1>11, <1>12 DEF Reversible, SameSense
<1>13. ~Reversible(op, Want)
  <2>1. Want \in {"undo", "redo"}
    BY DEF Want
  <2> QED BY <1>7, <1>11, <2>1 DEF Reversible
<1>14. ASSUME NEW s \in LiveOps(journal'), Asked(s)' PROVE s \in work'.todo
  <2>1. s \in Seqs(journal')
    BY DEF LiveOps
  <2>2. s # Len(journal)
    BY <1>4, <1>8, <1>13, <1>14 DEF Asked
  <2>3. s \in Seqs(journal) /\ OpAt(journal', s) = OpAt(journal, s)
    BY <1>8, <2>1, <2>2
  <2>4. Asked(s)
    BY <1>4, <1>14, <2>3 DEF Asked
  <2>5. s \in LiveOps(journal) /\ s # n
    BY <1>10, <1>12, <1>14, <2>3, <2>4 DEF Asked
  <2> QED BY <1>1, <1>4, <2>4, <2>5 DEF Remaining
<1>15. \A s \in work'.todo : Reversible(OpAt(journal', s), Want')
  BY <1>1, <1>4, <1>8 DEF Remaining
<1> QED BY <1>14, <1>15 DEF Remaining

LEMMA RemainsAlways == Spec => [](HInv /\ Remaining)
<1>1. Init => HInv /\ Remaining
  BY InitText DEF Init, Idle, Remaining
<1>2. HInv /\ Remaining /\ [Next]_vars => HInv' /\ Remaining'
  <2> SUFFICES ASSUME HInv, Remaining, [Next]_vars PROVE Remaining'
    BY NextText
  <2>1. CASE ReverseMember
    BY <2>1, MemberRemains
  <2>2. CASE ReverseBlocked \/ RollbackMember
    <3>1. work.on = "reverse" /\ IInv
      BY <2>2 DEF HInv, ReverseBlocked, RollbackMember
    <3>2. work'.failed
      BY <2>2, <3>1, ReversalTyped DEF ReverseBlocked, RollbackMember
    <3> QED BY <3>2 DEF Remaining
  <2>3. ASSUME NEW goal, NEW g, NEW want, NEW keep, NEW queue,
               work' = Reversal(goal, g, want, keep, queue), journal' = journal,
               want \in {"undo", "redo"}, want = "redo" <=> goal = "redo"
        PROVE  Remaining'
    BY <2>3, StartRemains
  <2>4. CASE work'.on # "reverse"
    BY <2>4 DEF Remaining
  <2>5. CASE UNCHANGED vars
    BY <2>5 DEF vars, Remaining, Want, Asked
  <2> QED BY <2>1, <2>2, <2>3, <2>4, <2>5, ReversalSteps
<1> QED BY <1>1, <1>2, PTL DEF Spec

\* A reversal that succeeds leaves nothing it was asked to take back in effect: an undo
\* or redo takes the whole set, a cleared set and a reverted author lose all their text,
\* however the reversals nest and whichever of them an earlier one in the same loop
\* brought back into effect.
ReversalsTakeAll ==
    [][EndReversal \/ NextReversal =>
         \A s \in Seqs(journal) :
            LET o == OpAt(journal, s)
            IN  /\ o.group = work.group /\ o.author \in work.keep
                /\ o.kind = (IF work.goal = "redo" THEN "undo" ELSE "edit")
                => ~InEffect(journal)[s]]_vars

LEMMA SuccessTakesAllBack == Spec => ReversalsTakeAll
<1>1. HInv /\ Remaining =>
        [EndReversal \/ NextReversal =>
           \A s \in Seqs(journal) :
              LET o == OpAt(journal, s)
              IN  /\ o.group = work.group /\ o.author \in work.keep
                  /\ o.kind = (IF work.goal = "redo" THEN "undo" ELSE "edit")
                  => ~InEffect(journal)[s]]_vars
  <2> SUFFICES ASSUME HInv, Remaining, EndReversal \/ NextReversal, NEW s \in Seqs(journal),
                      OpAt(journal, s).group = work.group,
                      OpAt(journal, s).author \in work.keep,
                      OpAt(journal, s).kind = (IF work.goal = "redo" THEN "undo" ELSE "edit"),
                      InEffect(journal)[s]
               PROVE  FALSE
    OBVIOUS
  <2>1. work.on = "reverse" /\ ~work.failed /\ work.todo = {}
    BY DEF EndReversal, NextReversal
  <2>2. s \in LiveOps(journal)
    BY DEF LiveOps
  <2>3. Asked(s)
    BY DEF Asked, Reversible, Want
  <2> QED BY <2>1, <2>2, <2>3 DEF Remaining
<1> QED BY <1>1, RemainsAlways, PTL DEF Spec, ReversalsTakeAll

-----------------------------------------------------------------------------
(* What edits remove, and what hunks hit.                                  *)

\* The op names exactly the bytes it took out of the document it was applied to.
RecordsRemoved(j, s) ==
    SubSeq(ReplayTo(Base, j, s), OpAt(j, s).pos + 1, OpAt(j, s).pos + DelLen(OpAt(j, s)))
       = OpAt(j, s).del

\* What a step does to the journal, whatever its text comes from.
Edits == \E a \in Writers, pos \in Nat, n \in Nat, ins \in Seq(Bytes), join \in Nat :
            /\ pos + n <= Len(doc)
            /\ Commit(Edit(a, pos, SubSeq(doc, pos + 1, pos + n), ins), join)

LEMMA TakenShape ==
  ASSUME NEW B, NEW d \in Seq(B), NEW pos \in Nat, NEW n \in Nat, pos + n <= Len(d)
  PROVE  SubSeq(d, pos + 1, pos + n) \in Seq(B) /\ Len(SubSeq(d, pos + 1, pos + n)) = n
<1> DEFINE lo == pos + 1
           hi == pos + n
<1>1. lo \in Nat \ {0} /\ hi \in Int /\ hi <= Len(d) /\ (IF lo <= hi THEN hi - lo + 1 ELSE 0) = n
  OBVIOUS
<1> HIDE DEF lo, hi
<1>2. SubSeq(d, lo, hi) \in Seq(B) /\ Len(SubSeq(d, lo, hi)) = IF lo <= hi THEN hi - lo + 1 ELSE 0
  BY <1>1, SubSeqShape
<1> QED BY <1>1, <1>2 DEF lo, hi

LEMMA StepEdits ==
  ASSUME HInv, [Next]_vars
  PROVE  UNCHANGED <<doc, journal>> \/ Edits \/ Reverses
<1>1. /\ doc \in Seq(Bytes) /\ Len(doc) \in Nat /\ store \in [Writers -> Nat] /\ 0 \in Nat
  BY TextShape DEF HInv, DataTyped
<1>2. CASE WritesSome
  <2>1. PICK a \in Writers, pos \in Nat, n \in Nat, text \in Texts \cup {<<>>}, join \in Nat :
            Writes(a, pos, n, text, join)
    BY <1>2 DEF WritesSome
  <2>2. Appended(a, text) \in Seq(Bytes)
    BY <1>1, AppendedTyped
  <2> QED BY <2>1, <2>2 DEF Writes, Edits
<1>3. ASSUME NEW h \in Humans, Paste(h) PROVE Edits
  <2>1. PICK pos \in 0 .. Len(doc), clip \in Captured :
            Commit(Edit(h, pos, <<>>, clip), 0)
    BY <1>3 DEF Paste
  <2>2. pos \in Nat /\ pos <= Len(doc) /\ pos + 0 = pos /\ pos + 0 <= Len(doc) /\ h \in Writers
    BY <1>1 DEF Writers
  <2>3. SubSeq(doc, pos + 1, pos + 0) = <<>>
    BY <1>1, <2>2, NothingTaken
  <2>4. clip \in Seq(Bytes)
    BY CapturedTyped
  <2>5. Commit(Edit(h, pos, SubSeq(doc, pos + 1, pos + 0), clip), 0)
    BY <2>1, <2>3
  <2> QED BY <1>1, <2>2, <2>4, <2>5 DEF Edits
<1> QED BY <1>2, <1>3, StepShape

\* A new op leaves the documents before it alone.
LEMMA DocsBefore ==
  ASSUME HInv, NEW op \in Ops, journal' = Append(journal, op)
  PROVE  \A s \in Seqs(journal) \cup {Len(journal)} :
            ReplayTo(Base, journal', s) = ReplayTo(Base, journal, s)
<1>1. journal \in Seq(Ops) /\ Len(journal) \in Nat
  BY DEF HInv, Text
<1>2. \A s \in Seqs(journal) \cup {Len(journal)} : s \in 0 .. Len(journal)
  BY <1>1 DEF Seqs
<1> QED BY <1>1, <1>2, BaseTyped, ReplayOfPrefix

\* The walk w over a range that read d0 from lo to hi has not lost it in d: the range is
\* still there, byte for byte, and the deletions that touched it are recorded on the side
\* they were on.
Intact(w, d, lo, hi, d0) ==
    /\ ~w.lo.held /\ ~w.hi.held
    /\ w.lo.at < w.hi.at /\ w.hi.at - w.lo.at = hi - lo /\ w.hi.at <= Len(d)
    /\ \A x \in 1 .. (hi - lo) : d[w.lo.at + x] = d0[lo + x]
    /\ \A a \in w.lo.anchored : a.right = FALSE
    /\ \A a \in w.hi.anchored : a.right = TRUE

\* Where a point goes that stands strictly inside a deletion.
Within(j, live, p, o) ==
    LET r == LiveReversers(j, live, o.seq)
    IN  IF r # {}
        THEN [p EXCEPT !.held = TRUE, !.off = p.at - o.pos,
                       !.by = CHOOSE x \in r : \A y \in r : x <= y]
        ELSE [p EXCEPT !.at = o.pos]

\* Where a point goes that stands beside an op, not at an insertion nor in a deletion.
Beside(c, p, o) ==
    /\ DelLen(o) # 0 /\ o.pos + DelLen(o) = p.at =>
          c = [p EXCEPT !.at = @ + Delta(o), !.anchored = Anchor(p, o, FALSE)]
    /\ o.pos + DelLen(o) < p.at => c = [p EXCEPT !.at = @ + Delta(o)]
    /\ DelLen(o) # 0 /\ o.pos = p.at => c = [p EXCEPT !.anchored = Anchor(p, o, TRUE)]
    /\ o.pos > p.at => c = p

LEMMA Carries ==
  ASSUME NEW j, NEW live, NEW o, NEW p, NEW right, ~p.held,
         o.pos \in Nat, DelLen(o) \in Nat, p.at \in Nat
  PROVE  /\ Beside(Carry(j, live, p, o, right), p, o)
         /\ DelLen(o) = 0 /\ o.pos = p.at => Carry(j, live, p, o, right) = LandsOn(p, o, right)
<1> DEFINE c == Carry(j, live, p, o, right)
           end == o.pos + DelLen(o)
           g1 == DelLen(o) = 0 /\ o.pos = p.at
           g2 == DelLen(o) # 0 /\ end = p.at
           g3 == end < p.at
           g4 == o.pos = p.at /\ DelLen(o) # 0
           g5 == o.pos > p.at
           v1 == LandsOn(p, o, right)
           v2 == [p EXCEPT !.at = @ + Delta(o), !.anchored = Anchor(p, o, FALSE)]
           v3 == [p EXCEPT !.at = @ + Delta(o)]
           v4 == [p EXCEPT !.anchored = Anchor(p, o, TRUE)]
           v6 == Within(j, live, p, o)
<1>1. c = CASE g1 -> v1 [] g2 -> v2 [] g3 -> v3 [] g4 -> v4 [] g5 -> p [] OTHER -> v6
  BY DEF Carry, Within
<1>2. /\ g1 => ~g2 /\ ~g3 /\ ~g4 /\ ~g5
      /\ g2 => ~g3 /\ ~g4 /\ ~g5
      /\ g3 => ~g4 /\ ~g5
      /\ g4 => ~g5
  OBVIOUS
<1> HIDE DEF c, g1, g2, g3, g4, g5, v1, v2, v3, v4, v6
<1>3. (g1 => c = v1) /\ (g2 => c = v2) /\ (g3 => c = v3) /\ (g4 => c = v4) /\ (g5 => c = p)
  BY <1>1, <1>2
<1>4. Beside(c, p, o)
  BY <1>3 DEF Beside, g2, g3, g4, g5, v2, v3, v4
<1>5. DelLen(o) = 0 /\ o.pos = p.at => c = v1
  BY <1>3 DEF g1
<1> QED BY <1>4, <1>5 DEF c, v1

\* An insertion at the start of a range pushes it, one at its end does not.
LEMMA LandsBeside ==
  ASSUME NEW p \in Points, ~p.held, NEW o, Delta(o) \in Int, NEW right \in BOOLEAN,
         \A x \in p.anchored : x.right = ~right
  PROVE  LET q == LandsOn(p, o, right)
         IN  /\ ~q.held /\ q.anchored \subseteq p.anchored
             /\ q.at = IF right THEN p.at + Delta(o) ELSE p.at
<1> DEFINE known == {x \in p.anchored : x.seq = o.undoes}
           turn == IF known # {} THEN \E x \in known : x.right ELSE ~right
           an == p.anchored \ known
           at == IF turn THEN p.at ELSE p.at + Delta(o)
<1>1. LandsOn(p, o, right) = [p EXCEPT !.anchored = an, !.at = at]
  BY DEF LandsOn
<1>2. turn <=> ~right
  OBVIOUS
<1>3. an \subseteq p.anchored
  OBVIOUS
<1>4. p = [at |-> p.at, held |-> p.held, by |-> p.by, off |-> p.off, anchored |-> p.anchored]
  BY DEF Points
<1> HIDE DEF an, turn
<1>5. at = IF right THEN p.at + Delta(o) ELSE p.at
  BY <1>2
<1> HIDE DEF at
<1>6. LandsOn(p, o, right) = [at |-> at, held |-> p.held, by |-> p.by, off |-> p.off,
                              anchored |-> an]
  BY <1>1, <1>4
<1> QED BY <1>3, <1>5, <1>6

\* An op that does not reach into the range of which p is the end on the given side.
Clear(p, o, right) ==
    \/ o.pos + DelLen(o) < p.at
    \/ p.at < o.pos
    \/ o.pos + DelLen(o) = p.at /\ (right \/ DelLen(o) = 0)
    \/ p.at = o.pos /\ (~right \/ DelLen(o) = 0)

Shifted(a, p, o, right) ==
    /\ ~a.held /\ \A x \in a.anchored : x.right = ~right
    /\ o.pos + DelLen(o) < p.at => a.at = p.at + Delta(o)
    /\ p.at < o.pos => a.at = p.at
    /\ o.pos + DelLen(o) = p.at /\ right => a.at = p.at + Delta(o)
    /\ p.at = o.pos /\ ~right => a.at = p.at

\* One end of a range carried over an op that does not reach into the range.
LEMMA EndShifts ==
  ASSUME NEW j, NEW live, NEW o \in Ops, NEW p \in Points, ~p.held, NEW right \in BOOLEAN,
         \A x \in p.anchored : x.right = ~right, Clear(p, o, right)
  PROVE  Shifted(Carry(j, live, p, o, right), p, o, right)
<1> DEFINE a == Carry(j, live, p, o, right)
           n == DelLen(o)
           x == p.at + Delta(o)
           left == Anchor(p, o, FALSE)
           above == Anchor(p, o, TRUE)
<1>1. /\ o.pos \in Nat /\ n \in Nat /\ Delta(o) \in Int /\ p.at \in Nat
  BY DeltaTyped DEF Ops, DelLen, InsLen, Points
<1>10. Beside(a, p, o) /\ (n = 0 /\ o.pos = p.at => a = LandsOn(p, o, right))
  BY <1>1, Carries
<1>2. /\ n # 0 /\ o.pos + n = p.at => a = [p EXCEPT !.at = x, !.anchored = left]
      /\ o.pos + n < p.at => a = [p EXCEPT !.at = x]
      /\ n # 0 /\ o.pos = p.at => a = [p EXCEPT !.anchored = above]
      /\ o.pos > p.at => a = p
  <2> HIDE DEF a
  <2> QED BY <1>10 DEF Beside
<1>3. p = [at |-> p.at, held |-> p.held, by |-> p.by, off |-> p.off, anchored |-> p.anchored]
  BY DEF Points
<1>4. /\ \A y \in left : y \in p.anchored \/ y = [seq |-> o.seq, right |-> FALSE]
      /\ \A y \in above : y \in p.anchored \/ y = [seq |-> o.seq, right |-> TRUE]
  BY DEF Anchor
<1> HIDE DEF a, x, left, above
<1>5. CASE n = 0 /\ o.pos = p.at
  <2>1. a = LandsOn(p, o, right)
    BY <1>10, <1>5
  <2>2. /\ ~a.held /\ a.anchored \subseteq p.anchored
        /\ a.at = IF right THEN p.at + Delta(o) ELSE p.at
    BY <1>1, <2>1, LandsBeside
  <2> QED BY <1>1, <1>5, <2>2 DEF a, Shifted
<1>6. CASE o.pos > p.at
  BY <1>1, <1>2, <1>6 DEF a, Shifted
<1>7. CASE o.pos + n < p.at
  <2>1. a = [p EXCEPT !.at = x]
    BY <1>2, <1>7
  <2>2. ~a.held /\ a.anchored = p.anchored /\ a.at = x
    BY <1>3, <2>1
  <2> QED BY <1>1, <1>7, <2>2 DEF a, x, Shifted
<1>8. CASE n # 0 /\ o.pos + n = p.at
  <2>1. a = [p EXCEPT !.at = x, !.anchored = left]
    BY <1>2, <1>8
  <2>2. ~a.held /\ a.anchored = left /\ a.at = x
    BY <1>3, <2>1
  <2>3. right
    BY <1>1, <1>8 DEF Clear
  <2>4. \A y \in a.anchored : y.right = ~right
    <3> TAKE y \in a.anchored
    <3>1. y \in p.anchored \/ y.right = FALSE
      BY <1>4, <2>2
    <3> QED BY <2>3, <3>1
  <2> QED BY <1>1, <1>8, <2>2, <2>4 DEF a, x, Shifted
<1>9. CASE n # 0 /\ o.pos = p.at
  <2>1. a = [p EXCEPT !.anchored = above]
    BY <1>2, <1>9
  <2>2. ~a.held /\ a.anchored = above /\ a.at = p.at
    BY <1>3, <2>1
  <2>3. ~right
    BY <1>1, <1>9 DEF Clear
  <2>4. \A y \in a.anchored : y.right = ~right
    <3> TAKE y \in a.anchored
    <3>1. y \in p.anchored \/ y.right = TRUE
      BY <1>4, <2>2
    <3> QED BY <2>3, <3>1
  <2> QED BY <1>1, <1>9, <2>2, <2>4 DEF a, Shifted
<1>11. \/ n = 0 /\ o.pos = p.at
       \/ o.pos > p.at
       \/ o.pos + n < p.at
       \/ n # 0 /\ o.pos + n = p.at
       \/ n # 0 /\ o.pos = p.at
  <2> HIDE DEF n
  <2> QED BY <1>1 DEF Clear, n
<1> QED BY <1>5, <1>6, <1>7, <1>8, <1>9, <1>11

\* An edit in effect that does not damage the range shifts it as a whole or leaves it.
LEMMA EditShifts ==
  ASSUME NEW j, NEW live, NEW o \in Ops, o.kind = "edit", live[o.seq],
         NEW w \in Walks, w.bad = Whole, ~w.lo.held, ~w.hi.held, w.lo.at < w.hi.at,
         \A a \in w.lo.anchored : a.right = FALSE, \A a \in w.hi.anchored : a.right = TRUE,
         ~Damages(live, o, w.lo, w.hi)
  PROVE  LET c == Carried(j, live, w, o)
         IN  /\ c.bad = Whole /\ ~c.lo.held /\ ~c.hi.held
             /\ \A a \in c.lo.anchored : a.right = FALSE
             /\ \A a \in c.hi.anchored : a.right = TRUE
             /\ \/ /\ o.pos + DelLen(o) <= w.lo.at
                   /\ c.lo.at = w.lo.at + Delta(o) /\ c.hi.at = w.hi.at + Delta(o)
                \/ /\ w.hi.at <= o.pos
                   /\ c.lo.at = w.lo.at /\ c.hi.at = w.hi.at
<1> DEFINE yes == TRUE
           no == ~w.lo.held /\ ~w.hi.held /\ w.lo.at = w.hi.at
           a == Carry(j, live, w.lo, o, yes)
           b == Carry(j, live, w.hi, o, no)
           c == Carried(j, live, w, o)
           end == o.pos + DelLen(o)
           low == (\A x \in w.lo.anchored : x.right = FALSE)
           high == (\A x \in w.hi.anchored : x.right = TRUE)
<1>1. /\ w.lo \in Points /\ w.hi \in Points /\ w.lo.at \in Nat /\ w.hi.at \in Nat
      /\ o.pos \in Nat /\ DelLen(o) \in Nat
      /\ w = [lo |-> w.lo, hi |-> w.hi, bad |-> w.bad]
  BY DEF Walks, Points, Ops, DelLen
<1>2. yes \in BOOLEAN /\ no \in BOOLEAN
  OBVIOUS
<1>10. (yes = TRUE) /\ (no = FALSE)
  BY <1>1
<1>3. c = [w EXCEPT !.lo = a, !.hi = b]
  <2>1. c = IF w.bad # Whole THEN w
            ELSE IF Damages(live, o, w.lo, w.hi) THEN [w EXCEPT !.bad = o.seq]
            ELSE [w EXCEPT !.lo = a, !.hi = b]
    BY DEF Carried
  <2> HIDE DEF a, b, c
  <2> QED BY <2>1
<1>4. end <= w.lo.at \/ w.hi.at <= o.pos
  BY <1>1 DEF Damages
<1>5. (\A x \in w.lo.anchored : x.right = ~yes) /\ (\A x \in w.hi.anchored : x.right = ~no)
  BY <1>10
<1>6. a = Carry(j, live, w.lo, o, yes) /\ b = Carry(j, live, w.hi, o, no)
  OBVIOUS
<1> HIDE DEF a, b, c, yes, no
<1>7. c.bad = Whole /\ c.lo = a /\ c.hi = b
  BY <1>1, <1>3
<1>8. CASE end <= w.lo.at
  <2>1. Clear(w.lo, o, yes) /\ Clear(w.hi, o, no)
    BY <1>1, <1>10, <1>8 DEF Clear
  <2>2. Shifted(a, w.lo, o, yes)
    BY <1>1, <1>2, <1>5, <1>6, <2>1, EndShifts
  <2>3. Shifted(b, w.hi, o, no)
    BY <1>1, <1>2, <1>5, <1>6, <2>1, EndShifts
  <2>4. ~a.held /\ (\A x \in a.anchored : x.right = ~yes) /\ a.at = w.lo.at + Delta(o)
    BY <1>1, <1>10, <1>8, <2>2 DEF Shifted
  <2>5. ~b.held /\ (\A x \in b.anchored : x.right = ~no) /\ b.at = w.hi.at + Delta(o)
    BY <1>1, <1>10, <1>8, <2>3 DEF Shifted
  <2> QED BY <1>10, <1>7, <1>8, <2>4, <2>5 DEF c
<1>9. CASE w.hi.at <= o.pos
  <2>1. Clear(w.lo, o, yes) /\ Clear(w.hi, o, no)
    BY <1>1, <1>10, <1>9 DEF Clear
  <2>2. Shifted(a, w.lo, o, yes)
    BY <1>1, <1>2, <1>5, <1>6, <2>1, EndShifts
  <2>3. Shifted(b, w.hi, o, no)
    BY <1>1, <1>2, <1>5, <1>6, <2>1, EndShifts
  <2>4. ~a.held /\ (\A x \in a.anchored : x.right = ~yes) /\ a.at = w.lo.at
    BY <1>1, <1>10, <1>9, <2>2 DEF Shifted
  <2>5. ~b.held /\ (\A x \in b.anchored : x.right = ~no) /\ b.at = w.hi.at
    BY <1>1, <1>10, <1>9, <2>3 DEF Shifted
  <2> QED BY <1>10, <1>7, <1>9, <2>4, <2>5 DEF c
<1> QED BY <1>4, <1>8, <1>9

\* An edit in effect that the range survives leaves its bytes side by side.
LEMMA StaysIntact ==
  ASSUME NEW j, NEW live, NEW o \in Ops, o.kind = "edit", live[o.seq],
         NEW w \in Walks, NEW d \in Seq(Bytes), o.pos + DelLen(o) <= Len(d),
         NEW lo \in Nat, NEW hi \in Nat, NEW d0, w.bad = Whole => Intact(w, d, lo, hi, d0),
         Carried(j, live, w, o).bad = Whole
  PROVE  Intact(Carried(j, live, w, o), Apply(d, o), lo, hi, d0)
<1> DEFINE c == Carried(j, live, w, o)
           e == Apply(d, o)
           pos == o.pos
           n == DelLen(o)
           k == InsLen(o)
           ins == o.ins
<1>1. /\ o.pos \in Nat /\ DelLen(o) \in Nat /\ InsLen(o) \in Nat /\ o.ins \in Seq(Bytes)
      /\ o.seq \in Nat /\ Delta(o) = k - n /\ w.lo.at \in Nat /\ w.hi.at \in Nat /\ Len(d) \in Nat
  BY DEF Ops, DelLen, InsLen, Delta, Walks, Points
<1>2. w.bad = Whole /\ ~Damages(live, o, w.lo, w.hi)
  <2>1. CASE w.bad # Whole
    BY <2>1 DEF Carried
  <2>2. CASE w.bad = Whole /\ Damages(live, o, w.lo, w.hi)
    <3>1. c = [w EXCEPT !.bad = o.seq]
      BY <2>2 DEF Carried
    <3>2. w = [lo |-> w.lo, hi |-> w.hi, bad |-> w.bad]
      BY DEF Walks
    <3> HIDE DEF c
    <3>3. c.bad = o.seq
      BY <3>1, <3>2
    <3> QED BY <1>1, <3>3 DEF c, Whole
  <2> QED BY <2>1, <2>2
<1>3. Intact(w, d, lo, hi, d0)
  BY <1>2
<1>4. /\ ~w.lo.held /\ ~w.hi.held /\ w.lo.at < w.hi.at /\ w.hi.at - w.lo.at = hi - lo
      /\ w.hi.at <= Len(d)
      /\ \A a \in w.lo.anchored : a.right = FALSE
      /\ \A a \in w.hi.anchored : a.right = TRUE
  BY <1>3 DEF Intact
<1>5. \A x \in 1 .. (hi - lo) : d[w.lo.at + x] = d0[lo + x]
  BY <1>3 DEF Intact
<1>6. /\ c.bad = Whole /\ ~c.lo.held /\ ~c.hi.held
      /\ \A a \in c.lo.anchored : a.right = FALSE
      /\ \A a \in c.hi.anchored : a.right = TRUE
      /\ \/ /\ o.pos + DelLen(o) <= w.lo.at
            /\ c.lo.at = w.lo.at + Delta(o) /\ c.hi.at = w.hi.at + Delta(o)
         \/ /\ w.hi.at <= o.pos
            /\ c.lo.at = w.lo.at /\ c.hi.at = w.hi.at
  BY <1>2, <1>4, EditShifts
<1>7. /\ e \in Seq(Bytes) /\ Len(e) = Len(d) + k - n
      /\ \A i \in 1 .. pos : e[i] = d[i]
      /\ \A i \in (pos + n + 1) .. Len(d) : e[i + k - n] = d[i]
  <2>1. e = Splice(d, pos, n, ins) /\ Len(ins) = k
    BY DEF Apply, InsLen
  <2>2. pos \in Nat /\ n \in Nat /\ ins \in Seq(Bytes) /\ pos + n <= Len(d)
    BY <1>1
  <2> HIDE DEF e, pos, n, k, ins
  <2>3. e \in Seq(Bytes)
    BY <2>1, <2>2, SpliceTyped
  <2>4. Spliced(e, d, pos, n, ins)
    BY <2>1, <2>2, SpliceAt
  <2> QED BY <2>1, <2>3, <2>4 DEF Spliced
<1> HIDE DEF c, e
<1>8. CASE pos + n <= w.lo.at /\ c.lo.at = w.lo.at + Delta(o) /\ c.hi.at = w.hi.at + Delta(o)
  <2>1. c.lo.at < c.hi.at /\ c.hi.at - c.lo.at = hi - lo /\ c.hi.at <= Len(e)
    <3>1. Delta(o) = k - n /\ Len(e) = Len(d) + k - n
      BY <1>1, <1>7
    <3>2. w.lo.at < w.hi.at /\ w.hi.at - w.lo.at = hi - lo /\ w.hi.at <= Len(d)
      BY <1>4
    <3>3. w.lo.at \in Nat /\ w.hi.at \in Nat /\ k \in Nat /\ n \in Nat /\ Len(d) \in Nat
          /\ hi \in Nat /\ lo \in Nat
      BY <1>1
    <3> QED BY <1>8, <3>1, <3>2, <3>3
  <2>2. ASSUME NEW x \in 1 .. (hi - lo) PROVE e[c.lo.at + x] = d0[lo + x]
    <3> DEFINE i == w.lo.at + x
    <3>1. i \in (pos + n + 1) .. Len(d) /\ c.lo.at + x = i + k - n
      <4>1. c.lo.at = w.lo.at + k - n
        BY <1>1, <1>8
      <4>2. x \in Nat /\ 1 <= x /\ x <= w.hi.at - w.lo.at
        BY <1>4
      <4>3. pos \in Nat /\ n \in Nat /\ k \in Nat /\ pos + n <= w.lo.at /\ w.hi.at <= Len(d)
        BY <1>1, <1>4, <1>8
      <4>4. w.lo.at \in Nat /\ w.hi.at \in Nat /\ Len(d) \in Nat
        BY <1>1
      <4> HIDE DEF pos, n, k
      <4>5. i \in (pos + n + 1) .. Len(d)
        BY <4>2, <4>3, <4>4
      <4>6. c.lo.at + x = i + k - n
        BY <4>1, <4>2, <4>3, <4>4
      <4> QED BY <4>5, <4>6
    <3>2. d[i] = d0[lo + x]
      BY <1>5
    <3> HIDE DEF i
    <3> QED BY <1>7, <3>1, <3>2
  <2> QED BY <1>6, <2>1, <2>2 DEF Intact, c, e
<1>9. CASE w.hi.at <= pos /\ c.lo.at = w.lo.at /\ c.hi.at = w.hi.at
  <2>1. c.lo.at < c.hi.at /\ c.hi.at - c.lo.at = hi - lo /\ c.hi.at <= Len(e)
    BY <1>1, <1>4, <1>7, <1>9
  <2>2. ASSUME NEW x \in 1 .. (hi - lo) PROVE e[c.lo.at + x] = d0[lo + x]
    <3> DEFINE i == w.lo.at + x
    <3>1. i \in 1 .. pos /\ c.lo.at + x = i
      <4>1. x \in Nat /\ 1 <= x /\ x <= w.hi.at - w.lo.at
        BY <1>4
      <4>2. pos \in Nat /\ w.lo.at \in Nat /\ w.hi.at \in Nat /\ w.hi.at <= pos /\ c.lo.at = w.lo.at
        BY <1>1, <1>9
      <4> HIDE DEF pos
      <4> QED BY <4>1, <4>2
    <3>2. d[i] = d0[lo + x]
      BY <1>5
    <3> HIDE DEF i
    <3> QED BY <1>7, <3>1, <3>2
  <2> QED BY <1>6, <2>1, <2>2 DEF Intact, c, e
<1> QED BY <1>6, <1>8, <1>9 DEF c

\* Where r is in e stands what stood from lo to hi in d.
Covers(r, e, lo, hi, d) ==
    /\ r.lo \in Nat /\ r.hi \in Nat /\ r.lo < r.hi /\ r.hi - r.lo = hi - lo /\ r.hi <= Len(e)
    /\ \A x \in 1 .. (hi - lo) : e[r.lo + x] = d[lo + x]

\* Over edits, a range that is not lost so far covers the bytes it covered.
LEMMA EditsIntact ==
  ASSUME NEW j, Numbered(j), TurnedRound(j), Ordered(j), NEW d \in Seq(Bytes), StaysInside(d, j),
         NEW base \in 0 .. Len(j), \A s \in base .. (Len(j) - 1) : IsEdit(j, s),
         NEW lo \in Nat, NEW hi \in Nat, lo < hi, hi <= Len(ReplayTo(d, j, base)),
         NEW F, Walked(F, j, Start(lo, hi), base), NEW e \in 0 .. (Len(j) - base)
  PROVE  /\ F[e] \in Walks
         /\ F[e].bad = Whole =>
               Intact(F[e], ReplayTo(d, j, base + e), lo, hi, ReplayTo(d, j, base))
<1> DEFINE m == Len(j) - base
           live == InEffect(j)
           d0 == ReplayTo(d, j, base)
           D(i) == ReplayTo(d, j, base + i)
           w0 == Start(lo, hi)
<1>1. /\ j \in Seq(Ops) /\ Len(j) \in Nat /\ base \in Nat /\ m \in Nat /\ base + m = Len(j)
      /\ base + 0 = base
  BY DEF Numbered
<1>2. Walked(F, j, w0, base)
  OBVIOUS
<1>3. \A i \in 0 .. m : F[i] \in Walks
  BY <1>2, WalksTyped
<1>4. \A s \in base .. (Len(j) - 1) : s \in Seqs(j) /\ live[s] = TRUE
  <2> SUFFICES ASSUME NEW s \in base .. (Len(j) - 1) PROVE s \in Seqs(j) /\ live[s] = TRUE
    OBVIOUS
  <2>1. s \in Seqs(j) /\ s \in Nat
    BY <1>1 DEF Seqs
  <2>2. Reversers(j, s) = {}
    <3> SUFFICES ASSUME NEW r \in Reversers(j, s) PROVE FALSE
      OBVIOUS
    <3>1. r \in (s + 1) .. (Len(j) - 1) /\ OpAt(j, r).kind # "edit"
      BY <1>1, <2>1, LaterReversers
    <3>2. r \in base .. (Len(j) - 1)
      BY <1>1, <2>1, <3>1
    <3> QED BY <3>1, <3>2 DEF IsEdit
  <2>3. s \in LiveOps(j)
    BY <1>1, <2>1, <2>2, LivenessIs
  <2> QED BY <1>1, <2>1, <2>3, LivenessIs
<1> DEFINE Good(i) == F[i].bad = Whole => Intact(F[i], D(i), lo, hi, d0)
           S == {i \in Nat : i <= m => Good(i)}
<1>5. 0 \in S
  <2>1. F[0] = w0 /\ D(0) = d0
    BY <1>1, <1>2 DEF Walked
  <2>2. w0.lo = PointAt(lo) /\ w0.hi = PointAt(hi)
    BY DEF Start
  <2>3. \A p : PointAt(p).at = p /\ PointAt(p).held = FALSE /\ PointAt(p).anchored = {}
    BY DEF PointAt
  <2>4. \A x \in 1 .. (hi - lo) : d0[w0.lo.at + x] = d0[lo + x]
    BY <2>2, <2>3
  <2> HIDE DEF d0, w0
  <2>5. Intact(w0, d0, lo, hi, d0)
    BY <2>2, <2>3, <2>4 DEF Intact, d0
  <2> QED BY <2>1, <2>5
<1>6. ASSUME NEW i \in Nat, i \in S PROVE i + 1 \in S
  <2> SUFFICES ASSUME i + 1 <= m, F[i + 1].bad = Whole
               PROVE  Intact(F[i + 1], D(i + 1), lo, hi, d0)
    OBVIOUS
  <2> DEFINE s == base + i
             o == OpAt(j, s)
  <2>1. /\ s \in base .. (Len(j) - 1) /\ i + 1 \in 1 .. m /\ i \in 0 .. m /\ i <= m
        /\ (i + 1) - 1 = i /\ base + (i + 1) - 1 = s /\ base + (i + 1) = s + 1
    BY <1>1
  <2>2. F[i + 1] = Carried(j, live, F[i], o)
    BY <1>2, <2>1, Zenon DEF Walked
  <2>3. /\ s \in Seqs(j) /\ live[s] = TRUE /\ IsEdit(j, s)
    BY <1>4, <2>1
  <2>4. D(i + 1) = Apply(D(i), o)
    BY <1>1, <2>1, <2>3, ReplayOp
  <2>5. o \in Ops /\ o.seq = s /\ o.kind = "edit" /\ o.pos + DelLen(o) <= Len(D(i))
    BY <2>3, OpShape DEF IsEdit, StaysInside
  <2>6. D(i) \in Seq(Bytes)
    BY <1>1, <2>3, ReplayOp, ReplayNext
  <2>7. F[i] \in Walks /\ Good(i)
    BY <1>3, <1>6, <2>1
  <2> HIDE DEF o, s, live, d0, D
  <2>8. live[o.seq]
    BY <2>3, <2>5
  <2> QED BY <2>2, <2>4, <2>5, <2>6, <2>7, <2>8, StaysIntact
<1>7. \A i \in Nat : i \in S
  <2> HIDE DEF S
  <2> QED BY <1>5, <1>6, Inductive
<1>8. e \in Nat /\ e <= m
  BY <1>1
<1>9. e \in S
  BY <1>7, <1>8
<1> QED BY <1>3, <1>8, <1>9

\* A range that is carried over edits in effect and not lost covers the bytes it covered.
LEMMA IntactRange ==
  ASSUME NEW j, Numbered(j), TurnedRound(j), Ordered(j), NEW d \in Seq(Bytes), StaysInside(d, j),
         NEW base \in 0 .. Len(j), \A s \in base .. (Len(j) - 1) : IsEdit(j, s),
         NEW lo \in Nat, NEW hi \in Nat, lo < hi, hi <= Len(ReplayTo(d, j, base)),
         Rebase(j, lo, hi, base).ok
  PROVE  Covers(Rebase(j, lo, hi, base), ReplayTo(d, j, Len(j)), lo, hi, ReplayTo(d, j, base))
<1> DEFINE m == Len(j) - base
           d0 == ReplayTo(d, j, base)
           e == ReplayTo(d, j, base + m)
<1>1. Len(j) \in Nat /\ base \in Nat /\ m \in 0 .. m /\ base + m = Len(j)
  BY DEF Numbered
<1>2. PICK F : Walked(F, j, Start(lo, hi), base) /\ Rebase(j, lo, hi, base) = Landing(F[m])
  BY WalkRuns
<1>3. F[m] \in Walks /\ (F[m].bad = Whole => Intact(F[m], e, lo, hi, d0))
  BY <1>1, <1>2, EditsIntact
<1>4. /\ F[m].bad = Whole
      /\ Rebase(j, lo, hi, base) = [ok |-> TRUE, lo |-> F[m].lo.at, hi |-> F[m].hi.at, at |-> 0]
  <2>1. \A x : ~Lost(x).ok
    BY DEF Lost
  <2> QED BY <1>2, <2>1, Zenon DEF Landing
<1>5. Rebase(j, lo, hi, base).lo = F[m].lo.at /\ Rebase(j, lo, hi, base).hi = F[m].hi.at
  BY <1>4
<1>6. F[m].lo.at \in Nat /\ F[m].hi.at \in Nat
  BY <1>3 DEF Walks, Points
<1>7. e = ReplayTo(d, j, Len(j))
  BY <1>1
<1>8. Intact(F[m], e, lo, hi, d0)
  BY <1>3, <1>4
<1> HIDE DEF e, d0
<1> QED BY <1>5, <1>6, <1>7, <1>8 DEF Intact, d0, Covers

SameText(r, e, lo, hi, d) == SubSeq(e, r.lo + 1, r.hi) = SubSeq(d, lo + 1, hi)

\* Equal bytes at two places of two texts are the same text.
LEMMA SameRun ==
  ASSUME NEW d \in Seq(Bytes), NEW e \in Seq(Bytes), NEW lo \in Nat, NEW hi \in Nat, hi <= Len(d),
         NEW r, Covers(r, e, lo, hi, d)
  PROVE  SameText(r, e, lo, hi, d)
<1> DEFINE p == r.lo
           q == r.hi
           n == hi - lo
           u == SubSeq(e, p + 1, q)
           v == SubSeq(d, lo + 1, hi)
<1>1. /\ p \in Nat /\ q \in Nat /\ p < q /\ q - p = n /\ q <= Len(e) /\ n \in Nat
      /\ \A x \in 1 .. n : e[p + x] = d[lo + x]
  BY SMTT(30) DEF Covers
<1> HIDE DEF p, q
<1>2. u \in Seq(Bytes) /\ Len(u) = n /\ \A x \in 1 .. n : u[x] = e[p + x]
  BY <1>1
<1>3. v \in Seq(Bytes) /\ Len(v) = n /\ \A x \in 1 .. n : v[x] = d[lo + x]
  BY <1>1
<1> HIDE DEF u, v, n
<1>4. \A x \in 1 .. n : u[x] = v[x]
  BY <1>1, <1>2, <1>3
<1>5. u = v
  BY <1>2, <1>3, <1>4
<1> QED BY <1>5 DEF SameText, u, v, p, q

\* The ends of an empty range never part.
LEMMA EmptyRange ==
  ASSUME NEW j, Numbered(j), TurnedRound(j), NEW base \in 0 .. Len(j), NEW at \in Nat,
         Rebase(j, at, at, base).ok
  PROVE  Rebase(j, at, at, base).lo = Rebase(j, at, at, base).hi
<1> DEFINE m == Len(j) - base
           w0 == Start(at, at)
<1>1. Len(j) \in Nat /\ base \in Nat /\ m \in Nat /\ base + m = Len(j)
  BY DEF Numbered
<1>2. PICK F : Walked(F, j, w0, base) /\ Rebase(j, at, at, base) = Landing(F[m])
  BY WalkRuns
<1>3. \A i \in 0 .. m : F[i] \in Walks
  BY <1>2, WalksTyped
<1> DEFINE S == {i \in Nat : i <= m => F[i].lo = F[i].hi}
<1>4. 0 \in S
  <2>1. F[0] = w0
    BY <1>2 DEF Walked
  <2>2. w0.lo = PointAt(at) /\ w0.hi = PointAt(at)
    BY DEF Start
  <2> QED BY <2>1, <2>2
<1>5. ASSUME NEW i \in Nat, i \in S PROVE i + 1 \in S
  <2> SUFFICES ASSUME i + 1 <= m PROVE F[i + 1].lo = F[i + 1].hi
    OBVIOUS
  <2>1. i + 1 \in 1 .. m /\ (i + 1) - 1 = i /\ i \in 0 .. m /\ i <= m
    BY <1>1
  <2>2. F[i + 1] = Carried(j, InEffect(j), F[i], OpAt(j, base + (i + 1) - 1))
    BY <1>2, <2>1, Zenon DEF Walked
  <2>3. F[i] \in Walks /\ F[i].lo = F[i].hi
    BY <1>3, <1>5, <2>1
  <2> QED BY <2>2, <2>3, EndsTogether
<1>6. \A i \in Nat : i \in S
  <2> HIDE DEF S
  <2> QED BY <1>4, <1>5, Inductive
<1>7. F[m].lo = F[m].hi
  BY <1>1, <1>6
<1>8. Rebase(j, at, at, base) = [ok |-> TRUE, lo |-> F[m].lo.at, hi |-> F[m].hi.at, at |-> 0]
  <2>1. \A x : ~Lost(x).ok
    BY DEF Lost
  <2> QED BY <1>2, <2>1, Zenon DEF Landing
<1> QED BY <1>7, <1>8

\* A hunk that is placed replaces exactly the bytes its author read, whatever anyone
\* wrote since into the rest of the file, and however often: no undo or redo since is
\* the whole of what is assumed.
THEOREM HunksHitWhatWasRead ==
  Spec => [](work.on = "diff" /\ (\A s \in work.base .. (Version - 1) : IsEdit(journal, s))
             => HitsWhatWasRead)
<1>1. ASSUME HInv, work.on = "diff", \A s \in work.base .. (Version - 1) : IsEdit(journal, s)
      PROVE  HitsWhatWasRead
  <2> DEFINE base == work.base
             d0 == DocAt(base)
             n == Len(d0)
  <2>1. /\ Numbered(journal) /\ TurnedRound(journal) /\ Ordered(journal)
        /\ StaysInside(Base, journal) /\ base \in 0 .. Len(journal) /\ Version = Len(journal)
        /\ doc = ReplayTo(Base, journal, Len(journal)) /\ doc \in Seq(Bytes)
        /\ journal \in Seq(Ops)
    BY <1>1, TextShape DEF HInv, Text, IInv, Log, JournalWellFormed, Ordered, OpsStayInside,
                           Version
  <2>2. d0 \in Seq(Bytes) /\ n \in Nat /\ d0 = ReplayTo(Base, journal, base)
    BY <2>1, BaseTyped, ReplayNext DEF DocAt
  <2> SUFFICES ASSUME NEW r \in Ranges(n), Removes(r).why # "stale"
               PROVE  Removes(r).del = Read(r)
    BY DEF HitsWhatWasRead
  <2> DEFINE lo == r[1]
             hi == r[2]
             at == Rebase(journal, lo, hi, base)
  <2>3. lo \in Nat /\ hi \in Nat /\ lo <= hi /\ hi <= n /\ lo <= n
    <3> HIDE DEF n
    <3>1. r \in (0 .. n) \X (0 .. n) /\ r[1] <= r[2]
      BY DEF Ranges
    <3> QED BY <2>2, <3>1
  <2>4. Removes(r).del = SubSeq(doc, at.lo + 1, at.hi) /\ at.ok
    <3> DEFINE over == ProposedLeases(journal, doc, decided, at.lo, at.hi - at.lo)
               p == Removes(r)
    <3>1. p = Placed(work.by, at, over, <<>>)
      BY DEF Removes, Placement
    <3> HIDE DEF at, over, p
    <3>2. /\ p.del = SubSeq(doc, at.lo + 1, at.hi)
          /\ p.why = Verdict(work.by, at, over, <<>>)
      BY <3>1 DEF Placed
    <3>3. at.ok
      <4> SUFFICES ASSUME ~at.ok PROVE FALSE
        OBVIOUS
      <4>1. Verdict(work.by, at, over, <<>>) = "stale"
        BY DEF Verdict
      <4> QED BY <3>2, <4>1 DEF p
    <3> QED BY <3>2, <3>3 DEF p
  <2>5. Read(r) = SubSeq(d0, lo + 1, hi)
    BY DEF Read
  <2>6. CASE lo < hi
    <3> HIDE DEF lo, hi
    <3>1. \A s \in base .. (Len(journal) - 1) : IsEdit(journal, s)
      BY <1>1, <2>1
    <3>2. Covers(at, ReplayTo(Base, journal, Len(journal)), lo, hi, ReplayTo(Base, journal, base))
      <4>1. lo < hi /\ hi <= Len(ReplayTo(Base, journal, base))
        BY <2>2, <2>3, <2>6
      <4> HIDE DEF base
      <4> QED BY <2>1, <2>3, <2>4, <4>1, <3>1, BaseTyped, IntactRange
    <3>3. Covers(at, doc, lo, hi, d0)
      BY <2>1, <2>2, <3>2
    <3>4. d0 \in Seq(Bytes) /\ hi <= Len(d0) /\ lo \in Nat /\ hi \in Nat /\ doc \in Seq(Bytes)
      BY <2>1, <2>2, <2>3
    <3> HIDE DEF at, d0
    <3>5. SameText(at, doc, lo, hi, d0)
      BY <3>3, <3>4, SameRun
    <3> QED BY <2>4, <2>5, <3>5 DEF SameText
  <2>7. CASE lo = hi
    <3>1. at.lo = at.hi
      BY <2>1, <2>3, <2>4, <2>7, EmptyRange
    <3>2. at.lo \in Nat /\ at.lo <= Len(doc)
      <4> HIDE DEF lo, hi
      <4> QED BY <2>1, <2>2, <2>3, <2>4, BaseTyped, RebaseInside
    <3> HIDE DEF at, d0
    <3>3. SubSeq(doc, at.lo + 1, at.hi) = <<>>
      BY <2>1, <3>1, <3>2, NothingTaken
    <3> HIDE DEF lo, hi
    <3>4. SubSeq(d0, lo + 1, hi) = <<>>
      BY <2>2, <2>3, <2>7, NothingTaken
    <3> QED BY <2>4, <2>5, <3>3, <3>4
  <2> QED BY <2>3, <2>6, <2>7
<1>2. HInv => (work.on = "diff" /\ (\A s \in work.base .. (Version - 1) : IsEdit(journal, s))
               => HitsWhatWasRead)
  BY <1>1
<1> QED BY <1>2, TextAlways, PTL

\* Every edit, an agent's hunk carried over any number of others included, names exactly
\* the bytes it took out of the document.
EditsRecord == \A s \in Seqs(journal) : IsEdit(journal, s) => RecordsRemoved(journal, s)

\* What an op put into the document stood there right after it.
LEMMA StoodThere ==
  ASSUME HInv, NEW s \in Seqs(journal)
  PROVE  LET o == OpAt(journal, s)
             d == ReplayTo(Base, journal, s + 1)
         IN  /\ d \in Seq(Bytes) /\ o.pos + InsLen(o) <= Len(d)
             /\ SubSeq(d, o.pos + 1, o.pos + InsLen(o)) = o.ins
<1> DEFINE o == OpAt(journal, s)
           d0 == ReplayTo(Base, journal, s)
           d == ReplayTo(Base, journal, s + 1)
           ins == o.ins
           pos == o.pos
           n == DelLen(o)
<1>1. /\ journal \in Seq(Ops) /\ Len(journal) \in Nat /\ Base \in Seq(Bytes)
      /\ StaysInside(Base, journal)
  BY BaseTyped DEF HInv, Text, OpsStayInside
<1>2. s \in 0 .. Len(journal) /\ s + 1 \in 0 .. Len(journal) /\ s + 1 # 0 /\ (s + 1) - 1 = s
      /\ s + 1 \in 1 .. Len(journal)
  BY <1>1 DEF Seqs
<1>3. o \in Ops /\ journal[s + 1] = o
  BY <1>1, <1>2 DEF OpAt
<1>4. d0 \in Seq(Bytes) /\ d = Apply(d0, o)
  <2> DEFINE v == s + 1
  <2>1. v \in 0 .. Len(journal) /\ v # 0 /\ v - 1 = s
    BY <1>2
  <2> HIDE DEF v, o
  <2>2. ReplayTo(Base, journal, v) = Apply(ReplayTo(Base, journal, v - 1), journal[v])
    BY <1>1, <2>1, ReplayNext
  <2>3. ReplayTo(Base, journal, s) \in Seq(Bytes)
    BY <1>1, <1>2, ReplayNext
  <2> QED BY <1>3, <2>1, <2>2, <2>3 DEF v
<1>5. pos + n <= Len(d0) /\ pos \in Nat /\ n \in Nat /\ ins \in Seq(Bytes) /\ InsLen(o) = Len(ins)
  <2>1. pos + n <= Len(d0)
    BY <1>1 DEF StaysInside
  <2> QED BY <1>3, <2>1 DEF Ops, DelLen, InsLen
<1>6. d = Splice(d0, pos, n, ins)
  BY <1>4 DEF Apply
<1> HIDE DEF o, d0, d, ins, pos, n
<1>7. d \in Seq(Bytes) /\ Spliced(d, d0, pos, n, ins)
  BY <1>4, <1>5, <1>6, SpliceTyped, SpliceAt
<1>8. /\ d \in Seq(Bytes) /\ Len(d) = Len(d0) + Len(ins) - n
      /\ \A i \in 1 .. Len(ins) : d[pos + i] = ins[i]
  BY <1>7 DEF Spliced
<1>9. pos + Len(ins) <= Len(d) /\ Len(ins) \in Nat /\ Len(d0) \in Nat /\ Len(d) \in Nat
  BY <1>4, <1>5, <1>8
<1>10. SubSeq(d, pos + 1, pos + Len(ins)) = ins
  <2> DEFINE k == Len(ins)
             u == SubSeq(d, pos + 1, pos + k)
  <2>1. k \in Nat /\ pos + k <= Len(d) /\ DOMAIN ins = 1 .. k
    BY <1>5, <1>9
  <2> HIDE DEF k
  <2>2. u \in Seq(Bytes) /\ Len(u) = k /\ \A i \in 1 .. k : u[i] = d[pos + i]
    <3>1. u \in Seq(Bytes) /\ Len(u) = k
      BY <1>5, <1>8, <2>1, TakenShape
    <3>2. ASSUME NEW i \in 1 .. k PROVE u[i] = d[pos + i]
      BY <1>5, <1>8, <2>1
    <3> QED BY <3>1, <3>2
  <2> HIDE DEF u
  <2>3. \A i \in 1 .. k : u[i] = ins[i]
    BY <1>8, <2>2 DEF k
  <2>4. u = ins
    BY <1>5, <2>1, <2>2, <2>3
  <2> QED BY <2>4 DEF u, k
<1> QED BY <1>5, <1>8, <1>9, <1>10 DEF o, d, ins, pos

LEMMA RecordsKept ==
  ASSUME HInv, EditsRecord, [Next]_vars
  PROVE  EditsRecord'
<1>1. CASE UNCHANGED <<doc, journal>>
  BY <1>1 DEF EditsRecord, RecordsRemoved, Base
<1>2. ASSUME NEW o, Fits(o), NEW join \in Nat, Commit(o, join),
             o.kind = "edit" => o.del = SubSeq(doc, o.pos + 1, o.pos + DelLen(o))
      PROVE  EditsRecord'
  <2>1. PICK op \in Ops : /\ Longer(journal', journal, op) /\ journal' = Append(journal, op)
                          /\ op.pos = o.pos /\ op.del = o.del /\ op.kind = o.kind /\ op.undoes = o.undoes
    BY <1>2, CommitAppends
  <2>2. \A s \in Seqs(journal) \cup {Len(journal)} :
           ReplayTo(Base, journal', s) = ReplayTo(Base, journal, s)
    BY <2>1, DocsBefore
  <2>3. /\ Seqs(journal') = Seqs(journal) \cup {Len(journal)}
        /\ \A s \in Seqs(journal) : OpAt(journal', s) = OpAt(journal, s)
        /\ OpAt(journal', Len(journal)) = op
    BY <2>1 DEF Longer
  <2>4. doc = ReplayTo(Base, journal, Len(journal))
    BY DEF HInv, Text, Version
  <2>5. journal \in Seq(Ops) /\ Len(journal) \in Nat /\ Numbered(journal) /\ Ordered(journal)
    BY TextShape DEF HInv, Text, IInv, Log, JournalWellFormed, Ordered
  <2>6. ASSUME NEW s \in Seqs(journal), IsEdit(journal', s) PROVE RecordsRemoved(journal', s)
    <3>1. RecordsRemoved(journal, s)
      BY <2>3, <2>6 DEF EditsRecord, IsEdit
    <3> QED BY <2>2, <2>3, <3>1 DEF RecordsRemoved
  <2>7. ASSUME IsEdit(journal', Len(journal)) PROVE RecordsRemoved(journal', Len(journal))
    <3>1. op.del = SubSeq(doc, op.pos + 1, op.pos + DelLen(op))
      BY <1>2, <2>1, <2>3, <2>7 DEF DelLen, IsEdit
    <3> QED BY <2>2, <2>3, <2>4, <3>1 DEF RecordsRemoved
  <2> QED BY <2>3, <2>6, <2>7 DEF EditsRecord, Base
<1>3. CASE Edits
  <2>1. PICK a \in Writers, pos \in Nat, n \in Nat, ins \in Seq(Bytes), join \in Nat :
            /\ pos + n <= Len(doc)
            /\ Commit(Edit(a, pos, SubSeq(doc, pos + 1, pos + n), ins), join)
    BY <1>3 DEF Edits
  <2> DEFINE del == SubSeq(doc, pos + 1, pos + n)
             o == Edit(a, pos, del, ins)
  <2>2. doc \in Seq(Bytes) /\ IInv /\ Text
    BY TextShape DEF HInv
  <2>3. del \in Seq(Bytes) /\ Len(del) = n
    BY <2>1, <2>2, TakenShape
  <2>4. Fits(o)
    <3> HIDE DEF del
    <3> QED BY <2>1, <2>2, <2>3, EditFits
  <2>5. o.pos = pos /\ o.del = del /\ DelLen(o) = n
    BY <2>3 DEF Edit, DelLen
  <2> HIDE DEF o
  <2>6. o.del = SubSeq(doc, o.pos + 1, o.pos + DelLen(o))
    BY <2>5
  <2> QED BY <1>2, <2>1, <2>4, <2>6 DEF o
<1>4. CASE Reverses
  <2>1. PICK o : o.kind # "edit" /\ Fits(o) /\ IsInverse(o) /\ Commit(o, 0)
    BY <1>4 DEF Reverses
  <2> QED BY <1>2, <2>1
<1> QED BY <1>1, <1>3, <1>4, StepEdits

LEMMA RecordsAlways == Spec => [](HInv /\ EditsRecord)
<1>1. Init => HInv /\ EditsRecord
  BY InitText DEF Init, EditsRecord, Seqs
<1>2. HInv /\ EditsRecord /\ [Next]_vars => HInv' /\ EditsRecord'
  BY NextText, RecordsKept
<1> QED BY <1>1, <1>2, PTL DEF Spec

-----------------------------------------------------------------------------
(* What compositions leave out.                                            *)

\* The text of an edit, less its newlines: what hiding it takes out.
Words(o) == {b \in Owned(o) : b.c # NL}

\* e is d without o's words, and with some of what o deleted.
TakesOut(e, d, o) ==
    e \in Seq(Bytes) /\ ToSet(e) \subseteq ToSet(o.del) \cup (ToSet(d) \ Words(o))

LEMMA SpliceElements ==
  ASSUME NEW d \in Seq(Bytes), NEW ins \in Seq(Bytes), NEW pos \in Nat
  PROVE  ToSet(Splice(d, pos, 0, ins)) \subseteq ToSet(d) \cup ToSet(ins)
<1> DEFINE p == IF pos > Len(d) THEN Len(d) ELSE pos
           m == IF p + 0 > Len(d) THEN Len(d) - p ELSE 0
           x == SubSeq(d, 1, p)
           y == SubSeq(d, p + m + 1, Len(d))
<1>1. Len(d) \in Nat /\ p \in Nat /\ p <= Len(d)
  OBVIOUS
<1>2. m = 0 /\ p + m + 1 \in Nat \ {0}
  <2> HIDE DEF p
  <2>1. ~(p + 0 > Len(d))
    BY <1>1
  <2>2. m = 0
    BY <2>1
  <2> QED BY <1>1, <2>2
<1>3. Splice(d, pos, 0, ins) = x \o ins \o y
  BY DEF Splice
<1> HIDE DEF p, m
<1>4. x \in Seq(Bytes) /\ Range(x) \subseteq Range(d)
  BY <1>1, RangeOfSubSeq
<1>5. y \in Seq(Bytes) /\ Range(y) \subseteq Range(d)
  BY <1>1, <1>2, RangeOfSubSeq
<1> HIDE DEF x, y
<1>6. x \o ins \in Seq(Bytes) /\ Range(x \o ins) \subseteq Range(x) \cup Range(ins)
  BY <1>4, RangeOfConcat
<1>7. Range((x \o ins) \o y) \subseteq Range(x \o ins) \cup Range(y)
  BY <1>5, <1>6, RangeOfConcat
<1>8. \A s : ToSet(s) = Range(s)
  BY DEF ToSet, Range
<1> QED BY <1>3, <1>4, <1>5, <1>6, <1>7, <1>8

\* Taking an edit out of a composition leaves none of its words but those it deleted.
LEMMA UnapplyTakesOut ==
  ASSUME NEW j, NEW comp \in Seq(Bytes), NEW o \in Ops,
         Rebase(j, o.pos, o.pos, o.seq + 1).lo \in Nat
  PROVE  TakesOut(Unapply(j, comp, o), comp, o)
<1> DEFINE at   == {k \in 1 .. Len(comp) : comp[k] \in Owned(o)}
           torn == Cardinality(at) < InsLen(o)
           keep == {b \in ToSet(comp) : b \notin Owned(o) \/ (torn /\ b.c = NL)}
           rest == Filter(comp, keep)
           r    == Rebase(j, o.pos, o.pos, o.seq + 1)
<1>1. o.del \in Seq(Bytes) /\ Len(comp) \in Nat
  BY DEF Ops
<1>2. Unapply(j, comp, o) = IF at # {} THEN Splice(rest, Min(at) - 1, 0, o.del)
                            ELSE IF r.ok THEN Splice(rest, r.lo, 0, o.del) ELSE rest
  BY DEF Unapply
<1>3. keep \subseteq ToSet(comp) \ Words(o)
  BY DEF Words
<1>4. at # {} => Min(at) - 1 \in Nat
  <2> SUFFICES ASSUME at # {} PROVE Min(at) - 1 \in Nat
    OBVIOUS
  <2>1. at \in SUBSET (1 .. Len(comp))
    OBVIOUS
  <2> HIDE DEF at
  <2>2. Min(at) \in 1 .. Len(comp)
    BY <1>1, <2>1, BottomOfSet
  <2> QED BY <1>1, <2>2
<1>5. r.lo \in Nat
  OBVIOUS
<1> HIDE DEF at, keep, r
<1>6. rest \in Seq(Bytes) /\ ToSet(rest) \subseteq ToSet(comp) \ Words(o)
  <2>1. rest \in Seq(Bytes) /\ Range(rest) = Range(comp) \cap keep
    BY FilterElements
  <2>2. ToSet(rest) = Range(rest)
    BY DEF ToSet, Range
  <2> HIDE DEF rest
  <2> QED BY <1>3, <2>1, <2>2
<1> HIDE DEF rest
<1>7. \A pos \in Nat : TakesOut(Splice(rest, pos, 0, o.del), comp, o)
  <2> TAKE pos \in Nat
  <2>1. Splice(rest, pos, 0, o.del) \in Seq(Bytes)
    BY <1>1, <1>6, SpliceTyped
  <2>2. ToSet(Splice(rest, pos, 0, o.del)) \subseteq ToSet(rest) \cup ToSet(o.del)
    BY <1>1, <1>6, SpliceElements
  <2> QED BY <1>6, <2>1, <2>2 DEF TakesOut
<1>8. TakesOut(rest, comp, o)
  BY <1>6 DEF TakesOut
<1>9. CASE at # {}
  <2> DEFINE q == Min(at) - 1
  <2>1. q \in Nat /\ Unapply(j, comp, o) = Splice(rest, q, 0, o.del)
    BY <1>2, <1>4, <1>9
  <2> HIDE DEF q
  <2> QED BY <1>7, <2>1
<1>10. CASE at = {} /\ r.ok
  BY <1>2, <1>5, <1>7, <1>10
<1>11. CASE at = {} /\ ~r.ok
  BY <1>2, <1>8, <1>11
<1> QED BY <1>9, <1>10, <1>11

\* b is a word of the op at i that no op left out up to there deleted.
Gone(j, out, i, b) ==
    /\ j[i].seq \in out /\ b \in Words(j[i])
    /\ \A k \in 1 .. i : j[k].seq \in out => b \notin ToSet(j[k].del)

\* Nothing that is gone shows: the fold goes from the newest op to the oldest, and each
\* op it takes out brings back only what that op deleted.
LEMMA WithoutTakesOut ==
  ASSUME NEW j \in Seq(Ops), NEW d \in Seq(Bytes), NEW out,
         \A i \in 1 .. Len(j) : \A comp \in Seq(Bytes) : TakesOut(Unapply(j, comp, j[i]), comp, j[i]),
         NEW b
  PROVE  /\ Without(j, d, out) \in Seq(Bytes)
         /\ \A i \in 1 .. Len(j) : Gone(j, out, i, b) => b \notin ToSet(Without(j, d, out))
<1> DEFINE n == Len(j)
           X == Seq(Bytes)
           f == [z \in X \X (1 .. n) |->
                    IF j[z[2]].seq \in out THEN Unapply(j, z[1], j[z[2]]) ELSE z[1]]
           Body(g) == [s \in SUBSET (1 .. n) |->
                          IF s = {} THEN d
                          ELSE IF j[Min(s)].seq \in out THEN Unapply(j, g[s \ {Min(s)}], j[Min(s)])
                               ELSE g[s \ {Min(s)}]]
           K == CHOOSE g : g = Body(g)
<1>1. n \in Nat /\ DOMAIN j = 1 .. n
  BY SMT
<1>2. Without(j, d, out) = K[1 .. n]
  BY <1>1 DEF Without, FoldRight, MapThenFoldSet
<1>3. \A i \in 1 .. n : \A comp \in X : TakesOut(Unapply(j, comp, j[i]), comp, j[i])
  OBVIOUS
<1> HIDE DEF n, K
<1>4. \E g : RightTable(g, n, X, d, f)
  <2>1. \A i \in 1 .. n : \A comp \in X : Unapply(j, comp, j[i]) \in X
    BY <1>3 DEF TakesOut
  <2>2. d \in X /\ f \in [X \X (1 .. n) -> X]
    <3> HIDE DEF X
    <3> QED BY <2>1 DEF X
  <2> HIDE DEF X, f
  <2> QED BY <1>1, <2>2, FoldRightTable, Zenon
<1>5. PICK g : RightTable(g, n, X, d, f)
  BY <1>4
<1>6. g = [s \in SUBSET (1 .. n) |-> g[s]] /\ \A s \in SUBSET (1 .. n) : g[s] \in X
  BY <1>5, Zenon DEF RightTable
<1>7. \A s \in SUBSET (1 .. n) :
         g[s] = IF s = {} THEN d
                ELSE IF j[Min(s)].seq \in out THEN Unapply(j, g[s \ {Min(s)}], j[Min(s)])
                     ELSE g[s \ {Min(s)}]
  <2> TAKE s \in SUBSET (1 .. n)
  <2>1. g[s] = IF s = {} THEN d ELSE f[<<g[s \ {Min(s)}], Min(s)>>]
    BY <1>5 DEF RightTable
  <2>2. CASE s # {}
    <3>1. Min(s) \in 1 .. n /\ s \ {Min(s)} \in SUBSET (1 .. n)
      BY <1>1, <2>2, BottomOfSet
    <3>2. g[s \ {Min(s)}] \in X
      BY <1>6, <3>1
    <3> DEFINE c == g[s \ {Min(s)}]
               i == Min(s)
    <3>3. c \in X /\ i \in 1 .. n
      BY <3>1, <3>2
    <3>4. g[s] = f[<<c, i>>]
      BY <2>1, <2>2
    <3> HIDE DEF c, i, X
    <3>5. f[<<c, i>>] = IF j[i].seq \in out THEN Unapply(j, c, j[i]) ELSE c
      BY <3>3
    <3> QED BY <2>2, <3>4, <3>5 DEF c, i
  <2>3. CASE s = {}
    BY <2>1, <2>3
  <2> QED BY <2>2, <2>3
<1>8. g = Body(g)
  BY <1>6, <1>7, Zenon
<1>9. K = Body(K)
  BY <1>8, Zenon DEF K
<1>10. \A s \in SUBSET (1 .. n) :
          K[s] = IF s = {} THEN d
                 ELSE IF j[Min(s)].seq \in out THEN Unapply(j, K[s \ {Min(s)}], j[Min(s)])
                      ELSE K[s \ {Min(s)}]
  BY <1>9
<1> DEFINE Clean(m) == /\ K[(n - m + 1) .. n] \in X
                       /\ \A i \in (n - m + 1) .. n : Gone(j, out, i, b) =>
                              b \notin ToSet(K[(n - m + 1) .. n])
           S == {m \in Nat : m <= n => Clean(m)}
<1>11. 0 \in S
  <2>1. (n - 0 + 1) .. n = {} /\ {} \in SUBSET (1 .. n)
    BY <1>1
  <2>2. K[{}] = d /\ d \in X
    BY <1>10, <2>1
  <2> QED BY <2>1, <2>2
<1>12. ASSUME NEW m \in Nat, m \in S PROVE m + 1 \in S
  <2> SUFFICES ASSUME m + 1 <= n PROVE Clean(m + 1)
    OBVIOUS
  <2> DEFINE e == n - m
             s == e .. n
             c == K[(e + 1) .. n]
             r == K[s]
  <2>1. e \in 1 .. n /\ n - (m + 1) + 1 = e /\ n - m + 1 = e + 1
    BY <1>1, <1>12
  <2>2. c \in X /\ \A i \in (e + 1) .. n : Gone(j, out, i, b) => b \notin ToSet(c)
    <3>1. Clean(m)
      BY <1>1, <1>12
    <3> QED BY <2>1, <3>1
  <2> SUFFICES r \in X /\ \A i \in s : Gone(j, out, i, b) => b \notin ToSet(r)
    BY <2>1
  <2> HIDE DEF e
  <2>3. s \in SUBSET (1 .. n) /\ e \in s /\ \A i \in s : e <= i
    BY <1>1, <2>1
  <2>4. Min(s) = e
    <3>1. Min(s) \in s /\ \A i \in s : Min(s) <= i
      <4> HIDE DEF s
      <4> QED BY <1>1, <2>3, BottomOfSet
    <3> QED BY <1>1, <2>1, <2>3, <3>1
  <2>5. s \ {e} = (e + 1) .. n /\ s = {e} \cup ((e + 1) .. n)
    BY <1>1, <2>1
  <2> HIDE DEF s
  <2>6. r = IF j[e].seq \in out THEN Unapply(j, c, j[e]) ELSE c
    BY <1>10, <2>3, <2>4, <2>5
  <2>7. TakesOut(Unapply(j, c, j[e]), c, j[e])
    BY <1>3, <2>1, <2>2
  <2> HIDE DEF c, r
  <2>8. CASE j[e].seq \notin out
    <3>1. ~Gone(j, out, e, b)
      BY <2>8 DEF Gone
    <3> QED BY <2>2, <2>5, <2>6, <2>8, <3>1
  <2>9. CASE j[e].seq \in out
    <3>1. r \in Seq(Bytes) /\ ToSet(r) \subseteq ToSet(j[e].del) \cup (ToSet(c) \ Words(j[e]))
      BY <2>6, <2>7, <2>9 DEF TakesOut
    <3>2. ASSUME NEW i \in s, Gone(j, out, i, b) PROVE b \notin ToSet(r)
      <4>1. e \in 1 .. i
        BY <1>1, <2>1, <2>3
      <4>2. b \notin ToSet(j[e].del)
        BY <2>9, <3>2, <4>1 DEF Gone
      <4>3. b \notin ToSet(c) \ Words(j[e])
        <5>1. CASE i = e
          BY <3>2, <5>1 DEF Gone
        <5>2. CASE i \in (e + 1) .. n
          BY <2>2, <3>2, <5>2
        <5> QED BY <2>5, <5>1, <5>2
      <4> QED BY <3>1, <4>2, <4>3
    <3> QED BY <3>1, <3>2
  <2> QED BY <2>8, <2>9
<1>13. \A m \in Nat : m \in S
  <2> HIDE DEF S
  <2> QED BY <1>11, <1>12, Inductive
<1>14. n - n + 1 = 1 /\ n <= n
  BY <1>1
<1>15. Clean(n)
  BY <1>1, <1>13, <1>14
<1> QED BY <1>2, <1>14, <1>15 DEF n

\* Where an edit was, today, is a place.
LEMMA PlaceOfOp ==
  ASSUME HInv, NEW s \in Seqs(journal)
  PROVE  LET o == OpAt(journal, s) IN Rebase(journal, o.pos, o.pos, o.seq + 1).lo \in Nat
<1> DEFINE o == OpAt(journal, s)
           v == s + 1
<1>1. /\ Numbered(journal) /\ TurnedRound(journal) /\ StaysInside(Base, journal)
      /\ Base \in Seq(Bytes) /\ journal \in Seq(Ops) /\ Len(journal) \in Nat
  BY TextShape, BaseTyped DEF HInv, Text, OpsStayInside
<1>2. s \in Nat /\ s < Len(journal) /\ v \in 0 .. Len(journal) /\ s + 1 \in 1 .. Len(journal)
  BY <1>1 DEF Seqs
<1>3. o \in Ops /\ o.seq = s /\ o.pos \in Nat
  <2>1. o = journal[s + 1] /\ o.seq = s
    BY <1>1 DEF Numbered, OpAt
  <2> HIDE DEF o
  <2>2. o \in Ops
    BY <1>1, <1>2, <2>1
  <2> QED BY <2>1, <2>2 DEF Ops
<1>4. o.pos + DelLen(o) <= Len(ReplayTo(Base, journal, s))
  BY <1>1 DEF StaysInside
<1>5. /\ ReplayTo(Base, journal, s) \in Seq(Bytes)
      /\ ReplayTo(Base, journal, v) = Apply(ReplayTo(Base, journal, s), o)
  <2>1. s \in 0 .. Len(journal) /\ v # 0 /\ v - 1 = s
    BY <1>1, <1>2
  <2>2. journal[v] = o
    BY DEF OpAt
  <2> HIDE DEF v, o
  <2>3. ReplayTo(Base, journal, v) = Apply(ReplayTo(Base, journal, v - 1), journal[v])
    BY <1>1, <1>2, <2>1, ReplayNext
  <2>4. ReplayTo(Base, journal, s) \in Seq(Bytes)
    BY <1>1, <2>1, ReplayNext
  <2> QED BY <2>1, <2>2, <2>3, <2>4
<1> HIDE DEF o
<1>6. o.pos <= Len(ReplayTo(Base, journal, v))
  <2> DEFINE d == ReplayTo(Base, journal, s)
             e == Apply(d, o)
  <2> HIDE DEF d
  <2>1. d \in Seq(Bytes) /\ o.pos + DelLen(o) <= Len(d) /\ Len(d) \in Nat
    BY <1>4, <1>5 DEF d
  <2>2. Len(e) = Len(d) + Delta(o) /\ Delta(o) \in Int
    BY <1>3, <2>1, ApplyLength
  <2>3. DelLen(o) \in Nat /\ InsLen(o) \in Nat /\ Delta(o) = InsLen(o) - DelLen(o)
    BY <1>3 DEF Ops, DelLen, InsLen, Delta
  <2> HIDE DEF e
  <2>4. o.pos <= Len(e)
    BY <1>3, <2>1, <2>2, <2>3
  <2> QED BY <1>5, <2>4 DEF d, e
<1> HIDE DEF v
<1>7. Rebase(journal, o.pos, o.pos, v).lo \in Nat
  BY <1>1, <1>2, <1>3, <1>6, RebaseInside
<1> QED BY <1>3, <1>7 DEF o, v

\* Taking any op out of a composition takes its words out.
LEMMA EachTakesOut ==
  ASSUME HInv, NEW k \in 1 .. Len(journal), NEW comp \in Seq(Bytes)
  PROVE  TakesOut(Unapply(journal, comp, journal[k]), comp, journal[k])
<1>1. journal \in Seq(Ops) /\ Len(journal) \in Nat
  BY DEF HInv, Text
<1>2. k - 1 \in Seqs(journal) /\ (k - 1) + 1 = k
  BY <1>1 DEF Seqs
<1>3. journal[k] = OpAt(journal, k - 1) /\ journal[k] \in Ops
  BY <1>1, <1>2 DEF OpAt
<1>4. Rebase(journal, journal[k].pos, journal[k].pos, journal[k].seq + 1).lo \in Nat
  BY <1>2, <1>3, PlaceOfOp
<1> QED BY <1>3, <1>4, UnapplyTakesOut

LEMMA ProjectTyped ==
  ASSUME HInv, NEW st, NEW p \in Policies
  PROVE  Project(journal, doc, st, p) \in Seq(Bytes)
<1> DEFINE out == LiveEdits(journal) \ Kept(journal, doc, st, p)
<1>1. journal \in Seq(Ops) /\ doc \in Seq(Bytes)
  BY TextShape DEF HInv, Text
<1>2. Project(journal, doc, st, p) = Without(journal, doc, out)
  BY <1>1, KeptUndecided, ProjectIs
<1> HIDE DEF out
<1> QED BY <1>1, <1>2, EachTakesOut, WithoutTakesOut

\* A composition shows no word of an edit it leaves out.
LEMMA LeftOut ==
  ASSUME PInv, NEW st, NEW p \in Policies,
         NEW s \in LiveEdits(journal) \ Kept(journal, doc, st, p),
         NEW b \in Words(OpAt(journal, s))
  PROVE  b \notin ToSet(Project(journal, doc, st, p))
<1> DEFINE out == LiveEdits(journal) \ Kept(journal, doc, st, p)
           i == s + 1
<1>1. /\ HInv /\ journal \in Seq(Ops) /\ Len(journal) \in Nat /\ doc \in Seq(Bytes)
      /\ Numbered(journal) /\ WrittenOnce(journal)
  BY TextShape DEF PInv, HInv, Text
<1>2. Project(journal, doc, st, p) = Without(journal, doc, out)
  BY <1>1, KeptUndecided, ProjectIs
<1>3. \A r \in out : r \in Seqs(journal) /\ IsEdit(journal, r)
  BY DEF LiveEdits, IsEdit
<1>4. s \in out
  OBVIOUS
<1> HIDE DEF out
<1>5. ASSUME NEW k \in 1 .. Len(journal)
      PROVE  k - 1 \in Seqs(journal) /\ journal[k] = OpAt(journal, k - 1) /\ journal[k].seq = k - 1
  <2>1. k - 1 \in Seqs(journal) /\ (k - 1) + 1 = k
    BY <1>1 DEF Seqs
  <2>2. journal[k] = OpAt(journal, k - 1)
    BY <2>1 DEF OpAt
  <2> QED BY <1>1, <2>1, <2>2 DEF Numbered
<1>6. s \in Nat /\ i \in 1 .. Len(journal) /\ i - 1 = s
  BY <1>1, <1>3, <1>4 DEF Seqs
<1>7. Gone(journal, out, i, b)
  <2>1. journal[i] = OpAt(journal, s) /\ journal[i].seq = s
    BY <1>5, <1>6
  <2>2. ASSUME NEW k \in 1 .. i, journal[k].seq \in out PROVE b \notin ToSet(journal[k].del)
    <3>1. k \in 1 .. Len(journal) /\ k - 1 <= s
      BY <1>1, <1>6
    <3>2. k - 1 \in out /\ journal[k] = OpAt(journal, k - 1)
      BY <1>5, <2>2, <3>1
    <3>3. /\ k - 1 \in Seqs(journal) /\ IsEdit(journal, k - 1)
          /\ s \in Seqs(journal) /\ IsEdit(journal, s)
      BY <1>3, <1>4, <3>2
    <3>4. b \in ToSet(OpAt(journal, s).ins)
      BY DEF Words, Owned
    <3> QED BY <1>1, <3>1, <3>2, <3>3, <3>4 DEF WrittenOnce
  <2> HIDE DEF i
  <2> QED BY <1>4, <2>1, <2>2 DEF Gone
<1> HIDE DEF i
<1> QED BY <1>1, <1>2, <1>6, <1>7, EachTakesOut, WithoutTakesOut

\* No composition shows text of a change set it leaves out, except newlines, however
\* the sets overlap and in whichever order they were written and decided.  Pasted text
\* is attributed to who pasted it, so the theorem is for sessions without paste.
THEOREM ExcludedTextIsHidden ==
  ASSUME "paste" \notin Moves
  PROVE  Spec => [](\A p \in Policies : \A s \in Excluded(p) :
                       \A b \in Owned(OpAt(journal, s)) \cap ToSet(Comp(p)) : b.c = NL)
<1>1. PInv => \A p \in Policies : \A s \in Excluded(p) :
                 \A b \in Owned(OpAt(journal, s)) \cap ToSet(Comp(p)) : b.c = NL
  <2> SUFFICES ASSUME PInv, NEW p \in Policies, NEW s \in Excluded(p),
                      NEW b \in Owned(OpAt(journal, s)), b \in ToSet(Comp(p)), b.c # NL
               PROVE  FALSE
    OBVIOUS
  <2>1. b \in Words(OpAt(journal, s))
    BY DEF Words
  <2>2. s \in LiveEdits(journal) \ Kept(journal, doc, decided, p)
    BY DEF Excluded
  <2> QED BY <2>1, <2>2, LeftOut DEF Comp
<1>2. Spec => []PInv
  BY WrittenOnceAlways
<1> QED BY <1>1, <1>2, PTL

\* A save writes agreed text only: nothing but newlines of a change set that still
\* carries a decision, proposed or rejected, reaches the disk.
SavesAgreedTextOnly ==
    [][disk' # disk =>
         \A g \in DOMAIN decided' : \A s \in Members(journal', g) :
            \A b \in Owned(OpAt(journal', s)) \cap ToSet(disk'.text) : b.c = NL]_vars

THEOREM SavesWriteAgreedTextOnly ==
  ASSUME "paste" \notin Moves
  PROVE  Spec => SavesAgreedTextOnly
<1>1. PInv /\ [Next]_vars =>
        [disk' # disk =>
           \A g \in DOMAIN decided' : \A s \in Members(journal', g) :
              \A b \in Owned(OpAt(journal', s)) \cap ToSet(disk'.text) : b.c = NL]_vars
  <2> SUFFICES ASSUME PInv, Next, disk' # disk, NEW g \in DOMAIN decided',
                      NEW s \in Members(journal', g), NEW b \in Owned(OpAt(journal', s)),
                      b \in ToSet(disk'.text), b.c # NL
               PROVE  FALSE
    BY DEF vars
  <2> DEFINE st == Agreed(decided)
  <2>1. Save
    BY OnlySavesWrite
  <2>2. /\ journal' = journal /\ doc' = doc
        /\ disk'.text = Project(journal, doc, st, "AcceptedOnly")
        /\ \E spent : decided' = RejectAll(st, spent)
    BY <2>1 DEF Save, SaveAs
  <2>3. g \in DOMAIN decided /\ st[g] = decided[g] /\ g \in DOMAIN st
    <3>1. DOMAIN decided' = DOMAIN st
      BY <2>2 DEF RejectAll
    <3> QED BY <3>1 DEF Agreed
  <2>4. decided[g] \in {"proposed", "rejected"}
    BY <2>3 DEF PInv, HInv, DataTyped, States
  <2> HIDE DEF st
  <2>5. StateOf(st, g) # "accepted"
    BY <2>3, <2>4 DEF StateOf
  <2>6. s \in LiveEdits(journal) /\ OpAt(journal, s).group = g
    BY <2>2 DEF Members
  <2>7. s \notin Kept(journal, doc, st, "AcceptedOnly")
    BY <2>5, <2>6 DEF Kept, Included, Admits
  <2>8. b \in Words(OpAt(journal, s)) /\ "AcceptedOnly" \in Policies
    BY <2>2 DEF Words, Policies
  <2> QED BY <2>2, <2>6, <2>7, <2>8, LeftOut
<1>2. Spec => []PInv
  BY WrittenOnceAlways
<1> QED BY <1>1, <1>2, PTL DEF Spec, SavesAgreedTextOnly

\* Every variable of a session keeps its type, what was saved included.
THEOREM SessionIsTyped == Spec => []TypeOK
<1> DEFINE B == Seq(Bytes)
           Saved == disk.text \in B
<1>1. ASSUME Init PROVE HInv /\ Saved
  BY <1>1, InitText, BaseTyped DEF Init
<1>2. ASSUME HInv, Saved, [Next]_vars PROVE HInv' /\ Saved'
  <2>1. HInv'
    BY <1>2, NextText
  <2>2. CASE disk' = disk
    <3> HIDE DEF B
    <3> QED BY <1>2, <2>1, <2>2
  <2>3. CASE disk' # disk
    <3>1. Save
      BY <1>2, <2>3, OnlySavesWrite DEF vars
    <3>2. disk'.text = Project(journal, doc, Agreed(decided), "AcceptedOnly")
      BY <3>1 DEF Save, SaveAs
    <3>3. "AcceptedOnly" \in Policies
      BY DEF Policies
    <3>4. disk'.text \in B
      BY <1>2, <3>2, <3>3, ProjectTyped
    <3> HIDE DEF B
    <3> QED BY <2>1, <3>4
  <2> QED BY <2>2, <2>3
<1>3. HInv /\ Saved /\ ControlTypes => TypeOK
  BY TextShape DEF HInv, Text, TypeOK
<1> HIDE DEF Saved
<1> QED BY <1>1, <1>2, <1>3, ControlIsTyped, PTL DEF Spec

==============================================================================
