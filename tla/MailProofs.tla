------------------------------ MODULE MailProofs ------------------------------
(***************************************************************************)
(* Proofs about the participants and their mail, for any number of         *)
(* connections, identities, ids and messages: the registry counts the      *)
(* connections that hold an id and gives an id to one identity, one reader *)
(* waits for a box, and a row is confirmed only after a reader took it.    *)
(***************************************************************************)
EXTENDS MailProperties, ListProofs

-----------------------------------------------------------------------------
(* The registry.                                                           *)

SomeId == Ids \cup {NoId}

ConnRecords == [pc : {"away", "serving", "joined", "draining"},
                author : SomeId, bound : BOOLEAN, joined : SomeId]

RegistryTypes ==
    /\ row \in [Ids -> Keys \cup {NoKey}] /\ conns \in [Ids -> Nat]
    /\ reserved \in SUBSET Ids /\ conn \in [Conns -> ConnRecords]

\* The ids a connection holds, and what the registry knows of them: the id of a hello
\* and the row it got are both held until the hello is over.
HoldsIds == \A c \in Conns :
    /\ conn[c].author = NoId <=> conn[c].pc = "away"
    /\ conn[c].joined = NoId <=> conn[c].pc # "joined"
    /\ conn[c].joined # NoId => Occupied(conn[c].joined)
    /\ conn[c].bound => conn[c].author # NoId /\ Occupied(conn[c].author)
    /\ conn[c].author # NoId /\ ~conn[c].bound => conn[c].author \in reserved

\* A provisional id has one owner and is no row's.
ReservedAreApart ==
    /\ \A id \in reserved : ~Occupied(id)
    /\ \A c, d \in Conns :
           c # d /\ ~conn[c].bound /\ ~conn[d].bound /\ conn[c].author # NoId
               => conn[c].author # conn[d].author

RegistryInv == RegistryTypes /\ HoldsIds /\ ReservedAreApart /\ CountsConnections

-----------------------------------------------------------------------------
(* The mail.                                                               *)

Rows == [key : Keys, msg : Msgs \ Notices]

ReaderRecords == [pc : {"free", "begun", "parked", "waiting", "took"},
                  to : SomeId, live : BOOLEAN, got : SUBSET Msgs]

BoxTypes == box \in [Ids -> Seq(Msgs)] /\ \A id \in Ids : Len(box[id]) <= Depth

HeldTypes ==
    /\ handed \in [Ids -> SUBSET Msgs] /\ inflight \in [Ids -> SUBSET Msgs]
    /\ \A id \in Ids : IsFiniteSet(inflight[id])

ReaderTypes == reader \in [Conns -> ReaderRecords] /\ waiter \in [Ids -> Conns \cup {NoReader}]

PostTypes ==
    /\ post \in [Msgs -> [pc : {"unsent", "accepted", "sent", "done"}, to : SomeId]]
    /\ \A m \in Msgs : post[m].pc \in {"accepted", "sent"} => post[m].to \in Ids

StoreTypes == store \in Seq(Rows) /\ owed \in SUBSET Msgs

MailTypes == BoxTypes /\ HeldTypes /\ ReaderTypes /\ PostTypes /\ StoreTypes

\* A recv runs on a connection that is there, and reads a box.
ReadersAreServed == \A c \in Conns :
    /\ reader[c].pc # "free" => conn[c].author # NoId
    /\ reader[c].pc \in {"parked", "waiting", "took"} => reader[c].to \in Ids

\* The reader nobody has superseded holds the slot.
OwnsSlot == \A c \in Conns : Parked(c) => waiter[reader[c].to] = c

ReaderInv == MailTypes /\ ReadersAreServed /\ OwnsSlot

\* A reader took it, was handed it or is confirming it.
Taken(m) ==
    \/ \E id \in Ids : m \in handed[id]
    \/ \E c \in Conns : m \in reader[c].got

HasARow(m) == \E e \in Range(store) : e.msg = m

Known(m) == Taken(m) \/ HasARow(m) \/ \E id \in Ids : m \in Range(box[id])

UnsentIsNowhere == \A m \in Msgs : post[m] = Unsent => ~Known(m)
OwedIsNotTaken == \A m \in owed : ~Taken(m)

KeptInv == UnsentIsNowhere /\ OwedIsNotTaken /\ Kept

MailInv == RegistryInv /\ ReaderInv /\ KeptInv

-----------------------------------------------------------------------------
(* The registry's steps.                                                   *)

LEMMA IdsAreNaturals == Ids \in SUBSET Nat /\ NoId \notin Ids
  BY ParticipantsAssumption, SMT DEF Ids, FirstAgent, NoId

\* The count of a set of connections, when one of them joins or leaves it.
LEMMA OneMore ==
  ASSUME NEW S \in SUBSET Conns, NEW c \in Conns
  PROVE  /\ Cardinality(S) \in Nat
         /\ Cardinality(S \cup {c}) = IF c \in S THEN Cardinality(S) ELSE Cardinality(S) + 1
         /\ Cardinality(S \ {c}) = IF c \in S THEN Cardinality(S) - 1 ELSE Cardinality(S)
         /\ c \in S => Cardinality(S) > 0
<1>1. IsFiniteSet(S)
  BY FS_Subset, ParticipantsAssumption
<1>2. Cardinality(S) \in Nat
  BY <1>1, FS_CardinalityType
<1>3. c \in S => Cardinality(S) # 0
  BY <1>1, FS_EmptySet
<1>4. /\ Cardinality(S \cup {c}) = IF c \in S THEN Cardinality(S) ELSE Cardinality(S) + 1
      /\ Cardinality(S \ {c}) = IF c \in S THEN Cardinality(S) - 1 ELSE Cardinality(S)
  BY <1>1, FS_AddElement, FS_RemoveElement
<1> QED BY <1>2, <1>3, <1>4, SMT

BindsTo(r, id) == IF r.bound /\ r.author = id THEN 1 ELSE 0
Joins(r, id) == IF r.joined = id THEN 1 ELSE 0

\* The counts of an id, when one connection changes.
LEMMA OneConnection ==
  ASSUME RegistryTypes, NEW c \in Conns, NEW new \in ConnRecords,
         conn' = [conn EXCEPT ![c] = new], NEW id \in Ids
  PROVE  /\ Cardinality(BoundTo(id)) \in Nat /\ Cardinality(Joining(id)) \in Nat
         /\ Cardinality(BoundTo(id)') =
                Cardinality(BoundTo(id)) - BindsTo(conn[c], id) + BindsTo(new, id)
         /\ Cardinality(Joining(id)') =
                Cardinality(Joining(id)) - Joins(conn[c], id) + Joins(new, id)
         /\ BindsTo(conn[c], id) = 1 => Cardinality(BoundTo(id)) > 0
         /\ Joins(conn[c], id) = 1 => Cardinality(Joining(id)) > 0
<1>1. conn'[c] = new /\ \A d \in Conns \ {c} : conn'[d] = conn[d]
  BY SMT DEF RegistryTypes
<1>2. BoundTo(id) \in SUBSET Conns /\ Joining(id) \in SUBSET Conns
  BY DEF BoundTo, Joining
<1>3. BoundTo(id)' = IF new.bound /\ new.author = id THEN BoundTo(id) \cup {c} ELSE BoundTo(id) \ {c}
  BY <1>1, Zenon DEF BoundTo
<1>4. Joining(id)' = IF new.joined = id THEN Joining(id) \cup {c} ELSE Joining(id) \ {c}
  BY <1>1, Zenon DEF Joining
<1>5. c \in BoundTo(id) <=> conn[c].bound /\ conn[c].author = id
  BY DEF BoundTo
<1>6. c \in Joining(id) <=> conn[c].joined = id
  BY DEF Joining
<1>7. /\ Cardinality(BoundTo(id)') =
             Cardinality(BoundTo(id)) - BindsTo(conn[c], id) + BindsTo(new, id)
      /\ BindsTo(conn[c], id) = 1 => Cardinality(BoundTo(id)) > 0
      /\ Cardinality(BoundTo(id)) \in Nat
  <2> DEFINE S == BoundTo(id)
             T == BoundTo(id)'
  <2>1. /\ Cardinality(S) \in Nat
        /\ Cardinality(S \cup {c}) = IF c \in S THEN Cardinality(S) ELSE Cardinality(S) + 1
        /\ Cardinality(S \ {c}) = IF c \in S THEN Cardinality(S) - 1 ELSE Cardinality(S)
        /\ c \in S => Cardinality(S) > 0
    BY <1>2, OneMore
  <2>2. /\ T = IF new.bound /\ new.author = id THEN S \cup {c} ELSE S \ {c}
        /\ c \in S <=> conn[c].bound /\ conn[c].author = id
    BY <1>3, <1>5
  <2> HIDE DEF S, T
  <2>3. /\ Cardinality(T) = Cardinality(S) - BindsTo(conn[c], id) + BindsTo(new, id)
        /\ BindsTo(conn[c], id) = 1 => Cardinality(S) > 0
    BY <2>1, <2>2, SMT DEF BindsTo
  <2> QED BY <2>1, <2>3 DEF S, T
<1>8. /\ Cardinality(Joining(id)') =
             Cardinality(Joining(id)) - Joins(conn[c], id) + Joins(new, id)
      /\ Joins(conn[c], id) = 1 => Cardinality(Joining(id)) > 0
      /\ Cardinality(Joining(id)) \in Nat
  <2> DEFINE S == Joining(id)
             T == Joining(id)'
  <2>1. /\ Cardinality(S) \in Nat
        /\ Cardinality(S \cup {c}) = IF c \in S THEN Cardinality(S) ELSE Cardinality(S) + 1
        /\ Cardinality(S \ {c}) = IF c \in S THEN Cardinality(S) - 1 ELSE Cardinality(S)
        /\ c \in S => Cardinality(S) > 0
    BY <1>2, OneMore
  <2>2. /\ T = IF new.joined = id THEN S \cup {c} ELSE S \ {c}
        /\ c \in S <=> conn[c].joined = id
    BY <1>4, <1>6
  <2> HIDE DEF S, T
  <2>3. /\ Cardinality(T) = Cardinality(S) - Joins(conn[c], id) + Joins(new, id)
        /\ Joins(conn[c], id) = 1 => Cardinality(S) > 0
    BY <2>1, <2>2, SMT DEF Joins
  <2> QED BY <2>1, <2>3 DEF S, T
<1> QED BY <1>7, <1>8

\* So the registry counts right if each of its counts changes by what the connection
\* gives up and takes.
LEMMA CountsFollow ==
  ASSUME RegistryInv, NEW c \in Conns, NEW new \in ConnRecords,
         conn' = [conn EXCEPT ![c] = new],
         \A id \in Ids : conns'[id] = conns[id] - BindsTo(conn[c], id) + BindsTo(new, id)
                                                - Joins(conn[c], id) + Joins(new, id)
  PROVE  CountsConnections'
<1> SUFFICES ASSUME NEW id \in Ids
             PROVE  conns'[id] = Cardinality(BoundTo(id)') + Cardinality(Joining(id)')
  BY DEF CountsConnections
<1> DEFINE b == Cardinality(BoundTo(id))
           j == Cardinality(Joining(id))
<1>1. b \in Nat /\ j \in Nat /\ conns[id] = b + j
      /\ Cardinality(BoundTo(id)') = b - BindsTo(conn[c], id) + BindsTo(new, id)
      /\ Cardinality(Joining(id)') = j - Joins(conn[c], id) + Joins(new, id)
  BY OneConnection DEF RegistryInv, CountsConnections
<1> HIDE DEF b, j
<1>2. /\ BindsTo(conn[c], id) \in {0, 1} /\ BindsTo(new, id) \in {0, 1}
      /\ Joins(conn[c], id) \in {0, 1} /\ Joins(new, id) \in {0, 1}
  BY DEF BindsTo, Joins
<1> QED BY <1>1, <1>2, SMT

\* A connection that holds an id is counted.
LEMMA HeldIsCounted ==
  ASSUME RegistryInv, NEW c \in Conns, NEW id \in Ids
  PROVE  conns[id] >= BindsTo(conn[c], id) + Joins(conn[c], id)
<1> DEFINE b == Cardinality(BoundTo(id))
           j == Cardinality(Joining(id))
<1>1. /\ BoundTo(id) \in SUBSET Conns /\ Joining(id) \in SUBSET Conns
      /\ c \in BoundTo(id) <=> conn[c].bound /\ conn[c].author = id
      /\ c \in Joining(id) <=> conn[c].joined = id
  BY DEF BoundTo, Joining
<1>2. /\ b \in Nat /\ (c \in BoundTo(id) => b > 0)
      /\ j \in Nat /\ (c \in Joining(id) => j > 0)
  BY <1>1, OneMore
<1>3. conns[id] = b + j
  BY DEF RegistryInv, CountsConnections
<1> HIDE DEF b, j
<1> QED BY <1>1, <1>2, <1>3, SMT DEF BindsTo, Joins

\* The rest of the invariant, when one connection changes and no row but one appears.
LEMMA HoldsOne ==
  ASSUME RegistryInv, NEW c \in Conns, NEW new \in ConnRecords,
         conn' = [conn EXCEPT ![c] = new],
         \A id \in Ids : Occupied(id) => Occupied(id)',
         \A id \in Ids : id \in reserved /\ id # conn[c].author => id \in reserved',
         new.author = NoId <=> new.pc = "away",
         new.joined = NoId <=> new.pc # "joined",
         new.joined # NoId => row'[new.joined] # NoKey,
         new.bound => new.author # NoId /\ row'[new.author] # NoKey,
         new.author # NoId /\ ~new.bound => new.author \in reserved',
         ~conn[c].bound \/ reserved \subseteq reserved'
  PROVE  HoldsIds'
<1> SUFFICES ASSUME NEW d \in Conns
    PROVE  /\ conn'[d].author = NoId <=> conn'[d].pc = "away"
           /\ conn'[d].joined = NoId <=> conn'[d].pc # "joined"
           /\ conn'[d].joined # NoId => Occupied(conn[d].joined)'
           /\ conn'[d].bound => conn'[d].author # NoId /\ Occupied(conn[d].author)'
           /\ conn'[d].author # NoId /\ ~conn'[d].bound => conn'[d].author \in reserved'
  BY Zenon DEF HoldsIds
<1>1. conn'[c] = new /\ \A e \in Conns \ {c} : conn'[e] = conn[e]
  BY SMT DEF RegistryInv, RegistryTypes
<1>2. CASE d = c
  BY <1>1, <1>2, Zenon DEF Occupied
<1>3. CASE d # c
  <2>1. conn'[d] = conn[d] /\ conn[d] \in ConnRecords
    BY <1>1, <1>3 DEF RegistryInv, RegistryTypes
  <2>2. /\ conn[d].author = NoId <=> conn[d].pc = "away"
        /\ conn[d].joined = NoId <=> conn[d].pc # "joined"
        /\ conn[d].joined # NoId => Occupied(conn[d].joined)
        /\ conn[d].bound => conn[d].author # NoId /\ Occupied(conn[d].author)
        /\ conn[d].author # NoId /\ ~conn[d].bound => conn[d].author \in reserved
    BY DEF RegistryInv, HoldsIds
  <2>3. conn[d].author \in Ids \cup {NoId} /\ conn[d].joined \in Ids \cup {NoId}
    BY <2>1, Zenon DEF ConnRecords, SomeId
  <2>4. conn[d].author # NoId /\ ~conn[d].bound => conn[d].author \in reserved'
    BY <1>3, <2>2, <2>3, Zenon DEF RegistryInv, ReservedAreApart
  <2> QED BY <2>1, <2>2, <2>3, <2>4, Zenon DEF Occupied
<1> QED BY <1>2, <1>3

LEMMA RegistryOne ==
  ASSUME RegistryInv, NEW c \in Conns, NEW new \in ConnRecords,
         conn' = [conn EXCEPT ![c] = new],
         row' \in [Ids -> Keys \cup {NoKey}], conns' \in [Ids -> Nat], reserved' \in SUBSET Ids,
         \A id \in Ids : conns'[id] = conns[id] - BindsTo(conn[c], id) + BindsTo(new, id)
                                                - Joins(conn[c], id) + Joins(new, id),
         \A id \in Ids : Occupied(id) => Occupied(id)',
         \A id \in Ids : id \in reserved /\ id # conn[c].author => id \in reserved',
         new.author = NoId <=> new.pc = "away",
         new.joined = NoId <=> new.pc # "joined",
         new.joined # NoId => row'[new.joined] # NoKey,
         new.bound => new.author # NoId /\ row'[new.author] # NoKey,
         new.author # NoId /\ ~new.bound => new.author \in reserved',
         ~conn[c].bound \/ reserved \subseteq reserved',
         \A id \in reserved' : ~Occupied(id)',
         new.author # NoId /\ ~new.bound =>
             \A d \in Conns \ {c} : ~conn[d].bound => conn[d].author # new.author
  PROVE  RegistryInv'
<1>1. HoldsIds'
  BY HoldsOne
<1>2. CountsConnections'
  BY CountsFollow
<1>3. conn'[c] = new /\ \A d \in Conns \ {c} : conn'[d] = conn[d]
  BY SMT DEF RegistryInv, RegistryTypes
<1>4. RegistryTypes'
  BY SMT DEF RegistryInv, RegistryTypes
<1>5. ReservedAreApart'
  <2> SUFFICES ASSUME NEW d \in Conns, NEW e \in Conns, d # e, ~conn'[d].bound, ~conn'[e].bound,
                      conn'[d].author # NoId, conn'[d].author = conn'[e].author
               PROVE  FALSE
    BY Zenon DEF ReservedAreApart
  <2>1. CASE d = c
    <3>1. conn'[d] = new /\ conn'[e] = conn[e] /\ e \in Conns \ {c}
      BY <1>3, <2>1
    <3> QED BY <3>1, Zenon
  <2>2. CASE e = c
    <3>1. conn'[e] = new /\ conn'[d] = conn[d] /\ d \in Conns \ {c}
      BY <1>3, <2>2
    <3>2. new.author # NoId /\ ~new.bound /\ ~conn[d].bound /\ conn[d].author = new.author
      BY <3>1
    <3> QED BY <3>1, <3>2, Zenon
  <2>3. CASE d # c /\ e # c
    <3>1. conn'[d] = conn[d] /\ conn'[e] = conn[e]
      BY <1>3, <2>3
    <3>2. ~conn[d].bound /\ ~conn[e].bound /\ conn[d].author # NoId /\ conn[d].author = conn[e].author
      BY <3>1
    <3> QED BY <3>2, Zenon DEF RegistryInv, ReservedAreApart
  <2> QED BY <2>1, <2>2, <2>3
<1> QED BY <1>1, <1>2, <1>4, <1>5 DEF RegistryInv

\* What a connection's record says, field by field.
LEMMA RecordOf ==
  ASSUME RegistryInv, NEW c \in Conns
  PROVE  /\ conn[c] \in ConnRecords
         /\ conn[c].author = NoId <=> conn[c].pc = "away"
         /\ conn[c].joined = NoId <=> conn[c].pc # "joined"
         /\ conn[c].author \in Ids \/ conn[c].author = NoId
         /\ conn[c].joined \in Ids \/ conn[c].joined = NoId
         /\ conn[c].joined \in Ids => Occupied(conn[c].joined)
         /\ conn[c].bound \in BOOLEAN
         /\ conn[c].bound => conn[c].author \in Ids /\ Occupied(conn[c].author)
         /\ conn[c].author # NoId /\ ~conn[c].bound => conn[c].author \in reserved
         /\ NoId \notin Ids
<1>1. conn[c] \in ConnRecords
  BY DEF RegistryInv, RegistryTypes
<1>2. conn[c].author \in Ids \cup {NoId} /\ conn[c].joined \in Ids \cup {NoId} /\ conn[c].bound \in BOOLEAN
  BY <1>1, Zenon DEF ConnRecords, SomeId
<1> QED BY <1>1, <1>2, IdsAreNaturals, Zenon DEF RegistryInv, HoldsIds

LEMMA ConnectKeepsRegistry ==
  ASSUME RegistryInv, NEW c \in Conns, Connect(c) PROVE RegistryInv'
<1> DEFINE id == Min(Reservable)
           new == [conn[c] EXCEPT !.pc = "serving", !.author = id]
<1>1. id \in Ids /\ ~Occupied(id) /\ id \notin reserved
  <2>1. Reservable \in SUBSET Nat /\ Reservable # {}
    BY IdsAreNaturals DEF Connect, Reservable
  <2>2. id \in Reservable
    BY <2>1, MinOfNaturals
  <2> QED BY <2>2 DEF Reservable
<1> HIDE DEF id
<1>2. /\ reserved' = reserved \cup {id} /\ UNCHANGED <<row, conns>> /\ conn[c].pc = "away"
      /\ conn' = [conn EXCEPT ![c] = new]
  BY Zenon DEF Connect, id
<1>3. /\ new \in ConnRecords /\ new.pc = "serving" /\ new.author = id
      /\ new.bound = conn[c].bound /\ new.joined = conn[c].joined
  BY <1>1, RecordOf, Zenon DEF ConnRecords, SomeId
<1>4. ~conn[c].bound /\ conn[c].joined = NoId /\ conn[c].author = NoId
  BY <1>2, RecordOf, Zenon
<1> HIDE DEF new
<1>5. \A i \in Ids : /\ BindsTo(conn[c], i) = 0 /\ BindsTo(new, i) = 0
                     /\ Joins(conn[c], i) = 0 /\ Joins(new, i) = 0
  BY <1>3, <1>4, IdsAreNaturals, Zenon DEF BindsTo, Joins
<1>6. \A i \in Ids : conns'[i] = conns[i] - BindsTo(conn[c], i) + BindsTo(new, i)
                                          - Joins(conn[c], i) + Joins(new, i)
  BY <1>2, <1>5, SMT DEF RegistryInv, RegistryTypes
<1>7. \A d \in Conns \ {c} : ~conn[d].bound => conn[d].author # id
  BY <1>1, RecordOf, IdsAreNaturals, Zenon
<1>8. \A i \in reserved' : ~Occupied(i)'
  BY <1>1, <1>2, Zenon DEF RegistryInv, ReservedAreApart, Occupied
<1>9. id # NoId
  BY <1>1, IdsAreNaturals
<1>10. \A i \in Ids : Occupied(i) => Occupied(i)'
  BY <1>2 DEF Occupied
<1>11. row' \in [Ids -> Keys \cup {NoKey}] /\ conns' \in [Ids -> Nat] /\ reserved' \in SUBSET Ids
  BY <1>1, <1>2 DEF RegistryInv, RegistryTypes
<1>12. /\ new \in ConnRecords /\ conn' = [conn EXCEPT ![c] = new]
       /\ new.author = id /\ new.author # NoId /\ new.author \in reserved' /\ new.pc = "serving"
       /\ new.joined = NoId /\ ~new.bound /\ ~conn[c].bound
  BY <1>2, <1>3, <1>4, <1>9, Zenon
<1>13. \A i \in Ids : i \in reserved /\ i # conn[c].author => i \in reserved'
  BY <1>2, Zenon
<1> HIDE DEF id
<1> QED BY <1>6, <1>7, <1>8, <1>10, <1>11, <1>12, <1>13, RegistryOne

LEMMA DropKeepsRegistry ==
  ASSUME RegistryInv, NEW c \in Conns, Drop(c) PROVE RegistryInv'
<1> DEFINE new == [conn[c] EXCEPT !.pc = "draining"]
<1>1. UNCHANGED <<row, conns, reserved>> /\ conn[c].pc = "serving" /\ conn' = [conn EXCEPT ![c] = new]
  BY Zenon DEF Drop, Serving, registryVars
<1>2. /\ new \in ConnRecords /\ new.pc = "draining" /\ new.author = conn[c].author
      /\ new.bound = conn[c].bound /\ new.joined = conn[c].joined
  BY RecordOf, Zenon DEF ConnRecords
<1> HIDE DEF new
<1>3. \A i \in Ids : conns'[i] = conns[i] - BindsTo(conn[c], i) + BindsTo(new, i)
                                          - Joins(conn[c], i) + Joins(new, i)
  <2> SUFFICES ASSUME NEW i \in Ids
               PROVE  conns[i] = conns[i] - BindsTo(conn[c], i) + BindsTo(new, i)
                                          - Joins(conn[c], i) + Joins(new, i)
    BY <1>1
  <2>1. BindsTo(conn[c], i) = BindsTo(new, i) /\ Joins(conn[c], i) = Joins(new, i)
        /\ BindsTo(new, i) \in {0, 1} /\ Joins(new, i) \in {0, 1}
    BY <1>2, Zenon DEF BindsTo, Joins
  <2>2. conns[i] \in Nat
    BY DEF RegistryInv, RegistryTypes
  <2> QED BY <2>1, <2>2, SMT
<1>4. /\ \A i \in Ids : Occupied(i) => Occupied(i)'
      /\ \A i \in Ids : i \in reserved /\ i # conn[c].author => i \in reserved'
  BY <1>1 DEF Occupied
<1>5. new.author # NoId /\ ~new.bound =>
          \A d \in Conns \ {c} : ~conn[d].bound => conn[d].author # new.author
  BY <1>2, Zenon DEF RegistryInv, ReservedAreApart
<1>6. row' \in [Ids -> Keys \cup {NoKey}] /\ conns' \in [Ids -> Nat] /\ reserved' \in SUBSET Ids
      /\ \A i \in reserved' : ~Occupied(i)'
  BY <1>1 DEF RegistryInv, RegistryTypes, ReservedAreApart, Occupied
<1>7. /\ new.author = NoId <=> new.pc = "away"
      /\ new.joined = NoId <=> new.pc # "joined"
      /\ new.joined # NoId => row'[new.joined] # NoKey
      /\ new.bound => new.author # NoId /\ row'[new.author] # NoKey
      /\ new.author # NoId /\ ~new.bound => new.author \in reserved'
  BY <1>1, <1>2, RecordOf, Zenon DEF Occupied
<1> QED BY <1>1, <1>2, <1>3, <1>4, <1>5, <1>6, <1>7, RegistryOne

\* What is left of the counts when a bound connection gives its id back.
LEMMA LeftCounts ==
  ASSUME RegistryInv, NEW c \in Conns, conn[c].bound
  PROVE  /\ Left(conn[c].author) \in [Ids -> Nat]
         /\ \A i \in Ids : Left(conn[c].author)[i] = conns[i] - BindsTo(conn[c], i)
<1> DEFINE a == conn[c].author
<1>1. a \in Ids /\ conns \in [Ids -> Nat]
  BY RecordOf DEF RegistryInv, RegistryTypes
<1>2. conns[a] > 0
  <2>1. conns[a] >= BindsTo(conn[c], a) + Joins(conn[c], a)
    BY <1>1, HeldIsCounted
  <2>2. BindsTo(conn[c], a) = 1 /\ Joins(conn[c], a) \in {0, 1}
    BY DEF BindsTo, Joins
  <2> HIDE DEF a
  <2> QED BY <1>1, <2>1, <2>2, SMT
<1>3. Left(a) = [conns EXCEPT ![a] = conns[a] - 1]
  BY <1>2 DEF Left
<1>4. \A i \in Ids : BindsTo(conn[c], i) = IF i = a THEN 1 ELSE 0
  BY DEF BindsTo
<1> HIDE DEF a
<1>5. Left(a) \in [Ids -> Nat] /\ \A i \in Ids : Left(a)[i] = conns[i] - (IF i = a THEN 1 ELSE 0)
  BY <1>1, <1>2, <1>3, SMT
<1> QED BY <1>4, <1>5 DEF a

LEMMA AwayRecord ==
  /\ Away \in ConnRecords /\ Away.pc = "away" /\ Away.author = NoId /\ ~Away.bound
  /\ Away.joined = NoId
  BY Zenon DEF Away, ConnRecords, SomeId

LEMMA DisconnectKeepsRegistry ==
  ASSUME RegistryInv, NEW c \in Conns, Disconnect(c) PROVE RegistryInv'
<1> DEFINE old == conn[c]
<1>1. /\ UNCHANGED row /\ old.pc = "draining" /\ conn' = [conn EXCEPT ![c] = Away]
      /\ IF old.bound THEN conns' = Left(old.author) /\ UNCHANGED reserved
                      ELSE reserved' = reserved \ {old.author} /\ UNCHANGED conns
  BY Zenon DEF Disconnect
<1>2. old.joined = NoId /\ old.author \in Ids
  BY <1>1, RecordOf, Zenon
<1>3. \A i \in Ids : /\ BindsTo(Away, i) = 0 /\ Joins(Away, i) = 0 /\ Joins(old, i) = 0
                     /\ ~old.bound => BindsTo(old, i) = 0
                     /\ BindsTo(old, i) \in {0, 1}
  BY <1>2, AwayRecord, IdsAreNaturals, Zenon DEF BindsTo, Joins
<1>4. conns' \in [Ids -> Nat] /\ \A i \in Ids : conns'[i] = conns[i] - BindsTo(old, i)
  <2>1. CASE old.bound
    BY <1>1, <2>1, LeftCounts
  <2>2. CASE ~old.bound
    <3>1. conns' = conns /\ conns \in [Ids -> Nat]
      BY <1>1, <2>2 DEF RegistryInv, RegistryTypes
    <3>2. \A i \in Ids : BindsTo(old, i) = 0
      BY <1>3, <2>2
    <3> HIDE DEF old
    <3> QED BY <3>1, <3>2, SMT
  <2> QED BY <2>1, <2>2
<1>5. \A i \in Ids : conns'[i] = conns[i] - BindsTo(old, i) + BindsTo(Away, i)
                                          - Joins(old, i) + Joins(Away, i)
  <2>1. conns \in [Ids -> Nat]
    BY DEF RegistryInv, RegistryTypes
  <2> HIDE DEF old
  <2> QED BY <1>3, <1>4, <2>1, SMT
<1>6. /\ \A i \in Ids : Occupied(i) => Occupied(i)'
      /\ \A i \in Ids : i \in reserved /\ i # old.author => i \in reserved'
      /\ ~old.bound \/ reserved \subseteq reserved'
      /\ reserved' \subseteq reserved
  BY <1>1 DEF Occupied
<1>7. row' \in [Ids -> Keys \cup {NoKey}] /\ reserved' \in SUBSET Ids
      /\ \A i \in reserved' : ~Occupied(i)'
  BY <1>1, <1>6 DEF RegistryInv, RegistryTypes, ReservedAreApart, Occupied
<1> QED BY <1>1, <1>4, <1>5, <1>6, <1>7, AwayRecord, RegistryOne

LEMMA BindKeepsRegistry ==
  ASSUME RegistryInv, NEW c \in Conns, Bind(c) PROVE RegistryInv'
<1> DEFINE old == conn[c]
           new == [pc |-> "serving", author |-> conn[c].joined, bound |-> TRUE, joined |-> NoId]
<1>1. /\ UNCHANGED row /\ old.pc = "joined"
      /\ conns' = IF old.bound THEN Left(old.author) ELSE conns
      /\ reserved' = IF old.bound THEN reserved ELSE reserved \ {old.author}
  BY Zenon DEF Bind, GivesBack
<1>2. conn' = [conn EXCEPT ![c] = new]
  BY Zenon DEF Bind
<1>3. old.joined \in Ids /\ Occupied(old.joined) /\ old.author \in Ids
  BY <1>1, RecordOf, Zenon
<1>4. /\ new \in ConnRecords /\ new.pc = "serving" /\ new.author = old.joined /\ new.bound
      /\ new.joined = NoId
  BY <1>3, Zenon DEF ConnRecords, SomeId
<1> HIDE DEF new
<1>5. \A i \in Ids : /\ BindsTo(new, i) = Joins(old, i) /\ Joins(new, i) = 0
                     /\ ~old.bound => BindsTo(old, i) = 0
                     /\ BindsTo(old, i) \in {0, 1} /\ Joins(old, i) \in {0, 1}
  BY <1>4, IdsAreNaturals, Zenon DEF BindsTo, Joins
<1>6. conns' \in [Ids -> Nat] /\ \A i \in Ids : conns'[i] = conns[i] - BindsTo(old, i)
  <2>1. CASE old.bound
    BY <1>1, <2>1, LeftCounts
  <2>2. CASE ~old.bound
    <3>1. conns' = conns /\ conns \in [Ids -> Nat]
      BY <1>1, <2>2 DEF RegistryInv, RegistryTypes
    <3>2. \A i \in Ids : BindsTo(old, i) = 0
      BY <1>5, <2>2
    <3> HIDE DEF old
    <3> QED BY <3>1, <3>2, SMT
  <2> QED BY <2>1, <2>2
<1>7. \A i \in Ids : conns'[i] = conns[i] - BindsTo(old, i) + BindsTo(new, i)
                                          - Joins(old, i) + Joins(new, i)
  <2>1. conns \in [Ids -> Nat]
    BY DEF RegistryInv, RegistryTypes
  <2> HIDE DEF old
  <2> QED BY <1>5, <1>6, <2>1, SMT
<1>8. /\ \A i \in Ids : Occupied(i) => Occupied(i)'
      /\ \A i \in Ids : i \in reserved /\ i # old.author => i \in reserved'
      /\ ~old.bound \/ reserved \subseteq reserved'
      /\ reserved' \subseteq reserved
  BY <1>1 DEF Occupied
<1>9. row' \in [Ids -> Keys \cup {NoKey}] /\ reserved' \in SUBSET Ids
      /\ \A i \in reserved' : ~Occupied(i)'
  BY <1>1, <1>8 DEF RegistryInv, RegistryTypes, ReservedAreApart, Occupied
<1>10. new.author # NoId /\ row'[new.author] # NoKey
  BY <1>1, <1>3, <1>4, IdsAreNaturals, Zenon DEF Occupied
<1> QED BY <1>2, <1>4, <1>6, <1>7, <1>8, <1>9, <1>10, RegistryOne

\* hello has got a row for the connection, which keeps what it held.
LEMMA JoinedKeepsRegistry ==
  ASSUME RegistryInv, NEW c \in Conns, Serving(c), NEW id \in Ids,
         conn' = [conn EXCEPT ![c].pc = "joined", ![c].joined = id],
         row' \in [Ids -> Keys \cup {NoKey}], row'[id] # NoKey,
         \A i \in Ids : Occupied(i) => Occupied(i)',
         UNCHANGED reserved, \A i \in reserved : ~Occupied(i)',
         conns' \in [Ids -> Nat],
         \A i \in Ids : conns'[i] = conns[i] + (IF i = id THEN 1 ELSE 0)
  PROVE  RegistryInv'
<1> DEFINE old == conn[c]
           new == [conn[c] EXCEPT !.pc = "joined", !.joined = id]
<1>1. old.pc = "serving" /\ conn' = [conn EXCEPT ![c] = new]
  BY Zenon DEF Serving
<1>2. /\ new \in ConnRecords /\ new.pc = "joined" /\ new.author = old.author
      /\ new.bound = old.bound /\ new.joined = id
  BY RecordOf, Zenon DEF ConnRecords, SomeId
<1>3. old.joined = NoId /\ old.author \in Ids
  BY <1>1, RecordOf, Zenon
<1> HIDE DEF new
<1>4. \A i \in Ids : /\ BindsTo(new, i) = BindsTo(old, i) /\ BindsTo(old, i) \in {0, 1}
                     /\ Joins(old, i) = 0 /\ Joins(new, i) = IF i = id THEN 1 ELSE 0
  BY <1>2, <1>3, IdsAreNaturals, Zenon DEF BindsTo, Joins
<1>5. \A i \in Ids : conns'[i] = conns[i] - BindsTo(old, i) + BindsTo(new, i)
                                          - Joins(old, i) + Joins(new, i)
  <2>1. conns \in [Ids -> Nat]
    BY DEF RegistryInv, RegistryTypes
  <2> HIDE DEF old
  <2> QED BY <1>4, <2>1, SMT
<1>6. new.author # NoId /\ ~new.bound =>
          \A d \in Conns \ {c} : ~conn[d].bound => conn[d].author # new.author
  BY <1>2, Zenon DEF RegistryInv, ReservedAreApart
<1>7. /\ new.author = NoId <=> new.pc = "away"
      /\ new.joined = NoId <=> new.pc # "joined"
      /\ new.joined # NoId => row'[new.joined] # NoKey
      /\ new.bound => new.author # NoId /\ row'[new.author] # NoKey
      /\ new.author # NoId /\ ~new.bound => new.author \in reserved'
  BY <1>2, <1>3, RecordOf, IdsAreNaturals, Zenon DEF Occupied
<1>8. reserved' \in SUBSET Ids /\ \A i \in reserved' : ~Occupied(i)'
  BY DEF RegistryInv, RegistryTypes
<1>9. \A i \in Ids : i \in reserved /\ i # old.author => i \in reserved'
  OBVIOUS
<1> QED BY <1>1, <1>2, <1>5, <1>6, <1>7, <1>8, <1>9, RegistryOne

\* An id whose row is new, or whose participant is gone, is held by nobody.
LEMMA InstallKeepsRegistry ==
  ASSUME RegistryInv, NEW c \in Conns, Serving(c), NEW k \in Keys, NEW id \in Ids,
         Install(c, k, id), UNCHANGED reserved, id \notin reserved, conns[id] = 0
  PROVE  RegistryInv'
<1>1. /\ row' = [row EXCEPT ![id] = k] /\ conns' = [conns EXCEPT ![id] = 1]
      /\ conn' = [conn EXCEPT ![c].pc = "joined", ![c].joined = id]
  BY DEF Install
<1>2. k # NoKey /\ row \in [Ids -> Keys \cup {NoKey}] /\ conns \in [Ids -> Nat] /\ reserved \in SUBSET Ids
  BY ParticipantsAssumption DEF RegistryInv, RegistryTypes
<1>3. /\ row' \in [Ids -> Keys \cup {NoKey}] /\ row'[id] # NoKey
      /\ \A i \in Ids : row'[i] = IF i = id THEN k ELSE row[i]
  BY <1>1, <1>2, SMT
<1>4. \A i \in Ids : Occupied(i) => Occupied(i)'
  BY <1>2, <1>3, Zenon DEF Occupied
<1>5. \A i \in reserved : ~Occupied(i)'
  BY <1>2, <1>3, Zenon DEF Occupied, RegistryInv, ReservedAreApart
<1>6. /\ conns' \in [Ids -> Nat]
      /\ \A i \in Ids : conns'[i] = conns[i] + (IF i = id THEN 1 ELSE 0)
  BY <1>1, <1>2, SMT
<1> QED BY <1>1, <1>3, <1>4, <1>5, <1>6, JoinedKeepsRegistry

LEMMA FreeIsNotHeld ==
  ASSUME RegistryInv, NEW id \in Ids, ~Occupied(id)
  PROVE  conns[id] = 0
<1>1. \A c \in Conns : ~(conn[c].bound /\ conn[c].author = id) /\ conn[c].joined # id
  BY RecordOf, Zenon
<1>2. BoundTo(id) = {} /\ Joining(id) = {}
  BY <1>1, Zenon DEF BoundTo, Joining
<1>3. Cardinality(BoundTo(id)) = 0 /\ Cardinality(Joining(id)) = 0
  BY <1>2, FS_EmptySet
<1> QED BY <1>3, SMT DEF RegistryInv, CountsConnections

LEMMA HelloKeepsRegistry ==
  ASSUME RegistryInv, NEW c \in Conns, NEW k \in Keys, Hello(c, k) PROVE RegistryInv'
<1>1. Serving(c)
  BY DEF Hello
<1>2. CASE Rejoin(c, k)
  <2>1. PICK id \in Ids : /\ row[id] = k /\ conns' = [conns EXCEPT ![id] = @ + 1]
                          /\ conn' = [conn EXCEPT ![c].pc = "joined", ![c].joined = id]
                          /\ UNCHANGED <<row, reserved>>
    BY <1>2, Zenon DEF Rejoin, Holders
  <2>2. row \in [Ids -> Keys \cup {NoKey}] /\ conns \in [Ids -> Nat] /\ row[id] # NoKey
    BY <2>1, ParticipantsAssumption DEF RegistryInv, RegistryTypes
  <2>3. /\ conns' \in [Ids -> Nat]
        /\ \A i \in Ids : conns'[i] = conns[i] + (IF i = id THEN 1 ELSE 0)
    BY <2>1, <2>2, SMT
  <2>4. /\ \A i \in Ids : Occupied(i) => Occupied(i)'
        /\ \A i \in reserved : ~Occupied(i)'
    BY <2>1, Zenon DEF Occupied, RegistryInv, ReservedAreApart
  <2> QED BY <1>1, <2>1, <2>2, <2>3, <2>4, JoinedKeepsRegistry
<1>3. CASE JoinFresh(c, k)
  <2> DEFINE id == Min(FreshIds)
  <2>1. FreshIds \in SUBSET Nat /\ FreshIds # {}
    BY <1>3, IdsAreNaturals DEF JoinFresh, FreshIds
  <2>2. id \in FreshIds
    BY <2>1, MinOfNaturals
  <2>3. id \in Ids /\ ~Occupied(id) /\ id \notin reserved
    BY <2>2 DEF FreshIds
  <2>4. Install(c, k, id) /\ UNCHANGED reserved
    BY <1>3 DEF JoinFresh
  <2> HIDE DEF id
  <2> QED BY <1>1, <2>3, <2>4, FreeIsNotHeld, InstallKeepsRegistry
<1>4. CASE Recycle(c, k)
  <2> DEFINE id == Min(GoneIds)
  <2>1. GoneIds \in SUBSET Nat /\ GoneIds # {}
    BY <1>4, IdsAreNaturals DEF Recycle, GoneIds
  <2>2. id \in GoneIds
    BY <2>1, MinOfNaturals
  <2>3. id \in Ids /\ Occupied(id) /\ ~(conns[id] > 0)
    BY <2>2 DEF GoneIds, Connected
  <2>4. Install(c, k, id) /\ UNCHANGED reserved
    BY <1>4 DEF Recycle
  <2> HIDE DEF id
  <2>5. id \notin reserved
    BY <2>3 DEF RegistryInv, ReservedAreApart
  <2>6. conns[id] = 0
    BY <2>3, SMT DEF RegistryInv, RegistryTypes
  <2> QED BY <1>1, <2>3, <2>4, <2>5, <2>6, InstallKeepsRegistry
<1>5. CASE JoinRefused(c, k)
  <2>1. UNCHANGED <<row, conns, reserved, conn>>
    BY <1>5 DEF JoinRefused
  <2> QED BY <2>1, SMT DEF RegistryInv, RegistryTypes, HoldsIds, ReservedAreApart, CountsConnections,
                           BoundTo, Joining, Occupied
<1> QED BY <1>2, <1>3, <1>4, <1>5 DEF Hello

LEMMA RestartKeepsRegistry ==
  ASSUME RegistryTypes, row' \in [Ids -> Keys \cup {NoKey}],
         conns' = [id \in Ids |-> 0], reserved' = {}, conn' = [c \in Conns |-> Away]
  PROVE  RegistryInv'
<1>1. \A c \in Conns : conn'[c] = Away
  OBVIOUS
<1>2. RegistryTypes'
  BY AwayRecord, SMT DEF RegistryTypes
<1>3. HoldsIds' /\ ReservedAreApart'
  BY <1>1, AwayRecord, Zenon DEF HoldsIds, ReservedAreApart
<1>4. CountsConnections'
  <2> SUFFICES ASSUME NEW id \in Ids
               PROVE  0 = Cardinality(BoundTo(id)') + Cardinality(Joining(id)')
    BY DEF CountsConnections
  <2>1. BoundTo(id)' = {} /\ Joining(id)' = {}
    BY <1>1, AwayRecord, IdsAreNaturals, Zenon DEF BoundTo, Joining
  <2>2. Cardinality({}) = 0
    BY FS_EmptySet
  <2> QED BY <2>1, <2>2, SMT
<1> QED BY <1>2, <1>3, <1>4 DEF RegistryInv

LEMMA RegistryInvInit == ASSUME ParticipantsInit PROVE RegistryInv
<1>1. \A c \in Conns : conn[c] = Away
  BY DEF ParticipantsInit
<1>2. RegistryTypes
  BY AwayRecord, SMT DEF RegistryTypes, ParticipantsInit
<1>3. HoldsIds /\ ReservedAreApart
  BY <1>1, AwayRecord, Zenon DEF HoldsIds, ReservedAreApart, ParticipantsInit
<1>4. CountsConnections
  <2> SUFFICES ASSUME NEW id \in Ids
               PROVE  conns[id] = Cardinality(BoundTo(id)) + Cardinality(Joining(id))
    BY DEF CountsConnections
  <2>1. BoundTo(id) = {} /\ Joining(id) = {}
    BY <1>1, AwayRecord, IdsAreNaturals, Zenon DEF BoundTo, Joining
  <2>2. Cardinality({}) = 0 /\ conns[id] = 0
    BY FS_EmptySet DEF ParticipantsInit
  <2> QED BY <2>1, <2>2, SMT
<1> QED BY <1>2, <1>3, <1>4 DEF RegistryInv

LEMMA RegistryUnchanged ==
  ASSUME RegistryInv, UNCHANGED participantVars PROVE RegistryInv'
<1>1. UNCHANGED <<row, conns, reserved, conn>>
  BY DEF participantVars, registryVars
<1> QED BY <1>1, SMT DEF RegistryInv, RegistryTypes, HoldsIds, ReservedAreApart,
                         CountsConnections, BoundTo, Joining, Occupied

\* What a restart takes of the registry: some of its rows.
LEMMA RestartRows ==
  ASSUME RegistryTypes, Restart
  PROVE  /\ row' \in [Ids -> Keys \cup {NoKey}]
         /\ conns' = [id \in Ids |-> 0] /\ reserved' = {} /\ conn' = [c \in Conns |-> Away]
  BY SMT DEF Restart, ParticipantsRestart, RegistryTypes

LEMMA RegistryInvStep ==
  ASSUME RegistryInv, [Next]_vars PROVE RegistryInv'
<1>1. ASSUME NEW m \in Msgs, \/ \E to \in Ids : Post(m, to) \/ PostRefused(m, to)
                             \/ PostSend(m) \/ PostNote(m) \/ PostDiscard(m)
      PROVE  RegistryInv'
  BY <1>1, RegistryUnchanged, Zenon DEF Post, PostRefused, PostSend, PostNote, PostDiscard
<1>2. ASSUME NEW c \in Conns, Recv(c) \/ Park(c) \/ Confirm(c) \/ Take(c) \/ GiveUp(c)
                              \/ Answer(c) \/ Cancel(c)
      PROVE  RegistryInv'
  BY <1>2, RegistryUnchanged, Zenon DEF Recv, Park, Confirm, Take, GiveUp, Answer, Cancel
<1>3. ASSUME NEW c \in Conns, Accept(c) PROVE RegistryInv'
  BY <1>3, ConnectKeepsRegistry DEF Accept
<1>4. ASSUME NEW c \in Conns, Lose(c) PROVE RegistryInv'
  BY <1>4, DropKeepsRegistry DEF Lose
<1>5. ASSUME NEW c \in Conns, End(c) PROVE RegistryInv'
  BY <1>5, DisconnectKeepsRegistry DEF End
<1>6. ASSUME NEW c \in Conns, HelloReplay(c) PROVE RegistryInv'
  BY <1>6, BindKeepsRegistry DEF HelloReplay
<1>7. ASSUME NEW c \in Conns, NEW k \in Keys, SayHello(c, k) PROVE RegistryInv'
  BY <1>7, HelloKeepsRegistry DEF SayHello
<1>8. CASE Restart
  BY <1>8, RestartRows, RestartKeepsRegistry DEF RegistryInv
<1>9. CASE UNCHANGED vars
  BY <1>9, RegistryUnchanged DEF vars
<1> QED BY <1>1, <1>2, <1>3, <1>4, <1>5, <1>6, <1>7, <1>8, <1>9 DEF Next

\* A participant counts as connected exactly while connections hold its id, through
\* any hellos that repeat, change identity, are refused or are cut short, any losses
\* and restarts (Registry.Join and Leave, and serve's calls of them).
THEOREM RegistryCounts == Spec => []CountsConnections
<1>1. Init => RegistryInv
  BY RegistryInvInit DEF Init
<1>2. RegistryInv /\ [Next]_vars => RegistryInv'
  BY RegistryInvStep
<1>3. RegistryInv => CountsConnections
  BY DEF RegistryInv
<1> QED BY <1>1, <1>2, <1>3, PTL DEF Spec

\* However ids are reserved, bound, given back and recycled, two connections write as
\* one author id only when both said hello as the identity its row is of.
THEOREM WritersAreApart == Spec => []OneWriterPerId
<1>1. Init => RegistryInv
  BY RegistryInvInit DEF Init
<1>2. RegistryInv /\ [Next]_vars => RegistryInv'
  BY RegistryInvStep
<1>3. RegistryInv => OneWriterPerId
  <2> SUFFICES ASSUME RegistryInv PROVE OneWriterPerId
    OBVIOUS
  <2>1. \A c \in Conns : conn[c].bound => Occupied(conn[c].author)
    BY DEF RegistryInv, HoldsIds
  <2>2. \A id \in reserved : ~Occupied(id)
    BY DEF RegistryInv, ReservedAreApart
  <2>3. ASSUME NEW c \in Conns, NEW d \in Conns, c # d, conn[c].author # NoId,
               conn[c].author = conn[d].author
        PROVE  conn[c].bound /\ conn[d].bound
    <3>1. \A e \in {c, d} : ~conn[e].bound => conn[e].author \in reserved
      BY <2>3, RecordOf, Zenon
    <3>2. CASE ~conn[c].bound /\ ~conn[d].bound
      BY <2>3, <3>2, Zenon DEF RegistryInv, ReservedAreApart
    <3> QED BY <2>1, <2>2, <2>3, <3>1, <3>2, Zenon
  <2> QED BY <2>1, <2>2, <2>3 DEF OneWriterPerId
<1> QED BY <1>1, <1>2, <1>3, PTL DEF Spec

-----------------------------------------------------------------------------
(* The store, the boxes and a replay.                                      *)

LEMMA WithoutRows ==
  ASSUME NEW s \in Seq(Rows), NEW ms
  PROVE  /\ Without(s, ms) \in Seq(Rows)
         /\ Range(Without(s, ms)) = {e \in Range(s) : e.msg \notin ms}
<1> DEFINE T == {e \in Range(s) : e.msg \notin ms}
<1>1. Filter(s, T) \in Seq(Rows) /\ Range(Filter(s, T)) = Range(s) \cap T
  BY FilterElements
<1> QED BY <1>1 DEF Without

\* A message is stored when a row has it.
LEMMA HasItsRow ==
  ASSUME NEW s \in Seq(Rows), NEW m
  PROVE  (\E k \in Keys : \E i \in DOMAIN s : s[i] = [key |-> k, msg |-> m])
             <=> \E e \in Range(s) : e.msg = m
<1>1. Range(s) \subseteq Rows
  BY RangeIsFinite
<1>2. \A e \in Rows : e = [key |-> e.key, msg |-> e.msg] /\ e.key \in Keys
  BY DEF Rows
<1> QED BY <1>1, <1>2 DEF Range

LEMMA FullByRoom ==
  ASSUME MailTypes, NEW id \in Ids
  PROVE  /\ Len(box[id]) \in Nat /\ Depth \in Nat \ {0}
         /\ Range(box[id]) \in SUBSET Msgs
         /\ ~Full(id) => Len(box[id]) + 1 <= Depth
<1>1. box[id] \in Seq(Msgs) /\ Depth \in Nat \ {0}
  BY MailboxAssumption DEF MailTypes, BoxTypes
<1>2. Len(box[id]) \in Nat /\ Range(box[id]) \in SUBSET Msgs
  BY <1>1, RangeIsFinite, SMT
<1> QED BY <1>1, <1>2, SMT DEF Full

\* What a replay queues comes from the store, and the box takes it.
LEMMA ReplayFacts ==
  ASSUME MailTypes, NEW k, NEW held \in SUBSET Msgs, IsFiniteSet(held),
         NEW b \in Seq(Msgs), Len(b) <= Depth
  PROVE  /\ Replay(k, held, b).box \in Seq(Msgs) /\ Len(Replay(k, held, b).box) <= Depth
         /\ Replay(k, held, b).held \in SUBSET Msgs
         /\ IsFiniteSet(Replay(k, held, b).held)
         /\ \A m \in Range(Replay(k, held, b).box) :
                m \in Range(b) \/ \E e \in Range(store) : e.msg = m
<1> DEFINE T      == {e \in Range(store) : e.key = k /\ e.msg \notin held}
           rows   == Filter(store, T)
           fresh  == [i \in DOMAIN rows |-> rows[i].msg]
           room   == Max({0, Depth - Cardinality(held)})
           over   == Max({0, Len(fresh) - room})
           queue  == SubSeq(fresh, over + 1, Len(fresh))
           upto   == Min({Len(queue), Depth - Len(b)})
           queued == SubSeq(queue, 1, upto)
<1>1. store \in Seq(Rows) /\ Depth \in Nat /\ Len(b) \in Nat
  BY MailboxAssumption, SMT DEF MailTypes, StoreTypes
<1>2. rows \in Seq(Rows) /\ Range(rows) \subseteq Range(store)
  <2> HIDE DEF T
  <2> QED BY <1>1, FilterElements
<1> HIDE DEF rows
<1>3. fresh \in Seq(Msgs) /\ \A m \in Range(fresh) : \E e \in Range(store) : e.msg = m
  <2>1. DOMAIN rows = 1 .. Len(rows) /\ Len(rows) \in Nat /\ \A i \in DOMAIN rows : rows[i] \in Rows
    BY <1>2, SMT
  <2>2. \A i \in DOMAIN rows : rows[i].msg \in Msgs
    BY <2>1 DEF Rows
  <2>3. fresh \in [1 .. Len(rows) -> Msgs]
    BY <2>1, <2>2, Zenon
  <2>4. fresh \in Seq(Msgs)
    <3> HIDE DEF fresh
    <3> QED BY <2>1, <2>3, SMT
  <2>5. \A m \in Range(fresh) : \E i \in DOMAIN rows : m = rows[i].msg
    BY DEF Range
  <2> QED BY <1>2, <2>4, <2>5 DEF Range
<1> HIDE DEF fresh
<1>4. Len(fresh) \in Nat /\ Cardinality(held) \in Nat
  BY <1>3, FS_CardinalityType, SMT
<1>5. room \in Nat
  BY <1>1, <1>4, MaxOfTwo, SMT
<1> HIDE DEF room
<1>6. over \in Nat
  BY <1>4, <1>5, MaxOfTwo, SMT
<1> HIDE DEF over
<1>7. queue \in Seq(Msgs) /\ Range(queue) \subseteq Range(fresh) /\ Len(queue) \in Nat
  <2>1. over + 1 \in Nat \ {0} /\ Len(fresh) \in Int /\ Len(fresh) <= Len(fresh)
    BY <1>4, <1>6, SMT
  <2>2. queue \in Seq(Msgs) /\ Range(queue) \subseteq Range(fresh)
    BY <1>3, <2>1, RangeOfSubSeq
  <2> HIDE DEF queue
  <2> QED BY <2>2, SMT
<1> HIDE DEF queue
<1>8. upto \in Int /\ upto <= Len(queue) /\ upto <= Depth - Len(b)
  BY <1>1, <1>7, MinOfTwo, SMT
<1> HIDE DEF upto
<1>9. /\ queued \in Seq(Msgs) /\ Range(queued) \subseteq Range(queue)
      /\ Len(queued) = IF 1 <= upto THEN upto - 1 + 1 ELSE 0
  <2>1. 1 \in Nat \ {0}
    OBVIOUS
  <2> QED BY <1>7, <1>8, <2>1, RangeOfSubSeq
<1> HIDE DEF queued
<1>10. /\ Replay(k, held, b).box = b \o queued
       /\ Replay(k, held, b).held = held \cup Range(queued)
  BY DEF Replay, queued, upto, queue, over, room, fresh, rows, T
<1>11. b \o queued \in Seq(Msgs) /\ Range(b \o queued) \subseteq Range(b) \cup Range(queued)
  BY <1>9, RangeOfConcat
<1>12. Len(b \o queued) <= Depth
  BY <1>1, <1>8, <1>9, SMT
<1>13. Range(queued) \in SUBSET Msgs /\ IsFiniteSet(Range(queued))
  BY <1>9, RangeIsFinite
<1>14. IsFiniteSet(held \cup Range(queued))
  BY <1>13, FS_Union
<1>15. \A m \in Range(b \o queued) : m \in Range(b) \/ \E e \in Range(store) : e.msg = m
  BY <1>3, <1>7, <1>9, <1>11
<1> QED BY <1>10, <1>11, <1>12, <1>13, <1>14, <1>15

-----------------------------------------------------------------------------
(* The mail keeps its types.                                               *)

LEMMA BoxTypesOne ==
  ASSUME MailTypes, NEW id \in Ids, NEW b \in Seq(Msgs), Len(b) <= Depth,
         box' = [box EXCEPT ![id] = b]
  PROVE  BoxTypes' /\ box'[id] = b /\ \A i \in Ids \ {id} : box'[i] = box[i]
<1>1. box \in [Ids -> Seq(Msgs)] /\ \A i \in Ids : Len(box[i]) <= Depth
  BY DEF MailTypes, BoxTypes
<1>2. box' \in [Ids -> Seq(Msgs)] /\ box'[id] = b /\ \A i \in Ids \ {id} : box'[i] = box[i]
  BY <1>1, Zenon
<1> QED BY <1>1, <1>2 DEF BoxTypes

LEMMA PostTypesOne ==
  ASSUME MailTypes, NEW m \in Msgs, NEW new,
         new \in [pc : {"unsent", "accepted", "sent", "done"}, to : SomeId],
         new.pc \in {"accepted", "sent"} => new.to \in Ids, new # Unsent,
         post' = [post EXCEPT ![m] = new]
  PROVE  PostTypes' /\ \A n \in Msgs : post'[n] = Unsent => post[n] = Unsent /\ n # m
<1>1. /\ post \in [Msgs -> [pc : {"unsent", "accepted", "sent", "done"}, to : SomeId]]
      /\ \A n \in Msgs : post[n].pc \in {"accepted", "sent"} => post[n].to \in Ids
  BY DEF MailTypes, PostTypes
<1>2. post'[m] = new /\ \A n \in Msgs \ {m} : post'[n] = post[n]
  BY <1>1, Zenon
<1>3. post' \in [Msgs -> [pc : {"unsent", "accepted", "sent", "done"}, to : SomeId]]
  BY <1>1, Zenon
<1> QED BY <1>1, <1>2, <1>3, Zenon DEF PostTypes

LEMMA LeavesTypes ==
  ASSUME MailTypes, NEW m \in Msgs, NEW to \in {"sent", "done"},
         to = "sent" => post[m].to \in Ids, post' = Leaves(m, to)
  PROVE  PostTypes' /\ \A n \in Msgs : post'[n] = Unsent => post[n] = Unsent /\ n # m
<1> DEFINE new == [post[m] EXCEPT !.pc = to, !.to = IF to = "done" THEN NoId ELSE @]
           rec == [pc |-> to, to |-> IF to = "done" THEN NoId ELSE post[m].to]
<1>1. post' = [post EXCEPT ![m] = rec]
  BY DEF Leaves
<1>2. post[m].to \in SomeId /\ NoId \in SomeId
  BY DEF MailTypes, PostTypes, SomeId
<1>3. rec \in [pc : {"unsent", "accepted", "sent", "done"}, to : SomeId]
      /\ (rec.pc \in {"accepted", "sent"} => rec.to \in Ids) /\ rec # Unsent
  BY <1>2 DEF Unsent
<1> HIDE DEF rec
<1> QED BY <1>1, <1>3, PostTypesOne

LEMMA PostKeepsTypes ==
  ASSUME RegistryInv, MailTypes, NEW m \in Msgs, NEW to \in Ids, Post(m, to)
  PROVE  MailTypes'
<1> DEFINE new == [pc |-> "accepted", to |-> to]
<1>1. post' = [post EXCEPT ![m] = new] /\ UNCHANGED <<box, waiter, handed, inflight, reader>>
  BY DEF Post, boxVars
<1>2. new \in [pc : {"unsent", "accepted", "sent", "done"}, to : SomeId]
      /\ (new.pc \in {"accepted", "sent"} => new.to \in Ids) /\ new # Unsent
  BY DEF Unsent, SomeId
<1> HIDE DEF new
<1>3. PostTypes'
  BY <1>1, <1>2, PostTypesOne
<1>4. StoreTypes'
  <2>1. store \in Seq(Rows) /\ owed \in SUBSET Msgs
    BY DEF MailTypes, StoreTypes
  <2>2. CASE HasRow(m)
    <3> DEFINE e == [key |-> row[to], msg |-> m]
    <3>1. store' = Append(store, e) /\ owed' = owed \cup {m} /\ row[to] \in Keys
      BY <2>2 DEF Post, Occupied, RegistryInv, RegistryTypes
    <3>2. e \in Rows
      BY <2>2, <3>1 DEF Rows, HasRow
    <3> HIDE DEF e
    <3>3. store' \in Seq(Rows)
      BY <2>1, <3>1, <3>2, RangeOfAppend
    <3> QED BY <2>1, <3>1, <3>3 DEF StoreTypes
  <2>3. CASE ~HasRow(m)
    BY <2>1, <2>3 DEF Post, StoreTypes
  <2> QED BY <2>2, <2>3
<1> QED BY <1>1, <1>3, <1>4 DEF MailTypes, BoxTypes, HeldTypes, ReaderTypes

LEMMA PostRefusedKeepsTypes ==
  ASSUME MailTypes, NEW m \in Msgs, NEW to \in Ids, PostRefused(m, to)
  PROVE  MailTypes'
<1>1. PostTypes'
  BY LeavesTypes DEF PostRefused
<1> QED BY <1>1 DEF MailTypes, BoxTypes, HeldTypes, ReaderTypes, StoreTypes, PostRefused,
                    boxVars, histories

LEMMA PostSendKeepsTypes ==
  ASSUME MailTypes, NEW m \in Msgs, PostSend(m)
  PROVE  MailTypes'
<1> DEFINE to == post[m].to
           b  == Append(box[to], m)
<1>1. to \in Ids
  BY DEF PostSend, MailTypes, PostTypes
<1>2. PostTypes'
  BY <1>1, LeavesTypes DEF PostSend
<1>3. box' = [box EXCEPT ![to] = b] /\ ~Full(to)
  BY DEF PostSend
<1>4. b \in Seq(Msgs) /\ Len(b) <= Depth
  <2>1. box[to] \in Seq(Msgs)
    BY <1>1 DEF MailTypes, BoxTypes
  <2>2. Len(box[to]) + 1 <= Depth
    BY <1>1, <1>3, FullByRoom
  <2> HIDE DEF to
  <2> QED BY <2>1, <2>2, SMT
<1> HIDE DEF to, b
<1>5. BoxTypes'
  BY <1>1, <1>3, <1>4, BoxTypesOne
<1> QED BY <1>2, <1>5 DEF MailTypes, HeldTypes, ReaderTypes, StoreTypes, PostSend, histories

LEMMA PostNoteKeepsTypes ==
  ASSUME MailTypes, NEW m \in Msgs, PostNote(m)
  PROVE  MailTypes'
<1> DEFINE to == post[m].to
<1>1. PostTypes'
  BY LeavesTypes DEF PostNote
<1>2. to \in Ids /\ inflight' = [inflight EXCEPT ![to] = @ \cup {m}] /\ UNCHANGED handed
  BY DEF PostNote, MailTypes, PostTypes
<1> HIDE DEF to
<1>3. IsFiniteSet(inflight[to] \cup {m})
  BY <1>2, FS_AddElement DEF MailTypes, HeldTypes
<1>4. HeldTypes'
  BY <1>2, <1>3 DEF MailTypes, HeldTypes
<1> QED BY <1>1, <1>4 DEF MailTypes, BoxTypes, ReaderTypes, StoreTypes, PostNote, histories

LEMMA PostDiscardKeepsTypes ==
  ASSUME MailTypes, NEW m \in Msgs, PostDiscard(m)
  PROVE  MailTypes'
<1>1. PostTypes'
  BY LeavesTypes DEF PostDiscard
<1>2. store' = Without(store, {m}) /\ owed' = owed \ {m}
  BY DEF PostDiscard
<1>3. StoreTypes'
  BY <1>2, WithoutRows DEF MailTypes, StoreTypes
<1> QED BY <1>1, <1>3 DEF MailTypes, BoxTypes, HeldTypes, ReaderTypes, PostDiscard, boxVars

-----------------------------------------------------------------------------
(* The readers.                                                            *)

LEMMA FreeRecord ==
  /\ Free \in ReaderRecords /\ Free.pc = "free" /\ Free.to = NoId /\ Free.live /\ Free.got = {}
  BY Zenon DEF Free, ReaderRecords, SomeId

LEMMA ReaderRecord ==
  ASSUME ReaderInv, NEW c \in Conns
  PROVE  /\ reader[c] \in ReaderRecords /\ reader[c].live \in BOOLEAN
         /\ reader[c].to \in SomeId /\ reader[c].got \in SUBSET Msgs
         /\ reader[c].pc \in {"free", "begun", "parked", "waiting", "took"}
         /\ reader[c].pc \in {"parked", "waiting", "took"} => reader[c].to \in Ids
         /\ reader[c].pc # "free" => conn[c].author # NoId
  BY Zenon DEF ReaderInv, MailTypes, ReaderTypes, ReadersAreServed, ReaderRecords

\* One reader goes on, on a slot it holds already.
LEMMA ReaderGoesOn ==
  ASSUME ReaderInv, NEW c \in Conns, NEW r \in ReaderRecords,
         reader' = [reader EXCEPT ![c] = r], UNCHANGED waiter,
         \A d \in Conns : conn[d].author # NoId => conn'[d].author # NoId,
         r.pc # "free" => conn[c].author # NoId,
         r.pc \in {"parked", "waiting", "took"} => r.to \in Ids,
         r.pc \in {"parked", "waiting"} /\ r.live => Parked(c) /\ r.to = reader[c].to
  PROVE  ReaderTypes' /\ ReadersAreServed' /\ OwnsSlot'
<1>1. ReaderTypes /\ ReadersAreServed /\ OwnsSlot
  BY DEF ReaderInv, MailTypes
<1>2. reader'[c] = r /\ \A d \in Conns \ {c} : reader'[d] = reader[d]
  BY <1>1, Zenon DEF ReaderTypes
<1>3. ReaderTypes'
  BY <1>1, Zenon DEF ReaderTypes
<1>4. ReadersAreServed'
  BY <1>1, <1>2, Zenon DEF ReadersAreServed
<1>5. ASSUME NEW d \in Conns, Parked(d)' PROVE waiter'[reader'[d].to] = d
  <2>1. Parked(d) /\ reader'[d].to = reader[d].to
    BY <1>2, <1>5, Zenon DEF Parked
  <2> QED BY <1>1, <2>1 DEF OwnsSlot
<1>6. OwnsSlot'
  BY <1>5 DEF OwnsSlot
<1> QED BY <1>3, <1>4, <1>6

\* A reader that leaves gives back the slot only if it is its own.
LEMMA ReaderLeaves ==
  ASSUME ReaderInv, NEW c \in Conns, Leave(c), reader[c].to \in Ids, UNCHANGED conn
  PROVE  ReaderTypes' /\ ReadersAreServed' /\ OwnsSlot'
<1>1. ReaderTypes /\ ReadersAreServed /\ OwnsSlot
  BY DEF ReaderInv, MailTypes
<1>2. /\ reader' = [reader EXCEPT ![c] = Free]
      /\ waiter' = IF waiter[reader[c].to] = c THEN [waiter EXCEPT ![reader[c].to] = NoReader]
                   ELSE waiter
  BY DEF Leave, Unparked
<1>3. reader'[c] = Free /\ \A d \in Conns \ {c} : reader'[d] = reader[d]
  BY <1>1, <1>2, Zenon DEF ReaderTypes
<1>4. ReaderTypes'
  BY <1>1, <1>2, FreeRecord, Zenon DEF ReaderTypes
<1>5. ReadersAreServed'
  BY <1>1, <1>3, FreeRecord, Zenon DEF ReadersAreServed
<1>6. \A i \in Ids : waiter[i] # c => waiter'[i] = waiter[i]
  BY <1>1, <1>2, Zenon DEF ReaderTypes
<1>7. \A d \in Conns : reader[d].pc \in {"parked", "waiting", "took"} => reader[d].to \in Ids
  BY <1>1 DEF ReadersAreServed
<1>8. ASSUME NEW d \in Conns, Parked(d)' PROVE waiter'[reader'[d].to] = d
  <2>1. d # c
    BY <1>3, <1>8, FreeRecord DEF Parked
  <2>2. reader'[d] = reader[d] /\ Parked(d) /\ reader[d].to \in Ids
    BY <1>3, <1>7, <1>8, <2>1, Zenon DEF Parked
  <2>3. waiter[reader[d].to] = d
    BY <1>1, <2>2 DEF OwnsSlot
  <2> QED BY <1>6, <2>1, <2>2, <2>3
<1>9. OwnsSlot'
  BY <1>8 DEF OwnsSlot
<1> QED BY <1>4, <1>5, <1>9

LEMMA RecvKeepsReaders ==
  ASSUME RegistryInv, ReaderInv, NEW c \in Conns, Recv(c) PROVE ReaderInv'
<1> DEFINE r == [reader[c] EXCEPT !.pc = "begun"]
<1>1. reader' = [reader EXCEPT ![c] = r] /\ UNCHANGED <<waiter, conn>> /\ conn[c].pc = "serving"
  BY DEF Recv, boxVars, participantVars, Serving
<1>2. r \in ReaderRecords /\ r.pc = "begun"
  BY ReaderRecord DEF ReaderRecords
<1>3. conn[c].author # NoId
  BY <1>1, RecordOf
<1> HIDE DEF r
<1>4. ReaderTypes' /\ ReadersAreServed' /\ OwnsSlot'
  BY <1>1, <1>2, <1>3, ReaderGoesOn
<1> QED BY <1>4 DEF ReaderInv, MailTypes, BoxTypes, HeldTypes, PostTypes, StoreTypes, Recv,
                    boxVars, histories

LEMMA ConfirmKeepsReaders ==
  ASSUME ReaderInv, NEW c \in Conns, Confirm(c) PROVE ReaderInv'
<1> DEFINE r == [reader[c] EXCEPT !.pc = "waiting", !.got = {}]
<1>1. /\ reader' = [reader EXCEPT ![c] = r] /\ UNCHANGED <<waiter, conn>> /\ reader[c].pc = "parked"
      /\ store' = Without(store, reader[c].got) /\ UNCHANGED owed
  BY DEF Confirm, boxVars, participantVars, histories
<1>2. /\ r \in ReaderRecords /\ r.pc = "waiting" /\ r.to = reader[c].to /\ r.live = reader[c].live
  BY ReaderRecord DEF ReaderRecords
<1>3. conn[c].author # NoId /\ reader[c].to \in Ids
  BY <1>1, ReaderRecord
<1> HIDE DEF r
<1>4. ReaderTypes' /\ ReadersAreServed' /\ OwnsSlot'
  BY <1>1, <1>2, <1>3, ReaderGoesOn DEF Parked
<1>5. StoreTypes'
  BY <1>1, WithoutRows DEF ReaderInv, MailTypes, StoreTypes
<1> QED BY <1>4, <1>5 DEF ReaderInv, MailTypes, BoxTypes, HeldTypes, PostTypes, Confirm, boxVars

LEMMA TakeKeepsReaders ==
  ASSUME ReaderInv, NEW c \in Conns, Take(c) PROVE ReaderInv'
<1> DEFINE to == reader[c].to
           r  == [reader[c] EXCEPT !.pc = "took", !.got = Range(box[reader[c].to])]
<1>1. /\ reader' = [reader EXCEPT ![c] = r] /\ UNCHANGED <<waiter, conn>> /\ reader[c].pc = "waiting"
      /\ box' = [box EXCEPT ![to] = <<>>] /\ owed' \in SUBSET owed /\ UNCHANGED store
  BY DEF Take, participantVars
<1>2. conn[c].author # NoId /\ to \in Ids
  BY <1>1, ReaderRecord
<1>3. Range(box[to]) \in SUBSET Msgs
  BY <1>2, FullByRoom DEF ReaderInv
<1>4. r \in ReaderRecords /\ r.pc = "took" /\ r.to = reader[c].to
  BY <1>3, ReaderRecord DEF ReaderRecords
<1>5. <<>> \in Seq(Msgs) /\ Len(<<>>) <= Depth
  BY MailboxAssumption, SMT
<1>6. BoxTypes'
  <2> HIDE DEF to
  <2> QED BY <1>1, <1>2, <1>5, BoxTypesOne DEF ReaderInv
<1> HIDE DEF r
<1>7. ReaderTypes' /\ ReadersAreServed' /\ OwnsSlot'
  BY <1>1, <1>2, <1>4, ReaderGoesOn
<1> QED BY <1>1, <1>6, <1>7 DEF ReaderInv, MailTypes, HeldTypes, PostTypes, StoreTypes, Take

LEMMA CancelKeepsReaders ==
  ASSUME ReaderInv, NEW c \in Conns, Cancel(c) PROVE ReaderInv'
<1> DEFINE r == [reader[c] EXCEPT !.live = FALSE]
<1>1. reader' = [reader EXCEPT ![c] = r] /\ UNCHANGED <<waiter, conn>> /\ reader[c].pc \in {"parked", "waiting"}
  BY DEF Cancel, boxVars, participantVars
<1>2. r \in ReaderRecords /\ ~r.live /\ r.to = reader[c].to
  BY ReaderRecord DEF ReaderRecords
<1>3. conn[c].author # NoId /\ reader[c].to \in Ids
  BY <1>1, ReaderRecord
<1> HIDE DEF r
<1>4. ReaderTypes' /\ ReadersAreServed' /\ OwnsSlot'
  BY <1>1, <1>2, <1>3, ReaderGoesOn
<1> QED BY <1>4 DEF ReaderInv, MailTypes, BoxTypes, HeldTypes, PostTypes, StoreTypes, Cancel,
                    boxVars, histories

LEMMA GiveUpKeepsReaders ==
  ASSUME ReaderInv, NEW c \in Conns, GiveUp(c) PROVE ReaderInv'
<1>1. Leave(c) /\ UNCHANGED conn /\ reader[c].to \in Ids
  BY ReaderRecord DEF GiveUp, participantVars
<1>2. ReaderTypes' /\ ReadersAreServed' /\ OwnsSlot'
  BY <1>1, ReaderLeaves
<1> QED BY <1>2 DEF ReaderInv, MailTypes, BoxTypes, HeldTypes, PostTypes, StoreTypes, GiveUp,
                    histories

LEMMA AnswerKeepsReaders ==
  ASSUME ReaderInv, NEW c \in Conns, Answer(c) PROVE ReaderInv'
<1>1. Leave(c) /\ UNCHANGED conn /\ reader[c].to \in Ids
  BY ReaderRecord DEF Answer, participantVars
<1>2. ReaderTypes' /\ ReadersAreServed' /\ OwnsSlot'
  BY <1>1, ReaderLeaves
<1>3. /\ handed' = [handed EXCEPT ![reader[c].to] = @ \cup (reader[c].got \ Notices)]
      /\ UNCHANGED inflight /\ reader[c].got \in SUBSET Msgs
  BY ReaderRecord DEF Answer
<1>4. HeldTypes'
  BY <1>3 DEF ReaderInv, MailTypes, HeldTypes
<1> QED BY <1>2, <1>4 DEF ReaderInv, MailTypes, BoxTypes, PostTypes, StoreTypes, Answer

\* The reader before is superseded, whichever connection it is on.
LEMMA ParkKeepsReaders ==
  ASSUME RegistryInv, ReaderInv, NEW c \in Conns, Park(c) PROVE ReaderInv'
<1> DEFINE to == conn[c].author
           r  == [reader[c] EXCEPT !.pc = IF Confirms(to) = {} THEN "waiting" ELSE "parked",
                                   !.to = to, !.got = Confirms(to)]
<1>1. reader[c].pc = "begun" /\ UNCHANGED conn
  BY DEF Park, participantVars
<1>2. to \in Ids
  BY <1>1, ReaderRecord, RecordOf
<1>3. /\ handed' = [handed EXCEPT ![to] = {}]
      /\ inflight' = [inflight EXCEPT ![to] = @ \ Confirms(to)]
      /\ waiter' = [waiter EXCEPT ![to] = c]
  BY DEF Park
<1>4. reader' = [d \in Conns |-> IF d = c THEN r
                                 ELSE IF waiter[to] = d THEN [reader[d] EXCEPT !.live = FALSE]
                                 ELSE reader[d]]
  BY DEF Park
<1>5. Confirms(to) \in SUBSET Msgs
  BY <1>2 DEF Confirms, ReaderInv, MailTypes, HeldTypes
<1>6. r \in ReaderRecords /\ r.pc \in {"parked", "waiting"} /\ r.to = to
  BY <1>2, <1>5, ReaderRecord DEF ReaderRecords, SomeId
<1> HIDE DEF r
<1>7. ASSUME NEW d \in Conns, d # c
      PROVE  /\ reader'[d] \in ReaderRecords /\ reader'[d].pc = reader[d].pc
             /\ reader'[d].to = reader[d].to
             /\ waiter[to] # d => reader'[d] = reader[d]
             /\ waiter[to] = d => ~reader'[d].live
  <2>1. reader'[d] = IF waiter[to] = d THEN [reader[d] EXCEPT !.live = FALSE] ELSE reader[d]
    BY <1>4, <1>7
  <2> QED BY <2>1, ReaderRecord DEF ReaderRecords
<1>8. reader'[c] = r
  BY <1>4
<1> HIDE DEF to
<1>9. waiter \in [Ids -> Conns \cup {NoReader}]
  BY DEF ReaderInv, MailTypes, ReaderTypes
<1>10. ReaderTypes'
  <2>1. reader' \in [Conns -> ReaderRecords]
    BY <1>4, <1>6, <1>7, <1>8, Zenon
  <2>2. waiter' \in [Ids -> Conns \cup {NoReader}]
    BY <1>2, <1>3, <1>9, Zenon
  <2> QED BY <2>1, <2>2 DEF ReaderTypes
<1>11. ReadersAreServed'
  <2>1. ASSUME NEW d \in Conns
        PROVE  /\ reader'[d].pc # "free" => conn[d].author # NoId
               /\ reader'[d].pc \in {"parked", "waiting", "took"} => reader'[d].to \in Ids
    <3>1. CASE d = c
      BY <1>2, <1>6, <1>8, <3>1, IdsAreNaturals DEF to
    <3>2. CASE d # c
      BY <1>7, <3>2, ReaderRecord
    <3> QED BY <3>1, <3>2
  <2> QED BY <1>1, <2>1 DEF ReadersAreServed
<1>12. OwnsSlot'
  <2>1. waiter'[to] = c /\ \A i \in Ids \ {to} : waiter'[i] = waiter[i]
    BY <1>2, <1>3, <1>9, Zenon
  <2>2. ASSUME NEW d \in Conns, Parked(d)' PROVE waiter'[reader'[d].to] = d
    <3>1. CASE d = c
      BY <1>6, <1>8, <2>1, <3>1
    <3>2. CASE d # c
      <4>1. waiter[to] # d /\ reader'[d] = reader[d]
        BY <1>7, <2>2, <3>2 DEF Parked
      <4>2. Parked(d)
        BY <2>2, <4>1 DEF Parked
      <4>3. waiter[reader[d].to] = d /\ reader[d].to \in Ids
        BY <4>2, ReaderRecord DEF ReaderInv, OwnsSlot, Parked
      <4> QED BY <2>1, <4>1, <4>3
    <3> QED BY <3>1, <3>2
  <2> QED BY <2>2 DEF OwnsSlot
<1>13. HeldTypes'
  <2>1. IsFiniteSet(inflight[to] \ Confirms(to))
    BY <1>2, FS_Difference DEF ReaderInv, MailTypes, HeldTypes
  <2> QED BY <1>2, <1>3, <2>1 DEF ReaderInv, MailTypes, HeldTypes
<1> QED BY <1>10, <1>11, <1>12, <1>13 DEF ReaderInv, MailTypes, BoxTypes, PostTypes, StoreTypes,
                                         Park, histories

LEMMA NobodyReads ==
  ASSUME reader' = [c \in Conns |-> Free], waiter' = [id \in Ids |-> NoReader]
  PROVE  ReaderTypes' /\ ReadersAreServed' /\ OwnsSlot'
<1>1. ReaderTypes'
  BY FreeRecord DEF ReaderTypes
<1>2. \A c \in Conns : reader'[c] = Free
  OBVIOUS
<1> QED BY <1>1, <1>2, FreeRecord, Zenon DEF ReadersAreServed, OwnsSlot, Parked

LEMMA HelloReplayKeepsReaders ==
  ASSUME RegistryInv, RegistryInv', ReaderInv, NEW c \in Conns, HelloReplay(c)
  PROVE  ReaderInv'
<1> DEFINE id == conn[c].joined
           re == ReplayAtHello(row[id], inflight[id], box[id])
<1>1. /\ conn[c].pc = "joined" /\ UNCHANGED <<waiter, handed, reader, post>>
      /\ conn' = [conn EXCEPT ![c] = [pc |-> "serving", author |-> @.joined,
                                      bound |-> TRUE, joined |-> NoId]]
  BY DEF HelloReplay, Bind
<1>2. id \in Ids
  BY <1>1, RecordOf
<1>3. /\ box' = [box EXCEPT ![id] = re.box] /\ inflight' = [inflight EXCEPT ![id] = re.held]
      /\ store' = Without(store, re.drop) /\ owed' = owed \ re.drop
  BY DEF HelloReplay
<1>4. /\ re.box \in Seq(Msgs) /\ Len(re.box) <= Depth
      /\ re.held \in SUBSET Msgs /\ IsFiniteSet(re.held)
  <2>1. /\ box[id] \in Seq(Msgs) /\ Len(box[id]) <= Depth
        /\ inflight[id] \in SUBSET Msgs /\ IsFiniteSet(inflight[id])
    BY <1>2 DEF ReaderInv, MailTypes, BoxTypes, HeldTypes
  <2> HIDE DEF id
  <2> QED BY <2>1, ReplayFacts DEF ReaderInv, ReplayAtHello
<1> HIDE DEF re
<1>5. ASSUME NEW d \in Conns, conn[d].author # NoId PROVE conn'[d].author # NoId
  <2>1. CASE d = c
    BY <1>1, <1>2, <2>1, IdsAreNaturals DEF RegistryInv, RegistryTypes
  <2>2. CASE d # c
    BY <1>1, <1>5, <2>2 DEF RegistryInv, RegistryTypes
  <2> QED BY <2>1, <2>2
<1> HIDE DEF id
<1>6. BoxTypes'
  BY <1>2, <1>3, <1>4, BoxTypesOne DEF ReaderInv
<1>7. HeldTypes'
  BY <1>1, <1>2, <1>3, <1>4 DEF ReaderInv, MailTypes, HeldTypes
<1>8. StoreTypes'
  BY <1>3, WithoutRows DEF ReaderInv, MailTypes, StoreTypes
<1>9. ReaderTypes' /\ ReadersAreServed' /\ OwnsSlot'
  BY <1>1, <1>5 DEF ReaderInv, MailTypes, ReaderTypes, ReadersAreServed, OwnsSlot, Parked
<1> QED BY <1>1, <1>6, <1>7, <1>8, <1>9 DEF ReaderInv, MailTypes, PostTypes

\* The new process reads what the store has for the identities it knows.
LEMMA RestartKeepsReaders ==
  ASSUME RegistryInv, RegistryInv', ReaderInv, Restart PROVE ReaderInv'
<1> DEFINE re(id) == IF row'[id] = NoKey THEN NoReplay(NoKey, {}, <<>>)
                     ELSE Replay(row'[id], {}, <<>>)
<1>1. /\ reader' = [c \in Conns |-> Free] /\ waiter' = [id \in Ids |-> NoReader]
      /\ handed' = [id \in Ids |-> {}]
      /\ post' = [m \in Msgs |-> IF post[m] = Unsent THEN Unsent ELSE [pc |-> "done", to |-> NoId]]
  BY DEF Restart
<1>2. PICK lost : store' = Without(store, lost) /\ owed' = owed \ lost
  BY DEF Restart
<1>3. box' = [id \in Ids |-> re(id).box] /\ inflight' = [id \in Ids |-> re(id).held]
  <2> DEFINE all == [id \in Ids |-> re(id)]
  <2>1. box' = [id \in Ids |-> all[id].box] /\ inflight' = [id \in Ids |-> all[id].held]
    BY DEF Restart
  <2> QED BY <2>1
<1>4. ASSUME NEW id \in Ids
      PROVE  /\ re(id).box \in Seq(Msgs) /\ Len(re(id).box) <= Depth
             /\ re(id).held \in SUBSET Msgs /\ IsFiniteSet(re(id).held)
  <2>1. <<>> \in Seq(Msgs) /\ Len(<<>>) <= Depth /\ {} \in SUBSET Msgs
    BY MailboxAssumption, SMT
  <2>2. IsFiniteSet({})
    BY FS_EmptySet
  <2>3. CASE row'[id] = NoKey
    BY <2>1, <2>2, <2>3 DEF NoReplay
  <2>4. CASE row'[id] # NoKey
    <3>1. re(id) = Replay(row'[id], {}, <<>>)
      BY <2>4
    <3> HIDE DEF re
    <3> QED BY <2>1, <2>2, <3>1, ReplayFacts DEF ReaderInv
  <2> QED BY <2>3, <2>4
<1> HIDE DEF re
<1>5. BoxTypes'
  BY <1>3, <1>4 DEF BoxTypes
<1>6. HeldTypes'
  BY <1>1, <1>3, <1>4 DEF HeldTypes
<1>7. StoreTypes'
  BY <1>2, WithoutRows DEF ReaderInv, MailTypes, StoreTypes
<1>8. PostTypes'
  <2>1. Unsent \in [pc : {"unsent", "accepted", "sent", "done"}, to : SomeId]
        /\ Unsent.pc = "unsent" /\ NoId \in SomeId
    BY DEF Unsent, SomeId
  <2> QED BY <1>1, <2>1 DEF PostTypes
<1> QED BY <1>1, <1>5, <1>6, <1>7, <1>8, NobodyReads DEF ReaderInv, MailTypes

\* A connection that goes on, comes or says hello keeps its reader and what it reads.
LEMMA SameMail ==
  ASSUME ReaderInv, UNCHANGED <<box, waiter, handed, inflight, reader, post, store, owed>>,
         \A d \in Conns : reader[d].pc # "free" /\ conn[d].author # NoId => conn'[d].author # NoId
  PROVE  ReaderInv'
<1>1. MailTypes'
  BY DEF ReaderInv, MailTypes, BoxTypes, HeldTypes, ReaderTypes, PostTypes, StoreTypes
<1>2. ReadersAreServed' /\ OwnsSlot'
  BY DEF ReaderInv, ReadersAreServed, OwnsSlot, Parked
<1> QED BY <1>1, <1>2 DEF ReaderInv

LEMMA ReaderInvStep ==
  ASSUME RegistryInv, RegistryInv', ReaderInv, [Next]_vars PROVE ReaderInv'
<1> USE DEF mailVars, boxVars, histories
<1>1. ASSUME NEW m \in Msgs, \/ \E to \in Ids : Post(m, to) \/ PostRefused(m, to)
                             \/ PostSend(m) \/ PostNote(m) \/ PostDiscard(m)
      PROVE  ReaderInv'
  <2>1. MailTypes'
    BY <1>1, PostKeepsTypes, PostRefusedKeepsTypes, PostSendKeepsTypes, PostNoteKeepsTypes,
       PostDiscardKeepsTypes DEF ReaderInv
  <2>2. UNCHANGED <<reader, waiter, conn>>
    BY <1>1 DEF Post, PostRefused, PostSend, PostNote, PostDiscard, participantVars
  <2> QED BY <2>1, <2>2 DEF ReaderInv, ReadersAreServed, OwnsSlot, Parked
<1>2. ASSUME NEW c \in Conns, Recv(c) \/ Park(c) \/ Confirm(c) \/ Take(c) \/ GiveUp(c)
                              \/ Answer(c) \/ Cancel(c)
      PROVE  ReaderInv'
  BY <1>2, RecvKeepsReaders, ParkKeepsReaders, ConfirmKeepsReaders, TakeKeepsReaders,
     GiveUpKeepsReaders, AnswerKeepsReaders, CancelKeepsReaders
<1>3. ASSUME NEW c \in Conns, Accept(c) PROVE ReaderInv'
  <2>1. UNCHANGED mailVars /\ conn[c].pc = "away" /\ \A d \in Conns \ {c} : conn'[d] = conn[d]
    BY <1>3 DEF Accept, Connect, RegistryInv, RegistryTypes
  <2>2. conn[c].author = NoId
    BY <2>1, RecordOf
  <2> QED BY <2>1, <2>2, SameMail
<1>4. ASSUME NEW c \in Conns, Lose(c) PROVE ReaderInv'
  <2> DEFINE r == [reader[c] EXCEPT !.live = @ /\ reader[c].pc \in {"free", "begun"}]
  <2>1. /\ reader' = [reader EXCEPT ![c] = r] /\ UNCHANGED <<waiter, box, handed, inflight, post, store, owed>>
        /\ conn' = [conn EXCEPT ![c].pc = "draining"]
    BY <1>4 DEF Lose, Drop
  <2>2. \A d \in Conns : conn'[d].author = conn[d].author
    BY <2>1, RecordOf DEF RegistryInv, RegistryTypes, ConnRecords
  <2>3. /\ r \in ReaderRecords /\ r.pc = reader[c].pc /\ r.to = reader[c].to
        /\ r.pc \in {"parked", "waiting"} => ~r.live
    BY ReaderRecord DEF ReaderRecords
  <2> HIDE DEF r
  <2>4. ReaderTypes' /\ ReadersAreServed' /\ OwnsSlot'
    BY <2>1, <2>2, <2>3, ReaderRecord, ReaderGoesOn
  <2> QED BY <2>1, <2>4 DEF ReaderInv, MailTypes, BoxTypes, HeldTypes, PostTypes, StoreTypes
<1>5. ASSUME NEW c \in Conns, End(c) PROVE ReaderInv'
  <2>1. UNCHANGED mailVars /\ reader[c] = Free /\ \A d \in Conns \ {c} : conn'[d] = conn[d]
    BY <1>5 DEF End, Reads, Disconnect, RegistryInv, RegistryTypes
  <2> QED BY <2>1, FreeRecord, SameMail
<1>6. ASSUME NEW c \in Conns, HelloReplay(c) PROVE ReaderInv'
  BY <1>6, HelloReplayKeepsReaders
<1>7. ASSUME NEW c \in Conns, NEW k \in Keys, SayHello(c, k) PROVE ReaderInv'
  <2>1. UNCHANGED mailVars /\ Hello(c, k)
    BY <1>7 DEF SayHello
  <2>2. \A d \in Conns : conn'[d].author = conn[d].author
    BY <2>1 DEF Hello, Rejoin, JoinFresh, Recycle, JoinRefused, Install, RegistryInv,
                RegistryTypes, ConnRecords
  <2> QED BY <2>1, <2>2, SameMail
<1>8. CASE Restart
  BY <1>8, RestartKeepsReaders
<1>9. CASE UNCHANGED vars
  BY <1>9, SameMail DEF vars, participantVars
<1> QED BY <1>1, <1>2, <1>3, <1>4, <1>5, <1>6, <1>7, <1>8, <1>9 DEF Next

-----------------------------------------------------------------------------
(* What is kept.                                                           *)

LEMMA KeptByRows ==
  ASSUME StoreTypes PROVE Kept <=> \A m \in owed : HasARow(m)
  BY HasItsRow DEF Kept, Stored, StoredFor, HasARow, StoreTypes

LEMMA KeptByRowsAfter ==
  ASSUME StoreTypes' PROVE Kept' <=> \A m \in owed' : HasARow(m)'
  BY HasItsRow DEF Kept, Stored, StoredFor, HasARow, StoreTypes

\* A step that takes nothing that is still owed, and stores nothing new.
LEMMA KeptFollows ==
  ASSUME ReaderInv, ReaderInv', KeptInv,
         \A m \in Msgs : post'[m] = Unsent => post[m] = Unsent,
         \A c \in Conns : \A m \in reader'[c].got : Known(m) /\ (Taken(m) \/ m \notin owed'),
         \A id \in Ids : \A m \in handed'[id] : Taken(m),
         \A id \in Ids : \A m \in Range(box'[id]) : Known(m) \/ post'[m] # Unsent,
         \A e \in Range(store') : e \in Range(store),
         \A m \in owed' : m \in owed,
         \A e \in Range(store) : e.msg \in owed' => e \in Range(store')
  PROVE  KeptInv'
<1>1. UnsentIsNowhere /\ OwedIsNotTaken /\ \A m \in owed : HasARow(m)
  BY KeptByRows DEF KeptInv, ReaderInv, MailTypes
<1>2. ASSUME NEW m \in Msgs, post'[m] = Unsent, Known(m)' PROVE FALSE
  <2>1. ~Known(m) /\ ~Taken(m) /\ ~HasARow(m)
    BY <1>1, <1>2 DEF UnsentIsNowhere, Known
  <2> QED BY <1>2, <2>1 DEF Known, Taken, HasARow
<1>3. ASSUME NEW m \in owed', Taken(m)' PROVE FALSE
  <2>1. ~Taken(m)
    BY <1>1 DEF OwedIsNotTaken
  <2> QED BY <1>3, <2>1 DEF Taken
<1>4. \A m \in owed' : HasARow(m)'
  BY <1>1 DEF HasARow
<1>5. Kept'
  BY <1>4, KeptByRowsAfter DEF ReaderInv, MailTypes
<1> QED BY <1>2, <1>3, <1>5 DEF KeptInv, UnsentIsNowhere, OwedIsNotTaken

\* What a reader holds, or a box, is known.
LEMMA HeldIsKnown ==
  /\ \A c \in Conns : \A m \in reader[c].got : Known(m) /\ Taken(m)
  /\ \A id \in Ids : \A m \in handed[id] : Taken(m)
  /\ \A id \in Ids : \A m \in Range(box[id]) : Known(m)
  /\ \A e \in Range(store) : Known(e.msg)
  BY DEF Known, Taken, HasARow

LEMMA LeavesUnsent ==
  ASSUME MailTypes, NEW m \in Msgs, NEW to \in {"sent", "done"}, post' = Leaves(m, to),
         to = "sent" => post[m].to \in Ids
  PROVE  \A n \in Msgs : post'[n] = Unsent => post[n] = Unsent
  BY LeavesTypes

LEMMA PostKeepsKept ==
  ASSUME RegistryInv, ReaderInv, ReaderInv', KeptInv, NEW m \in Msgs, NEW to \in Ids, Post(m, to)
  PROVE  KeptInv'
<1> DEFINE e == [key |-> row[to], msg |-> m]
<1>1. /\ post' = [post EXCEPT ![m] = [pc |-> "accepted", to |-> to]]
      /\ UNCHANGED <<box, handed, reader>> /\ post[m] = Unsent
  BY DEF Post, boxVars
<1>2. \A n \in Msgs : post'[n] = Unsent => post[n] = Unsent /\ n # m
  BY <1>1 DEF ReaderInv, MailTypes, PostTypes, Unsent
<1>3. CASE HasRow(m)
  <2>1. store' = Append(store, e) /\ owed' = owed \cup {m} /\ row[to] \in Keys
    BY <1>3 DEF Post, Occupied, RegistryInv, RegistryTypes
  <2>2. e \in Rows /\ e.msg = m
    BY <1>3, <2>1 DEF Rows, HasRow
  <2> HIDE DEF e
  <2>3. Range(store') = Range(store) \cup {e}
    BY <2>1, <2>2, RangeOfAppend DEF ReaderInv, MailTypes, StoreTypes
  <2>4. ~Taken(m) /\ UnsentIsNowhere /\ OwedIsNotTaken /\ \A n \in owed : HasARow(n)
    BY <1>1, KeptByRows DEF KeptInv, UnsentIsNowhere, Known, ReaderInv, MailTypes
  <2>5. \A n : Taken(n)' <=> Taken(n)
    BY <1>1 DEF Taken
  <2>6. \A n : HasARow(n)' <=> HasARow(n) \/ n = m
    BY <2>2, <2>3 DEF HasARow
  <2>7. \A n : n # m => (Known(n)' <=> Known(n))
    BY <1>1, <2>5, <2>6 DEF Known
  <2>8. UnsentIsNowhere' /\ OwedIsNotTaken' /\ \A n \in owed' : HasARow(n)'
    BY <1>2, <2>1, <2>4, <2>5, <2>6, <2>7 DEF UnsentIsNowhere, OwedIsNotTaken
  <2> QED BY <2>8, KeptByRowsAfter DEF KeptInv, ReaderInv, MailTypes
<1>4. CASE ~HasRow(m)
  <2>1. UNCHANGED <<store, owed>>
    BY <1>4 DEF Post
  <2> QED BY <1>1, <1>2, <2>1, HeldIsKnown, KeptFollows
<1> QED BY <1>3, <1>4

LEMMA PostRefusedKeepsKept ==
  ASSUME ReaderInv, ReaderInv', KeptInv, NEW m \in Msgs, NEW to \in Ids, PostRefused(m, to)
  PROVE  KeptInv'
<1>1. UNCHANGED <<box, handed, reader, store, owed>> /\ post' = Leaves(m, "done")
  BY DEF PostRefused, boxVars, histories
<1> QED BY <1>1, LeavesUnsent, HeldIsKnown, KeptFollows DEF ReaderInv

LEMMA PostSendKeepsKept ==
  ASSUME ReaderInv, ReaderInv', KeptInv, NEW m \in Msgs, PostSend(m) PROVE KeptInv'
<1> DEFINE to == post[m].to
<1>1. /\ UNCHANGED <<handed, reader, store, owed>> /\ post[m].pc = "accepted"
      /\ post' = Leaves(m, IF HasRow(m) THEN "sent" ELSE "done")
      /\ box' = [box EXCEPT ![to] = Append(@, m)]
  BY DEF PostSend, histories
<1>2. to \in Ids
  BY <1>1 DEF ReaderInv, MailTypes, PostTypes
<1>3. \A n \in Msgs : post'[n] = Unsent => post[n] = Unsent /\ n # m
  BY <1>1, <1>2, LeavesTypes DEF ReaderInv
<1> HIDE DEF to
<1>4. box[to] \in Seq(Msgs)
  BY <1>2 DEF ReaderInv, MailTypes, BoxTypes
<1>5. Range(Append(box[to], m)) = Range(box[to]) \cup {m}
  BY <1>4, RangeOfAppend
<1>6. \A id \in Ids : box'[id] = IF id = to THEN Append(box[to], m) ELSE box[id]
  BY <1>1 DEF ReaderInv, MailTypes, BoxTypes
<1>7. \A id \in Ids : \A n \in Range(box'[id]) : Known(n) \/ post'[n] # Unsent
  BY <1>2, <1>3, <1>5, <1>6, HeldIsKnown
<1> QED BY <1>1, <1>3, <1>7, HeldIsKnown, KeptFollows

LEMMA PostNoteKeepsKept ==
  ASSUME ReaderInv, ReaderInv', KeptInv, NEW m \in Msgs, PostNote(m) PROVE KeptInv'
<1>1. UNCHANGED <<box, handed, reader, store, owed>> /\ post' = Leaves(m, "done")
  BY DEF PostNote, histories
<1> QED BY <1>1, LeavesUnsent, HeldIsKnown, KeptFollows DEF ReaderInv

LEMMA PostDiscardKeepsKept ==
  ASSUME ReaderInv, ReaderInv', KeptInv, NEW m \in Msgs, PostDiscard(m) PROVE KeptInv'
<1>1. /\ UNCHANGED <<box, handed, reader>> /\ post' = Leaves(m, "done")
      /\ store' = Without(store, {m}) /\ owed' = owed \ {m}
  BY DEF PostDiscard, boxVars
<1>2. Range(store') = {e \in Range(store) : e.msg \notin {m}}
  BY <1>1, WithoutRows DEF ReaderInv, MailTypes, StoreTypes
<1>3. \A n \in Msgs : post'[n] = Unsent => post[n] = Unsent
  BY <1>1, LeavesUnsent DEF ReaderInv
<1> QED BY <1>1, <1>2, <1>3, HeldIsKnown, KeptFollows

\* A reader changes what it has taken, or leaves with it.
LEMMA ReadsKeepKept ==
  ASSUME RegistryInv, ReaderInv, ReaderInv', KeptInv, NEW c \in Conns,
         Recv(c) \/ Confirm(c) \/ Take(c) \/ GiveUp(c) \/ Answer(c) \/ Cancel(c)
  PROVE  KeptInv'
<1> USE DEF boxVars, histories
<1>1. UNCHANGED post
  BY DEF Recv, Confirm, Take, GiveUp, Answer, Cancel
<1>2. reader \in [Conns -> ReaderRecords] /\ \A d \in Conns : reader[d] \in ReaderRecords
  BY DEF ReaderInv, MailTypes, ReaderTypes
<1>3. CASE Recv(c) \/ Cancel(c)
  <2>1. \A d \in Conns : reader'[d].got = reader[d].got
    BY <1>2, <1>3, SMT DEF Recv, Cancel, ReaderRecords
  <2>2. UNCHANGED <<box, handed, store, owed>>
    BY <1>3 DEF Recv, Cancel
  <2> QED BY <1>1, <2>1, <2>2, HeldIsKnown, KeptFollows
<1>4. CASE Confirm(c)
  <2>1. \A d \in Conns : reader'[d].got \in SUBSET reader[d].got
    BY <1>2, <1>4 DEF Confirm, ReaderRecords
  <2>2. UNCHANGED <<box, handed, owed>> /\ store' = Without(store, reader[c].got)
    BY <1>4 DEF Confirm
  <2>3. Range(store') = {e \in Range(store) : e.msg \notin reader[c].got}
    BY <2>2, WithoutRows DEF ReaderInv, MailTypes, StoreTypes
  <2>4. \A m \in owed : m \notin reader[c].got
    BY HeldIsKnown DEF KeptInv, OwedIsNotTaken
  <2> QED BY <1>1, <2>1, <2>2, <2>3, <2>4, HeldIsKnown, KeptFollows
<1>5. CASE Take(c)
  <2> DEFINE to == reader[c].to
  <2>1. to \in Ids /\ reader[c].pc = "waiting"
    BY <1>5, ReaderRecord DEF Take
  <2>2. /\ UNCHANGED <<handed, store>> /\ owed' = owed \ Range(box[to])
        /\ box' = [box EXCEPT ![to] = <<>>]
        /\ reader' = [reader EXCEPT ![c].pc = "took", ![c].got = Range(box[to])]
    BY <1>5 DEF Take
  <2> HIDE DEF to
  <2>3. \A d \in Conns : reader'[d].got = IF d = c THEN Range(box[to]) ELSE reader[d].got
    BY <1>2, <2>2 DEF ReaderRecords
  <2>4. \A d \in Conns : \A m \in reader'[d].got : Known(m) /\ (Taken(m) \/ m \notin owed')
    BY <2>1, <2>2, <2>3, HeldIsKnown
  <2>5. \A id \in Ids : Range(box'[id]) \in SUBSET Range(box[id])
    BY <2>2, RangeOfEmpty DEF ReaderInv, MailTypes, BoxTypes
  <2>6. \A id \in Ids : \A m \in Range(box'[id]) : Known(m)
    BY <2>5, HeldIsKnown
  <2> QED BY <1>1, <2>2, <2>4, <2>6, HeldIsKnown, KeptFollows
<1>6. CASE GiveUp(c)
  <2>1. UNCHANGED <<box, handed, store, owed>> /\ reader' = [reader EXCEPT ![c] = Free]
    BY <1>6 DEF GiveUp, Leave
  <2>2. \A d \in Conns : reader'[d].got \in SUBSET reader[d].got
    BY <1>2, <2>1, FreeRecord
  <2> QED BY <1>1, <2>1, <2>2, HeldIsKnown, KeptFollows
<1>7. CASE Answer(c)
  <2> DEFINE to == reader[c].to
  <2>1. /\ UNCHANGED <<box, store, owed>> /\ reader' = [reader EXCEPT ![c] = Free]
        /\ handed' = [handed EXCEPT ![to] = @ \cup (reader[c].got \ Notices)]
    BY <1>7 DEF Answer, Leave
  <2>2. \A d \in Conns : reader'[d].got \in SUBSET reader[d].got
    BY <1>2, <2>1, FreeRecord
  <2>3. \A id \in Ids : handed'[id] \in SUBSET (handed[id] \cup reader[c].got)
    BY <2>1 DEF ReaderInv, MailTypes, HeldTypes
  <2>4. \A id \in Ids : \A m \in handed'[id] : Taken(m)
    BY <2>3, HeldIsKnown
  <2> QED BY <1>1, <2>1, <2>2, <2>4, HeldIsKnown, KeptFollows
<1> QED BY <1>3, <1>4, <1>5, <1>6, <1>7

\* What was handed before is confirmed now, and handed no more.
LEMMA ParkKeepsKept ==
  ASSUME RegistryInv, ReaderInv, ReaderInv', KeptInv, NEW c \in Conns, Park(c)
  PROVE  KeptInv'
<1> DEFINE to == conn[c].author
<1>1. /\ UNCHANGED <<box, post, store, owed>> /\ handed' = [handed EXCEPT ![to] = {}]
      /\ reader[c].pc = "begun"
  BY DEF Park, histories
<1>2. to \in Ids
  BY <1>1, ReaderRecord, RecordOf
<1>3. ASSUME NEW d \in Conns
      PROVE  reader'[d].got = IF d = c THEN handed[to] ELSE reader[d].got
  <2>1. reader[d] \in ReaderRecords /\ reader[c] \in ReaderRecords
    BY ReaderRecord
  <2>2. reader'[d] = IF d = c THEN [reader[c] EXCEPT
                         !.pc = IF Confirms(to) = {} THEN "waiting" ELSE "parked",
                         !.to = to, !.got = Confirms(to)]
                     ELSE IF waiter[to] = d THEN [reader[d] EXCEPT !.live = FALSE]
                     ELSE reader[d]
    BY DEF Park
  <2> QED BY <2>1, <2>2 DEF ReaderRecords, Confirms
<1> HIDE DEF to
<1>4. \A d \in Conns : \A m \in reader'[d].got : Known(m) /\ Taken(m)
  BY <1>2, <1>3, HeldIsKnown DEF Known
<1>5. \A id \in Ids : handed'[id] \in SUBSET handed[id]
  BY <1>1 DEF ReaderInv, MailTypes, HeldTypes
<1> QED BY <1>1, <1>4, <1>5, HeldIsKnown, KeptFollows

LEMMA HelloReplayKeepsKept ==
  ASSUME RegistryInv, ReaderInv, ReaderInv', KeptInv, NEW c \in Conns, HelloReplay(c)
  PROVE  KeptInv'
<1> DEFINE id == conn[c].joined
           re == ReplayAtHello(row[id], inflight[id], box[id])
<1>1. /\ UNCHANGED <<handed, reader, post>> /\ box' = [box EXCEPT ![id] = re.box]
      /\ store' = Without(store, re.drop) /\ owed' = owed \ re.drop /\ conn[c].pc = "joined"
  BY DEF HelloReplay, Bind
<1>2. id \in Ids
  BY <1>1, RecordOf
<1>3. \A m \in Range(re.box) : m \in Range(box[id]) \/ HasARow(m)
  <2>1. /\ box[id] \in Seq(Msgs) /\ Len(box[id]) <= Depth
        /\ inflight[id] \in SUBSET Msgs /\ IsFiniteSet(inflight[id])
    BY <1>2 DEF ReaderInv, MailTypes, BoxTypes, HeldTypes
  <2> DEFINE k == row[id]
             held == inflight[id]
             b == box[id]
  <2>2. held \in SUBSET Msgs /\ IsFiniteSet(held) /\ b \in Seq(Msgs) /\ Len(b) <= Depth
    BY <2>1
  <2>3. MailTypes /\ re = Replay(k, held, b)
    BY DEF ReaderInv, ReplayAtHello
  <2> HIDE DEF re, k, held, b
  <2>4. \A m \in Range(Replay(k, held, b).box) :
            m \in Range(b) \/ \E e \in Range(store) : e.msg = m
    BY <2>2, <2>3, ReplayFacts, Zenon
  <2>5. \A m \in Range(re.box) : m \in Range(b) \/ HasARow(m)
    BY <2>3, <2>4, Zenon DEF HasARow
  <2> QED BY <2>5 DEF b
<1> HIDE DEF re, id
<1>4. \A i \in Ids : box'[i] = IF i = id THEN re.box ELSE box[i]
  BY <1>1 DEF ReaderInv, MailTypes, BoxTypes
<1>5. \A i \in Ids : \A m \in Range(box'[i]) : Known(m)
  BY <1>2, <1>3, <1>4 DEF Known
<1>6. Range(store') = {e \in Range(store) : e.msg \notin re.drop}
  BY <1>1, WithoutRows DEF ReaderInv, MailTypes, StoreTypes
<1> QED BY <1>1, <1>5, <1>6, HeldIsKnown, KeptFollows

LEMMA RestartKeepsKept ==
  ASSUME RegistryInv, ReaderInv, ReaderInv', KeptInv, Restart PROVE KeptInv'
<1> DEFINE re(id) == IF row'[id] = NoKey THEN NoReplay(NoKey, {}, <<>>)
                     ELSE Replay(row'[id], {}, <<>>)
<1>1. /\ reader' = [c \in Conns |-> Free] /\ handed' = [id \in Ids |-> {}]
      /\ post' = [m \in Msgs |-> IF post[m] = Unsent THEN Unsent ELSE [pc |-> "done", to |-> NoId]]
  BY DEF Restart
<1>2. PICK lost : store' = Without(store, lost) /\ owed' = owed \ lost
  BY DEF Restart
<1>3. box' = [id \in Ids |-> re(id).box]
  <2> DEFINE all == [id \in Ids |-> re(id)]
  <2>1. box' = [id \in Ids |-> all[id].box]
    BY DEF Restart
  <2> QED BY <2>1
<1>4. ASSUME NEW id \in Ids, NEW m \in Range(re(id).box) PROVE Known(m)
  <2>1. <<>> \in Seq(Msgs) /\ Len(<<>>) <= Depth /\ {} \in SUBSET Msgs
    BY MailboxAssumption, SMT
  <2>2. IsFiniteSet({})
    BY FS_EmptySet
  <2>3. CASE row'[id] = NoKey
    <3>1. re(id).box = <<>>
      BY <2>3 DEF NoReplay
    <3> QED BY <1>4, <3>1, RangeOfEmpty
  <2>4. CASE row'[id] # NoKey
    <3>1. re(id) = Replay(row'[id], {}, <<>>)
      BY <2>4
    <3> HIDE DEF re
    <3>2. \A n \in Range(Replay(row'[id], {}, <<>>).box) :
              n \in Range(<<>>) \/ \E e \in Range(store) : e.msg = n
      BY <2>1, <2>2, ReplayFacts DEF ReaderInv
    <3>3. m \in Range(Replay(row'[id], {}, <<>>).box)
      BY <1>4, <3>1
    <3> QED BY <3>2, <3>3, RangeOfEmpty, Zenon DEF Known, HasARow
  <2> QED BY <2>3, <2>4
<1> HIDE DEF re
<1>5. \A id \in Ids : \A m \in Range(box'[id]) : Known(m)
  BY <1>3, <1>4
<1>6. Range(store') = {e \in Range(store) : e.msg \notin lost}
  BY <1>2, WithoutRows DEF ReaderInv, MailTypes, StoreTypes
<1>7. \A m \in Msgs : post'[m] = Unsent => post[m] = Unsent
  BY <1>1 DEF Unsent
<1>8. (\A c \in Conns : reader'[c].got = {}) /\ \A id \in Ids : handed'[id] = {}
  BY <1>1, FreeRecord
<1> QED BY <1>2, <1>5, <1>6, <1>7, <1>8, KeptFollows

LEMMA KeptInvStep ==
  ASSUME RegistryInv, ReaderInv, ReaderInv', KeptInv, [Next]_vars PROVE KeptInv'
<1> USE DEF mailVars, boxVars, histories
<1>1. ASSUME NEW m \in Msgs, \/ \E to \in Ids : Post(m, to) \/ PostRefused(m, to)
                             \/ PostSend(m) \/ PostNote(m) \/ PostDiscard(m)
      PROVE  KeptInv'
  BY <1>1, PostKeepsKept, PostRefusedKeepsKept, PostSendKeepsKept, PostNoteKeepsKept,
     PostDiscardKeepsKept
<1>2. ASSUME NEW c \in Conns, Recv(c) \/ Park(c) \/ Confirm(c) \/ Take(c) \/ GiveUp(c)
                              \/ Answer(c) \/ Cancel(c)
      PROVE  KeptInv'
  BY <1>2, ReadsKeepKept, ParkKeepsKept
<1>3. ASSUME UNCHANGED <<box, handed, post, store, owed>>,
             \A c \in Conns : reader'[c].got = reader[c].got
      PROVE  KeptInv'
  BY <1>3, HeldIsKnown, KeptFollows
<1>4. ASSUME UNCHANGED mailVars PROVE KeptInv'
  BY <1>3, <1>4
<1>5. ASSUME NEW c \in Conns, Lose(c) PROVE KeptInv'
  <2>1. \A d \in Conns : reader[d] \in ReaderRecords
    BY ReaderRecord
  <2>2. \A d \in Conns : reader'[d].got = reader[d].got
    BY <1>5, <2>1 DEF Lose, ReaderRecords, ReaderInv, MailTypes, ReaderTypes
  <2> QED BY <1>3, <1>5, <2>2 DEF Lose
<1>6. ASSUME NEW c \in Conns, HelloReplay(c) PROVE KeptInv'
  BY <1>6, HelloReplayKeepsKept
<1>7. CASE Restart
  BY <1>7, RestartKeepsKept
<1>8. ASSUME NEW c \in Conns, Accept(c) \/ End(c) \/ \E k \in Keys : SayHello(c, k)
      PROVE  KeptInv'
  BY <1>4, <1>8 DEF Accept, End, SayHello
<1>9. CASE UNCHANGED vars
  BY <1>4, <1>9 DEF vars
<1> QED BY <1>1, <1>2, <1>5, <1>6, <1>7, <1>8, <1>9 DEF Next

LEMMA MailInvInit == ASSUME Init PROVE MailInv
<1>1. RegistryInv
  BY RegistryInvInit DEF Init
<1>2. MailInit
  BY DEF Init
<1>3. BoxTypes
  <2>1. <<>> \in Seq(Msgs) /\ Len(<<>>) <= Depth
    BY MailboxAssumption, SMT
  <2> QED BY <1>2, <2>1 DEF BoxTypes, MailInit
<1>4. HeldTypes
  BY <1>2, FS_EmptySet DEF HeldTypes, MailInit
<1>5. ReaderTypes /\ ReadersAreServed /\ OwnsSlot
  BY <1>2, FreeRecord DEF MailInit, ReaderTypes, ReadersAreServed, OwnsSlot, Parked
<1>6. PostTypes
  BY <1>2 DEF MailInit, PostTypes, Unsent, SomeId
<1>7. StoreTypes
  BY <1>2, SMT DEF MailInit, StoreTypes
<1>8. \A m \in Msgs : ~Known(m)
  BY <1>2, FreeRecord, RangeOfEmpty DEF MailInit, Known, Taken, HasARow
<1>9. KeptInv
  BY <1>2, <1>8 DEF KeptInv, UnsentIsNowhere, OwedIsNotTaken, Kept, MailInit
<1> QED BY <1>1, <1>3, <1>4, <1>5, <1>6, <1>7, <1>9 DEF MailInv, ReaderInv, MailTypes

LEMMA MailInvStep == ASSUME MailInv, [Next]_vars PROVE MailInv'
<1>1. RegistryInv'
  BY RegistryInvStep DEF MailInv
<1>2. ReaderInv'
  BY <1>1, ReaderInvStep DEF MailInv
<1> QED BY <1>1, <1>2, KeptInvStep DEF MailInv

\* Two reads that nobody has cancelled never wait for one box, for reads on any number
\* of connections that share an identity, park, are superseded or cancelled
\* and let go of the slot in any order (Mailbox.Park and Unpark).
THEOREM ReadersAreApart == Spec => []OneReader
<1>1. Init => MailInv
  BY MailInvInit
<1>2. MailInv /\ [Next]_vars => MailInv'
  BY MailInvStep
<1>3. MailInv => OneReader
  BY DEF MailInv, ReaderInv, OwnsSlot, OneReader
<1> QED BY <1>1, <1>2, <1>3, PTL DEF Spec

\* A message nobody took stays in the store, past any confirmations, replays at hellos
\* that race the posts, and restarts: only a message that a reader took, that was
\* dropped over the bound or refused loses its row (Mailbox.Park, Replay and Discard).
THEOREM MailIsKept == Spec => []Kept
<1>1. Init => MailInv
  BY MailInvInit
<1>2. MailInv /\ [Next]_vars => MailInv'
  BY MailInvStep
<1>3. MailInv => Kept
  BY DEF MailInv, KeptInv
<1> QED BY <1>1, <1>2, <1>3, PTL DEF Spec

-----------------------------------------------------------------------------
(* The type invariant.                                                     *)

NextInRange == next \in FirstAgent .. MaxId + 1

LEMMA NextStep == ASSUME NextInRange, [Next]_vars PROVE NextInRange'
<1> USE DEF participantVars, registryVars
<1>1. ASSUME NEW m \in Msgs, \/ \E to \in Ids : Post(m, to) \/ PostRefused(m, to)
                             \/ PostSend(m) \/ PostNote(m) \/ PostDiscard(m)
      PROVE  UNCHANGED next
  BY <1>1 DEF Post, PostRefused, PostSend, PostNote, PostDiscard
<1>2. ASSUME NEW c \in Conns, Recv(c) \/ Park(c) \/ Confirm(c) \/ Take(c) \/ GiveUp(c)
                              \/ Answer(c) \/ Cancel(c)
      PROVE  UNCHANGED next
  BY <1>2 DEF Recv, Park, Confirm, Take, GiveUp, Answer, Cancel
<1>3. ASSUME NEW c \in Conns, Accept(c) \/ Lose(c) \/ End(c) \/ HelloReplay(c)
      PROVE  UNCHANGED next
  BY <1>3 DEF Accept, Connect, Lose, Drop, End, Disconnect, HelloReplay, Bind
<1>4. ASSUME NEW c \in Conns, NEW k \in Keys, SayHello(c, k) PROVE NextInRange'
  <2>1. Rejoin(c, k) \/ JoinFresh(c, k) \/ Recycle(c, k) \/ JoinRefused(c, k)
    BY <1>4 DEF SayHello, Hello
  <2>2. CASE JoinFresh(c, k)
    <3>1. FreshIds \in SUBSET Nat /\ FreshIds # {} /\ next' = Min(FreshIds) + 1
      BY <2>2, IdsAreNaturals DEF JoinFresh, FreshIds
    <3>2. Min(FreshIds) \in Ids
      BY <3>1, MinOfNaturals DEF FreshIds
    <3> QED BY <3>1, <3>2, ParticipantsAssumption DEF NextInRange, Ids, FirstAgent
  <2>3. CASE Rejoin(c, k)
    BY <2>3 DEF Rejoin, NextInRange
  <2>4. CASE Recycle(c, k) \/ JoinRefused(c, k)
    BY <2>4, ParticipantsAssumption DEF Recycle, JoinRefused, NextInRange, FirstAgent
  <2> QED BY <2>1, <2>2, <2>3, <2>4
<1>5. CASE Restart
  <2> DEFINE T == {FirstAgent} \cup {id + 1 : id \in {i \in Ids : row'[i] # NoKey}}
  <2>1. next' = Max(T)
    BY <1>5 DEF Restart, ParticipantsRestart
  <2>2. T \in SUBSET (FirstAgent .. MaxId + 1) /\ T # {}
    BY ParticipantsAssumption DEF Ids, FirstAgent
  <2>3. FirstAgent \in Nat /\ MaxId + 1 \in Nat
    BY ParticipantsAssumption DEF FirstAgent
  <2> HIDE DEF T
  <2>4. Max(T) \in T
    BY <2>2, <2>3, MaxOfInterval
  <2> QED BY <2>1, <2>2, <2>4 DEF NextInRange
<1>6. CASE UNCHANGED vars
  BY <1>6 DEF vars, NextInRange
<1> QED BY <1>1, <1>2, <1>3, <1>4, <1>5, <1>6 DEF Next, NextInRange

\* The registry and the mail keep their shape: counts within the connections there are
\* (twice each, for a hello in progress), boxes within MailboxDepth whatever posts and
\* replays race for the room, no row of a notice, and next within the ids.
THEOREM MailTypeOK == Spec => []TypeOK
<1>1. Init => MailInv /\ NextInRange
  <2>1. Init => NextInRange
    BY ParticipantsAssumption DEF Init, ParticipantsInit, NextInRange, FirstAgent
  <2> QED BY <2>1, MailInvInit
<1>2. MailInv /\ NextInRange /\ [Next]_vars => MailInv' /\ NextInRange'
  BY MailInvStep, NextStep
<1>3. MailInv /\ NextInRange => TypeOK
  <2> SUFFICES ASSUME MailInv, NextInRange PROVE TypeOK
    OBVIOUS
  <2> USE DEF MailInv, ReaderInv, MailTypes
  <2>1. conns \in [Ids -> 0 .. 2 * Cardinality(Conns)]
    <3>1. ASSUME NEW id \in Ids PROVE conns[id] \in 0 .. 2 * Cardinality(Conns)
      <4> DEFINE b == Cardinality(BoundTo(id))
                 j == Cardinality(Joining(id))
                 n == Cardinality(Conns)
      <4>1. BoundTo(id) \in SUBSET Conns /\ Joining(id) \in SUBSET Conns
        BY DEF BoundTo, Joining
      <4>2. IsFiniteSet(BoundTo(id)) /\ IsFiniteSet(Joining(id)) /\ b <= n /\ j <= n
        BY <4>1, ParticipantsAssumption, FS_Subset
      <4>3. n \in Nat /\ b \in Nat /\ j \in Nat
        BY <4>2, ParticipantsAssumption, FS_CardinalityType
      <4>4. conns[id] = b + j
        BY DEF RegistryInv, CountsConnections
      <4> HIDE DEF b, j, n
      <4>5. b + j \in 0 .. 2 * n
        BY <4>2, <4>3, SMT
      <4> QED BY <4>4, <4>5 DEF n
    <3> QED BY <3>1 DEF RegistryInv, RegistryTypes
  <2>2. \A id \in Ids : /\ Range(box[id]) \subseteq Msgs /\ Len(box[id]) <= Depth
                        /\ waiter[id] \in Conns \cup {NoReader}
    BY FullByRoom DEF BoxTypes, ReaderTypes
  <2>3. Range(store) \subseteq [key : Keys, msg : Msgs \ Notices]
    BY RangeIsFinite DEF StoreTypes, Rows
  <2>4. row \in [Ids -> Keys \cup {NoKey}] /\ reserved \subseteq Ids
    BY DEF RegistryInv, RegistryTypes
  <2>5. handed \in [Ids -> SUBSET Msgs] /\ inflight \in [Ids -> SUBSET Msgs]
    BY DEF HeldTypes
  <2> QED BY <2>1, <2>2, <2>3, <2>4, <2>5 DEF TypeOK, NextInRange
<1> QED BY <1>1, <1>2, <1>3, PTL DEF Spec
=============================================================================
