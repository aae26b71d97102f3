---------------------------- MODULE Participants ----------------------------
(***************************************************************************)
(* control.Registry and the connections that hold its author ids.  A       *)
(* connection gets a provisional id with its first request; hello binds it *)
(* to the durable id of an identity, which several connections may share   *)
(* and which stays for attribution when the last of them goes.             *)
(*                                                                         *)
(* A row's Connected flag is conns > 0: Join and Leave set both under one  *)
(* lock, and Seed leaves both at rest.  The local human's row (id 1), the  *)
(* kinds, names, tasks and working states are left out.                    *)
(***************************************************************************)
EXTENDS Naturals, FiniteSets, FiniteSetsExt, Functions

CONSTANTS
    Keys,    \* the durable identities
    Conns,   \* the connections open at once
    Says,    \* per connection, the identities its client says hello as
    MaxId,   \* MaxParticipants
    NoKey

ASSUME ParticipantsAssumption ==
    /\ IsFiniteSet(Conns)
    /\ MaxId \in Nat \ {0}
    /\ NoKey \notin Keys
    /\ Says \in [Conns -> SUBSET Keys]

VARIABLES
    row,       \* Registry.byID: the identity of each durable id
    conns,     \* Registry.conns
    reserved,  \* Registry.reserved
    next,      \* Registry.next
    conn       \* per connection, where serve is and the ids it holds

registryVars == <<row, conns, reserved, next>>
participantVars == <<registryVars, conn>>

FirstAgent == 2
Ids == FirstAgent .. MaxId
NoId == 0

Occupied(id) == row[id] # NoKey
Connected(id) == conns[id] > 0

\* author is the id the connection writes as, joined the id hello has just got.
Away == [pc |-> "away", author |-> NoId, bound |-> FALSE, joined |-> NoId]
Serving(c) == conn[c].pc = "serving"
Attached(c) == conn[c].pc \in {"serving", "joined"}

ParticipantsInit ==
    /\ row = [id \in Ids |-> NoKey]
    /\ conns = [id \in Ids |-> 0]
    /\ reserved = {} /\ next = FirstAgent
    /\ conn = [c \in Conns |-> Away]

-----------------------------------------------------------------------------
(* Reserve, Release and Leave.                                             *)

Reservable == {id \in Ids : ~Occupied(id) /\ id \notin reserved}

\* A connection's first authorised request.
Connect(c) ==
    /\ conn[c].pc = "away" /\ Reservable # {}
    /\ LET id == Min(Reservable) IN
        /\ reserved' = reserved \cup {id}
        /\ conn' = [conn EXCEPT ![c].pc = "serving", ![c].author = id]
    /\ UNCHANGED <<row, conns, next>>

Left(id) == IF conns[id] > 0 THEN [conns EXCEPT ![id] = @ - 1] ELSE conns

\* The client goes, by closing the socket or dying, and the read loop ends: that
\* it has gone shows in nothing before.  A hello in progress is finished first.
Drop(c) ==
    /\ Serving(c)
    /\ conn' = [conn EXCEPT ![c].pc = "draining"]
    /\ UNCHANGED registryVars

\* After wg.Wait: the deferred Leave of a bound connection, or Release.
Disconnect(c) ==
    /\ conn[c].pc = "draining"
    /\ IF conn[c].bound
       THEN conns' = Left(conn[c].author) /\ UNCHANGED reserved
       ELSE reserved' = reserved \ {conn[c].author} /\ UNCHANGED conns
    /\ conn' = [conn EXCEPT ![c] = Away]
    /\ UNCHANGED <<row, next>>

-----------------------------------------------------------------------------
(* Join, and the rest of hello.                                            *)

Holders(k) == {id \in Ids : row[id] = k}

\* nextFree's candidates, and the rows lowestGone may recycle.
FreshIdsTakingReserved == {id \in Ids : id >= next /\ ~Occupied(id)}
FreshIds == {id \in Ids : id >= next /\ ~Occupied(id) /\ id \notin reserved}
GoneIds == {id \in Ids : Occupied(id) /\ ~Connected(id)}

\* join of an identity without a row: the next id never given out, or else
\* the lowest row whose participant is gone, whose identity is forgotten.
Install(c, k, id) ==
    /\ row' = [row EXCEPT ![id] = k]
    /\ conns' = [conns EXCEPT ![id] = 1]
    /\ conn' = [conn EXCEPT ![c].pc = "joined", ![c].joined = id]

Rejoin(c, k) ==
    /\ \E id \in Holders(k) :
        /\ conns' = [conns EXCEPT ![id] = @ + 1]
        /\ conn' = [conn EXCEPT ![c].pc = "joined", ![c].joined = id]
    /\ UNCHANGED <<row, reserved, next>>

JoinFresh(c, k) ==
    /\ Holders(k) = {} /\ FreshIds # {}
    /\ Install(c, k, Min(FreshIds))
    /\ next' = Min(FreshIds) + 1
    /\ UNCHANGED reserved

Recycle(c, k) ==
    /\ Holders(k) = {} /\ FreshIds = {} /\ GoneIds # {}
    /\ Install(c, k, Min(GoneIds))
    /\ next' = MaxId + 1
    /\ UNCHANGED reserved

\* Nobody is gone: the hello is refused, and next has passed every id.
JoinRefused(c, k) ==
    /\ Holders(k) = {} /\ FreshIds = {} /\ GoneIds = {}
    /\ next' = MaxId + 1
    /\ UNCHANGED <<row, conns, reserved, conn>>

Hello(c, k) ==
    /\ Serving(c) /\ k \in Says[c]
    /\ Rejoin(c, k) \/ JoinFresh(c, k) \/ Recycle(c, k) \/ JoinRefused(c, k)

\* After the mail is replayed: the id held before is given back, and so is the
\* extra count of a connection that says hello twice as the same identity.
GivesBackOther(c) == conn[c].bound /\ conn[c].author # conn[c].joined
GivesBack(c) == conn[c].bound

Bind(c) ==
    /\ conn[c].pc = "joined"
    /\ conns' = IF GivesBack(c) THEN Left(conn[c].author) ELSE conns
    /\ reserved' = IF conn[c].bound THEN reserved ELSE reserved \ {conn[c].author}
    /\ conn' = [conn EXCEPT ![c] =
                   [pc |-> "serving", author |-> @.joined, bound |-> TRUE, joined |-> NoId]]
    /\ UNCHANGED <<row, next>>

-----------------------------------------------------------------------------
(* A restart of the editor.                                                *)

\* seedParticipants: every row that drainJoins had recorded comes back under its
\* id.  How far it had got is left open; a row it was about to replace is not.
ParticipantsRestart ==
    /\ \E kept \in SUBSET Ids :
        row' = [id \in Ids |-> IF id \in kept THEN row[id] ELSE NoKey]
    /\ next' = Max({FirstAgent} \cup {id + 1 : id \in {i \in Ids : row'[i] # NoKey}})
    /\ conns' = [id \in Ids |-> 0]
    /\ reserved' = {}
    /\ conn' = [c \in Conns |-> Away]
=============================================================================
