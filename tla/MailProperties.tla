--------------------------- MODULE MailProperties ---------------------------
(***************************************************************************)
(* What the participants and their mail promise, and, at the end, what     *)
(* comments and docs promise of them and the code does not keep.           *)
(***************************************************************************)
EXTENDS Mailbox

\* The registry, the boxes and what is held have the shape the code gives them.
\* conns is bounded: a connection counts twice only during a second hello.
TypeOK ==
    /\ row \in [Ids -> Keys \cup {NoKey}]
    /\ conns \in [Ids -> 0 .. 2 * Cardinality(Conns)]
    /\ reserved \subseteq Ids /\ next \in FirstAgent .. MaxId + 1
    /\ \A id \in Ids : /\ Range(box[id]) \subseteq Msgs /\ Len(box[id]) <= Depth
                       /\ waiter[id] \in Conns \cup {NoReader}
    /\ handed \in [Ids -> SUBSET Msgs] /\ inflight \in [Ids -> SUBSET Msgs]
    /\ Range(store) \subseteq [key : Keys, msg : Msgs \ Notices]

Parked(c) == reader[c].pc \in {"parked", "waiting"} /\ reader[c].live

\* Two readers nobody has cancelled never wait for one box, whatever the order in
\* which reads park, are superseded and let go of the slot: a message then goes
\* to the reader that came last, not to one picked at random.
OneReader ==
    \A c, d \in Conns :
        Parked(c) /\ Parked(d) /\ reader[c].to = reader[d].to => c = d

BoundTo(id) == {c \in Conns : conn[c].bound /\ conn[c].author = id}
Joining(id) == {c \in Conns : conn[c].joined = id}

\* A participant counts as connected exactly while a connection holds its id:
\* after hellos that repeat, change identity or are cut short by the client
\* going, every count is given back once.
CountsConnections ==
    \A id \in Ids : conns[id] = Cardinality(BoundTo(id)) + Cardinality(Joining(id))

\* Live connections that write as one author id have said hello as one identity:
\* a provisional id is never a row's, recycled ids included, and nobody writes
\* as an id whose row has gone to somebody else.
OneWriterPerId ==
    /\ \A c, d \in Conns :
          c # d /\ conn[c].author # NoId /\ conn[c].author = conn[d].author
              => conn[c].bound /\ conn[d].bound
    /\ \A id \in reserved : ~Occupied(id)
    /\ \A c \in Conns : conn[c].bound => Occupied(conn[c].author)

StoredFor(k, m) == \E i \in DOMAIN store : store[i] = [key |-> k, msg |-> m]
Stored(m) == \E k \in Keys : StoredFor(k, m)

\* A message no reader has taken is not confirmed away: until it is taken,
\* dropped over the bound or refused to its sender, its row is undelivered,
\* so that a restart brings it back.
Kept == \A m \in owed : Stored(m)

Reading(k) == \E c \in Conns : Attached(c) /\ conn[c].bound /\ row[conn[c].author] = k
Awaited(m) == m \in owed /\ \E k \in Keys : StoredFor(k, m) /\ Reading(k)

\* A stored message reaches a participant that stays and keeps reading, also one
\* stored before a restart for an identity the new process did not know.
MailArrives == \A m \in Msgs \ Notices : Awaited(m) ~> ~Awaited(m)

-----------------------------------------------------------------------------
(* Not kept.                                                               *)

InHand(m) == \E c \in Conns : reader[c].pc = "took" /\ m \in reader[c].got

\* docs/COMPLETED.md, on rows stamped only at that reader's next Park: "a client
\* that takes a batch and dies gets it again".  The next Park of any connection of
\* the identity confirms the batch, so a message whose answer found nobody is
\* marked delivered all the same.  MCMail.cfg, as an INVARIANT.
GivenAgain == \A m \in taken : InHand(m) \/ Stored(m)

\* Mailbox.inflight: "so a reconnect does not replay a row this process is still
\* holding".  A hello between InsertMail and noteInflight replays a row that
\* Post queues as well.  MCMail.cfg, as an INVARIANT.
HeldOnce == \A id \in Ids : handed[id] \cap Range(box[id]) = {}

\* Registry.Join: "fresh ids go out in order for as long as there are any".  next
\* passes ids that were reserved at the moment and does not come back to them.
\* MCMail.cfg with MaxId = 4, as a PROPERTY.
FreshBeforeRecycled ==
    [][\A c \in Conns, k \in Keys : Recycle(c, k) => Reservable = {}]_vars

\* The writer in serve keeps draining so that wg.Wait returns and the connection
\* releases its author id.  A recv whose goroutine registers its cancel after
\* cancelAll is not cancelled: it stays parked for a client that has gone, and its
\* participant stays connected.  MCMail.cfg, as a PROPERTY.
DeadConnectionsEnd == \A c \in Conns : conn[c].pc = "draining" ~> conn[c].pc = "away"
=============================================================================
