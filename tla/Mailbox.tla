------------------------------ MODULE Mailbox ------------------------------
(***************************************************************************)
(* control.Mailbox over the participants: Post stores a message and puts   *)
(* it into its recipient's box, a parked recv drains the box, the next one *)
(* confirms what the one before was handed, and hello replays the stored   *)
(* messages that are not held.  Posts, reads and hellos run concurrently,  *)
(* a step each between two locks, channel operations or calls of the store *)
(* that another can tell apart; a replay is one step.                      *)
(*                                                                         *)
(* A message stands for its row: a store holds each once.  A row marked    *)
(* delivered is never read again (Prune only deletes it), so store keeps   *)
(* the undelivered ones.  Errors of the store are left out.                *)
(***************************************************************************)
EXTENDS Participants, Lists

CONSTANTS
    Msgs,         \* the messages sent
    Notices,      \* those the editor posts for itself (AuthorOriginal)
    Depth,        \* MailboxDepth
    NoReader,
    MaxFaults     \* bound: lost connections, cancels and restarts

ASSUME MailboxAssumption ==
    /\ Depth \in Nat \ {0} /\ MaxFaults \in Nat
    /\ Notices \subseteq Msgs /\ NoReader \notin Conns

VARIABLES
    box,       \* Mailbox.boxes
    waiter,    \* Mailbox.waiters: the connection whose recv holds the slot
    handed,    \* Mailbox.handed
    inflight,  \* Mailbox.inflight
    reader,    \* per connection, where its recv is
    post,      \* per message, where Post is
    store,     \* the undelivered rows, oldest first
    owed,      \* history: stored, and neither refused nor dropped nor taken by a reader
    taken,     \* history: taken, and no client has heard it
    faults     \* bound: faults so far

boxVars == <<box, waiter, handed, inflight>>
histories == <<owed, taken>>
mailVars == <<boxVars, reader, post, store, histories, faults>>
vars == <<participantVars, mailVars>>

Free == [pc |-> "free", to |-> NoId, live |-> TRUE, got |-> {}]
Unsent == [pc |-> "unsent", to |-> NoId]

MailInit ==
    /\ box = [id \in Ids |-> <<>>] /\ waiter = [id \in Ids |-> NoReader]
    /\ handed = [id \in Ids |-> {}] /\ inflight = [id \in Ids |-> {}]
    /\ reader = [c \in Conns |-> Free]
    /\ post = [m \in Msgs |-> Unsent]
    /\ store = <<>> /\ owed = {} /\ taken = {} /\ faults = 0

Reads(c) == reader[c] # Free
Fault == faults < MaxFaults /\ faults' = faults + 1
Without(rows, ms) == Filter(rows, {e \in Range(rows) : e.msg \notin ms})

-----------------------------------------------------------------------------
(* Post, which runs on the event thread or on a sender's connection.       *)

Full(id) == Len(box[id]) >= Depth
HasRow(m) == m \notin Notices
Leaves(m, to) == [post EXCEPT ![m] = [pc |-> to, to |-> IF to = "done" THEN NoId ELSE @.to]]

\* The recipient is looked up first, except by PostNotice: its notices to an id
\* without a row are left out.  The room check and the insert are one step.
Post(m, to) ==
    /\ post[m] = Unsent /\ Occupied(to) /\ ~Full(to)
    /\ post' = [post EXCEPT ![m] = [pc |-> "accepted", to |-> to]]
    /\ IF HasRow(m)
       THEN /\ store' = Append(store, [key |-> row[to], msg |-> m])
            /\ owed' = owed \cup {m}
       ELSE UNCHANGED <<store, owed>>
    /\ UNCHANGED <<participantVars, boxVars, reader, taken, faults>>

PostRefused(m, to) ==
    /\ post[m] = Unsent /\ Occupied(to) /\ Full(to)
    /\ post' = Leaves(m, "done")
    /\ UNCHANGED <<participantVars, boxVars, reader, store, histories, faults>>

PostSend(m) ==
    LET to == post[m].to IN
    /\ post[m].pc = "accepted" /\ ~Full(to)
    /\ post' = Leaves(m, IF HasRow(m) THEN "sent" ELSE "done")
    /\ box' = [box EXCEPT ![to] = Append(@, m)]
    /\ UNCHANGED <<participantVars, waiter, handed, inflight, reader, store, histories,
                   faults>>

PostNote(m) ==
    /\ post[m].pc = "sent"
    /\ post' = Leaves(m, "done")
    /\ inflight' = [inflight EXCEPT ![post[m].to] = @ \cup {m}]
    /\ UNCHANGED <<participantVars, box, waiter, handed, reader, store, histories, faults>>

\* The box has filled since the check: the row is discarded, the sender refused.
PostDiscard(m) ==
    /\ post[m].pc = "accepted" /\ Full(post[m].to)
    /\ post' = Leaves(m, "done")
    /\ store' = Without(store, {m})
    /\ owed' = owed \ {m}
    /\ UNCHANGED <<participantVars, boxVars, reader, taken, faults>>

-----------------------------------------------------------------------------
(* recv, a request at a time on each connection.                           *)

\* A request arrives and gets a goroutine.
Recv(c) ==
    /\ Serving(c) /\ ~Reads(c)
    /\ reader' = [reader EXCEPT ![c].pc = "begun"]
    /\ UNCHANGED <<participantVars, boxVars, post, store, histories, faults>>

\* The mutant confirms everything in flight, not only what was handed.
ConfirmsInflight(id) == inflight[id]
Confirms(id) == handed[id]

\* The request reads the connection's author, registers its cancel and parks:
\* the earlier reader is superseded, and what was handed before is confirmed.
Park(c) ==
    LET to == conn[c].author IN
    /\ reader[c].pc = "begun"
    /\ handed' = [handed EXCEPT ![to] = {}]
    /\ inflight' = [inflight EXCEPT ![to] = @ \ Confirms(to)]
    /\ waiter' = [waiter EXCEPT ![to] = c]
    /\ reader' = [d \in Conns |->
           IF d = c THEN [reader[c] EXCEPT
               !.pc = IF Confirms(to) = {} THEN "waiting" ELSE "parked",
               !.to = to, !.got = Confirms(to)]
           ELSE IF waiter[to] = d THEN [reader[d] EXCEPT !.live = FALSE]
           ELSE reader[d]]
    /\ UNCHANGED <<participantVars, box, post, store, histories, faults>>

\* MarkMailDelivered, after the unlock.
Confirm(c) ==
    /\ reader[c].pc = "parked"
    /\ store' = Without(store, reader[c].got)
    /\ reader' = [reader EXCEPT ![c].pc = "waiting", ![c].got = {}]
    /\ UNCHANGED <<participantVars, boxVars, post, histories, faults>>

\* Wait's select picks at random when the context has ended too.
Take(c) ==
    LET to == reader[c].to IN
    /\ reader[c].pc = "waiting" /\ box[to] # <<>>
    /\ reader' = [reader EXCEPT ![c].pc = "took", ![c].got = Range(box[to])]
    /\ box' = [box EXCEPT ![to] = <<>>]
    /\ owed' = owed \ Range(box[to])
    /\ taken' = taken \cup (owed \cap Range(box[to]))
    /\ UNCHANGED <<participantVars, waiter, handed, inflight, post, store, faults>>

\* Unpark, deferred until after the answer.  The mutant clears the slot whoever
\* owns it.
UnparkedAnyway(c) == [waiter EXCEPT ![reader[c].to] = NoReader]
Unparked(c) ==
    IF waiter[reader[c].to] = c THEN [waiter EXCEPT ![reader[c].to] = NoReader]
    ELSE waiter

Leave(c) ==
    /\ waiter' = Unparked(c)
    /\ reader' = [reader EXCEPT ![c] = Free]

GiveUp(c) ==
    /\ reader[c].pc = "waiting" /\ ~reader[c].live
    /\ Leave(c)
    /\ UNCHANGED <<participantVars, box, handed, inflight, post, store, histories, faults>>

\* noteHanded, and the answer, which nobody reads when the client has gone.
Answer(c) ==
    /\ reader[c].pc = "took"
    /\ handed' = [handed EXCEPT ![reader[c].to] = @ \cup (reader[c].got \ Notices)]
    /\ Leave(c)
    /\ taken' = IF Attached(c) THEN taken \ reader[c].got ELSE taken
    /\ UNCHANGED <<participantVars, box, inflight, post, store, owed, faults>>

\* The client cancels the request.  One that is not registered yet is missed.
Cancel(c) ==
    /\ reader[c].pc \in {"parked", "waiting"} /\ reader[c].live
    /\ Serving(c)
    /\ reader' = [reader EXCEPT ![c].live = FALSE]
    /\ Fault
    /\ UNCHANGED <<participantVars, boxVars, post, store, histories>>

-----------------------------------------------------------------------------
(* Replay, at hello and at the start of the editor.                        *)

\* ReplayIdentity for k as id: rows the process holds are skipped, the oldest
\* over the room left are dropped, the rest queued while the box takes them.
Replay(k, held, b) ==
    LET rows   == Filter(store, {e \in Range(store) : e.key = k /\ e.msg \notin held})
        fresh  == [i \in DOMAIN rows |-> rows[i].msg]
        room   == Max({0, Depth - Cardinality(held)})
        over   == Max({0, Len(fresh) - room})
        queue  == SubSeq(fresh, over + 1, Len(fresh))
        queued == SubSeq(queue, 1, Min({Len(queue), Depth - Len(b)}))
    IN [box |-> b \o queued, held |-> held \cup Range(queued),
        drop |-> Range(SubSeq(fresh, 1, over))]

NoReplay(k, held, b) == [box |-> b, held |-> held, drop |-> {}]
ReplayAtHello(k, held, b) == Replay(k, held, b)

\* The rest of hello: ReplayIdentity, then Leave or Release.
HelloReplay(c) ==
    LET id == conn[c].joined IN
    /\ Bind(c)
    /\ \E re \in {ReplayAtHello(row[id], inflight[id], box[id])} :
        /\ box' = [box EXCEPT ![id] = re.box]
        /\ inflight' = [inflight EXCEPT ![id] = re.held]
        /\ store' = Without(store, re.drop)
        /\ owed' = owed \ re.drop /\ taken' = taken \ re.drop
    /\ UNCHANGED <<waiter, handed, reader, post, faults>>

\* The editor ends, at any moment, and a new one starts.
Restart ==
    /\ Fault
    /\ ParticipantsRestart
    /\ LET re == [id \in Ids |-> IF row'[id] = NoKey THEN NoReplay(NoKey, {}, <<>>)
                                 ELSE Replay(row'[id], {}, <<>>)]
           lost == UNION {re[id].drop : id \in Ids}
       IN /\ box' = [id \in Ids |-> re[id].box]
          /\ inflight' = [id \in Ids |-> re[id].held]
          /\ store' = Without(store, lost)
          /\ owed' = owed \ lost /\ taken' = taken \ lost
    /\ waiter' = [id \in Ids |-> NoReader]
    /\ handed' = [id \in Ids |-> {}]
    /\ reader' = [c \in Conns |-> Free]
    /\ post' = [m \in Msgs |->
           IF post[m] = Unsent THEN Unsent ELSE [pc |-> "done", to |-> NoId]]

-----------------------------------------------------------------------------
(* The connections, with their requests.                                   *)

Accept(c) == Connect(c) /\ UNCHANGED mailVars

\* A client does not change identity while it is reading mail.
SayHello(c, k) ==
    /\ Hello(c, k)
    /\ ~Reads(c) \/ row[conn[c].author] = k
    /\ UNCHANGED mailVars

\* cancelAll ends the requests registered by then.
Lose(c) ==
    /\ Drop(c)
    /\ reader' = [reader EXCEPT ![c].live = @ /\ reader[c].pc \in {"free", "begun"}]
    /\ Fault
    /\ UNCHANGED <<boxVars, post, store, histories>>

End(c) == ~Reads(c) /\ Disconnect(c) /\ UNCHANGED mailVars

Init == ParticipantsInit /\ MailInit

Next ==
    \/ \E m \in Msgs : \/ \E to \in Ids : Post(m, to) \/ PostRefused(m, to)
                       \/ PostSend(m) \/ PostNote(m) \/ PostDiscard(m)
    \/ \E c \in Conns : \/ Accept(c) \/ Lose(c) \/ End(c) \/ HelloReplay(c)
                        \/ \E k \in Keys : SayHello(c, k)
                        \/ Recv(c) \/ Park(c) \/ Confirm(c) \/ Take(c) \/ GiveUp(c)
                        \/ Answer(c) \/ Cancel(c)
    \/ Restart

Spec == Init /\ [][Next]_vars

-----------------------------------------------------------------------------
(* What runs goes on running.  A client that has said who it is says it    *)
(* again and again (every raj ctl call does, recv twice) and keeps asking  *)
(* for its mail.  Strong fairness of Take is the random choice of Go's     *)
(* select; of Recv, a client that does not only say hello.                 *)

SaysAgain(c) == conn[c].bound /\ SayHello(c, row[conn[c].author])

Fairness ==
    /\ \A m \in Msgs : WF_vars(PostSend(m) \/ PostNote(m) \/ PostDiscard(m))
    /\ \A c \in Conns :
        /\ WF_vars(HelloReplay(c)) /\ WF_vars(End(c))
        /\ WF_vars(Park(c) \/ Confirm(c) \/ GiveUp(c) \/ Answer(c))
        /\ SF_vars(Take(c))
        /\ WF_vars(SaysAgain(c)) /\ SF_vars(Recv(c))

FairSpec == Spec /\ Fairness
=============================================================================
