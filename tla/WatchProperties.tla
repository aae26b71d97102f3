--------------------------- MODULE WatchProperties ---------------------------
(***************************************************************************)
(* What the queue of parked requests and the watches promise.              *)
(***************************************************************************)
EXTENDS Watch

Attached(k) == w[k].at \notin {"away", "resync"}

\* Type invariant.
TypeOK ==
    /\ {queue, dropped, burnt, batch, ready, failing, ran} \subseteq SUBSET Calls
    /\ closed \in BOOLEAN /\ wake \in BOOLEAN
    /\ thread \in {"idle", "drain", "draw", "closing", "gone"}
    /\ done \in [Calls -> {"none", "ok", "closing"}]
    /\ caller \in [Calls -> {"free", "parked", "waiting"} \cup Results]
    /\ faults \in 0 .. MaxFaults
    /\ content \in 0 .. MaxChanges /\ shown \in 0 .. content
    /\ gen \in 0 .. MaxChanges /\ controlGen \in 0 .. MaxChanges /\ reveals \subseteq 1 .. gen
    /\ announced \in [0 .. gen -> 0 .. content]
    /\ op \in [Calls -> Verbs]
    /\ result \in [Calls -> [list : 0 .. content, gen : 0 .. gen]]
    /\ w \in [Watchers -> [at : Places, call : Calls \cup {NoCall},
                           named : 0 .. gen, list : 0 .. content, signal : BOOLEAN,
                           have : 0 .. gen, view : 0 .. content, got : SUBSET (1 .. gen)]]

\* A watch that sleeps while the generation has moved has a signal waiting: no
\* bump falls between its compare and its park (connection.watch registers its
\* channel before it compares).
NoLostWakeup == \A k \in Watchers :
    w[k].at = "parked" /\ gen # w[k].have => w[k].signal

\* A client that holds generation g shows every change announced by g, so
\* parking on g cannot make it miss one (connection.watch reads the generation
\* before it asks for the list; drainControl stamps answers the same way).
ViewCoversGen == \A k \in Watchers :
    Attached(k) => w[k].view >= announced[w[k].have]

\* Every reveal the server still keeps that was published since the client
\* attached, up to the generation it holds, has been delivered to it.
KeptRevealsArrive == \A k \in Watchers :
    Attached(k) => {r \in reveals : r <= w[k].have} \subseteq w[k].got

\* The request queue keeps its promise also when watches and verbs share it.
QueueKeepsPromise == Promise!Spec

\* A change anyone makes reaches the screen of every attached client, through
\* dropped wakes, late answers and lost connections, unless the editor quits.
ChangeReachesEveryone == \A k \in Watchers : \A n \in 1 .. MaxChanges :
    content >= n ~> closed \/ w[k].view >= n

\* A caller is never left hanging (ReplyTimeout, Close).
EveryCallReturns == \A c \in Calls : caller[c] # "free" ~> Returned(c) \/ thread = "gone"

\* "dropping a tick or a wake costs at most one cadence of latency, and the next
\* tick is coming" (HeadlessHost.emit): a request whose wake was dropped, so that
\* the event thread has nothing to do, is taken all the same.  Not kept: only a Wake
\* drains the queue (app.go:1829).  MCControl.cfg with MaxChanges = 1, as a PROPERTY.
DroppedWakeIsLatency == \A c \in Calls :
    c \in queue /\ caller[c] = "waiting" /\ thread = "idle" /\ ~wake ~> c \in batch \/ closed
=============================================================================
