--------------------------- MODULE ParkedRequests ---------------------------
(***************************************************************************)
(* control.Server's request queue.  A connection goroutine parks a request *)
(* (submit), wakes the editor and waits for the answer or a deadline; the  *)
(* event thread takes everything parked (Take), dispatches it, draws the   *)
(* frame and only then sends the answers; Close refuses what is left.      *)
(*                                                                         *)
(* The editor runs one event at a time: thread says where it is.  Callers  *)
(* run concurrently with it and with each other, one step at a time.  The  *)
(* order within the queue is left open: callers are not ordered before     *)
(* they park, and nothing below depends on it.                             *)
(***************************************************************************)
EXTENDS Naturals, FiniteSets

CONSTANTS
    Calls,     \* requests parked at once, counting those whose caller gave up
    MaxFaults  \* bound: dropped wakes, deadlines that pass with an answer on its way, the quit

ASSUME FaultBound == MaxFaults \in Nat

VARIABLES
    closed,   \* Server.closed
    queue,    \* Server.queue
    dropped,  \* the requests whose dropped flag is set
    burnt,    \* the requests whose once has been used
    done,     \* per request, what its answer channel holds
    caller,   \* per request, where submit is, or what it returned
    thread,   \* what the event thread is doing
    wake,     \* a Wake is in the event channel
    batch,    \* taken and not yet dispatched
    ready,    \* controlReplies
    failing,  \* parked when the server closed, still to be refused
    ran,      \* history: the requests that were dispatched
    faults    \* bound: faults so far

callVars == <<dropped, burnt, done, caller>>
threadVars == <<closed, thread, batch, ready, failing, ran>>
parkedVars == <<queue, wake, faults, callVars, threadVars>>

Results == {"ok", "closing", "timeout"}
Returned(c) == caller[c] \in Results
Referenced(c) == c \in queue \cup batch \cup ready \cup failing

ParkedInit ==
    /\ closed = FALSE /\ wake = FALSE /\ thread = "idle"
    /\ queue = {} /\ dropped = {} /\ burnt = {} /\ batch = {}
    /\ ready = {} /\ failing = {} /\ ran = {}
    /\ done = [c \in Calls |-> "none"]
    /\ caller = [c \in Calls |-> "free"]
    /\ faults = 0

-----------------------------------------------------------------------------
(* The caller: submit, step by step.                                       *)

Fault == faults < MaxFaults /\ faults' = faults + 1
Move(c, from, to) == caller[c] = from /\ caller' = [caller EXCEPT ![c] = to]

Park(c) ==
    /\ IF closed THEN Move(c, "free", "closing") /\ UNCHANGED queue
                 ELSE Move(c, "free", "parked") /\ queue' = queue \cup {c}
    /\ UNCHANGED <<wake, faults, dropped, burnt, done, threadVars>>

\* Notify posts a Wake, which is dropped when the channel of events is full.
Notify(c) ==
    /\ Move(c, "parked", "waiting")
    /\ \/ wake' = TRUE /\ UNCHANGED faults
       \/ Fault /\ UNCHANGED wake
    /\ UNCHANGED <<queue, dropped, burnt, done, threadVars>>

Collect(c) ==
    /\ done[c] # "none"
    /\ Move(c, "waiting", done[c])
    /\ UNCHANGED <<queue, wake, faults, dropped, burnt, done, threadVars>>

\* The deadline passes although there is an answer, or the event thread is at
\* work or has a wake.
Slow(c) == done[c] # "none" \/ thread # "idle" \/ wake

\* The caller sets the dropped flag, under the lock Take reads it with, and uses
\* up the once.  One step: an answer sent in between goes to nobody.
GiveUp(c) ==
    /\ Move(c, "waiting", "timeout")
    /\ IF Slow(c) THEN Fault ELSE UNCHANGED faults
    /\ dropped' = dropped \cup {c} /\ burnt' = burnt \cup {c}
    /\ UNCHANGED <<queue, wake, done, threadVars>>

\* The request object is garbage once its caller has returned and no list holds it.
Forget(c) ==
    /\ Returned(c) /\ ~Referenced(c)
    /\ caller' = [caller EXCEPT ![c] = "free"]
    /\ done' = [done EXCEPT ![c] = "none"]
    /\ dropped' = dropped \ {c} /\ burnt' = burnt \ {c} /\ ran' = ran \ {c}
    /\ UNCHANGED <<queue, wake, faults, closed, thread, batch, ready, failing>>

\* Mutant: submit waits without a deadline.
SubmittingForever(c) == Notify(c) \/ Collect(c)

Submitting(c) == Notify(c) \/ Collect(c) \/ GiveUp(c)

-----------------------------------------------------------------------------
(* The event thread.                                                       *)

\* Language servers, joins and clients post wakes of their own.  One that finds
\* nothing parked is left out: it does what Tick does.
OtherWake == ~wake /\ wake' = TRUE /\ queue # {}
             /\ UNCHANGED <<queue, faults, callVars, threadVars>>

\* Mutant: the flag a caller sets when it gives up is not looked at.
TakeDropped == queue

\* What Take returns: all that is parked except what its caller gave up on.
Take == queue \ dropped

Drain ==
    /\ thread = "idle" /\ wake
    /\ wake' = FALSE /\ thread' = "drain"
    /\ batch' = Take /\ queue' = {}
    /\ UNCHANGED <<faults, callVars, closed, ready, failing, ran>>

Dispatch(c) ==
    /\ thread = "drain" /\ c \in batch
    /\ batch' = batch \ {c} /\ ready' = ready \cup {c} /\ ran' = ran \cup {c}
    /\ UNCHANGED <<queue, wake, faults, callVars, closed, thread, failing>>

EndDrain ==
    /\ thread = "drain" /\ batch = {} /\ thread' = "draw"
    /\ UNCHANGED <<queue, wake, faults, callVars, closed, batch, ready, failing, ran>>

\* Pending.Reply: only the first answer is sent, and sending never blocks.
Reply(c, r) ==
    IF c \in burnt THEN UNCHANGED callVars
    ELSE /\ burnt' = burnt \cup {c} /\ done' = [done EXCEPT ![c] = r]
         /\ UNCHANGED <<dropped, caller>>

Flush(c) ==
    /\ thread = "draw" /\ c \in ready
    /\ Reply(c, "ok")
    /\ ready' = ready \ {c}
    /\ UNCHANGED <<queue, wake, faults, closed, thread, batch, failing, ran>>

EndDraw ==
    /\ thread = "draw" /\ ready = {} /\ thread' = "idle"
    /\ UNCHANGED <<queue, wake, faults, callVars, closed, batch, ready, failing, ran>>

\* Run returns without drawing once an event has set quit; the server closes.
Close ==
    /\ \/ thread = "idle"
       \/ thread = "drain" /\ batch = {}
    /\ closed' = TRUE /\ thread' = "closing"
    /\ failing' = queue /\ queue' = {}
    /\ Fault
    /\ UNCHANGED <<wake, callVars, batch, ready, ran>>

FailParked(c) ==
    /\ thread = "closing" /\ c \in failing
    /\ Reply(c, "closing")
    /\ failing' = failing \ {c}
    /\ UNCHANGED <<queue, wake, faults, closed, thread, batch, ready, ran>>

\* The process ends, and every goroutine with it.
Exit ==
    /\ thread = "closing" /\ failing = {} /\ thread' = "gone"
    /\ UNCHANGED <<queue, wake, faults, callVars, closed, batch, ready, failing, ran>>

ParkedNext ==
    /\ thread # "gone"
    /\ \/ \E c \in Calls : \/ Park(c) \/ Submitting(c) \/ Forget(c)
                           \/ Dispatch(c) \/ Flush(c) \/ FailParked(c)
       \/ OtherWake \/ Drain \/ EndDrain \/ EndDraw \/ Close \/ Exit

ParkedSpec == ParkedInit /\ [][ParkedNext]_parkedVars

-----------------------------------------------------------------------------
(* The promise, as this module keeps it.                                   *)

FateOf(c) ==
    IF caller[c] = "free" THEN "idle"
    ELSE IF c \in batch THEN "taken"
    ELSE IF c \in ran THEN "run"
    ELSE IF c \in queue \ dropped THEN "open"
    ELSE "void"

ToldOf(c) ==
    IF caller[c] = "ok" THEN "done"
    ELSE IF caller[c] \in {"closing", "timeout"} THEN "failed"
    ELSE "nothing"

Promise == INSTANCE RequestPromise WITH
    fate <- [c \in Calls |-> FateOf(c)],
    told <- [c \in Calls |-> ToldOf(c)]

\* A request runs at most once, is answered only after it ran, and is reported
\* failed only once no later Take can pick it up (control.go, submit and Take).
KeepsPromise == Promise!Spec
=============================================================================
