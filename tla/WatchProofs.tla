---------------------------- MODULE WatchProofs -----------------------------
(***************************************************************************)
(* Proofs about the control server for any number of requests, clients,    *)
(* changes and faults: the request queue, under whatever the watches and   *)
(* the editor do around it, implements RequestPromise, and no watch sleeps *)
(* through a generation.                                                   *)
(***************************************************************************)
EXTENDS WatchProperties, TLAPS

-----------------------------------------------------------------------------
(* The queue.                                                              *)

queueVars == <<queue, callVars, threadVars>>

CallPlaces == {"free", "parked", "waiting"} \cup Results

QueueTypes ==
    /\ queue \subseteq Calls /\ dropped \subseteq Calls /\ batch \subseteq Calls
    /\ ready \subseteq Calls /\ failing \subseteq Calls /\ ran \subseteq Calls
    /\ done \in [Calls -> {"none", "ok", "closing"}]
    /\ caller \in [Calls -> CallPlaces]

\* A request object that is free is on no list the fate of a request is read from.
FreeIsNowhere == \A c \in Calls :
    caller[c] = "free" => c \notin queue /\ c \notin batch /\ c \notin ran /\ c \notin dropped

\* A request is parked, taken or dispatched, one of them at a time.
OnePlace ==
    /\ queue \cap batch = {} /\ queue \cap ran = {} /\ batch \cap ran = {}
    /\ ready \subseteq ran

\* Where the event thread is, and what the lists hold then.
ThreadKnows ==
    /\ thread # "drain" => batch = {}
    /\ closed => queue = {}
    /\ thread = "closing" => closed

\* What an answer channel holds is true.
AnswersAreTrue == \A c \in Calls :
    /\ done[c] = "ok" => c \in ran
    /\ done[c] = "closing" => closed

QueueInv == QueueTypes /\ FreeIsNowhere /\ OnePlace /\ ThreadKnows /\ AnswersAreTrue

\* A step of anybody, as the queue sees it.
QueueStep ==
    \/ \E c \in Calls : \/ Park(c) \/ Submitting(c) \/ Forget(c)
                        \/ Dispatch(c) \/ Flush(c) \/ FailParked(c)
    \/ OtherWake \/ Drain \/ EndDrain \/ EndDraw \/ Close \/ Exit
    \/ UNCHANGED queueVars

LEMMA QueueInvInit == ASSUME ParkedInit PROVE QueueInv
  BY SMT DEF ParkedInit, QueueInv, QueueTypes, FreeIsNowhere, OnePlace, ThreadKnows,
             AnswersAreTrue, CallPlaces, Results

\* The invariant is kept, action by action.
LEMMA QueueInvStep ==
  ASSUME QueueInv, QueueStep PROVE QueueInv'
<1> USE DEF QueueInv, QueueTypes, FreeIsNowhere, OnePlace, ThreadKnows, AnswersAreTrue,
            CallPlaces, Results
<1>1. ASSUME NEW c \in Calls, Park(c) PROVE QueueInv'
  BY <1>1, SMT DEF Park, Move, callVars, threadVars
<1>2. ASSUME NEW c \in Calls, Submitting(c) PROVE QueueInv'
  <2>1. CASE Notify(c)
    BY <2>1, SMT DEF Notify, Move, threadVars
  <2>2. CASE Collect(c)
    BY <2>2, SMT DEF Collect, Move, threadVars
  <2>3. CASE GiveUp(c)
    BY <2>3, SMT DEF GiveUp, Move, threadVars
  <2> QED BY <1>2, <2>1, <2>2, <2>3 DEF Submitting
<1>3. ASSUME NEW c \in Calls, Forget(c) PROVE QueueInv'
  BY <1>3, SMT DEF Forget, Returned, Referenced
<1>4. ASSUME NEW c \in Calls, Dispatch(c) PROVE QueueInv'
  BY <1>4, SMT DEF Dispatch, callVars
<1>5. ASSUME NEW c \in Calls, Flush(c) PROVE QueueInv'
  BY <1>5, SMT DEF Flush, Reply, callVars
<1>6. ASSUME NEW c \in Calls, FailParked(c) PROVE QueueInv'
  BY <1>6, SMT DEF FailParked, Reply, callVars
<1>7. CASE OtherWake
  BY <1>7, SMT DEF OtherWake, callVars, threadVars
<1>8. CASE Drain
  BY <1>8, SMT DEF Drain, Take, callVars
<1>9. CASE EndDrain
  BY <1>9, SMT DEF EndDrain, callVars
<1>10. CASE EndDraw
  BY <1>10, SMT DEF EndDraw, callVars
<1>11. CASE Close
  BY <1>11, SMT DEF Close, callVars
<1>12. CASE Exit
  BY <1>12, SMT DEF Exit, callVars
<1>13. CASE UNCHANGED queueVars
  BY <1>13, SMT DEF queueVars, callVars, threadVars
<1> QED
  BY <1>1, <1>2, <1>3, <1>4, <1>5, <1>6, <1>7, <1>8, <1>9, <1>10, <1>11, <1>12, <1>13
     DEF QueueStep

-----------------------------------------------------------------------------
(* The promise.                                                            *)

Fate == [c \in Calls |-> FateOf(c)]
Told == [c \in Calls |-> ToldOf(c)]

PromiseStep == Promise!Next \/ UNCHANGED <<Fate, Told>>

\* Nothing becomes of d, and it is told nothing.
Untouched(d) == FateOf(d)' = FateOf(d) /\ ToldOf(d)' = ToldOf(d)

LEMMA NobodyTouched ==
  ASSUME \A d \in Calls : Untouched(d) PROVE PromiseStep
  BY Zenon DEF Untouched, PromiseStep, Fate, Told

\* A step that touches one request only is the promise's step on it.
LEMMA OneTouched ==
  ASSUME NEW c \in Calls, \A d \in Calls \ {c} : Untouched(d)
  PROVE  /\ Fate' = [Fate EXCEPT ![c] = FateOf(c)']
         /\ Told' = [Told EXCEPT ![c] = ToldOf(c)']
         /\ Fate[c] = FateOf(c) /\ Told[c] = ToldOf(c)
<1>1. \A d \in Calls : d # c => FateOf(d)' = FateOf(d) /\ ToldOf(d)' = ToldOf(d)
  BY Zenon DEF Untouched
<1>2. Fate' = [Fate EXCEPT ![c] = FateOf(c)']
  BY <1>1, Zenon DEF Fate
<1>3. Told' = [Told EXCEPT ![c] = ToldOf(c)']
  BY <1>1, Zenon DEF Told
<1> QED BY <1>2, <1>3, Zenon DEF Fate, Told

LEMMA SubmittingRefines ==
  ASSUME QueueInv, NEW c \in Calls, Submitting(c) PROVE PromiseStep
<1> USE DEF QueueInv, QueueTypes, FreeIsNowhere, OnePlace, ThreadKnows, AnswersAreTrue,
            CallPlaces, Results
<1>1. CASE Notify(c)
  <2>1. \A d \in Calls : Untouched(d)
    BY <1>1, SMT DEF Notify, Move, threadVars, Untouched, FateOf, ToldOf
  <2> QED BY <2>1, NobodyTouched
<1>2. CASE Collect(c)
  <2>1. \A d \in Calls \ {c} : Untouched(d)
    BY <1>2, SMT DEF Collect, Move, threadVars, Untouched, FateOf, ToldOf
  <2>2. FateOf(c)' = FateOf(c) /\ ToldOf(c) = "nothing" /\ FateOf(c) \notin {"idle", "open"}
    BY <1>2, SMT DEF Collect, Move, threadVars, FateOf, ToldOf
  <2>3. CASE done[c] = "ok"
    <3>1. FateOf(c) = "run" /\ ToldOf(c)' = "done"
      BY <1>2, <2>3, SMT DEF Collect, Move, threadVars, FateOf, ToldOf
    <3>2. Fate' = Fate
      BY <2>1, <2>2, Zenon DEF Untouched, Fate
    <3>3. Promise!TellDone(c)
      BY <2>1, <2>2, <3>1, <3>2, OneTouched, Zenon DEF Promise!TellDone, Fate, Told
    <3> QED BY <3>3 DEF PromiseStep, Promise!Next
  <2>4. CASE done[c] = "closing"
    <3>1. ToldOf(c)' = "failed"
      BY <1>2, <2>4, SMT DEF Collect, Move, threadVars, ToldOf
    <3>2. Promise!TellFailed(c)
      BY <2>1, <2>2, <3>1, OneTouched, Zenon DEF Promise!TellFailed, Fate, Told
    <3> QED BY <3>2 DEF PromiseStep, Promise!Next
  <2> QED BY <1>2, <2>3, <2>4, SMT DEF Collect
<1>3. CASE GiveUp(c)
  <2>1. \A d \in Calls \ {c} : Untouched(d)
    BY <1>3, SMT DEF GiveUp, Move, threadVars, Untouched, FateOf, ToldOf
  <2>2. /\ FateOf(c) # "idle" /\ ToldOf(c) = "nothing" /\ ToldOf(c)' = "failed"
        /\ FateOf(c)' = IF FateOf(c) = "open" THEN "void" ELSE FateOf(c)
    BY <1>3, SMT DEF GiveUp, Move, threadVars, FateOf, ToldOf
  <2>3. Fate' = [Fate EXCEPT ![c] = IF Fate[c] = "open" THEN "void" ELSE Fate[c]]
    BY <2>1, <2>2, OneTouched, Zenon
  <2>4. Promise!TellFailed(c)
    BY <2>1, <2>2, <2>3, OneTouched, Zenon DEF Promise!TellFailed, Fate, Told
  <2> QED BY <2>4 DEF PromiseStep, Promise!Next
<1> QED BY <1>1, <1>2, <1>3 DEF Submitting

LEMMA ParkRefines ==
  ASSUME QueueInv, NEW c \in Calls, Park(c) PROVE PromiseStep
<1> USE DEF QueueInv, QueueTypes, FreeIsNowhere, OnePlace, ThreadKnows, AnswersAreTrue,
            CallPlaces, Results
<1>1. \A d \in Calls \ {c} : Untouched(d)
  BY SMT DEF Park, Move, callVars, threadVars, Untouched, FateOf, ToldOf
<1>2. FateOf(c) = "idle" /\ ToldOf(c) = "nothing"
  BY SMT DEF Park, Move, FateOf, ToldOf
<1>3. CASE closed
  <2>1. FateOf(c)' = "void" /\ ToldOf(c)' = "failed"
    BY <1>3, SMT DEF Park, Move, callVars, threadVars, FateOf, ToldOf
  <2>2. Promise!Refuse(c)
    BY <1>1, <1>2, <2>1, OneTouched, Zenon DEF Promise!Refuse, Fate, Told
  <2> QED BY <2>2 DEF PromiseStep, Promise!Next
<1>4. CASE ~closed
  <2>1. FateOf(c)' = "open" /\ ToldOf(c)' = "nothing"
    BY <1>4, SMT DEF Park, Move, callVars, threadVars, FateOf, ToldOf
  <2>2. Told' = Told
    BY <1>1, <1>2, <2>1, Zenon DEF Untouched, Told
  <2>3. Promise!Ask(c)
    BY <1>1, <1>2, <2>1, <2>2, OneTouched, Zenon DEF Promise!Ask, Fate, Told
  <2> QED BY <2>3 DEF PromiseStep, Promise!Next
<1> QED BY <1>3, <1>4

\* Open requests are settled together.
LEMMA ManySettled ==
  ASSUME NEW taken \in SUBSET Calls, NEW void \in SUBSET Calls, taken \cap void = {},
         \A c \in taken \cup void : FateOf(c) = "open",
         \A c \in Calls : FateOf(c)' = IF c \in taken THEN "taken" ELSE
                                       IF c \in void THEN "void" ELSE FateOf(c),
         \A c \in Calls : ToldOf(c)' = ToldOf(c)
  PROVE  PromiseStep
<1>1. /\ taken \in SUBSET {c \in Calls : Fate[c] = "open"}
      /\ void \in SUBSET {c \in Calls : Fate[c] = "open"}
  BY SMT DEF Fate
<1>2. Fate' = [c \in Calls |-> IF c \in taken THEN "taken" ELSE
                               IF c \in void THEN "void" ELSE Fate[c]]
  BY SMT DEF Fate
<1>3. Told' = Told
  BY Zenon DEF Told
<1>4. Promise!Settle
  BY <1>1, <1>2, <1>3 DEF Promise!Settle, Fate, Told
<1> QED BY <1>4 DEF PromiseStep, Promise!Next

\* Every step of the queue is a step of the promise, or none of its business.
LEMMA QueueStepRefines ==
  ASSUME QueueInv, QueueStep PROVE PromiseStep
<1> USE DEF QueueInv, QueueTypes, FreeIsNowhere, OnePlace, ThreadKnows, AnswersAreTrue,
            CallPlaces, Results
<1>1. ASSUME NEW c \in Calls, Forget(c) PROVE PromiseStep
  <2>1. \A d \in Calls \ {c} : Untouched(d)
    BY <1>1, SMT DEF Forget, Untouched, FateOf, ToldOf
  <2>2. /\ FateOf(c) \in {"run", "void"} /\ ToldOf(c) # "nothing"
        /\ FateOf(c)' = "idle" /\ ToldOf(c)' = "nothing"
    BY <1>1, SMT DEF Forget, Returned, Referenced, FateOf, ToldOf
  <2>3. Promise!Forget(c)
    BY <2>1, <2>2, OneTouched, Zenon DEF Promise!Forget, Fate, Told
  <2> QED BY <2>3 DEF PromiseStep, Promise!Next
<1>2. ASSUME NEW c \in Calls, Dispatch(c) PROVE PromiseStep
  <2>1. \A d \in Calls \ {c} : Untouched(d)
    BY <1>2, SMT DEF Dispatch, callVars, Untouched, FateOf, ToldOf
  <2>2. FateOf(c) = "taken" /\ FateOf(c)' = "run" /\ ToldOf(c)' = ToldOf(c)
    BY <1>2, SMT DEF Dispatch, callVars, FateOf, ToldOf
  <2>3. Told' = Told
    BY <2>1, <2>2, Zenon DEF Untouched, Told
  <2>4. Promise!Run(c)
    BY <2>1, <2>2, <2>3, OneTouched, Zenon DEF Promise!Run, Fate, Told
  <2> QED BY <2>4 DEF PromiseStep, Promise!Next
<1>3. CASE Drain
  <2>1. /\ \A c \in Take : FateOf(c) = "open"
        /\ \A c \in Calls : FateOf(c)' = IF c \in Take THEN "taken" ELSE FateOf(c)
        /\ \A c \in Calls : ToldOf(c)' = ToldOf(c)
    BY <1>3, SMT DEF Drain, Take, callVars, FateOf, ToldOf
  <2>2. Take \in SUBSET Calls
    BY DEF Take
  <2>3. \A c \in Calls : FateOf(c)' = IF c \in Take THEN "taken" ELSE
                                      IF c \in {} THEN "void" ELSE FateOf(c)
    BY <2>1, Zenon
  <2> HIDE DEF QueueInv, QueueTypes, FreeIsNowhere, OnePlace, ThreadKnows, AnswersAreTrue
  <2>4. /\ {} \in SUBSET Calls /\ Take \cap {} = {} /\ {} \cap Take = {}
        /\ \A c \in Take \cup {} : FateOf(c) = "open"
        /\ \A c \in {} \cup Take : FateOf(c) = "open"
    BY <2>1
  <2> QED BY <2>1, <2>2, <2>3, <2>4, ManySettled
<1>4. CASE Close
  <2>1. /\ \A c \in Take : FateOf(c) = "open"
        /\ \A c \in Calls : FateOf(c)' = IF c \in Take THEN "void" ELSE FateOf(c)
        /\ \A c \in Calls : ToldOf(c)' = ToldOf(c)
    BY <1>4, SMT DEF Close, Take, callVars, FateOf, ToldOf
  <2>2. Take \in SUBSET Calls
    BY DEF Take
  <2>3. \A c \in Calls : FateOf(c)' = IF c \in {} THEN "taken" ELSE
                                      IF c \in Take THEN "void" ELSE FateOf(c)
    BY <2>1, Zenon
  <2> HIDE DEF QueueInv, QueueTypes, FreeIsNowhere, OnePlace, ThreadKnows, AnswersAreTrue
  <2>4. /\ {} \in SUBSET Calls /\ Take \cap {} = {} /\ {} \cap Take = {}
        /\ \A c \in Take \cup {} : FateOf(c) = "open"
        /\ \A c \in {} \cup Take : FateOf(c) = "open"
    BY <2>1
  <2> QED BY <2>1, <2>2, <2>3, <2>4, ManySettled
<1>5. ASSUME NEW c \in Calls, Flush(c) \/ FailParked(c) PROVE PromiseStep
  <2>1. \A d \in Calls : Untouched(d)
    BY <1>5, SMT DEF Flush, FailParked, Reply, callVars, Untouched, FateOf, ToldOf
  <2> QED BY <2>1, NobodyTouched
<1>6. CASE OtherWake \/ EndDrain \/ EndDraw \/ Exit \/ UNCHANGED queueVars
  <2>1. \A d \in Calls : Untouched(d)
    BY <1>6, SMT DEF OtherWake, EndDrain, EndDraw, Exit, queueVars, callVars, threadVars,
                     Untouched, FateOf, ToldOf
  <2> QED BY <2>1, NobodyTouched
<1> HIDE DEF QueueInv
<1> QED
  BY <1>1, <1>2, <1>3, <1>4, <1>5, <1>6, ParkRefines, SubmittingRefines DEF QueueStep

LEMMA PromiseInit == ASSUME ParkedInit PROVE Promise!Init
  BY SMT DEF ParkedInit, Promise!Init, FateOf, ToldOf

\* What the rest of the server and the clients do is a step of the queue or
\* leaves it alone.
LEMMA NextIsQueueStep == ASSUME [Next]_vars PROVE QueueStep
<1> USE DEF QueueStep
<1>1. CASE EventThread
  <2>1. CASE Work
    BY <2>1 DEF Work, Execute, FinishDrain
  <2>2. CASE Type \/ Tick
    BY <2>2 DEF Type, Tick, parkedVars, queueVars
  <2>3. CASE Quit \/ Stir
    BY <2>3 DEF Quit, Stir
  <2> QED BY <1>1, <2>1, <2>2, <2>3 DEF EventThread
<1>2. ASSUME NEW c \in Calls, Caller(c) \/ Release(c) \/ \E v \in {"edit", "reveal"} : Send(c, v)
      PROVE  QueueStep
  BY <1>2 DEF Caller, Release, Send
<1>3. ASSUME NEW k \in Watchers, Watching(k) PROVE QueueStep
  <2>1. CASE Resync(k) \/ Ask(k)
    BY <2>1 DEF Resync, Ask, AskBuffers
  <2>2. CASE \/ Resynced(k) \/ Register(k) \/ Compare(k) \/ Woken(k)
             \/ NameGen(k) \/ Listed(k) \/ Answer(k)
    <3>1. UNCHANGED parkedVars
      BY <2>2 DEF Resynced, Register, Compare, Woken, NameGen, Listed, Answer, Only
    <3> QED BY <3>1 DEF parkedVars, queueVars
  <2> QED BY <1>3, <2>1, <2>2 DEF Watching
<1>4. ASSUME NEW k \in Watchers, Lose(k) PROVE QueueStep
  BY <1>4 DEF Lose, queueVars
<1>5. CASE UNCHANGED vars
  BY <1>5 DEF vars, parkedVars, queueVars
<1> QED BY <1>1, <1>2, <1>3, <1>4, <1>5 DEF Next

\* However watches, verbs and faults interleave: a request runs at most once, is
\* answered only after it ran, and is reported failed only when it has already
\* been taken or never will be (submit, Take, Reply and Close of control.go).
THEOREM QueueImplementsPromise == Spec => QueueKeepsPromise
<1>1. Init => QueueInv /\ Promise!Init
  BY QueueInvInit, PromiseInit DEF Init
<1>2. QueueInv /\ [Next]_vars => QueueInv'
  BY QueueInvStep, NextIsQueueStep
<1>3. QueueInv /\ [Next]_vars => [Promise!Next]_<<Fate, Told>>
  BY QueueStepRefines, NextIsQueueStep DEF PromiseStep
<1> QED BY <1>1, <1>2, <1>3, PTL DEF Spec, QueueKeepsPromise, Promise!Spec, Fate, Told

-----------------------------------------------------------------------------
(* The watches.                                                            *)

WatcherRecords ==
    [at : Places, call : Calls \cup {NoCall}, named : Nat, list : Nat, signal : BOOLEAN,
     have : Nat, view : Nat, got : SUBSET Nat]

\* The types of what the watches read and write; a watcher that waits for a list
\* knows which request it waits for.
WatchTypes ==
    /\ content \in Nat /\ controlGen \in Nat /\ gen \in Nat /\ reveals \in SUBSET Nat
    /\ result \in [Calls -> [list : Nat, gen : Nat]]
    /\ w \in [Watchers -> WatcherRecords]
    /\ \A k \in Watchers : w[k].at \in {"resync", "asked"} => w[k].call \in Calls

WatchInv == WatchTypes /\ NoLostWakeup

\* The records the steps of a watcher make.
LEMMA FreshRecord == Fresh \in WatcherRecords
  BY Zenon DEF WatcherRecords, Fresh, Places, Listening

LEMMA LostRecord ==
  ASSUME NEW v \in Nat
  PROVE  [Fresh EXCEPT !.view = v] \in WatcherRecords
  BY Zenon DEF WatcherRecords, Fresh, Places, Listening

LEMMA ArmedRecord ==
  ASSUME NEW h \in Nat, NEW v \in Nat, NEW seen \in SUBSET Nat
  PROVE  [Fresh EXCEPT !.at = "armed", !.have = h, !.view = v, !.got = seen] \in WatcherRecords
  BY Zenon DEF WatcherRecords, Fresh, Places, Listening

LEMMA SignalRecord ==
  ASSUME NEW r \in WatcherRecords, NEW a \in Places, NEW s \in BOOLEAN
  PROVE  [r EXCEPT !.at = a, !.signal = s] \in WatcherRecords
  BY Zenon DEF WatcherRecords

LEMMA SignalledRecord ==
  ASSUME NEW r \in WatcherRecords
  PROVE  [r EXCEPT !.signal = TRUE] \in WatcherRecords
  BY Zenon DEF WatcherRecords

LEMMA AskingRecord ==
  ASSUME NEW r \in WatcherRecords, NEW a \in Places, NEW c \in Calls
  PROVE  [r EXCEPT !.at = a, !.call = c] \in WatcherRecords
  BY Zenon DEF WatcherRecords

LEMMA NamedRecord ==
  ASSUME NEW r \in WatcherRecords, NEW a \in Places, NEW n \in Nat
  PROVE  [r EXCEPT !.at = a, !.named = n] \in WatcherRecords
  BY Zenon DEF WatcherRecords

LEMMA ListedRecord ==
  ASSUME NEW r \in WatcherRecords, NEW a \in Places, NEW n \in Nat
  PROVE  [r EXCEPT !.at = a, !.call = NoCall, !.list = n] \in WatcherRecords
  BY Zenon DEF WatcherRecords

LEMMA WatchInvInit == ASSUME Init PROVE WatchInv
<1>2. \A k \in Watchers : w[k].at = "away"
  BY SMT DEF Init, Fresh
<1>3. WatchTypes
  BY FreshRecord, <1>2, SMT DEF Init, WatchTypes
<1>4. NoLostWakeup
  BY <1>2, SMT DEF NoLostWakeup
<1> QED BY <1>3, <1>4 DEF WatchInv

\* What a step of one watcher has to show.
LEMMA OneWatcher ==
  ASSUME WatchInv, NEW k \in Watchers, NEW new \in WatcherRecords,
         w' = [w EXCEPT ![k] = new],
         UNCHANGED <<content, controlGen, gen, reveals, result>>,
         new.at \in {"resync", "asked"} => new.call \in Calls,
         new.at = "parked" /\ gen # new.have => new.signal
  PROVE  WatchInv'
<1>1. WatchTypes'
  BY SMT DEF WatchInv, WatchTypes
<1>2. NoLostWakeup'
  BY SMT DEF WatchInv, WatchTypes, NoLostWakeup
<1> QED BY <1>1, <1>2 DEF WatchInv

\* A bump leaves a signal with every watcher that listens.
LEMMA BumpWakes ==
  ASSUME WatchInv, w' = SignalAll, NEW g \in Nat, gen' = g
  PROVE  /\ w' \in [Watchers -> WatcherRecords]
         /\ \A k \in Watchers : w'[k].at = w[k].at /\ w'[k].call = w[k].call
         /\ NoLostWakeup'
<1>1. ASSUME NEW k \in Watchers
      PROVE  /\ w'[k] \in WatcherRecords
             /\ w'[k].at = w[k].at /\ w'[k].call = w[k].call
             /\ w'[k].at = "parked" => w'[k].signal
  <2>1. w[k] \in WatcherRecords
    BY DEF WatchInv, WatchTypes
  <2>2. w'[k] = IF w[k].at \in Listening THEN [w[k] EXCEPT !.signal = TRUE] ELSE w[k]
    BY Zenon DEF SignalAll
  <2>3. CASE w[k].at \in Listening
    <3>1. w'[k] = [w[k] EXCEPT !.signal = TRUE]
      BY <2>2, <2>3
    <3>2. w'[k] \in WatcherRecords
      BY <2>1, <3>1, SignalledRecord, Zenon
    <3>3. w'[k].at = w[k].at /\ w'[k].call = w[k].call /\ w'[k].signal
      BY <2>1, <3>1, Zenon DEF WatcherRecords
    <3> QED BY <3>2, <3>3
  <2>4. CASE w[k].at \notin Listening
    BY <2>1, <2>2, <2>4, Zenon DEF Listening
  <2> QED BY <2>3, <2>4
<1>2. w' \in [Watchers -> WatcherRecords]
  BY <1>1, Zenon DEF SignalAll
<1> QED BY <1>1, <1>2, Zenon DEF NoLostWakeup

LEMMA TickWakes ==
  ASSUME WatchInv, ControlTick, UNCHANGED result PROVE WatchInv'
<1>1. CASE content = shown
  <2>1. UNCHANGED <<content, controlGen, gen, reveals, result, w>>
    BY <1>1 DEF ControlTick, genVars
  <2> QED BY <2>1, SMT DEF WatchInv, WatchTypes, NoLostWakeup
<1>2. CASE content # shown /\ controlGen + 1 = gen
  <2>1. controlGen' = gen /\ UNCHANGED <<content, gen, reveals, result, w>>
    BY <1>2, SMT DEF ControlTick, BumpGen
  <2> QED BY <2>1, SMT DEF WatchInv, WatchTypes, NoLostWakeup
<1>3. CASE content # shown /\ controlGen + 1 # gen
  <2>1. /\ w' = SignalAll /\ gen' = controlGen + 1 /\ controlGen' = controlGen + 1
        /\ UNCHANGED <<content, reveals, result>>
    BY <1>3, SMT DEF ControlTick, BumpGen
  <2>2. controlGen + 1 \in Nat
    BY SMT DEF WatchInv, WatchTypes
  <2> QED BY <2>1, <2>2, BumpWakes, SMT DEF WatchInv, WatchTypes
<1> QED BY <1>1, <1>2, <1>3

LEMMA RevealWakes ==
  ASSUME WatchInv, PublishReveal, UNCHANGED result PROVE WatchInv'
<1>1. /\ w' = SignalAll /\ gen' = gen + 1 /\ controlGen' = gen + 1
      /\ UNCHANGED <<content, result>>
  BY SMT DEF PublishReveal
<1>2. gen + 1 \in Nat
  BY SMT DEF WatchInv, WatchTypes
<1>3. reveals' \in SUBSET Nat
  <2> DEFINE all == reveals \cup {gen + 1}
  <2>1. all \in SUBSET Nat
    BY <1>2 DEF WatchInv, WatchTypes
  <2>2. reveals' = IF Cardinality(all) > RevealHistory THEN all \ {Min(all)} ELSE all
    BY DEF PublishReveal
  <2> HIDE DEF all
  <2> QED BY <2>1, <2>2
<1> QED BY <1>1, <1>2, <1>3, BumpWakes, SMT DEF WatchInv, WatchTypes

LEMMA EventThreadWakes ==
  ASSUME WatchInv, EventThread PROVE WatchInv'
<1>1. ASSUME NEW c \in Calls, Execute(c) PROVE WatchInv'
  <2>1. CASE op[c] = "buffers" /\ UNCHANGED <<genVars, w>>
             /\ result' = [result EXCEPT ![c] = [list |-> content, gen |-> controlGen]]
    BY <2>1, SMT DEF genVars, WatchInv, WatchTypes, NoLostWakeup
  <2>2. CASE op[c] = "edit" /\ content' = content + 1
             /\ UNCHANGED <<shown, controlGen, gen, reveals, announced, result, w>>
    BY <2>2, SMT DEF WatchInv, WatchTypes, NoLostWakeup
  <2>3. CASE op[c] = "reveal" /\ PublishReveal /\ UNCHANGED result
    BY <2>3, RevealWakes
  <2> QED BY <1>1, <2>1, <2>2, <2>3 DEF Execute, Effect
<1>2. CASE FinishDrain \/ Tick
  BY <1>2, TickWakes DEF FinishDrain, Tick
<1>3. CASE Type
  BY <1>3, SMT DEF Type, WatchInv, WatchTypes, NoLostWakeup
<1>4. CASE UNCHANGED watchVars
  BY <1>4, SMT DEF watchVars, genVars, WatchInv, WatchTypes, NoLostWakeup
<1> QED BY <1>1, <1>2, <1>3, <1>4 DEF EventThread, Work, Quit, Stir

LEMMA WatchingWakes ==
  ASSUME WatchInv, NEW k \in Watchers, Watching(k) PROVE WatchInv'
<1>1. w[k] \in WatcherRecords /\ gen \in Nat
  BY DEF WatchInv, WatchTypes
<1>2. ASSUME NEW from, NEW to \in {"resync", "asked"}, AskBuffers(k, from, to) PROVE WatchInv'
  <2>1. PICK c \in Calls : /\ w' = [w EXCEPT ![k] = [w[k] EXCEPT !.at = to, !.call = c]]
                           /\ UNCHANGED <<genVars, result>>
    BY <1>2 DEF AskBuffers, Step
  <2>2. to \in Places
    BY DEF Places
  <2> DEFINE new == [w[k] EXCEPT !.at = to, !.call = c]
  <2>3. new \in WatcherRecords
    BY <1>1, <2>2, AskingRecord, Zenon
  <2>6. new.at = to /\ new.call = c
    BY <1>1, SMT DEF WatcherRecords
  <2>4. w' = [w EXCEPT ![k] = new] /\ UNCHANGED <<content, controlGen, gen, reveals, result>>
    BY <2>1 DEF genVars
  <2>5. to # "parked"
    OBVIOUS
  <2> HIDE DEF new
  <2> QED BY <2>3, <2>4, <2>5, <2>6, OneWatcher
<1>3. CASE Resynced(k)
  <2>1. w[k].call \in Calls
    BY <1>3, SMT DEF Resynced, WatchInv, WatchTypes
  <2> DEFINE c == w[k].call
             back == IF caller[c] # "ok" THEN Reconnecting(k)
                     ELSE [Fresh EXCEPT !.at = "armed", !.have = result[c].gen,
                                        !.view = result[c].list,
                                        !.got = {r \in reveals : r <= result[c].gen}]
  <2>2. w' = [w EXCEPT ![k] = back] /\ UNCHANGED <<content, controlGen, gen, reveals, result>>
    BY <1>3 DEF Resynced, Step, Only, genVars
  <2>3. back \in WatcherRecords /\ back.at \in {"away", "armed"}
    <3>1. result[c].list \in Nat /\ result[c].gen \in Nat /\ w[k].view \in Nat
      BY <1>1, <2>1, SMT DEF WatcherRecords, WatchInv, WatchTypes
    <3>2. {r \in reveals : r <= result[c].gen} \in SUBSET Nat
      BY DEF WatchInv, WatchTypes
    <3>3. back \in WatcherRecords
      BY <3>1, <3>2, ArmedRecord, LostRecord, Zenon DEF Reconnecting
    <3>4. back.at \in {"away", "armed"}
      BY SMT DEF Reconnecting, Fresh
    <3> QED BY <3>3, <3>4
  <2> HIDE DEF back
  <2>4. back.at \notin {"resync", "asked", "parked"}
    BY <2>3
  <2> QED BY <2>2, <2>3, <2>4, OneWatcher
<1>4. CASE Register(k) \/ Compare(k) \/ Woken(k) \/ NameGen(k) \/ Answer(k) \/ Listed(k)
  <2>1. UNCHANGED <<content, controlGen, gen, reveals, result>>
    BY <1>4 DEF Register, Compare, Woken, NameGen, Answer, Listed, Only, genVars
  <2>2. \E new \in WatcherRecords :
            /\ w' = [w EXCEPT ![k] = new]
            /\ new.at \notin {"resync", "asked"}
            /\ new.at = "parked" /\ gen # new.have => new.signal
    <3>1. CASE Register(k)
      <4> DEFINE new == [w[k] EXCEPT !.at = "registered", !.signal = FALSE]
      <4>1. w' = [w EXCEPT ![k] = new]
        BY <3>1 DEF Register, Step
      <4>2. new \in WatcherRecords
        BY <1>1, SignalRecord, Zenon DEF Places, Listening
      <4>3. new.at = "registered"
        BY <1>1, SMT DEF WatcherRecords
      <4> QED BY <4>1, <4>2, <4>3, Zenon
    <3>2. CASE Compare(k)
      <4> DEFINE new == [w[k] EXCEPT !.at = IF gen # w[k].have THEN "moved" ELSE "parked",
                                     !.signal = @ /\ gen = w[k].have]
      <4>1. w' = [w EXCEPT ![k] = new]
        BY <3>2 DEF Compare, Step
      <4>2. /\ new \in WatcherRecords /\ new.at \in {"moved", "parked"}
            /\ new.at = "parked" => gen = new.have
        <5> DEFINE a == IF gen # w[k].have THEN "moved" ELSE "parked"
                   b == w[k].signal /\ gen = w[k].have
        <5>1. a \in Places /\ b \in BOOLEAN /\ a \in {"moved", "parked"}
              /\ (a = "parked" => gen = w[k].have)
          BY DEF Places, Listening
        <5>2. new = [w[k] EXCEPT !.at = a, !.signal = b]
          OBVIOUS
        <5> HIDE DEF a, b, new
        <5>3. new \in WatcherRecords
          BY <1>1, <5>1, <5>2, SignalRecord, Zenon
        <5>4. new.at = a /\ new.have = w[k].have
          BY <1>1, <5>2, SMT DEF WatcherRecords
        <5> QED BY <5>1, <5>3, <5>4
      <4> QED BY <4>1, <4>2, Zenon
    <3>3. CASE Woken(k)
      <4> DEFINE new == [w[k] EXCEPT !.at = "armed", !.signal = FALSE]
      <4>1. w' = [w EXCEPT ![k] = new]
        BY <3>3 DEF Woken, Step
      <4>2. new \in WatcherRecords
        BY <1>1, SignalRecord, Zenon DEF Places
      <4>3. new.at = "armed"
        BY <1>1, SMT DEF WatcherRecords
      <4> QED BY <4>1, <4>2, <4>3, Zenon
    <3>4. CASE NameGen(k)
      <4> DEFINE new == [w[k] EXCEPT !.at = "named", !.named = gen]
      <4>1. w' = [w EXCEPT ![k] = new]
        BY <3>4 DEF NameGen, Step
      <4>2. new \in WatcherRecords
        BY <1>1, NamedRecord, Zenon DEF Places
      <4>3. new.at = "named"
        BY <1>1, SMT DEF WatcherRecords
      <4> QED BY <4>1, <4>2, <4>3, Zenon
    <3>5. CASE Answer(k)
      <4> DEFINE new == Answered(k, w[k].named)
      <4>1. w' = [w EXCEPT ![k] = new]
        BY <3>5 DEF Answer, Step
      <4>2. w[k].named \in Nat /\ w[k].list \in Nat
        BY <1>1, SMT DEF WatcherRecords
      <4>3. (w[k].got \cap reveals) \cup RevealsSince(k) \in SUBSET Nat
        BY DEF RevealsSince, WatchInv, WatchTypes
      <4>4. new \in WatcherRecords
        BY <4>2, <4>3, ArmedRecord, Zenon DEF Answered
      <4>5. new.at = "armed"
        BY SMT DEF Answered, Fresh
      <4> QED BY <4>1, <4>4, <4>5, Zenon
    <3>6. CASE Listed(k)
      <4>1. w[k].call \in Calls
        BY <3>6, SMT DEF Listed, WatchInv, WatchTypes
      <4> DEFINE c == w[k].call
                 new == IF caller[c] # "ok" THEN Reconnecting(k)
                        ELSE [w[k] EXCEPT !.at = "listed", !.call = NoCall,
                                          !.list = result[c].list]
      <4>2. w' = [w EXCEPT ![k] = new]
        BY <3>6 DEF Listed, Step
      <4>3. result[c].list \in Nat /\ w[k].view \in Nat
        BY <1>1, <4>1, SMT DEF WatcherRecords, WatchInv, WatchTypes
      <4>4. new \in WatcherRecords
        BY <1>1, <4>3, ListedRecord, LostRecord, Zenon DEF Reconnecting, Places
      <4>5. new.at \in {"away", "listed"}
        BY <1>1, SMT DEF Reconnecting, Fresh, WatcherRecords
      <4> QED BY <4>2, <4>4, <4>5, Zenon
    <3> QED BY <1>4, <3>1, <3>2, <3>3, <3>4, <3>5, <3>6
  <2>3. PICK new \in WatcherRecords :
            /\ w' = [w EXCEPT ![k] = new]
            /\ new.at \notin {"resync", "asked"}
            /\ new.at = "parked" /\ gen # new.have => new.signal
    BY <2>2
  <2> QED BY <2>1, <2>3, OneWatcher
<1> QED BY <1>2, <1>3, <1>4 DEF Watching, Resync, Ask

LEMMA WatchInvStep ==
  ASSUME WatchInv, [Next]_vars PROVE WatchInv'
<1>1. ASSUME NEW c \in Calls, Caller(c) PROVE WatchInv'
  BY <1>1, SMT DEF Caller, watchVars, genVars, WatchInv, WatchTypes, NoLostWakeup
<1>2. ASSUME NEW c \in Calls, Release(c) PROVE WatchInv'
  BY <1>2, SMT DEF Release, genVars, WatchInv, WatchTypes, NoLostWakeup
<1>3. ASSUME NEW c \in Calls, NEW v, Send(c, v) PROVE WatchInv'
  BY <1>3, SMT DEF Send, genVars, WatchInv, WatchTypes, NoLostWakeup
<1>4. ASSUME NEW k \in Watchers, Lose(k) PROVE WatchInv'
  <2>1. /\ w' = [w EXCEPT ![k] = Reconnecting(k)]
        /\ UNCHANGED <<content, controlGen, gen, reveals, result>>
    BY <1>4 DEF Lose, genVars
  <2>2. Reconnecting(k) \in WatcherRecords /\ Reconnecting(k).at = "away"
    <3>1. w[k].view \in Nat
      BY SMT DEF WatchInv, WatchTypes, WatcherRecords
    <3>2. Reconnecting(k) \in WatcherRecords
      BY <3>1, LostRecord, Zenon DEF Reconnecting
    <3>3. Reconnecting(k).at = "away"
      BY SMT DEF Reconnecting, Fresh
    <3> QED BY <3>2, <3>3
  <2> DEFINE new == Reconnecting(k)
  <2>3. new \in WatcherRecords /\ new.at \notin {"resync", "asked", "parked"}
    BY <2>2
  <2>4. w' = [w EXCEPT ![k] = new]
    BY <2>1
  <2> HIDE DEF new
  <2> QED BY <2>1, <2>3, <2>4, OneWatcher
<1>5. CASE UNCHANGED vars
  BY <1>5, SMT DEF vars, watchVars, genVars, WatchInv, WatchTypes, NoLostWakeup
<1> QED BY <1>1, <1>2, <1>3, <1>4, <1>5, EventThreadWakes, WatchingWakes DEF Next

\* A watch never sleeps through a generation without a signal waiting, for any
\* number of clients, requests and bumps: a bump between its compare and its park
\* finds its channel registered (connection.watch).
THEOREM WakeupsAreNotLost == Spec => []NoLostWakeup
<1>1. Init => WatchInv
  BY WatchInvInit
<1>2. WatchInv /\ [Next]_vars => WatchInv'
  BY WatchInvStep
<1>3. WatchInv => NoLostWakeup
  BY DEF WatchInv
<1> QED BY <1>1, <1>2, <1>3, PTL DEF Spec

-----------------------------------------------------------------------------
(* What the watches show.                                                  *)

\* The app and the server count alike, and the history of what was announced ends
\* with what the last tick saw.
Generations ==
    /\ gen \in Nat /\ controlGen = gen
    /\ content \in Nat /\ shown \in Nat /\ shown <= content
    /\ announced \in [0 .. gen -> Nat]
    /\ announced[0] = 0 /\ announced[gen] = shown
    /\ \A g \in 0 .. gen : announced[g] <= shown
    /\ reveals \subseteq 1 .. gen

\* An answer's list has every change announced by the generation it names.
AnswersCover == \A c \in Calls :
    result[c].gen \in 0 .. gen /\ announced[result[c].gen] <= result[c].list

OkCallsRan == \A c \in Calls : caller[c] = "ok" => c \in ran

\* What a watcher holds, or waits for: the list it asked for after it read the
\* generation has all that generation announced.
Shows(r) ==
    /\ r.have \in 0 .. gen /\ r.named \in 0 .. gen
    /\ r.at \in {"resync", "asked"} => caller[r.call] # "free" /\ op[r.call] = "buffers"
    /\ r.at = "asked" /\ r.call \in ran => announced[r.named] <= result[r.call].list
    /\ r.at = "listed" => announced[r.named] <= r.list
    /\ r.at \notin {"away", "resync"} =>
           /\ announced[r.have] <= r.view
           /\ \A x \in reveals : x <= r.have => x \in r.got

AllShow == \A k \in Watchers : Shows(w[k])

OpTypes == op \in [Calls -> Verbs]

ShowInv ==
    /\ WatchInv /\ QueueInv /\ OpTypes /\ OkCallsRan
    /\ Generations /\ AnswersCover /\ AllShow

LEMMA ShowInvInit == ASSUME Init PROVE ShowInv
<1>1. WatchInv /\ QueueInv
  BY WatchInvInit, QueueInvInit DEF Init
<1>2. Generations /\ AnswersCover /\ OkCallsRan
  <2>1. gen = 0 /\ 0 .. gen = {0} /\ announced = [g \in {0} |-> 0]
    BY SMT DEF Init
  <2>2. announced \in [0 .. gen -> Nat] /\ announced[0] = 0
    BY <2>1, SMT
  <2> QED BY <2>1, <2>2, SMT DEF Init, ParkedInit, Generations, AnswersCover, OkCallsRan
<1>3. AllShow /\ OpTypes
  BY SMT DEF Init, ParkedInit, AllShow, Shows, Fresh, OpTypes, Verbs
<1> QED BY <1>1, <1>2, <1>3 DEF ShowInv

\* What every step leaves of the history, and of a request somebody waits for.
HistoryGrows ==
    /\ gen' \in Nat /\ gen <= gen'
    /\ \A g \in 0 .. gen : announced'[g] = announced[g]
    /\ \A x \in reveals' : x \in reveals \/ (x \in Nat /\ x > gen)

CallGoesOn(c) ==
    /\ caller'[c] # "free" /\ op'[c] = op[c]
    /\ c \in ran' => \/ c \in ran /\ result'[c] = result[c]
                     \/ shown <= result'[c].list

LEMMA ShowsOn ==
  ASSUME Generations, HistoryGrows, NEW r \in WatcherRecords, Shows(r),
         r.at \in {"resync", "asked"} => r.call \in Calls /\ CallGoesOn(r.call),
         result' \in [Calls -> [list : Nat, gen : Nat]]
  PROVE  /\ r.have \in 0 .. gen' /\ r.named \in 0 .. gen'
         /\ r.at \in {"resync", "asked"} => caller'[r.call] # "free" /\ op'[r.call] = "buffers"
         /\ r.at = "asked" /\ r.call \in ran' => announced'[r.named] <= result'[r.call].list
         /\ r.at = "listed" => announced'[r.named] <= r.list
         /\ r.at \notin {"away", "resync"} =>
                /\ announced'[r.have] <= r.view
                /\ \A x \in reveals' : x <= r.have => x \in r.got
<1> USE DEF Generations, HistoryGrows, Shows
<1>1. r.have \in 0 .. gen /\ r.named \in 0 .. gen /\ r.have \in 0 .. gen' /\ r.named \in 0 .. gen'
  BY SMT
<1>2. announced'[r.have] = announced[r.have] /\ announced'[r.named] = announced[r.named]
  BY <1>1, SMT
<1>3. r.at = "asked" /\ r.call \in ran' => announced'[r.named] <= result'[r.call].list
  <2>1. CASE r.at = "asked" /\ r.call \in ran /\ result'[r.call] = result[r.call]
    BY <2>1, <1>2
  <2>2. CASE r.at = "asked" /\ r.call \in Calls /\ shown <= result'[r.call].list
    <3>1. result'[r.call].list \in Nat /\ announced[r.named] \in Nat
      BY <2>2, <1>1, SMT
    <3> QED BY <2>2, <3>1, <1>1, <1>2, SMT
  <2> QED BY <2>1, <2>2 DEF CallGoesOn
<1>4. ASSUME NEW x \in reveals', x <= r.have PROVE x \in reveals
  <2>1. CASE x \in Nat /\ x > gen
    BY <1>1, <1>4, <2>1, SMT
  <2> QED BY <1>4, <2>1
<1>5. r.at \in {"resync", "asked"} => caller'[r.call] # "free" /\ op'[r.call] = "buffers"
  BY Zenon DEF CallGoesOn
<1>6. r.at \notin {"away", "resync"} =>
          /\ announced'[r.have] <= r.view
          /\ \A x \in reveals' : x <= r.have => x \in r.got
  BY <1>2, <1>4, Zenon
<1>7. r.at = "listed" => announced'[r.named] <= r.list
  BY <1>2, Zenon
<1> QED BY <1>1, <1>3, <1>5, <1>6, <1>7, Zenon

\* The history and the answers, when only a request is answered or a client moves.
LEMMA QuietHistory ==
  ASSUME ShowInv, UNCHANGED genVars
  PROVE  HistoryGrows /\ Generations'
  BY SMT DEF ShowInv, Generations, HistoryGrows, genVars

LEMMA QuietAnswers ==
  ASSUME ShowInv, HistoryGrows, UNCHANGED result
  PROVE  AnswersCover'
<1> SUFFICES ASSUME NEW c \in Calls
             PROVE  result[c].gen \in 0 .. gen' /\ announced'[result[c].gen] <= result[c].list
  BY DEF AnswersCover
<1>1. result[c].gen \in 0 .. gen /\ announced[result[c].gen] <= result[c].list
  BY DEF ShowInv, AnswersCover
<1> QED BY <1>1, SMT DEF HistoryGrows, ShowInv, Generations

\* A tick announces what was made since the last one.
LEMMA TickShows ==
  ASSUME ShowInv, ControlTick
  PROVE  HistoryGrows /\ Generations' /\ shown <= shown'
<1> USE DEF ShowInv, Generations
<1>1. CASE content = shown
  BY <1>1, QuietHistory, SMT DEF ControlTick, genVars
<1>2. CASE content # shown
  <2>1. /\ shown' = content /\ controlGen' = gen + 1 /\ gen' = gen + 1
        /\ announced' = [h \in 0 .. gen + 1 |-> IF h = gen + 1 THEN content ELSE announced[h]]
        /\ UNCHANGED <<content, reveals>>
    BY <1>2, SMT DEF ControlTick, BumpGen, Announce
  <2>2. HistoryGrows
    BY <2>1, SMT DEF HistoryGrows
  <2>3. Generations'
    BY <2>1, SMT
  <2> QED BY <2>1, <2>2, <2>3, SMT
<1> QED BY <1>1, <1>2

\* A reveal is announced as one more generation, with nothing new in the list.
LEMMA RevealShows ==
  ASSUME ShowInv, PublishReveal
  PROVE  HistoryGrows /\ Generations' /\ shown' = shown
<1> USE DEF ShowInv, Generations
<1>1. /\ gen' = gen + 1 /\ controlGen' = gen + 1 /\ UNCHANGED <<content, shown>>
      /\ announced' = [h \in 0 .. gen + 1 |-> IF h = gen + 1 THEN shown ELSE announced[h]]
  BY SMT DEF PublishReveal, Announce
<1>2. reveals' \subseteq reveals \cup {gen + 1}
  <2> DEFINE all == reveals \cup {gen + 1}
  <2>1. reveals' = IF Cardinality(all) > RevealHistory THEN all \ {Min(all)} ELSE all
    BY DEF PublishReveal
  <2> HIDE DEF all
  <2>2. reveals' \subseteq all
    BY <2>1
  <2> QED BY <2>2 DEF all
<1>3. HistoryGrows
  BY <1>1, <1>2, SMT DEF HistoryGrows
<1>4. Generations'
  BY <1>1, <1>2, SMT
<1> QED BY <1>1, <1>3, <1>4

SameButSignal(k) ==
    /\ w'[k].at = w[k].at /\ w'[k].call = w[k].call /\ w'[k].named = w[k].named
    /\ w'[k].list = w[k].list /\ w'[k].have = w[k].have /\ w'[k].view = w[k].view
    /\ w'[k].got = w[k].got

\* Every watcher that the step leaves alone goes on showing what it showed.
LEMMA AllShowOn ==
  ASSUME ShowInv, HistoryGrows, result' \in [Calls -> [list : Nat, gen : Nat]],
         NEW S \in SUBSET Watchers,
         \A k \in S : /\ SameButSignal(k)
                      /\ w[k].at \in {"resync", "asked"} => CallGoesOn(w[k].call),
         \A k \in Watchers \ S : Shows(w[k])'
  PROVE  AllShow'
<1> SUFFICES ASSUME NEW k \in S PROVE Shows(w[k])'
  BY Zenon DEF AllShow
<1>1. /\ w[k] \in WatcherRecords /\ Shows(w[k]) /\ Generations
      /\ w[k].at \in {"resync", "asked"} => w[k].call \in Calls /\ CallGoesOn(w[k].call)
  BY Zenon DEF ShowInv, WatchInv, WatchTypes, AllShow
<1> DEFINE r == w[k]
<1>2. /\ r.have \in 0 .. gen' /\ r.named \in 0 .. gen'
      /\ r.at \in {"resync", "asked"} => caller'[r.call] # "free" /\ op'[r.call] = "buffers"
      /\ r.at = "asked" /\ r.call \in ran' => announced'[r.named] <= result'[r.call].list
      /\ r.at = "listed" => announced'[r.named] <= r.list
      /\ r.at \notin {"away", "resync"} =>
             /\ announced'[r.have] <= r.view
             /\ \A x \in reveals' : x <= r.have => x \in r.got
  BY <1>1, ShowsOn, Zenon
<1> QED BY <1>2, Zenon DEF Shows, SameButSignal

\* A bump changes nothing about a watcher but its signal.
LEMMA BumpShows ==
  ASSUME WatchTypes, w' = SignalAll, NEW k \in Watchers
  PROVE  SameButSignal(k)
<1>1. w[k] \in WatcherRecords
  BY DEF WatchTypes
<1>2. w'[k] = IF w[k].at \in Listening THEN [w[k] EXCEPT !.signal = TRUE] ELSE w[k]
  BY Zenon DEF SignalAll
<1>3. CASE w'[k] = [w[k] EXCEPT !.signal = TRUE]
  BY <1>1, <1>3, Zenon DEF SameButSignal, WatcherRecords
<1> QED BY <1>2, <1>3, Zenon DEF SameButSignal

LEMMA OkCallsRanStep ==
  ASSUME QueueInv, OkCallsRan, QueueStep PROVE OkCallsRan'
<1> USE DEF QueueInv, QueueTypes, AnswersAreTrue, CallPlaces, Results, OkCallsRan
<1>1. ASSUME NEW c \in Calls, Park(c) \/ Forget(c) PROVE OkCallsRan'
  BY <1>1, SMT DEF Park, Forget, Move, threadVars
<1>2. ASSUME NEW c \in Calls, Submitting(c) PROVE OkCallsRan'
  BY <1>2, SMT DEF Submitting, Notify, Collect, GiveUp, Move, threadVars
<1>3. ASSUME NEW c \in Calls, Dispatch(c) \/ Flush(c) \/ FailParked(c) PROVE OkCallsRan'
  BY <1>3, SMT DEF Dispatch, Flush, FailParked, Reply, callVars
<1>4. CASE OtherWake \/ Drain \/ EndDrain \/ EndDraw \/ Close \/ Exit \/ UNCHANGED queueVars
  BY <1>4, SMT DEF OtherWake, Drain, EndDrain, EndDraw, Close, Exit, queueVars, callVars,
                   threadVars
<1> QED BY <1>1, <1>2, <1>3, <1>4 DEF QueueStep

\* The parts of the invariant that speak of the announcements.
ShownWell == Generations /\ AnswersCover /\ AllShow

\* A request a watcher waits for is one for the list, and is not free.
LEMMA WaitedFor ==
  ASSUME ShowInv, NEW k \in Watchers, w[k].at \in {"resync", "asked"}
  PROVE  w[k].call \in Calls /\ caller[w[k].call] # "free" /\ op[w[k].call] = "buffers"
  BY SMT DEF ShowInv, WatchInv, WatchTypes, AllShow, Shows

LEMMA ExecuteShows ==
  ASSUME ShowInv, WatchInv', NEW c \in Calls, Execute(c) PROVE ShownWell'
<1>1. /\ c \notin ran /\ ran' = ran \cup {c} /\ UNCHANGED <<caller, op>>
  BY SMT DEF Execute, Dispatch, callVars, ShowInv, QueueInv, OnePlace
<1>2. result' \in [Calls -> [list : Nat, gen : Nat]] /\ WatchTypes
  BY DEF WatchInv, WatchTypes, ShowInv
<1>3. CASE op[c] = "buffers" /\ UNCHANGED <<genVars, w>>
           /\ result' = [result EXCEPT ![c] = [list |-> content, gen |-> controlGen]]
  <2>1. HistoryGrows /\ Generations'
    BY <1>3, QuietHistory
  <2>2. \A d \in Calls : d # c => result'[d] = result[d]
    BY <1>3, SMT DEF ShowInv, WatchInv, WatchTypes
  <2>3. result'[c] = [list |-> content, gen |-> gen]
    BY <1>3, SMT DEF ShowInv, WatchInv, WatchTypes, Generations
  <2>4. AnswersCover'
    <3>1. gen' = gen /\ announced' = announced
      BY <1>3 DEF genVars
    <3>2. gen \in 0 .. gen /\ announced[gen] <= content
      BY SMT DEF ShowInv, Generations
    <3>3. ASSUME NEW d \in Calls
          PROVE  result'[d].gen \in 0 .. gen /\ announced[result'[d].gen] <= result'[d].list
      <4>1. CASE d = c
        BY <2>3, <3>2, <4>1
      <4>2. CASE d # c
        BY <2>2, <4>2, Zenon DEF ShowInv, AnswersCover
      <4> QED BY <4>1, <4>2
    <3> QED BY <3>1, <3>3, Zenon DEF AnswersCover
  <2>5. shown <= result'[c].list
    BY <2>3, SMT DEF ShowInv, Generations
  <2>6. ASSUME NEW k \in Watchers, w[k].at \in {"resync", "asked"} PROVE CallGoesOn(w[k].call)
    <3>1. w[k].call \in Calls /\ caller[w[k].call] # "free"
      BY <2>6, WaitedFor
    <3> QED BY <3>1, <1>1, <2>2, <2>5, Zenon DEF CallGoesOn
  <2>7. \A k \in Watchers : SameButSignal(k)
    BY <1>3 DEF SameButSignal
  <2>8. AllShow'
    BY <2>1, <1>2, <2>6, <2>7, AllShowOn
  <2> QED BY <2>1, <2>4, <2>8 DEF ShownWell
<1>4. CASE op[c] # "buffers" /\ HistoryGrows /\ Generations' /\ UNCHANGED result
           /\ (UNCHANGED w \/ w' = SignalAll)
  <2>1. AnswersCover'
    BY <1>4, QuietAnswers
  <2>2. ASSUME NEW k \in Watchers, w[k].at \in {"resync", "asked"} PROVE CallGoesOn(w[k].call)
    <3>1. w[k].call \in Calls /\ caller[w[k].call] # "free" /\ op[w[k].call] = "buffers"
      BY <2>2, WaitedFor
    <3> QED BY <3>1, <1>1, <1>4, Zenon DEF CallGoesOn
  <2>3. \A k \in Watchers : SameButSignal(k)
    BY <1>2, <1>4, BumpShows, Zenon DEF SameButSignal
  <2>4. AllShow'
    BY <1>2, <1>4, <2>2, <2>3, AllShowOn
  <2> QED BY <1>4, <2>1, <2>4 DEF ShownWell
<1>5. CASE op[c] = "edit" /\ content' = content + 1
           /\ UNCHANGED <<shown, controlGen, gen, reveals, announced, result, w>>
  <2>1. HistoryGrows /\ Generations'
    BY <1>5, SMT DEF HistoryGrows, Generations, ShowInv
  <2> QED BY <1>4, <1>5, <2>1
<1>6. CASE op[c] = "reveal" /\ PublishReveal /\ UNCHANGED result
  <2>1. w' = SignalAll
    BY <1>6 DEF PublishReveal
  <2> QED BY <1>4, <1>6, <2>1, RevealShows
<1> QED BY <1>3, <1>5, <1>6 DEF Execute, Effect

\* Steps that leave the requests as they are and the watchers too, but for signals.
LEMMA HistoryShows ==
  ASSUME ShowInv, HistoryGrows, Generations', UNCHANGED <<result, caller, ran, op>>,
         UNCHANGED w \/ w' = SignalAll
  PROVE  ShownWell'
<1>1. AnswersCover'
  BY QuietAnswers
<1>2. ASSUME NEW k \in Watchers, w[k].at \in {"resync", "asked"} PROVE CallGoesOn(w[k].call)
  <2>1. w[k].call \in Calls /\ caller[w[k].call] # "free"
    BY <1>2, WaitedFor
  <2> QED BY <2>1, Zenon DEF CallGoesOn
<1>3. \A k \in Watchers : SameButSignal(k)
  BY BumpShows, Zenon DEF SameButSignal, ShowInv, WatchInv
<1>4. AllShow'
  BY <1>2, <1>3, AllShowOn DEF ShowInv, WatchInv, WatchTypes
<1> QED BY <1>1, <1>4 DEF ShownWell

LEMMA EventThreadShows ==
  ASSUME ShowInv, WatchInv', EventThread PROVE ShownWell'
<1>1. ASSUME ControlTick, UNCHANGED <<result, caller, ran, op>> PROVE ShownWell'
  <2>1. UNCHANGED w \/ w' = SignalAll
    BY <1>1 DEF ControlTick, BumpGen
  <2> QED BY <1>1, <2>1, TickShows, HistoryShows
<1>2. CASE FinishDrain
  BY <1>1, <1>2 DEF FinishDrain, EndDrain, callVars
<1>3. CASE Tick
  BY <1>1, <1>3 DEF Tick, parkedVars, callVars, threadVars
<1>4. CASE Type
  <2>1. HistoryGrows /\ Generations'
    BY <1>4, SMT DEF Type, HistoryGrows, Generations, ShowInv
  <2>2. UNCHANGED <<result, caller, ran, op, w>>
    BY <1>4 DEF Type, parkedVars, callVars, threadVars
  <2> QED BY <2>1, <2>2, HistoryShows
<1>5. ASSUME UNCHANGED watchVars, UNCHANGED <<caller, ran>> PROVE ShownWell'
  <2>1. UNCHANGED genVars /\ UNCHANGED <<result, op, w>>
    BY <1>5 DEF watchVars
  <2> QED BY <1>5, <2>1, QuietHistory, HistoryShows
<1>6. CASE UNCHANGED watchVars /\ (Drain \/ EndDraw \/ Exit \/ Close \/ OtherWake)
  BY <1>5, <1>6 DEF Drain, EndDraw, Exit, Close, OtherWake, callVars, threadVars
<1>7. ASSUME UNCHANGED watchVars, NEW c \in Calls, Flush(c) \/ FailParked(c) PROVE ShownWell'
  BY <1>5, <1>7 DEF Flush, FailParked, Reply, callVars
<1> QED BY <1>2, <1>3, <1>4, <1>6, <1>7, ExecuteShows DEF EventThread, Work, Quit, Stir

\* A step among the callers, as the watchers see it: the call it is about is not one
\* a watcher waits for, or stays its request.
LEMMA CallerShows ==
  ASSUME ShowInv, WatchInv', UNCHANGED <<genVars, w>>, NEW c \in Calls,
         \A d \in Calls \ {c} : /\ caller'[d] = caller[d] /\ op'[d] = op[d]
                                /\ result'[d] = result[d] /\ (d \in ran' => d \in ran),
         \/ result'[c] = result[c]
         \/ result'[c] = [list |-> 0, gen |-> 0],
         \A k \in Watchers : w[k].at \in {"resync", "asked"} /\ w[k].call = c => CallGoesOn(c)
  PROVE  ShownWell'
<1>1. HistoryGrows /\ Generations'
  BY QuietHistory
<1>2. AnswersCover'
  <2>1. gen' = gen /\ announced' = announced
    BY DEF genVars
  <2>2. 0 \in 0 .. gen /\ announced[0] <= 0
    BY SMT DEF ShowInv, Generations
  <2>3. ASSUME NEW d \in Calls
        PROVE  result'[d].gen \in 0 .. gen /\ announced[result'[d].gen] <= result'[d].list
    <3>1. CASE result'[d] = result[d]
      BY <3>1, Zenon DEF ShowInv, AnswersCover
    <3>2. CASE result'[d] = [list |-> 0, gen |-> 0]
      BY <3>2, <2>2
    <3> QED BY <3>1, <3>2
  <2> QED BY <2>1, <2>3, Zenon DEF AnswersCover
<1>3. ASSUME NEW k \in Watchers, w[k].at \in {"resync", "asked"} PROVE CallGoesOn(w[k].call)
  <2>1. w[k].call \in Calls /\ caller[w[k].call] # "free"
    BY <1>3, WaitedFor
  <2> QED BY <1>3, <2>1, Zenon DEF CallGoesOn
<1>4. \A k \in Watchers : SameButSignal(k)
  BY DEF SameButSignal
<1>5. AllShow'
  BY <1>1, <1>3, <1>4, AllShowOn DEF WatchInv, WatchTypes
<1> QED BY <1>1, <1>2, <1>5 DEF ShownWell

LEMMA CallersShow ==
  ASSUME ShowInv, WatchInv', NEW c \in Calls,
         Caller(c) \/ Release(c) \/ (\E v : Send(c, v))
  PROVE  ShownWell'
<1> USE DEF ShowInv, QueueInv, QueueTypes, CallPlaces, Results, OpTypes
<1>1. ASSUME NEW k \in Watchers, w[k].at \in {"resync", "asked"}, w[k].call = c
      PROVE  caller[c] # "free"
  BY <1>1, WaitedFor
<1>2. CASE Caller(c)
  <2>1. UNCHANGED <<genVars, w, op, result>>
    BY <1>2 DEF Caller, watchVars
  <2>2. /\ UNCHANGED ran /\ \A d \in Calls \ {c} : caller'[d] = caller[d]
        /\ caller'[c] # "free"
    BY <1>2, SMT DEF Caller, Submitting, Notify, Collect, GiveUp, Move, threadVars
  <2>3. CallGoesOn(c)
    BY <2>1, <2>2 DEF CallGoesOn
  <2> QED BY <2>1, <2>2, <2>3, CallerShows
<1>3. CASE Release(c)
  <2>1. UNCHANGED <<genVars, w>> /\ \A k \in Watchers : w[k].call # c
    BY <1>3 DEF Release
  <2>2. /\ \A d \in Calls \ {c} : caller'[d] = caller[d] /\ op'[d] = op[d] /\ result'[d] = result[d]
        /\ ran' \subseteq ran
        /\ result'[c] = [list |-> 0, gen |-> 0]
    BY <1>3, SMT DEF Release, Forget, WatchInv, WatchTypes
  <2> QED BY <2>1, <2>2, CallerShows
<1>4. ASSUME NEW v, Send(c, v) PROVE ShownWell'
  <2>1. UNCHANGED <<genVars, w, result>> /\ caller[c] = "free"
    BY <1>4 DEF Send, Park, Move
  <2>2. UNCHANGED ran /\ \A d \in Calls \ {c} : caller'[d] = caller[d] /\ op'[d] = op[d]
    BY <1>4, SMT DEF Send, Park, Move, threadVars
  <2> QED BY <1>1, <2>1, <2>2, CallerShows
<1> QED BY <1>2, <1>3, <1>4

\* What a step of one watcher that asks for nothing has to show.
LEMMA OneShows ==
  ASSUME ShowInv, WatchInv', NEW k \in Watchers,
         UNCHANGED genVars, UNCHANGED <<caller, ran, op, result>>,
         NEW new \in WatcherRecords, w' = [w EXCEPT ![k] = new], Shows(new)
  PROVE  ShownWell'
<1>1. HistoryGrows /\ Generations'
  BY QuietHistory
<1>2. AnswersCover'
  BY <1>1, QuietAnswers
<1>3. UNCHANGED <<caller, ran, op, result, gen, announced, reveals>>
  BY DEF genVars
<1>4. w'[k] = new /\ \A j \in Watchers \ {k} : w'[j] = w[j]
  BY SMT DEF ShowInv, WatchInv, WatchTypes
<1>5. Shows(w[k])'
  BY <1>3, <1>4, SMT DEF Shows
<1>6. ASSUME NEW j \in Watchers, w[j].at \in {"resync", "asked"} PROVE CallGoesOn(w[j].call)
  BY <1>3, <1>6, WaitedFor, Zenon DEF CallGoesOn
<1>7. \A j \in Watchers \ {k} : SameButSignal(j)
  BY <1>4 DEF SameButSignal
<1> DEFINE S == Watchers \ {k}
<1>8. AllShow'
  <2>1. \A j \in S : /\ SameButSignal(j)
                     /\ w[j].at \in {"resync", "asked"} => CallGoesOn(w[j].call)
    BY <1>6, <1>7
  <2>2. \A j \in Watchers \ S : Shows(w[j])'
    BY <1>5
  <2>3. S \in SUBSET Watchers /\ result' \in [Calls -> [list : Nat, gen : Nat]]
    BY DEF WatchInv, WatchTypes
  <2> HIDE DEF S
  <2> QED BY <1>1, <2>1, <2>2, <2>3, AllShowOn
<1> QED BY <1>1, <1>2, <1>8 DEF ShownWell

LEMMA AskShows ==
  ASSUME ShowInv, WatchInv', NEW k \in Watchers,
         Resync(k) \/ Ask(k)
  PROVE  ShownWell'
<1>1. PICK c \in Calls, to \in {"resync", "asked"} :
          /\ w' = [w EXCEPT ![k] = [w[k] EXCEPT !.at = to, !.call = c]]
          /\ Park(c) /\ op' = [op EXCEPT ![c] = "buffers"] /\ UNCHANGED <<genVars, result>>
          /\ to = "asked" => w[k].at = "named"
  BY Zenon DEF Resync, Ask, AskBuffers, Step
<1>2. HistoryGrows /\ Generations'
  BY <1>1, QuietHistory
<1>3. AnswersCover'
  BY <1>1, <1>2, QuietAnswers
<1>4. /\ caller[c] = "free" /\ caller'[c] # "free" /\ op'[c] = "buffers"
      /\ c \notin ran /\ ran' = ran
      /\ \A d \in Calls \ {c} : caller'[d] = caller[d] /\ op'[d] = op[d]
  BY <1>1, SMT DEF Park, Move, threadVars, ShowInv, OpTypes, QueueInv, QueueTypes, FreeIsNowhere
<1>5. ASSUME NEW j \in Watchers, w[j].at \in {"resync", "asked"} PROVE CallGoesOn(w[j].call)
  <2>1. w[j].call \in Calls \ {c} /\ caller[w[j].call] # "free"
    BY <1>4, <1>5, WaitedFor
  <2> QED BY <1>1, <1>4, <2>1, Zenon DEF CallGoesOn
<1>6. w'[k] = [w[k] EXCEPT !.at = to, !.call = c] /\ \A j \in Watchers \ {k} : w'[j] = w[j]
  BY <1>1, SMT DEF ShowInv, WatchInv, WatchTypes
<1>7. Shows(w[k])'
  <2>0. w[k] \in WatcherRecords
    BY SMT DEF ShowInv, WatchInv, WatchTypes
  <2>1. /\ w'[k].at = to /\ w'[k].call = c /\ w'[k].have = w[k].have
        /\ w'[k].named = w[k].named /\ w'[k].view = w[k].view /\ w'[k].got = w[k].got
    BY <1>6, <2>0, SMT DEF WatcherRecords
  <2>2. Shows(w[k]) /\ UNCHANGED <<gen, announced, reveals>>
    BY <1>1 DEF ShowInv, AllShow, genVars
  <2>3. CASE to = "resync"
    BY <1>4, <2>1, <2>2, <2>3, Zenon DEF Shows
  <2>4. CASE to = "asked"
    <3>1. w[k].at = "named"
      BY <1>1, <2>4
    <3> QED BY <1>4, <2>1, <2>2, <2>4, <3>1, Zenon DEF Shows
  <2> QED BY <2>3, <2>4
<1> DEFINE S == Watchers \ {k}
<1>8. AllShow'
  <2>1. \A j \in S : /\ SameButSignal(j)
                     /\ w[j].at \in {"resync", "asked"} => CallGoesOn(w[j].call)
    BY <1>5, <1>6 DEF SameButSignal
  <2>2. \A j \in Watchers \ S : Shows(w[j])'
    BY <1>7
  <2>3. S \in SUBSET Watchers /\ result' \in [Calls -> [list : Nat, gen : Nat]]
    BY DEF WatchInv, WatchTypes
  <2> HIDE DEF S
  <2> QED BY <1>2, <2>1, <2>2, <2>3, AllShowOn
<1> QED BY <1>2, <1>3, <1>8 DEF ShownWell

LEMMA WatchingShows ==
  ASSUME ShowInv, WatchInv', NEW k \in Watchers, Watching(k) \/ Lose(k)
  PROVE  ShownWell'
<1> DEFINE r == w[k]
           Quiet == UNCHANGED genVars /\ UNCHANGED <<caller, ran, op, result>>
<1>1. r \in WatcherRecords /\ Shows(r) /\ Generations
  BY Zenon DEF ShowInv, WatchInv, WatchTypes, AllShow
<1>2. /\ r.have \in 0 .. gen /\ r.named \in 0 .. gen /\ gen \in 0 .. gen
      /\ gen \in Nat /\ r.have \in Nat /\ r.named \in Nat /\ r.view \in Nat /\ r.list \in Nat
  BY <1>1, SMT DEF Shows, Generations, WatcherRecords
\* The places where a watcher keeps all it holds.
<1>3. ASSUME Quiet, NEW a \in {"registered", "parked", "armed", "moved"}, NEW b \in BOOLEAN,
             r.at \notin {"away", "resync"}, w' = [w EXCEPT ![k] = [r EXCEPT !.at = a, !.signal = b]]
      PROVE  ShownWell'
  <2> DEFINE new == [r EXCEPT !.at = a, !.signal = b]
  <2>1. new \in WatcherRecords
    BY <1>1, SignalRecord, Zenon DEF Places, Listening
  <2>2. /\ new.at = a /\ new.have = r.have /\ new.named = r.named /\ new.view = r.view
        /\ new.got = r.got
    BY <1>1, Zenon DEF WatcherRecords
  <2>3. Shows(new)
    BY <1>1, <1>3, <2>2, SMT DEF Shows
  <2> HIDE DEF new
  <2> QED BY <1>3, <2>1, <2>3, OneShows DEF new
<1>4. CASE Register(k) \/ Woken(k)
  <2>1. Quiet /\ r.at \in {"armed", "parked"}
    BY <1>4 DEF Register, Woken, Step, Only, parkedVars, callVars, threadVars
  <2>2. \E a \in {"registered", "armed"} : w' = [w EXCEPT ![k] = [r EXCEPT !.at = a, !.signal = FALSE]]
    BY <1>4 DEF Register, Woken, Step, Only, parkedVars, callVars, threadVars
  <2> QED BY <1>3, <2>1, <2>2
<1>5. CASE Compare(k)
  <2> DEFINE a == IF gen # r.have THEN "moved" ELSE "parked"
             b == r.signal /\ gen = r.have
  <2>1. Quiet /\ r.at = "registered"
    BY <1>5 DEF Compare, Step, Only, parkedVars, callVars, threadVars
  <2>2. w' = [w EXCEPT ![k] = [r EXCEPT !.at = a, !.signal = b]]
    BY <1>5 DEF Compare, Step, Only, parkedVars, callVars, threadVars
  <2>3. a \in {"moved", "parked"} /\ b \in BOOLEAN
    OBVIOUS
  <2> HIDE DEF a, b
  <2> QED BY <1>3, <2>1, <2>2, <2>3
<1>6. CASE NameGen(k)
  <2> DEFINE new == [r EXCEPT !.at = "named", !.named = gen]
  <2>1. new \in WatcherRecords
    BY <1>1, <1>2, NamedRecord, Zenon DEF Places
  <2>2. /\ new.at = "named" /\ new.have = r.have /\ new.named = gen /\ new.view = r.view
        /\ new.got = r.got
    BY <1>1, Zenon DEF WatcherRecords
  <2>3. Shows(new)
    BY <1>1, <1>2, <1>6, <2>2, SMT DEF Shows, NameGen, Step
  <2>4. w' = [w EXCEPT ![k] = new] /\ Quiet
    BY <1>6 DEF NameGen, Step, Only, parkedVars, callVars, threadVars
  <2> HIDE DEF new
  <2> QED BY <2>1, <2>3, <2>4, OneShows
\* A client that lost its connection holds nothing.
<1>7. Reconnecting(k) \in WatcherRecords /\ Shows(Reconnecting(k))
  <2>1. Reconnecting(k) \in WatcherRecords
    BY <1>2, LostRecord, Zenon DEF Reconnecting
  <2>2. Reconnecting(k).at = "away" /\ Reconnecting(k).have = 0 /\ Reconnecting(k).named = 0
    BY SMT DEF Reconnecting, Fresh
  <2> HIDE DEF r
  <2> QED BY <1>2, <2>1, <2>2, SMT DEF Shows
<1>8. CASE Resynced(k)
  <2> DEFINE c == r.call
             g == result[c].gen
             new == [Fresh EXCEPT !.at = "armed", !.have = g, !.view = result[c].list,
                                  !.got = {x \in reveals : x <= g}]
  <2>1. /\ c \in Calls /\ Quiet
        /\ w' = [w EXCEPT ![k] = IF caller[c] # "ok" THEN Reconnecting(k) ELSE new]
    BY <1>8, WaitedFor DEF Resynced, Step, Only, parkedVars, callVars, threadVars
  <2>2. /\ g \in 0 .. gen /\ announced[g] <= result[c].list
        /\ g \in Nat /\ result[c].list \in Nat
    BY <2>1, SMT DEF ShowInv, AnswersCover, WatchInv, WatchTypes
  <2>3. {x \in reveals : x <= g} \in SUBSET Nat
    BY DEF ShowInv, WatchInv, WatchTypes
  <2>4. new \in WatcherRecords
    BY <2>2, <2>3, ArmedRecord, Zenon
  <2>5. /\ new.at = "armed" /\ new.have = g /\ new.named = 0 /\ new.view = result[c].list
        /\ new.got = {x \in reveals : x <= g}
    BY Zenon DEF Fresh
  <2> HIDE DEF new
  <2>6. Shows(new)
    BY <1>2, <2>2, <2>5, SMT DEF Shows
  <2> QED BY <1>7, <2>1, <2>4, <2>6, OneShows
<1>9. CASE Listed(k)
  <2> DEFINE c == r.call
             new == [r EXCEPT !.at = "listed", !.call = NoCall, !.list = result[c].list]
  <2>1. /\ c \in Calls /\ Quiet /\ r.at = "asked"
        /\ w' = [w EXCEPT ![k] = IF caller[c] # "ok" THEN Reconnecting(k) ELSE new]
    BY <1>9, WaitedFor DEF Listed, Step, Only, parkedVars, callVars, threadVars
  <2>2. result[c].list \in Nat
    BY <2>1, SMT DEF ShowInv, WatchInv, WatchTypes
  <2>3. new \in WatcherRecords
    BY <1>1, <2>2, ListedRecord, Zenon DEF Places
  <2>4. /\ new.at = "listed" /\ new.have = r.have /\ new.named = r.named /\ new.view = r.view
        /\ new.got = r.got /\ new.list = result[c].list
    BY <1>1, Zenon DEF WatcherRecords
  <2>5. caller[c] = "ok" => announced[r.named] <= result[c].list
    BY <1>1, <2>1, Zenon DEF ShowInv, OkCallsRan, Shows
  <2> HIDE DEF new
  <2>6. caller[c] = "ok" => Shows(new)
    BY <1>1, <2>1, <2>4, <2>5, SMT DEF Shows
  <2> QED BY <1>7, <2>1, <2>3, <2>6, OneShows
<1>10. CASE Answer(k)
  <2> DEFINE seen == (r.got \cap reveals) \cup RevealsSince(k)
             new == [Fresh EXCEPT !.at = "armed", !.have = r.named, !.view = r.list, !.got = seen]
  <2>1. Quiet /\ r.at = "listed" /\ w' = [w EXCEPT ![k] = new]
    BY <1>10 DEF Answer, Answered, Step, Only, parkedVars, callVars, threadVars
  <2>2. seen \in SUBSET Nat
    BY DEF ShowInv, WatchInv, WatchTypes, RevealsSince
  <2>3. new \in WatcherRecords
    BY <1>2, <2>2, ArmedRecord, Zenon
  <2>4. /\ new.at = "armed" /\ new.have = r.named /\ new.named = 0 /\ new.view = r.list
        /\ new.got = seen
    BY Zenon DEF Fresh
  <2>5. \A x \in reveals : x \in seen
    <3>1. \A x \in reveals : x \in Nat /\ (x <= r.have => x \in r.got)
      BY <1>1, <2>1, SMT DEF Shows, ShowInv, WatchInv, WatchTypes
    <3>2. \A x \in reveals : x <= r.have \/ x > r.have
      BY <1>2, <3>1, SMT
    <3> QED BY <3>1, <3>2, Zenon DEF RevealsSince
  <2> HIDE DEF new, seen
  <2>6. Shows(new)
    BY <1>1, <1>2, <2>1, <2>4, <2>5, SMT DEF Shows
  <2> QED BY <2>1, <2>3, <2>6, OneShows
<1>11. CASE Lose(k)
  <2>1. /\ w' = [w EXCEPT ![k] = Reconnecting(k)] /\ UNCHANGED genVars
        /\ UNCHANGED <<caller, ran, op, result>>
    BY <1>11 DEF Lose, callVars, threadVars
  <2> QED BY <1>7, <2>1, OneShows
<1> QED BY <1>4, <1>5, <1>6, <1>8, <1>9, <1>10, <1>11, AskShows DEF Watching

LEMMA ShowInvStep ==
  ASSUME ShowInv, [Next]_vars PROVE ShowInv'
<1>1. WatchInv'
  BY WatchInvStep DEF ShowInv
<1>2. QueueStep
  BY NextIsQueueStep
<1>3. QueueInv' /\ OkCallsRan'
  BY <1>2, QueueInvStep, OkCallsRanStep DEF ShowInv
<1>4. CASE UNCHANGED vars
  <2>1. UNCHANGED <<genVars, w, result, caller, ran, op>>
    BY <1>4 DEF vars, watchVars, parkedVars, callVars, threadVars
  <2>2. ShownWell'
    BY <2>1, QuietHistory, HistoryShows
  <2> QED BY <1>1, <1>3, <2>1, <2>2 DEF ShowInv, ShownWell, OpTypes
<1>5. CASE Next
  <2>1. ShownWell'
    BY <1>1, <1>5, EventThreadShows, CallersShow, WatchingShows DEF Next
  <2>2. OpTypes'
    <3>1. ASSUME NEW c \in Calls, NEW v \in Verbs, op' = [op EXCEPT ![c] = v] PROVE OpTypes'
      BY <3>1, SMT DEF ShowInv, OpTypes
    <3>2. CASE UNCHANGED op
      BY <3>2, Zenon DEF ShowInv, OpTypes
    <3>3. CASE EventThread
      BY <3>2, <3>3, Zenon DEF EventThread, Work, Type, Tick, Quit, Stir, Execute, FinishDrain,
                               watchVars
    <3>4. ASSUME NEW c \in Calls, Caller(c) \/ Release(c) \/ \E v \in {"edit", "reveal"} : Send(c, v)
          PROVE  OpTypes'
      BY <3>1, <3>2, <3>4 DEF Caller, Release, Send, Verbs, watchVars
    <3>5. ASSUME NEW k \in Watchers, Watching(k) \/ Lose(k) PROVE OpTypes'
      <4>1. CASE Resync(k) \/ Ask(k)
        BY <3>1, <4>1 DEF Resync, Ask, AskBuffers, Verbs
      <4>2. CASE ~(Resync(k) \/ Ask(k))
        BY <3>2, <3>5, <4>2, Zenon DEF Watching, Lose, Resynced, Register, Compare, Woken,
                                       NameGen, Listed, Answer, Only
      <4> QED BY <4>1, <4>2
    <3> QED BY <1>5, <3>3, <3>4, <3>5 DEF Next
  <2> QED BY <1>1, <1>3, <2>1, <2>2 DEF ShowInv, ShownWell
<1> QED BY <1>4, <1>5

\* A client that holds a generation shows every change it announced, for any number
\* of clients, requests, edits, reveals and lost connections: the list of an answer
\* is asked for after the generation is read (connection.watch), and a resync's list
\* comes with the counter of the event it was made in (drainControl).
THEOREM ViewsCoverTheirGeneration == Spec => []ViewCoversGen
<1>1. Init => ShowInv
  BY ShowInvInit
<1>2. ShowInv /\ [Next]_vars => ShowInv'
  BY ShowInvStep
<1>3. ShowInv => ViewCoversGen
  <2> SUFFICES ASSUME ShowInv, NEW k \in Watchers, Attached(k)
               PROVE  w[k].view >= announced[w[k].have]
    BY DEF ViewCoversGen
  <2>1. Shows(w[k]) /\ w[k].view \in Nat
    BY SMT DEF ShowInv, AllShow, WatchInv, WatchTypes, WatcherRecords
  <2>2. announced[w[k].have] <= w[k].view /\ announced[w[k].have] \in Nat
    BY <2>1, SMT DEF Shows, Attached, ShowInv, Generations
  <2> QED BY <2>1, <2>2, SMT
<1> QED BY <1>1, <1>2, <1>3, PTL DEF Spec

\* Every reveal the server keeps, up to the generation a client holds, has been
\* delivered to it, however few reveals are kept (Server.revealsSince: asked for by
\* the generation the request named, which is the one the last answer gave).
THEOREM RevealsArrive == Spec => []KeptRevealsArrive
<1>1. Init => ShowInv
  BY ShowInvInit
<1>2. ShowInv /\ [Next]_vars => ShowInv'
  BY ShowInvStep
<1>3. ShowInv => KeptRevealsArrive
  BY Zenon DEF ShowInv, AllShow, Shows, KeptRevealsArrive, Attached
<1> QED BY <1>1, <1>2, <1>3, PTL DEF Spec
=============================================================================
