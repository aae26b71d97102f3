------------------------------- MODULE Watch --------------------------------
(***************************************************************************)
(* Attached clients follow the editor through watch requests: a watch      *)
(* parks until the generation differs from the one its client has, then    *)
(* asks the event thread for the buffer list (through ParkedRequests) and  *)
(* answers with the list, a generation and the reveals published since.    *)
(*                                                                         *)
(* A watcher is one attached client together with the server goroutine     *)
(* that handles its watch: at says where the two are.  The buffer list is  *)
(* abstracted to the number of changes it reflects.                        *)
(***************************************************************************)
EXTENDS ParkedRequests, FiniteSetsExt

CONSTANTS
    Watchers,       \* attached clients
    NoCall,         \* no request
    RevealHistory,  \* reveals the server keeps
    MaxChanges      \* bound: changes and reveals

ASSUME WatchBounds == RevealHistory \in Nat \ {0} /\ MaxChanges \in Nat
ASSUME NoCallAssumption == NoCall \notin Calls

VARIABLES
    content,     \* the changes made to the review surface so far
    shown,       \* controlHash: the changes the last controlTick saw
    controlGen,  \* the app's generation counter
    gen,         \* the server's generation
    reveals,     \* Server.reveals, each named by the generation it was posted at
    op,          \* per request, its verb
    result,      \* per request, the list and the generation its answer carries
    w,           \* per watcher, the locals of its loop
    announced    \* history: per generation, the changes announced by then

genVars == <<content, shown, controlGen, gen, reveals, announced>>
watchVars == <<genVars, op, result, w>>
vars == <<parkedVars, watchVars>>

Verbs == {"buffers", "edit", "reveal"}

\* Places where the server goroutine has its channel in Server.watchers.
Listening == {"registered", "parked"}
Places == Listening \cup {"away", "resync", "armed", "moved", "named", "asked", "listed"}

Fresh == [at |-> "away", call |-> NoCall, named |-> 0, list |-> 0, signal |-> FALSE,
          have |-> 0, view |-> 0, got |-> {}]

Init ==
    /\ ParkedInit
    /\ content = 0 /\ shown = 0 /\ controlGen = 0 /\ gen = 0
    /\ reveals = {}
    /\ announced = [g \in {0} |-> 0]
    /\ op = [c \in Calls |-> "buffers"]
    /\ result = [c \in Calls |-> [list |-> 0, gen |-> 0]]
    /\ w = [k \in Watchers |-> Fresh]

-----------------------------------------------------------------------------
(* Generations.                                                            *)

\* A non-blocking send on every registered channel.
SignalAll == [k \in Watchers |->
                 IF w[k].at \in Listening THEN [w[k] EXCEPT !.signal = TRUE] ELSE w[k]]

\* Server.BumpGen, called with the app's counter.
BumpGen(g) ==
    IF g = gen THEN UNCHANGED <<gen, w>>
    ELSE gen' = g /\ w' = SignalAll

\* Generation g announces the first n changes.
Announce(g, n) == announced' = [h \in 0 .. g |-> IF h = g THEN n ELSE announced[h]]

\* App.controlTick: one generation for all that changed since the last one.
ControlTick ==
    IF content = shown THEN UNCHANGED <<genVars, w>>
    ELSE /\ shown' = content
         /\ controlGen' = controlGen + 1
         /\ BumpGen(controlGen + 1)
         /\ Announce(controlGen + 1, content)
         /\ UNCHANGED <<content, reveals>>

\* Server.PublishReveal, whose result the app adopts as its counter.
PublishReveal ==
    /\ gen' = gen + 1 /\ controlGen' = gen + 1
    /\ reveals' = LET all == reveals \cup {gen + 1}
                  IN IF Cardinality(all) > RevealHistory THEN all \ {Min(all)} ELSE all
    /\ w' = SignalAll
    /\ Announce(gen + 1, shown)
    /\ UNCHANGED <<content, shown>>

\* Mutant: reveals are asked for by the generation the answer names.
RevealsSinceNamed(k) == {r \in reveals : r > w[k].named}

\* Server.revealsSince the generation the request named.
RevealsSince(k) == {r \in reveals : r > w[k].have}

Awaited(verbs) == {c \in Calls : caller[c] # "free" /\ op[c] \in verbs /\ c \notin ran}
Published == {g \in 1 .. gen : announced[g] = announced[g - 1]}

\* Bounds the changes: those made, the reveals, and those still on their way.
Room == content + Cardinality(Published) + Cardinality(Awaited({"edit", "reveal"})) < MaxChanges

-----------------------------------------------------------------------------
(* The event thread, with what a dispatched request does.                  *)

Effect(c) ==
    \/ /\ op[c] = "buffers"
       /\ result' = [result EXCEPT ![c] = [list |-> content, gen |-> controlGen]]
       /\ UNCHANGED <<genVars, w>>
    \/ /\ op[c] = "edit" /\ content' = content + 1
       /\ UNCHANGED <<shown, controlGen, gen, reveals, announced, result, w>>
    \/ op[c] = "reveal" /\ PublishReveal /\ UNCHANGED result

Execute(c) == Dispatch(c) /\ Effect(c) /\ UNCHANGED <<op>>

FinishDrain == EndDrain /\ ControlTick /\ UNCHANGED <<op, result>>

\* Something typed at the keyboard; a later tick announces it.
Type ==
    /\ thread = "idle" /\ Room
    /\ content' = content + 1
    /\ UNCHANGED <<parkedVars, shown, controlGen, gen, reveals, announced, op, result, w>>

Tick ==
    /\ thread = "idle" /\ content # shown
    /\ ControlTick
    /\ UNCHANGED <<parkedVars, op, result>>

\* What the event loop does next when it is not idle without a wake.
Work == \/ /\ Drain \/ EndDraw \/ Exit \/ \E c \in Calls : Flush(c) \/ FailParked(c)
           /\ UNCHANGED watchVars
        \/ \E c \in Calls : Execute(c)
        \/ FinishDrain

Quit == Close /\ UNCHANGED watchVars
Stir == OtherWake /\ UNCHANGED watchVars

EventThread == Work \/ Type \/ Tick \/ Quit \/ Stir

-----------------------------------------------------------------------------
(* Callers.                                                                *)

\* Some connection sends a verb that changes something.
Send(c, verb) ==
    /\ Room
    /\ Park(c)
    /\ op' = [op EXCEPT ![c] = verb]
    /\ UNCHANGED <<genVars, result, w>>

\* A request object a watcher still waits on is not garbage.
Release(c) == /\ Forget(c) /\ \A k \in Watchers : w[k].call # c
              /\ op' = [op EXCEPT ![c] = "buffers"]
              /\ result' = [result EXCEPT ![c] = [list |-> 0, gen |-> 0]]
              /\ UNCHANGED <<genVars, w>>

Caller(c) == Submitting(c) /\ UNCHANGED watchVars

-----------------------------------------------------------------------------
(* The watcher: App.watchLoop at the client, connection.watch at the       *)
(* server.                                                                 *)

Step(k, from, new) == w[k].at = from /\ w' = [w EXCEPT ![k] = new]
Only(k) == UNCHANGED <<parkedVars, genVars, op, result>>

AskBuffers(k, from, to) ==
    \E c \in Calls :
        /\ Step(k, from, [w[k] EXCEPT !.at = to, !.call = c])
        /\ Park(c)
        /\ op' = [op EXCEPT ![c] = "buffers"]
        /\ UNCHANGED <<genVars, result>>

\* reconnectClient and resyncClient: a list, and the generation it came with.
Resync(k) == AskBuffers(k, "away", "resync")

\* A lost client keeps its screen.
Reconnecting(k) == [Fresh EXCEPT !.view = w[k].view]

Resynced(k) ==
    LET c == w[k].call
        g == result[c].gen
    IN /\ w[k].at = "resync" /\ Returned(c)
       /\ Step(k, "resync", IF caller[c] # "ok" THEN Reconnecting(k)
               ELSE [Fresh EXCEPT !.at = "armed", !.have = g, !.view = result[c].list,
                                   !.got = {r \in reveals : r <= g}])
       /\ Only(k)

\* Mutant: the watcher parks without comparing once it is registered.
RegisterAndPark(k) == Step(k, "armed", [w[k] EXCEPT !.at = "parked", !.signal = FALSE]) /\ Only(k)

Register(k) == Step(k, "armed", [w[k] EXCEPT !.at = "registered", !.signal = FALSE]) /\ Only(k)

Compare(k) ==
    Step(k, "registered", [w[k] EXCEPT !.at = IF gen # w[k].have THEN "moved" ELSE "parked",
                                         !.signal = @ /\ gen = w[k].have])
    /\ Only(k)

Woken(k) == w[k].signal /\ Step(k, "parked", [w[k] EXCEPT !.at = "armed", !.signal = FALSE]) /\ Only(k)

\* What the client makes of an answer that names generation g.  got remembers,
\* of the reveals still kept, those it was given or came too late for.
Answered(k, g) == [Fresh EXCEPT !.at = "armed", !.have = g, !.view = w[k].list,
                                !.got = (w[k].got \cap reveals) \cup RevealsSince(k)]

\* Mutant: the answer names the generation it is sent at.
AnswerNewest(k) ==
    /\ Step(k, "listed", Answered(k, gen))
    /\ Only(k)

NameGen(k) == Step(k, "moved", [w[k] EXCEPT !.at = "named", !.named = gen]) /\ Only(k)

Ask(k) == AskBuffers(k, "named", "asked")

Listed(k) ==
    LET c == w[k].call
    IN /\ w[k].at = "asked" /\ Returned(c)
       /\ Step(k, "asked", IF caller[c] # "ok" THEN Reconnecting(k)
               ELSE [w[k] EXCEPT !.at = "listed", !.call = NoCall, !.list = result[c].list])
       /\ Only(k)

Answer(k) ==
    /\ Step(k, "listed", Answered(k, w[k].named))
    /\ Only(k)

\* The connection dies; the server goroutine is left to end by itself.
Lose(k) ==
    /\ w[k].at # "away" /\ Fault
    /\ w' = [w EXCEPT ![k] = Reconnecting(k)]
    /\ UNCHANGED <<queue, wake, callVars, threadVars, genVars, op, result>>

Watching(k) == \/ Resync(k) \/ Resynced(k) \/ Register(k) \/ Compare(k)
               \/ Woken(k) \/ NameGen(k) \/ Ask(k) \/ Listed(k) \/ Answer(k)

-----------------------------------------------------------------------------
Next ==
    /\ thread # "gone"
    /\ \/ EventThread
       \/ \E c \in Calls : Caller(c) \/ Release(c) \/ \E v \in {"edit", "reveal"} : Send(c, v)
       \/ \E k \in Watchers : Watching(k) \/ Lose(k)

Spec == Init /\ [][Next]_vars

\* The event loop runs while there are events, a shutdown goes through, goroutines
\* run, timers fire, and clients retry.  Nobody has to type, to send, to quit or to lose a connection.
Fairness ==
    /\ WF_vars(Work) /\ WF_vars(Tick)
    /\ \A c \in Calls : WF_vars(Caller(c) \/ Release(c))
    /\ \A k \in Watchers : WF_vars(Watching(k))

FairSpec == Spec /\ Fairness
=============================================================================
