--------------------------- MODULE LanguageServer ---------------------------
(***************************************************************************)
(* One file, its language server, and the requests between them.  The      *)
(* event thread edits the buffer, tells the server what it contains, asks  *)
(* for code lenses and formatting, and defers a save until the server has  *)
(* answered it; a goroutine per request waits for the answer and parks it; *)
(* another starts the server.  Answers are about the text the server held  *)
(* when the request reached it, and are accepted by version numbers.       *)
(*                                                                         *)
(* A text is one of a few values.  A request's generation is compared with *)
(* the newest one only, so it is a flag: fresh, until the next request of  *)
(* its kind.  Requests alike in everything are one.  told, holds, memo,    *)
(* lenses, slot, saveSlot, write and prompt hold at most one element.      *)
(***************************************************************************)
EXTENDS Naturals, FiniteSetsExt

CONSTANTS
    Texts,        \* what the buffer and the file may contain
    Opened,       \* those the file contains when it is opened
    MaxRestarts,  \* failed handshakes in a row before the editor gives up
    MaxAsks,      \* bound: requests in flight
    MaxSaves,     \* bound: save gestures
    MaxVersion,   \* bound: edits of one session
    MaxUpsets     \* bound: gestures beside edits and saves, proposals, outside writes, crashes

ASSUME LanguageBounds == {MaxRestarts, MaxAsks, MaxSaves, MaxVersion, MaxUpsets} \subseteq Nat
ASSUME TextsAssumption == Opened # {} /\ Opened \subseteq Texts

VARIABLES
    open, tab,        \* the file has a tab; which one, counted
    text, version,    \* the buffer and its session's version
    reloads,          \* history: sessions replaced by a reload
    saved,            \* the text last read or written
    disk, stamp,      \* the file, and whether another program wrote it since
    pending,          \* some change set awaits a decision
    confirm,          \* a save with proposals asks: save_confirm, and room to draw it
    conn, up,         \* Server.conn, counted; not Closed
    starting,         \* langServer.starting: how far the start goroutine is
    failures, resting,\* Server.failures; nextTry lies ahead
    sync,             \* the connection langServer.sync tracks, 0 before the first
    told,             \* Sync.open: the version and text last told
    holds,            \* the server process: its copy of the document
    asks,             \* request goroutines
    slot, saveSlot,   \* lspAnswer, saveAnswer
    wake,             \* a Wake event is queued
    memo, lenses,     \* lensReq; the lenses on screen
    write,            \* pendingWrite
    prompt,           \* the open question
    thread,           \* what the event thread does next
    asked, reported,  \* history: save gestures, and outcomes they were told
    replaced,         \* history: gestures whose question another one replaced
    upsets            \* bound: upsets so far

docVars == <<open, tab, text, version, reloads, saved, disk, stamp, pending>>
srvVars == <<conn, up, starting, failures, resting>>
syncVars == <<sync, told, holds>>
askVars == <<asks, slot, memo>>
saveVars == <<saveSlot, write, prompt, asked, reported, replaced>>
vars == <<docVars, confirm, srvVars, syncVars, askVars, lenses, saveVars, wake, thread, upsets>>

Init ==
    /\ open = TRUE /\ tab = 0 /\ version = 0 /\ reloads = 0
    /\ text \in Opened /\ saved = text /\ disk = text /\ stamp = "known" /\ pending = FALSE
    /\ confirm \in BOOLEAN
    /\ conn = 0 /\ up = FALSE /\ starting = "no" /\ failures = 0 /\ resting = FALSE
    /\ sync = 0 /\ told = {} /\ holds = {}
    /\ asks = {} /\ slot = {} /\ memo = {} /\ lenses = {}
    /\ saveSlot = {} /\ write = {} /\ prompt = {} /\ asked = 0 /\ reported = 0 /\ replaced = 0
    /\ wake = FALSE /\ thread = "idle" /\ upsets = 0

Upset == upsets < MaxUpsets /\ upsets' = upsets + 1

-----------------------------------------------------------------------------
(* What the server knows.                                                  *)

Now == [version |-> version, text |-> text]
Initialised == up /\ sync = conn

\* servers.live, servers.for_.
Live == sync # 0 /\ up
NeedsStart == ~Live /\ starting = "no" /\ failures < MaxRestarts /\ ~up /\ ~resting

\* App.syncDoc: recorded as told even when the notification fails.
SyncedOk == Initialised \/ told = {Now}

\* Mutant: a document is opened and never changed.
SyncDocOnce ==
    /\ told' = (IF told = {} THEN {Now} ELSE told)
    /\ holds' = (IF told = {} /\ Initialised THEN {text} ELSE holds)
    /\ UNCHANGED sync

SyncDoc ==
    /\ told' = {Now}
    /\ holds' = (IF Initialised THEN {text} ELSE holds)
    /\ UNCHANGED sync

NeedsSync == \/ told = {} /\ text # saved
             \/ \E t \in told : t.version # version

-----------------------------------------------------------------------------
(* The server process and the goroutine that starts it.                    *)

SrvOnly == UNCHANGED <<docVars, confirm, asks, slot, memo, lenses, saveVars, wake, thread>>

Launch ==
    /\ starting = "asked" /\ starting' = "handshake"
    /\ conn' = conn + 1 /\ up' = TRUE /\ holds' = {}
    /\ SrvOnly /\ UNCHANGED <<failures, resting, sync, told, upsets>>

\* Mutant: the new connection inherits what the old one was told.
HandshakeKeeps ==
    /\ starting = "handshake" /\ starting' = "no"
    /\ failures' = 0 /\ resting' = FALSE
    /\ sync' = conn
    /\ SrvOnly /\ UNCHANGED <<conn, up, told, holds, upsets>>

Handshake ==
    /\ starting = "handshake" /\ starting' = "no"
    /\ failures' = 0 /\ resting' = FALSE
    /\ sync' = conn /\ told' = {}
    /\ SrvOnly /\ UNCHANGED <<conn, up, holds, upsets>>

HandshakeFails ==
    /\ starting = "handshake" /\ starting' = "no" /\ Upset
    /\ up' = FALSE /\ failures' = failures + 1 /\ resting' = TRUE
    /\ SrvOnly /\ UNCHANGED <<conn, syncVars>>

\* The process ends; Conn.fail releases everyone waiting on it and wakes the loop.
Crash ==
    /\ Initialised /\ Upset
    /\ up' = FALSE /\ holds' = {} /\ wake' = TRUE
    /\ UNCHANGED <<docVars, confirm, conn, starting, failures, resting, sync, told, askVars,
                   lenses, saveVars, thread>>

Rested ==
    /\ resting /\ resting' = FALSE
    /\ SrvOnly /\ UNCHANGED <<conn, up, starting, failures, syncVars, upsets>>

Starter == Launch \/ Handshake

-----------------------------------------------------------------------------
(* Requests.                                                               *)

\* A newer request of its kind drops an answer (lensGen, lspGen, saveGen); the
\* rest of a dropped one is forgotten.
Superseded(kind, S) ==
    {IF a.kind = kind THEN [a EXCEPT !.fresh = FALSE, !.version = 0, !.tab = 0, !.reloads = 0]
                      ELSE a : a \in S}

Request(kind) == [kind |-> kind, fresh |-> TRUE, at |-> "spawned", conn |-> conn, on |-> {},
                  version |-> version, tab |-> tab, reloads |-> reloads]

Ask(kind) == asks' = Superseded(kind, asks) \cup {Request(kind)}

Goroutine == UNCHANGED <<docVars, confirm, srvVars, syncVars, memo, lenses, write, prompt, asked,
                         reported, replaced, thread, upsets>>

\* The request is written and the server reads it after all that was written
\* before.  A dead connection and a server not yet initialised give an error.  A
\* server that holds no copy of the document is external and taken to give one too;
\* it may answer from the file instead (Sync.IsOpen), about a text of its own: when
\* it can be asked is AskedAfterHandshake.
Reach(a) ==
    /\ a.at = "spawned"
    /\ asks' = (asks \ {a}) \cup
         {[a EXCEPT !.at = "asked", !.conn = 0,
                    !.on = IF a.conn = conn /\ Initialised THEN holds ELSE {}]}
    /\ Goroutine /\ UNCHANGED <<slot, saveSlot, wake>>

\* App.park.
ParkAnswer(a, ans) == slot' = {ans} /\ wake' = TRUE /\ asks' = asks \ {a} /\ UNCHANGED saveSlot

\* Mutant: a failed request parks nothing.
ReturnsAnswersOnly(a, ans) ==
    \/ ans.on = {} /\ asks' = asks \ {a} /\ UNCHANGED <<slot, saveSlot, wake>>
    \/ /\ ans.on # {} /\ a.kind = "save"
       /\ saveSlot' = {ans} /\ asks' = (asks \ {a}) \cup {[a EXCEPT !.at = "parked"]}
       /\ UNCHANGED <<slot, wake>>
    \/ a.kind # "save" /\ ans.on # {} /\ ParkAnswer(a, ans)

\* What a goroutine does with its answer, whose on is empty if the request failed.
Returns(a, ans) ==
    \/ /\ a.kind = "save"
       /\ saveSlot' = {ans} /\ asks' = (asks \ {a}) \cup {[a EXCEPT !.at = "parked"]}
       /\ UNCHANGED <<slot, wake>>
    \/ a.kind = "lens" /\ ParkAnswer(a, ans)
    \/ a.kind = "format" /\ ans.on # {} /\ ParkAnswer(a, ans)
    \/ a.kind = "format" /\ ans.on = {} /\ asks' = asks \ {a} /\ UNCHANGED <<slot, saveSlot, wake>>

\* An answer, an error, a lost connection or the deadline.
Return(a) ==
    /\ a.at = "asked"
    /\ \E on \in {a.on, {}} : Returns(a, [a EXCEPT !.at = "parked", !.on = on])
    /\ Goroutine

PostWake(a) ==
    /\ a.at = "parked" /\ asks' = asks \ {a} /\ wake' = TRUE
    /\ Goroutine /\ UNCHANGED <<slot, saveSlot>>

Waiting(kind) == \E a \in asks : a.kind = kind /\ (Reach(a) \/ Return(a) \/ PostWake(a))

-----------------------------------------------------------------------------
(* Saving.                                                                 *)

Waits(S) == MapThenSumSet(LAMBDA w : w.thens, S)

\* A question replaces the one on screen and, with it, its continuation.
Prompt(kind, thens, onScreen) ==
    /\ prompt' = {[kind |-> kind, thens |-> thens, listed |-> pending]}
    /\ replaced' = replaced + Waits(onScreen)

\* App.finishWrite, of the text the buffer has by then: written, refused, or
\* put to the user because another program wrote the file.
FinishWrite(thens, force, onScreen) ==
    \/ /\ stamp = "known" \/ force
       /\ disk' = text' /\ saved' = text' /\ stamp' = "known" /\ pending' = FALSE
       /\ reported' = reported + thens /\ prompt' = onScreen
       /\ UNCHANGED replaced
    \/ /\ stamp = "known" \/ force
       /\ reported' = reported + thens /\ prompt' = onScreen
       /\ pending' \in {pending, FALSE}   \* writeAtomic fails after the acceptance
       /\ UNCHANGED <<disk, saved, stamp, replaced>>
    \/ /\ stamp # "known" /\ ~force
       /\ Prompt("conflict", thens, onScreen)
       /\ UNCHANGED <<disk, saved, stamp, pending, reported>>

\* App.beginWillSave: the write waits for the server's edits.
Defer(thens, force) ==
    /\ Live /\ ~pending /\ SyncedOk /\ SyncDoc
    /\ write' = {[tab |-> tab, version |-> version, thens |-> thens, force |-> force]}
    /\ Ask("save") /\ prompt' = {}
    /\ UNCHANGED <<disk, saved, stamp, pending, reported, replaced>>

\* Mutant: the callers of the superseded save are forgotten.
WriteAlone(thens, force) ==
    /\ UNCHANGED <<open, tab, text, version, reloads>>
    /\ saveSlot' = Superseded("save", saveSlot)
    /\ \/ Defer(thens, force)
       \/ /\ write' = {} /\ asks' = Superseded("save", asks)
          /\ \/ Live /\ ~pending /\ ~SyncedOk /\ SyncDoc
             \/ (~Live \/ pending) /\ UNCHANGED syncVars
          /\ FinishWrite(thens, force, {})

\* App.write, once no question is open.  A save of the same tab that waits is
\* superseded and its callers wait on this one; a write of another tab keeps
\* the only place to wait.
Write(thens, force) ==
    LET mine == {w \in write : w.tab = tab}
        all == thens + Waits(mine)
    IN  /\ UNCHANGED <<open, tab, text, version, reloads>>
        /\ \/ /\ write # mine
              /\ FinishWrite(thens, force, {})
              /\ UNCHANGED <<write, asks, saveSlot, syncVars>>
           \/ /\ write = mine /\ saveSlot' = Superseded("save", saveSlot)
              /\ \/ Defer(all, force)
                 \/ /\ write' = {} /\ asks' = Superseded("save", asks)
                    /\ \/ Live /\ ~pending /\ ~SyncedOk /\ SyncDoc
                       \/ (~Live \/ pending) /\ UNCHANGED syncVars
                    /\ FinishWrite(all, force, {})

-----------------------------------------------------------------------------
(* The event thread: what the user, an agent and other programs do.        *)

\* Every event is followed by a draw, which matters to lenses only.
Ends == thread' = (IF lenses' = {} THEN "idle" ELSE "draw")
Idle == thread = "idle"
Free == Idle /\ prompt = {}
Room == Cardinality(asks) < MaxAsks

NewText == version < MaxVersion /\ version' = version + 1 /\ text' \in Texts \ {text}

Type ==
    /\ Free /\ open /\ NewText
    /\ UNCHANGED <<open, tab, reloads, saved, disk, stamp, pending, confirm, srvVars, syncVars,
                   askVars, lenses, saveVars, wake, upsets>>
    /\ Ends

\* An agent's diff, drained like any event while a question is open.
Propose ==
    /\ Idle /\ open /\ Upset /\ NewText /\ pending' = TRUE
    /\ UNCHANGED <<open, tab, reloads, saved, disk, stamp, confirm, srvVars, syncVars, askVars,
                   lenses, saveVars, wake>>
    /\ Ends

Accept ==
    /\ Free /\ open /\ pending /\ pending' = FALSE
    /\ UNCHANGED <<open, tab, text, version, reloads, saved, disk, stamp, confirm, srvVars,
                   syncVars, askVars, lenses, saveVars, wake, upsets>>
    /\ Ends

\* Another program writes the file.
Outside ==
    /\ Upset /\ disk' \in Texts \ {disk}
    /\ stamp' = (IF stamp = "known" THEN "changed" ELSE stamp)
    /\ UNCHANGED <<open, tab, text, version, reloads, saved, pending, confirm, srvVars, syncVars,
                   askVars, lenses, saveVars, wake, thread>>

\* App.closeDoc and Tabs.CloseIndex, unsaved work saved before or discarded.
CloseTab ==
    /\ Free /\ open /\ Upset /\ open' = FALSE
    /\ told' = {} /\ holds' = (IF Initialised THEN {} ELSE holds)
    /\ memo' = {} /\ lenses' = {}
    /\ asks' = (IF memo = {} THEN asks ELSE Superseded("lens", asks))
    /\ slot' = (IF memo = {} THEN slot ELSE Superseded("lens", slot))
    /\ UNCHANGED <<tab, text, version, reloads, saved, disk, stamp, pending, confirm, srvVars, sync,
                   saveVars, wake>>
    /\ Ends

Reopen ==
    /\ Free /\ ~open
    /\ open' = TRUE /\ tab' = tab + 1
    /\ text' = disk /\ saved' = disk /\ version' = 0 /\ stamp' = "known" /\ pending' = FALSE
    /\ UNCHANGED <<reloads, disk, confirm, srvVars, syncVars, askVars, lenses, saveVars, wake,
                   upsets>>
    /\ Ends

\* App.requestFormat.
Format ==
    /\ Free /\ open /\ Room /\ Upset
    /\ \/ /\ Live /\ SyncedOk /\ SyncDoc /\ Ask("format")
          /\ slot' = Superseded("format", slot) /\ UNCHANGED starting
       \/ Live /\ ~SyncedOk /\ SyncDoc /\ UNCHANGED <<asks, slot, starting>>
       \/ NeedsStart /\ starting' = "asked" /\ UNCHANGED <<asks, slot, syncVars>>
    /\ UNCHANGED <<docVars, confirm, conn, up, failures, resting, memo, lenses, saveVars, wake>>
    /\ Ends

\* App.applySetting, or a screen that shrinks or grows, also while a question
\* is open.  The draw that follows finds the lenses as the last one left them.
SetConfirm ==
    /\ Idle /\ confirm' = ~confirm
    /\ UNCHANGED <<docVars, srvVars, syncVars, askVars, lenses, saveVars, wake, thread, upsets>>

\* App.savePane: proposals are shown first, if the user wants them shown and
\* the screen has room; otherwise they are written and accepted.
Save ==
    /\ Free /\ open /\ Room /\ asked < MaxSaves /\ asked' = asked + 1
    /\ \/ /\ pending /\ confirm /\ Prompt("review", 1, {})
          /\ UNCHANGED <<docVars, syncVars, asks, saveSlot, write, reported>>
       \/ (~pending \/ ~confirm) /\ Write(1, FALSE)
    /\ UNCHANGED <<confirm, srvVars, slot, memo, lenses, wake, upsets>>
    /\ Ends

\* Pane.Reload: a new session of what the file contains.
Reload ==
    /\ text' = disk /\ saved' = disk /\ version' = 0 /\ reloads' = reloads + 1
    /\ stamp' = "known" /\ pending' = FALSE
    /\ UNCHANGED <<open, tab, disk>>

\* The answer to the open question: cancelled, saved anyway or over the other
\* program's bytes, or reloaded.
Answer ==
    /\ Idle /\ Room
    /\ \E p \in prompt :
         \/ /\ prompt' = {} /\ reported' = reported + p.thens
            /\ UNCHANGED <<docVars, syncVars, asks, saveSlot, write, replaced>>
         \/ Write(p.thens, p.kind = "conflict")
         \/ /\ p.kind = "conflict" /\ Reload
            /\ prompt' = {} /\ reported' = reported + p.thens
            /\ UNCHANGED <<syncVars, asks, saveSlot, write, replaced>>
    /\ UNCHANGED <<confirm, srvVars, slot, memo, lenses, asked, wake, upsets>>
    /\ Ends

User == Type \/ Propose \/ Accept \/ CloseTab \/ Reopen \/ Format \/ SetConfirm \/ Save \/ Answer

-----------------------------------------------------------------------------
(* The event thread: wakes, ticks, and the draw after every event.         *)

\* App.installTextEdits, when the version is the one asked about; nothing
\* when the server had no edits or a change set owns the text.
Install(ans) ==
    \/ ans.on # {} /\ ans.version = version /\ NewText
    \/ UNCHANGED <<text, version>>

\* Mutant: a change set that arrived in the meantime is written as well.
ResumeRegardless(w, ans) ==
    /\ Install(ans) /\ FinishWrite(w.thens, w.force, prompt)
    /\ UNCHANGED <<open, tab, reloads>>

\* App.resumeSave: dropped with its tab, handed to savePane when a change set
\* arrived, and finished otherwise.
Resume(w, ans) ==
    \/ /\ ~open \/ w.tab # tab
       /\ reported' = reported + w.thens
       /\ UNCHANGED <<docVars, prompt, replaced>>
    \/ /\ open /\ w.tab = tab /\ pending /\ confirm
       /\ Prompt("review", w.thens, prompt)
       /\ UNCHANGED <<docVars, reported>>
    \/ /\ open /\ w.tab = tab /\ pending /\ ~confirm
       /\ UNCHANGED <<open, tab, text, version, reloads>>
       /\ FinishWrite(w.thens, FALSE, prompt)
    \/ /\ open /\ w.tab = tab /\ ~pending
       /\ Install(ans) /\ FinishWrite(w.thens, w.force, prompt)
       /\ UNCHANGED <<open, tab, reloads>>

Wake ==
    /\ Idle /\ wake /\ wake' = FALSE /\ thread' = "answers"
    /\ saveSlot' = {}
    /\ \/ /\ \A w \in write, ans \in saveSlot : ~ans.fresh
          /\ UNCHANGED <<docVars, write, prompt, reported, replaced>>
       \/ \E w \in write, ans \in saveSlot : ans.fresh /\ write' = {} /\ Resume(w, ans)
    /\ UNCHANGED <<confirm, srvVars, syncVars, askVars, lenses, asked, upsets>>

\* App.applyAnswer.
Accepts(ans) == ans.fresh /\ open /\ ans.version = version

Answers ==
    /\ thread = "answers" /\ slot' = {}
    /\ \/ \E ans \in slot :
            /\ Accepts(ans) /\ ans.kind = "lens"
            /\ lenses' = (IF ans.on = {} THEN {}
                          ELSE {[version |-> version, reloads |-> ans.reloads, on |-> ans.on]})
            /\ UNCHANGED <<text, version>>
       \/ \E ans \in slot :
            Accepts(ans) /\ ans.kind = "format" /\ Install(ans) /\ UNCHANGED lenses
       \/ (\A ans \in slot : ~Accepts(ans)) /\ UNCHANGED <<text, version, lenses>>
    /\ UNCHANGED <<open, tab, reloads, saved, disk, stamp, pending, confirm, srvVars, syncVars,
                   asks, memo, saveVars, wake, upsets>>
    /\ Ends

\* App.diskCheck, first of the tick's chores.
Tick ==
    /\ Idle /\ Room /\ thread' = "sync"
    /\ \/ open /\ stamp = "changed" /\ text = saved /\ Reload
       \/ /\ open /\ stamp = "changed" /\ text # saved /\ stamp' = "marked"
          /\ UNCHANGED <<open, tab, text, version, reloads, saved, disk, pending>>
       \/ (~open \/ stamp # "changed") /\ UNCHANGED docVars
    /\ UNCHANGED <<confirm, srvVars, syncVars, askVars, lenses, saveVars, wake, upsets>>

SyncDirtyDocs ==
    /\ thread = "sync" /\ thread' = "lenses"
    /\ \/ open /\ Live /\ NeedsSync /\ SyncDoc
       \/ ~(open /\ Live /\ NeedsSync) /\ UNCHANGED syncVars
    /\ UNCHANGED <<docVars, confirm, srvVars, askVars, lenses, saveVars, wake, upsets>>

RequestLenses ==
    LET wanted == open /\ memo # {version}
    IN  /\ thread = "lenses"
        /\ \/ /\ wanted /\ Live /\ SyncedOk /\ SyncDoc
              /\ memo' = {version} /\ Ask("lens") /\ slot' = Superseded("lens", slot)
              /\ UNCHANGED starting
           \/ wanted /\ Live /\ ~SyncedOk /\ SyncDoc /\ UNCHANGED <<askVars, starting>>
           \/ wanted /\ NeedsStart /\ starting' = "asked" /\ UNCHANGED <<askVars, syncVars>>
           \/ ~(wanted /\ (Live \/ NeedsStart)) /\ UNCHANGED <<askVars, syncVars, starting>>
        /\ UNCHANGED <<docVars, confirm, conn, up, failures, resting, lenses, saveVars, wake,
                       upsets>>
        /\ Ends

\* App.invalidateLenses.
Draw ==
    LET moved == open /\ \E l \in lenses : l.version # version
    IN  /\ thread = "draw" /\ thread' = "idle"
        /\ \/ /\ moved /\ lenses' = {}
              /\ asks' = Superseded("lens", asks) /\ slot' = Superseded("lens", slot)
           \/ ~moved /\ UNCHANGED <<lenses, asks, slot>>
        /\ UNCHANGED <<docVars, confirm, srvVars, syncVars, memo, saveVars, wake, upsets>>

EventThread == Answers \/ SyncDirtyDocs \/ RequestLenses \/ Draw

Next ==
    \/ User \/ Outside \/ Wake \/ Tick \/ EventThread
    \/ Starter \/ HandshakeFails \/ Crash \/ Rested
    \/ \E kind \in {"lens", "format", "save"} : Waiting(kind)

Spec == Init /\ [][Next]_vars

\* Events are handled in the order they were posted, so a wake and a tick get
\* their turn; goroutines run, requests end by their deadlines, and the start
\* of a server by its own.
Fairness ==
    /\ SF_vars(Wake) /\ WF_vars(Tick) /\ WF_vars(EventThread)
    /\ WF_vars(Launch) /\ WF_vars(Handshake \/ HandshakeFails) /\ WF_vars(Rested)
    /\ \A kind \in {"lens", "format", "save"} : WF_vars(Waiting(kind))

FairSpec == Spec /\ Fairness
=============================================================================
