--------------------------- MODULE AttachedClient ---------------------------
(***************************************************************************)
(* An attached client shows a buffer that a daemon owns.  One goroutine    *)
(* follows the daemon and queues snapshots; the event thread installs      *)
(* them, takes keystrokes and notices local edits; a forward loop per      *)
(* edited path sends the edits to the daemon.  The three share the record  *)
(* of what the pane was last synced from.                                  *)
(*                                                                         *)
(* One path.  A text is the set of the insertions it contains, so a hunk   *)
(* is what it adds and what it removes; where in the text it lands is      *)
(* PieceSession's subject.  Generations are those of the buffer, and an    *)
(* answer to a watch is the daemon's state at one moment: Watch shows what *)
(* that takes.                                                             *)
(***************************************************************************)
EXTENDS Naturals, FiniteSets

CONSTANTS
    Mine,       \* what the user of this client may insert
    Theirs,     \* what the daemon's other writers may insert
    Unsaved,    \* what they have inserted since the last save when the client attaches
    Loops,      \* bound: forward goroutines at one time
    Erasable,   \* bound: what the user may delete
    MaxUpsets   \* bound: edits by other writers, saves, lost connections and answers, restarts

ASSUME ClientBounds == /\ Mine \cap Theirs = {} /\ Unsaved \subseteq Theirs /\ IsFiniteSet(Unsaved)
                       /\ MaxUpsets \in Nat

VARIABLES
    text, version,  \* daemon: the buffer and its session's version
    disk,           \* daemon: what was last saved
    link,           \* watch goroutine: following the daemon, or dialling
    heard,          \* watch goroutine: the generation its next watch names
    listed,         \* watch goroutine: the version in the list it is working through, if any
    mark,           \* watch goroutine: vers[path], the version last fetched
    files,          \* clientFiles: the last snapshot queued
    refetch,        \* clientRefetch: the event thread is to fetch the path again
    pane,           \* event thread: the text on screen
    edit,           \* clientEdits[path]
    loop,           \* per forward goroutine, where it is and its locals
    saving,         \* event thread: the same for a save
    typed, erased,  \* history: what the user inserted and deleted
    placed,         \* history: what this client had the daemon insert
    overtaken,      \* history: a save forwarded more than the loop then forwards
    upsets          \* bound: upsets so far

daemonVars == <<text, version, disk>>
watchVars == <<link, heard, listed, mark>>
userVars == <<pane, typed, erased>>
vars == <<daemonVars, watchVars, userVars, placed, files, refetch, edit, loop, saving,
          overtaken, upsets>>

None == [version |-> 0, text |-> {}, queued |-> FALSE]
Snapshot == [version |-> version, text |-> text, queued |-> TRUE]
Synced(s) == [version |-> s.version, synced |-> s.text, pending |-> {},
              dirty |-> FALSE, running |-> FALSE]

\* own: the record is still the one these locals were read from.
Off == [at |-> "off", own |-> FALSE, base |-> 0, synced |-> {}, cur |-> {}, got |-> 0]
From(cur) == [at |-> "sending", own |-> TRUE, base |-> edit.version, synced |-> edit.synced,
              cur |-> cur, got |-> 0]

Init ==
    /\ text = Unsaved /\ version = Cardinality(Unsaved) /\ disk = {}
    /\ link = "up" /\ heard = version /\ listed = {} /\ mark = version
    /\ files = None /\ refetch = FALSE /\ pane = text /\ edit = Synced(Snapshot)
    /\ loop = [l \in Loops |-> Off] /\ saving = Off
    /\ typed = {} /\ erased = {} /\ placed = {} /\ overtaken = FALSE
    /\ upsets = 0

Upset == upsets < MaxUpsets /\ upsets' = upsets + 1
Becomes(new) == text' = new /\ version' = version + 1 /\ UNCHANGED disk

-----------------------------------------------------------------------------
(* The daemon.                                                             *)

OtherEdit ==
    /\ Upset
    /\ \/ \E t \in Theirs \ text : Becomes(text \cup {t})
       \/ \E t \in text : Becomes(text \ {t})
    /\ UNCHANGED <<watchVars, userVars, placed, files, refetch, edit, loop, saving, overtaken>>

\* The daemon comes back with what is on disk, counting versions from zero.
Restart ==
    /\ Upset
    /\ text' = disk /\ version' = 0
    /\ link' = "down" /\ listed' = {}
    /\ UNCHANGED <<disk, heard, mark, userVars, placed, files, refetch, edit, loop, saving,
                   overtaken>>

-----------------------------------------------------------------------------
(* The watch goroutine: watchLoop, syncClient, reconnectClient.            *)

WatchOnly == UNCHANGED <<daemonVars, userVars, placed, refetch, edit, loop, saving, overtaken>>

Answered ==
    /\ link = "up" /\ listed = {} /\ heard # version
    /\ heard' = version /\ listed' = {version}
    /\ WatchOnly /\ UNCHANGED <<link, mark, files, upsets>>

Fetch ==
    /\ listed # {} /\ listed' = {}
    /\ IF {mark} = listed THEN UNCHANGED <<mark, files>>
                        ELSE mark' = version /\ files' = Snapshot
    /\ WatchOnly /\ UNCHANGED <<link, heard, upsets>>

Lose ==
    /\ link = "up" /\ Upset
    /\ link' = "down" /\ listed' = {}
    /\ WatchOnly /\ UNCHANGED <<heard, mark, files>>

\* Mutant: the marks survive a reconnect.
ResyncMarked ==
    /\ link = "down" /\ link' = "up"
    /\ heard' = version
    /\ IF mark = version THEN UNCHANGED <<mark, files>>
                           ELSE mark' = version /\ files' = Snapshot
    /\ WatchOnly /\ UNCHANGED <<listed, upsets>>

\* A new connection empties the marks, so that every owned path is fetched.
Resync ==
    /\ link = "down" /\ link' = "up"
    /\ heard' = version /\ mark' = version /\ files' = Snapshot
    /\ WatchOnly /\ UNCHANGED <<listed, upsets>>

Following == Answered \/ Fetch \/ Resync

-----------------------------------------------------------------------------
(* Forwarding one edit: forwardApply, for a loop or for a save.            *)

Adds(r) == r.cur \ r.synced
Removes(r) == r.synced \ r.cur

\* The daemon rebases the hunk; an empty one is not an edit.
Accept(r) ==
    /\ r.base <= version
    /\ placed' = placed \cup Adds(r)
    /\ IF r.cur = r.synced THEN UNCHANGED daemonVars
                           ELSE Becomes((text \ Removes(r)) \cup Adds(r))

\* warnClientEdit: the user is told, and the path is to be fetched again.
Warn == refetch' = TRUE

\* A hunk may be refused when its base is not the newest version; the answer may
\* be lost when the daemon has applied the hunk, and when it has not.
Forwarded(r, ok, no) ==
    \/ Accept(r) /\ ok /\ UNCHANGED <<refetch, upsets>>
    \/ /\ version # r.base \/ link = "down"
       /\ Warn /\ no /\ UNCHANGED <<daemonVars, placed, upsets>>
    \/ /\ Upset /\ Warn /\ no
       /\ Accept(r) \/ UNCHANGED <<daemonVars, placed>>

\* Mutant: the record is updated whatever happened to it since.
RecordAnyway(r) ==
    edit' = IF r.at = "ok"
            THEN [edit EXCEPT !.version = r.got, !.synced = r.cur, !.dirty = @ /\ edit.pending # r.cur]
            ELSE [edit EXCEPT !.synced = r.cur, !.dirty = FALSE]

\* What a forward makes of the record, unless the record was replaced meanwhile.
Record(r) ==
    edit' = IF ~r.own THEN edit
            ELSE IF r.at = "ok"
            THEN [edit EXCEPT !.version = r.got, !.synced = r.cur, !.dirty = @ /\ edit.pending # r.cur]
            ELSE [edit EXCEPT !.synced = r.cur, !.dirty = FALSE]

-----------------------------------------------------------------------------
(* The forward loop.                                                       *)

LoopOnly == UNCHANGED <<watchVars, userVars, files, saving, overtaken>>
Quiet == UNCHANGED <<daemonVars, placed, refetch, upsets>>

\* Mutant: the loop is marked as ended when its last round starts.
LoopOnce(l) ==
    /\ loop[l].at = "sleep"
    /\ loop' = [loop EXCEPT ![l] = IF edit.dirty THEN From(edit.pending) ELSE Off]
    /\ edit' = [edit EXCEPT !.running = FALSE]
    /\ LoopOnly /\ Quiet

\* Mutant: the loop ends and stays marked as running.
LoopLeavesMark(l) ==
    /\ loop[l].at = "sleep"
    /\ IF edit.dirty THEN loop' = [loop EXCEPT ![l] = From(edit.pending)]
                     ELSE loop' = [loop EXCEPT ![l] = Off]
    /\ LoopOnly /\ Quiet /\ UNCHANGED edit

\* After the debounce: another round, or the end.
LoopTurn(l) ==
    /\ loop[l].at = "sleep"
    /\ IF edit.dirty
       THEN loop' = [loop EXCEPT ![l] = From(edit.pending)] /\ UNCHANGED edit
       ELSE loop' = [loop EXCEPT ![l] = Off] /\ edit' = [edit EXCEPT !.running = FALSE]
    /\ LoopOnly /\ Quiet

LoopSend(l) ==
    /\ loop[l].at = "sending"
    /\ Forwarded(loop[l], loop' = [loop EXCEPT ![l].at = "ok", ![l].got = version'],
                          loop' = [loop EXCEPT ![l].at = "no"])
    /\ LoopOnly /\ UNCHANGED edit

LoopRecord(l) ==
    /\ loop[l].at \in {"ok", "no"}
    /\ Record(loop[l])
    /\ loop' = [loop EXCEPT ![l] = [Off EXCEPT !.at = "sleep"]]
    /\ LoopOnly /\ Quiet

Forwarding(l) == LoopTurn(l) \/ LoopSend(l) \/ LoopRecord(l)

-----------------------------------------------------------------------------
(* The event thread.                                                       *)

Free == saving.at = "off"

\* scanClientEdits, which ends every key press and every idle tick.
Scan(shown) ==
    IF edit.running \/ (shown = edit.synced /\ ~edit.dirty) THEN UNCHANGED <<edit, loop>>
    ELSE \E l \in Loops :
        /\ loop[l].at = "off"
        /\ loop' = [loop EXCEPT ![l] = [Off EXCEPT !.at = "sleep"]]
        /\ edit' = [edit EXCEPT !.pending = shown, !.dirty = TRUE, !.running = TRUE]

KeyOnly == UNCHANGED <<daemonVars, watchVars, placed, files, refetch, saving, overtaken, upsets>>

Type ==
    /\ Free
    /\ \E t \in Mine \ typed : pane' = pane \cup {t} /\ typed' = typed \cup {t}
    /\ Scan(pane') /\ KeyOnly /\ UNCHANGED erased

Erase ==
    /\ Free
    /\ \E t \in (pane \cap Erasable) \ erased : pane' = pane \ {t} /\ erased' = erased \cup {t}
    /\ Scan(pane') /\ KeyOnly /\ UNCHANGED typed

Tick == Free /\ Scan(pane) /\ KeyOnly /\ UNCHANGED userVars

\* applyClientFile: the pane shows the snapshot, and a new record says so.
Install(s) ==
    /\ pane' = s.text /\ edit' = Synced(s)
    /\ loop' = [l \in Loops |-> [loop[l] EXCEPT !.own = FALSE]]

Keep == UNCHANGED <<pane, edit, loop>>

\* Mutant: a pane is replaced whatever happens to its edit.
InstallAlways == TRUE

\* clientEditBusy, which an install of a queued snapshot looks at.
InstallGuard == ~(edit.dirty \/ edit.running)

\* refetchClient: only an edit not yet forwarded keeps the pane.
Refetch == IF edit.dirty THEN Keep ELSE Install(Snapshot)

\* drainClient, on the Wake its producers post: every queued snapshot, then the
\* refetches.  The last one installed is what remains.
Drain ==
    /\ Free
    /\ files.queued \/ refetch
    /\ files' = None /\ refetch' = FALSE
    /\ \/ refetch /\ Refetch
       \/ /\ refetch => link = "down"
          /\ IF files.queued /\ InstallGuard THEN Install(files) ELSE Keep
    /\ UNCHANGED <<daemonVars, watchVars, typed, erased, placed, saving, overtaken, upsets>>

-----------------------------------------------------------------------------
(* Saving: flushClientEdit, then the daemon's save, then a read-back.      *)

SaveOnly == UNCHANGED <<watchVars, typed, erased, files>>

\* A clean pane goes straight to the daemon's save.
Save ==
    /\ Free /\ Upset
    /\ saving' = IF edit.dirty /\ pane # edit.synced THEN From(pane)
                 ELSE [Off EXCEPT !.at = "flushed"]
    /\ edit' = IF pane = edit.synced THEN [edit EXCEPT !.dirty = FALSE] ELSE edit
    /\ SaveOnly /\ UNCHANGED <<daemonVars, placed, refetch, pane, loop, overtaken>>

SaveSend ==
    /\ saving.at = "sending"
    /\ Forwarded(saving, saving' = [saving EXCEPT !.at = "ok", !.got = version'],
                         saving' = [saving EXCEPT !.at = "no"])
    /\ SaveOnly /\ UNCHANGED <<pane, edit, loop, overtaken>>

SaveRecord ==
    /\ saving.at \in {"ok", "no"}
    /\ Record(saving)
    /\ overtaken' = (overtaken \/ (saving.at = "ok" /\ edit'.dirty))
    /\ saving' = [Off EXCEPT !.at = "flushed"]
    /\ SaveOnly /\ UNCHANGED <<daemonVars, placed, refetch, upsets, pane, loop>>

\* saveRemote.  The daemon refuses while proposals await the user, and a lost
\* connection refuses for it.
SaveRemote ==
    /\ saving.at = "flushed" /\ saving' = Off
    /\ \/ disk' = text /\ Refetch
       \/ UNCHANGED disk /\ Keep
    /\ SaveOnly /\ UNCHANGED <<text, version, placed, refetch, upsets, overtaken>>

Saving == SaveSend \/ SaveRecord \/ SaveRemote

-----------------------------------------------------------------------------
Next == \/ OtherEdit \/ Restart \/ Lose \/ Following
        \/ \E l \in Loops : Forwarding(l)
        \/ Type \/ Erase \/ Tick \/ Drain \/ Save \/ Saving

Spec == Init /\ [][Next]_vars

\* Goroutines run, the event loop comes round, the daemon answers or a call
\* fails.  Nobody has to type, to save or to lose a connection.
Fairness ==
    /\ WF_vars(Following) /\ WF_vars(Tick) /\ WF_vars(Drain) /\ WF_vars(Saving)
    /\ \A l \in Loops : WF_vars(Forwarding(l))

FairSpec == Spec /\ Fairness
=============================================================================
