# Verification of raj

raj is a terminal editor whose buffers several writers share: the person at the
keyboard, people attached from other clients, and agents that talk to it over a
control socket.  Every write goes into one append-only journal per file; agents'
writes are proposals that a person accepts or rejects, and saving writes the
agreed text only.  This directory models that core in TLA+, checks it with TLC
on small instances and proves part of it with TLAPS for all of them.

## Inventory

| component | state | operations | how it interacts | what makes it correct |
|---|---|---|---|---|
| ops and rebasing (`piecetable/oplog.go`, `session.go`) | the journal, the reverser index, the group counter, the `Begin` depth | `Insert`, `Delete`, `InsertPieces`, `ApplyDiff`, `Undo`, `Redo`, `Begin`/`End` | called by the file and the control host on the event thread | a range carried to the present covers the same bytes or is refused; reversals compose; a reversal is all or nothing |
| change sets and decisions (`groups.go`) | the state per group | accept, reject, clear, revert, `Pending`, invalid sets | decides what compositions show and what typing may touch | a decision is about the text it was shown for; a set never gets stuck |
| compositions (`project.go`) | none (derived) | `Project` per policy, leases | read by painting, saving, the control host | excluded text is gone, agreed text is all there, in order |
| piece storage (`store.go`, `naive.go`, `doc.go`, ...) | append-only stores, a rope of pieces | insert and remove ranges | under the session | equal to the naive oracle |
| compaction (`compact.go`) | compacted origins | `Compact` | on load and save | neutral to every composition and every later reversal |
| file (`editor/file.go`) | path, encoding, disk stamp, saved version | edits with lease checks, `SaveOver`, reload | between panes and the session | what a save writes is what was agreed to |
| control host (`app/control.go`) | open buffers | `Apply`, `Patch`, `Decide`, `Clear`, `Revert`, ... | event-thread side of a control request | proposals are marked exactly for what a diff opened |
| op log and restore (`app/journal.go`, `app/persist.go`, `editor/snapshot.go`, `journal/`) | one log file and one snapshot row per buffer, the disk stamp | append batches, replay, restore, save, reload | tap on the session, restore at start | a restart brings back a state the buffer was in, and agreed text only if somebody agreed |
| control server (`control/control.go`) | request queue, connections, watches | submit, `Take`, `Reply`, watch, cancel | one goroutine per request against the event thread | a request runs once or is reported failed, never both; no reveal is lost |
| attached client (`app/client.go`) | queued snapshots, a record per edited pane, forward loops | watch, fetch, install, scan, forward, save | a client of the control server's watches and verbs | it forwards its user's edits only, and ends up showing the daemon's text |
| mailbox (`control/mailbox.go`) | boxes, handed and in-flight batches | post, park, unpark, replay | agents' message exchange, persisted in the store | at least once, in order, one reader per identity |
| participants (`control/participant.go`) | author numbers, connection counts, claims, heartbeats | reserve, join, leave, claim, expire | every connection writes as one of its ids | live connections of different identities never share an id, counts are given back once |
| hooks (`hooks/`, `control/hookrun.go`) | runs in flight | start, finish, cancel | commands run on request of agents | at most the permitted runs; each run is logged once |
| daemon (`daemon/`) | pidfile, state record | start, stop, status | processes on one machine | one daemon per workspace |
| intents (`intent/`, `app/land.go`) | a graph of selections of change sets | land, publish, materialise | over several files' sessions | landing order respects dependencies |
| language servers (`lsp/`, `app/lsp.go`, `app/willsave.go`, `app/codelens.go`, `app/format.go`) | one server per language and root, versions and texts told, requests, two answer slots, the deferred write | start, sync, ask, park, apply, defer and resume a save | background goroutines park answers and wake the event thread | an answer is applied to the text it is about; a save ends, once, as the user agreed; a server catches up |
| views, overlays, keys, terminal, search, git, stores, console | local | | | derived or pure input and output |

What is hard here: every writer's offsets are against a version that is already
old; undo is itself an op, so what is in effect depends on chains of reversals
that several gestures extend; reversals happen out of order; a decision changes
what the file reads like without changing the document; loops over hunks and
members fail half way.  On the control side: one goroutine per request, timeouts
racing answers, readers that die with a batch in hand.

`PROJECT.json` lists every component with its status, and every hazard at its
line with the property that covers it.

## Modules

| module | models | correspondence |
|---|---|---|
| `PieceOps` | `oplog.go`, the pure part of `session.go` | `InverseOp`, `InEffect` (= `live`), `Carry`, `Damages`, `Rebase`, `RebasedInverse` |
| `Projection` | `groups.go`, `project.go` as operators over journal, text and decisions | `Invalid`, `Pending`, `Project`, `Unapply`, `RejectedLeases`, `ProposedLeases`, `Leased` |
| `PieceSession` | the session behind the file and the control host, as a state machine | below |
| `PieceProperties` | what the history promises | attribution, history |
| `ReviewProperties` | what the review layer promises | compositions, saving, decisions |
| `Divergences` | sentences of the piece table's comments the code does not keep, beyond the runs below | each with the instance that refutes it |
| `RequestPromise` | abstract: what a caller of the control server is promised | fate of a request, what its caller was told |
| `ParkedRequests` | `Server.submit`, `Take`, `Reply`, `Close`; the event loop around them | implements `RequestPromise` |
| `Watch` | watches, generations, reveals, `drainControl`, `controlTick`, over `ParkedRequests` | below |
| `Participants` | `Registry`, `hello`, the life of a connection | below |
| `Mailbox` | `Post`, `Park`, `Wait`, `Unpark`, `ReplayIdentity`, over `Participants` | below |
| `AttachedClient` | `app/client.go`: watch goroutine, event thread, forward loops, save | below |
| `Recovery` | `app/journal.go`, `app/persist.go`, `editor/stamp.go`, `editor/snapshot.go`, the restore at start | below |
| `LanguageServer` | one file and its language server: synchronisation, requests, the save that waits for an answer | below |
| `WatchProperties`, `MailProperties`, `ClientProperties`, `RecoveryProperties`, `LanguageProperties` | what these promise | each ends with what comments promise and the code does not keep |
| `Lists` | `Filter`: selection from a sequence by a set | what `SelectSeq` does, in a form facts can be proved about |
| `PieceProofs`, `HistoryProofs`, `WatchProofs`, `MailProofs`, `ClientProofs`, `RecoveryProofs`, `LanguageProofs` | proofs | below |
| `ListProofs` | lemmas on numbers, sets, sequences and folds | cited by the others |
| `MCHistory`, `MCAction`, `MCPaste`, `MCCompose`, `MCReview`, `MCControl`, `MCMail`, `MCAttached`, `MCRecovery`, `MCLanguage` | instances for TLC | values of the constants |

`PieceSession` keeps `doc` (the bytes of the piece table, each identified by
store and offset), `journal`, `group` (newest number handed out), `depth`
(open `Begin`s), `decided` (the groups that are proposed or rejected; accepted
is the absence of a decision, as in `MarkGroup`), `store` (bytes per author),
`disk` and `work`.  All handlers run on the event thread and do not interleave.
A handler without a loop is one action.  A handler with a loop is one action per
iteration, and `work` holds its locals: `BeginDiff`, `Hunk`, `EndDiff` are
`ApplyDiff` under `host.Apply`; `UndoRedo`, `ClearReversal` and `Revert` start a
reversal whose members are taken by `ReverseMember`, refused by
`ReverseBlocked`, put back by `RollbackMember`, and ended by `EndFailed`,
`EndReversal` or `NextReversal`; `BeginAction`/`EndAction` bracket the strokes
of one key.  While `work` is not `Idle`, only that handler's steps are enabled.

Decisions that shape `PieceSession`:

- The text is a sequence of bytes and the stores are counters.  The rope,
  snapshots and leaf representations are not modelled; `naive.go`, the oracle
  the package fuzzes them against, is.
- `Undoes` is 0 for an ordinary edit, as in the code, so the number of the first
  op and "no op" are the same value.
- A diff's hunks are chosen one at a time against the base's length, after the
  previous one was placed.  `ApplyDiff` refuses nothing on account of the order of
  its hunks, so every list of hunks is one of these choices.
- Leases are computed from the origin of each byte as `originIndex` does it: the
  latest edit in effect that claims the byte.
- Restart replays the whole log; decisions survive for groups with an edit in
  the journal, which is what the log can name.
- Reversals of a restored journal that is not well formed (the case
  `liveFrom` guards against) are not modelled: `JournalWellFormed`, which is
  proved, says no handler writes one.

### The control server

`ParkedRequests` has one process per request (`Park`, `Notify`, then `Collect` or
`GiveUp`, a step between two locks or channel operations of `submit`) and the
event thread, which handles one event at a time: `Drain` is what a Wake starts,
`Dispatch` runs one request, `EndDrain` and `EndDraw` are the frame between the
dispatches and the answers (`Flush`), `Close` is the quit.  A Wake may be dropped,
as `Notify`'s send is non-blocking.

`Watch` adds to it, on the same event thread, edits and reveals that callers
send, `Tick` (which announces a generation when the review surface changed) and
the watchers: `Register`, `Compare`, `Woken`, `NameGen`, `Ask`, `Listed`,
`Answer` are the steps of `connection.watch` between two locks, `Resync` and
`Resynced` those of the client's first fetch.  A watcher's request for the list
goes through the queue of `ParkedRequests` like any other, and fails like any
other.  The buffer list is the number of changes it shows.

`RequestPromise` knows three things: a request runs at most once, an answer
means that it ran, and a reported failure means that no later `Take` will run
it.  It leaves open that a caller is told of a failure although the request was
taken already; the code cannot rule it out (see below).  `ParkedRequests`
states the refinement mapping (`FateOf`, `ToldOf`).

### Participants and mail

A connection is `away`, `serving`, `joined` (inside `hello`, between `Join` and
the end of the replay) or `draining`.  `Hello`, `HelloReplay`, `Drop` and
`Disconnect` take and give back ids as `serve` and `hello` do.  A row is kept
when its last connection leaves and recycled only when no id is free.
A `Post` is three steps (store and room check, send into the box, note as in
flight), a `recv` is `Recv`, `Park`, `Confirm`, `Take`, `Answer`, each between
two locks; `waiter`, `handed` and `inflight` are the maps of `Mailbox`.
`Restart` loses everything but the store and the participants it is seeded with.

### The attached client

The watch goroutine queues snapshots (`Answered`, `Fetch`, `Resync`), the event
thread installs them (`Drain`), takes keys (`Type`, `Erase`) and scans (`Scan`,
also at each `Tick`), and each forward loop turns, sends and records
(`LoopTurn`, `LoopSend`, `LoopRecord`).  A save forwards once more on the event
thread (`Save`, `SaveSend`, `SaveRecord`, `SaveRemote`), which blocks it.
`own` in a loop's locals is the identity check of `forwardApply`: the record in
`clientEdits` is still the one the loop read.  A text is a set of insertions;
where a hunk lands is `PieceSession`'s subject.

### Op log and restore

An event is one step, as all of it runs on the event thread.  `Tick`, `Decide`
and `SaveOver` append to the log what the tap has not told it
(`AppendJournal`); `CutTick` is a tick whose batch reaches the log in part,
because a write fails or the process dies.  `Start` is the whole of
`restoreLog` and the opening of tabs: whether the log is clean, ours, damaged or
foreign, and which session results.  A digest of a text is the text.  `noted` is
what `journalWritten` has for the file: no row, a row stamped with the buffer's
decision generation, or with an older one; `Stored` is the comparison of that stamp
that leaves a row as it is.  `decided` says that the decision generation is not the
saved one, which `Dirty` and `ViewDirty` ask before they compare texts.

### Language server

A goroutine per request goes through `Reach` (the request is written, and the
server reads it behind everything written before), `Return` (an answer, an error,
a lost connection or the deadline) and, for a save, `PostWake`.  `Launch`,
`Handshake` and `HandshakeFails` are the goroutine that starts a server.  The event
thread handles one event at a time and then draws: `Wake` and `Answers` are the two
halves of `applyAnswer`, `Tick`, `SyncDirtyDocs` and `RequestLenses` the chores of an
idle tick in their order, `Draw` what a frame does to lenses of an older text.

`told` is what `Sync.open` records for the document, `holds` what the process has
been sent: they differ when a notification fails, and after a restart.  `write` is
`pendingWrite`, `slot` and `saveSlot` are `lspAnswer` and `saveAnswer`; `on` in an
answer is the text the server held when the request reached it, empty if the
request failed.  One file is open or closed and, when open, in front; a closed tab
that is opened again is a new tab of the same path.  A save before closing is the
action `Save` followed by `CloseTab`.

`pending` is a change set of another author than the one who saves.  `confirm` is
whether a save asks about it: `save_confirm` is on and the screen has room for the
review (`savePane`, `reviewSave`, which fails open).  `SetConfirm` flips it at any
moment the event thread is idle, and `Save` and `Resume` both go through `savePane`
with the value of that moment.

### Mutants

Every `\* Mutant:` definition stands just before the definition of the code it
varies; it is never used by the specification.  It documents which mistake the
properties would catch.

## Runs

The bounds are named in `PieceSession`: `MaxEdits` (no edit starts once the
journal holds this many), `MaxGroups` (no handler that opens a group starts once
this many were opened, which bounds undo and redo), `MaxHunks`, `MaxStrokes`,
`MaxCut`.  `Moves` selects the operations an instance exercises.  Three edits
give every property its interesting shape: an old range, an edit that disturbs it,
one that disturbs that; the reversals on top come from `MaxGroups`.  They are not
enough to find which histories the properties hold for: carrying a range over an
undo out of order fails with four edits only, taking back a reversal and counting
copies with five.  The conditions those properties carry (below) come from larger
instances, explored at random, and from the proofs, which have no bounds.  Deadlock is not checked where an instance stops at its bounds; it is
in `language`, whose event loop ticks for ever.

| run | instance | shows |
|---|---|---|
| `history` (`MCHistory`) | file `xx`, inserts `yy`, one person, one agent; type, erase, undo, redo, diff | edits and reversals in order record what they remove, copies add up, order is kept while no deletion is in effect, a diff hits what was read, staleness is real |
| `actions` (`MCAction`) | file `x`, inserts `y newline`; two-stroke actions, and pastes of up to two bytes captured from the document of any version | reversals compose, a reversal is all or nothing, a partial one can be taken back |
| `compose` (`MCCompose`) | file `xx`, inserts `y newline`; any decisions | all four policies: no excluded text, no missing text, order |
| `review` (`MCReview`) | two-hunk diffs by an agent and by an attached person, decide, clear, revert, save, failing save, restart | attribution, saving, clearing, typing next to leases, restarting |
| `control` (`MCControl`) | one watching client and any other callers over two request objects; two changes or reveals, one of them kept; one fault | no lost wake-up, no missed change, no lost reveal, every call returns, the queue implements `RequestPromise` |
| `mail` (`MCMail`) | two connections, two identities, two author ids, a message and a notice, a box of one, one fault | one reader per box, honest counts and ids, no untaken message lost, mail arrives |
| `attached` (`MCAttached`) | one user who types and deletes a text, two texts of others, two forward loops, two upsets | nothing echoed, a reader converges, noticed edits settle, no path stays busy |
| `recovery` (`MCRecovery`) | three marks, seven records (eight was run once, without error), one stop, one cut batch | the log replays the buffer at every point a process may die at; while batches reach it whole, agreed text was agreed to |
| `language` (`MCLanguage`) | two texts, one edit per session, two saves, two requests in flight, two failed starts, one upset, the question about proposals on or off | answers fit the text, saves end once and as agreed, the server catches up |

A fault of `control` is a dropped wake, a deadline that passes with an answer on
its way, a lost connection or the quit; of `mail` a lost connection, a cancel or
a restart; an upset of `attached` is an edit by another writer, a save, a lost
connection, a lost answer or a restart; an upset of `language` is a crash, a failed
handshake, an outside write, a proposal, a format request or a closed tab (the
question about proposals is turned off and on as often as one likes: a Boolean needs
no bound).  One fault at a time is enough for each of
the properties to fail when the handling of that fault is left out, which is what
the mutants check; two for `attached`, where a restart matters only after an
edit.  Two texts tell an answer that fits from one that does not; two saves let one
supersede, pause or replace the other.  Two request objects let a caller give up while another request is taken and
reuse its object; two connections with a shared identity and two ids are the least
that make a hello race a disconnect and an id be recycled; three marks are an
edit, a proposal and an outside write or a second edit, so that a log and a row
can disagree.

### Fairness

`history`, `actions`, `compose`, `review` and `recovery` ask safety questions only.
The other four use `FairSpec`:

- `Watch`: the event loop returns to its channel after each event and a ticker
  wakes it (`Work`, `Tick`), goroutines that can run do (`Caller`, `Release`,
  `Watching`).  Nothing makes a user act, a wake be kept, or a connection be lost.
  `GiveUp` is among the fair steps because a deadline is a timer.
- `Mailbox`: goroutines run; a client that is attached says hello and reads again
  (`raj ctl` does both at each call).  Strong fairness of `Take` is the random
  choice of Go's `select` when the box has mail and the context has ended.
- `AttachedClient`: goroutines and the event loop run, a call is answered or fails.

- `LanguageServer`: events are handled in the order they were posted, so a queued
  wake is taken although ticks and keys keep coming (strong fairness of `Wake`, which
  a draw disables for a moment); the ticker fires; goroutines run and every request
  and handshake has a deadline; a delay before a restart passes.  Nothing makes a
  user act or answer a question, or a server answer rather than fail.

What the passing properties need beyond this is stated in them: `MailArrives`
ends when the reader leaves, `ChangeReachesEveryone` when the editor closes.

### Conditions

What the passing runs do not claim.  A reversal is placed by carrying its target's
ends over what came later, and is accepted when the length fits; so it can remove
other bytes than it records, after which copies do not add up and a reversal cannot be
taken back.  A mix of keyboard and review reversals does that within few steps
(below), keyboard reversals of one author with insertions and deletions by two in
more.  The properties name the condition instead of relying on the instance:
`RecordsInOrder` speaks of reversals over a history undone in order (`UndoneInOrder`),
`CopiesAddUp`, `CanTakeBack` and `AllOrNothing` of histories in which the ops recorded
what they removed, and `CopiesAddUp` besides of sessions where no op has two reversals in
effect (`ReversedOnce`): delete, undo, redo, reject and clear the set, undo again, and
the deletion is taken back by the clear and by the undo, so its byte stands there twice.  `HunkHitsWhatWasRead` needs that what was undone since the diff's
base was undone in order, recorded, and that op 0 is not a deletion the window walks
over.  `StaleIsReal` is checked where no undo since the base reaches behind it,
`AgreedTextIsKept` without pastes, `UncutOrderStable` without clear, `AnchoredInOrder`
where each excluded deletion but the newest has text of its own set to stand at.  Each
of these conditions is necessary: without it the property fails, as below.

### Where the code does something else

Three runs check one sentence of a comment each against what the code does, and
TLC finds a counterexample; `PROJECT.json` quotes the sentences.

| run | property | what happens |
|---|---|---|
| `v_wrong_bytes` | `RecordsWhatItRemoves` | an agent replaces `x` by `y`; delete `y`, undo, the agent reverts, redo: `x` is deleted and `y` recorded (`rebasedInverseAt` compares lengths, session.go:718) |
| `v_clobber` | `UnforwardedIsKept` | text typed while a forward is on its way is in no record; the next snapshot replaces the pane (client.go:1153) |
| `v_silent_save` | `SaveAsksFirst` | a buffer restored after a crash has no disk stamp, so its save overwrites an outside write without asking (snapshot.go:64) |

More sentences fail in the same way and have no run of their own.  Those of
the piece table are in `Divergences` unless another module is named, each with the
moves and bounds that give TLC its counterexample; where the table names the
moves the bounds are those of `Divergences`, with `MaxStrokes` = 2 for `MCAction`
and `MaxEdits` = 2, `MaxGroups` = 5 for clear.  The others are at the end of their
properties module, and fail with the configuration of its passing run, with the
changes given here.

| property | what happens |
|---|---|
| `EveryOpChanges` (`PieceProperties`; `MCHistory`, type, undo, diff) | a deletion of text undone meanwhile commits an op that changes nothing, in a set of its own (session.go:269) |
| `HunkFromOriginHits` (`MCHistory`, type, erase, undo, diff and `MaxGroups` = 5) | an edit's `Undoes` of 0 consumes the anchor op 0 left on a range's end (session.go:490) |
| `WholeGroups` | after a refused undo, the next undo takes back only the members that were rolled back (session.go:626) |
| `OrderStable` (`PieceProperties`; `MCAction`, type, action, undo, redo, diff) | redo of a two-cursor action after the text between was deleted swaps the insertions (session.go:627) |
| `UncutOrderStable` (`PieceProperties`; `MCHistory`, diff, decide, clear) | clearing two rejected deletions of neighbouring bytes, oldest first, swaps the bytes (groups.go:538) |
| `NoByteTwice` | erase, undo, redo, reject, clear, undo: the text is in the document twice (session.go:548) |
| `ComposedInOrder` | a composition puts deleted text back out of order (project.go:120) |
| `PendingWhileTextRemains` | a proposal with all its text in the document becomes invalid (groups.go:317) |
| `AgreedTextIsKept` (`ReviewProperties`; `MCPaste`, diff, paste, decide) | rejecting a proposal removes an accepted paste of its text (project.go:118) |
| `DecisionsNameSets` | a diff that only amended an older proposal marks a set with no members (control.go:1459) |
| `HunkOverUndoHits` (`MCHistory`, type, erase, undo, diff, `MaxEdits` = 4, `MaxGroups` = 5) | insert, erase another byte, an agent's insertion, undo of the erasure: a range read before the undo is carried to a wider one and not refused (session.go:381) |
| `HunkStaysInside` (`PieceProperties`; `MCHistory`, type, erase, undo, diff and `MaxGroups` = 4) | an agent reads a file, an *older* edit is undone, its hunk is placed on bytes it never read (`damages` skips every reversal, session.go:464) |
| `ApprovedOnlyIfWritten` (`ReviewProperties`; `MCCompose`, diff, save) | a save that fails to write leaves the pending sets accepted (file.go:1072) |
| `DroppedWakeIsLatency` (`WatchProperties`; `MaxChanges` = 1) | a request whose wake was dropped stays parked: a tick does not drain the queue (app.go:1829) |
| `GivenAgain` (`MailProperties`) | a batch handed to a connection that died is confirmed by the next park of its identity (mailbox.go:187) |
| `HeldOnce` (`MailProperties`) | a hello between a post's insert and its note queues the message twice |
| `FreshBeforeRecycled` (`MailProperties`; `MaxId` = 4) | `Join` passes ids that were reserved at the moment and recycles a row while one of them is free |
| `DeadConnectionsEnd` (`MailProperties`) | a recv that registers after `cancelAll` stays parked for a client that has gone |
| `PaneConverges` (`ClientProperties`) | after edits, a pane may differ from the daemon's text until the next change |
| `TypedOnce` (`ClientProperties`; `MaxUpsets` = 1) | a save during a forward sends the same hunk a second time |
| `BaselineIsOnDisk` (`RecoveryProperties`; `MaxMarks` = 4) | the text a restored buffer is clean against is computed without the decisions |
| `ReplaysItsOwnBytes` (`RecoveryProperties`; `MaxCuts` = 0) | a reload keeps the tap of the session it replaced; a later start rebuilds that session over the new bytes and finds it clean (journal.go:422) |
| `ProposedComesBackProposed` (`RecoveryProperties`) | a crash between an op and its decision brings a proposal back accepted; with `MaxCuts` = 0 and `MaxMarks` = 5, a tap that outlives a reload records the new session's decisions about the old one's ops |
| `ReusedLogIsTheBuffers` (`RecoveryProperties`; `MaxTears` = 1, `MaxMarks` = 4) | a log with a torn record stays in place, and a later session reaches its frontier with other ops: `matches` compares lengths (journal.go:406) |
| `TornTailComesBack` (`RecoveryProperties`; `MaxTears` = 1) | a log with a torn record is left alone at the next start, its edits with it |
| `TickStoresTheBuffer` (`RecoveryProperties`) | a reload starts a session whose versions count from 0 again; when it reaches the version of the row, the row of the old session stays (persist.go:80) |
| `CleanMatchesTheDisk` (`RecoveryProperties`) | a set rejected before a save and accepted after it: the buffer restored from its row has the saved version and no decision since, and reads clean (file.go:392) |
| `DiscardedStaysGone` (`RecoveryProperties`; `MaxCuts` = 0) | discarding a buffer leaves its row, which the next open restores |
| `SaveIsNotLost` (`LanguageProperties`) | the answer of a superseded save takes the newer one's place in the slot, and the write waits for ever (willsave.go:215) |
| `FormatFits` (`LanguageProperties`) | after a reload or a reopened tab versions count from 0 again, and an answer about the old text fits the number (format.go:170) |
| `ServerFollowsReload` (`LanguageProperties`) | the tick compares versions, so a reloaded buffer whose version is the one last told is not sent (app/lsp.go:986) |
| `QuestionsAreAnswered` (`LanguageProperties`) | a deferred write that resumes into a question replaces the question on screen, whose continuation is never called (prompt.go:181) |
| `LateWorkIsShown` (`LanguageProperties`) | with `save_confirm` off, or no room for the review, a change set that arrived while the server was thinking is written and accepted without a question (willsave.go:179, app.go:2914) |
| `ApprovedWorkWasShown` (`LanguageProperties`; `MaxUpsets` = 2) | a proposal that arrives while the conflict question is open is approved by its answer, also when proposals are asked about (app.go:3335) |
| `AskedAfterHandshake` (`LanguageProperties`) | while a restarted server is shaking hands the old sync object passes for live, and its failed notification is recorded as told (app/lsp.go:371) |
| `AnswersStay` (`LanguageProperties`) | all requests but saves share one slot, and a later answer replaces one not yet taken (app/lsp.go:1252) |

A caller can also be told that a request failed which the editor then executes,
when the deadline passes after `Take` (control.go:3362): `RequestPromise` allows it.

## Proofs

Every proof is for any value of the constants that the named assumptions of the
modules allow: any authors, texts, connections, identities, messages, requests,
bounds.  The assumptions are `AuthorsAssumption`, `TextsAssumption` (a text is a
sequence) and `BoundsAssumption` of `PieceSession`; `ParticipantsAssumption` (finitely
many connections, which a count needs) and `MailboxAssumption`; `WatchBounds`,
`NoCallAssumption` and `FaultBound`; `ClientBounds`; `BoundAssumption` (at least one
mark, two authors) and `NoneAssumption` (nil is no session, buffer or tap) of
`Recovery`; `LanguageBounds` and `TextsAssumption` of `LanguageServer`.

### The piece table

`PieceProofs` proves:

- `JournalIsWellFormed`: `Spec => []JournalWellFormed`.  Reversals point
  backwards, so the walk of `live` ends on every journal the handlers write.
- `SetsHaveOneAuthor`: `Spec => []OneAuthorPerSet`.
- `ProposalsAreByAgents`: `Spec => []ProposedByAgents`.
- `JournalGrows`: `Spec => JournalOnlyGrows`.
- `ControlIsTyped`: `Spec => []ControlTypes`, the part of `TypeOK` about control.

None of these invariants is inductive alone.  `IInv` adds: every op is a
record of the eight fields; decisions are about numbers handed out (`Log`); the
locals of the handler in progress name ops of the journal (`Handler`); and the
set a handler has open carries no decision and holds edits of that handler's
author only (`OpenSet`).  `OpenSet` is why a keyboard edit cannot be proposed
and why an end of a diff marks one author's edits.  A hunk that amends an older
proposal needs `LeasesAreSets` (what is leased is a set with an edit in it, so
its author is defined) and `AuthorOfSet` (its nominal author is everybody's).
`AppendLog` and `DecideLog` say what an op and a decision must satisfy to keep
the log in order; one lemma per group of actions shows that they do.
`ControlIsTyped` adds `DataTyped` to `IInv`.

Then the text, in the same module:

- `OpsFitTheirDocument`: `Spec => []OpsStayInside`.  Every op names a range of the
  document it is applied to; no splice is clamped.
- `SavesWriteWhatWasShown`: `Spec => SaveWritesWhatWasShown`.
- `RestartsAreInvisible`: `Spec => RestartIsInvisible`.

The invariant `Text` says that the document is the journal replayed over the base,
that every op stays inside, that a reversal is its target turned round
(`TurnedRound`) and that an open diff's base is a version.  It is what a hunk's
place rests on: `Rebase` keeps both ends within the document of today, by
induction over the ops since (each `Carried` step keeps a point of one version within the next).
A save needs that `Project` with nothing left out is the document, and that
accepting what is pending leaves only sets whose text both policies treat alike.

- `HunksHitWhatWasRead`: over edits alone a hunk is refused or hits what was read.
  `Intact` is what the walk keeps: the range stands byte for byte between its two
  points, and the deletions flush against it are anchored on their sides.
- `TypingRespectsDecisions`: `Spec => TypingRespectsLeases`; `ExcludedTextIsHidden` and
  `SavesWriteAgreedTextOnly`: no composition shows, and no save writes, text of a set
  it leaves out.  These rest on `PInv`: a byte comes from its author's store and only
  one edit inserts it (`WrittenOnce`).  A paste inserts captured bytes a second time
  and they are attributed to the paste; so the three assume `"paste" \notin Moves`,
  as the configurations of `review` and `compose` do.
- `SessionIsTyped`: `Spec => []TypeOK`.

`HistoryProofs` adds what comes of undoing:

- `ReversalsAreAllOrNothing`: `Spec => AllOrNothing`.  For success, `Remaining` says that
  what is asked for and in effect is still to do; a reversal's own op has no reverser
  yet, and taking one back changes the liveness of nothing younger (lemma
  `SuccessTakesAllBack`).  For refusal, `Stacked` says that a reversal takes back only
  what is older than itself, so the ops it applied, and after them their inverses, are a
  stack on the version it found.
- `RollbackNeverGivesUp`: `Spec => []CanTakeBack`, from the same invariant.  The inverse of
  the newest op not yet taken back is carried over a stretch that is `Nested`, so it is
  placed where the op was and returns the document of before it (`TakesBack`, by
  induction from the newest op down).
- `CopiesOfBytesAddUp`: `Spec => []CopiesAddUp`.  Replaying the journal adds to a byte's
  copies what each op put in and took out (`CopiesReplayed`).  Going through the ops from
  the newest to the oldest, a reversal in effect cancels with its target, of which it is
  the only live reverser, and the edits in effect remain (`Cancels`).  The sums of the
  property are the sizes of sets of pairs (`SumIsSize` of `ListProofs`), which do not
  depend on the order of summation.
- `PlacedHunksHitWhatWasRead`: `Spec => []HunkHitsWhatWasRead`, over edits and what
  was undone and redone among them.  What is undone in order is `Nested`: like
  brackets, an op and the reversal that takes it back enclose only such pairs.  By
  induction over the length of such a stretch, a point carried over it returns to where
  it was, with the anchors it had (`Returns`), and so does the document (`DocReturns`).
  The carry over a stretch of live edits and closed brackets then is the carry over
  the edits alone (`NestedRange`).  The induction needs where each reversal stands in
  the journal to be the place `Rebase` computes for it, of every op (`Placing`).
- `OpsRecordInOrder`: `Spec => []RecordsInOrder`.  Every edit records what it removed:
  typed and pasted at once, a hunk because it takes its bytes from the place it has.
  A reversal over an ordered history removes its target's own insertion, by the
  same two inductions with the target's range in place of a hunk's.
- `ExcludedTextStaysGone`: `ExcludedTextIsGone` while every op records what it removes and
  none has two reversals in effect.  From the copies above each byte has one source and
  at most one edit that took it (`SourcesAndTakes`).  `Shown` is what a composition keeps
  as it takes excluded edits out, newest first: a byte is there at most once, then no edit
  yet to visit or kept deleted it, and what is owed is there, or is still to be put back,
  or its place is lost (`WithoutInduction`, `ShownStep`).
- `MissedTextLostItsPlace`: the other half of `Shown`.  Under the same conditions, owed text
  that a composition does not show was deleted by an edit it leaves out, whose place
  `Rebase` no longer finds.  `AgreedTextStays` makes that `AgreedTextIsKept` where every
  op since the oldest excluded edit is an edit in effect (`StraightSince`): the place was
  there before one of them and not after it (`LostToOne`).
- `CompositionsAreExact`: while nothing was undone, cleared or reverted, `ExcludedTextIsGone`
  and `AgreedTextIsKept`, with no further condition.
- `StaleHunksMetAnEdit`: `StaleIsReal` where no undo or redo followed the diff's base and
  the text read shows no byte twice.  A range is lost over edits only to one that met it
  (`LostToMet`); as an edit inserts bytes the text does not hold (`Fresh`), no byte is there
  twice later on (`OnceOverEdits`), and an edit that meets a run breaks it (`MeetingBreaks`).
  The five theorems from `ExcludedTextStaysGone` on are for sessions without paste as well.

### The control server

`WatchProofs` proves, for any requests, watchers, bounds and faults:

- `QueueImplementsPromise`: `Spec => QueueKeepsPromise`, the refinement of
  `RequestPromise` by the queue as the watches and the verbs use it.  The
  inductive invariant `QueueInv` says that a request stands on one list at a
  time, that what has run was taken once, that an object without a caller is on no
  list, that a closed server holds no queue, and that an answer in a channel is
  true.  Each step then touches the fate of one request (`OneTouched`), or of the
  whole queue (`Drain`, `Close`), which is the promise's `Settle`.
- `WakeupsAreNotLost`: `Spec => []NoLostWakeup`.  The invariant needs that also a
  watcher which has registered and not yet compared is signalled by every later
  bump, and that the application's counter is never behind the server's.
- `ViewsCoverTheirGeneration` and `RevealsArrive`: `Spec => []ViewCoversGen` and
  `Spec => []KeptRevealsArrive`.  `ShowInv` carries both back along the steps of a
  watch (`Shows`): a list that was asked for covers the generation read before it
  once the request has run, and a request that was answered has run (`OkCallsRan`).
  What a generation announced never changes and never shrinks (`Generations`).

`MailProofs` proves, for any finite set of connections and any identities, ids,
messages and bounds:

- `RegistryCounts`: `Spec => []CountsConnections`, and `WritersAreApart`:
  `Spec => []OneWriterPerId`.  `RegistryInv` adds that a bound connection's id is
  occupied and that an id reserved and not yet joined belongs to one connection and
  to no row: between `Reserve` and `Join` an id could otherwise be recycled.
- `ReadersAreApart`: `Spec => []OneReader`.  A reader that is live and waiting is the
  box's waiter (`OwnsSlot`), so `Unpark` gives up only a slot of its own.
- `MailIsKept`: `Spec => []Kept`.  A message nobody took has its row, by `KeptInv`:
  what is confirmed was handed over, handed-over messages are taken, and a
  message still on its way into the store is nowhere else.
- `MailTypeOK`: `Spec => []TypeOK`, including that a box never exceeds its depth.

### The attached client

`ClientProofs` proves, for any insertions, loops and upsets:

- `ClientIsTyped`: `Spec => []TypeOK`, including that a record marked dirty has a
  forward loop.
- `NothingIsEchoed`: `Spec => []ForwardsOnlyOwnEdits`.  The property speaks of
  requests on their way; the invariant `Own` carries it back to where they come
  from: the pane differs from the record's baseline by the user's own insertions
  and deletions (`OwnPane`), so does the text noted as pending (`OwnPending`), and so
  does every request whose locals are still the record's (`OwnSent`).  Installing a
  snapshot replaces the record, and with it the claim of all requests in flight;
  the identity check in `forwardApply` is what makes `OwnSent` survive the answers.

### Op log and restore

`RecoveryProofs` proves, for any number of edits, records, stops and cut batches:

- `LogsReplayTheBuffer`: `Spec => []LogReplaysTheBuffer`.  The invariant `LogState`
  says of every log, open or not, that it is `Sound`: it builds a session in which
  every op addresses stored bytes, and the frontier `tapFromLog` computes from it is
  that session's.  While its tap is open the tap is at the log's end, and what the
  log builds is part of the live session (`PartOf`).  That a batch may stop after any
  of its records is `BatchRuns`, an induction over the records of a batch: bytes come
  before the ops that name them and those before their decisions.  A log is reused
  after a restart because `matches` finds the frontier of a log that was closed at
  its end, and only a session built from it, or a fresh one, can have it.
- `NothingComesBackAgreed`: `Spec => []AgreedIsApproved`.  `ApprovalState` says of
  everything a buffer can be made from (the buffer, the row, the log, the disk) that
  it is `Honest`: each accepted op of the agent inserts a mark somebody approved, and
  no mark is both the agent's and another's or the file's.

The attempt at these proofs found two conditions the bounds had hidden.  With a torn
record (`tears`) a log that cannot be read whole stays in place, and another
session can reach its frontier (`ReusedLogIsTheBuffers`).  With a tap that outlives a
reload and then tells the log of the new session (`spliced`), the decisions of the
new session are recorded about the old one's ops.  Both properties name the
condition, and the divergence is listed above.

### Language server

`LanguageProofs` proves, for any texts, saves, requests and upsets:

- `SavesHaveOneAnswer`: `Spec => []SavesAreAnsweredOnce`.  At most one write is
  deferred and at most one question is on screen, so what a save's callers are owed
  can be counted.
- `LateSavesRespectTheUser`: `Spec => LateSaveRespectsTheUser`.  A question is about
  an open tab; a resumed write finds its tab and, when a set is pending, leaves the
  server's edits alone and asks if saves ask (`ResumeLeavesProposals`).  That a save
  which asks nothing writes the set unasked is `LateWorkIsShown`, above.
- `AnswersFitTheText`: `Spec => []AnswersFit`.  `AnswerInv` follows a request from the
  moment it is asked: one that fits the buffer by tab, reload and version was or will
  be read by the server behind the text the buffer has (`AsksFit`), its answer is
  about that text (`SlotsFit`), and lenses do not outlive their tab (`OfTheirTab`).

### Induction

The library's induction theorems take an operator as a parameter, which none of the
provers can instantiate.  `ListProofs` states induction over a set of numbers
instead (`Least`, `Inductive`: a set that has 0 and is closed under successor is
all of `Nat`), which a proof uses by naming the set of numbers for which its claim
holds.  A fold is related to the table of its partial results (`FoldLeft` and
`FoldRight` over `Append` and over the front of a sequence), and `Filter` to the
recursive function it is defined by.  This is enough for what `Rebase`, `ReplayTo`,
`Project` and `BuildSession` compute for every journal and every log.

### Model-checked only

- `RecordsWhatItRemoves` is false in general (run `v_wrong_bytes`); what holds of it is
  `RecordsInOrder`, which is proved.
- `UncutOrderStable`, `AnchoredInOrder` and `ClearKeepsAgreedText` compare the order of
  bytes, or all that is shown, in two documents between which ops were taken back out
  of order.  They hold for the moves and bounds of their runs; the inductions above
  follow one range or the copies of one byte, which is less than they need.
- `AgreedTextIsKept` where something since the oldest excluded edit was undone, and
  `StaleIsReal` where something since the base was: there the theorems stop short of
  naming an edit in effect as the cause, which the runs do check.
- Liveness under fairness and `ENABLED` are out of the provers' reach: `MailArrives`,
  `ChangeReachesEveryone`, `EveryCallReturns`, `ReaderConverges`, `NoticedEditsSettle`,
  `NeverStuckBusy`, `LoneSaveSettles`, `ServerCatchesUp`.

`TypeOK` of `PieceProperties`, `WatchProperties`, `MailProperties` and
`RecoveryProperties`, and `JournalOnlyGrows` of `ReviewProperties`, hold as well when
named in the configuration of their instance; the runs leave them out in favour of
properties that could fail.

## Not modelled

Inside the modules: the rope and the encodings of text; the columns and attributes
of participants (names, kinds, tasks, listening and working states, heartbeats and
claims); errors of the workspace store; notices to provisional ids; loss of power
(`fsync`), so that what was written is on disk; undo and deletion in the op log (a
replayed op is an insertion); files opened without restore; git's view of a path.
A clip is one selection: the separators between several, linewise pastes and clips
longer than `MaxCut` are left out, and a clip from before a restart is not told from
one after.  `MaxCleanCheck`, past which a buffer is dirty without comparison, and the
interval between two rows (a tick stores one).  A language server that holds no copy of
a document is taken to fail a request about it; it may answer from the file instead,
about a text the editor did not send (`AskedAfterHandshake` says when it can be asked).
Closed tabs and the list of files in an attached client.  Requests to a language
server other than lenses, formatting and the one before a save (they are parked and
checked in the same two ways), capabilities, position encodings, a save under a new
name, tabs in the background, files deleted under the editor.

Components: `PROJECT.json` lists each with its reason.  Views, overlays, keys,
terminal, search and completion are functions of state modelled here or read and
write only their own.

## Plan

1. Piece table: `Compaction` over `PieceSession`, `Segments` (`ProjSeg` and the
   offset maps of `view`), the undo timeline a person sees as an abstract
   specification of undo and redo without other authors.
2. Around the control server: claims and the guard of the mutating verbs, the hook
   gate and its runs, the daemon's pidfile and state record.
3. Intents and landings; the other requests to a language server, several tabs.
4. Proofs: the order of the bytes of two versions (`UncutOrderStable`,
   `AnchoredInOrder`), for the moves for which it is kept; the lock-step of `Watch` and
   the attached client, for which a common module would have to be written first.
