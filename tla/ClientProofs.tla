---------------------------- MODULE ClientProofs ----------------------------
(***************************************************************************)
(* Proofs about an attached client, for any insertions, any number of      *)
(* forward loops and any number of upsets: the types, and that it forwards *)
(* nothing its user did not do.                                            *)
(***************************************************************************)
EXTENDS ClientProperties, FiniteSetTheorems, TLAPS

-----------------------------------------------------------------------------
(* Types.                                                                  *)

EditRecords == [version : Nat, synced : SUBSET Tokens, pending : SUBSET Tokens,
                dirty : BOOLEAN, running : BOOLEAN]
FileRecords == [version : Nat, text : SUBSET Tokens, queued : BOOLEAN]

\* The parts of the type invariant, by who reads and writes what they name.
DaemonTypes == text \in SUBSET Tokens /\ disk \in SUBSET Tokens /\ version \in Nat
WatchTypes ==
    /\ heard \in Nat /\ link \in {"up", "down"} /\ mark \in Nat
    /\ listed \subseteq Nat /\ Cardinality(listed) <= 1
    /\ files \in FileRecords
UserTypes ==
    /\ pane \in SUBSET Tokens /\ placed \in SUBSET Tokens /\ erased \in SUBSET Tokens
    /\ typed \subseteq Mine
    /\ refetch \in BOOLEAN /\ overtaken \in BOOLEAN
EditTypes ==
    /\ edit \in EditRecords /\ (edit.dirty => edit.running)
    /\ loop \in [Loops -> Locals] /\ saving \in Locals

Typed == DaemonTypes /\ WatchTypes /\ UserTypes /\ EditTypes

LEMMA TypedIsTypeOK == Typed <=> TypeOK
  BY Zenon DEF Typed, DaemonTypes, WatchTypes, UserTypes, EditTypes, TypeOK, EditRecords,
               FileRecords

\* The records the client makes are of their types.
LEMMA OffRecord == Off \in Locals /\ [Off EXCEPT !.at = "sleep"] \in Locals
                                  /\ [Off EXCEPT !.at = "flushed"] \in Locals
  BY Zenon DEF Off, Locals

LEMMA SnapshotRecord == ASSUME DaemonTypes PROVE Snapshot \in FileRecords
  BY Zenon DEF Snapshot, FileRecords, DaemonTypes

LEMMA NoneRecord == None \in FileRecords
  BY Zenon DEF None, FileRecords

LEMMA SyncedRecord ==
  ASSUME NEW s \in FileRecords PROVE Synced(s) \in EditRecords /\ ~Synced(s).dirty
  BY Zenon DEF Synced, FileRecords, EditRecords

LEMMA FromRecord ==
  ASSUME EditTypes, NEW cur \in SUBSET Tokens PROVE From(cur) \in Locals
  BY Zenon DEF From, Locals, EditTypes, EditRecords

LEMMA SentRecord ==
  ASSUME NEW r \in Locals, NEW v \in Nat
  PROVE  /\ [r EXCEPT !.at = "ok", !.got = v] \in Locals
         /\ [r EXCEPT !.at = "no"] \in Locals
         /\ [r EXCEPT !.own = FALSE] \in Locals
  BY Zenon DEF Locals

LEMMA TypesInit == ASSUME Init PROVE Typed
<1>1. version \in Nat
  BY ClientBounds, FS_CardinalityType DEF Init
<1>2. text \in SUBSET Tokens
  BY ClientBounds DEF Init, Tokens
<1>3. DaemonTypes
  BY <1>1, <1>2 DEF Init, DaemonTypes
<1>4. WatchTypes
  BY <1>1, NoneRecord, FS_EmptySet, SMT DEF Init, WatchTypes
<1>5. UserTypes
  BY <1>2 DEF Init, UserTypes
<1>6. edit = Synced(Snapshot) /\ loop = [l \in Loops |-> Off] /\ saving = Off
  BY DEF Init
<1>7. edit \in EditRecords /\ ~edit.dirty
  <2> DEFINE s == Snapshot
  <2>1. s \in FileRecords
    BY <1>3, SnapshotRecord
  <2>2. edit = Synced(s)
    BY <1>6
  <2> HIDE DEF s
  <2> QED BY <2>1, <2>2, SyncedRecord, Zenon
<1>8. loop \in [Loops -> Locals] /\ saving \in Locals
  <2>1. Off \in Locals
    BY OffRecord
  <2> QED BY <1>6, <2>1, SMT
<1>9. EditTypes
  BY <1>7, <1>8, Zenon DEF EditTypes
<1> QED BY <1>3, <1>4, <1>5, <1>9 DEF Typed

\* What the daemon makes of a hunk.
LEMMA AcceptTypes ==
  ASSUME DaemonTypes, UserTypes, NEW r \in Locals, Accept(r)
  PROVE  DaemonTypes' /\ placed' \in SUBSET Tokens
<1>1. r.cur \in SUBSET Tokens /\ r.synced \in SUBSET Tokens
  BY DEF Locals
<1>2. placed' \in SUBSET Tokens
  <2>1. Adds(r) \subseteq Tokens
    BY <1>1 DEF Adds
  <2>2. placed' = placed \cup Adds(r) /\ placed \subseteq Tokens
    BY DEF Accept, UserTypes
  <2> QED BY <2>1, <2>2
<1>3. CASE UNCHANGED daemonVars
  BY <1>2, <1>3 DEF daemonVars, DaemonTypes
<1>4. CASE Becomes((text \ Removes(r)) \cup Adds(r))
  <2>1. Adds(r) \subseteq Tokens /\ text \subseteq Tokens
    BY <1>1 DEF Adds, DaemonTypes
  <2>2. text' \in SUBSET Tokens
    BY <1>4, <2>1 DEF Becomes
  <2> QED BY <1>2, <1>4, <2>2, SMT DEF Becomes, DaemonTypes
<1> QED BY <1>2, <1>3, <1>4 DEF Accept

LEMMA ForwardedTypes ==
  ASSUME Typed, NEW r \in Locals, NEW ok, NEW no, Forwarded(r, ok, no)
  PROVE  /\ DaemonTypes' /\ placed' \in SUBSET Tokens /\ refetch' \in BOOLEAN
         /\ ok \/ no
<1>1. CASE Accept(r) /\ ok /\ UNCHANGED <<refetch, upsets>>
  BY <1>1, AcceptTypes DEF Typed, UserTypes
<1>2. CASE Warn /\ no /\ UNCHANGED <<daemonVars, placed>>
  BY <1>2 DEF Warn, Typed, DaemonTypes, UserTypes, daemonVars
<1>3. CASE Warn /\ no /\ Accept(r)
  BY <1>3, AcceptTypes DEF Warn, Typed
<1> QED BY <1>1, <1>2, <1>3 DEF Forwarded

\* What a forward leaves of the record.
LEMMA RecordTypes ==
  ASSUME EditTypes, NEW r \in Locals, Record(r)
  PROVE  edit' \in EditRecords /\ (edit'.dirty => edit.dirty) /\ (edit'.running <=> edit.running)
<1>1. r.cur \in SUBSET Tokens /\ r.got \in Nat
  BY DEF Locals
<1>2. CASE edit' = edit
  BY <1>2 DEF EditTypes
<1>3. CASE edit' = [edit EXCEPT !.version = r.got, !.synced = r.cur,
                                !.dirty = @ /\ edit.pending # r.cur]
  BY <1>1, <1>3, Zenon DEF EditTypes, EditRecords
<1>4. CASE edit' = [edit EXCEPT !.synced = r.cur, !.dirty = FALSE]
  BY <1>1, <1>4, Zenon DEF EditTypes, EditRecords
<1> QED BY <1>2, <1>3, <1>4, Zenon DEF Record

\* A scan that starts a loop, or nothing.
LEMMA ScanTypes ==
  ASSUME EditTypes, NEW shown \in SUBSET Tokens, Scan(shown), UNCHANGED saving
  PROVE  EditTypes'
<1>1. CASE UNCHANGED <<edit, loop>>
  BY <1>1 DEF EditTypes
<1>2. ASSUME NEW l \in Loops,
             loop' = [loop EXCEPT ![l] = [Off EXCEPT !.at = "sleep"]],
             edit' = [edit EXCEPT !.pending = shown, !.dirty = TRUE, !.running = TRUE]
      PROVE  EditTypes'
  <2>1. edit' \in EditRecords /\ edit'.running
    BY <1>2, Zenon DEF EditTypes, EditRecords
  <2>2. loop' \in [Loops -> Locals]
    BY <1>2, OffRecord DEF EditTypes
  <2> QED BY <2>1, <2>2, Zenon DEF EditTypes
<1> QED BY <1>1, <1>2 DEF Scan

LEMMA InstallTypes ==
  ASSUME EditTypes, UserTypes, NEW s \in FileRecords, Install(s), UNCHANGED saving
  PROVE  EditTypes' /\ pane' \in SUBSET Tokens
<1>1. edit' \in EditRecords /\ ~edit'.dirty
  BY SyncedRecord, Zenon DEF Install
<1>2. loop' \in [Loops -> Locals]
  <2>1. loop' = [l \in Loops |-> [loop[l] EXCEPT !.own = FALSE]]
    BY DEF Install
  <2>2. \A l \in Loops : [loop[l] EXCEPT !.own = FALSE] \in Locals
    BY SentRecord, Zenon DEF EditTypes
  <2> QED BY <2>1, <2>2, Zenon
<1>3. pane' \in SUBSET Tokens
  BY SMT DEF Install, FileRecords
<1> QED BY <1>1, <1>2, <1>3, Zenon DEF EditTypes

LEMMA RefetchTypes ==
  ASSUME Typed, Refetch, UNCHANGED saving
  PROVE  EditTypes' /\ pane' \in SUBSET Tokens
<1>1. CASE Keep
  BY <1>1 DEF Keep, Typed, EditTypes, UserTypes
<1>2. CASE Install(Snapshot)
  BY <1>2, SnapshotRecord, InstallTypes DEF Typed
<1> QED BY <1>1, <1>2 DEF Refetch

\* A loop takes its step.
LEMMA LoopTypes ==
  ASSUME EditTypes, NEW l \in Loops, NEW r \in Locals, loop' = [loop EXCEPT ![l] = r],
         edit' \in EditRecords, edit'.dirty => edit'.running, UNCHANGED saving
  PROVE  EditTypes'
<1>1. loop' \in [Loops -> Locals]
  BY DEF EditTypes
<1> QED BY <1>1, Zenon DEF EditTypes

LEMMA ForwardingTypes ==
  ASSUME Typed, NEW l \in Loops, Forwarding(l) PROVE Typed'
<1>1. /\ loop[l] \in Locals /\ edit \in EditRecords /\ edit.pending \in SUBSET Tokens
      /\ (edit.dirty => edit.running)
  BY SMT DEF Typed, EditTypes, EditRecords
<1>2. WatchTypes'
  BY DEF Forwarding, LoopTurn, LoopSend, LoopRecord, LoopOnly, Typed, WatchTypes, watchVars
<1>3. CASE LoopTurn(l)
  <2>1. DaemonTypes' /\ UserTypes'
    BY <1>3 DEF LoopTurn, LoopOnly, Quiet, daemonVars, userVars, Typed, DaemonTypes, UserTypes
  <2>2. CASE edit.dirty
    <3>1. loop' = [loop EXCEPT ![l] = From(edit.pending)] /\ UNCHANGED <<edit, saving>>
      BY <1>3, <2>2 DEF LoopTurn, LoopOnly
    <3>2. From(edit.pending) \in Locals
      BY <1>1, FromRecord DEF Typed
    <3>3. EditTypes'
      BY <1>1, <3>1, <3>2, LoopTypes, Zenon DEF Typed
    <3> QED BY <1>2, <2>1, <3>3 DEF Typed
  <2>3. CASE ~edit.dirty
    <3>1. /\ loop' = [loop EXCEPT ![l] = Off] /\ UNCHANGED saving
          /\ edit' = [edit EXCEPT !.running = FALSE]
      BY <1>3, <2>3 DEF LoopTurn, LoopOnly
    <3>2. edit' \in EditRecords /\ ~edit'.dirty
      BY <1>1, <2>3, <3>1, Zenon DEF EditRecords
    <3>3. EditTypes'
      BY <3>1, <3>2, OffRecord, LoopTypes, Zenon DEF Typed
    <3> QED BY <1>2, <2>1, <3>3 DEF Typed
  <2> QED BY <2>2, <2>3
<1>4. CASE LoopSend(l)
  <2>1. /\ DaemonTypes' /\ placed' \in SUBSET Tokens /\ refetch' \in BOOLEAN
        /\ \/ loop' = [loop EXCEPT ![l].at = "ok", ![l].got = version']
           \/ loop' = [loop EXCEPT ![l].at = "no"]
    BY <1>1, <1>4, ForwardedTypes DEF LoopSend
  <2>2. UserTypes'
    BY <1>4, <2>1 DEF LoopSend, LoopOnly, userVars, Typed, UserTypes
  <2>3. version' \in Nat
    BY <2>1 DEF DaemonTypes
  <2>4. EditTypes'
    <3>1. CASE loop' = [loop EXCEPT ![l].at = "ok", ![l].got = version']
      <4>1. loop' = [loop EXCEPT ![l] = [loop[l] EXCEPT !.at = "ok", !.got = version']]
        BY <3>1
      <4>2. loop' \in [Loops -> Locals]
        BY <1>1, <2>3, <4>1, SentRecord, Zenon DEF Typed, EditTypes
      <4> QED BY <1>1, <1>4, <4>2, Zenon DEF LoopSend, LoopOnly, Typed, EditTypes
    <3>2. CASE loop' = [loop EXCEPT ![l].at = "no"]
      <4>1. loop' = [loop EXCEPT ![l] = [loop[l] EXCEPT !.at = "no"]]
        BY <3>2
      <4>2. loop' \in [Loops -> Locals]
        BY <1>1, <4>1, SentRecord, Zenon DEF Typed, EditTypes
      <4> QED BY <1>1, <1>4, <4>2, Zenon DEF LoopSend, LoopOnly, Typed, EditTypes
    <3> QED BY <2>1, <3>1, <3>2
  <2> QED BY <1>2, <2>1, <2>2, <2>4 DEF Typed
<1>5. CASE LoopRecord(l)
  <2>1. DaemonTypes' /\ UserTypes'
    BY <1>5 DEF LoopRecord, LoopOnly, Quiet, daemonVars, userVars, Typed, DaemonTypes, UserTypes
  <2>2. edit' \in EditRecords /\ (edit'.dirty => edit'.running)
    BY <1>1, <1>5, RecordTypes, Zenon DEF LoopRecord, Typed
  <2>3. /\ loop' = [loop EXCEPT ![l] = [Off EXCEPT !.at = "sleep"]] /\ UNCHANGED saving
    BY <1>5 DEF LoopRecord, LoopOnly
  <2>4. EditTypes'
    BY <2>2, <2>3, OffRecord, LoopTypes, Zenon DEF Typed
  <2> QED BY <1>2, <2>1, <2>4 DEF Typed
<1> QED BY <1>3, <1>4, <1>5 DEF Forwarding

LEMMA KeyTypes ==
  ASSUME Typed, Type \/ Erase \/ Tick PROVE Typed'
<1>1. DaemonTypes' /\ WatchTypes' /\ UNCHANGED saving
  BY DEF Type, Erase, Tick, KeyOnly, daemonVars, watchVars, Typed, DaemonTypes, WatchTypes
<1>2. UserTypes'
  <2>1. CASE Type
    <3>1. PICK t \in Mine : pane' = pane \cup {t} /\ typed' = typed \cup {t}
      BY <2>1 DEF Type
    <3>2. pane' \in SUBSET Tokens /\ typed' \subseteq Mine
      BY <3>1, SMT DEF Typed, UserTypes, Tokens
    <3> QED BY <2>1, <3>2 DEF Type, KeyOnly, Typed, UserTypes
  <2>2. CASE Erase
    <3>1. PICK t \in pane : pane' = pane \ {t} /\ erased' = erased \cup {t}
      BY <2>2 DEF Erase
    <3>2. pane' \in SUBSET Tokens /\ erased' \in SUBSET Tokens
      BY <3>1, SMT DEF Typed, UserTypes
    <3> QED BY <2>2, <3>2 DEF Erase, KeyOnly, Typed, UserTypes
  <2>3. CASE Tick
    BY <2>3 DEF Tick, KeyOnly, userVars, Typed, UserTypes
  <2> QED BY <2>1, <2>2, <2>3
<1>3. EditTypes'
  <2>1. pane \in SUBSET Tokens /\ pane' \in SUBSET Tokens
    BY <1>2 DEF UserTypes, Typed
  <2>2. Scan(pane) \/ Scan(pane')
    BY DEF Type, Erase, Tick
  <2> DEFINE after == pane'
  <2>3. CASE Scan(pane)
    BY <1>1, <2>1, <2>3, ScanTypes DEF Typed
  <2>4. CASE Scan(pane')
    <3>1. after \in SUBSET Tokens /\ Scan(after)
      BY <2>1, <2>4
    <3> HIDE DEF after
    <3> QED BY <1>1, <3>1, ScanTypes DEF Typed
  <2> QED BY <2>2, <2>3, <2>4
<1> QED BY <1>1, <1>2, <1>3 DEF Typed

LEMMA DrainTypes ==
  ASSUME Typed, Drain PROVE Typed'
<1>1. DaemonTypes' /\ WatchTypes' /\ UNCHANGED saving
  BY NoneRecord, SMT DEF Drain, daemonVars, watchVars, Typed, DaemonTypes, WatchTypes
<1>2. EditTypes' /\ pane' \in SUBSET Tokens
  <2>1. CASE Refetch
    BY <1>1, <2>1, RefetchTypes
  <2>2. CASE Install(files)
    BY <1>1, <2>2, InstallTypes DEF Typed, WatchTypes
  <2>3. CASE Keep
    BY <1>1, <2>3 DEF Keep, Typed, EditTypes, UserTypes
  <2> QED BY <2>1, <2>2, <2>3 DEF Drain
<1>3. UserTypes'
  BY <1>2 DEF Drain, Typed, UserTypes
<1> QED BY <1>1, <1>2, <1>3 DEF Typed

LEMMA SaveTypes ==
  ASSUME Typed, Save \/ Saving PROVE Typed'
<1>1. WatchTypes'
  BY DEF Save, Saving, SaveSend, SaveRecord, SaveRemote, SaveOnly, watchVars, Typed, WatchTypes
<1>2. CASE Save
  <2>1. DaemonTypes' /\ UserTypes'
    BY <1>2 DEF Save, SaveOnly, daemonVars, Typed, DaemonTypes, UserTypes
  <2>2. saving' \in Locals
    <3>1. pane \in SUBSET Tokens
      BY DEF Typed, UserTypes
    <3>2. From(pane) \in Locals
      BY <3>1, FromRecord DEF Typed
    <3> QED BY <1>2, <3>2, OffRecord DEF Save
  <2>3. edit' \in EditRecords /\ (edit'.dirty => edit'.running)
    <3>1. CASE edit' = edit
      BY <3>1 DEF Typed, EditTypes
    <3>2. CASE edit' = [edit EXCEPT !.dirty = FALSE]
      BY <3>2, Zenon DEF Typed, EditTypes, EditRecords
    <3> QED BY <1>2, <3>1, <3>2 DEF Save
  <2>4. EditTypes'
    BY <1>2, <2>2, <2>3, Zenon DEF Save, Typed, EditTypes
  <2> QED BY <1>1, <2>1, <2>4 DEF Typed
<1>3. CASE SaveSend
  <2>1. saving \in Locals
    BY DEF Typed, EditTypes
  <2>2. /\ DaemonTypes' /\ placed' \in SUBSET Tokens /\ refetch' \in BOOLEAN
        /\ \/ saving' = [saving EXCEPT !.at = "ok", !.got = version']
           \/ saving' = [saving EXCEPT !.at = "no"]
    BY <1>3, <2>1, ForwardedTypes DEF SaveSend
  <2>3. saving' \in Locals
    BY <2>1, <2>2, SentRecord, Zenon DEF DaemonTypes
  <2>4. EditTypes'
    BY <1>3, <2>3, Zenon DEF SaveSend, Typed, EditTypes
  <2>5. UserTypes'
    BY <1>3, <2>2 DEF SaveSend, SaveOnly, Typed, UserTypes
  <2> QED BY <1>1, <2>2, <2>4, <2>5 DEF Typed
<1>4. CASE SaveRecord
  <2>1. DaemonTypes' /\ UserTypes'
    BY <1>4 DEF SaveRecord, SaveOnly, daemonVars, Typed, DaemonTypes, UserTypes
  <2>2. edit' \in EditRecords /\ (edit'.dirty => edit'.running)
    BY <1>4, RecordTypes, Zenon DEF SaveRecord, Typed, EditTypes
  <2>3. EditTypes'
    BY <1>4, <2>2, OffRecord, Zenon DEF SaveRecord, Typed, EditTypes
  <2> QED BY <1>1, <2>1, <2>3 DEF Typed
<1>5. CASE SaveRemote
  <2>1. DaemonTypes' /\ placed' = placed /\ saving' = Off
    BY <1>5 DEF SaveRemote, SaveOnly, Typed, DaemonTypes
  <2>2. /\ edit' \in EditRecords /\ (edit'.dirty => edit'.running)
        /\ loop' \in [Loops -> Locals] /\ pane' \in SUBSET Tokens
    <3>1. CASE Keep
      BY <3>1 DEF Keep, Typed, EditTypes, UserTypes
    <3>2. CASE Install(Snapshot)
      <4> DEFINE s == Snapshot
      <4>1. s \in FileRecords
        BY SnapshotRecord DEF Typed
      <4>2. edit' = Synced(s) /\ pane' = s.text
            /\ loop' = [l \in Loops |-> [loop[l] EXCEPT !.own = FALSE]]
        BY <3>2 DEF Install
      <4> HIDE DEF s
      <4>3. edit' \in EditRecords /\ ~edit'.dirty
        BY <4>1, <4>2, SyncedRecord, Zenon
      <4>4. \A l \in Loops : [loop[l] EXCEPT !.own = FALSE] \in Locals
        BY SentRecord, Zenon DEF Typed, EditTypes
      <4>5. loop' \in [Loops -> Locals]
        BY <4>2, <4>4, Zenon
      <4>6. pane' \in SUBSET Tokens
        BY <4>1, <4>2, SMT DEF FileRecords
      <4> QED BY <4>3, <4>5, <4>6, Zenon
    <3> QED BY <1>5, <3>1, <3>2 DEF SaveRemote, Refetch
  <2>3. EditTypes'
    BY <2>1, <2>2, OffRecord, Zenon DEF EditTypes
  <2>4. UserTypes'
    BY <1>5, <2>1, <2>2 DEF SaveRemote, SaveOnly, Typed, UserTypes
  <2> QED BY <1>1, <2>1, <2>3, <2>4 DEF Typed
<1> QED BY <1>2, <1>3, <1>4, <1>5 DEF Saving

LEMMA FollowTypes ==
  ASSUME Typed, OtherEdit \/ Restart \/ Lose \/ Following PROVE Typed'
<1>1. EditTypes' /\ UserTypes'
  BY DEF OtherEdit, Restart, Lose, Following, Answered, Fetch, Resync, WatchOnly, userVars,
         Typed, EditTypes, UserTypes
<1>2. Cardinality({version}) = 1 /\ Cardinality({}) = 0
  BY FS_Singleton, FS_EmptySet
<1>3. Snapshot \in FileRecords /\ version \in Nat
  BY SnapshotRecord DEF Typed, DaemonTypes
<1>4. CASE OtherEdit
  <2>1. WatchTypes'
    BY <1>4 DEF OtherEdit, watchVars, Typed, WatchTypes
  <2>2. PICK new \in SUBSET Tokens : Becomes(new)
    <3>1. CASE \E t \in Theirs \ text : Becomes(text \cup {t})
      BY <3>1 DEF Typed, DaemonTypes, Tokens
    <3>2. CASE \E t \in text : Becomes(text \ {t})
      BY <3>2 DEF Typed, DaemonTypes
    <3> QED BY <1>4, <3>1, <3>2 DEF OtherEdit
  <2>3. DaemonTypes'
    BY <1>3, <2>2, SMT DEF Becomes, Typed, DaemonTypes
  <2> QED BY <1>1, <2>1, <2>3 DEF Typed
<1>5. CASE Restart
  BY <1>1, <1>2, <1>5, SMT DEF Restart, Typed, DaemonTypes, WatchTypes
<1>6. CASE Lose \/ Following
  <2>1. DaemonTypes'
    BY <1>6 DEF Lose, Following, Answered, Fetch, Resync, WatchOnly, daemonVars, Typed, DaemonTypes
  <2>2. WatchTypes'
    <3>1. CASE Lose
      BY <1>2, <3>1, SMT DEF Lose, Typed, WatchTypes
    <3>2. CASE Answered
      BY <1>2, <1>3, <3>2, SMT DEF Answered, Typed, WatchTypes
    <3>3. CASE Fetch
      BY <1>2, <1>3, <3>3, SMT DEF Fetch, Typed, WatchTypes
    <3>4. CASE Resync
      BY <1>2, <1>3, <3>4, SMT DEF Resync, Typed, WatchTypes
    <3> QED BY <1>6, <3>1, <3>2, <3>3, <3>4 DEF Following
  <2> QED BY <1>1, <2>1, <2>2 DEF Typed
<1> QED BY <1>4, <1>5, <1>6

LEMMA TypesStep == ASSUME Typed, [Next]_vars PROVE Typed'
<1>1. CASE UNCHANGED vars
  BY <1>1 DEF vars, daemonVars, watchVars, userVars, Typed, DaemonTypes, WatchTypes, UserTypes,
              EditTypes
<1> QED BY <1>1, ForwardingTypes, KeyTypes, DrainTypes, SaveTypes, FollowTypes DEF Next

\* Every variable keeps its type, and a record marked dirty has a forward loop
\* that will see it, whatever installs, saves and refused forwards did meanwhile.
THEOREM ClientIsTyped == Spec => []TypeOK
<1>1. Init => Typed
  BY TypesInit
<1>2. Typed /\ [Next]_vars => Typed'
  BY TypesStep
<1> QED BY <1>1, <1>2, TypedIsTypeOK, PTL DEF Spec

-----------------------------------------------------------------------------
(* The client forwards its user's edits and no others.                     *)

\* p and q differ only by insertions of ins and by deletions of del.
Differ(p, q, ins, del) == p \ q \subseteq ins /\ q \ p \subseteq del
Ours(p, q) == Differ(p, q, typed, erased)

\* A forward whose outcome will be entered in the record.
InFlight(r) == r.own /\ r.at \in {"sending", "ok", "no"}

\* The pane has drifted only by the user's edits from whatever the record says,
\* or is about to say, that it was synced from.
OwnPane ==
    /\ Ours(pane, edit.synced) /\ (edit.dirty => Ours(pane, edit.pending))
    /\ \A l \in Loops : InFlight(loop[l]) => Ours(pane, loop[l].cur)
    /\ InFlight(saving) => Ours(pane, saving.cur)

\* So has the text the loop forwards next, and what is being forwarded.
OwnPending ==
    ~overtaken /\ edit.dirty =>
        /\ Ours(edit.pending, edit.synced)
        /\ \A l \in Loops : InFlight(loop[l]) => Ours(edit.pending, loop[l].cur)
OwnSent ==
    ~overtaken =>
        /\ \A l \in Loops : loop[l].at = "sending" => Ours(loop[l].cur, loop[l].synced)
        /\ saving.at = "sending" => Ours(saving.cur, saving.synced)

Own == OwnPane /\ OwnPending /\ OwnSent

LEMMA OwnImplies == ASSUME Own PROVE ForwardsOnlyOwnEdits
  BY SMT DEF Own, OwnSent, Ours, Differ, ForwardsOnlyOwnEdits, Adds, Removes

LEMMA DifferSelf == ASSUME NEW p, NEW ins, NEW del PROVE Differ(p, p, ins, del)
  BY DEF Differ

\* The invariant reads only these.
LEMMA OwnUnchanged ==
  ASSUME Own, UNCHANGED <<userVars, edit, loop, saving, overtaken>> PROVE Own'
  BY Zenon DEF Own, OwnPane, OwnPending, OwnSent, Ours, userVars

LEMMA OwnInit == ASSUME Init PROVE Own
<1>1. /\ edit = Synced(Snapshot) /\ pane = text
      /\ loop = [l \in Loops |-> Off] /\ saving = Off
  BY DEF Init
<1>2. edit.synced = pane /\ ~edit.dirty
  BY <1>1 DEF Synced, Snapshot
<1>3. \A l \in Loops : loop[l] = Off
  BY <1>1
<1>4. Off.at = "off"
  BY DEF Off
<1> QED BY <1>1, <1>2, <1>3, <1>4, DifferSelf, SMT
        DEF Own, OwnPane, OwnPending, OwnSent, Ours, InFlight

\* A loop takes a step that leaves it out of flight.
LEMMA OwnIdle ==
  ASSUME Own, EditTypes, UNCHANGED <<userVars, saving, overtaken>>, NEW l \in Loops, NEW r,
         r.at \notin {"sending", "ok", "no"}, loop' = [loop EXCEPT ![l] = r],
         \/ UNCHANGED edit
         \/ edit' = [edit EXCEPT !.running = FALSE]
  PROVE  Own'
<1>1. edit'.synced = edit.synced /\ edit'.pending = edit.pending /\ edit'.dirty = edit.dirty
  BY Zenon DEF EditTypes, EditRecords
<1>2. \A m \in Loops : loop'[m] = IF m = l THEN r ELSE loop[m]
  BY Zenon DEF EditTypes
<1> QED BY <1>1, <1>2, SMT DEF Own, OwnPane, OwnPending, OwnSent, Ours, InFlight, userVars

\* What a forward leaves of the record.
LEMMA RecordEffect ==
  ASSUME EditTypes, NEW r \in Locals, Record(r)
  PROVE  \/ UNCHANGED edit
         \/ /\ r.own /\ edit'.synced = r.cur /\ edit'.pending = edit.pending
            /\ edit'.dirty => edit.dirty /\ r.at = "ok"
<1>1. CASE ~r.own
  BY <1>1 DEF Record
<1>2. CASE r.own /\ r.at = "ok"
  <2>1. edit' = [edit EXCEPT !.version = r.got, !.synced = r.cur,
                             !.dirty = @ /\ edit.pending # r.cur]
    BY <1>2 DEF Record
  <2>2. edit'.synced = r.cur /\ edit'.pending = edit.pending /\ (edit'.dirty => edit.dirty)
    BY <2>1, Zenon DEF EditTypes, EditRecords
  <2> QED BY <1>2, <2>2
<1>3. CASE r.own /\ r.at # "ok"
  <2>1. edit' = [edit EXCEPT !.synced = r.cur, !.dirty = FALSE]
    BY <1>3 DEF Record
  <2>2. edit'.synced = r.cur /\ edit'.pending = edit.pending /\ ~edit'.dirty
    BY <2>1, Zenon DEF EditTypes, EditRecords
  <2> QED BY <1>3, <2>2
<1> QED BY <1>1, <1>2, <1>3

LEMMA OwnForwarding ==
  ASSUME Typed, Own, NEW l \in Loops, Forwarding(l) PROVE Own'
<1>1. loop \in [Loops -> Locals] /\ edit \in EditRecords /\ EditTypes
  BY DEF Typed, EditTypes
<1>2. UNCHANGED <<userVars, saving, overtaken>>
  BY DEF Forwarding, LoopTurn, LoopSend, LoopRecord, LoopOnly
<1>3. CASE LoopTurn(l)
  <2>1. CASE edit.dirty
    <3> DEFINE r == From(edit.pending)
    <3>1. r.at = "sending" /\ r.cur = edit.pending /\ r.synced = edit.synced
      BY DEF From
    <3>2. \A m \in Loops : loop'[m] = IF m = l THEN r ELSE loop[m]
      BY <1>1, <1>3, <2>1, Zenon DEF LoopTurn
    <3>3. UNCHANGED edit
      BY <1>3, <2>1 DEF LoopTurn
    <3> HIDE DEF r
    <3>4. OwnPane'
      BY <1>2, <2>1, <3>1, <3>2, <3>3, SMT DEF Own, OwnPane, Ours, InFlight, userVars
    <3>5. OwnPending'
      BY <1>2, <2>1, <3>1, <3>2, <3>3, DifferSelf, SMT
         DEF Own, OwnPending, Ours, InFlight, userVars
    <3>6. OwnSent'
      BY <1>2, <2>1, <3>1, <3>2, <3>3, SMT DEF Own, OwnPending, OwnSent, Ours, userVars
    <3> QED BY <3>4, <3>5, <3>6 DEF Own
  <2>2. CASE ~edit.dirty
    <3>1. loop' = [loop EXCEPT ![l] = Off] /\ edit' = [edit EXCEPT !.running = FALSE]
      BY <1>3, <2>2 DEF LoopTurn
    <3>2. Off.at = "off"
      BY DEF Off
    <3> QED BY <1>1, <1>2, <3>1, <3>2, OwnIdle
  <2> QED BY <2>1, <2>2
<1>4. CASE LoopSend(l)
  <2>1. \/ loop' = [loop EXCEPT ![l].at = "ok", ![l].got = version']
        \/ loop' = [loop EXCEPT ![l].at = "no"]
    BY <1>4 DEF LoopSend, Forwarded
  <2>2. /\ loop'[l].own = loop[l].own /\ loop'[l].cur = loop[l].cur /\ loop[l].at = "sending"
        /\ loop'[l].at # "sending"
    BY <1>1, <1>4, <2>1, SMT DEF LoopSend, Locals
  <2>3. \A m \in Loops \ {l} : loop'[m] = loop[m]
    BY <1>1, <2>1
  <2>4. UNCHANGED edit
    BY <1>4 DEF LoopSend
  <2>5. OwnPane'
    BY <1>2, <2>2, <2>3, <2>4, SMT DEF Own, OwnPane, Ours, InFlight, userVars
  <2>6. OwnPending'
    BY <1>2, <2>2, <2>3, <2>4, SMT DEF Own, OwnPending, Ours, InFlight, userVars
  <2>7. OwnSent'
    BY <1>2, <2>2, <2>3, SMT DEF Own, OwnSent, Ours, userVars
  <2> QED BY <2>5, <2>6, <2>7 DEF Own
<1>5. CASE LoopRecord(l)
  <2>1. /\ loop[l] \in Locals /\ Record(loop[l]) /\ loop[l].at \in {"ok", "no"}
        /\ loop' = [loop EXCEPT ![l] = [Off EXCEPT !.at = "sleep"]]
    BY <1>1, <1>5 DEF LoopRecord
  <2>2. [Off EXCEPT !.at = "sleep"].at = "sleep"
    BY DEF Off
  <2>3. CASE UNCHANGED edit
    BY <1>1, <1>2, <2>1, <2>2, <2>3, OwnIdle
  <2>4. CASE /\ loop[l].own /\ edit'.synced = loop[l].cur /\ edit'.pending = edit.pending
             /\ edit'.dirty => edit.dirty /\ loop[l].at = "ok"
    <3> DEFINE r == [Off EXCEPT !.at = "sleep"]
    <3>1. r.at = "sleep" /\ \A m \in Loops : loop'[m] = IF m = l THEN r ELSE loop[m]
      BY <1>1, <2>1, <2>2, Zenon
    <3>2. InFlight(loop[l])
      BY <2>1, <2>4 DEF InFlight
    <3> HIDE DEF r
    <3>3. OwnPane'
      BY <1>2, <2>4, <3>1, <3>2, SMT DEF Own, OwnPane, Ours, InFlight, userVars
    <3>4. OwnPending'
      BY <1>2, <2>4, <3>1, <3>2, SMT DEF Own, OwnPending, Ours, InFlight, userVars
    <3>5. OwnSent'
      BY <1>2, <3>1, SMT DEF Own, OwnSent, Ours, userVars
    <3> QED BY <3>3, <3>4, <3>5 DEF Own
  <2> QED BY <2>1, <2>3, <2>4, <1>1, RecordEffect
<1> QED BY <1>3, <1>4, <1>5 DEF Forwarding

\* The user's key changes the pane by one insertion or deletion, which is theirs.
LEMMA OwnKey ==
  ASSUME Typed, Own, Type \/ Erase \/ Tick PROVE Own'
<1>1. loop \in [Loops -> Locals] /\ edit \in EditRecords
  BY DEF Typed, EditTypes
<1>2. UNCHANGED <<saving, overtaken>> /\ ((Scan(pane) /\ pane' = pane) \/ Scan(pane'))
  BY DEF Type, Erase, Tick, KeyOnly, userVars
<1>3. \A q : Ours(pane, q) => Differ(pane', q, typed', erased')
  <2> SUFFICES ASSUME NEW q, Ours(pane, q) PROVE Differ(pane', q, typed', erased')
    OBVIOUS
  <2>1. CASE Type
    BY <2>1, SMT DEF Type, Ours, Differ
  <2>2. CASE Erase
    BY <2>2, SMT DEF Erase, Ours, Differ
  <2>3. CASE Tick
    BY <2>3 DEF Tick, Ours, userVars
  <2> QED BY <2>1, <2>2, <2>3
<1>4. \A q, p : Ours(p, q) => Differ(p, q, typed', erased')
  <2> SUFFICES ASSUME NEW q, NEW p, Ours(p, q) PROVE Differ(p, q, typed', erased')
    OBVIOUS
  <2>1. typed \subseteq typed' /\ erased \subseteq erased'
    BY SMT DEF Type, Erase, Tick, userVars
  <2> QED BY <2>1 DEF Ours, Differ
<1>5. CASE UNCHANGED <<edit, loop>>
  <2>1. OwnPane'
    BY <1>2, <1>3, <1>5, SMT DEF Own, OwnPane, Ours, InFlight
  <2>2. OwnPending'
    BY <1>2, <1>4, <1>5, SMT DEF Own, OwnPending, Ours, InFlight
  <2>3. OwnSent'
    BY <1>2, <1>4, <1>5, SMT DEF Own, OwnSent, Ours
  <2> QED BY <2>1, <2>2, <2>3 DEF Own
<1>6. ASSUME NEW l \in Loops, loop' = [loop EXCEPT ![l] = [Off EXCEPT !.at = "sleep"]],
             edit' = [edit EXCEPT !.pending = pane', !.dirty = TRUE, !.running = TRUE]
      PROVE  Own'
  <2> DEFINE r == [Off EXCEPT !.at = "sleep"]
  <2>1. r.at = "sleep" /\ \A m \in Loops : loop'[m] = IF m = l THEN r ELSE loop[m]
    BY <1>1, <1>6, Zenon DEF Off
  <2>2. edit'.pending = pane' /\ edit'.synced = edit.synced
    BY <1>1, <1>6, Zenon DEF EditRecords
  <2> HIDE DEF r
  <2>3. OwnPane'
    BY <1>2, <1>3, <2>1, <2>2, DifferSelf, SMT DEF Own, OwnPane, Ours, InFlight
  <2>4. OwnPending'
    BY <1>2, <1>3, <2>1, <2>2, SMT DEF Own, OwnPane, OwnPending, Ours, InFlight
  <2>5. OwnSent'
    BY <1>2, <1>4, <2>1, SMT DEF Own, OwnSent, Ours
  <2> QED BY <2>3, <2>4, <2>5 DEF Own
<1> QED BY <1>2, <1>5, <1>6 DEF Scan

\* An install starts a new record from what it shows, and disowns the forwards.
LEMMA OwnInstall ==
  ASSUME Typed, Own, NEW s, Install(s), UNCHANGED <<typed, erased, overtaken>>,
         ~InFlight(saving'), saving'.at # "sending"
  PROVE  Own'
<1>1. edit'.synced = pane' /\ ~edit'.dirty
  BY DEF Install, Synced
<1>2. \A l \in Loops : ~loop'[l].own /\ loop'[l].at = loop[l].at /\ loop'[l].cur = loop[l].cur
                                    /\ loop'[l].synced = loop[l].synced
  BY SMT DEF Install, Typed, EditTypes, Locals
<1>3. OwnPane'
  BY <1>1, <1>2, DifferSelf, SMT DEF OwnPane, Ours, InFlight
<1>4. OwnPending'
  BY <1>1 DEF OwnPending
<1>5. OwnSent'
  BY <1>2, SMT DEF Own, OwnSent, Ours
<1> QED BY <1>3, <1>4, <1>5 DEF Own

\* The event thread's save takes a step that leaves it out of flight.
LEMMA OwnSaveIdle ==
  ASSUME Typed, Own, UNCHANGED <<userVars, loop>>, overtaken => overtaken',
         saving'.at \notin {"sending", "ok", "no"},
         \/ UNCHANGED edit
         \/ edit' = [edit EXCEPT !.dirty = FALSE]
  PROVE  Own'
<1>1. edit'.synced = edit.synced /\ edit'.pending = edit.pending /\ (edit'.dirty => edit.dirty)
  BY Zenon DEF Typed, EditTypes, EditRecords
<1>2. OwnPane'
  BY <1>1, SMT DEF Own, OwnPane, Ours, InFlight, userVars
<1>3. OwnPending'
  BY <1>1, SMT DEF Own, OwnPending, Ours, InFlight, userVars
<1>4. OwnSent'
  BY SMT DEF Own, OwnSent, Ours, userVars
<1> QED BY <1>2, <1>3, <1>4 DEF Own

LEMMA OwnDrain ==
  ASSUME Typed, Own, Drain PROVE Own'
<1>1. UNCHANGED <<typed, erased, saving, overtaken>> /\ saving.at = "off"
  BY DEF Drain, Free
<1>2. CASE Keep
  BY <1>1, <1>2, OwnUnchanged DEF Keep, userVars
<1>3. ASSUME NEW s, Install(s) PROVE Own'
  BY <1>1, <1>3, OwnInstall DEF InFlight
<1> QED BY <1>2, <1>3 DEF Drain, Refetch

LEMMA OwnSave ==
  ASSUME Typed, Own, Save \/ Saving PROVE Own'
<1>1. edit \in EditRecords /\ saving \in Locals /\ EditTypes
  BY DEF Typed, EditTypes
<1>2. Off.at = "off" /\ [Off EXCEPT !.at = "flushed"].at = "flushed"
  BY DEF Off
<1>3. CASE Save
  <2>1. UNCHANGED <<userVars, loop, overtaken>>
    BY <1>3 DEF Save, SaveOnly, userVars
  <2>2. CASE saving' = [Off EXCEPT !.at = "flushed"]
    <3>1. UNCHANGED edit \/ edit' = [edit EXCEPT !.dirty = FALSE]
      BY <1>3 DEF Save
    <3>2. saving'.at = "flushed"
      BY <1>2, <2>2
    <3> QED BY <2>1, <3>1, <3>2, OwnSaveIdle
  <2>3. CASE saving' = From(pane) /\ pane # edit.synced
    <3>1. saving'.at = "sending" /\ saving'.cur = pane /\ saving'.synced = edit.synced
      BY <2>3 DEF From
    <3>2. UNCHANGED edit
      BY <1>3, <2>3 DEF Save
    <3>3. OwnPane'
      BY <2>1, <3>1, <3>2, DifferSelf, SMT DEF Own, OwnPane, Ours, InFlight, userVars
    <3>4. OwnPending'
      BY <2>1, <3>2, SMT DEF Own, OwnPending, Ours, InFlight, userVars
    <3>5. OwnSent'
      BY <2>1, <3>1, SMT DEF Own, OwnPane, OwnSent, Ours, userVars
    <3> QED BY <3>3, <3>4, <3>5 DEF Own
  <2> QED BY <1>3, <2>2, <2>3 DEF Save
<1>4. CASE SaveSend
  <2>1. UNCHANGED <<userVars, edit, loop, overtaken>>
    BY <1>4 DEF SaveSend, SaveOnly, userVars
  <2>2. \/ saving' = [saving EXCEPT !.at = "ok", !.got = version']
        \/ saving' = [saving EXCEPT !.at = "no"]
    BY <1>4 DEF SaveSend, Forwarded
  <2>3. /\ saving'.own = saving.own /\ saving'.cur = saving.cur /\ saving.at = "sending"
        /\ saving'.at # "sending"
    <3>1. CASE saving' = [saving EXCEPT !.at = "ok", !.got = version']
      BY <1>1, <1>4, <3>1 DEF SaveSend, Locals
    <3>2. CASE saving' = [saving EXCEPT !.at = "no"]
      BY <1>1, <1>4, <3>2 DEF SaveSend, Locals
    <3> QED BY <2>2, <3>1, <3>2
  <2>4. OwnPane'
    BY <2>1, <2>3, SMT DEF Own, OwnPane, Ours, InFlight, userVars
  <2>5. OwnPending'
    BY <2>1, SMT DEF Own, OwnPending, Ours, InFlight, userVars
  <2>6. OwnSent'
    BY <2>1, <2>3, SMT DEF Own, OwnSent, Ours, userVars
  <2> QED BY <2>4, <2>5, <2>6 DEF Own
<1>5. CASE SaveRecord
  <2>1. /\ UNCHANGED <<userVars, loop>> /\ saving.at \in {"ok", "no"} /\ Record(saving)
        /\ overtaken => overtaken'
        /\ saving.at = "ok" /\ edit'.dirty => overtaken'
        /\ saving'.at = "flushed"
    BY <1>2, <1>5, Zenon DEF SaveRecord, SaveOnly, userVars
  <2>2. CASE UNCHANGED edit
    BY <2>1, <2>2, OwnSaveIdle
  <2>3. CASE /\ saving.own /\ edit'.synced = saving.cur /\ edit'.pending = edit.pending
             /\ edit'.dirty => edit.dirty /\ saving.at = "ok"
    <3>1. InFlight(saving)
      BY <2>1, <2>3 DEF InFlight
    <3>2. OwnPane'
      BY <2>1, <2>3, <3>1, SMT DEF Own, OwnPane, Ours, InFlight, userVars
    <3>3. OwnPending'
      BY <2>1, <2>3, SMT DEF OwnPending
    <3>4. OwnSent'
      BY <2>1, SMT DEF Own, OwnSent, Ours, userVars
    <3> QED BY <3>2, <3>3, <3>4 DEF Own
  <2> QED BY <1>1, <2>1, <2>2, <2>3, RecordEffect
<1>6. CASE SaveRemote
  <2>1. UNCHANGED <<typed, erased, overtaken>> /\ saving' = Off
    BY <1>6 DEF SaveRemote, SaveOnly
  <2>2. CASE Keep
    BY <1>2, <2>1, <2>2, OwnSaveIdle DEF Keep, userVars
  <2>3. CASE Install(Snapshot)
    BY <1>2, <2>1, <2>3, OwnInstall DEF InFlight
  <2> QED BY <1>6, <2>2, <2>3 DEF SaveRemote, Refetch
<1> QED BY <1>3, <1>4, <1>5, <1>6 DEF Saving

LEMMA OwnStep == ASSUME Typed, Own, [Next]_vars PROVE Own'
<1>1. CASE UNCHANGED vars
  BY <1>1, OwnUnchanged DEF vars
<1>2. CASE OtherEdit \/ Restart \/ Lose \/ Following
  BY <1>2, OwnUnchanged
     DEF OtherEdit, Restart, Lose, Following, Answered, Fetch, Resync, WatchOnly
<1> QED BY <1>1, <1>2, OwnForwarding, OwnKey, OwnDrain, OwnSave DEF Next

\* Whatever other writers, refused forwards, lost answers and restarts do, the
\* client asks the daemon only for insertions and deletions of its own user: a
\* snapshot is never echoed back as an edit.
THEOREM NothingIsEchoed == Spec => []ForwardsOnlyOwnEdits
<1>1. Init => Typed /\ Own
  BY TypesInit, OwnInit
<1>2. Typed /\ Own /\ [Next]_vars => (Typed /\ Own)'
  BY TypesStep, OwnStep
<1> QED BY <1>1, <1>2, OwnImplies, PTL DEF Spec
=============================================================================
