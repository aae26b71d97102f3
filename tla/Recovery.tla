------------------------------ MODULE Recovery ------------------------------
(***************************************************************************)
(* What brings a buffer back after the editor stops: the op log of one     *)
(* file (internal/app/journal.go over internal/journal) and the snapshot   *)
(* row of the workspace store (internal/app/persist.go), against the file  *)
(* on disk, which other programs write too.                                *)
(*                                                                         *)
(* A text is a sequence of marks, every edit and every outside write makes *)
(* a fresh one, and equal texts have equal digests, so a digest is the     *)
(* text itself. An op inserts one mark at the end, and opens a change set  *)
(* of its own. Everything runs on the event thread, so an event is one     *)
(* step; a process that stops between two writes of one event is CutTick.  *)
(***************************************************************************)
EXTENDS Integers, Sequences, SequencesExt, FiniteSets, Lists

CONSTANTS
    user, agent,    \* the two authors, in the order of their ids
    None,           \* no buffer, no log, no tap, no row, no digest
    MaxMarks,       \* bound: edits and outside writes together
    MaxRecords,     \* bound: records in the log
    MaxStops,       \* bound: times the process stops
    MaxCuts,        \* bound: batches the log receives only a part of
    MaxTears        \* bound: records the process dies in the middle of

Authors == {user, agent}
States == {"Accepted", "Proposed", "Rejected"}
Sets == 1..MaxMarks

ASSUME BoundAssumption == MaxMarks \in Nat \ {0} /\ user # agent

VARIABLES
    up,         \* the editor runs
    logging,    \* RAJ_JOURNAL: the op log is on
    disk,       \* the text of the file
    buf,        \* the buffer of that file
    tap,        \* how far the log has been told about the buffer
    log,        \* the log file, oldest record first
    row,        \* the snapshot the store holds
    noted,      \* journalWritten: no row known of, one with the buffer's decision
                \* generation in its stamp, or one with an older generation
    marks,      \* marks made so far
    stops, cuts, tears,
    approved,   \* history: marks somebody agreed to
    swapped,    \* history: the session was replaced under an open tap
    spliced     \* history: and that tap told the log of the other session
faults == <<stops, cuts, tears>>
vars == <<up, logging, disk, buf, tap, log, row, noted, marks, faults,
          approved, swapped, spliced>>

-----------------------------------------------------------------------------
(* Sessions. *)

Sessions == [base : Seq(Nat), ops : Seq([by : Authors, at : Nat \ {0}]),
             store : [Authors -> Seq(Nat)], state : [Sets -> States]]

Fresh(text) == [base  |-> text, ops |-> <<>>,
                store |-> [a \in Authors |-> <<>>],
                state |-> [i \in Sets |-> "Accepted"]]

Version(s) == Len(s.ops)

Commit(s, a, m) ==
    [s EXCEPT !.store[a] = Append(@, m),
              !.ops      = Append(@, [by |-> a, at |-> Len(s.store[a]) + 1])]

Text(s, keep) ==
    LET Mark(i) == s.store[s.ops[i].by][s.ops[i].at]
        kept    == Filter([i \in 1..Version(s) |-> i], {i \in Sets : s.state[i] \in keep})
    IN  s.base \o [j \in DOMAIN kept |-> Mark(kept[j])]

Agreed(s) == Text(s, {"Accepted"})      \* Project(AcceptedOnly)
Whole(s)  == Text(s, States)            \* the document, excluded runs included

Pending(s) == {i \in 1..Version(s) : s.state[i] = "Proposed"}
AcceptPending(s) ==
    [s EXCEPT !.state = [i \in Sets |-> IF i \in Pending(s) THEN "Accepted" ELSE @[i]]]

Buffers == [sess : Sessions, saved : Seq(Nat), savedAt : Nat, digest : Seq(Nat) \cup {None},
            stamp : Seq(Nat) \cup {None}, seen : Seq(Nat), tab : BOOLEAN,
            decided : BOOLEAN]

(* decided: a decision was made since the generation recorded as saved. The *)
(* version and that generation are asked before any text is compared.       *)
Untouched(b)    == Version(b.sess) = b.savedAt /\ ~b.decided
HasDecisions(s) == \E i \in 1..Version(s) : s.state[i] # "Accepted"
Dirty(b)     == ~Untouched(b) /\ Agreed(b.sess) # b.saved
ViewDirty(b) == ~(Untouched(b) /\ ~HasDecisions(b.sess)) /\ Whole(b.sess) # b.saved

-----------------------------------------------------------------------------
(* The log file: a base, then store growth, ops, decisions and saves. A     *)
(* torn record ends what Open reads.                                        *)

Torn == [k |-> "torn"]
Damaged(l)  == \E i \in DOMAIN l : l[i] = Torn
Readable(l) == IF Damaged(l)
               THEN SubSeq(l, 1, (CHOOSE i \in DOMAIN l : l[i] = Torn) - 1)
               ELSE l
BaseOf(l) == l[1]

Taps == [version : Nat, store : [Authors -> Nat], state : [Sets -> States]]
(* nil is none of these. *)
ASSUME NoneAssumption == None \notin Sessions /\ None \notin Buffers /\ None \notin Taps

NewTap == [version |-> 0, store |-> [a \in Authors |-> 0],
           state |-> [i \in Sets |-> "Accepted"]]

Tell(t, r) ==
    CASE r.k = "blob" -> [t EXCEPT !.store[r.by] = r.start + Len(r.marks)]
      [] r.k = "op"   -> [t EXCEPT !.version = r.seq]
      [] r.k = "dec"  -> [t EXCEPT !.state[r.set] = r.to]
      [] OTHER        -> t
TapFromLog(l) == FoldLeft(Tell, NewTap, l)

Matches(t, s) == /\ t.version = Version(s)
                 /\ \A a \in Authors : t.store[a] = Len(s.store[a])

Growth(t, s, a) ==
    IF Len(s.store[a]) > t.store[a]
    THEN <<[k |-> "blob", by |-> a, start |-> t.store[a],
            marks |-> SubSeq(s.store[a], t.store[a] + 1, Len(s.store[a]))]>>
    ELSE <<>>
NewBlobs(t, s) == Growth(t, s, user) \o Growth(t, s, agent)

NewOps(t, s) ==
    LET since == SubSeq([i \in 1..Version(s) |-> i], t.version + 1, Version(s))
    IN  [j \in DOMAIN since |->
            [k |-> "op", seq |-> since[j], by |-> s.ops[since[j]].by, at |-> s.ops[since[j]].at]]

NewDecisions(t, s) ==
    LET moved == Filter([i \in 1..Version(s) |-> i], {i \in Sets : s.state[i] # t.state[i]})
    IN  [j \in DOMAIN moved |-> [k |-> "dec", set |-> moved[j], to |-> s.state[moved[j]]]]

\* Mutant: a batch leaves the decisions to the next one.
NoDecisions(t, s) == NewBlobs(t, s) \o NewOps(t, s)
\* Mutant: a batch names ops before the bytes they insert.
OpsFirst(t, s) == NewOps(t, s) \o NewBlobs(t, s) \o NewDecisions(t, s)
Batch(t, s) == NewBlobs(t, s) \o NewOps(t, s) \o NewDecisions(t, s)

Replay(s, r) ==
    CASE r.k = "base"              -> Fresh(r.text)
      [] r.k # "base" /\ s = None  -> None
      [] r.k = "blob" /\ s # None  -> IF r.start # Len(s.store[r.by]) THEN None
                                      ELSE [s EXCEPT !.store[r.by] = @ \o r.marks]
      [] r.k = "op" /\ s # None    -> IF r.at > Len(s.store[r.by]) \/ r.seq # Version(s) + 1 THEN None
                                      ELSE [s EXCEPT !.ops = Append(@, [by |-> r.by, at |-> r.at])]
      [] r.k = "dec" /\ s # None   -> [s EXCEPT !.state[r.set] = r.to]
      [] OTHER                     -> s
BuildSession(l) == FoldLeft(Replay, None, l)

LastWritten(l) ==
    LET saves == Filter(l, {r \in ToSet(l) : r.k = "written"})
    IN  IF saves = <<>> THEN None ELSE Last(saves)

(* The text of the first v ops with no decision applied, as the baseline of *)
(* a restored buffer is computed.                                           *)
SavedContent(s, v) ==
    Whole([s EXCEPT !.ops = SubSeq(@, 1, IF v < Len(@) THEN v ELSE Len(@))])

-----------------------------------------------------------------------------
(* Appending. A result is a pair of a log and its tap. *)

StartTap(b) ==
    LET l == IF log = None THEN <<>> ELSE Readable(log)
        t == TapFromLog(l)
    IN  IF l # <<>> /\ BaseOf(l).hash = b.sess.base /\ Matches(t, b.sess)
        THEN [log |-> l, tap |-> t]
        ELSE [log |-> <<[k |-> "base", text |-> b.sess.base,
                         hash |-> IF b.digest # None THEN b.digest ELSE b.sess.base]>>,
              tap |-> NewTap]

Opened(b) == IF tap = None THEN StartTap(b) ELSE [log |-> log, tap |-> tap]

(* The first n records of what the log is to be told. *)
Told(o, b, n) ==
    LET new == SubSeq(Batch(o.tap, b.sess), 1, n)
    IN  [log |-> o.log \o new, tap |-> FoldLeft(Tell, o.tap, new)]

Journals(b) == logging /\ (tap # None \/ Dirty(b))

AppendJournal(b) ==
    IF Journals(b) THEN Told(Opened(b), b, Len(Batch(Opened(b).tap, b.sess)))
    ELSE [log |-> log, tap |-> tap]

Keep(o) == /\ (o.log # None) => Len(o.log) <= MaxRecords
           /\ log' = o.log /\ tap' = o.tap
           /\ swapped' = (swapped /\ tap # None)
           /\ spliced' = (spliced \/ (swapped /\ o.log # log))

-----------------------------------------------------------------------------
(* The buffer. *)

(* Opening from disk: the row replaces the text when it was written against *)
(* the very bytes just read. seen is history: the disk text this buffer     *)
(* last read or wrote.                                                      *)
OpenDisk == [sess |-> Fresh(disk), saved |-> disk, savedAt |-> 0, digest |-> disk,
             stamp |-> disk, seen |-> disk, tab |-> TRUE, decided |-> FALSE]
RowMatches == row # None /\ row.digest = disk
RestoreJournal ==
    [sess |-> row.sess, saved |-> disk, savedAt |-> row.savedAt, digest |-> disk,
     stamp |-> None, seen |-> disk, tab |-> TRUE, decided |-> FALSE]
LoadFile == IF RowMatches THEN RestoreJournal ELSE OpenDisk

MovedOnDisk(b) == b.stamp # None /\ b.stamp # disk
Reloaded(b) == [OpenDisk EXCEPT !.tab = b.tab]

Init ==
    /\ up = TRUE
    /\ logging \in BOOLEAN
    /\ disk = <<1>> /\ marks = 1
    /\ buf = [sess |-> Fresh(<<1>>), saved |-> <<1>>, savedAt |-> 0, digest |-> <<1>>,
              stamp |-> <<1>>, seen |-> <<1>>, tab |-> TRUE, decided |-> FALSE]
    /\ tap = None /\ log = None /\ row = None /\ noted = "none"
    /\ stops = 0 /\ cuts = 0 /\ tears = 0 /\ approved = {}
    /\ swapped = FALSE /\ spliced = FALSE

Running == up /\ buf # None

(* The person types. *)
Edit ==
    /\ Running /\ marks < MaxMarks
    /\ marks' = marks + 1
    /\ buf' = [buf EXCEPT !.sess = Commit(@, user, marks'), !.tab = TRUE]
    /\ UNCHANGED <<up, logging, disk, tap, log, row, noted, faults, approved, swapped, spliced>>

(* noteDecision: the stamp of a row written before names an older generation. *)
Outdated == IF noted = "current" THEN "older" ELSE noted

(* An agent's edit is announced in a tab and opens a proposed set. *)
Propose ==
    /\ Running /\ marks < MaxMarks
    /\ marks' = marks + 1
    /\ LET s == Commit(buf.sess, agent, marks')
       IN  buf' = [buf EXCEPT !.sess = [s EXCEPT !.state[Version(s)] = "Proposed"], !.tab = TRUE,
                              !.decided = TRUE]
    /\ noted' = Outdated
    /\ UNCHANGED <<up, logging, disk, tap, log, row, faults, approved, swapped, spliced>>

MarksOf(s, sets) == {s.store[s.ops[i].by][s.ops[i].at] : i \in sets}

(* Accepting or rejecting a set flushes the log at once. *)
Decide(i, to) ==
    /\ Running /\ i <= Version(buf.sess) /\ buf.sess.state[i] # to
    /\ LET b == [buf EXCEPT !.sess.state[i] = to, !.decided = TRUE]
       IN  buf' = b /\ Keep(AppendJournal(b))
    /\ noted' = Outdated
    /\ approved' = approved \union (IF to = "Accepted" THEN MarksOf(buf.sess, {i}) ELSE {})
    /\ UNCHANGED <<up, logging, disk, row, marks, faults>>

(* The idle tick: a clean tab whose file moved is reloaded, then a dirty   *)
(* one is journalled and its snapshot stored.                              *)
Checked == IF MovedOnDisk(buf) /\ ~ViewDirty(buf) THEN Reloaded(buf) ELSE buf

\* A row whose stamp is the buffer's version and generation is left as it is, also
\* when a reload has put another session under the same numbers.
Stored(b) == noted = "current" /\ Version(row.sess) = Version(b.sess)

Persist(b) ==
    IF ViewDirty(b)
    THEN /\ row' = IF Stored(b) THEN row
                   ELSE [sess |-> b.sess, savedAt |-> b.savedAt, digest |-> b.digest]
         /\ noted' = "current"
    ELSE /\ row' = IF noted = "none" THEN row ELSE None
         /\ noted' = "none"

Tick ==
    /\ Running /\ buf.tab
    /\ LET o == IF ViewDirty(Checked) THEN AppendJournal(Checked) ELSE [log |-> log, tap |-> tap]
       IN  /\ buf' = Checked
           /\ (o.log # None) => Len(o.log) <= MaxRecords
           /\ log' = o.log /\ tap' = o.tap
           /\ swapped' = (tap # None /\ (swapped \/ Checked # buf))
           /\ spliced' = (spliced \/ (swapped /\ o.log # log))
           /\ Persist(Checked)
    /\ UNCHANGED <<up, logging, disk, marks, faults, approved>>

(* A tick whose append gets only n records out: a write fails and the tick  *)
(* goes on, or the process dies there, perhaps inside the next record.      *)
CutTick(n, dies, torn) ==
    LET o == Opened(buf)
        l == Told(o, buf, n)
    IN  /\ Running /\ buf.tab /\ ViewDirty(buf) /\ Journals(buf)
        /\ n < Len(Batch(o.tap, buf.sess))
        /\ cuts < MaxCuts /\ cuts' = cuts + 1
        /\ \/ /\ ~dies /\ ~torn
              /\ Keep(l) /\ Persist(buf)
              /\ UNCHANGED <<up, buf, stops, tears>>
           \/ /\ dies /\ stops < MaxStops /\ (torn => tears < MaxTears)
              /\ stops' = stops + 1 /\ tears' = tears + (IF torn THEN 1 ELSE 0)
              /\ Len(l.log) < MaxRecords
              /\ log' = l.log \o (IF torn THEN <<Torn>> ELSE <<>>)
              /\ tap' = None /\ swapped' = FALSE
              /\ spliced' = (spliced \/ (swapped /\ n > 0))
              /\ up' = FALSE /\ buf' = None /\ noted' = "none"
              /\ UNCHANGED row
        /\ UNCHANGED <<logging, disk, marks, approved>>

(* A save journals, approves what is pending, writes, journals the save     *)
(* and drops the row. SaveOver is the answer to the conflict question.      *)
SaveOver ==
    LET a == AppendJournal(buf)
        s == AcceptPending(buf.sess)
        b == [buf EXCEPT !.sess = s, !.saved = Agreed(s), !.savedAt = Version(s),
                         !.digest = Agreed(s), !.stamp = Agreed(s), !.seen = Agreed(s),
                         !.decided = FALSE]
        o == Told(a, b, Len(Batch(a.tap, s)))
    IN  /\ disk' = Agreed(s) /\ buf' = b
        /\ Keep(IF a.tap = None THEN a
                ELSE [o EXCEPT !.log = Append(@, [k |-> "written", hash |-> Agreed(s),
                                                  version |-> Version(s)])])
        /\ row' = None /\ noted' = "none"
        /\ approved' = approved \union MarksOf(buf.sess, Pending(buf.sess))
        /\ UNCHANGED <<up, logging, marks, faults>>

Save      == Running /\ ~MovedOnDisk(buf) /\ SaveOver
Overwrite == Running /\ MovedOnDisk(buf) /\ SaveOver

(* Reload, asked for or as the answer to the conflict question. *)
Reload ==
    /\ Running /\ buf' = Reloaded(buf)
    /\ swapped' = (tap # None)
    /\ UNCHANGED <<up, logging, disk, tap, log, row, noted, marks, faults, approved, spliced>>

(* Closing a tab, saved or discarded, removes the log. *)
Close ==
    /\ Running
    /\ buf' = None
    /\ log' = (IF logging THEN None ELSE log) /\ tap' = None
    /\ swapped' = FALSE
    /\ UNCHANGED <<up, logging, disk, row, noted, marks, faults, approved, spliced>>

(* A recovered buffer that is no tab becomes one. *)
Announce ==
    /\ Running /\ ~buf.tab /\ buf' = [buf EXCEPT !.tab = TRUE]
    /\ UNCHANGED <<up, logging, disk, tap, log, row, noted, marks, faults, approved, swapped, spliced>>

Open ==
    /\ up /\ buf = None
    /\ buf' = LoadFile
    /\ row' = (IF RowMatches THEN row ELSE None)
    /\ noted' = (IF RowMatches THEN "current" ELSE "none")
    /\ UNCHANGED <<up, logging, disk, tap, log, marks, faults, approved, swapped, spliced>>

(* Another program rewrites the file. *)
Outside ==
    /\ marks < MaxMarks /\ marks' = marks + 1 /\ disk' = <<marks'>>
    /\ UNCHANGED <<up, logging, buf, tap, log, row, noted, faults, approved, swapped, spliced>>

(* A crash, or a quit: closing the logs appends nothing. *)
Stop ==
    /\ up /\ stops < MaxStops /\ stops' = stops + 1
    /\ up' = FALSE /\ buf' = None /\ tap' = None /\ noted' = "none" /\ swapped' = FALSE
    /\ UNCHANGED <<logging, disk, log, row, marks, cuts, tears, approved, spliced>>

(* restoreLog over the tab the session reopened, or over none. *)
NewRestoredFile(l, tab) ==
    LET s    == BuildSession(l)
        mark == LastWritten(l)
        ours == mark # None /\ mark.hash = disk
    IN  [sess    |-> s,
         saved   |-> IF ours THEN SavedContent(s, mark.version) ELSE s.base,
         savedAt |-> IF ours THEN mark.version ELSE 0,
         digest  |-> IF ours THEN disk ELSE None,
         stamp   |-> None, seen |-> disk,
         tab     |-> tab \/ Pending(s) # {},
         decided |-> HasDecisions(s)]

CleanOnDisk(l) ==
    LET s    == BuildSession(l)
        mark == LastWritten(l)
    IN  /\ s # None /\ Pending(s) = {}
        /\ IF mark # None /\ mark.hash = disk THEN Version(s) <= mark.version
           ELSE disk = BaseOf(l).hash /\ Version(s) = 0

NotOurs(l) == /\ disk # BaseOf(l).hash
              /\ LastWritten(l) = None \/ disk # LastWritten(l).hash

Start(tab) ==
    LET opened == IF tab THEN LoadFile ELSE [OpenDisk EXCEPT !.tab = FALSE]
        Leave(b, l) == buf' = b /\ log' = l /\ tap' = None
    IN  /\ ~up /\ up' = TRUE
        /\ row' = (IF tab /\ ~RowMatches THEN None ELSE row)
        /\ IF ~logging \/ log = None \/ Damaged(log)
           THEN Leave(IF tab THEN opened ELSE None, log)
           ELSE IF ~tab /\ CleanOnDisk(log)
           THEN Leave(None, None)
           ELSE IF NotOurs(log) \/ BuildSession(log) = None
           THEN Leave(opened, IF NotOurs(log) THEN None ELSE log)   \* archived
           ELSE LET b == NewRestoredFile(log, tab)
                    o == StartTap(b)
                IN  buf' = b /\ log' = o.log /\ tap' = o.tap
        /\ noted' = (IF ~(tab /\ RowMatches) THEN "none"
                     ELSE IF buf'.decided THEN "older" ELSE "current")
        /\ swapped' = FALSE
        /\ UNCHANGED <<logging, disk, marks, faults, approved, spliced>>

Next ==
    \/ Edit \/ Propose \/ (\E i \in Sets, to \in {"Accepted", "Rejected"} : Decide(i, to))
    \/ Tick
    \/ (\E n \in 0..MaxRecords, dies, torn \in BOOLEAN : CutTick(n, dies, torn))
    \/ Save \/ Overwrite \/ Reload \/ Close \/ Open \/ Announce
    \/ Outside \/ Stop \/ (\E tab \in BOOLEAN : Start(tab))

Spec == Init /\ [][Next]_vars
=============================================================================
