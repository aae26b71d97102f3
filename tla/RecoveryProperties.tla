------------------------- MODULE RecoveryProperties -------------------------
(***************************************************************************)
(* What a restart may bring back, and what a save may overwrite.           *)
(***************************************************************************)
EXTENDS Recovery

Prefix(s, n) == [s EXCEPT !.ops = SubSeq(@, 1, n)]

(* The shapes of the state: an op addresses bytes its session stores. *)
IsSession(s) ==
    /\ s \in Sessions
    /\ \A i \in 1..Version(s) : s.ops[i].at <= Len(s.store[s.ops[i].by])
TypeOK ==
    /\ {up, logging, swapped, spliced} \subseteq BOOLEAN
    /\ noted \in {"none", "current", "older"} /\ (noted # "none" => row # None)
    /\ buf # None => IsSession(buf.sess)
    /\ row # None => IsSession(row.sess)
    /\ log # None => BaseOf(log).k = "base" /\ Len(log) <= MaxRecords
    /\ tap # None => up /\ logging /\ log # None
    /\ marks <= MaxMarks /\ approved \subseteq 1..marks

(* What the log of an open buffer would restore is a state the buffer has   *)
(* been in: it always builds, its ops are the first ones of the live        *)
(* session with the same bytes, and its decisions are those the tap was     *)
(* told. It holds at every point a process may die at, a batch cut short    *)
(* included: the order of a batch and the frontier of the tap are what it   *)
(* depends on (appendTap, startTap, restoreLog). Records cut short: see     *)
(* ReusedLogIsTheBuffers.                                                   *)
ReplaysTheBuffer ==
    LET s == BuildSession(log)
    IN  /\ s # None
        /\ Version(s) = tap.version /\ Version(s) <= Version(buf.sess)
        /\ Whole(s) = Whole(Prefix(buf.sess, Version(s)))
        /\ s.state = tap.state
LogReplaysTheBuffer ==
    tears = 0 /\ tap # None /\ buf # None /\ ~swapped => ReplaysTheBuffer

(* An agent's text counts as agreed, and so can reach the disk, only after  *)
(* somebody agreed to it, in this run of the editor or in an earlier one:   *)
(* neither the log nor the row brings a proposal back accepted. Batches     *)
(* that reach the log whole and tell it of the session it was opened for:   *)
(* see ProposedComesBackProposed.                                           *)
AgreedByNobody(s) == (ToSet(Agreed(s)) \intersect ToSet(s.store[agent])) \ approved
AgreedIsApproved ==
    cuts = 0 /\ ~spliced => /\ buf # None => AgreedByNobody(buf.sess) = {}
                            /\ row # None => AgreedByNobody(row.sess) = {}

(* The same with batches cut short, or with MaxCuts = 0 and MaxMarks = 5,   *)
(* where a tap that outlived a reload records the decisions of the new      *)
(* session about the ops of the old one.                                    *)
ProposedComesBackProposed == buf # None => AgreedByNobody(buf.sess) = {}

(* "A log is reused only when its base hash matches the buffer's origin and *)
(* its frontier lines up with the live session" (journal.go): the frontier  *)
(* of a torn log left in place is one the next session can reach with other *)
(* ops. MCRecovery.cfg with MaxTears = 1 and MaxMarks = 4.                  *)
ReusedLogIsTheBuffers ==
    tap # None /\ buf # None /\ ~swapped => ReplaysTheBuffer

(* A plain save replaces only bytes this buffer read or wrote: "returned    *)
(* instead of saving, because a plain save would silently discard whatever  *)
(* that other writer did. The caller is expected to ask"                    *)
(* (internal/editor/stamp.go).                                              *)
SaveAsksFirst == [][Save => disk = buf.seen]_vars

(* A buffer brought back with the digest of the file on disk as its         *)
(* baseline has that file's text as the text it is clean against: "so the   *)
(* baseline digest names the exact bytes that were written" (savedContent). *)
BaselineIsOnDisk == buf # None /\ buf.digest = disk => buf.saved = disk

(* A buffer with the digest of the file on disk as its baseline is a        *)
(* document those bytes came from: nothing on disk is missing from it.      *)
(* "Silently replaying onto changed bytes is the one unacceptable outcome"  *)
(* (docs/LAYERED-PROPOSALS-SPEC.md). MCRecovery.cfg with MaxCuts = 0.       *)
ReplaysItsOwnBytes ==
    buf # None /\ buf.digest = disk => ToSet(disk) \subseteq ToSet(Whole(buf.sess))

(* A log the editor goes on appending to has a frame every record of which  *)
(* the next start can read: "an interrupted append leaves a short record    *)
(* the reader truncates".                                                   *)
TornTailComesBack ==
    [][\A tab \in BOOLEAN : Start(tab) /\ logging /\ log # None =>
            (Damaged(log) => tap' # None)]_vars

(* What a tick leaves of a buffer that shows unsaved text is the buffer:    *)
(* "writes the session snapshot of every dirty local buffer", "only when    *)
(* the buffer has moved since its last write" (internal/app/persist.go).    *)
TickStoresTheBuffer ==
    [][Tick /\ ViewDirty(buf') => row'.sess = buf'.sess /\ row'.digest = buf'.digest]_vars

(* A buffer that reads clean has on disk what a save would write: "Clean    *)
(* means the agreed composition matches what the last write saved"          *)
(* (internal/editor/file.go).                                               *)
CleanMatchesTheDisk == buf # None /\ ~Dirty(buf) => Agreed(buf.sess) = buf.saved

(* A discarded buffer stays discarded: "there is nothing left to recover".  *)
DiscardedStaysGone == [][Open => Whole(buf'.sess) = disk]_vars
=============================================================================
