-------------------------- MODULE ClientProperties --------------------------
(***************************************************************************)
(* What an attached client promises, and two things its comments promise   *)
(* that the code does not keep.                                            *)
(***************************************************************************)
EXTENDS AttachedClient

Tokens == Mine \cup Theirs
Locals == [at : {"off", "sleep", "sending", "ok", "no", "flushed"}, own : BOOLEAN, base : Nat,
           synced : SUBSET Tokens, cur : SUBSET Tokens, got : Nat]

\* Type invariant; a dirty record has a forward loop that will see it.
TypeOK ==
    /\ {text, disk, pane, placed, erased} \subseteq SUBSET Tokens /\ typed \subseteq Mine
    /\ version \in Nat /\ heard \in Nat /\ link \in {"up", "down"}
    /\ mark \in Nat /\ listed \subseteq Nat /\ Cardinality(listed) <= 1
    /\ {refetch, overtaken} \subseteq BOOLEAN
    /\ files \in [version : Nat, text : SUBSET Tokens, queued : BOOLEAN]
    /\ edit \in [version : Nat, synced : SUBSET Tokens, pending : SUBSET Tokens,
                 dirty : BOOLEAN, running : BOOLEAN]
    /\ edit.dirty => edit.running
    /\ loop \in [Loops -> Locals] /\ saving \in Locals

\* The client asks the daemon to insert only what its user inserted and to
\* delete only what its user deleted: a snapshot that arrives while an edit is
\* on its way is never sent back as an edit (clientEditBusy, and the identity
\* check when a forward returns).  The exception is a save that forwarded newer
\* text than the loop behind it still holds.
ForwardsOnlyOwnEdits ==
    ~overtaken => \A r \in {saving} \cup {loop[l] : l \in Loops} :
        r.at = "sending" => Adds(r) \subseteq typed /\ Removes(r) \subseteq erased

\* A client that only reads ends up showing the daemon's text, through lost
\* connections and restarts that count versions from zero again.
ReaderConverges == <>[](typed # {} \/ erased # {} \/ pane = text)

Refused == saving.at = "no" \/ \E l \in Loops : loop[l].at = "no"

\* A local insertion that was noticed is forwarded, or refused and the user told,
\* unless the user deletes it first.
NoticedEditsSettle == \A t \in Mine :
    edit.dirty /\ t \in edit.pending \ edit.synced ~> t \in placed \cup erased \/ Refused

\* No path stays blocked for snapshots.
NeverStuckBusy == []<>InstallGuard

\* "A pane with an unforwarded local edit must not be replaced by a daemon
\* snapshot" (installClientFile): what the user typed leaves the pane only once
\* the daemon was given it or a refusal was reported.
UnforwardedIsKept ==
    [][\A t \in typed : t \in pane /\ t \notin pane' => t \in erased' \/ t \in placed \/ refetch]_vars

\* "The forward clears the mark (or re-fetches on refusal), after which the next
\* snapshot installs" (installClientFile).
PaneConverges == <>[](pane = text)

\* An edit is sent to the daemon once: no accepted hunk inserts what is there.
TypedOnce == [][version' = version + 1 => text' # text]_vars
=============================================================================
