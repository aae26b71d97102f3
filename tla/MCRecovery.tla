----------------------------- MODULE MCRecovery -----------------------------
(* Edits, ticks, saves, outside writes and a restart, with at most one      *)
(* batch that reaches the log in part. A record the process dies in the     *)
(* middle of is left to TornTailComesBack of RecoveryProperties.            *)
EXTENDS RecoveryProperties
=============================================================================
