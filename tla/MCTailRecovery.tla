--------------------------- MODULE MCTailRecovery ---------------------------
(* Small instances of TailRecovery.  Every edit of MCEdits has a newer     *)
(* edited_timestamp; the versions of MCPreviews cannot be told apart by it.*)
EXTENDS TailRecovery

CONSTANTS m1, m2

MCEdits    == [v \in 1..MaxVer |-> v - 1]
MCPreviews == [v \in 1..MaxVer |-> 0]
=============================================================================
