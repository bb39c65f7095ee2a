--------------------------- MODULE MCPendingJobs ---------------------------
(* Small instances of PendingJobs for TLC. *)
EXTENDS PendingJobs

CONSTANTS r1, r2, c1
=============================================================================
