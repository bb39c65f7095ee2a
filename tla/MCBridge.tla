------------------------------ MODULE MCBridge ------------------------------
(* A small instance of Bridge for TLC. *)
EXTENDS Bridge

CONSTANTS l1

\* A chain of two blocks, with a log in the first
MCHeight == [l \in HeardLogs |-> 0]

MCBlocks    == 0..1
MCJobs      == HeardLogs \X (1..MaxJobs)
MCCallBacks == [j \in Jobs |-> {}]
=============================================================================
