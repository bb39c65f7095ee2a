------------------------------- MODULE MCPool -------------------------------
(* Small instances of Pool for TLC. *)
EXTENDS Pool

CONSTANTS j1, j2, j3, j4, w1, w2

\* j3 is the callback job of j1 (when the instance has it).
MCCallBacks == [j \in Jobs |-> IF j = j1 THEN {j3} \cap Jobs ELSE {}]

MCNoCallBacks == [j \in Jobs |-> {}]

\* j4 comes from a row, with one try behind it.
MCFirstRetryCount == [j \in Jobs |-> IF j = j4 THEN 1 ELSE 0]
=============================================================================
