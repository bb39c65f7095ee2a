----------------------------- MODULE MCClosing -----------------------------
(* Small instances of Closing for TLC. *)
EXTENDS Closing

CONSTANTS ls1, ls2, c1
=============================================================================
