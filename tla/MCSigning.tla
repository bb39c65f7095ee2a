----------------------------- MODULE MCSigning -----------------------------
(* A small instance of Signing, and so of Metrics, for TLC. *)
EXTENDS Signing

CONSTANTS s1, s2
=============================================================================
