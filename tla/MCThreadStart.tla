---------------------------- MODULE MCThreadStart ----------------------------
(* Instances of ThreadStart for TLC. *)
EXTENDS ThreadStart, TLC

CONSTANTS u1, u2, u3, n1, n2
=============================================================================
