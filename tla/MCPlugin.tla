------------------------------ MODULE MCPlugin ------------------------------
(* Instances for TLC. *)
EXTENDS Plugin

CONSTANTS r1, r2

TwoRequests == {r1, r2}
=============================================================================
