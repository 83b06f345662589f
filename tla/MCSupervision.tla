--------------------------- MODULE MCSupervision ---------------------------
(* Instances for TLC. *)
EXTENDS Supervision

CONSTANTS p1, p2, p3

ThreeProcs == {p1, p2, p3}
=============================================================================
