--------------------------- MODULE MCFrontendRpc ---------------------------
(* Instances for TLC. *)
EXTENDS FrontendRpc

CONSTANTS k1, k2

TwoCalls == {k1, k2}
JustK2   == {k2}
Nobody   == {}
=============================================================================
