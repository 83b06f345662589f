----------------------------- MODULE MCToolCall -----------------------------
(* Instances for TLC. *)
EXTENDS ToolCall

CONSTANTS k1, k2

TwoCalls == {k1, k2}
OneCall  == {k1}
=============================================================================
