--------------------------- MODULE MCSessionQueue ---------------------------
(* Instances for TLC: two slots and two places make a line that forms, fills
   and is refused, and a handful of ids lets every slot change hands. *)
EXTENDS SessionQueue
=============================================================================
