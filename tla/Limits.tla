------------------------------- MODULE Limits -------------------------------
(***************************************************************************)
(* The limits of the protocol that the models count against (limits.rs).   *)
(***************************************************************************)
EXTENDS Naturals

CONSTANTS
    MAX_DEPTH,
    MAX_INPUT_IDS,
    MAX_RETURNED_NODES,
    MAX_TEXT_BYTES,
    MAX_ENVELOPE_BYTES,
    MAX_SVG_BYTES,
    MAX_RASTER_BASE64_BYTES

ASSUME LimitsAssumption ==
    {MAX_DEPTH, MAX_INPUT_IDS, MAX_RETURNED_NODES, MAX_TEXT_BYTES, MAX_ENVELOPE_BYTES,
     MAX_SVG_BYTES, MAX_RASTER_BASE64_BYTES} \subseteq Nat
=============================================================================
