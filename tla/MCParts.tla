------------------------------- MODULE MCParts -------------------------------
(***************************************************************************)
(* The parts that touch no other: the decoders of the wire, the packing of *)
(* images, the supervisor's pace, and the idle lifetime with two frontends *)
(* and a plugin, so that leases of one kind overlap and kinds mix.  Each   *)
(* behaviour runs one of them from its initial state.                      *)
(***************************************************************************)
EXTENDS WireDecoder, NodeTree, DeferredObject, ImageBatch, Recycling, IdleLifetime

Length == [n \in Names |-> IF n = "a" THEN 1 ELSE 2]

Asset(failed, svg, plain, source, image) ==
    [failed |-> failed, svg |-> svg, plain |-> plain, source |-> source, image |-> image]

\* Rasters below, at and above the limit of their kind, sources likewise, and an
\* asset the plugin could not make.  Base64 is longer than what it encodes.
SomeAssets ==
    {Asset(FALSE, FALSE, 1, 0, i) : i \in {2, 8, 9}}
    \union {Asset(FALSE, TRUE, 1, i, i + 1) : i \in {3, 4, 5}}
    \union {Asset(TRUE, FALSE, 2, 0, 0)}

Idle == Init   \* of IdleLifetime
PartsInit == WireInit /\ TreeInit /\ DeferredInit /\ BatchInit /\ RecycleInit /\ Idle

PartsNext ==
    \/ TreeInit /\ DeferredInit /\ BatchInit /\ RecycleInit /\ Idle /\ WireNext
       /\ UNCHANGED <<treeVars, deferredVars, batchVars, recycleVars, vars>>
    \/ WireInit /\ DeferredInit /\ BatchInit /\ RecycleInit /\ Idle /\ TreeNext
       /\ UNCHANGED <<wireVars, deferredVars, batchVars, recycleVars, vars>>
    \/ WireInit /\ TreeInit /\ BatchInit /\ RecycleInit /\ Idle /\ DeferredNext
       /\ UNCHANGED <<wireVars, treeVars, batchVars, recycleVars, vars>>
    \/ WireInit /\ TreeInit /\ DeferredInit /\ RecycleInit /\ Idle /\ BatchNext
       /\ UNCHANGED <<wireVars, treeVars, deferredVars, recycleVars, vars>>
    \/ WireInit /\ TreeInit /\ DeferredInit /\ BatchInit /\ Idle /\ RecycleNext
       /\ UNCHANGED <<wireVars, treeVars, deferredVars, batchVars, vars>>
    \/ WireInit /\ TreeInit /\ DeferredInit /\ BatchInit /\ RecycleInit /\ Next
       /\ UNCHANGED <<wireVars, treeVars, deferredVars, batchVars, recycleVars>>

\* Fairness is that of IdleLifetime; the other parts owe nobody an answer.
PartsSpec ==
    /\ PartsInit /\ Fairness
    /\ [][PartsNext]_<<wireVars, treeVars, deferredVars, batchVars, recycleVars, vars>>
=============================================================================
