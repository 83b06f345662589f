------------------------------ MODULE NodeTree ------------------------------
(***************************************************************************)
(* Trees of design nodes.  Whoever makes a forest or a batch of node       *)
(* results counts the whole of it; whoever reads one off the wire counts   *)
(* as it goes, so that it never holds more nodes than are allowed, and     *)
(* refuses at the first element too many.  The two must draw the same      *)
(* line.                                                                   *)
(*                                                                         *)
(* A tree is sent in preorder, as the depths of its nodes.  A batch may    *)
(* also have items that failed, which are no nodes.                        *)
(***************************************************************************)
EXTENDS Limits, Sequences, FiniteSets

CONSTANT MaxElements    \* bound: the elements of a document

\* A failed item, as a depth no node has.
Failed == MAX_DEPTH + 2

VARIABLES
    kind,       \* "node", "forest" or "batch"
    sent,       \* the document so far: depths of nodes, and failed items
    lists,      \* the lengths of the lists that are open, outermost first
    remaining,  \* NodeDecodeBudget.remaining_nodes
    verdict     \* the decoder: "reading", "accepted" or "refused"

treeVars == <<kind, sent, lists, remaining, verdict>>

TreeInit ==
    /\ kind = "none" /\ sent = <<>> /\ lists = <<>>
    /\ remaining = MAX_RETURNED_NODES
    /\ verdict = "reading"

\* A document is a list of roots or of items, or a single node, which is read
\* with the seed a root is read with and no list around it.
BeginTree(k) ==
    /\ kind = "none"
    /\ kind' = k
    /\ lists' = <<0>>
    /\ UNCHANGED <<sent, remaining, verdict>>

\* The length of the innermost list.
InnerLength == lists[Len(lists)]

\* The depth of an element of the innermost list.
Depth == Len(lists) - 1

Refuse == verdict' = "refused" /\ UNCHANGED remaining

\* The maximum of a list.
MaximumItems == IF Depth = 0 /\ kind = "batch" THEN MAX_INPUT_IDS ELSE MAX_RETURNED_NODES

\* The visitor of a list has its maximum and looks whether there is one more.
ListIsOverfull == InnerLength > MaximumItems   \* mutant: looks one too late
ListIsFull == InnerLength = MaximumItems

OneMore == [lists EXCEPT ![Len(lists)] = @ + 1]

\* A list is open and may go on: a document that is one node has one.
MayGoOn ==
    /\ lists # <<>> /\ Len(sent) < MaxElements
    /\ kind = "node" /\ Depth = 0 => InnerLength = 0

\* The next element is a node; its children follow.
Node ==
    /\ MayGoOn
    /\ Depth <= MAX_DEPTH + 1
    /\ sent' = Append(sent, Depth)
    /\ lists' = Append(OneMore, 0)
    /\ IF verdict = "reading"
       THEN IF ListIsFull \/ Depth > MAX_DEPTH \/ remaining = 0
            THEN Refuse
            ELSE remaining' = remaining - 1 /\ UNCHANGED verdict
       ELSE UNCHANGED <<remaining, verdict>>
    /\ UNCHANGED kind

\* The next item of a batch is an error.
FailedItem ==
    /\ MayGoOn
    /\ kind = "batch" /\ Depth = 0
    /\ sent' = Append(sent, Failed)
    /\ lists' = OneMore
    /\ IF verdict = "reading" /\ ListIsFull
       THEN Refuse
       ELSE UNCHANGED <<remaining, verdict>>
    /\ UNCHANGED kind

\* The end of the innermost list, which the decoder sees before it makes the seed
\* of another node.
EndList ==
    /\ lists # <<>>
    /\ kind = "node" /\ Depth = 0 => InnerLength = 1
    /\ lists' = SubSeq(lists, 1, Len(lists) - 1)
    /\ verdict' = IF verdict = "reading" /\ Depth = 0 THEN "accepted" ELSE verdict
    /\ UNCHANGED <<kind, sent, remaining>>

TreeNext ==
    \/ \E k \in {"node", "forest", "batch"} : BeginTree(k)
    \/ Node
    \/ FailedItem
    \/ EndList

TreeSpec == TreeInit /\ [][TreeNext]_treeVars

-----------------------------------------------------------------------------
(* What the maker of a document counts. *)

Nodes == {i \in DOMAIN sent : sent[i] # Failed}

\* `count' when the validator is at node i.
CountAt(i) == Cardinality({j \in Nodes : j <= i})

\* The children of node i: one deeper, before the next that is not deeper.
Children(i) ==
    {j \in Nodes : /\ j > i /\ sent[j] = sent[i] + 1
                   /\ \A k \in i + 1 .. j : sent[k] # Failed /\ sent[k] > sent[i]}

\* Every node of the tree, as the recursion reaches it.
validate_node(i) ==
    /\ sent[i] <= MAX_DEPTH
    /\ CountAt(i) <= MAX_RETURNED_NODES
    /\ Cardinality(Children(i)) <= MAX_RETURNED_NODES - CountAt(i)

validate_node_roots == \A i \in Nodes : validate_node(i)

Items == {i \in DOMAIN sent : sent[i] = Failed \/ sent[i] = 0}

\* `try_from' of NodeForest and of NodeBatch.
TryFrom ==
    /\ Cardinality(Items) <= (IF kind = "batch" THEN MAX_INPUT_IDS ELSE MAX_RETURNED_NODES)
    /\ validate_node_roots

Ended == kind # "none" /\ lists = <<>>

\* The decoder takes exactly the documents their makers may make, neither one node
\* nor one level nor one item more or fewer, and those are the documents within
\* the limits.
SameTrees ==
    Ended => /\ verdict = "accepted" <=> TryFrom
             /\ verdict = "accepted" <=>
                    /\ Cardinality(Nodes) <= MAX_RETURNED_NODES
                    /\ \A i \in Nodes : sent[i] <= MAX_DEPTH
                    /\ kind = "batch" => Cardinality(Items) <= MAX_INPUT_IDS
=============================================================================
