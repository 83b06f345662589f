--------------------------- MODULE SlotSemaphore ---------------------------
(***************************************************************************)
(* What a session's admission queue promises: a semaphore with a bounded   *)
(* line that is served first come, first served.  An arrival takes a slot  *)
(* only when nobody is in line; a freed slot goes to the head of the line; *)
(* anyone may give up.  SessionQueue implements this.                      *)
(***************************************************************************)
EXTENDS Naturals, FiniteSets, Sequences, SequencesExt

CONSTANTS Ids, Slots, Capacity

VARIABLES holders,   \* who has a slot
          line       \* who waits for one, in order of arrival
vars == <<holders, line>>

Init == holders = {} /\ line = <<>>

Arrive(id) ==
    /\ id \notin holders \cup Range(line)
    /\ \/ /\ line = <<>> /\ Cardinality(holders) < Slots
          /\ holders' = holders \cup {id} /\ UNCHANGED line
       \/ /\ Len(line) < Capacity
          /\ Cardinality(holders) = Slots
          /\ line' = Append(line, id) /\ UNCHANGED holders

Grant == /\ line # <<>> /\ Cardinality(holders) < Slots
         /\ holders' = holders \cup {Head(line)} /\ line' = Tail(line)

GiveUp(i)  == i \in DOMAIN line /\ line' = RemoveAt(line, i) /\ UNCHANGED holders
Finish(id) == id \in holders /\ holders' = holders \ {id} /\ UNCHANGED line

Next == \/ \E id \in Ids : Arrive(id) \/ Finish(id)
        \/ Grant
        \/ \E i \in DOMAIN line : GiveUp(i)

\* A free slot is not withheld from a line.
Spec == Init /\ [][Next]_vars /\ WF_vars(Grant)
=============================================================================
