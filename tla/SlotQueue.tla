----------------------------- MODULE SlotQueue -----------------------------
(***************************************************************************)
(* The state behind `SessionQueue::inner` (crates/broker/src/queue.rs) and *)
(* the operations its methods perform on it while they hold its mutex.     *)
(*                                                                         *)
(* A queue is a record: `in_flight` counts the slots that are taken,       *)
(* `active` names who holds them, `waiting` is the line of those admitted  *)
(* without a slot.  `promoting` is not a field of the code: it is TRUE     *)
(* while a thread is inside the loop of `promote`, with the mutex held.    *)
(* That loop is not one step: each of its iterations tries to notify the   *)
(* head of the line, and whether the receiver still exists is decided by   *)
(* other threads, which need no mutex to drop it.                          *)
(*                                                                         *)
(* The identifiers are opaque here.  SessionQueue draws them from the      *)
(* code's counter; Broker uses the request that owns the ticket.           *)
(***************************************************************************)
EXTENDS Naturals, FiniteSets, Sequences, SequencesExt

CONSTANTS MAX_IN_FLIGHT,   \* slots of one session (limits.rs: 4)
          MAX_QUEUE        \* places in line of one session (limits.rs: 16)

ASSUME SlotsAssumption == MAX_IN_FLIGHT \in Nat \ {0}
ASSUME PlacesAssumption == MAX_QUEUE \in Nat

EmptyQueue == [in_flight |-> 0, waiting |-> <<>>, active |-> {}, promoting |-> FALSE]

Line(q) == Range(q.waiting)

\* Both tests of `try_enqueue`, in the order the code makes them.
HasSlot(q) == q.in_flight < MAX_IN_FLIGHT /\ q.waiting = <<>>
IsFull(q)  == ~HasSlot(q) /\ Len(q.waiting) >= MAX_QUEUE

Take(q, id) == [in_flight |-> q.in_flight + 1, active |-> q.active \cup {id},
                waiting |-> q.waiting, promoting |-> q.promoting]
Join(q, id) == [q EXCEPT !.waiting = Append(@, id)]

\* What a successful `try_enqueue` leaves; its caller has checked ~IsFull(q).
Enqueue(q, id) == IF HasSlot(q) THEN Take(q, id) ELSE Join(q, id)

\* `release` for someone still in line, for a holder (which enters the loop
\* of `promote`), and for an id that a failed notification already removed.
HeadPosition(q, id) == 1                     \* mutant: remove(0)
Position(q, id) == CHOOSE i \in DOMAIN q.waiting : q.waiting[i] = id
Leave(q, id)    == [q EXCEPT !.waiting = RemoveAt(@, Position(q, id))]
FreeIdle(q, id) == [in_flight |-> q.in_flight - 1, active |-> q.active \ {id},
                    waiting |-> q.waiting, promoting |-> FALSE]   \* mutant: no promote
Free(q, id)     == [in_flight |-> q.in_flight - 1, active |-> q.active \ {id},
                    waiting |-> q.waiting, promoting |-> TRUE]
\* mutant: the line not searched
ReleaseSlotOnly(q, id)  == IF id \in q.active THEN Free(q, id) ELSE q
Release(q, id)  == CASE id \in Line(q) -> Leave(q, id)
                     [] id \notin Line(q) /\ id \in q.active -> Free(q, id)
                     [] OTHER -> q

\* One iteration of the loop of `promote`.  It ends when no slot is free or
\* nobody waits; otherwise the head leaves the line, and keeps the slot only
\* if its receiver is still there to be notified.
CanPromote(q)        == q.in_flight < MAX_IN_FLIGHT /\ q.waiting # <<>>
Granted(q, alive)    == CanPromote(q) /\ Head(q.waiting) \in alive
PopHead(q)           == [q EXCEPT !.waiting = Tail(@)]
\* mutants: a failed notification undone by half; the last in line goes first
PromoteHalfUndone(q, alive) ==
    CASE ~CanPromote(q)    -> [q EXCEPT !.promoting = FALSE]
      [] Granted(q, alive) -> Take(PopHead(q), Head(q.waiting))
      [] OTHER             -> [PopHead(q) EXCEPT !.active = @ \cup {Head(q.waiting)}]
PromoteLast(q, alive) ==
    CASE ~CanPromote(q)    -> [q EXCEPT !.promoting = FALSE]
      [] CanPromote(q) /\ Last(q.waiting) \in alive
                           -> Take([q EXCEPT !.waiting = Front(@)], Last(q.waiting))
      [] OTHER             -> [q EXCEPT !.waiting = Front(@)]
PromoteOnce(q, alive) ==
    CASE ~CanPromote(q)    -> [q EXCEPT !.promoting = FALSE]
      [] Granted(q, alive) -> Take(PopHead(q), Head(q.waiting))
      [] OTHER             -> PopHead(q)

-----------------------------------------------------------------------------
(* What every operation above keeps.                                       *)

\* The count the code compares with its limit is the number of holders.
SlotsCounted(q) == /\ IsFiniteSet(q.active)
                   /\ q.in_flight = Cardinality(q.active)
                   /\ q.in_flight <= MAX_IN_FLIGHT

\* Nobody is in line twice, or in line and holding a slot.
OnePlaceEach(q) == /\ \A i, j \in DOMAIN q.waiting : q.waiting[i] = q.waiting[j] => i = j
                   /\ Line(q) \cap q.active = {}

\* Nobody waits while a slot is free, except inside the loop that fills it.
WorkConserving(q) == q.waiting # <<>> => (q.in_flight = MAX_IN_FLIGHT \/ q.promoting)

Balanced(q) == SlotsCounted(q) /\ OnePlaceEach(q) /\ WorkConserving(q)

\* Everyone the queue keeps a slot or a place for.
Places(q) == q.active \cup Line(q)
=============================================================================
