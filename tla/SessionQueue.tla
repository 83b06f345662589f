---------------------------- MODULE SessionQueue ----------------------------
(***************************************************************************)
(* `SessionQueue` of crates/broker/src/queue.rs with the two handles that  *)
(* `try_enqueue` returns: the ticket, whose drop gives the slot or place   *)
(* back, and the `DispatchWait`, the receiving half of a one-shot channel  *)
(* that resolves when the slot is granted.  Callers on any thread may drop *)
(* either handle at any time, in either order; only the ticket's drop      *)
(* takes the mutex.                                                        *)
(***************************************************************************)
EXTENDS SlotQueue

CONSTANT MaxId   \* ids handed out in a behaviour; the code's u64 counter has no such bound
ASSUME MaxIdAssumption == MaxId \in Nat

Ids == 1..MaxId

VARIABLES queue,     \* the Inner record, see SlotQueue
          next_id,
          ticket,    \* per id: "none", "held" or "dropped"
          wait       \* per id, the one-shot channel seen from the receiver
vars == <<queue, next_id, ticket, wait>>

\* "open": the sender is in the line; "sent": Ok(()) is in the channel;
\* "lost": the sender was dropped; the last three are where a receiver ends.
WaitStates == {"none", "open", "sent", "lost", "granted", "cancelled", "dropped"}

Init == /\ queue = EmptyQueue
        /\ next_id = 1
        /\ ticket = [id \in Ids |-> "none"]
        /\ wait = [id \in Ids |-> "none"]

MutexFree == ~queue.promoting

\* Receivers a notification can still reach.
Listening == {id \in Ids : wait[id] = "open"}

\* `try_enqueue`, one disjunct per branch.  A refusal consumes an id and drops
\* both halves of the channel.
EnqueueDirect(id) == /\ HasSlot(queue)
                     /\ ticket' = [ticket EXCEPT ![id] = "held"]
                     /\ wait' = [wait EXCEPT ![id] = "sent"]
                     /\ queue' = Enqueue(queue, id)
EnqueueInLine(id) == /\ ~HasSlot(queue) /\ ~IsFull(queue)
                     /\ ticket' = [ticket EXCEPT ![id] = "held"]
                     /\ wait' = [wait EXCEPT ![id] = "open"]
                     /\ queue' = Enqueue(queue, id)
EnqueueRefused    == IsFull(queue) /\ UNCHANGED <<queue, ticket, wait>>

TryEnqueue == /\ MutexFree /\ next_id <= MaxId
              /\ next_id' = next_id + 1
              /\ EnqueueDirect(next_id) \/ EnqueueInLine(next_id) \/ EnqueueRefused

\* `QueueTicket::drop`.  Leaving the line drops the sender with the Waiter.
DropTicket(id) ==
    /\ MutexFree /\ ticket[id] = "held"
    /\ ticket' = [ticket EXCEPT ![id] = "dropped"]
    /\ queue' = Release(queue, id)
    /\ wait' = [wait EXCEPT ![id] = IF id \in Line(queue) /\ @ = "open" THEN "lost" ELSE @]
    /\ UNCHANGED next_id

\* One turn of the loop of `promote`, the mutex still held.
Promote ==
    /\ queue.promoting
    /\ queue' = PromoteOnce(queue, Listening)
    /\ wait' = IF Granted(queue, Listening)
                 THEN [wait EXCEPT ![Head(queue.waiting)] = "sent"] ELSE wait
    /\ UNCHANGED <<next_id, ticket>>

\* `DispatchWait::wait` resolves, or the handle is dropped unawaited.
WaitReturns(id) == /\ wait[id] \in {"sent", "lost"}
                   /\ wait' = [wait EXCEPT ![id] = IF @ = "sent" THEN "granted" ELSE "cancelled"]
                   /\ UNCHANGED <<queue, next_id, ticket>>
DropWait(id)    == /\ wait[id] \in {"open", "sent", "lost"}
                   /\ wait' = [wait EXCEPT ![id] = "dropped"]
                   /\ UNCHANGED <<queue, next_id, ticket>>

Next == \/ TryEnqueue \/ Promote
        \/ \E id \in Ids : DropTicket(id) \/ WaitReturns(id) \/ DropWait(id)

Spec == Init /\ [][Next]_vars

\* A thread inside `promote` keeps running, and whoever holds a slot drops its
\* ticket in the end, because its pending request is answered, cancelled or
\* expired (Broker checks that).  Nobody in line is obliged to give up.
GiveBack(id) == id \in queue.active /\ DropTicket(id)
Fairness == WF_vars(Promote) /\ \A id \in Ids : WF_vars(GiveBack(id))
FairSpec == Spec /\ Fairness

-----------------------------------------------------------------------------
\* The types; the slot count in particular is never decremented below zero.
TypeOK == /\ queue \in [in_flight : Nat, waiting : Seq(Ids), active : SUBSET Ids,
                        promoting : BOOLEAN]
          /\ next_id \in 1..(MaxId + 1)
          /\ ticket \in [Ids -> {"none", "held", "dropped"}]
          /\ wait \in [Ids -> WaitStates]

\* The queue's own books balance whatever the callers do with their handles:
\* the slot count is the number of holders and never exceeds the limit, nobody
\* has two places, and no one waits while a slot is free.
BooksBalance == Balanced(queue)

\* No slot and no place is leaked: each is owned by a ticket not yet dropped,
\* also when a notification failed and the slot was taken back.
PlacesAreHeld == \A id \in Places(queue) : ticket[id] = "held"

\* A caller told it was granted holds a slot until it drops its ticket, and a
\* caller that still listens has not been forgotten: it is in line.
GrantsAreReal == \A id \in Ids :
    /\ wait[id] \in {"sent", "granted"} /\ ticket[id] = "held" => id \in queue.active
    /\ wait[id] = "open" => ticket[id] = "held" /\ id \in Line(queue)

\* No overtaking: whoever gets a slot arrived before everyone left in line.
NoOvertaking == [][\A id \in queue'.active \ queue.active :
                     \A other \in Line(queue') : id < other]_vars

\* A ticket holder that keeps listening gets its slot, as long as the others
\* give theirs up in the end.
EveryWaiterResolves == \A id \in Ids : wait[id] = "open" ~> wait[id] # "open"

Semaphore == INSTANCE SlotSemaphore WITH
    Slots <- MAX_IN_FLIGHT, Capacity <- MAX_QUEUE,
    holders <- queue.active, line <- queue.waiting

\* The queue behaves as a first-come, first-served bounded semaphore, and
\* never withholds a free slot from the line.
IsSemaphore == Semaphore!Spec
=============================================================================
