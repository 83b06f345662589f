------------------------ MODULE SessionQueue_proofs ------------------------
(***************************************************************************)
(* SessionQueue is safe for every limit, every queue length and any number *)
(* of callers: its invariants hold, nobody is overtaken, and each of its   *)
(* steps is a step of SlotSemaphore.                                       *)
(***************************************************************************)
EXTENDS SessionQueue, SlotQueue_proofs

\* The line is in order of arrival: ids are handed out in increasing order
\* under the mutex, and nothing that leaves the line reorders it.
LineIsSorted == \A i, j \in DOMAIN queue.waiting : i < j => queue.waiting[i] < queue.waiting[j]

\* Ids not handed out yet have no ticket and no channel.
Unissued == \A id \in Ids : id >= next_id => ticket[id] = "none" /\ wait[id] = "none"

\* The inductive invariant: the checked invariants need both facts above, the
\* order of the line and the freshness of the next id.
IInv == TypeOK /\ BooksBalance /\ PlacesAreHeld /\ GrantsAreReal /\ LineIsSorted /\ Unissued

\* The type invariant in the words of the lemmas of SlotQueue_proofs.
LEMMA QueueTyped == TypeOK <=> /\ queue \in QueueType(Ids)
                               /\ next_id \in 1..(MaxId + 1)
                               /\ ticket \in [Ids -> {"none", "held", "dropped"}]
                               /\ wait \in [Ids -> WaitStates]
  BY DEF TypeOK, QueueType

\* `SessionQueue::new` establishes the invariant.
LEMMA InitIInv == Init => IInv
<1> SUFFICES ASSUME Init PROVE IInv
  OBVIOUS
<1>1. queue \in QueueType(Ids) /\ Balanced(queue) /\ Places(queue) = {} /\ queue.waiting = <<>>
  BY EmptyKeeps DEF Init, EmptyQueue
<1>2. TypeOK
  BY <1>1, QueueTyped, MaxIdAssumption DEF Init, WaitStates
<1> QED BY <1>1, <1>2 DEF Init, IInv, BooksBalance, PlacesAreHeld, GrantsAreReal,
                           LineIsSorted, Unissued

\* `try_enqueue`, in its three outcomes.
LEMMA TryEnqueueIInv == IInv /\ TryEnqueue => IInv'
<1> SUFFICES ASSUME IInv, TryEnqueue PROVE IInv'
  OBVIOUS
<1> DEFINE n == next_id
<1>1. /\ queue \in QueueType(Ids) /\ Balanced(queue) /\ ~queue.promoting /\ n \in Ids
      /\ n + 1 \in 1..(MaxId + 1) /\ next_id' = n + 1
      /\ ticket \in [Ids -> {"none", "held", "dropped"}] /\ wait \in [Ids -> WaitStates]
  BY QueueTyped, MaxIdAssumption DEF IInv, BooksBalance, TryEnqueue, MutexFree, Ids
<1>2. ticket[n] = "none" /\ wait[n] = "none"
  BY <1>1 DEF IInv, Unissued, Ids
<1>3. \A id \in Places(queue) : id \in Ids /\ id < n
  <2> SUFFICES ASSUME NEW id \in Places(queue) PROVE id \in Ids /\ id < n
    OBVIOUS
  <2>1. id \in Ids
    BY <1>1 DEF Places, Line, Range, QueueType
  <2>2. ticket[id] = "held"
    BY DEF IInv, PlacesAreHeld
  <2> QED BY <1>1, <2>1, <2>2 DEF IInv, Unissued, Ids
<1>4. n \notin Places(queue)
  BY <1>1, <1>3 DEF Ids
<1>5. CASE EnqueueRefused
  <2>1. UNCHANGED <<queue, ticket, wait>>
    BY <1>5 DEF EnqueueRefused
  <2>2. TypeOK' /\ Unissued'
    BY <1>1, <2>1 DEF TypeOK, QueueType, IInv, Unissued, Ids
  <2> QED BY <2>1, <2>2 DEF IInv, BooksBalance, PlacesAreHeld, GrantsAreReal, LineIsSorted
<1>6. CASE EnqueueDirect(n)
  <2>1. ~IsFull(queue) /\ HasSlot(queue) /\ queue' = Enqueue(queue, n)
    BY <1>6 DEF EnqueueDirect, IsFull
  <2>2. /\ queue' \in QueueType(Ids) /\ Balanced(queue')
        /\ Places(queue') = Places(queue) \cup {n}
        /\ queue'.active = queue.active \cup {n} /\ queue'.waiting = queue.waiting
    BY <1>1, <1>4, <2>1, EnqueueKeeps
  <2>3. /\ ticket' = [ticket EXCEPT ![n] = "held"] /\ wait' = [wait EXCEPT ![n] = "sent"]
    BY <1>6 DEF EnqueueDirect
  <2>4. TypeOK'
    BY <1>1, <2>2, <2>3, QueueTyped DEF WaitStates, TypeOK, QueueType
  <2>5. PlacesAreHeld'
    BY <1>1, <1>3, <2>2, <2>3 DEF IInv, PlacesAreHeld
  <2>6. GrantsAreReal'
    BY <1>1, <1>2, <2>2, <2>3 DEF IInv, GrantsAreReal, Line
  <2>7. LineIsSorted' /\ Unissued'
    BY <1>1, <1>2, <2>2, <2>3 DEF IInv, LineIsSorted, Unissued, Ids
  <2> QED BY <2>2, <2>4, <2>5, <2>6, <2>7 DEF IInv, BooksBalance
<1>7. CASE EnqueueInLine(n)
  <2>1. ~IsFull(queue) /\ ~HasSlot(queue) /\ queue' = Enqueue(queue, n)
    BY <1>7 DEF EnqueueInLine
  <2>2. /\ queue' \in QueueType(Ids) /\ Balanced(queue')
        /\ Places(queue') = Places(queue) \cup {n}
        /\ queue'.active = queue.active /\ queue'.waiting = Append(queue.waiting, n)
    BY <1>1, <1>4, <2>1, EnqueueKeeps
  <2>3. /\ ticket' = [ticket EXCEPT ![n] = "held"] /\ wait' = [wait EXCEPT ![n] = "open"]
    BY <1>7 DEF EnqueueInLine
  <2>4. TypeOK'
    BY <1>1, <2>2, <2>3, QueueTyped DEF WaitStates, TypeOK, QueueType
  <2>5. PlacesAreHeld'
    BY <1>1, <1>3, <2>2, <2>3 DEF IInv, PlacesAreHeld
  <2>6. Line(queue') = Line(queue) \cup {n}
    BY <1>1, <2>2, LineFacts DEF Line, QueueType
  <2>7. GrantsAreReal'
    BY <1>1, <1>2, <2>2, <2>3, <2>6 DEF IInv, GrantsAreReal
  <2>8. LineIsSorted'
    <3> DEFINE s == queue.waiting
    <3>1. /\ s \in Seq(Ids) /\ \A i \in DOMAIN s : s[i] < n
          /\ DOMAIN s = 1..Len(s) /\ Len(s) \in Nat
      BY <1>1, <1>3 DEF QueueType, Places, Line, Range
    <3>2. /\ DOMAIN Append(s, n) = 1..(Len(s) + 1)
          /\ \A i \in 1..Len(s) : Append(s, n)[i] = s[i]
          /\ Append(s, n)[Len(s) + 1] = n
      BY <1>1, <3>1, AppendProperties
    <3>3. \A i, j \in 1..Len(s) : i < j => s[i] < s[j]
      BY <3>1 DEF IInv, LineIsSorted
    <3> HIDE DEF s
    <3>4. \A i, j \in 1..(Len(s) + 1) : i < j => Append(s, n)[i] < Append(s, n)[j]
      BY <3>1, <3>2, <3>3
    <3> QED BY <2>2, <3>2, <3>4 DEF LineIsSorted, s
  <2>9. Unissued'
    BY <1>1, <1>2, <2>3 DEF IInv, Unissued, Ids
  <2> QED BY <2>2, <2>4, <2>5, <2>7, <2>8, <2>9 DEF IInv, BooksBalance
<1> QED BY <1>5, <1>6, <1>7 DEF TryEnqueue

\* `QueueTicket::drop`, from the line, from a slot, or from neither.
LEMMA DropTicketIInv == ASSUME NEW id \in Ids, IInv, DropTicket(id) PROVE IInv'
<1>1. /\ queue \in QueueType(Ids) /\ Balanced(queue) /\ ~queue.promoting
      /\ ticket \in [Ids -> {"none", "held", "dropped"}] /\ wait \in [Ids -> WaitStates]
      /\ ticket[id] = "held" /\ next_id' = next_id /\ next_id \in 1..(MaxId + 1)
  BY QueueTyped DEF IInv, BooksBalance, DropTicket, MutexFree
<1>2. /\ queue' = Release(queue, id) /\ ticket' = [ticket EXCEPT ![id] = "dropped"]
      /\ wait' = [wait EXCEPT ![id] = IF id \in Line(queue) /\ @ = "open" THEN "lost" ELSE @]
  BY DEF DropTicket
<1>3. /\ queue' \in QueueType(Ids) /\ Balanced(queue')
      /\ Places(queue') = Places(queue) \ {id} /\ queue'.active = queue.active \ {id}
  BY <1>1, <1>2, ReleaseKeeps
<1>4. TypeOK'
  BY <1>1, <1>2, <1>3 DEF TypeOK, QueueType, WaitStates
<1>5. PlacesAreHeld'
  <2>1. \A x \in Places(queue) : x \in Ids
    BY <1>1 DEF Places, Line, Range, QueueType
  <2> QED BY <1>1, <1>2, <1>3, <2>1 DEF IInv, PlacesAreHeld
<1>6. Line(queue') = Line(queue) \ {id}
  BY <1>1, <1>3, LineOfPlaces DEF Balanced
<1>7. GrantsAreReal'
  BY <1>1, <1>2, <1>3, <1>6 DEF IInv, GrantsAreReal
<1>8. LineIsSorted'
  <2>1. CASE id \in Line(queue)
    <3> DEFINE s == queue.waiting
               p == Position(queue, id)
               t == RemoveAt(s, p)
    <3>1. queue'.waiting = t
      BY <1>1, <1>2, <2>1 DEF Release, Leave, QueueType
    <3>2. s \in Seq(Ids) /\ Len(s) \in Nat /\ p \in 1..Len(s) /\ DOMAIN s = 1..Len(s)
      BY <1>1, <2>1, LeaveKeeps DEF Balanced, QueueType
    <3>3. \A i, j \in 1..Len(s) : i < j => s[i] < s[j]
      BY <3>2 DEF IInv, LineIsSorted
    <3> HIDE DEF s, p
    <3>4. /\ DOMAIN t = 1..(Len(s) - 1)
          /\ \A k \in 1..(Len(s) - 1) : t[k] = IF k < p THEN s[k] ELSE s[k + 1]
      BY <3>2, RemoveAtFacts
    <3> HIDE DEF t
    <3>5. \A i, j \in 1..(Len(s) - 1) : i < j => t[i] < t[j]
      <4> SUFFICES ASSUME NEW i \in 1..(Len(s) - 1), NEW j \in 1..(Len(s) - 1), i < j
                   PROVE  t[i] < t[j]
        OBVIOUS
      <4> DEFINE at(k) == IF k < p THEN k ELSE k + 1
      <4>1. at(i) \in 1..Len(s) /\ at(j) \in 1..Len(s) /\ at(i) < at(j)
        BY <3>2
      <4>2. t[i] = s[at(i)] /\ t[j] = s[at(j)]
        BY <3>4
      <4> QED BY <4>1, <4>2, <3>3
    <3> QED BY <3>1, <3>4, <3>5 DEF LineIsSorted
  <2>2. CASE id \notin Line(queue)
    <3>1. queue'.waiting = queue.waiting
      BY <1>2, <2>2 DEF Release, Free
    <3> QED BY <3>1 DEF IInv, LineIsSorted
  <2> QED BY <2>1, <2>2
<1>9. Unissued'
  BY <1>1, <1>2 DEF IInv, Unissued, Ids
<1> QED BY <1>3, <1>4, <1>5, <1>7, <1>8, <1>9 DEF IInv, BooksBalance

\* The order of what is left when the head goes.
LEMMA TailIsSorted ==
    ASSUME TypeOK, LineIsSorted, queue.waiting # <<>>
    PROVE  /\ \A i, j \in DOMAIN Tail(queue.waiting) :
                 i < j => Tail(queue.waiting)[i] < Tail(queue.waiting)[j]
           /\ \A x \in Range(Tail(queue.waiting)) : Head(queue.waiting) < x
<1> DEFINE s == queue.waiting
           t == Tail(s)
<1>1. s \in Seq(Ids) /\ Len(s) \in Nat \ {0} /\ DOMAIN s = 1..Len(s) /\ Head(s) = s[1]
  BY DEF TypeOK
<1>2. DOMAIN t = 1..(Len(s) - 1) /\ \A i \in 1..(Len(s) - 1) : t[i] = s[i + 1]
  BY <1>1, HeadTailProperties
<1>3. \A i, j \in 1..Len(s) : i < j => s[i] < s[j]
  BY <1>1 DEF LineIsSorted
<1> HIDE DEF s, t
<1>4. \A i \in 1..(Len(s) - 1) : i + 1 \in 1..Len(s) /\ 1 < i + 1
  BY <1>1
<1>5. \A i, j \in 1..(Len(s) - 1) : i < j => t[i] < t[j]
  <2> SUFFICES ASSUME NEW i \in 1..(Len(s) - 1), NEW j \in 1..(Len(s) - 1), i < j
               PROVE  t[i] < t[j]
    OBVIOUS
  <2>1. i + 1 < j + 1 /\ s[i + 1] < s[j + 1]
    BY <1>3, <1>4
  <2> QED BY <2>1, <1>2
<1>6. \A x \in Range(t) : Head(s) < x
  <2> SUFFICES ASSUME NEW i \in 1..(Len(s) - 1) PROVE s[1] < s[i + 1]
    BY <1>1, <1>2 DEF Range
  <2> QED BY <1>1, <1>3, <1>4
<1> QED BY <1>2, <1>5, <1>6 DEF s, t

\* One turn of `promote`.
LEMMA PromoteIInv == IInv /\ Promote => IInv'
<1> SUFFICES ASSUME IInv, Promote PROVE IInv'
  OBVIOUS
<1> DEFINE h == Head(queue.waiting)
<1>1. /\ queue \in QueueType(Ids) /\ Balanced(queue) /\ queue.promoting
      /\ ticket \in [Ids -> {"none", "held", "dropped"}] /\ wait \in [Ids -> WaitStates]
      /\ next_id' = next_id /\ ticket' = ticket
      /\ queue' = PromoteOnce(queue, Listening)
      /\ wait' = IF Granted(queue, Listening) THEN [wait EXCEPT ![h] = "sent"] ELSE wait
  BY QueueTyped DEF IInv, BooksBalance, Promote
<1>2. /\ queue' \in QueueType(Ids) /\ Balanced(queue')
      /\ Places(queue') = IF CanPromote(queue) /\ ~Granted(queue, Listening)
                            THEN Places(queue) \ {h} ELSE Places(queue)
      /\ queue'.active = IF Granted(queue, Listening) THEN queue.active \cup {h} ELSE queue.active
      /\ queue'.waiting = IF CanPromote(queue) THEN Tail(queue.waiting) ELSE queue.waiting
  BY <1>1, PromoteKeeps
<1>3. Granted(queue, Listening) => CanPromote(queue) /\ h \in Ids /\ wait[h] = "open"
  BY DEF Granted, Listening
<1>4. CanPromote(queue) => h \in Line(queue) /\ h \notin queue.active /\ queue.waiting # <<>>
  BY <1>1, LineFacts DEF CanPromote, Line, Balanced, OnePlaceEach, QueueType
<1> HIDE DEF h
<1>5. TypeOK'
  <2>1. next_id \in 1..(MaxId + 1)
    BY DEF IInv, TypeOK
  <2> QED BY <1>1, <1>2, <1>3, <2>1 DEF TypeOK, QueueType, WaitStates
<1>6. PlacesAreHeld'
  BY <1>1, <1>2 DEF IInv, PlacesAreHeld
<1>7. Line(queue') = IF CanPromote(queue) THEN Line(queue) \ {h} ELSE Line(queue)
  BY <1>1, <1>2, <1>3, <1>4, LineOfPlaces DEF Balanced
<1>8. CanPromote(queue) /\ h \in Ids /\ wait[h] = "open" => Granted(queue, Listening)
  BY DEF Granted, Listening, h
<1>9. GrantsAreReal'
  <2> SUFFICES ASSUME NEW id \in Ids
               PROVE  /\ wait'[id] \in {"sent", "granted"} /\ ticket'[id] = "held" => id \in queue'.active
                      /\ wait'[id] = "open" => ticket'[id] = "held" /\ id \in Line(queue')
    BY DEF GrantsAreReal
  <2>1. /\ wait[id] \in {"sent", "granted"} /\ ticket[id] = "held" => id \in queue.active
        /\ wait[id] = "open" => ticket[id] = "held" /\ id \in Line(queue)
    BY DEF IInv, GrantsAreReal
  <2>2. CASE id = h /\ Granted(queue, Listening)
    BY <1>1, <1>2, <1>3, <2>2
  <2>3. CASE ~(id = h /\ Granted(queue, Listening))
    <3>1. wait'[id] = wait[id]
      BY <1>1, <1>3, <2>3
    <3>2. wait[id] = "open" => ~(CanPromote(queue) /\ id = h)
      BY <1>8, <2>3
    <3> QED BY <1>1, <1>2, <1>7, <2>1, <3>1, <3>2
  <2> QED BY <2>2, <2>3
<1>10. LineIsSorted'
  BY <1>2, <1>4, TailIsSorted DEF IInv, LineIsSorted
<1>11. Unissued'
  BY <1>1, <1>3 DEF IInv, Unissued, GrantsAreReal
<1> QED BY <1>2, <1>5, <1>6, <1>9, <1>10, <1>11 DEF IInv, BooksBalance

\* The receiver's own moves touch nothing but its channel.
LEMMA WaitMovesIInv ==
    ASSUME NEW id \in Ids, IInv, WaitReturns(id) \/ DropWait(id) PROVE IInv'
<1>1. /\ wait \in [Ids -> WaitStates] /\ UNCHANGED <<queue, next_id, ticket>>
      /\ wait[id] \in {"open", "sent", "lost"}
      /\ \E w \in {"granted", "cancelled", "dropped"} :
            /\ wait' = [wait EXCEPT ![id] = w]
            /\ w = "granted" => wait[id] = "sent"
  BY DEF IInv, TypeOK, WaitReturns, DropWait
<1>2. PICK w \in {"granted", "cancelled", "dropped"} :
          wait' = [wait EXCEPT ![id] = w] /\ (w = "granted" => wait[id] = "sent")
  BY <1>1
<1>3. TypeOK'
  BY <1>1, <1>2 DEF IInv, TypeOK, WaitStates
<1>4. GrantsAreReal'
  BY <1>1, <1>2 DEF IInv, GrantsAreReal
<1>5. Unissued'
  BY <1>1, <1>2 DEF IInv, Unissued
<1> QED BY <1>1, <1>3, <1>4, <1>5 DEF IInv, BooksBalance, PlacesAreHeld, LineIsSorted

\* Every step of every caller and of `promote` keeps it.
LEMMA StepIInv == IInv /\ [Next]_vars => IInv'
<1> SUFFICES ASSUME IInv, [Next]_vars PROVE IInv'
  OBVIOUS
<1>1. CASE UNCHANGED vars
  BY <1>1 DEF vars, IInv, TypeOK, BooksBalance, PlacesAreHeld, GrantsAreReal, LineIsSorted, Unissued
<1>2. CASE TryEnqueue
  BY <1>2, TryEnqueueIInv
<1>3. CASE Promote
  BY <1>3, PromoteIInv
<1>4. CASE \E id \in Ids : DropTicket(id) \/ WaitReturns(id) \/ DropWait(id)
  BY <1>4, DropTicketIInv, WaitMovesIInv
<1> QED BY <1>1, <1>2, <1>3, <1>4 DEF Next

-----------------------------------------------------------------------------
\* The inductive invariant holds in every reachable state of the queue.
THEOREM Invariance == Spec => []IInv
  BY InitIInv, StepIInv, PTL DEF Spec

\* Every variable keeps its type.
THEOREM TypeCorrect == Spec => []TypeOK
  BY Invariance, PTL DEF IInv

\* The slot count is exact and within its limit, and no slot is idle while
\* somebody waits, for every limit, queue length and number of callers.
THEOREM BooksAlwaysBalance == Spec => []BooksBalance
  BY Invariance, PTL DEF IInv

\* No slot or place outlives the ticket it was given to.
THEOREM NothingLeaks == Spec => []PlacesAreHeld
  BY Invariance, PTL DEF IInv

\* A grant is backed by a slot, and a listener has not lost its place.
THEOREM GrantsAlwaysReal == Spec => []GrantsAreReal
  BY Invariance, PTL DEF IInv

\* One step grants slots only to ids that are smaller than all left in line.
LEMMA StepInOrder ==
    ASSUME IInv, [Next]_vars
    PROVE  \A id \in queue'.active \ queue.active : \A other \in Line(queue') : id < other
<1> SUFFICES ASSUME NEW id \in queue'.active \ queue.active, NEW other \in Line(queue')
             PROVE  id < other
  OBVIOUS
<1>1. queue \in QueueType(Ids) /\ Balanced(queue)
  BY QueueTyped DEF IInv, BooksBalance
<1>2. CASE UNCHANGED vars
  BY <1>2 DEF vars
<1>3. CASE TryEnqueue
  <2>1. queue' = Enqueue(queue, next_id) /\ ~IsFull(queue)
    BY <1>3 DEF TryEnqueue, EnqueueDirect, EnqueueInLine, EnqueueRefused, IsFull
  <2>2. CASE HasSlot(queue)
    <3>1. queue'.waiting = <<>>
      BY <2>1, <2>2 DEF Enqueue, Take, HasSlot
    <3> QED BY <3>1 DEF Line, Range
  <2>3. CASE ~HasSlot(queue)
    BY <2>1, <2>3, <1>1 DEF Enqueue, Join, QueueType
  <2> QED BY <2>2, <2>3
<1>4. CASE Promote
  <2>1. queue' = PromoteOnce(queue, Listening) /\ queue.promoting
    BY <1>4 DEF Promote
  <2>2. /\ queue'.active = IF Granted(queue, Listening)
                             THEN queue.active \cup {Head(queue.waiting)} ELSE queue.active
        /\ queue'.waiting = IF CanPromote(queue) THEN Tail(queue.waiting) ELSE queue.waiting
    BY <1>1, <2>1, PromoteKeeps
  <2>3. Granted(queue, Listening) /\ id = Head(queue.waiting)
    BY <2>2
  <2>4. queue'.waiting = Tail(queue.waiting) /\ queue.waiting # <<>>
    BY <2>2, <2>3 DEF Granted, CanPromote
  <2> QED BY <2>3, <2>4, TailIsSorted DEF IInv, Line
<1>5. CASE \E x \in Ids : DropTicket(x)
  <2>1. PICK x \in Ids : queue' = Release(queue, x) /\ ~queue.promoting
    BY <1>5 DEF DropTicket, MutexFree
  <2> QED BY <1>1, <2>1, ReleaseKeeps
<1>6. CASE \E x \in Ids : WaitReturns(x) \/ DropWait(x)
  BY <1>6 DEF WaitReturns, DropWait
<1> QED BY <1>2, <1>3, <1>4, <1>5, <1>6 DEF Next

\* A slot always goes to the earliest arrival.
THEOREM NeverOvertaken == Spec => NoOvertaking
<1>1. IInv /\ [Next]_vars => [\A id \in queue'.active \ queue.active :
                                \A other \in Line(queue') : id < other]_vars
  BY StepInOrder
<1> QED BY <1>1, Invariance, PTL DEF Spec, NoOvertaking

-----------------------------------------------------------------------------
(* The queue implements the semaphore: the safety part, step by step.  That *)
(* a free slot is not withheld is a liveness property and is left to TLC.   *)

\* An empty queue is an idle semaphore.
LEMMA InitSimulates == Init => Semaphore!Init
  BY DEF Init, EmptyQueue, Semaphore!Init

\* Each step of the queue is a step of the semaphore or changes neither the
\* holders nor the line.
LEMMA StepSimulates == IInv /\ [Next]_vars => [Semaphore!Next]_(Semaphore!vars)
<1> SUFFICES ASSUME IInv, [Next]_vars PROVE [Semaphore!Next]_(Semaphore!vars)
  OBVIOUS
<1>1. queue \in QueueType(Ids) /\ Balanced(queue)
  BY QueueTyped DEF IInv, BooksBalance
<1>2. queue.in_flight = Cardinality(queue.active) /\ queue.in_flight \in Nat
      /\ queue.in_flight <= MAX_IN_FLIGHT /\ MAX_IN_FLIGHT \in Nat
  BY <1>1, SlotsAssumption DEF Balanced, SlotsCounted, QueueType
<1>3. CASE queue' = queue
  BY <1>3 DEF Semaphore!vars
<1>0. /\ \A S : Semaphore!Cardinality(S) = Cardinality(S)
      /\ \A f : Semaphore!Range(f) = Range(f)
      /\ \A f, i : Semaphore!RemoveAt(f, i) = RemoveAt(f, i)
  BY DEF Semaphore!Cardinality, Cardinality, Semaphore!Range, Range, Semaphore!RemoveAt, RemoveAt
<1>4. CASE TryEnqueue /\ queue' # queue
  <2>1. /\ queue' = Enqueue(queue, next_id) /\ ~IsFull(queue) /\ ~queue.promoting
        /\ next_id \in Ids
    BY <1>4 DEF TryEnqueue, EnqueueDirect, EnqueueInLine, EnqueueRefused, IsFull, MutexFree,
                IInv, TypeOK, Ids
  <2>2. next_id \notin Places(queue)
    <3>1. ticket[next_id] = "none"
      BY <2>1 DEF IInv, TypeOK, Unissued, Ids
    <3> QED BY <3>1 DEF IInv, PlacesAreHeld
  <2>3. next_id \notin queue.active \cup Range(queue.waiting)
    BY <2>2 DEF Places, Line
  <2>4. CASE HasSlot(queue)
    <3>1. /\ queue'.active = queue.active \cup {next_id} /\ queue'.waiting = queue.waiting
          /\ queue.waiting = <<>> /\ Cardinality(queue.active) < MAX_IN_FLIGHT
      BY <1>1, <1>2, <2>1, <2>2, <2>4, EnqueueKeeps DEF HasSlot
    <3>2. Semaphore!Arrive(next_id)
      BY <1>0, <2>3, <3>1 DEF Semaphore!Arrive
    <3> QED BY <2>1, <3>2 DEF Semaphore!Next
  <2>5. CASE ~HasSlot(queue)
    <3>1. /\ queue'.active = queue.active /\ queue'.waiting = Append(queue.waiting, next_id)
      BY <1>1, <2>1, <2>2, <2>5, EnqueueKeeps
    <3>2. Cardinality(queue.active) = MAX_IN_FLIGHT
      BY <1>1, <1>2, <2>1, <2>5 DEF HasSlot, Balanced, WorkConserving
    <3>3. Len(queue.waiting) < MAX_QUEUE
      BY <1>1, <2>1, <2>5, PlacesAssumption DEF IsFull, QueueType
    <3>4. Semaphore!Arrive(next_id)
      BY <1>0, <2>3, <3>1, <3>2, <3>3 DEF Semaphore!Arrive
    <3> QED BY <2>1, <3>4 DEF Semaphore!Next
  <2> QED BY <2>4, <2>5
<1>5. CASE Promote
  <2>1. queue' = PromoteOnce(queue, Listening) /\ queue.promoting
    BY <1>5 DEF Promote
  <2>2. CASE Granted(queue, Listening)
    <3>1. /\ queue'.active = queue.active \cup {Head(queue.waiting)}
          /\ queue'.waiting = Tail(queue.waiting) /\ queue.waiting # <<>>
          /\ Cardinality(queue.active) < MAX_IN_FLIGHT
      BY <1>1, <1>2, <2>1, <2>2, PromoteKeeps DEF Granted, CanPromote
    <3> QED BY <1>0, <3>1 DEF Semaphore!Grant, Semaphore!Next
  <2>3. CASE CanPromote(queue) /\ ~Granted(queue, Listening)
    <3>1. queue'.active = queue.active /\ queue'.waiting = Tail(queue.waiting)
      BY <1>1, <2>1, <2>3, PromoteKeeps
    <3>2. queue.waiting \in Seq(Ids) /\ queue.waiting # <<>>
      BY <1>1, <2>3 DEF CanPromote, QueueType
    <3>3. 1 \in DOMAIN queue.waiting /\ RemoveAt(queue.waiting, 1) = Tail(queue.waiting)
      <4> DEFINE s == queue.waiting
      <4>1. s \in Seq(Ids) /\ Len(s) \in Nat \ {0} /\ DOMAIN s = 1..Len(s)
        BY <3>2
      <4>2. SubSeq(s, 1, 0) = <<>> /\ SubSeq(s, 2, Len(s)) \in Seq(Ids)
        BY <4>1
      <4>3. RemoveAt(s, 1) = SubSeq(s, 2, Len(s))
        BY <4>2, ConcatEmptySeq DEF RemoveAt
      <4>4. Tail(s) = SubSeq(s, 2, Len(s))
        BY <3>2, TailIsSubSeq
      <4>5. 1 \in DOMAIN s
        BY <4>1
      <4>6. RemoveAt(s, 1) = Tail(s)
        BY <4>3, <4>4
      <4> QED BY <4>5, <4>6
    <3>4. Semaphore!GiveUp(1)
      BY <1>0, <3>1, <3>3 DEF Semaphore!GiveUp
    <3> QED BY <3>3, <3>4 DEF Semaphore!Next
  <2>4. CASE ~CanPromote(queue)
    <3>1. queue'.active = queue.active /\ queue'.waiting = queue.waiting
      BY <1>1, <2>1, <2>4, PromoteKeeps DEF Granted
    <3> QED BY <3>1 DEF Semaphore!vars
  <2> QED BY <2>2, <2>3, <2>4
<1>6. ASSUME NEW x \in Ids, DropTicket(x) PROVE [Semaphore!Next]_(Semaphore!vars)
  <2>1. queue' = Release(queue, x)
    BY <1>6 DEF DropTicket
  <2>2. CASE x \in Line(queue)
    <3>1. /\ queue'.active = queue.active
          /\ queue'.waiting = RemoveAt(queue.waiting, Position(queue, x))
      BY <1>1, <2>1, <2>2 DEF Release, Leave, QueueType
    <3>2. Position(queue, x) \in DOMAIN queue.waiting
      BY <1>1, <2>2, LeaveKeeps DEF Balanced, QueueType
    <3> QED BY <1>0, <3>1, <3>2 DEF Semaphore!Next, Semaphore!GiveUp
  <2>3. CASE x \notin Line(queue) /\ x \in queue.active
    <3>1. queue'.active = queue.active \ {x} /\ queue'.waiting = queue.waiting
      BY <2>1, <2>3 DEF Release, Free
    <3> QED BY <2>3, <3>1 DEF Semaphore!Next, Semaphore!Finish
  <2>4. CASE x \notin Line(queue) /\ x \notin queue.active
    BY <1>3, <2>1, <2>4 DEF Release
  <2> QED BY <2>2, <2>3, <2>4
<1>7. CASE \E x \in Ids : WaitReturns(x) \/ DropWait(x)
  BY <1>3, <1>7 DEF WaitReturns, DropWait
<1> QED BY <1>3, <1>4, <1>5, <1>6, <1>7 DEF Next, vars

\* Every behaviour of the queue, its handles hidden, is one of the first-come
\* first-served semaphore.
THEOREM ImplementsSemaphore == Spec => Semaphore!Init /\ [][Semaphore!Next]_(Semaphore!vars)
  BY InitSimulates, StepSimulates, Invariance, PTL DEF Spec
=============================================================================
