-------------------------- MODULE SlotQueue_proofs --------------------------
(***************************************************************************)
(* What the operations of SlotQueue keep, for every limit and every set of *)
(* identifiers.  The proofs about SessionQueue and Broker cite these.      *)
(***************************************************************************)
EXTENDS SlotQueue, FiniteSetTheorems, SequenceTheorems, TLAPS

QueueType(S) == [in_flight : Nat, waiting : Seq(S), active : SUBSET S, promoting : BOOLEAN]

\* Someone in line holds no slot, so the line is what is left of the places.
LEMMA LineOfPlaces == ASSUME NEW q, OnePlaceEach(q) PROVE Line(q) = Places(q) \ q.active
  BY DEF OnePlaceEach, Places

\* Removing one place closes the gap and keeps the order of the others.
LEMMA RemoveAtFacts ==
    ASSUME NEW S, NEW s \in Seq(S), NEW i \in 1..Len(s)
    PROVE  /\ RemoveAt(s, i) \in Seq(S)
           /\ Len(RemoveAt(s, i)) = Len(s) - 1
           /\ \A k \in 1..(Len(s) - 1) :
                 RemoveAt(s, i)[k] = IF k < i THEN s[k] ELSE s[k + 1]
<1> DEFINE a == SubSeq(s, 1, i - 1)
           b == SubSeq(s, i + 1, Len(s))
<1>1. a \in Seq(S) /\ Len(a) = i - 1 /\ \A k \in 1..(i - 1) : a[k] = s[k]
  OBVIOUS
<1>2. b \in Seq(S) /\ Len(b) = Len(s) - i /\ \A k \in 1..(Len(s) - i) : b[k] = s[i + k]
  OBVIOUS
<1>3. RemoveAt(s, i) = a \o b
  BY DEF RemoveAt
<1> HIDE DEF a, b
<1>4. a \o b \in Seq(S) /\ Len(a \o b) = Len(s) - 1
  <2>1. Len(s) \in Nat /\ i \in Nat
    OBVIOUS
  <2>2. a \o b \in Seq(S) /\ Len(a \o b) = Len(a) + Len(b)
    BY <1>1, <1>2, ConcatProperties
  <2> QED BY <2>1, <2>2, <1>1, <1>2
<1>5. ASSUME NEW k \in 1..(Len(s) - 1)
      PROVE  (a \o b)[k] = IF k < i THEN s[k] ELSE s[k + 1]
  <2>1. CASE k < i
    <3>1. k \in 1..Len(a)
      BY <2>1, <1>1
    <3> QED BY <3>1, <2>1, <1>1, <1>2, ConcatProperties
  <2>2. CASE ~(k < i)
    <3>1. k - Len(a) \in 1..(Len(s) - i)
      BY <2>2, <1>1
    <3>2. (a \o b)[k] = b[k - Len(a)]
      BY <2>2, <1>1, <1>2, <1>4, <3>1, ConcatProperties
    <3>3. i + (k - Len(a)) = k + 1
      BY <1>1
    <3> QED BY <3>1, <3>2, <3>3, <2>2, <1>2
  <2> QED BY <2>1, <2>2
<1> QED BY <1>3, <1>4, <1>5

\* The line after an arrival, a departure from its head and one from inside.
LEMMA LineFacts ==
    ASSUME NEW S, NEW s \in Seq(S)
    PROVE  /\ \A e \in S : Range(Append(s, e)) = Range(s) \cup {e}
           /\ s # <<>> => /\ Head(s) \in Range(s)
                          /\ Head(s) = s[1]
                          /\ Range(s) = Range(Tail(s)) \cup {Head(s)}
<1>1. ASSUME NEW e \in S PROVE Range(Append(s, e)) = Range(s) \cup {e}
  <2>1. DOMAIN Append(s, e) = DOMAIN s \cup {Len(s) + 1} /\ Len(s) \in Nat
    OBVIOUS
  <2>2. \A i \in DOMAIN s : Append(s, e)[i] = s[i]
    OBVIOUS
  <2>3. Append(s, e)[Len(s) + 1] = e
    OBVIOUS
  <2> QED BY <2>1, <2>2, <2>3 DEF Range
<1>2. ASSUME s # <<>>
      PROVE  /\ Head(s) \in Range(s)
             /\ Head(s) = s[1]
             /\ Range(s) = Range(Tail(s)) \cup {Head(s)}
  <2>1. Len(s) \in Nat \ {0} /\ DOMAIN s = 1..Len(s) /\ Head(s) = s[1]
    BY <1>2
  <2>2. DOMAIN Tail(s) = 1..(Len(s) - 1) /\ \A i \in 1..(Len(s) - 1) : Tail(s)[i] = s[i + 1]
    BY <1>2, HeadTailProperties
  <2>3. ASSUME NEW i \in 1..Len(s) PROVE i = 1 \/ (i - 1 \in DOMAIN Tail(s) /\ s[i] = Tail(s)[i - 1])
    BY <2>1, <2>2
  <2>4. ASSUME NEW x \in Range(s) PROVE x \in Range(Tail(s)) \cup {Head(s)}
    <3>1. PICK i \in DOMAIN s : x = s[i]
      BY DEF Range
    <3>2. i = 1 => x = Head(s)
      BY <2>1, <3>1
    <3>3. i # 1 => x \in Range(Tail(s))
      BY <2>1, <2>3, <3>1 DEF Range
    <3> QED BY <3>2, <3>3
  <2>5. ASSUME NEW x \in Range(Tail(s)) PROVE x \in Range(s)
    <3>1. PICK i \in DOMAIN Tail(s) : x = Tail(s)[i]
      BY DEF Range
    <3>2. i + 1 \in DOMAIN s /\ x = s[i + 1]
      BY <3>1, <2>1, <2>2
    <3> QED BY <3>2 DEF Range
  <2>6. Head(s) \in Range(s)
    BY <2>1 DEF Range
  <2> QED BY <2>1, <2>4, <2>5, <2>6
<1> QED BY <1>1, <1>2

-----------------------------------------------------------------------------
\* Giving a free slot to someone who has no place.
LEMMA TakeKeeps ==
    ASSUME NEW S, NEW q \in QueueType(S), NEW id \in S,
           SlotsCounted(q), OnePlaceEach(q),
           q.in_flight < MAX_IN_FLIGHT, id \notin Places(q)
    PROVE  /\ Take(q, id) \in QueueType(S)
           /\ SlotsCounted(Take(q, id))
           /\ OnePlaceEach(Take(q, id))
           /\ Places(Take(q, id)) = Places(q) \cup {id}
<1> DEFINE t == Take(q, id)
<1>1. /\ t \in QueueType(S)
      /\ t.in_flight = q.in_flight + 1 /\ t.active = q.active \cup {id}
      /\ t.waiting = q.waiting /\ t.promoting = q.promoting
  <2>1. q.in_flight + 1 \in Nat /\ q.active \cup {id} \in SUBSET S
    BY DEF QueueType
  <2> QED BY <2>1 DEF QueueType, Take
<1>2. Cardinality(q.active \cup {id}) = Cardinality(q.active) + 1 /\ IsFiniteSet(q.active \cup {id})
  BY FS_AddElement DEF SlotsCounted, Places
<1>3. SlotsCounted(t)
  BY <1>1, <1>2, SlotsAssumption DEF SlotsCounted, QueueType
<1>4. OnePlaceEach(t)
  BY <1>1 DEF OnePlaceEach, Line, Places
<1>5. Places(t) = Places(q) \cup {id}
  BY <1>1 DEF Places, Line
<1> QED BY <1>1, <1>3, <1>4, <1>5

\* Appending to the line someone who has no place.
LEMMA JoinKeeps ==
    ASSUME NEW S, NEW q \in QueueType(S), NEW id \in S,
           SlotsCounted(q), OnePlaceEach(q), id \notin Places(q)
    PROVE  /\ Join(q, id) \in QueueType(S)
           /\ SlotsCounted(Join(q, id))
           /\ OnePlaceEach(Join(q, id))
           /\ Line(Join(q, id)) = Line(q) \cup {id}
<1> DEFINE t == Join(q, id)
<1>1. /\ t \in QueueType(S)
      /\ t.in_flight = q.in_flight /\ t.active = q.active
      /\ t.waiting = Append(q.waiting, id) /\ t.promoting = q.promoting
  <2>1. /\ Append(q.waiting, id) \in Seq(S)
        /\ q = [in_flight |-> q.in_flight, active |-> q.active,
                waiting |-> q.waiting, promoting |-> q.promoting]
    BY DEF QueueType
  <2>2. t = [in_flight |-> q.in_flight, active |-> q.active,
             waiting |-> Append(q.waiting, id), promoting |-> q.promoting]
    BY <2>1 DEF Join
  <2> QED BY <2>1, <2>2 DEF QueueType
<1>2. q.waiting \in Seq(S)
  BY DEF QueueType
<1>3. Line(t) = Line(q) \cup {id}
  BY <1>1, <1>2, LineFacts DEF Line
<1>4. \A i \in DOMAIN q.waiting : q.waiting[i] # id
  BY DEF Places, Line, Range
<1>5. /\ DOMAIN t.waiting = DOMAIN q.waiting \cup {Len(q.waiting) + 1}
      /\ \A i \in DOMAIN q.waiting : t.waiting[i] = q.waiting[i]
      /\ t.waiting[Len(q.waiting) + 1] = id
  BY <1>1, <1>2
<1>6. OnePlaceEach(t)
  <2>1. \A i, j \in DOMAIN t.waiting : t.waiting[i] = t.waiting[j] => i = j
    BY <1>4, <1>5 DEF OnePlaceEach
  <2> QED BY <2>1, <1>1, <1>3 DEF OnePlaceEach, Places
<1>7. SlotsCounted(t)
  BY <1>1 DEF SlotsCounted
<1> QED BY <1>1, <1>3, <1>6, <1>7

\* Someone in line gives up; the others keep their order.
LEMMA LeaveKeeps ==
    ASSUME NEW S, NEW q \in QueueType(S), NEW id \in Line(q),
           SlotsCounted(q), OnePlaceEach(q)
    PROVE  /\ Leave(q, id) \in QueueType(S)
           /\ SlotsCounted(Leave(q, id))
           /\ OnePlaceEach(Leave(q, id))
           /\ Line(Leave(q, id)) = Line(q) \ {id}
           /\ Position(q, id) \in 1..Len(q.waiting)
<1> DEFINE s == q.waiting
           p == Position(q, id)
           t == RemoveAt(s, p)
<1>1. s \in Seq(S) /\ DOMAIN s = 1..Len(s) /\ Len(s) \in Nat
  BY DEF QueueType
<1>2. p \in 1..Len(s) /\ s[p] = id
  BY <1>1 DEF Position, Line, Range
<1>3. /\ t \in Seq(S) /\ Len(t) = Len(s) - 1
      /\ \A k \in 1..(Len(s) - 1) : t[k] = IF k < p THEN s[k] ELSE s[k + 1]
  BY <1>1, <1>2, RemoveAtFacts
<1> HIDE DEF p, t
<1>4. DOMAIN t = 1..(Len(s) - 1)
  BY <1>3
<1>5. \A i, j \in 1..Len(s) : s[i] = s[j] => i = j
  BY <1>1 DEF OnePlaceEach
<1>6. \A i, j \in DOMAIN t : t[i] = t[j] => i = j
  <2> SUFFICES ASSUME NEW i \in 1..(Len(s) - 1), NEW j \in 1..(Len(s) - 1), t[i] = t[j]
               PROVE  i = j
    BY <1>4
  <2> DEFINE at(k) == IF k < p THEN k ELSE k + 1
  <2>1. at(i) \in 1..Len(s) /\ at(j) \in 1..Len(s) /\ s[at(i)] = s[at(j)]
    BY <1>1, <1>2, <1>3
  <2>2. at(i) = at(j)
    BY <2>1, <1>5
  <2> QED BY <2>2, <1>1, <1>2
<1>7. Range(t) = Range(s) \ {id}
  <2>1. ASSUME NEW x \in Range(t) PROVE x \in Range(s) \ {id}
    <3>1. PICK k \in 1..(Len(s) - 1) : x = t[k]
      BY <1>4 DEF Range
    <3>2. \E m \in 1..Len(s) : m # p /\ x = s[m]
      <4>1. CASE k < p
        BY <4>1, <3>1, <1>1, <1>2, <1>3
      <4>2. CASE ~(k < p)
        <5>1. k + 1 \in 1..Len(s) /\ k + 1 # p /\ x = s[k + 1]
          BY <4>2, <3>1, <1>1, <1>2, <1>3
        <5> QED BY <5>1
      <4> QED BY <4>1, <4>2
    <3> QED BY <3>2, <1>1, <1>2, <1>5 DEF Range
  <2>2. ASSUME NEW x \in Range(s), x # id PROVE x \in Range(t)
    <3>1. PICK m \in 1..Len(s) : x = s[m]
      BY <1>1 DEF Range
    <3>2. m # p
      BY <3>1, <2>2, <1>2
    <3>3. CASE m < p
      <4>1. m \in DOMAIN t /\ t[m] = x
        BY <3>1, <3>3, <1>1, <1>2, <1>3, <1>4
      <4> QED BY <4>1 DEF Range
    <3>4. CASE m > p
      <4>1. m - 1 \in 1..(Len(s) - 1) /\ ~(m - 1 < p) /\ (m - 1) + 1 = m
        BY <3>1, <3>4, <1>1, <1>2
      <4>2. m - 1 \in DOMAIN t /\ t[m - 1] = x
        BY <4>1, <3>1, <1>3, <1>4
      <4> QED BY <4>2 DEF Range
    <3> QED BY <3>2, <3>3, <3>4, <1>1, <1>2
  <2> QED BY <2>1, <2>2
<1>8. /\ Leave(q, id) \in QueueType(S)
      /\ Leave(q, id).waiting = t /\ Leave(q, id).active = q.active
      /\ Leave(q, id).in_flight = q.in_flight
  BY <1>3 DEF Leave, QueueType, p, t
<1> QED BY <1>2, <1>6, <1>7, <1>8 DEF SlotsCounted, OnePlaceEach, Line, p

\* A holder gives its slot back and enters the loop of `promote`.
LEMMA FreeKeeps ==
    ASSUME NEW S, NEW q \in QueueType(S), NEW id \in q.active,
           SlotsCounted(q), OnePlaceEach(q)
    PROVE  /\ Free(q, id) \in QueueType(S)
           /\ SlotsCounted(Free(q, id))
           /\ OnePlaceEach(Free(q, id))
           /\ Free(q, id).in_flight < MAX_IN_FLIGHT
           /\ Places(Free(q, id)) = Places(q) \ {id}
<1> DEFINE t == Free(q, id)
<1>1. /\ IsFiniteSet(q.active \ {id}) /\ Cardinality(q.active \ {id}) = Cardinality(q.active) - 1
      /\ Cardinality(q.active) \in Nat /\ Cardinality(q.active \ {id}) \in Nat
  BY FS_RemoveElement, FS_CardinalityType DEF SlotsCounted
<1>2. /\ t.in_flight = q.in_flight - 1 /\ t.active = q.active \ {id} /\ t.waiting = q.waiting
      /\ t.in_flight \in Nat
  BY <1>1 DEF Free, SlotsCounted
<1>3. t \in QueueType(S)
  BY <1>2 DEF Free, QueueType
<1>4. SlotsCounted(t) /\ t.in_flight < MAX_IN_FLIGHT
  BY <1>1, <1>2, SlotsAssumption DEF SlotsCounted
<1>5. OnePlaceEach(t) /\ Places(t) = Places(q) \ {id}
  BY <1>2 DEF OnePlaceEach, Places, Line
<1> QED BY <1>3, <1>4, <1>5

\* The head leaves the line, and then has no place.
LEMMA PopKeeps ==
    ASSUME NEW S, NEW q \in QueueType(S), q.waiting # <<>>,
           SlotsCounted(q), OnePlaceEach(q)
    PROVE  /\ PopHead(q) \in QueueType(S)
           /\ SlotsCounted(PopHead(q))
           /\ OnePlaceEach(PopHead(q))
           /\ Head(q.waiting) \in S
           /\ Head(q.waiting) \notin Places(PopHead(q))
           /\ Places(q) = Places(PopHead(q)) \cup {Head(q.waiting)}
           /\ PopHead(q).in_flight = q.in_flight
           /\ PopHead(q).active = q.active
           /\ PopHead(q).promoting = q.promoting
<1> DEFINE s == q.waiting
           t == PopHead(q)
<1>1. s \in Seq(S) /\ s # <<>>
  BY DEF QueueType
<1>2. /\ Head(s) \in S /\ Tail(s) \in Seq(S)
      /\ Len(Tail(s)) = Len(s) - 1 /\ Head(s) = s[1] /\ Len(s) \in Nat \ {0}
      /\ \A i \in 1..(Len(s) - 1) : Tail(s)[i] = s[i + 1]
      /\ Range(s) = Range(Tail(s)) \cup {Head(s)}
  BY <1>1, HeadTailProperties, LineFacts
<1>3. /\ t \in QueueType(S) /\ t.waiting = Tail(s) /\ t.active = q.active
      /\ t.in_flight = q.in_flight /\ t.promoting = q.promoting
  BY <1>2 DEF PopHead, QueueType
<1>4. \A i, j \in 1..Len(s) : s[i] = s[j] => i = j
  BY <1>1 DEF OnePlaceEach
<1>5. \A i, j \in 1..(Len(s) - 1) : Tail(s)[i] = Tail(s)[j] => i = j
  <2> SUFFICES ASSUME NEW i \in 1..(Len(s) - 1), NEW j \in 1..(Len(s) - 1), s[i + 1] = s[j + 1]
               PROVE  i = j
    BY <1>2
  <2>1. i + 1 \in 1..Len(s) /\ j + 1 \in 1..Len(s)
    BY <1>2
  <2>2. i + 1 = j + 1
    BY <2>1, <1>4
  <2> QED BY <2>2
<1>6. Head(s) \notin Range(Tail(s))
  <2> SUFFICES ASSUME NEW i \in 1..(Len(s) - 1), Tail(s)[i] = s[1] PROVE FALSE
    BY <1>2 DEF Range
  <2>1. i + 1 \in 1..Len(s) /\ 1 \in 1..Len(s) /\ i + 1 # 1 /\ s[i + 1] = s[1]
    BY <1>2
  <2> QED BY <2>1, <1>4
<1>7. DOMAIN Tail(s) = 1..(Len(s) - 1)
  BY <1>2
<1>8. Head(s) \notin q.active
  BY <1>2 DEF OnePlaceEach, Line
<1> QED BY <1>2, <1>3, <1>5, <1>6, <1>7, <1>8 DEF OnePlaceEach, SlotsCounted, Places, Line

-----------------------------------------------------------------------------
\* A successful `try_enqueue`: the newcomer has exactly one place, a slot if
\* one was free and nobody waited.
LEMMA EnqueueKeeps ==
    ASSUME NEW S, NEW q \in QueueType(S), NEW id \in S,
           Balanced(q), ~q.promoting, ~IsFull(q), id \notin Places(q)
    PROVE  /\ Enqueue(q, id) \in QueueType(S)
           /\ Balanced(Enqueue(q, id))
           /\ ~Enqueue(q, id).promoting
           /\ Places(Enqueue(q, id)) = Places(q) \cup {id}
           /\ HasSlot(q) => /\ Enqueue(q, id).active = q.active \cup {id}
                            /\ Enqueue(q, id).waiting = q.waiting
           /\ ~HasSlot(q) => /\ Enqueue(q, id).active = q.active
                             /\ Enqueue(q, id).waiting = Append(q.waiting, id)
<1>1. CASE HasSlot(q)
  <2>1. Enqueue(q, id) = Take(q, id) /\ q.in_flight < MAX_IN_FLIGHT /\ q.waiting = <<>>
    BY <1>1 DEF Enqueue, HasSlot
  <2>2. /\ Take(q, id).waiting = q.waiting /\ Take(q, id).promoting = q.promoting
        /\ Take(q, id).active = q.active \cup {id}
    BY DEF Take
  <2> QED BY <1>1, <2>1, <2>2, TakeKeeps DEF Balanced, WorkConserving
<1>2. CASE ~HasSlot(q)
  <2>1. /\ Enqueue(q, id) = Join(q, id)
        /\ Join(q, id).in_flight = q.in_flight /\ Join(q, id).active = q.active
        /\ Join(q, id).promoting = q.promoting /\ Join(q, id).waiting = Append(q.waiting, id)
    BY <1>2 DEF Enqueue, Join, QueueType
  <2>2. q.in_flight = MAX_IN_FLIGHT
    <3>1. q.in_flight \in Nat /\ q.in_flight <= MAX_IN_FLIGHT /\ MAX_IN_FLIGHT \in Nat
      BY SlotsAssumption DEF Balanced, SlotsCounted, QueueType
    <3> QED BY <3>1, <1>2 DEF HasSlot, Balanced, WorkConserving
  <2> QED BY <1>2, <2>1, <2>2, JoinKeeps DEF Balanced, WorkConserving, Places
<1> QED BY <1>1, <1>2

\* `release`: the id has no place afterwards, whichever branch was taken, and
\* a freed slot is either the loop's to hand on or nobody waited.
LEMMA ReleaseKeeps ==
    ASSUME NEW S, NEW q \in QueueType(S), NEW id, Balanced(q), ~q.promoting
    PROVE  /\ Release(q, id) \in QueueType(S)
           /\ Balanced(Release(q, id))
           /\ Places(Release(q, id)) = Places(q) \ {id}
           /\ Release(q, id).active = q.active \ {id}
<1>1. CASE id \in Line(q)
  <2>1. /\ Release(q, id) = Leave(q, id) /\ Leave(q, id).active = q.active
        /\ Leave(q, id).in_flight = q.in_flight /\ Leave(q, id).promoting = q.promoting
    BY <1>1 DEF Release, Leave, QueueType
  <2>2. id \notin q.active
    BY <1>1 DEF Balanced, OnePlaceEach
  <2>3. q.waiting # <<>>
    BY <1>1 DEF Line, Range
  <2> QED BY <1>1, <2>1, <2>2, <2>3, LeaveKeeps DEF Balanced, WorkConserving, Places
<1>2. CASE id \notin Line(q) /\ id \in q.active
  <2>1. /\ Release(q, id) = Free(q, id) /\ Free(q, id).promoting
        /\ Free(q, id).active = q.active \ {id}
    BY <1>2 DEF Release, Free
  <2> QED BY <1>2, <2>1, FreeKeeps DEF Balanced, WorkConserving
<1>3. CASE id \notin Places(q)
  <2>1. Release(q, id) = q
    BY <1>3 DEF Release, Places
  <2> QED BY <1>3, <2>1 DEF Places
<1> QED BY <1>1, <1>2, <1>3 DEF Places

\* One turn of `promote`: a listening head moves from the line to a slot, a
\* deaf one loses its place, and the loop ends only with no free slot or no
\* line.
LEMMA PromoteKeeps ==
    ASSUME NEW S, NEW q \in QueueType(S), NEW alive, Balanced(q), q.promoting
    PROVE  /\ PromoteOnce(q, alive) \in QueueType(S)
           /\ Balanced(PromoteOnce(q, alive))
           /\ Places(PromoteOnce(q, alive)) =
                 IF CanPromote(q) /\ ~Granted(q, alive)
                   THEN Places(q) \ {Head(q.waiting)} ELSE Places(q)
           /\ PromoteOnce(q, alive).active =
                 IF Granted(q, alive) THEN q.active \cup {Head(q.waiting)} ELSE q.active
           /\ PromoteOnce(q, alive).waiting =
                 IF CanPromote(q) THEN Tail(q.waiting) ELSE q.waiting
<1>1. CASE ~CanPromote(q)
  <2>1. ~Granted(q, alive)
    BY <1>1 DEF Granted
  <2>2. PromoteOnce(q, alive) = [q EXCEPT !.promoting = FALSE]
    BY <1>1, <2>1 DEF PromoteOnce
  <2>3. q.waiting # <<>> => q.in_flight = MAX_IN_FLIGHT
    BY <1>1, SlotsAssumption DEF CanPromote, Balanced, SlotsCounted, QueueType
  <2> DEFINE t == [q EXCEPT !.promoting = FALSE]
  <2>4. /\ t \in QueueType(S) /\ t.in_flight = q.in_flight /\ t.active = q.active
        /\ t.waiting = q.waiting
    BY DEF QueueType
  <2>5. Balanced(t)
    BY <2>3, <2>4 DEF Balanced, SlotsCounted, OnePlaceEach, WorkConserving, Line
  <2>6. Places(t) = Places(q)
    BY <2>4 DEF Places, Line
  <2> QED BY <1>1, <2>1, <2>2, <2>4, <2>5, <2>6
<1>2. CASE Granted(q, alive)
  <2> DEFINE p == PopHead(q)
             h == Head(q.waiting)
  <2>1. CanPromote(q) /\ q.waiting # <<>> /\ q.in_flight < MAX_IN_FLIGHT
    BY <1>2 DEF Granted, CanPromote
  <2>2. PromoteOnce(q, alive) = Take(p, h)
    BY <1>2, <2>1 DEF PromoteOnce
  <2>3. /\ p \in QueueType(S) /\ SlotsCounted(p) /\ OnePlaceEach(p) /\ h \in S
        /\ h \notin Places(p) /\ Places(q) = Places(p) \cup {h}
        /\ p.in_flight < MAX_IN_FLIGHT /\ p.active = q.active /\ p.promoting = q.promoting
    BY <2>1, PopKeeps DEF Balanced
  <2>4. p.waiting = Tail(q.waiting)
    BY DEF PopHead, QueueType
  <2>5. /\ Take(p, h).promoting = p.promoting /\ Take(p, h).waiting = p.waiting
        /\ Take(p, h).active = p.active \cup {h}
    BY DEF Take
  <2> HIDE DEF p, h
  <2>6. /\ Take(p, h) \in QueueType(S) /\ SlotsCounted(Take(p, h)) /\ OnePlaceEach(Take(p, h))
        /\ Places(Take(p, h)) = Places(p) \cup {h}
    BY <2>3, TakeKeeps
  <2> QED BY <1>2, <2>1, <2>2, <2>3, <2>4, <2>5, <2>6 DEF Balanced, WorkConserving, h
<1>3. CASE CanPromote(q) /\ ~Granted(q, alive)
  <2>1. PromoteOnce(q, alive) = PopHead(q) /\ q.waiting # <<>>
    BY <1>3 DEF PromoteOnce, CanPromote
  <2>2. PopHead(q).waiting = Tail(q.waiting)
    BY DEF PopHead, QueueType
  <2> QED BY <1>3, <2>1, <2>2, PopKeeps DEF Balanced, WorkConserving
<1> QED BY <1>1, <1>2, <1>3 DEF Granted

\* A fresh queue.
LEMMA EmptyKeeps == \A S : EmptyQueue \in QueueType(S) /\ Balanced(EmptyQueue) /\ Places(EmptyQueue) = {}
<1>1. Line(EmptyQueue) = {} /\ EmptyQueue.active = {}
  BY DEF EmptyQueue, Line, Range
<1>2. Cardinality({}) = 0 /\ IsFiniteSet({})
  BY FS_EmptySet
<1>3. Balanced(EmptyQueue)
  BY <1>1, <1>2, SlotsAssumption
     DEF EmptyQueue, Balanced, SlotsCounted, OnePlaceEach, WorkConserving
<1> QED BY <1>1, <1>3 DEF EmptyQueue, QueueType, Places
=============================================================================
