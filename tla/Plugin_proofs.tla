---------------------------- MODULE Plugin_proofs ----------------------------
(***************************************************************************)
(* The plugin's two halves keep what they owe the broker, for any number   *)
(* of requests and of sockets.                                             *)
(***************************************************************************)
EXTENDS Plugin, FiniteSetTheorems, SequenceTheorems, TLAPS

-----------------------------------------------------------------------------
(* What a channel holds, and in which order.                               *)

Before(s, a, b) == \E i, j \in 1..Len(s) : i < j /\ s[i] = a /\ s[j] = b

LEMMA AppendHolds ==
    ASSUME NEW S, NEW s \in Seq(S), NEW e \in S
    PROVE  /\ Append(s, e) \in Seq(S)
           /\ \A x : Contains(Append(s, e), x) <=> Contains(s, x) \/ x = e
           /\ \A a, b : Before(Append(s, e), a, b) => Before(s, a, b) \/ (Contains(s, a) /\ b = e)
<1>1. /\ Append(s, e) \in Seq(S) /\ Len(s) \in Nat /\ Len(Append(s, e)) = Len(s) + 1
      /\ \A i \in 1..Len(s) : Append(s, e)[i] = s[i]
      /\ Append(s, e)[Len(s) + 1] = e
  OBVIOUS
<1> DEFINE t == Append(s, e)
<1>2. \A i \in 1..Len(t) : i \in 1..Len(s) \/ i = Len(s) + 1
  BY <1>1
<1>3. \A i \in 1..Len(s) : i \in 1..Len(t)
  BY <1>1
<1>4. Len(s) + 1 \in 1..Len(t)
  BY <1>1
<1> HIDE DEF t
<1>5. \A x : Contains(t, x) <=> Contains(s, x) \/ x = e
  BY <1>1, <1>2, <1>3, <1>4 DEF Contains, t
<1>6. ASSUME NEW a, NEW b, Before(t, a, b) PROVE Before(s, a, b) \/ (Contains(s, a) /\ b = e)
  <2>1. PICK i \in 1..Len(t), j \in 1..Len(t) : i < j /\ t[i] = a /\ t[j] = b
    BY <1>6 DEF Before
  <2>2. i \in 1..Len(s)
    BY <1>1, <1>2, <2>1 DEF t
  <2>3. CASE j \in 1..Len(s)
    BY <1>1, <2>1, <2>2, <2>3 DEF Before, t
  <2>4. CASE j = Len(s) + 1
    BY <1>1, <2>1, <2>2, <2>4 DEF Contains, t
  <2> QED BY <1>2, <2>3, <2>4
<1> QED BY <1>1, <1>5, <1>6 DEF t

LEMMA TailHolds ==
    ASSUME NEW S, NEW s \in Seq(S), s # <<>>
    PROVE  /\ Tail(s) \in Seq(S) /\ Head(s) \in S
           /\ \A x : Contains(s, x) <=> x = Head(s) \/ Contains(Tail(s), x)
           /\ \A a, b : Before(Tail(s), a, b) => Before(s, a, b)
           /\ \A b : Contains(Tail(s), b) => Before(s, Head(s), b)
<1> DEFINE t == Tail(s)
<1>1. /\ t \in Seq(S) /\ Head(s) \in S /\ Head(s) = s[1] /\ Len(s) \in Nat \ {0}
      /\ Len(t) = Len(s) - 1
      /\ \A i \in 1..Len(t) : t[i] = s[i + 1]
  BY HeadTailProperties
<1> HIDE DEF t
<1>2. \A i \in 1..Len(t) : i + 1 \in 1..Len(s) /\ 1 < i + 1
  BY <1>1
<1>3. \A i \in 1..Len(s) : i = 1 \/ (i - 1 \in 1..Len(t) /\ t[i - 1] = s[i])
  BY <1>1
<1>4. 1 \in 1..Len(s)
  BY <1>1
<1>5. ASSUME NEW x PROVE Contains(s, x) <=> x = Head(s) \/ Contains(t, x)
  BY <1>1, <1>2, <1>3, <1>4 DEF Contains
<1>6. ASSUME NEW a, NEW b, Before(t, a, b) PROVE Before(s, a, b)
  <2>1. PICK i \in 1..Len(t), j \in 1..Len(t) : i < j /\ t[i] = a /\ t[j] = b
    BY <1>6 DEF Before
  <2>2. i + 1 < j + 1
    BY <2>1
  <2> QED BY <1>1, <1>2, <2>1, <2>2 DEF Before
<1>7. ASSUME NEW b, Contains(t, b) PROVE Before(s, Head(s), b)
  BY <1>1, <1>2, <1>4, <1>7 DEF Before, Contains
<1> QED BY <1>1, <1>5, <1>6, <1>7 DEF t

LEMMA ConcatHolds ==
    ASSUME NEW S, NEW s \in Seq(S), NEW t \in Seq(S)
    PROVE  /\ s \o t \in Seq(S)
           /\ \A x : Contains(s \o t, x) <=> Contains(s, x) \/ Contains(t, x)
           /\ \A a, b : Before(s \o t, a, b) => Before(s, a, b) \/ Contains(t, b)
<1> DEFINE u == s \o t
<1>1. /\ u \in Seq(S) /\ Len(s) \in Nat /\ Len(t) \in Nat /\ Len(u) = Len(s) + Len(t)
      /\ \A i \in 1..Len(s) : u[i] = s[i]
      /\ \A i \in 1..Len(t) : u[Len(s) + i] = t[i]
  BY ConcatProperties
<1> HIDE DEF u
<1>2. \A i \in 1..Len(u) : i \in 1..Len(s) \/ (i - Len(s) \in 1..Len(t) /\ u[i] = t[i - Len(s)])
  BY <1>1
<1>3. \A i \in 1..Len(s) : i \in 1..Len(u)
  BY <1>1
<1>4. \A i \in 1..Len(t) : Len(s) + i \in 1..Len(u)
  BY <1>1
<1>5. ASSUME NEW x PROVE Contains(u, x) <=> Contains(s, x) \/ Contains(t, x)
  BY <1>1, <1>2, <1>3, <1>4 DEF Contains
<1>6. ASSUME NEW a, NEW b, Before(u, a, b) PROVE Before(s, a, b) \/ Contains(t, b)
  <2>1. PICK i \in 1..Len(u), j \in 1..Len(u) : i < j /\ u[i] = a /\ u[j] = b
    BY <1>6 DEF Before
  <2>2. CASE j \in 1..Len(s)
    <3>1. i \in 1..Len(s)
      BY <1>1, <2>1, <2>2
    <3> QED BY <1>1, <2>1, <2>2, <3>1 DEF Before
  <2>3. CASE j - Len(s) \in 1..Len(t) /\ u[j] = t[j - Len(s)]
    BY <2>1, <2>3 DEF Contains
  <2> QED BY <1>2, <2>2, <2>3
<1> QED BY <1>1, <1>5, <1>6 DEF u

\* A finite set, as a sequence, holds its elements.
LEMMA SetAsSequence ==
    ASSUME NEW S, IsFiniteSet(S)
    PROVE  /\ SetToSeq(S) \in Seq(S)
           /\ \A x : Contains(SetToSeq(S), x) <=> x \in S
<1> DEFINE n == Cardinality(S)
           s == SetToSeq(S)
<1>1. n \in Nat /\ IsFiniteSet(1..n) /\ Cardinality(1..n) = n
  BY FS_CardinalityType, FS_Interval
<1>2. ExistsBijection(1..n, S)
  BY <1>1, FS_SameCardinalityBij
<1>3. \E f \in [1..n -> S] : IsInjective(f)
  BY <1>2 DEF ExistsBijection, Bijection, Injection, IsInjective
<1>4. s \in [1..n -> S] /\ IsInjective(s)
  BY <1>3 DEF SetToSeq
<1>5. s \in Injection(1..n, S)
  BY <1>4 DEF Injection, IsInjective
<1> HIDE DEF n, s
<1>6. s \in Surjection(1..n, S)
  BY <1>1, <1>5, FS_Injection DEF n
<1>7. s \in Seq(S) /\ Len(s) = n
  BY <1>1, <1>4
<1> QED BY <1>6, <1>7 DEF Surjection, Contains, s

-----------------------------------------------------------------------------
(* The invariant: what is known of each request.                           *)

DownFrames == {"request", "cancel"} \X Requests
Orders     == {"metadata"} \X Nat \cup {"request", "cancel"} \X Requests
Reports    == {"ready"} \X Nat \cup {"progress", "answer"} \X Requests
Crossings  == {"request", "progress", "answer", "cancel", "astray"}

Typed ==
    /\ generation \in Nat \ {0} /\ socket \in {"none", "connecting", "open", "closing"}
    /\ helloSent \in BOOLEAN /\ timer \in BOOLEAN
    /\ owner \in [Requests -> Nat] /\ sentOn \in [Requests -> Nat]
    /\ down \in Seq(DownFrames) /\ toController \in Seq(Orders) /\ toUi \in Seq(Reports)
    /\ work \in [Requests -> {"none", "running", "detached", "ended"}]
    /\ emitted \in [Requests -> Nat] /\ cancelled \subseteq Requests
    /\ crossed \in [Requests -> Seq(Crossings)]

\* Frames are waiting only on an open socket, and a new one is made only when
\* there is none.
Connected == /\ socket # "open" => down = <<>>
             /\ timer => socket = "none"

Open(c) == c # <<>> /\ \A i \in DOMAIN c : c[i] \notin {"answer", "cancel"}
Due(c)  == \A i \in DOMAIN c : /\ i = 1 <=> c[i] = "request"
                               /\ c[i] # "astray"
                               /\ c[i] \in {"answer", "cancel"} => i = Len(c)

\* Only the present socket owns anything: what was sent on it and is not settled.
Owned(r) == owner[r] # 0 => /\ owner[r] = generation /\ sentOn[r] = generation
                            /\ socket \in {"open", "closing"} /\ Open(crossed[r])

\* A request is on the wire once, before anything else is known of it.
Asked(r)   == Contains(down, <<"request", r>>)
Ordered(r) == Contains(toController, <<"request", r>>)
Revoked(r) == Contains(toController, <<"cancel", r>>)
Told(r)    == Contains(toUi, <<"answer", r>>)

Incoming(r) == /\ Asked(r) => sentOn[r] = generation /\ crossed[r] = <<>>
               /\ ~Before(down, <<"request", r>>, <<"request", r>>)
               /\ sentOn[r] = 0 => crossed[r] = <<>>
Unknown(r) == crossed[r] = <<>> => work[r] = "none" /\ ~Ordered(r) /\ ~Revoked(r) /\ ~Told(r)

\* The controller is told once to begin, before it is told to stop, and has not
\* answered before it began.
InOrder(r) == /\ ~Before(toController, <<"request", r>>, <<"request", r>>)
              /\ ~Before(toController, <<"cancel", r>>, <<"request", r>>)
              /\ Ordered(r) => work[r] = "none"
              /\ Told(r) => work[r] \in {"detached", "ended"}

NotAdrift(r) == work[r] = "running" \/ Ordered(r) => owner[r] # 0 \/ Revoked(r)

Known(r) == Due(crossed[r]) /\ Owned(r) /\ Incoming(r) /\ Unknown(r) /\ InOrder(r) /\ NotAdrift(r)

PluginInv == Typed /\ Connected /\ \A r \in Requests : Known(r)

\* What the runs check follows.
LEMMA InvSuffices == PluginInv => FramesAreDue /\ WorkIsOwned
<1> SUFFICES ASSUME PluginInv PROVE FramesAreDue /\ WorkIsOwned
  OBVIOUS
<1>1. FramesAreDue
  BY DEF PluginInv, Known, Due, FramesAreDue
<1>2. WorkIsOwned
  BY DEF PluginInv, Known, NotAdrift, Ordered, Revoked, Owned, WorkIsOwned
<1> QED BY <1>1, <1>2

LEMMA InitKnown == Init => PluginInv
<1> SUFFICES ASSUME Init PROVE PluginInv
  OBVIOUS
<1>1. \A x : ~Contains(<<>>, x)
  BY DEF Contains
<1>2. \A a, b : ~Before(<<>>, a, b)
  BY DEF Before
<1>3. Typed
  <2>1. /\ <<>> \in Seq(DownFrames) /\ <<>> \in Seq(Orders) /\ <<>> \in Seq(Reports)
        /\ <<>> \in Seq(Crossings)
    OBVIOUS
  <2>2. crossed = [r \in Requests |-> <<>>]
    BY DEF Init
  <2>3. crossed \in [Requests -> Seq(Crossings)]
    BY <2>1, <2>2
  <2>4. down \in Seq(DownFrames) /\ toController \in Seq(Orders) /\ toUi \in Seq(Reports)
    BY <2>1 DEF Init
  <2>5. /\ generation \in Nat \ {0} /\ socket \in {"none", "connecting", "open", "closing"}
        /\ cancelled \subseteq Requests
    BY DEF Init
  <2>6. helloSent \in BOOLEAN /\ timer \in BOOLEAN
    BY DEF Init
  <2>7. /\ owner \in [Requests -> Nat] /\ sentOn \in [Requests -> Nat]
        /\ emitted \in [Requests -> Nat]
        /\ work \in [Requests -> {"none", "running", "detached", "ended"}]
    BY DEF Init
  <2> QED BY <2>3, <2>4, <2>5, <2>6, <2>7 DEF Typed
<1>4. Connected
  BY DEF Init, Connected
<1>5. Due(<<>>)
  BY DEF Due
<1>6. ASSUME NEW r \in Requests PROVE Known(r)
  BY <1>1, <1>2, <1>5 DEF Init, Known, Owned, Incoming, Unknown, InOrder, NotAdrift,
                           Asked, Ordered, Revoked, Told
<1> QED BY <1>3, <1>4, <1>6 DEF PluginInv

\* A frame of an open request that is not astray.
LEMMA CrossingIsDue ==
    ASSUME NEW c \in Seq(Crossings), Due(c), Open(c), NEW f \in {"progress", "answer", "cancel"}
    PROVE  /\ Append(c, f) \in Seq(Crossings) /\ Due(Append(c, f)) /\ Append(c, f) # <<>>
           /\ f = "progress" => Open(Append(c, f))
<1> DEFINE d == Append(c, f)
<1>1. /\ d \in Seq(Crossings) /\ Len(c) \in Nat \ {0} /\ Len(d) = Len(c) + 1
      /\ DOMAIN c = 1..Len(c) /\ DOMAIN d = 1..Len(d)
      /\ \A i \in 1..Len(c) : d[i] = c[i]
      /\ d[Len(c) + 1] = f
  BY DEF Open, Crossings
<1>2. \A i \in 1..Len(d) : i \in 1..Len(c) \/ i = Len(c) + 1
  BY <1>1
<1> HIDE DEF d
<1>3. Due(d)
  <2> SUFFICES ASSUME NEW i \in 1..Len(d)
               PROVE  /\ i = 1 <=> d[i] = "request"
                      /\ d[i] # "astray"
                      /\ d[i] \in {"answer", "cancel"} => i = Len(d)
    BY <1>1 DEF Due
  <2>1. CASE i \in 1..Len(c)
    BY <1>1, <2>1 DEF Due, Open
  <2>2. CASE i = Len(c) + 1
    BY <1>1, <2>2 DEF d
  <2> QED BY <1>2, <2>1, <2>2
<1>4. d # <<>>
  BY <1>1
<1>5. f = "progress" => Open(d)
  BY <1>1, <1>2, <1>4 DEF Open, d
<1> QED BY <1>1, <1>3, <1>4, <1>5 DEF d

-----------------------------------------------------------------------------
(* The broker, and the network.                                            *)

LEMMA FrameAppends ==
    ASSUME NEW m \in DownFrames, Typed, down' = Append(down, m)
    PROVE  /\ down' \in Seq(DownFrames)
           /\ \A x : Contains(down', x) <=> Contains(down, x) \/ x = m
           /\ \A a, b : Before(down', a, b) => Before(down, a, b) \/ (Contains(down, a) /\ b = m)
  BY AppendHolds DEF Typed

LEMMA BrokerKeeps == ASSUME NEW r \in Requests, PluginInv, BrokerSends(r) PROVE PluginInv'
<1>1. /\ socket = "open" /\ UNCHANGED <<connection, owner, toController, toUi, reading, crossed>>
      /\ UNCHANGED <<generation, socket, helloSent, timer, work, emitted>>
  BY DEF BrokerSends, connection, reading
<1>2. ASSUME sentOn[r] = 0, sentOn' = [sentOn EXCEPT ![r] = generation],
             down' = Append(down, <<"request", r>>), UNCHANGED cancelled
      PROVE  PluginInv'
  <2>1. /\ down' \in Seq(DownFrames)
        /\ \A x : Contains(down', x) <=> Contains(down, x) \/ x = <<"request", r>>
        /\ \A a, b : Before(down', a, b)
                     => Before(down, a, b) \/ (Contains(down, a) /\ b = <<"request", r>>)
    <3>1. <<"request", r>> \in DownFrames
      BY DEF DownFrames
    <3> QED BY <1>2, <3>1, FrameAppends DEF PluginInv
  <2>2. Typed' /\ Connected'
    BY <1>1, <1>2, <2>1 DEF PluginInv, Typed, Connected
  <2>3. generation # 0 /\ ~Asked(r) /\ owner[r] = 0 /\ crossed[r] = <<>>
    BY <1>2 DEF PluginInv, Typed, Known, Incoming, Owned
  <2>4. ASSUME NEW x \in Requests PROVE Known(x)'
    <3>1. /\ Due(crossed[x])' /\ Unknown(x)' /\ InOrder(x)' /\ NotAdrift(x)'
      BY <1>1 DEF PluginInv, Known, Unknown, InOrder, NotAdrift, Ordered, Revoked, Told
    <3>2. Owned(x)'
      BY <1>1, <1>2, <2>3 DEF PluginInv, Typed, Known, Owned
    <3>3. Incoming(x)'
      BY <1>1, <1>2, <2>1, <2>3 DEF PluginInv, Typed, Known, Incoming, Asked
    <3> QED BY <3>1, <3>2, <3>3 DEF Known
  <2> QED BY <2>2, <2>4 DEF PluginInv
<1>3. ASSUME UNCHANGED sentOn, cancelled' = cancelled \cup {r}, down' = Append(down, <<"cancel", r>>)
      PROVE  PluginInv'
  <2>1. /\ down' \in Seq(DownFrames)
        /\ \A x : Contains(down', x) <=> Contains(down, x) \/ x = <<"cancel", r>>
        /\ \A a, b : Before(down', a, b)
                     => Before(down, a, b) \/ (Contains(down, a) /\ b = <<"cancel", r>>)
    <3>1. <<"cancel", r>> \in DownFrames
      BY DEF DownFrames
    <3> QED BY <1>3, <3>1, FrameAppends DEF PluginInv
  <2>2. Typed' /\ Connected'
    BY <1>1, <1>3, <2>1 DEF PluginInv, Typed, Connected
  <2>3. ASSUME NEW x \in Requests PROVE Known(x)'
    <3>1. /\ Due(crossed[x])' /\ Unknown(x)' /\ InOrder(x)' /\ NotAdrift(x)' /\ Owned(x)'
      BY <1>1, <1>3 DEF PluginInv, Known, Unknown, InOrder, NotAdrift, Owned, Ordered, Revoked, Told
    <3>2. Incoming(x)'
      BY <1>1, <1>3, <2>1 DEF PluginInv, Typed, Known, Incoming, Asked
    <3> QED BY <3>1, <3>2 DEF Known
  <2> QED BY <2>2, <2>3 DEF PluginInv
<1> QED BY <1>2, <1>3 DEF BrokerSends

LEMMA BreakKeeps == ASSUME PluginInv, Break PROVE PluginInv'
<1>1. /\ socket' = "closing" /\ down' = <<>> /\ socket \in {"connecting", "open"}
      /\ UNCHANGED <<generation, helloSent, timer, owner, toController, toUi, work, emitted,
                     sentOn, cancelled, crossed>>
  BY DEF Break, reading, broker
<1>2. Typed' /\ Connected'
  BY <1>1 DEF PluginInv, Typed, Connected
<1>3. ASSUME NEW x \in Requests PROVE Known(x)'
  <2>1. Due(crossed[x])' /\ Unknown(x)' /\ InOrder(x)' /\ NotAdrift(x)' /\ Owned(x)'
    BY <1>1 DEF PluginInv, Known, Unknown, InOrder, NotAdrift, Owned, Ordered, Revoked, Told
  <2>2. Incoming(x)'
    BY <1>1 DEF PluginInv, Known, Incoming, Asked, Contains, Before
  <2> QED BY <2>1, <2>2 DEF Known
<1> QED BY <1>2, <1>3 DEF PluginInv

LEMMA ReconnectKeeps == ASSUME PluginInv, Reconnects PROVE PluginInv'
<1>1. /\ socket = "none" /\ socket' = "connecting" /\ down = <<>> /\ timer' = FALSE
      /\ generation' = generation + 1 /\ helloSent' = FALSE
      /\ UNCHANGED <<owner, down, toController, toUi, work, emitted, sentOn, cancelled, crossed>>
  BY DEF Reconnects, reading, broker, PluginInv, Connected
<1>2. Typed' /\ Connected'
  <2>1. generation' \in Nat \ {0}
    BY <1>1 DEF PluginInv, Typed
  <2> QED BY <1>1, <2>1 DEF PluginInv, Typed, Connected
<1>3. ASSUME NEW x \in Requests PROVE Known(x)'
  <2>1. Due(crossed[x])' /\ Unknown(x)' /\ InOrder(x)' /\ NotAdrift(x)'
    BY <1>1 DEF PluginInv, Known, Unknown, InOrder, NotAdrift, Ordered, Revoked, Told
  <2>2. owner[x] = 0
    BY <1>1 DEF PluginInv, Known, Owned
  <2>3. Incoming(x)'
    BY <1>1 DEF PluginInv, Known, Incoming, Asked, Contains, Before
  <2> QED BY <1>1, <2>1, <2>2, <2>3 DEF Known, Owned
<1> QED BY <1>2, <1>3 DEF PluginInv

-----------------------------------------------------------------------------
(* The UI.                                                                 *)

\* A message to the controller that is not about a request, or one that is.
LEMMA OrderAppends ==
    ASSUME NEW m \in Orders, Typed, toController' = Append(toController, m)
    PROVE  /\ toController' \in Seq(Orders)
           /\ \A x : Contains(toController', x) <=> Contains(toController, x) \/ x = m
           /\ \A a, b : Before(toController', a, b)
                        => Before(toController, a, b) \/ (Contains(toController, a) /\ b = m)
  BY AppendHolds DEF Typed

LEMMA OpensKeeps == ASSUME PluginInv, Opens PROVE PluginInv'
<1> DEFINE m == <<"metadata", generation>>
<1>1. /\ socket = "connecting" /\ socket' = "open" /\ toController' = Append(toController, m)
      /\ UNCHANGED <<generation, helloSent, timer, owner, down, toUi, work, emitted, sentOn,
                     cancelled, crossed>>
  BY DEF Opens, reading, broker
<1>2. m \in Orders /\ \A r \in Requests : m # <<"request", r>> /\ m # <<"cancel", r>>
  BY DEF PluginInv, Typed, Orders
<1> HIDE DEF m
<1>3. /\ toController' \in Seq(Orders)
      /\ \A x : Contains(toController', x) <=> Contains(toController, x) \/ x = m
      /\ \A a, b : Before(toController', a, b)
                   => Before(toController, a, b) \/ (Contains(toController, a) /\ b = m)
  BY <1>1, <1>2, OrderAppends DEF PluginInv
<1>4. Typed' /\ Connected'
  BY <1>1, <1>3 DEF PluginInv, Typed, Connected
<1>5. ASSUME NEW x \in Requests PROVE Known(x)'
  <2>1. Due(crossed[x])' /\ Incoming(x)' /\ Owned(x)'
    BY <1>1 DEF PluginInv, Known, Incoming, Owned, Asked
  <2>2. /\ Ordered(x)' <=> Ordered(x)
        /\ Revoked(x)' <=> Revoked(x)
        /\ Told(x)' <=> Told(x)
    BY <1>1, <1>2, <1>3 DEF Ordered, Revoked, Told
  <2>3. Unknown(x)' /\ NotAdrift(x)' /\ InOrder(x)'
    BY <1>1, <1>2, <1>3, <2>2 DEF PluginInv, Known, Unknown, NotAdrift, InOrder
  <2> QED BY <2>1, <2>3 DEF Known
<1> QED BY <1>4, <1>5 DEF PluginInv

LEMMA ClosesKeeps == ASSUME PluginInv, Closes PROVE PluginInv'
<1> DEFINE given   == {r \in Requests : owner[r] = generation}
           cancels == {<<"cancel", r>> : r \in given}
<1>1. /\ socket = "closing" /\ socket' = "none" /\ timer' = TRUE /\ down = <<>>
      /\ owner' = [r \in Requests |-> IF owner[r] = generation THEN 0 ELSE owner[r]]
      /\ toController' = toController \o SetToSeq(cancels)
      /\ UNCHANGED <<generation, helloSent, down, toUi, work, emitted, sentOn, cancelled, crossed>>
  BY DEF Closes, Disowned, reading, broker, PluginInv, Connected
<1>2. /\ cancels \subseteq Orders /\ IsFiniteSet(cancels)
      /\ \A r \in Requests : /\ <<"cancel", r>> \in cancels <=> owner[r] = generation
                             /\ <<"request", r>> \notin cancels
  <2>1. IsFiniteSet(given)
    BY InstanceAssumption, FS_Subset
  <2>2. [r \in given |-> <<"cancel", r>>] \in Surjection(given, cancels)
    BY DEF Surjection
  <2>3. IsFiniteSet(cancels)
    BY <2>1, <2>2, FS_Surjection
  <2> QED BY <2>3 DEF Orders
<1> HIDE DEF cancels
<1>3. /\ SetToSeq(cancels) \in Seq(Orders)
      /\ \A x : Contains(SetToSeq(cancels), x) <=> x \in cancels
  BY <1>2, SetAsSequence, SeqDef
<1>4. /\ toController' \in Seq(Orders)
      /\ \A x : Contains(toController', x) <=> Contains(toController, x) \/ x \in cancels
      /\ \A a, b : Before(toController', a, b) => Before(toController, a, b) \/ b \in cancels
  BY <1>1, <1>3, ConcatHolds DEF PluginInv, Typed
<1>5. Typed' /\ Connected'
  BY <1>1, <1>4 DEF PluginInv, Typed, Connected
<1>6. ASSUME NEW x \in Requests PROVE Known(x)'
  <2>1. owner'[x] = 0 /\ (owner[x] # 0 => <<"cancel", x>> \in cancels)
    BY <1>1, <1>2 DEF PluginInv, Known, Owned
  <2>2. Due(crossed[x])' /\ Incoming(x)' /\ Owned(x)'
    BY <1>1, <2>1 DEF PluginInv, Known, Incoming, Owned, Asked
  <2>3. /\ Ordered(x)' <=> Ordered(x)
        /\ Revoked(x)' <=> Revoked(x) \/ <<"cancel", x>> \in cancels
        /\ Told(x)' <=> Told(x)
    BY <1>1, <1>2, <1>4 DEF Ordered, Revoked, Told
  <2>4. Unknown(x)'
    BY <1>1, <1>2, <2>3 DEF PluginInv, Typed, Known, Unknown, Owned, Open
  <2>5. NotAdrift(x)' /\ InOrder(x)'
    BY <1>1, <1>2, <1>4, <2>1, <2>3 DEF PluginInv, Known, NotAdrift, InOrder
  <2> QED BY <2>2, <2>4, <2>5 DEF Known
<1> QED BY <1>5, <1>6 DEF PluginInv

LEMMA FrameLeaves ==
    ASSUME Typed, down # <<>>, down' = Tail(down)
    PROVE  /\ down' \in Seq(DownFrames)
           /\ \A x : Contains(down', x) => Contains(down, x)
           /\ \A a, b : Before(down', a, b) => Before(down, a, b)
           /\ Contains(down, Head(down))
           /\ Contains(down', Head(down)) => Before(down, Head(down), Head(down))
  BY TailHolds DEF Typed

LEMMA TakeRequestKeeps == ASSUME NEW r \in Requests, PluginInv, TakeRequest(r) PROVE PluginInv'
<1> DEFINE m == <<"request", r>>
<1>1. /\ socket = "open" /\ down # <<>> /\ Head(down) = m /\ down' = Tail(down)
      /\ owner' = [owner EXCEPT ![r] = generation]
      /\ toController' = Append(toController, m)
      /\ UNCHANGED <<generation, socket, helloSent, timer, toUi, work, emitted, sentOn, cancelled>>
  BY DEF TakeRequest, Listens, connection, reading, broker
<1>2. /\ m \in Orders
      /\ \A x \in Requests : m # <<"cancel", x>> /\ (m = <<"request", x>> <=> x = r)
  BY DEF Orders
<1>3. Asked(r) /\ m = <<"request", r>>
  BY <1>1, FrameLeaves DEF Asked, PluginInv
<1>4. sentOn[r] = generation /\ crossed[r] = <<>> /\ ~Before(down, m, m)
  BY <1>3 DEF PluginInv, Known, Incoming
<1>5. work[r] = "none" /\ ~Ordered(r) /\ ~Revoked(r) /\ ~Told(r)
  BY <1>4 DEF PluginInv, Known, Unknown
<1>6. crossed' = [crossed EXCEPT ![r] = <<"request">>]
  <2>1. crossed' = [crossed EXCEPT ![r] = Append(crossed[r], "request")]
    BY <1>4 DEF TakeRequest, Crosses
  <2> QED BY <1>4, <2>1
<1>7. /\ <<"request">> \in Seq(Crossings) /\ Due(<<"request">>) /\ Open(<<"request">>)
      /\ <<"request">> # <<>>
  BY DEF Crossings, Due, Open
<1> HIDE DEF m
<1>8. /\ toController' \in Seq(Orders)
      /\ \A x : Contains(toController', x) <=> Contains(toController, x) \/ x = m
      /\ \A a, b : Before(toController', a, b)
                   => Before(toController, a, b) \/ (Contains(toController, a) /\ b = m)
  BY <1>1, <1>2, OrderAppends DEF PluginInv
<1>9. /\ down' \in Seq(DownFrames)
      /\ \A x : Contains(down', x) => Contains(down, x)
      /\ \A a, b : Before(down', a, b) => Before(down, a, b)
      /\ ~Contains(down', m)
  BY <1>1, <1>4, FrameLeaves DEF PluginInv
<1>10. Typed' /\ Connected'
  <2>1. owner' \in [Requests -> Nat] /\ crossed' \in [Requests -> Seq(Crossings)]
    BY <1>1, <1>6, <1>7 DEF PluginInv, Typed
  <2> QED BY <1>1, <1>8, <1>9, <2>1 DEF PluginInv, Typed, Connected
<1>11. ASSUME NEW x \in Requests, x # r PROVE Known(x)'
  <2>1. owner'[x] = owner[x] /\ crossed'[x] = crossed[x]
    BY <1>1, <1>6, <1>11 DEF PluginInv, Typed
  <2>2. /\ Ordered(x)' <=> Ordered(x)
        /\ Revoked(x)' <=> Revoked(x)
        /\ Told(x)' <=> Told(x)
        /\ Asked(x)' => Asked(x)
    BY <1>1, <1>2, <1>8, <1>9, <1>11 DEF Ordered, Revoked, Told, Asked
  <2>3. Due(crossed[x])' /\ Incoming(x)' /\ Owned(x)'
    BY <1>1, <1>9, <2>1, <2>2 DEF PluginInv, Known, Incoming, Owned
  <2>4. Unknown(x)' /\ NotAdrift(x)' /\ InOrder(x)'
    BY <1>1, <1>2, <1>8, <1>11, <2>1, <2>2 DEF PluginInv, Known, Unknown, NotAdrift, InOrder
  <2> QED BY <2>3, <2>4 DEF Known
<1>12. Known(r)'
  <2>1. owner'[r] = generation /\ crossed'[r] = <<"request">> /\ generation # 0
    BY <1>1, <1>6 DEF PluginInv, Typed
  <2>2. Due(crossed[r])' /\ Owned(r)' /\ NotAdrift(r)' /\ Unknown(r)'
    BY <1>1, <1>4, <1>7, <2>1 DEF Owned, NotAdrift, Unknown
  <2>3. Incoming(r)'
    BY <1>1, <1>3, <1>4, <1>9 DEF PluginInv, Typed, Known, Incoming, Asked
  <2>4. ~Told(r)'
    BY <1>1, <1>5 DEF Told
  <2>5. InOrder(r)'
    BY <1>1, <1>2, <1>3, <1>5, <1>8, <2>4 DEF PluginInv, Known, InOrder, Ordered, Revoked
  <2> QED BY <2>2, <2>3, <2>5 DEF Known
<1> QED BY <1>10, <1>11, <1>12 DEF PluginInv

LEMMA TakeCancelKeeps == ASSUME NEW r \in Requests, PluginInv, TakeCancel(r) PROVE PluginInv'
<1> DEFINE m == <<"cancel", r>>
<1>1. /\ down # <<>> /\ down' = Tail(down) /\ socket = "open"
      /\ UNCHANGED <<generation, socket, helloSent, timer, toUi, work, emitted, sentOn, cancelled>>
  BY DEF TakeCancel, Listens, connection, reading, broker
<1>2. /\ down' \in Seq(DownFrames)
      /\ \A x : Contains(down', x) => Contains(down, x)
      /\ \A a, b : Before(down', a, b) => Before(down, a, b)
  BY <1>1, FrameLeaves DEF PluginInv
<1>3. CASE owner[r] # generation
  <2>1. UNCHANGED <<owner, toController, crossed>>
    BY <1>3 DEF TakeCancel
  <2>2. Typed' /\ Connected'
    BY <1>1, <1>2, <2>1 DEF PluginInv, Typed, Connected
  <2>3. ASSUME NEW x \in Requests PROVE Known(x)'
    BY <1>1, <1>2, <2>1 DEF PluginInv, Known, Incoming, Owned, Unknown, NotAdrift, InOrder,
                            Ordered, Revoked, Told, Asked
  <2> QED BY <2>2, <2>3 DEF PluginInv
<1>4. CASE owner[r] = generation
  <2>1. sentOn[r] = generation /\ Open(crossed[r]) /\ generation # 0
    BY <1>4 DEF PluginInv, Typed, Known, Owned
  <2>2. /\ owner' = [owner EXCEPT ![r] = 0] /\ toController' = Append(toController, m)
        /\ crossed' = [crossed EXCEPT ![r] = Append(crossed[r], "cancel")]
    BY <1>4, <2>1 DEF TakeCancel, Crosses
  <2>3. /\ m \in Orders
        /\ \A x \in Requests : m # <<"request", x>> /\ (m = <<"cancel", x>> <=> x = r)
    BY DEF Orders
  <2> HIDE DEF m
  <2>4. /\ toController' \in Seq(Orders)
        /\ \A x : Contains(toController', x) <=> Contains(toController, x) \/ x = m
        /\ \A a, b : Before(toController', a, b)
                     => Before(toController, a, b) \/ (Contains(toController, a) /\ b = m)
    BY <2>2, <2>3, OrderAppends DEF PluginInv
  <2>5. crossed[r] \in Seq(Crossings) /\ Due(crossed[r])
    BY DEF PluginInv, Typed, Known
  <2>6. /\ Append(crossed[r], "cancel") \in Seq(Crossings) /\ Due(Append(crossed[r], "cancel"))
        /\ Append(crossed[r], "cancel") # <<>>
    BY <2>1, <2>5, CrossingIsDue
  <2>7. Typed' /\ Connected'
    <3>1. owner' \in [Requests -> Nat] /\ crossed' \in [Requests -> Seq(Crossings)]
      BY <2>2, <2>6 DEF PluginInv, Typed
    <3> QED BY <1>1, <1>2, <2>4, <3>1 DEF PluginInv, Typed, Connected
  <2>8. ASSUME NEW x \in Requests PROVE Known(x)'
    <3>1. /\ Ordered(x)' <=> Ordered(x)
          /\ Revoked(x)' <=> Revoked(x) \/ x = r
          /\ Told(x)' <=> Told(x)
          /\ Asked(x)' => Asked(x)
      BY <1>1, <1>2, <2>3, <2>4 DEF Ordered, Revoked, Told, Asked
    <3>2. InOrder(x)'
      BY <1>1, <2>3, <2>4, <3>1 DEF PluginInv, Known, InOrder
    <3>3. CASE x # r
      <4>1. owner'[x] = owner[x] /\ crossed'[x] = crossed[x]
        BY <2>2, <3>3 DEF PluginInv, Typed
      <4>2. Due(crossed[x])' /\ Incoming(x)' /\ Owned(x)' /\ Unknown(x)' /\ NotAdrift(x)'
        BY <1>1, <1>2, <3>1, <3>3, <4>1
           DEF PluginInv, Known, Incoming, Owned, Unknown, NotAdrift
      <4> QED BY <3>2, <4>2 DEF Known
    <3>4. CASE x = r
      <4>1. owner'[r] = 0 /\ crossed'[r] = Append(crossed[r], "cancel")
        BY <2>2 DEF PluginInv, Typed
      <4>2. Due(crossed[r])' /\ Owned(r)' /\ Unknown(r)' /\ NotAdrift(r)'
        BY <2>6, <3>1, <3>4, <4>1 DEF Owned, Unknown, NotAdrift
      <4>3. Incoming(r)'
        BY <1>1, <1>2, <2>1, <3>1, <3>4 DEF PluginInv, Known, Incoming, Open
      <4> QED BY <3>2, <3>4, <4>2, <4>3 DEF Known
    <3> QED BY <3>3, <3>4
  <2> QED BY <2>7, <2>8 DEF PluginInv
<1> QED BY <1>3, <1>4

LEMMA HelloKeeps == ASSUME PluginInv, Hello PROVE PluginInv'
<1>1. /\ toUi # <<>> /\ toUi' = Tail(toUi) /\ helloSent' \in BOOLEAN
      /\ UNCHANGED <<generation, socket, timer, owner, down, toController, work, emitted, sentOn,
                     cancelled, crossed>>
  BY DEF Hello, reading, broker, PluginInv, Typed
<1>2. toUi' \in Seq(Reports) /\ \A x : Contains(toUi', x) => Contains(toUi, x)
  BY <1>1, TailHolds DEF PluginInv, Typed
<1>3. Typed' /\ Connected'
  BY <1>1, <1>2 DEF PluginInv, Typed, Connected
<1>4. ASSUME NEW x \in Requests PROVE Known(x)'
  BY <1>1, <1>2 DEF PluginInv, Known, Incoming, Owned, Unknown, NotAdrift, InOrder,
                    Ordered, Revoked, Told, Asked
<1> QED BY <1>3, <1>4 DEF PluginInv

LEMMA RelayKeeps == ASSUME NEW r \in Requests, PluginInv, Relay(r) PROVE PluginInv'
<1>1. /\ toUi # <<>> /\ toUi' = Tail(toUi)
      /\ UNCHANGED <<generation, socket, helloSent, timer, down, toController, work, emitted,
                     sentOn, cancelled>>
  BY DEF Relay, connection, reading, broker
<1>2. /\ toUi' \in Seq(Reports) /\ \A x : Contains(toUi', x) => Contains(toUi, x)
      /\ Contains(toUi, Head(toUi))
  BY <1>1, TailHolds DEF PluginInv, Typed
<1>3. CASE UNCHANGED <<owner, crossed>>
  <2>1. Typed' /\ Connected'
    BY <1>1, <1>2, <1>3 DEF PluginInv, Typed, Connected
  <2>2. ASSUME NEW x \in Requests PROVE Known(x)'
    BY <1>1, <1>2, <1>3 DEF PluginInv, Known, Incoming, Owned, Unknown, NotAdrift, InOrder,
                            Ordered, Revoked, Told, Asked
  <2> QED BY <2>1, <2>2 DEF PluginInv
<1>4. CASE owner[r] = generation /\ socket = "open"
  <2>1. PICK f \in {"progress", "answer"} : Head(toUi) = <<f, r>>
    BY DEF Relay
  <2>2. sentOn[r] = generation /\ Open(crossed[r]) /\ generation # 0
    BY <1>4 DEF PluginInv, Typed, Known, Owned
  <2>3. /\ crossed' = [crossed EXCEPT ![r] = Append(crossed[r], f)]
        /\ owner' = IF f = "answer" THEN [owner EXCEPT ![r] = 0] ELSE owner
    BY <1>4, <2>1, <2>2 DEF Relay, Crosses
  <2>4. crossed[r] \in Seq(Crossings) /\ Due(crossed[r])
    BY DEF PluginInv, Typed, Known
  <2>5. /\ Append(crossed[r], f) \in Seq(Crossings) /\ Due(Append(crossed[r], f))
        /\ Append(crossed[r], f) # <<>>
        /\ f = "progress" => Open(Append(crossed[r], f))
    BY <2>2, <2>4, CrossingIsDue
  <2>6. Typed' /\ Connected'
    <3>1. owner' \in [Requests -> Nat] /\ crossed' \in [Requests -> Seq(Crossings)]
      BY <2>3, <2>5 DEF PluginInv, Typed
    <3> QED BY <1>1, <1>2, <3>1 DEF PluginInv, Typed, Connected
  <2>7. ASSUME NEW x \in Requests PROVE Known(x)'
    <3>1. /\ Ordered(x)' <=> Ordered(x)
          /\ Revoked(x)' <=> Revoked(x)
          /\ Told(x)' => Told(x)
          /\ Asked(x)' <=> Asked(x)
      BY <1>1, <1>2 DEF Ordered, Revoked, Told, Asked
    <3>2. InOrder(x)'
      BY <1>1, <3>1 DEF PluginInv, Known, InOrder
    <3>3. CASE x # r
      <4>1. owner'[x] = owner[x] /\ crossed'[x] = crossed[x]
        BY <2>3, <3>3 DEF PluginInv, Typed
      <4>2. Due(crossed[x])' /\ Incoming(x)' /\ Owned(x)' /\ Unknown(x)' /\ NotAdrift(x)'
        BY <1>1, <3>1, <4>1 DEF PluginInv, Known, Incoming, Owned, Unknown, NotAdrift
      <4> QED BY <3>2, <4>2 DEF Known
    <3>4. CASE x = r
      <4>1. /\ crossed'[r] = Append(crossed[r], f)
            /\ owner'[r] = IF f = "answer" THEN 0 ELSE owner[r]
        BY <2>3 DEF PluginInv, Typed
      <4>2. Due(crossed[r])' /\ Owned(r)' /\ Unknown(r)'
        BY <1>1, <1>4, <2>2, <2>5, <4>1 DEF Owned, Unknown
      <4>3. Incoming(r)'
        BY <1>1, <2>2, <3>1, <3>4 DEF PluginInv, Known, Incoming, Open
      <4>4. f = "answer" => Told(r)
        BY <1>2, <2>1 DEF Told
      <4>5. NotAdrift(r)'
        BY <1>1, <1>4, <2>2, <3>1, <3>4, <4>1, <4>4 DEF PluginInv, Known, InOrder, NotAdrift
      <4> QED BY <3>2, <3>4, <4>2, <4>3, <4>5 DEF Known
    <3> QED BY <3>3, <3>4
  <2> QED BY <2>6, <2>7 DEF PluginInv
<1> QED BY <1>3, <1>4 DEF Relay

-----------------------------------------------------------------------------
(* The controller.                                                         *)

LEMMA OrderLeaves ==
    ASSUME Typed, NEW m, Takes(m)
    PROVE  /\ toController' \in Seq(Orders)
           /\ \A x : Contains(toController, x) <=> x = m \/ Contains(toController', x)
           /\ \A a, b : Before(toController', a, b) => Before(toController, a, b)
           /\ \A b : Contains(toController', b) => Before(toController, m, b)
           /\ UNCHANGED <<generation, socket, helloSent, timer, owner, down, sentOn, cancelled,
                          crossed>>
  BY TailHolds DEF Typed, Takes, Outside, connection, broker

LEMMA ReportAppends ==
    ASSUME Typed, NEW kind, NEW x, <<kind, x>> \in Reports, Posts(kind, x)
    PROVE  /\ toUi' \in Seq(Reports)
           /\ \A y : Contains(toUi', y) <=> Contains(toUi, y) \/ y = <<kind, x>>
<1> DEFINE m == <<kind, x>>
<1>1. toUi' = Append(toUi, m) /\ m \in Reports
  BY DEF Posts
<1> HIDE DEF m
<1>2. /\ toUi' \in Seq(Reports)
      /\ \A y : Contains(toUi', y) <=> Contains(toUi, y) \/ y = m
  BY <1>1, AppendHolds DEF Typed
<1> QED BY <1>2 DEF m

LEMMA MetadataKeeps == ASSUME NEW g \in 1..SOCKETS, PluginInv, TellMetadata(g) PROVE PluginInv'
<1>1. UNCHANGED <<work, emitted>> /\ g \in Nat
  BY InstanceAssumption DEF TellMetadata, reading
<1>2. /\ toController' \in Seq(Orders)
      /\ \A x : Contains(toController, x) <=> x = <<"metadata", g>> \/ Contains(toController', x)
      /\ \A a, b : Before(toController', a, b) => Before(toController, a, b)
      /\ UNCHANGED <<generation, socket, helloSent, timer, owner, down, sentOn, cancelled, crossed>>
  BY OrderLeaves DEF TellMetadata, PluginInv
<1>3. /\ toUi' \in Seq(Reports)
      /\ \A y : Contains(toUi', y) <=> Contains(toUi, y) \/ y = <<"ready", g>>
  BY <1>1, ReportAppends DEF TellMetadata, PluginInv, Reports
<1>4. Typed' /\ Connected'
  BY <1>1, <1>2, <1>3 DEF PluginInv, Typed, Connected
<1>5. ASSUME NEW x \in Requests PROVE Known(x)'
  <2>1. /\ Ordered(x)' <=> Ordered(x)
        /\ Revoked(x)' <=> Revoked(x)
        /\ Told(x)' <=> Told(x)
        /\ Asked(x)' <=> Asked(x)
    BY <1>2, <1>3 DEF Ordered, Revoked, Told, Asked
  <2> QED BY <1>1, <1>2, <2>1 DEF PluginInv, Known, Incoming, Owned, Unknown, NotAdrift, InOrder
<1> QED BY <1>4, <1>5 DEF PluginInv

LEMMA BeginKeeps == ASSUME NEW r \in Requests, PluginInv, BeginRead(r) PROVE PluginInv'
<1>1. work' = [work EXCEPT ![r] = "running"] /\ emitted' = [emitted EXCEPT ![r] = 1]
  BY DEF BeginRead
<1>2. /\ toController' \in Seq(Orders)
      /\ \A x : Contains(toController, x) <=> x = <<"request", r>> \/ Contains(toController', x)
      /\ \A a, b : Before(toController', a, b) => Before(toController, a, b)
      /\ \A b : Contains(toController', b) => Before(toController, <<"request", r>>, b)
      /\ UNCHANGED <<generation, socket, helloSent, timer, owner, down, sentOn, cancelled, crossed>>
  BY OrderLeaves DEF BeginRead, PluginInv
<1>3. /\ toUi' \in Seq(Reports)
      /\ \A y : Contains(toUi', y) <=> Contains(toUi, y) \/ y = <<"progress", r>>
  BY ReportAppends DEF BeginRead, PluginInv, Reports
<1>4. Typed' /\ Connected'
  BY <1>1, <1>2, <1>3 DEF PluginInv, Typed, Connected
<1>5. Ordered(r) /\ ~Ordered(r)' /\ work[r] = "none"
  BY <1>2 DEF PluginInv, Known, InOrder, Ordered
<1>6. ASSUME NEW x \in Requests PROVE Known(x)'
  <2>1. /\ Ordered(x)' <=> Ordered(x) /\ x # r
        /\ Revoked(x)' <=> Revoked(x)
        /\ Told(x)' <=> Told(x)
        /\ Asked(x)' <=> Asked(x)
    BY <1>2, <1>3, <1>5 DEF Ordered, Revoked, Told, Asked
  <2>2. work'[x] = IF x = r THEN "running" ELSE work[x]
    BY <1>1 DEF PluginInv, Typed
  <2>3. Due(crossed[x])' /\ Owned(x)' /\ Incoming(x)'
    BY <1>2, <2>1 DEF PluginInv, Known, Owned, Incoming
  <2>4. Unknown(x)' /\ NotAdrift(x)' /\ InOrder(x)'
    BY <1>2, <1>5, <2>1, <2>2 DEF PluginInv, Known, Unknown, NotAdrift, InOrder
  <2> QED BY <2>3, <2>4 DEF Known
<1> QED BY <1>4, <1>6 DEF PluginInv

LEMMA AbortKeeps == ASSUME NEW r \in Requests, PluginInv, AbortRead(r) PROVE PluginInv'
<1>1. /\ UNCHANGED emitted
      /\ \/ work[r] = "running" /\ Posts("answer", r) /\ work' = [work EXCEPT ![r] = "detached"]
         \/ work[r] # "running" /\ UNCHANGED <<toUi, work>>
  BY DEF AbortRead
<1>2. /\ toController' \in Seq(Orders)
      /\ \A x : Contains(toController, x) <=> x = <<"cancel", r>> \/ Contains(toController', x)
      /\ \A a, b : Before(toController', a, b) => Before(toController, a, b)
      /\ \A b : Contains(toController', b) => Before(toController, <<"cancel", r>>, b)
      /\ UNCHANGED <<generation, socket, helloSent, timer, owner, down, sentOn, cancelled, crossed>>
  BY OrderLeaves DEF AbortRead, PluginInv
<1>3. /\ toUi' \in Seq(Reports)
      /\ \A y : Contains(toUi', y)
                => Contains(toUi, y) \/ (y = <<"answer", r>> /\ work[r] = "running")
  <2>1. CASE work[r] = "running"
    BY <1>1, <2>1, ReportAppends DEF PluginInv, Reports
  <2>2. CASE work[r] # "running"
    BY <1>1, <2>2 DEF PluginInv, Typed
  <2> QED BY <2>1, <2>2
<1>4. Typed' /\ Connected'
  BY <1>1, <1>2, <1>3 DEF PluginInv, Typed, Connected
<1>5. Revoked(r) /\ ~Ordered(r)' /\ crossed[r] # <<>> /\ work'[r] # "running"
  <2>1. Revoked(r) /\ ~Ordered(r)'
    BY <1>2 DEF PluginInv, Known, InOrder, Ordered, Revoked
  <2> QED BY <1>1, <2>1 DEF PluginInv, Typed, Known, Unknown
<1>6. ASSUME NEW x \in Requests PROVE Known(x)'
  <2>1. /\ Ordered(x)' <=> Ordered(x) /\ (x = r => Ordered(x)')
        /\ x # r => (Revoked(x)' <=> Revoked(x))
        /\ Told(x)' => Told(x) \/ (x = r /\ work[r] = "running")
        /\ Asked(x)' <=> Asked(x)
    BY <1>2, <1>3 DEF Ordered, Revoked, Told, Asked
  <2>2. Due(crossed[x])' /\ Owned(x)' /\ Incoming(x)'
    BY <1>2, <2>1 DEF PluginInv, Known, Owned, Incoming
  <2>3. CASE x # r
    <3>1. work'[x] = work[x]
      BY <1>1, <2>3 DEF PluginInv, Typed
    <3>2. Unknown(x)' /\ NotAdrift(x)' /\ InOrder(x)'
      BY <1>2, <2>1, <2>3, <3>1 DEF PluginInv, Known, Unknown, NotAdrift, InOrder
    <3> QED BY <2>2, <3>2 DEF Known
  <2>4. CASE x = r
    <3>1. Unknown(r)' /\ NotAdrift(r)'
      BY <1>2, <1>5 DEF Unknown, NotAdrift
    <3>2. Told(r)' => work'[r] \in {"detached", "ended"}
      BY <1>1, <2>1, <2>4 DEF PluginInv, Typed, Known, InOrder
    <3>3. InOrder(r)'
      BY <1>2, <1>5, <3>2 DEF PluginInv, Known, InOrder
    <3> QED BY <2>2, <2>4, <3>1, <3>3 DEF Known
  <2> QED BY <2>3, <2>4
<1> QED BY <1>4, <1>6 DEF PluginInv

LEMMA TickKeeps == ASSUME NEW r \in Requests, PluginInv, Tick(r) PROVE PluginInv'
<1>1. /\ emitted' = [emitted EXCEPT ![r] = @ + 1]
      /\ UNCHANGED <<generation, socket, helloSent, timer, owner, down, toController, work, sentOn,
                     cancelled, crossed>>
  BY DEF Tick, Outside, connection, broker
<1>2. /\ toUi' \in Seq(Reports)
      /\ \A y : Contains(toUi', y) <=> Contains(toUi, y) \/ y = <<"progress", r>>
  BY ReportAppends DEF Tick, PluginInv, Reports
<1>3. Typed' /\ Connected'
  BY <1>1, <1>2 DEF PluginInv, Typed, Connected
<1>4. ASSUME NEW x \in Requests PROVE Known(x)'
  <2>1. /\ Ordered(x)' <=> Ordered(x)
        /\ Revoked(x)' <=> Revoked(x)
        /\ Told(x)' <=> Told(x)
        /\ Asked(x)' <=> Asked(x)
    BY <1>1, <1>2 DEF Ordered, Revoked, Told, Asked
  <2> QED BY <1>1, <2>1 DEF PluginInv, Known, Incoming, Owned, Unknown, NotAdrift, InOrder
<1> QED BY <1>3, <1>4 DEF PluginInv

LEMMA EndKeeps == ASSUME NEW r \in Requests, PluginInv, EndRead(r) PROVE PluginInv'
<1>1. /\ work[r] \in {"running", "detached"} /\ work' = [work EXCEPT ![r] = "ended"]
      /\ UNCHANGED <<generation, socket, helloSent, timer, owner, down, toController, emitted,
                     sentOn, cancelled, crossed>>
  BY DEF EndRead, Outside, connection, broker
<1>2. /\ toUi' \in Seq(Reports)
      /\ \A y : Contains(toUi', y) => Contains(toUi, y) \/ y = <<"answer", r>>
  <2>1. CASE Posts("answer", r)
    BY <2>1, ReportAppends DEF PluginInv, Reports
  <2>2. CASE UNCHANGED toUi
    BY <2>2 DEF PluginInv, Typed
  <2> QED BY <2>1, <2>2 DEF EndRead
<1>3. Typed' /\ Connected'
  BY <1>1, <1>2 DEF PluginInv, Typed, Connected
<1>4. crossed[r] # <<>> /\ ~Ordered(r)
  BY <1>1 DEF PluginInv, Known, Unknown, InOrder
<1>5. ASSUME NEW x \in Requests PROVE Known(x)'
  <2>1. /\ Ordered(x)' <=> Ordered(x)
        /\ Revoked(x)' <=> Revoked(x)
        /\ Told(x)' => Told(x) \/ x = r
        /\ Asked(x)' <=> Asked(x)
    BY <1>1, <1>2 DEF Ordered, Revoked, Told, Asked
  <2>2. work'[x] = IF x = r THEN "ended" ELSE work[x]
    BY <1>1 DEF PluginInv, Typed
  <2>3. Due(crossed[x])' /\ Owned(x)' /\ Incoming(x)'
    BY <1>1, <2>1 DEF PluginInv, Known, Owned, Incoming
  <2>4. Unknown(x)' /\ NotAdrift(x)' /\ InOrder(x)'
    BY <1>1, <1>4, <2>1, <2>2 DEF PluginInv, Known, Unknown, NotAdrift, InOrder
  <2> QED BY <2>3, <2>4 DEF Known
<1> QED BY <1>3, <1>5 DEF PluginInv

LEMMA StepKeepsKnown == PluginInv /\ [Next]_vars => PluginInv'
<1> SUFFICES ASSUME PluginInv, [Next]_vars PROVE PluginInv'
  OBVIOUS
<1>1. CASE UNCHANGED vars
  BY <1>1 DEF vars, connection, reading, broker, PluginInv, Typed, Connected, Known, Incoming,
              Owned, Unknown, NotAdrift, InOrder, Ordered, Revoked, Told, Asked
<1>2. CASE UiStep
  BY <1>2, ClosesKeeps, HelloKeeps, TakeRequestKeeps, TakeCancelKeeps, RelayKeeps DEF UiStep
<1>3. CASE ControllerStep
  BY <1>3, MetadataKeeps, BeginKeeps, AbortKeeps DEF ControllerStep
<1>4. CASE Break \/ Opens \/ Reconnects
  BY <1>4, BreakKeeps, OpensKeeps, ReconnectKeeps
<1>5. ASSUME NEW r \in Requests, BrokerSends(r) \/ Tick(r) \/ EndRead(r) PROVE PluginInv'
  BY <1>5, BrokerKeeps, TickKeeps, EndKeeps
<1> QED BY <1>1, <1>2, <1>3, <1>4, <1>5 DEF Next

-----------------------------------------------------------------------------
\* The broker is sent what it is due, over however many sockets: frames of a
\* request only on the socket that brought it, and none after its end.
THEOREM FramesAlwaysDue == Spec => []FramesAreDue
<1>1. PluginInv => FramesAreDue
  BY InvSuffices
<1> QED BY <1>1, InitKnown, StepKeepsKnown, PTL DEF Spec

\* No read is ever left to itself: it is owned, or its cancel is on the way.
THEOREM WorkAlwaysOwned == Spec => []WorkIsOwned
<1>1. PluginInv => WorkIsOwned
  BY InvSuffices
<1> QED BY <1>1, InitKnown, StepKeepsKnown, PTL DEF Spec
=============================================================================
