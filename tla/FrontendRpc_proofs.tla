------------------------- MODULE FrontendRpc_proofs -------------------------
(***************************************************************************)
(* A connection between a follower and the leader loses no call, works on  *)
(* none twice and answers each with its own verdict, for any number of     *)
(* calls and any capacity of its channels and of the stream.               *)
(***************************************************************************)
EXTENDS FrontendRpc, SequenceTheorems, TLAPS

-----------------------------------------------------------------------------
(* What a channel holds.                                                   *)

Before(s, a, b) == \E i, j \in 1..Len(s) : i < j /\ s[i] = a /\ s[j] = b

LEMMA AppendHolds ==
    ASSUME NEW S, NEW s \in Seq(S), NEW e \in S
    PROVE  /\ Append(s, e) \in Seq(S)
           /\ \A x : Contains(Append(s, e), x) <=> Contains(s, x) \/ x = e
           /\ \A a, b : Before(Append(s, e), a, b) => Before(s, a, b) \/ (Contains(s, a) /\ b = e)
<1>1. /\ Append(s, e) \in Seq(S) /\ Len(s) \in Nat /\ Len(Append(s, e)) = Len(s) + 1
      /\ \A i \in 1..Len(s) : Append(s, e)[i] = s[i]
      /\ Append(s, e)[Len(s) + 1] = e
  OBVIOUS
<1> DEFINE t == Append(s, e)
<1>2. \A i \in 1..Len(t) : i \in 1..Len(s) \/ i = Len(s) + 1
  BY <1>1
<1>3. \A i \in 1..Len(s) : i \in 1..Len(t)
  BY <1>1
<1>4. Len(s) + 1 \in 1..Len(t)
  BY <1>1
<1> HIDE DEF t
<1>5. \A x : Contains(t, x) <=> Contains(s, x) \/ x = e
  BY <1>1, <1>2, <1>3, <1>4 DEF Contains, t
<1>6. ASSUME NEW a, NEW b, Before(t, a, b) PROVE Before(s, a, b) \/ (Contains(s, a) /\ b = e)
  <2>1. PICK i \in 1..Len(t), j \in 1..Len(t) : i < j /\ t[i] = a /\ t[j] = b
    BY <1>6 DEF Before
  <2>2. i \in 1..Len(s)
    BY <1>1, <1>2, <2>1 DEF t
  <2>3. CASE j \in 1..Len(s)
    BY <1>1, <2>1, <2>2, <2>3 DEF Before, t
  <2>4. CASE j = Len(s) + 1
    BY <1>1, <2>1, <2>2, <2>4 DEF Contains, t
  <2> QED BY <1>2, <2>3, <2>4
<1> QED BY <1>1, <1>5, <1>6 DEF t

LEMMA TailHolds ==
    ASSUME NEW S, NEW s \in Seq(S), s # <<>>
    PROVE  /\ Tail(s) \in Seq(S) /\ Head(s) \in S
           /\ \A x : Contains(s, x) <=> x = Head(s) \/ Contains(Tail(s), x)
           /\ \A a, b : Before(Tail(s), a, b) => Before(s, a, b)
           /\ \A b : Contains(Tail(s), b) => Before(s, Head(s), b)
<1> DEFINE t == Tail(s)
<1>1. /\ t \in Seq(S) /\ Head(s) \in S /\ Head(s) = s[1] /\ Len(s) \in Nat \ {0}
      /\ Len(t) = Len(s) - 1
      /\ \A i \in 1..Len(t) : t[i] = s[i + 1]
  BY HeadTailProperties
<1> HIDE DEF t
<1>2. \A i \in 1..Len(t) : i + 1 \in 1..Len(s) /\ 1 < i + 1
  BY <1>1
<1>3. \A i \in 1..Len(s) : i = 1 \/ (i - 1 \in 1..Len(t) /\ t[i - 1] = s[i])
  BY <1>1
<1>4. 1 \in 1..Len(s)
  BY <1>1
<1>5. ASSUME NEW x PROVE Contains(s, x) <=> x = Head(s) \/ Contains(t, x)
  BY <1>1, <1>2, <1>3, <1>4 DEF Contains
<1>6. ASSUME NEW a, NEW b, Before(t, a, b) PROVE Before(s, a, b)
  <2>1. PICK i \in 1..Len(t), j \in 1..Len(t) : i < j /\ t[i] = a /\ t[j] = b
    BY <1>6 DEF Before
  <2>2. i + 1 < j + 1
    BY <2>1
  <2> QED BY <1>1, <1>2, <2>1, <2>2 DEF Before
<1>7. ASSUME NEW b, Contains(t, b) PROVE Before(s, Head(s), b)
  BY <1>1, <1>2, <1>4, <1>7 DEF Before, Contains
<1> QED BY <1>1, <1>5, <1>6, <1>7 DEF t

-----------------------------------------------------------------------------
(* The invariant.                                                          *)

Queued(c)  == Contains(commands, Request(c))
Leaving(c) == outgoing = Request(c)
Rising(c)  == Contains(uplink, Request(c))
Due(c)     == reply = Result(c) \/ Contains(downlink, Result(c))

\* A request is made once, and is in one place until its task begins.
Once(c) ==
    /\ caller[c] \in {"idle", "asking"} => ~Queued(c) /\ ~Leaving(c) /\ ~Rising(c)
    /\ caller[c] \in {"idle", "asking"} \/ Queued(c) \/ Leaving(c) \/ Rising(c) => task[c] = "none"
    /\ Queued(c) => ~Leaving(c) /\ ~Rising(c)
    /\ Leaving(c) => ~Rising(c)
    /\ ~Before(commands, Request(c), Request(c)) /\ ~Before(uplink, Request(c), Request(c))

\* A result that is on its way back is final.
Final(c) == /\ Due(c) => task[c] = "joined" /\ result[c] \in {"ok", "limit", "error"}
            /\ task[c] = "done" => result[c] \in {"ok", "big", "limit", "error"}

\* Nothing is expected before the handshake is over, at either end.
Handshake == /\ client = "dialing" => expects = {}
             /\ server = "handshake" => /\ active = {} /\ client # "serving"
                                        /\ downlink = <<>> /\ reply = None
                                        /\ \A c \in Calls : task[c] = "none"

RpcInv == /\ TypeOK /\ Handshake /\ TasksAreAccounted /\ NoCallIsLost
          /\ \A c \in Calls : Once(c) /\ Final(c)

LEMMA FramesDiffer ==
    /\ \A c, d \in Calls : /\ Request(c) = Request(d) <=> c = d
                           /\ Result(c) = Result(d) <=> c = d
                           /\ Request(c) # Cancel(d) /\ Result(c) # Progress(d)
    /\ \A c \in Calls : /\ Request(c) \notin {Bad, None} /\ Cancel(c) \notin {Bad, None}
                        /\ Result(c) \notin {Ready, None} /\ Progress(c) \notin {Ready, None}
  BY InstanceAssumption DEF Request, Cancel, Progress, Result, Bad, Ready

LEMMA InitRpc == Init => RpcInv
<1> SUFFICES ASSUME Init PROVE RpcInv
  OBVIOUS
<1>1. (\A x : ~Contains(<<>>, x)) /\ \A a, b : ~Before(<<>>, a, b)
  BY DEF Contains, Before
<1>2. TypeOK
  <2>1. ASSUME NEW S PROVE <<>> \in Seq(S) /\ Len(<<>>) = 0
    OBVIOUS
  <2>2. /\ commands = <<>> /\ uplink = <<>> /\ downlink = <<>> /\ progress = <<>>
    BY DEF Init
  <2>3. /\ commands \in Seq(Up) /\ Len(commands) <= COMMANDS
        /\ uplink \in Seq(Up \cup {Bad}) /\ Len(uplink) <= UPLINK
        /\ downlink \in Seq(Down \cup {Ready}) /\ Len(downlink) <= DOWNLINK
        /\ progress \in Seq(Calls) /\ Len(progress) <= PROGRESS
    BY <2>1, <2>2, InstanceAssumption
  <2>4. /\ caller \in [Calls -> Outcomes] /\ cancelling \subseteq Calls
        /\ task \in [Calls -> {"none", "opening", "running", "reporting", "stopping", "done",
                               "joined"}]
        /\ result \in [Calls -> {"none", "ok", "big", "limit", "error"}]
    BY DEF Init, Outcomes
  <2>5. frames \in [Calls -> 0..FRAMES]
    BY InstanceAssumption DEF Init
  <2>6. /\ client \in {"dialing", "serving", "ended"} /\ outgoing \in Up \cup {None}
        /\ expects \subseteq Calls
        /\ server \in {"handshake", "serving", "draining", "ended"} /\ reply \in Down \cup {None}
        /\ active \cup cancelled \subseteq Calls
    BY DEF Init
  <2>7. shutdown \in BOOLEAN
    BY DEF Init
  <2> QED BY <2>3, <2>4, <2>5, <2>6, <2>7 DEF TypeOK
<1>3. Handshake /\ TasksAreAccounted /\ NoCallIsLost
  BY DEF Init, Handshake, TasksAreAccounted, NoCallIsLost
<1>4. ASSUME NEW c \in Calls PROVE Once(c) /\ Final(c)
  BY <1>1, FramesDiffer DEF Init, Once, Final, Queued, Leaving, Rising, Due
<1> QED BY <1>2, <1>3, <1>4 DEF RpcInv

-----------------------------------------------------------------------------
(* The callers.                                                            *)

\* A caller that moves without a word, from where no request of its own is about.
LEMMA CallersKeep ==
    ASSUME NEW c \in Calls, RpcInv, Start(c) \/ CancelCall(c) \/ DropCall(c) PROVE RpcInv'
<1>1. /\ UNCHANGED <<commands, client, outgoing, expects, uplink, downlink, server, reply, active,
                     cancelled, task, result, frames, progress, shutdown>>
      /\ cancelling' \in {cancelling, cancelling \cup {c}}
      /\ \E to \in {"asking", "cancelled", "dropped"} :
            /\ caller' = [caller EXCEPT ![c] = to]
            /\ to = "asking" => caller[c] = "idle"
  BY DEF Start, CancelCall, DropCall, Step, looping, serving, working
<1>2. TypeOK'
  BY <1>1 DEF RpcInv, TypeOK, Outcomes
<1>3. Handshake' /\ TasksAreAccounted' /\ NoCallIsLost'
  BY <1>1 DEF RpcInv, Handshake, TasksAreAccounted, NoCallIsLost, Working
<1>4. ASSUME NEW x \in Calls PROVE Once(x)' /\ Final(x)'
  <2>1. caller'[x] \in {"idle", "asking"} => caller[x] \in {"idle", "asking"}
    BY <1>1 DEF RpcInv, TypeOK
  <2> QED BY <1>1, <2>1 DEF RpcInv, Once, Final, Queued, Leaving, Rising, Due
<1> QED BY <1>2, <1>3, <1>4 DEF RpcInv

LEMMA CommandAppends ==
    ASSUME TypeOK, NEW m \in Up, HasRoom, commands' = Append(commands, m)
    PROVE  /\ commands' \in Seq(Up) /\ Len(commands') <= COMMANDS
           /\ \A x : Contains(commands', x) <=> Contains(commands, x) \/ x = m
           /\ \A a, b : Before(commands', a, b)
                        => Before(commands, a, b) \/ (Contains(commands, a) /\ b = m)
<1>1. commands \in Seq(Up) /\ Len(commands) < COMMANDS /\ COMMANDS \in Nat
  BY InstanceAssumption DEF TypeOK, HasRoom
<1>2. Len(commands') = Len(commands) + 1 /\ Len(commands) \in Nat
  BY <1>1
<1> QED BY <1>1, <1>2, AppendHolds

LEMMA AskKeeps == ASSUME NEW c \in Calls, RpcInv, Ask(c) PROVE RpcInv'
<1>1. /\ UNCHANGED <<cancelling, client, outgoing, expects, uplink, downlink, server, reply, active,
                     cancelled, task, result, frames, progress, shutdown>>
      /\ caller[c] = "asking"
  BY DEF Ask, Step, looping, serving, working
<1>2. ~Queued(c) /\ ~Leaving(c) /\ ~Rising(c) /\ task[c] = "none"
  BY <1>1 DEF RpcInv, Once
<1>3. CASE HasRoom /\ caller' = [caller EXCEPT ![c] = "waiting"]
           /\ commands' = Append(commands, Request(c))
  <2> DEFINE m == Request(c)
  <2>1. m \in Up
    BY DEF Up
  <2> HIDE DEF m
  <2>2. /\ commands' \in Seq(Up) /\ Len(commands') <= COMMANDS
        /\ \A x : Contains(commands', x) <=> Contains(commands, x) \/ x = m
        /\ \A a, b : Before(commands', a, b)
                     => Before(commands, a, b) \/ (Contains(commands, a) /\ b = m)
    BY <1>3, <2>1, CommandAppends DEF RpcInv, m
  <2>3. TypeOK'
    BY <1>1, <1>3, <2>2 DEF RpcInv, TypeOK, Outcomes
  <2>4. Handshake' /\ TasksAreAccounted' /\ NoCallIsLost'
    BY <1>1 DEF RpcInv, Handshake, TasksAreAccounted, NoCallIsLost, Working
  <2>5. ASSUME NEW x \in Calls PROVE Once(x)' /\ Final(x)'
    <3>1. /\ Queued(x)' <=> Queued(x) \/ x = c
          /\ Before(commands', Request(x), Request(x))
             => Before(commands, Request(x), Request(x)) \/ (x = c /\ Queued(c))
      BY <2>2, FramesDiffer DEF Queued, m
    <3>2. /\ Leaving(x)' <=> Leaving(x)
          /\ Rising(x)' <=> Rising(x)
          /\ Due(x)' <=> Due(x)
      BY <1>1 DEF Leaving, Rising, Due
    <3>3. caller'[x] = IF x = c THEN "waiting" ELSE caller[x]
      BY <1>3 DEF RpcInv, TypeOK
    <3>4. Once(x)'
      BY <1>1, <1>2, <3>1, <3>2, <3>3 DEF RpcInv, Once
    <3> QED BY <1>1, <3>2, <3>4 DEF RpcInv, Final
  <2> QED BY <2>3, <2>4, <2>5 DEF RpcInv
<1>4. CASE caller' = [caller EXCEPT ![c] = "lost"] /\ UNCHANGED commands
  <2>1. TypeOK'
    BY <1>1, <1>4 DEF RpcInv, TypeOK, Outcomes
  <2>2. Handshake' /\ TasksAreAccounted' /\ NoCallIsLost'
    BY <1>1 DEF RpcInv, Handshake, TasksAreAccounted, NoCallIsLost, Working
  <2>3. ASSUME NEW x \in Calls PROVE Once(x)' /\ Final(x)'
    <3>1. caller'[x] = IF x = c THEN "lost" ELSE caller[x]
      BY <1>4 DEF RpcInv, TypeOK
    <3> QED BY <1>1, <1>4, <3>1 DEF RpcInv, Once, Final, Queued, Leaving, Rising, Due
  <2> QED BY <2>1, <2>2, <2>3 DEF RpcInv
<1> QED BY <1>3, <1>4 DEF Ask, Step

LEMMA SendCancelKeeps == ASSUME NEW c \in Calls, RpcInv, SendCancel(c) PROVE RpcInv'
<1> DEFINE m == Cancel(c)
<1>1. /\ UNCHANGED <<caller, client, outgoing, expects, uplink, downlink, server, reply, active,
                     cancelled, task, result, frames, progress, shutdown>>
      /\ cancelling' = cancelling \ {c}
      /\ (HasRoom /\ commands' = Append(commands, m)) \/ UNCHANGED commands
  BY DEF SendCancel, looping, serving, working
<1>2. m \in Up /\ \A x \in Calls : Request(x) # m
  BY FramesDiffer DEF Up
<1> HIDE DEF m
<1>3. /\ commands' \in Seq(Up) /\ Len(commands') <= COMMANDS
      /\ \A x : Contains(commands', x) => Contains(commands, x) \/ x = m
      /\ \A a, b : Before(commands', a, b) => Before(commands, a, b) \/ b = m
  <2>1. CASE HasRoom /\ commands' = Append(commands, m)
    BY <1>2, <2>1, CommandAppends DEF RpcInv
  <2>2. CASE UNCHANGED commands
    BY <2>2 DEF RpcInv, TypeOK
  <2> QED BY <1>1, <2>1, <2>2
<1>4. TypeOK'
  BY <1>1, <1>3 DEF RpcInv, TypeOK
<1>5. Handshake' /\ TasksAreAccounted' /\ NoCallIsLost'
  BY <1>1 DEF RpcInv, Handshake, TasksAreAccounted, NoCallIsLost, Working
<1>6. ASSUME NEW x \in Calls PROVE Once(x)' /\ Final(x)'
  <2>1. /\ Queued(x)' => Queued(x)
        /\ Before(commands', Request(x), Request(x)) => Before(commands, Request(x), Request(x))
    BY <1>2, <1>3 DEF Queued
  <2>2. /\ Leaving(x)' <=> Leaving(x)
        /\ Rising(x)' <=> Rising(x)
        /\ Due(x)' <=> Due(x)
    BY <1>1 DEF Leaving, Rising, Due
  <2> QED BY <1>1, <2>1, <2>2 DEF RpcInv, Once, Final
<1> QED BY <1>4, <1>5, <1>6 DEF RpcInv

-----------------------------------------------------------------------------
(* The client's loop.                                                      *)

LEMMA ConnectedKeeps == ASSUME RpcInv, Connected PROVE RpcInv'
<1>1. /\ client = "dialing" /\ client' = "serving" /\ downlink = <<Ready>> /\ downlink' = <<>>
      /\ UNCHANGED <<caller, cancelling, commands, outgoing, expects, uplink, server, reply, active,
                     cancelled, task, result, frames, progress, shutdown>>
  BY DEF Connected, calling, serving, working
<1>2. expects = {} /\ server # "handshake" /\ \A x : ~Contains(downlink', x)
  BY <1>1 DEF RpcInv, Handshake, Contains
<1>3. TypeOK'
  <2>1. downlink' \in Seq(Down \cup {Ready}) /\ Len(downlink') <= DOWNLINK
    BY <1>1, InstanceAssumption
  <2> QED BY <1>1, <2>1 DEF RpcInv, TypeOK
<1>4. Handshake' /\ TasksAreAccounted' /\ NoCallIsLost'
  BY <1>1, <1>2 DEF RpcInv, Handshake, TasksAreAccounted, NoCallIsLost, Working
<1>5. ASSUME NEW x \in Calls PROVE Once(x)' /\ Final(x)'
  BY <1>1, <1>2 DEF RpcInv, Once, Final, Queued, Leaving, Rising, Due
<1> QED BY <1>3, <1>4, <1>5 DEF RpcInv

LEMMA EndLoopKeeps ==
    ASSUME RpcInv, NEW also, EndLoop(also),
           UNCHANGED <<cancelling, uplink, downlink, serving, cancelled, working, progress, shutdown>>
    PROVE  RpcInv'
<1>1. /\ client' = "ended" /\ outgoing' = None /\ expects' = {} /\ commands' = <<>>
      /\ UNCHANGED <<cancelling, uplink, downlink, server, reply, active, cancelled, task, result,
                     frames, progress, shutdown>>
  BY DEF EndLoop, serving, working
<1>2. /\ caller' \in [Calls -> Outcomes]
      /\ \A x \in Calls : caller'[x] = caller[x] \/ caller'[x] = "lost"
  BY DEF EndLoop, Answered, RpcInv, TypeOK, Outcomes
<1>3. /\ commands' \in Seq(Up) /\ Len(commands') <= COMMANDS
      /\ (\A x : ~Contains(commands', x)) /\ \A a, b : ~Before(commands', a, b)
  BY <1>1, InstanceAssumption DEF Contains, Before
<1>4. TypeOK'
  BY <1>1, <1>2, <1>3 DEF RpcInv, TypeOK
<1>5. Handshake' /\ TasksAreAccounted' /\ NoCallIsLost'
  BY <1>1 DEF RpcInv, Handshake, TasksAreAccounted, NoCallIsLost, Working
<1>6. ASSUME NEW x \in Calls PROVE Once(x)' /\ Final(x)'
  <2>1. ~Leaving(x)' /\ ~Queued(x)' /\ (Rising(x)' <=> Rising(x)) /\ (Due(x)' <=> Due(x))
    BY <1>1, <1>3, FramesDiffer DEF Leaving, Queued, Rising, Due
  <2>2. caller'[x] \in {"idle", "asking"} => caller[x] \in {"idle", "asking"}
    BY <1>2
  <2> QED BY <1>1, <1>3, <2>1, <2>2 DEF RpcInv, Once, Final
<1> QED BY <1>4, <1>5, <1>6 DEF RpcInv

LEMMA TakeCommandKeeps == ASSUME RpcInv, TakeCommand PROVE RpcInv'
<1> DEFINE m    == Head(commands)
           asks == IF m[1] = "request" THEN {m[2]} ELSE {}
<1>1. /\ client = "serving" /\ outgoing = None /\ commands # <<>>
      /\ UNCHANGED <<cancelling, uplink, downlink, serving, cancelled, working, progress, shutdown>>
      /\ UNCHANGED <<server, reply, active, task, result, frames>>
  BY DEF TakeCommand, serving, working
<1>2. CASE EndLoop(asks)
  BY <1>1, <1>2, EndLoopKeeps
<1>3. CASE /\ commands' = Tail(commands) /\ outgoing' = m /\ expects' = expects \cup asks
           /\ UNCHANGED <<caller, client>>
  <2>1. /\ commands' \in Seq(Up) /\ m \in Up
        /\ \A x : Contains(commands, x) <=> x = m \/ Contains(commands', x)
        /\ \A a, b : Before(commands', a, b) => Before(commands, a, b)
        /\ \A b : Contains(commands', b) => Before(commands, m, b)
    BY <1>1, <1>3, TailHolds DEF RpcInv, TypeOK
  <2>2. Len(commands') <= COMMANDS
    BY <1>1, <1>3, InstanceAssumption DEF RpcInv, TypeOK
  <2>3. /\ asks \subseteq Calls
        /\ \A x \in Calls : x \in asks <=> m = Request(x)
    BY <2>1 DEF Up, Request, Cancel
  <2> HIDE DEF asks, m
  <2>4. TypeOK'
    BY <1>1, <1>3, <2>1, <2>2, <2>3 DEF RpcInv, TypeOK
  <2>5. Handshake' /\ TasksAreAccounted'
    BY <1>1, <1>3 DEF RpcInv, Handshake, TasksAreAccounted, Working
  <2>6. NoCallIsLost'
    <3> SUFFICES ASSUME NEW x \in expects', client = "serving", server = "serving"
                 PROVE  \/ outgoing' = Request(x) \/ Contains(uplink, Request(x))
                        \/ x \in active
                        \/ reply = Result(x) \/ Contains(downlink, Result(x))
      BY <1>1, <1>3 DEF NoCallIsLost
    <3>1. x \in Calls
      BY <2>4 DEF TypeOK
    <3>2. CASE x \in asks
      BY <1>3, <2>3, <3>1, <3>2
    <3>3. CASE x \in expects
      BY <1>1, <3>1, <3>3, FramesDiffer DEF RpcInv, NoCallIsLost
    <3> QED BY <1>3, <3>2, <3>3
  <2>7. ASSUME NEW x \in Calls PROVE Once(x)' /\ Final(x)'
    <3>1. /\ Queued(x) <=> m = Request(x) \/ Queued(x)'
          /\ m = Request(x) => ~Queued(x)'
          /\ Before(commands', Request(x), Request(x)) => Before(commands, Request(x), Request(x))
      BY <2>1 DEF Queued, RpcInv, Once
    <3>2. /\ Leaving(x)' <=> m = Request(x)
          /\ Rising(x)' <=> Rising(x)
          /\ Due(x)' <=> Due(x)
      BY <1>1, <1>3 DEF Leaving, Rising, Due
    <3> QED BY <1>1, <1>3, <3>1, <3>2 DEF RpcInv, Once, Final
  <2> QED BY <2>4, <2>5, <2>6, <2>7 DEF RpcInv
<1> QED BY <1>2, <1>3 DEF TakeCommand

LEMMA UplinkAppends ==
    ASSUME TypeOK, NEW m \in Up \cup {Bad}, Len(uplink) < UPLINK, uplink' = Append(uplink, m)
    PROVE  /\ uplink' \in Seq(Up \cup {Bad}) /\ Len(uplink') <= UPLINK
           /\ \A x : Contains(uplink', x) <=> Contains(uplink, x) \/ x = m
           /\ \A a, b : Before(uplink', a, b)
                        => Before(uplink, a, b) \/ (Contains(uplink, a) /\ b = m)
<1>1. uplink \in Seq(Up \cup {Bad}) /\ UPLINK \in Nat
  BY InstanceAssumption DEF TypeOK
<1>2. Len(uplink') = Len(uplink) + 1 /\ Len(uplink) \in Nat
  BY <1>1
<1> QED BY <1>1, <1>2, AppendHolds

LEMMA TransmitKeeps == ASSUME RpcInv, Transmit PROVE RpcInv'
<1>1. /\ outgoing # None /\ Len(uplink) < UPLINK /\ uplink' = Append(uplink, outgoing)
      /\ outgoing' = None
      /\ UNCHANGED <<caller, cancelling, commands, client, expects, downlink, server, reply, active,
                     cancelled, task, result, frames, progress, shutdown>>
  BY DEF Transmit, calling, serving, working
<1>2. outgoing \in Up
  BY <1>1 DEF RpcInv, TypeOK
<1>3. /\ uplink' \in Seq(Up \cup {Bad}) /\ Len(uplink') <= UPLINK
      /\ \A x : Contains(uplink', x) <=> Contains(uplink, x) \/ x = outgoing
      /\ \A a, b : Before(uplink', a, b)
                   => Before(uplink, a, b) \/ (Contains(uplink, a) /\ b = outgoing)
  BY <1>1, <1>2, UplinkAppends DEF RpcInv
<1>4. TypeOK'
  BY <1>1, <1>3 DEF RpcInv, TypeOK
<1>5. Handshake' /\ TasksAreAccounted' /\ NoCallIsLost'
  BY <1>1, <1>3 DEF RpcInv, Handshake, TasksAreAccounted, NoCallIsLost, Working
<1>6. ASSUME NEW x \in Calls PROVE Once(x)' /\ Final(x)'
  <2>1. /\ Queued(x)' <=> Queued(x)
        /\ ~Leaving(x)'
        /\ Rising(x)' <=> Rising(x) \/ Leaving(x)
        /\ Due(x)' <=> Due(x)
        /\ Before(uplink', Request(x), Request(x))
           => Before(uplink, Request(x), Request(x)) \/ (Rising(x) /\ Leaving(x))
    BY <1>1, <1>3, FramesDiffer DEF Queued, Leaving, Rising, Due
  <2> QED BY <1>1, <2>1 DEF RpcInv, Once, Final
<1> QED BY <1>4, <1>5, <1>6 DEF RpcInv

LEMMA MisbehaveKeeps == ASSUME RpcInv, Misbehave PROVE RpcInv'
<1>1. /\ Len(uplink) < UPLINK /\ uplink' = Append(uplink, Bad)
      /\ UNCHANGED <<caller, cancelling, commands, client, outgoing, expects, downlink, server,
                     reply, active, cancelled, task, result, frames, progress, shutdown>>
  BY DEF Misbehave, calling, looping, serving, working
<1>2. /\ uplink' \in Seq(Up \cup {Bad}) /\ Len(uplink') <= UPLINK
      /\ \A x : Contains(uplink', x) <=> Contains(uplink, x) \/ x = Bad
      /\ \A a, b : Before(uplink', a, b)
                   => Before(uplink, a, b) \/ (Contains(uplink, a) /\ b = Bad)
  BY <1>1, UplinkAppends DEF RpcInv
<1>3. TypeOK'
  BY <1>1, <1>2 DEF RpcInv, TypeOK
<1>4. Handshake' /\ TasksAreAccounted' /\ NoCallIsLost'
  BY <1>1, <1>2 DEF RpcInv, Handshake, TasksAreAccounted, NoCallIsLost, Working
<1>5. ASSUME NEW x \in Calls PROVE Once(x)' /\ Final(x)'
  <2>1. /\ Queued(x)' <=> Queued(x)
        /\ Leaving(x)' <=> Leaving(x)
        /\ Rising(x)' <=> Rising(x)
        /\ Due(x)' <=> Due(x)
        /\ Before(uplink', Request(x), Request(x)) => Before(uplink, Request(x), Request(x))
    BY <1>1, <1>2, FramesDiffer DEF Queued, Leaving, Rising, Due
  <2> QED BY <1>1, <2>1 DEF RpcInv, Once, Final
<1> QED BY <1>3, <1>4, <1>5 DEF RpcInv

LEMMA DownlinkLeaves ==
    ASSUME TypeOK, downlink # <<>>, downlink' = Tail(downlink)
    PROVE  /\ downlink' \in Seq(Down \cup {Ready}) /\ Len(downlink') <= DOWNLINK
           /\ Head(downlink) \in Down \cup {Ready}
           /\ \A x : Contains(downlink, x) <=> x = Head(downlink) \/ Contains(downlink', x)
<1>1. downlink \in Seq(Down \cup {Ready}) /\ DOWNLINK \in Nat
  BY InstanceAssumption DEF TypeOK
<1>2. Len(downlink') <= DOWNLINK
  BY <1>1 DEF TypeOK
<1> QED BY <1>1, <1>2, TailHolds

LEMMA ReceiveKeeps == ASSUME RpcInv, ReceiveFrame PROVE RpcInv'
<1> DEFINE m == Head(downlink)
<1>1. /\ downlink # <<>> /\ downlink' = Tail(downlink)
      /\ UNCHANGED <<cancelling, commands, client, outgoing, uplink, server, reply, active,
                     cancelled, task, result, frames, progress, shutdown>>
  BY DEF ReceiveFrame, serving, working
<1>2. /\ downlink' \in Seq(Down \cup {Ready}) /\ Len(downlink') <= DOWNLINK
      /\ m \in Down \cup {Ready}
      /\ \A x : Contains(downlink, x) <=> x = m \/ Contains(downlink', x)
  BY <1>1, DownlinkLeaves DEF RpcInv
<1>3. CASE \E c \in Calls : m = Result(c)
  <2>1. PICK c \in Calls : m = Result(c)
    BY <1>3
  <2>2. /\ expects' = expects \ {c}
        /\ caller' = [x \in Calls |-> IF x \in expects \cap {c} /\ caller[x] = "waiting"
                                        THEN result[c] ELSE caller[x]]
    BY <2>1 DEF ReceiveFrame, Answered, Result
  <2>3. result[c] \in {"ok", "limit", "error"}
    BY <1>2, <2>1 DEF RpcInv, Final, Due
  <2>4. /\ caller' \in [Calls -> Outcomes]
        /\ \A x \in Calls : caller'[x] \in {"idle", "asking"} => caller[x] \in {"idle", "asking"}
    BY <2>2, <2>3 DEF RpcInv, TypeOK, Outcomes
  <2>5. TypeOK'
    BY <1>1, <1>2, <2>2, <2>4 DEF RpcInv, TypeOK
  <2>6. Handshake' /\ TasksAreAccounted'
    BY <1>1, <2>2 DEF RpcInv, Handshake, TasksAreAccounted, Working
  <2>7. NoCallIsLost'
    <3> SUFFICES ASSUME NEW x \in expects', client = "serving", server = "serving"
                 PROVE  \/ outgoing = Request(x) \/ Contains(uplink, Request(x))
                        \/ x \in active
                        \/ reply = Result(x) \/ Contains(downlink', Result(x))
      BY <1>1 DEF NoCallIsLost
    <3>1. x \in expects /\ x \in Calls /\ x # c
      BY <2>2 DEF RpcInv, TypeOK
    <3>2. m # Result(x)
      BY <2>1, <3>1, FramesDiffer
    <3> QED BY <1>2, <3>1, <3>2 DEF RpcInv, NoCallIsLost
  <2>8. ASSUME NEW x \in Calls PROVE Once(x)' /\ Final(x)'
    <3>1. /\ Queued(x)' <=> Queued(x)
          /\ Leaving(x)' <=> Leaving(x)
          /\ Rising(x)' <=> Rising(x)
          /\ Due(x)' => Due(x)
      BY <1>1, <1>2 DEF Queued, Leaving, Rising, Due
    <3> QED BY <1>1, <2>4, <3>1 DEF RpcInv, Once, Final
  <2> QED BY <2>5, <2>6, <2>7, <2>8 DEF RpcInv
<1>4. CASE \A c \in Calls : m # Result(c)
  <2>1. UNCHANGED <<expects, caller>>
    BY <1>2, <1>4 DEF ReceiveFrame, Down, Result, Progress, Ready
  <2>2. TypeOK'
    BY <1>1, <1>2, <2>1 DEF RpcInv, TypeOK
  <2>3. Handshake' /\ TasksAreAccounted'
    BY <1>1, <2>1 DEF RpcInv, Handshake, TasksAreAccounted, Working
  <2>4. NoCallIsLost'
    BY <1>1, <1>2, <1>4, <2>1 DEF RpcInv, TypeOK, NoCallIsLost
  <2>5. ASSUME NEW x \in Calls PROVE Once(x)' /\ Final(x)'
    <3>1. /\ Queued(x)' <=> Queued(x)
          /\ Leaving(x)' <=> Leaving(x)
          /\ Rising(x)' <=> Rising(x)
          /\ Due(x)' => Due(x)
      BY <1>1, <1>2 DEF Queued, Leaving, Rising, Due
    <3> QED BY <1>1, <2>1, <3>1 DEF RpcInv, Once, Final
  <2> QED BY <2>2, <2>3, <2>4, <2>5 DEF RpcInv
<1> QED BY <1>3, <1>4

LEMMA LoopEndsKeeps == ASSUME RpcInv, LoopEnds PROVE RpcInv'
  BY EndLoopKeeps DEF LoopEnds

-----------------------------------------------------------------------------
(* The leader's side.                                                      *)

LEMMA WelcomeKeeps == ASSUME RpcInv, Welcome \/ Refuse PROVE RpcInv'
<1>1. /\ server = "handshake" /\ active = {} /\ client # "serving" /\ reply = None
      /\ \A c \in Calls : task[c] = "none"
      /\ UNCHANGED <<caller, cancelling, commands, client, outgoing, expects, uplink, reply, active,
                     cancelled, task, result, frames, progress, shutdown>>
      /\ server' \in {"serving", "ended"}
  BY DEF Welcome, Refuse, RpcInv, Handshake, calling, looping, working
<1>2. downlink' \in {<<>>, <<Ready>>}
  BY DEF Welcome, Refuse, RpcInv, Handshake
<1>3. \A x \in Calls : ~Contains(downlink', Result(x))
  BY <1>2, FramesDiffer DEF Contains
<1>4. TypeOK'
  <2>1. /\ <<>> \in Seq(Down \cup {Ready}) /\ Len(<<>>) = 0
        /\ <<Ready>> \in Seq(Down \cup {Ready}) /\ Len(<<Ready>>) = 1
        /\ 0 <= DOWNLINK /\ 1 <= DOWNLINK
    BY InstanceAssumption
  <2>2. downlink' \in Seq(Down \cup {Ready}) /\ Len(downlink') <= DOWNLINK
    BY <1>2, <2>1
  <2> QED BY <1>1, <2>2 DEF RpcInv, TypeOK
<1>5. Handshake' /\ TasksAreAccounted' /\ NoCallIsLost'
  BY <1>1 DEF RpcInv, Handshake, TasksAreAccounted, NoCallIsLost, Working
<1>6. ASSUME NEW x \in Calls PROVE Once(x)' /\ Final(x)'
  <2>1. /\ Queued(x)' <=> Queued(x)
        /\ Leaving(x)' <=> Leaving(x)
        /\ Rising(x)' <=> Rising(x)
        /\ ~Due(x)'
    BY <1>1, <1>3, FramesDiffer DEF Queued, Leaving, Rising, Due
  <2> QED BY <1>1, <2>1 DEF RpcInv, Once, Final
<1> QED BY <1>4, <1>5, <1>6 DEF RpcInv

\* Frames may be lost from the stream once the leader no longer serves.
LEMMA TeardownKeeps ==
    ASSUME RpcInv, server = "serving", Teardown,
           uplink' \in Seq(Up \cup {Bad}), Len(uplink') <= UPLINK,
           \A x : Contains(uplink', x) => Contains(uplink, x),
           \A a, b : Before(uplink', a, b) => Before(uplink, a, b),
           UNCHANGED <<caller, cancelling, commands, client, outgoing, expects, downlink, task,
                       result, frames, progress, shutdown>>
    PROVE  RpcInv'
<1>1. TypeOK'
  BY DEF RpcInv, TypeOK, Teardown
<1>2. Handshake' /\ TasksAreAccounted' /\ NoCallIsLost'
  BY DEF RpcInv, Handshake, TasksAreAccounted, NoCallIsLost, Working, Teardown
<1>3. ASSUME NEW x \in Calls PROVE Once(x)' /\ Final(x)'
  <2>1. /\ Queued(x)' <=> Queued(x)
        /\ Leaving(x)' <=> Leaving(x)
        /\ Rising(x)' => Rising(x)
        /\ Due(x)' => Due(x)
    BY FramesDiffer DEF Queued, Leaving, Rising, Due, Teardown
  <2> QED BY <2>1 DEF RpcInv, Once, Final
<1> QED BY <1>1, <1>2, <1>3 DEF RpcInv

LEMMA StopServingKeeps == ASSUME RpcInv, StopServing PROVE RpcInv'
  BY TeardownKeeps DEF StopServing, RpcInv, TypeOK, calling, looping, working

LEMMA ReadKeeps == ASSUME RpcInv, Read PROVE RpcInv'
<1> DEFINE m == Head(uplink)
<1>1. /\ server = "serving" /\ reply = None /\ uplink # <<>> /\ uplink' = Tail(uplink)
      /\ UNCHANGED <<caller, cancelling, commands, client, outgoing, expects, downlink, result,
                     frames, progress, shutdown>>
  BY DEF Read, AtSelect, calling, looping
<1>2. /\ uplink' \in Seq(Up \cup {Bad}) /\ m \in Up \cup {Bad}
      /\ \A x : Contains(uplink, x) <=> x = m \/ Contains(uplink', x)
      /\ \A a, b : Before(uplink', a, b) => Before(uplink, a, b)
      /\ \A b : Contains(uplink', b) => Before(uplink, m, b)
  BY <1>1, TailHolds DEF RpcInv, TypeOK
<1>3. Len(uplink') <= UPLINK
  BY <1>1, InstanceAssumption DEF RpcInv, TypeOK
<1>4. ASSUME NEW c \in Calls, m = Request(c), active' = active \cup {c},
             task' = [task EXCEPT ![c] = "opening"], UNCHANGED <<server, reply, cancelled>>
      PROVE  RpcInv'
  <2>1. Rising(c) /\ ~Rising(c)' /\ task[c] = "none"
    BY <1>2, <1>4 DEF Rising, RpcInv, Once
  <2>2. ~Queued(c) /\ ~Leaving(c) /\ caller[c] \notin {"idle", "asking"} /\ ~Due(c)
    BY <2>1 DEF RpcInv, Once, Final
  <2> HIDE DEF m
  <2>3. TypeOK'
    BY <1>1, <1>2, <1>3, <1>4 DEF RpcInv, TypeOK
  <2>4. \A x \in Calls : task'[x] = IF x = c THEN "opening" ELSE task[x]
    BY <1>4 DEF RpcInv, TypeOK
  <2>5. Handshake' /\ TasksAreAccounted'
    BY <1>1, <1>4, <2>4 DEF RpcInv, TypeOK, Handshake, TasksAreAccounted, Working
  <2>6. NoCallIsLost'
    <3> SUFFICES ASSUME NEW x \in expects, client = "serving"
                 PROVE  \/ outgoing = Request(x) \/ Contains(uplink', Request(x))
                        \/ x \in active \cup {c}
                        \/ reply = Result(x) \/ Contains(downlink, Result(x))
      BY <1>1, <1>4 DEF NoCallIsLost
    <3>1. x \in Calls
      BY DEF RpcInv, TypeOK
    <3> QED BY <1>1, <1>2, <1>4, <3>1, FramesDiffer DEF RpcInv, NoCallIsLost
  <2>7. ASSUME NEW x \in Calls PROVE Once(x)' /\ Final(x)'
    <3>1. /\ Queued(x)' <=> Queued(x)
          /\ Leaving(x)' <=> Leaving(x)
          /\ Rising(x)' => Rising(x)
          /\ Due(x)' <=> Due(x)
      BY <1>1, <1>2, <1>4 DEF Queued, Leaving, Rising, Due
    <3>2. Once(x)'
      BY <1>1, <1>2, <2>1, <2>2, <2>4, <3>1 DEF RpcInv, Once
    <3>3. Final(x)'
      BY <1>1, <2>2, <2>4, <3>1 DEF RpcInv, Final
    <3> QED BY <3>2, <3>3
  <2> QED BY <2>3, <2>5, <2>6, <2>7 DEF RpcInv
<1>5. ASSUME NEW c \in Calls, m = Cancel(c), cancelled' \in SUBSET (cancelled \cup active),
             cancelled \subseteq cancelled',
             UNCHANGED <<server, reply, active, task>>
      PROVE  RpcInv'
  <2> HIDE DEF m
  <2>1. TypeOK'
    BY <1>1, <1>2, <1>3, <1>5 DEF RpcInv, TypeOK
  <2>2. Handshake' /\ TasksAreAccounted'
    BY <1>1, <1>5 DEF RpcInv, TypeOK, Handshake, TasksAreAccounted, Working
  <2>3. NoCallIsLost'
    <3> SUFFICES ASSUME NEW x \in expects, client = "serving"
                 PROVE  \/ outgoing = Request(x) \/ Contains(uplink', Request(x))
                        \/ x \in active
                        \/ reply = Result(x) \/ Contains(downlink, Result(x))
      BY <1>1, <1>5 DEF NoCallIsLost
    <3>1. x \in Calls
      BY DEF RpcInv, TypeOK
    <3> QED BY <1>1, <1>2, <1>5, <3>1, FramesDiffer DEF RpcInv, NoCallIsLost
  <2>4. ASSUME NEW x \in Calls PROVE Once(x)' /\ Final(x)'
    <3>1. /\ Queued(x)' <=> Queued(x)
          /\ Leaving(x)' <=> Leaving(x)
          /\ Rising(x)' => Rising(x)
          /\ Due(x)' <=> Due(x)
      BY <1>1, <1>2, <1>5 DEF Queued, Leaving, Rising, Due
    <3> QED BY <1>1, <1>2, <1>5, <3>1 DEF RpcInv, Once, Final
  <2> QED BY <2>1, <2>2, <2>3, <2>4 DEF RpcInv
<1>6. CASE m = Bad /\ Teardown /\ UNCHANGED task
  BY <1>1, <1>2, <1>3, <1>6, TeardownKeeps
<1>7. m[1] = "request" => \E c \in Calls : m = Request(c) /\ m[2] = c
  BY <1>2 DEF Up, Request, Cancel, Bad
<1>8. m[1] = "cancel" => \E c \in Calls : m = Cancel(c)
  BY <1>2 DEF Up, Request, Cancel, Bad
<1> QED BY <1>4, <1>5, <1>6, <1>7, <1>8 DEF Read, serving

LEMMA TakeProgressKeeps == ASSUME RpcInv, TakeProgress PROVE RpcInv'
<1>1. /\ server = "serving" /\ reply = None /\ progress # <<>>
      /\ reply' = Progress(Head(progress)) /\ progress' = Tail(progress)
      /\ UNCHANGED <<caller, cancelling, commands, client, outgoing, expects, uplink, downlink,
                     server, active, cancelled, task, result, frames, shutdown>>
  BY DEF TakeProgress, AtSelect, calling, looping, working
<1>2. /\ progress' \in Seq(Calls) /\ Len(progress') <= PROGRESS
      /\ Head(progress) \in Calls
  BY <1>1, InstanceAssumption DEF RpcInv, TypeOK
<1>3. reply' \in Down /\ \A x \in Calls : reply' # Result(x)
  BY <1>1, <1>2, FramesDiffer DEF Down
<1>4. TypeOK'
  BY <1>1, <1>2, <1>3 DEF RpcInv, TypeOK
<1>5. Handshake' /\ TasksAreAccounted'
  BY <1>1 DEF RpcInv, Handshake, TasksAreAccounted, Working
<1>6. NoCallIsLost'
  BY <1>1, <1>4, FramesDiffer DEF RpcInv, TypeOK, NoCallIsLost
<1>7. ASSUME NEW x \in Calls PROVE Once(x)' /\ Final(x)'
  <2>1. /\ Queued(x)' <=> Queued(x)
        /\ Leaving(x)' <=> Leaving(x)
        /\ Rising(x)' <=> Rising(x)
        /\ Due(x)' => Due(x)
    BY <1>1, <1>3 DEF Queued, Leaving, Rising, Due
  <2> QED BY <1>1, <2>1 DEF RpcInv, Once, Final
<1> QED BY <1>4, <1>5, <1>6, <1>7 DEF RpcInv

LEMMA JoinKeeps == ASSUME NEW c \in Calls, RpcInv, Join(c) PROVE RpcInv'
<1> DEFINE m == Result(c)
<1>1. /\ server = "serving" /\ reply = None /\ task[c] = "done"
      /\ task' = [task EXCEPT ![c] = "joined"] /\ active' = active \ {c} /\ reply' = m
      /\ result' = [result EXCEPT ![c] = IF @ = "big" THEN "limit" ELSE @]
      /\ UNCHANGED <<caller, cancelling, commands, client, outgoing, expects, uplink, downlink,
                     server, cancelled, frames, progress, shutdown>>
  BY DEF Join, AtSelect, calling, looping
<1>2. m \in Down
  BY DEF Down
<1>3. result[c] \in {"ok", "big", "limit", "error"}
  BY <1>1 DEF RpcInv, Final
<1>4. \A x \in Calls : /\ task'[x] = IF x = c THEN "joined" ELSE task[x]
                       /\ x # c => result'[x] = result[x]
                       /\ result'[c] \in {"ok", "limit", "error"}
                       /\ m = Result(x) <=> x = c
  BY <1>1, <1>3, FramesDiffer DEF RpcInv, TypeOK
<1> HIDE DEF m
<1>5. TypeOK'
  <2>1. /\ task' \in [Calls -> {"none", "opening", "running", "reporting", "stopping", "done",
                                "joined"}]
        /\ result' \in [Calls -> {"none", "ok", "big", "limit", "error"}]
    BY <1>1, <1>3 DEF RpcInv, TypeOK
  <2> QED BY <1>1, <1>2, <2>1 DEF RpcInv, TypeOK
<1>6. Handshake'
  BY <1>1 DEF RpcInv, Handshake
<1>7. TasksAreAccounted'
  BY <1>1, <1>4 DEF RpcInv, TypeOK, TasksAreAccounted, Working
<1>8. NoCallIsLost'
  <2> SUFFICES ASSUME NEW x \in expects, client = "serving"
               PROVE  \/ outgoing = Request(x) \/ Contains(uplink, Request(x))
                      \/ x \in active \ {c}
                      \/ m = Result(x) \/ Contains(downlink, Result(x))
    BY <1>1 DEF NoCallIsLost
  <2>1. x \in Calls
    BY DEF RpcInv, TypeOK
  <2>2. reply # Result(x)
    BY <1>1, <2>1, FramesDiffer
  <2> QED BY <1>1, <1>4, <2>1, <2>2 DEF RpcInv, NoCallIsLost
<1>9. ASSUME NEW x \in Calls PROVE Once(x)' /\ Final(x)'
  <2>1. /\ Queued(x)' <=> Queued(x)
        /\ Leaving(x)' <=> Leaving(x)
        /\ Rising(x)' <=> Rising(x)
        /\ Due(x)' => Due(x) \/ x = c
    BY <1>1, <1>4 DEF Queued, Leaving, Rising, Due
  <2>2. CASE x = c
    BY <1>1, <1>4, <2>1, <2>2 DEF RpcInv, Once, Final
  <2>3. CASE x # c
    BY <1>1, <1>4, <2>1, <2>3 DEF RpcInv, Once, Final
  <2> QED BY <2>2, <2>3
<1> QED BY <1>5, <1>6, <1>7, <1>8, <1>9 DEF RpcInv

LEMMA ReplyKeeps == ASSUME RpcInv, Reply PROVE RpcInv'
<1>1. /\ reply # None /\ Len(downlink) < DOWNLINK
      /\ downlink' = Append(downlink, reply) /\ reply' = None
      /\ UNCHANGED <<caller, cancelling, commands, client, outgoing, expects, uplink, server,
                     active, cancelled, task, result, frames, progress, shutdown>>
  BY DEF Reply, calling, looping, working
<1>2. reply \in Down
  BY <1>1 DEF RpcInv, TypeOK
<1>3. downlink \in Seq(Down \cup {Ready}) /\ DOWNLINK \in Nat
  BY InstanceAssumption DEF RpcInv, TypeOK
<1>4. /\ downlink' \in Seq(Down \cup {Ready})
      /\ \A x : Contains(downlink', x) <=> Contains(downlink, x) \/ x = reply
  BY <1>1, <1>2, <1>3, AppendHolds
<1>5. Len(downlink') <= DOWNLINK
  <2>1. Len(downlink') = Len(downlink) + 1 /\ Len(downlink) \in Nat
    BY <1>1, <1>2, <1>3
  <2> QED BY <1>1, <1>3, <2>1
<1>6. TypeOK'
  BY <1>1, <1>4, <1>5 DEF RpcInv, TypeOK
<1>7. Handshake'
  BY <1>1 DEF RpcInv, Handshake
<1>8. TasksAreAccounted'
  BY <1>1 DEF RpcInv, TasksAreAccounted, Working
<1>9. NoCallIsLost'
  BY <1>1, <1>4 DEF RpcInv, NoCallIsLost
<1>10. ASSUME NEW x \in Calls PROVE Once(x)' /\ Final(x)'
  <2>1. /\ Queued(x)' <=> Queued(x)
        /\ Leaving(x)' <=> Leaving(x)
        /\ Rising(x)' <=> Rising(x)
        /\ Due(x)' => Due(x)
    BY <1>1, <1>4, FramesDiffer DEF Queued, Leaving, Rising, Due
  <2> QED BY <1>1, <2>1 DEF RpcInv, Once, Final
<1> QED BY <1>6, <1>7, <1>8, <1>9, <1>10 DEF RpcInv

\* The leader has ended, and no task works.
LEMMA OverKeeps ==
    ASSUME RpcInv, server \in {"serving", "draining"}, server' = "ended",
           reply' \in {reply, None}, active' \subseteq Calls,
           task' \in [Calls -> {"none", "done", "joined"}],
           \A x \in Calls : /\ task[x] = "none" => task'[x] = "none"
                            /\ task[x] = "joined" => task'[x] = "joined"
                            /\ task'[x] = "done" => task[x] = "done",
           UNCHANGED <<caller, cancelling, commands, client, outgoing, expects, uplink, downlink,
                       cancelled, result, frames, progress, shutdown>>
    PROVE  RpcInv'
<1>1. TypeOK'
  <2>1. task' \in [Calls -> {"none", "opening", "running", "reporting", "stopping", "done",
                             "joined"}]
    OBVIOUS
  <2> QED BY <2>1 DEF RpcInv, TypeOK
<1>2. Handshake' /\ TasksAreAccounted' /\ NoCallIsLost'
  BY DEF RpcInv, Handshake, TasksAreAccounted, NoCallIsLost, Working
<1>3. ASSUME NEW x \in Calls PROVE Once(x)' /\ Final(x)'
  <2>1. /\ Queued(x)' <=> Queued(x)
        /\ Leaving(x)' <=> Leaving(x)
        /\ Rising(x)' <=> Rising(x)
        /\ Due(x)' => Due(x)
    BY FramesDiffer DEF Queued, Leaving, Rising, Due
  <2> QED BY <2>1 DEF RpcInv, Once, Final
<1> QED BY <1>1, <1>2, <1>3 DEF RpcInv

LEMMA DrainedKeeps == ASSUME RpcInv, Drained PROVE RpcInv'
<1>1. /\ server = "draining" /\ server' = "ended" /\ \A c \in Calls : ~Working(c)
      /\ UNCHANGED <<caller, cancelling, commands, client, outgoing, expects, uplink, downlink,
                     reply, active, cancelled, task, result, frames, progress, shutdown>>
  BY DEF Drained, calling, looping, working
<1>2. task' \in [Calls -> {"none", "done", "joined"}] /\ active' \subseteq Calls
  BY <1>1 DEF Working, RpcInv, TypeOK
<1> QED BY <1>1, <1>2, OverKeeps

LEMMA AbortKeeps == ASSUME RpcInv, Abort PROVE RpcInv'
  BY OverKeeps DEF Abort, calling, looping

LEMMA ShutDownKeeps == ASSUME RpcInv, ShutDown PROVE RpcInv'
<1>1. /\ shutdown' = TRUE
      /\ UNCHANGED <<caller, cancelling, commands, client, outgoing, expects, uplink, downlink,
                     server, reply, active, cancelled, task, result, frames, progress>>
  BY DEF ShutDown, calling, looping, serving, working
<1>2. TypeOK'
  BY <1>1 DEF RpcInv, TypeOK
<1>3. Handshake' /\ TasksAreAccounted' /\ NoCallIsLost'
  BY <1>1 DEF RpcInv, Handshake, TasksAreAccounted, NoCallIsLost, Working
<1>4. ASSUME NEW x \in Calls PROVE Once(x)' /\ Final(x)'
  BY <1>1 DEF RpcInv, Once, Final, Queued, Leaving, Rising, Due
<1> QED BY <1>2, <1>3, <1>4 DEF RpcInv

-----------------------------------------------------------------------------
(* The task of a call.                                                     *)

\* A working task goes on, or is done with a result.
LEMMA WorkKeeps ==
    ASSUME NEW c \in Calls, RpcInv, Working(c), Alone,
           NEW to \in {"running", "reporting", "stopping", "done"},
           task' = [task EXCEPT ![c] = to],
           NEW kind \in {"ok", "big", "error"},
           to = "done" => result' = [result EXCEPT ![c] = kind],
           to # "done" => UNCHANGED result,
           frames' \in [Calls -> 0..FRAMES],
           progress' \in Seq(Calls), Len(progress') <= PROGRESS
    PROVE  RpcInv'
<1>1. UNCHANGED <<caller, cancelling, commands, client, outgoing, expects, uplink, downlink, server,
                  reply, active, cancelled, shutdown>>
  BY DEF Alone, calling, looping, serving
<1>2. /\ task[c] \notin {"none", "done", "joined"}
      /\ server \in {"serving", "draining"}
  BY DEF Working, RpcInv, TypeOK, Handshake, TasksAreAccounted
<1>3. \A x \in Calls : /\ task'[x] = IF x = c THEN to ELSE task[x]
                       /\ x # c => result'[x] = result[x]
                       /\ to = "done" => result'[c] = kind
  BY DEF RpcInv, TypeOK
<1>4. TypeOK'
  <2>1. /\ task' \in [Calls -> {"none", "opening", "running", "reporting", "stopping", "done",
                                "joined"}]
        /\ result' \in [Calls -> {"none", "ok", "big", "limit", "error"}]
    BY DEF RpcInv, TypeOK
  <2> QED BY <1>1, <2>1 DEF RpcInv, TypeOK
<1>5. Handshake' /\ NoCallIsLost'
  BY <1>1, <1>2 DEF RpcInv, Handshake, NoCallIsLost
<1>6. TasksAreAccounted'
  BY <1>1, <1>2, <1>3 DEF RpcInv, TypeOK, TasksAreAccounted, Working
<1>7. ASSUME NEW x \in Calls PROVE Once(x)' /\ Final(x)'
  <2>1. /\ Queued(x)' <=> Queued(x)
        /\ Leaving(x)' <=> Leaving(x)
        /\ Rising(x)' <=> Rising(x)
        /\ Due(x)' <=> Due(x)
    BY <1>1 DEF Queued, Leaving, Rising, Due
  <2>2. CASE x = c
    BY <1>1, <1>2, <1>3, <2>1, <2>2 DEF RpcInv, Once, Final
  <2>3. CASE x # c
    BY <1>1, <1>3, <2>1, <2>3 DEF RpcInv, Once, Final
  <2> QED BY <2>2, <2>3
<1> QED BY <1>4, <1>5, <1>6, <1>7 DEF RpcInv

LEMMA TaskKeeps ==
    ASSUME NEW c \in Calls, RpcInv, TaskStep(c) \/ TakeResult(c) \/ TakeFrame(c) PROVE RpcInv'
<1>1. /\ frames \in [Calls -> 0..FRAMES] /\ progress \in Seq(Calls) /\ Len(progress) <= PROGRESS
      /\ PROGRESS \in Nat /\ FRAMES \in Nat
  BY InstanceAssumption DEF RpcInv, TypeOK
<1>2. ASSUME NEW from \in {"opening", "running", "stopping"}, NEW kind \in {"ok", "big", "error"},
             Finish(c, from, kind), UNCHANGED <<frames, progress>>, Alone
      PROVE  RpcInv'
  BY <1>1, <1>2, WorkKeeps DEF Finish, Move, Working
<1>3. ASSUME NEW from \in {"opening", "running", "reporting"},
             NEW to \in {"running", "reporting", "stopping"},
             Move(c, from, to), UNCHANGED result, Alone, frames' \in [Calls -> 0..FRAMES],
             progress' \in Seq(Calls), Len(progress') <= PROGRESS
      PROVE  RpcInv'
  <2>1. Working(c) /\ task' = [task EXCEPT ![c] = to] /\ to # "done" /\ "ok" \in {"ok", "big", "error"}
    BY <1>3 DEF Move, Working
  <2> QED BY <1>3, <2>1, WorkKeeps
<1>4. CASE Open(c)
  BY <1>1, <1>2, <1>3, <1>4 DEF Open
<1>5. CASE Report(c)
  <2>1. progress' = Append(progress, c) /\ Len(progress) < PROGRESS
    BY <1>5 DEF Report
  <2>2. progress' \in Seq(Calls) /\ Len(progress') = Len(progress) + 1 /\ Len(progress) \in Nat
    BY <1>1, <2>1
  <2>3. Len(progress') <= PROGRESS
    BY <1>1, <2>1, <2>2
  <2> QED BY <1>1, <1>3, <1>5, <2>2, <2>3 DEF Report
<1>6. CASE Obey(c)
  BY <1>1, <1>2, <1>3, <1>6 DEF Obey
<1>7. CASE TakeResult(c)
  BY <1>2, <1>7 DEF TakeResult
<1>8. CASE TakeFrame(c)
  <2>1. frames[c] > 0 /\ frames' = [frames EXCEPT ![c] = @ - 1]
    BY <1>8 DEF TakeFrame
  <2>2. frames[c] - 1 \in 0..FRAMES
    BY <1>1, <2>1
  <2>3. frames' \in [Calls -> 0..FRAMES]
    BY <1>1, <2>1, <2>2
  <2> QED BY <1>1, <1>3, <1>8, <2>3 DEF TakeFrame
<1> QED BY <1>4, <1>5, <1>6, <1>7, <1>8 DEF TaskStep

-----------------------------------------------------------------------------
(* Every step keeps the invariant.                                         *)

LEMMA StepKeepsRpc == RpcInv /\ [Next]_vars => RpcInv'
<1> SUFFICES ASSUME RpcInv, [Next]_vars PROVE RpcInv'
  OBVIOUS
<1>1. ASSUME NEW c \in Calls,
             Start(c) \/ CallerStep(c) \/ CancelCall(c) \/ DropCall(c)
      PROVE  RpcInv'
  BY <1>1, CallersKeep, AskKeeps, SendCancelKeeps DEF CallerStep
<1>2. ASSUME NEW c \in Calls, TaskStep(c) \/ TakeResult(c) \/ TakeFrame(c) PROVE RpcInv'
  BY <1>2, TaskKeeps
<1>3. CASE ClientStep \/ LoopEnds \/ Misbehave
  BY <1>3, ConnectedKeeps, TakeCommandKeeps, TransmitKeeps, ReceiveKeeps, LoopEndsKeeps,
     MisbehaveKeeps DEF ClientStep
<1>4. CASE ServerStep
  BY <1>4, ReadKeeps, TakeProgressKeeps, JoinKeeps, ReplyKeeps, StopServingKeeps, DrainedKeeps
     DEF ServerStep
<1>5. CASE Welcome \/ Refuse \/ Abort \/ ShutDown
  BY <1>5, WelcomeKeeps, AbortKeeps, ShutDownKeeps
<1>6. CASE UNCHANGED vars
  <2>1. UNCHANGED <<caller, cancelling, commands, client, outgoing, expects, uplink, downlink,
                    server, reply, active, cancelled, task, result, frames, progress, shutdown>>
    BY <1>6 DEF vars, calling, looping, serving, working
  <2>2. TypeOK'
    BY <2>1 DEF RpcInv, TypeOK
  <2>3. Handshake' /\ TasksAreAccounted' /\ NoCallIsLost'
    BY <2>1 DEF RpcInv, Handshake, TasksAreAccounted, NoCallIsLost, Working
  <2>4. ASSUME NEW x \in Calls PROVE Once(x)' /\ Final(x)'
    BY <2>1 DEF RpcInv, Once, Final, Queued, Leaving, Rising, Due
  <2> QED BY <2>2, <2>3, <2>4 DEF RpcInv
<1> QED BY <1>1, <1>2, <1>3, <1>4, <1>5, <1>6 DEF Next

LEMMA SpecKeepsRpc == Spec => []RpcInv
  BY InitRpc, StepKeepsRpc, PTL DEF Spec

\* The variables keep their types, and no channel of a connection, nor the stream, ever
\* holds more than its capacity.
THEOREM TypeCorrect == Spec => []TypeOK
<1>1. RpcInv => TypeOK
  BY DEF RpcInv
<1> QED BY <1>1, SpecKeepsRpc, PTL

\* While both `client_loop` and `serve_frontend` serve, every call in the client's map
\* `pending` is a frame on its way to the leader, a task of it, or a result on its way
\* back, whoever cancels, drops or misbehaves and however little the channels hold.
THEOREM CallsAreKept == Spec => []NoCallIsLost
<1>1. RpcInv => NoCallIsLost
  BY DEF RpcInv
<1> QED BY <1>1, SpecKeepsRpc, PTL

\* `serve_frontend` knows its tasks: while it serves, exactly the calls in `active` have
\* one; once it has left its loop, all that still work are cancelled; and when it has
\* returned, and its lease is gone, none works any more.
THEOREM TasksStayAccounted == Spec => []TasksAreAccounted
<1>1. RpcInv => TasksAreAccounted
  BY DEF RpcInv
<1> QED BY <1>1, SpecKeepsRpc, PTL

-----------------------------------------------------------------------------
(* The connection implements RemoteCall: each step is one of its steps or     *)
(* changes nothing it sees.                                                   *)

SameOutcomes == \A d \in Calls : Outcome(d)' = Outcome(d)
SameWork     == \A d \in Calls : WorkOn(d)' = WorkOn(d) /\ Verdict(d)' = Verdict(d)

LEMMA StutterIs == ASSUME SameOutcomes, SameWork PROVE UNCHANGED Remote!vars
  BY DEF SameOutcomes, SameWork, Remote!vars

LEMMA SendIs ==
    ASSUME NEW c \in Calls, Outcome(c) = "unsent", SameWork,
           \A d \in Calls : Outcome(d)' = IF d = c THEN "open" ELSE Outcome(d)
    PROVE  Remote!Next
<1>1. Remote!Send(c)
  BY DEF SameWork, Remote!Send, Remote!Becomes
<1> QED BY <1>1 DEF Remote!Next

LEMMA AbandonIs ==
    ASSUME NEW c \in Calls, Outcome(c) = "open", SameWork,
           NEW kind \in {"cancelled", "dropped"},
           \A d \in Calls : Outcome(d)' = IF d = c THEN kind ELSE Outcome(d)
    PROVE  Remote!Next
<1>1. Remote!Becomes(c, kind)
  BY DEF SameWork, Remote!Becomes
<1>2. Remote!Abandon(c)
  BY <1>1 DEF Remote!Abandon
<1> QED BY <1>2 DEF Remote!Next

LEMMA AnswerIs ==
    ASSUME NEW c \in Calls, Outcome(c) = "open", WorkOn(c) = "over",
           Verdict(c) \in {"ok", "limit", "error"}, SameWork,
           \A d \in Calls : Outcome(d)' = IF d = c THEN Verdict(c) ELSE Outcome(d)
    PROVE  Remote!Next
<1>1. Remote!Answer(c)
  BY DEF SameWork, Remote!Answer, Remote!Becomes, Remote!Verdicts
<1> QED BY <1>1 DEF Remote!Next

LEMMA LoseIs ==
    ASSUME NEW S \in SUBSET Calls, \A c \in S : Outcome(c) \in {"unsent", "open"}, SameWork,
           \A d \in Calls : Outcome(d)' = IF d \in S THEN "lost" ELSE Outcome(d)
    PROVE  Remote!Next
<1>1. Remote!Lose(S)
  BY DEF SameWork, Remote!Lose
<1> QED BY <1>1 DEF Remote!Next

LEMMA BeginIs ==
    ASSUME NEW c \in Calls, Outcome(c) # "unsent", WorkOn(c) = "none", SameOutcomes,
           \A d \in Calls : /\ WorkOn(d)' = IF d = c THEN "begun" ELSE WorkOn(d)
                            /\ Verdict(d)' = Verdict(d)
    PROVE  Remote!Next
<1>1. Remote!Begin(c)
  BY DEF SameOutcomes, Remote!Begin
<1> QED BY <1>1 DEF Remote!Next

LEMMA EndIs ==
    ASSUME NEW S \in SUBSET Calls, \A c \in S : WorkOn(c) = "begun", SameOutcomes,
           \A d \in Calls : /\ WorkOn(d)' = IF d \in S THEN "over" ELSE WorkOn(d)
                            /\ d \notin S => Verdict(d)' = Verdict(d)
                            /\ Verdict(d)' \in {"ok", "limit", "error", "none"}
    PROVE  Remote!Next
<1> DEFINE v == [c \in S |-> Verdict(c)']
<1>1. v \in [S -> Remote!Verdicts \cup {"none"}]
  BY DEF Remote!Verdicts
<1>2. [c \in Calls |-> Verdict(c)]' = [c \in Calls |-> IF c \in S THEN v[c] ELSE Verdict(c)]
  OBVIOUS
<1>3. Remote!End(S)
  BY <1>1, <1>2 DEF SameOutcomes, Remote!End
<1> QED BY <1>3 DEF Remote!Next

\* What the map sees is a matter of three variables.
LEMMA SameCallerIs == ASSUME UNCHANGED caller PROVE SameOutcomes
  BY DEF SameOutcomes, Outcome

LEMMA SameTaskIs == ASSUME UNCHANGED <<task, result>> PROVE SameWork
  BY DEF SameWork, WorkOn, Verdict

\* One call moves on at its caller.
LEMMA CallerMovesIs ==
    ASSUME RpcInv, NEW c \in Calls, NEW from, NEW to, Step(c, from, to)
    PROVE  /\ caller[c] = from
           /\ \A d \in Calls : caller'[d] = IF d = c THEN to ELSE caller[d]
  BY DEF RpcInv, TypeOK, Step

LEMMA CallerImplements ==
    ASSUME RpcInv, NEW c \in Calls, Start(c) \/ Ask(c) \/ CancelCall(c) \/ DropCall(c)
    PROVE  Remote!Next \/ UNCHANGED Remote!vars
<1>1. SameWork
  BY SameTaskIs DEF Start, Ask, CancelCall, DropCall, working
<1>2. CASE Start(c)
  <2>1. caller[c] = "idle" /\ \A d \in Calls : caller'[d] = IF d = c THEN "asking" ELSE caller[d]
    BY <1>2, CallerMovesIs DEF Start
  <2>2. SameOutcomes
    BY <2>1 DEF SameOutcomes, Outcome
  <2> QED BY <1>1, <2>2, StutterIs
<1>3. CASE Step(c, "asking", "waiting")
  <2>1. caller[c] = "asking" /\ \A d \in Calls : caller'[d] = IF d = c THEN "waiting" ELSE caller[d]
    BY <1>3, CallerMovesIs
  <2>2. Outcome(c) = "unsent" /\ \A d \in Calls : Outcome(d)' = IF d = c THEN "open" ELSE Outcome(d)
    BY <2>1 DEF Outcome
  <2> QED BY <1>1, <2>2, SendIs
<1>4. CASE Step(c, "asking", "lost")
  <2>1. caller[c] = "asking" /\ \A d \in Calls : caller'[d] = IF d = c THEN "lost" ELSE caller[d]
    BY <1>4, CallerMovesIs
  <2>2. /\ \A d \in {c} : Outcome(d) \in {"unsent", "open"}
        /\ \A d \in Calls : Outcome(d)' = IF d \in {c} THEN "lost" ELSE Outcome(d)
    BY <2>1 DEF Outcome
  <2>3. {c} \in SUBSET Calls
    OBVIOUS
  <2> QED BY <1>1, <2>2, <2>3, LoseIs
<1>5. ASSUME NEW kind \in {"cancelled", "dropped"}, Step(c, "waiting", kind) PROVE Remote!Next
  <2>1. caller[c] = "waiting" /\ \A d \in Calls : caller'[d] = IF d = c THEN kind ELSE caller[d]
    BY <1>5, CallerMovesIs
  <2>2. Outcome(c) = "open" /\ \A d \in Calls : Outcome(d)' = IF d = c THEN kind ELSE Outcome(d)
    BY <2>1 DEF Outcome
  <2> QED BY <1>1, <2>2, AbandonIs
<1> QED BY <1>2, <1>3, <1>4, <1>5 DEF Ask, CancelCall, DropCall

\* The client's loop: calls are lost with it, or one is answered.
LEMMA AnsweredIs ==
    ASSUME RpcInv, NEW S, NEW kind, Answered(S, kind)
    PROVE  \A d \in Calls : caller'[d] = IF d \in S /\ caller[d] = "waiting" THEN kind ELSE caller[d]
  BY DEF Answered

LEMMA EndLoopImplements ==
    ASSUME RpcInv, NEW also, EndLoop(also), UNCHANGED <<task, result>> PROVE Remote!Next
<1> DEFINE T == expects \cup also \cup {c \in Calls : Contains(commands, Request(c))}
           S == {c \in Calls : c \in T /\ caller[c] = "waiting"}
<1>1. Answered(T, "lost")
  BY DEF EndLoop
<1> HIDE DEF T
<1>2. \A d \in Calls : caller'[d] = IF d \in S THEN "lost" ELSE caller[d]
  BY <1>1, AnsweredIs
<1>3. /\ \A c \in S : Outcome(c) \in {"unsent", "open"}
      /\ \A d \in Calls : Outcome(d)' = IF d \in S THEN "lost" ELSE Outcome(d)
  BY <1>2 DEF Outcome
<1>4. SameWork /\ S \in SUBSET Calls
  BY SameTaskIs
<1> HIDE DEF S
<1> QED BY <1>3, <1>4, LoseIs

LEMMA ClientImplements ==
    ASSUME RpcInv, TakeCommand \/ ReceiveFrame \/ LoopEnds
    PROVE  Remote!Next \/ UNCHANGED Remote!vars
<1>1. UNCHANGED <<task, result>>
  BY DEF TakeCommand, ReceiveFrame, LoopEnds, working
<1>2. CASE UNCHANGED caller
  BY <1>1, <1>2, SameCallerIs, SameTaskIs, StutterIs
<1>3. CASE \E also : EndLoop(also)
  BY <1>1, <1>3, EndLoopImplements
<1>4. CASE ReceiveFrame /\ ~UNCHANGED caller
  <2> DEFINE m == Head(downlink)
             c == m[2]
  <2>1. m[1] = "result" /\ Answered(expects \cap {c}, result[c])
    BY <1>4 DEF ReceiveFrame
  <2>2. downlink # <<>> /\ downlink \in Seq(Down \cup {Ready}) /\ expects \subseteq Calls
    BY <1>4 DEF ReceiveFrame, RpcInv, TypeOK
  <2>3. m \in Down \cup {Ready} /\ Contains(downlink, m)
    BY <2>2, TailHolds
  <2>4. PICK k \in Calls : m = Result(k)
    BY <2>1, <2>3 DEF Down, Ready, Progress
  <2>5. c = k
    BY <2>4 DEF Result
  <2> HIDE DEF m, c
  <2>6. task[k] = "joined" /\ result[k] \in {"ok", "limit", "error"}
    BY <2>3, <2>4 DEF RpcInv, Final, Due
  <2>7. \A d \in Calls : caller'[d] = IF d \in expects \cap {k} /\ caller[d] = "waiting"
                                      THEN result[k] ELSE caller[d]
    BY <2>1, <2>5, AnsweredIs
  <2>8. WorkOn(k) = "over" /\ Verdict(k) = result[k]
    BY <2>6 DEF WorkOn, Verdict
  <2>9. CASE k \in expects /\ caller[k] = "waiting"
    <3>1. \A d \in Calls : caller'[d] = IF d = k THEN result[k] ELSE caller[d]
      BY <2>7, <2>9
    <3>2. Outcome(k) = "open" /\ \A d \in Calls : Outcome(d)' = IF d = k THEN Verdict(k) ELSE Outcome(d)
      BY <2>6, <2>8, <2>9, <3>1 DEF Outcome
    <3> QED BY <1>1, <2>6, <2>8, <3>2, SameTaskIs, AnswerIs
  <2>10. CASE ~(k \in expects /\ caller[k] = "waiting")
    <3>1. \A d \in Calls : caller'[d] = caller[d]
      BY <2>7, <2>10
    <3>2. SameOutcomes
      BY <3>1 DEF SameOutcomes, Outcome
    <3> QED BY <1>1, <3>2, SameTaskIs, StutterIs
  <2> QED BY <2>9, <2>10
<1>5. TakeCommand \/ LoopEnds => UNCHANGED caller \/ \E also : EndLoop(also)
  BY DEF TakeCommand, LoopEnds
<1> QED BY <1>2, <1>3, <1>4, <1>5

\* One task moves on.
LEMMA TaskMovesIs ==
    ASSUME RpcInv, NEW c \in Calls, NEW from, NEW to, Move(c, from, to)
    PROVE  /\ task[c] = from
           /\ \A d \in Calls : task'[d] = IF d = c THEN to ELSE task[d]
  BY DEF RpcInv, TypeOK, Move

LEMMA TaskImplements ==
    ASSUME RpcInv, NEW c \in Calls, Open(c) \/ TakeResult(c) \/ TakeFrame(c) \/ Report(c) \/ Obey(c)
    PROVE  UNCHANGED Remote!vars
<1> DEFINE Busy == {"opening", "running", "reporting", "stopping", "done"}
<1>1. UNCHANGED caller
  BY DEF Open, TakeResult, TakeFrame, Report, Obey, Alone, calling
<1>2. PICK from \in Busy, to \in Busy : Move(c, from, to)
  BY DEF Open, TakeResult, TakeFrame, Report, Obey, Finish
<1>3. \A d \in Calls : d # c => result'[d] = result[d]
  BY DEF Open, TakeResult, TakeFrame, Report, Obey, Finish, RpcInv, TypeOK
<1>4. task[c] \in Busy /\ \A d \in Calls : task'[d] = IF d = c THEN to ELSE task[d]
  BY <1>2, TaskMovesIs
<1>5. SameWork
  BY <1>3, <1>4 DEF SameWork, WorkOn, Verdict
<1> QED BY <1>1, <1>5, SameCallerIs, StutterIs

LEMMA ReadImplements == ASSUME RpcInv, Read PROVE Remote!Next \/ UNCHANGED Remote!vars
<1>1. UNCHANGED caller /\ UNCHANGED result
  BY DEF Read, calling
<1>2. CASE UNCHANGED task
  BY <1>1, <1>2, SameCallerIs, SameTaskIs, StutterIs
<1>3. CASE ~UNCHANGED task
  <2> DEFINE m == Head(uplink)
             c == m[2]
  <2>1. m[1] = "request" /\ task' = [task EXCEPT ![c] = "opening"]
    BY <1>3 DEF Read
  <2>2. uplink # <<>> /\ uplink \in Seq(Up \cup {Bad})
    BY <1>3 DEF Read, RpcInv, TypeOK
  <2>3. m \in Up \cup {Bad} /\ Contains(uplink, m)
    BY <2>2, TailHolds
  <2>4. PICK k \in Calls : m = Request(k)
    BY <2>1, <2>3 DEF Up, Bad, Cancel
  <2>5. c = k
    BY <2>4 DEF Request
  <2> HIDE DEF m, c
  <2>6. task[k] = "none" /\ caller[k] \notin {"idle", "asking"}
    BY <2>3, <2>4 DEF RpcInv, Once, Rising
  <2>7. \A d \in Calls : task'[d] = IF d = k THEN "opening" ELSE task[d]
    BY <2>1, <2>5 DEF RpcInv, TypeOK
  <2>8. Outcome(k) # "unsent"
    <3>1. caller[k] # "unsent"
      BY DEF RpcInv, TypeOK, Outcomes
    <3> QED BY <2>6, <3>1 DEF Outcome
  <2>9. /\ WorkOn(k) = "none"
        /\ \A d \in Calls : /\ WorkOn(d)' = IF d = k THEN "begun" ELSE WorkOn(d)
                            /\ Verdict(d)' = Verdict(d)
    BY <1>1, <2>6, <2>7 DEF WorkOn, Verdict
  <2> QED BY <1>1, <2>8, <2>9, SameCallerIs, BeginIs
<1> QED BY <1>2, <1>3

LEMMA JoinImplements == ASSUME RpcInv, NEW c \in Calls, Join(c) PROVE Remote!Next
<1>1. UNCHANGED caller
  BY DEF Join, calling
<1>2. task[c] = "done" /\ \A d \in Calls : task'[d] = IF d = c THEN "joined" ELSE task[d]
  BY DEF Join, RpcInv, TypeOK
<1>3. \A d \in Calls : d # c => result'[d] = result[d]
  BY DEF Join, RpcInv, TypeOK
<1>4. /\ \A d \in {c} : WorkOn(d) = "begun"
      /\ \A d \in Calls : /\ WorkOn(d)' = IF d \in {c} THEN "over" ELSE WorkOn(d)
                          /\ d \notin {c} => Verdict(d)' = Verdict(d)
                          /\ Verdict(d)' \in {"ok", "limit", "error", "none"}
  BY <1>2, <1>3 DEF WorkOn, Verdict
<1>5. {c} \in SUBSET Calls
  OBVIOUS
<1> QED BY <1>1, <1>4, <1>5, SameCallerIs, EndIs

LEMMA AbortImplements == ASSUME RpcInv, Abort PROVE Remote!Next
<1> DEFINE S == {c \in Calls : task[c] \notin {"none", "joined"}}
<1>1. UNCHANGED caller /\ UNCHANGED result
      /\ \A d \in Calls : task'[d] = IF task[d] = "none" THEN "none" ELSE "joined"
  BY DEF Abort, calling
<1>2. /\ \A d \in S : WorkOn(d) = "begun"
      /\ \A d \in Calls : /\ WorkOn(d)' = IF d \in S THEN "over" ELSE WorkOn(d)
                          /\ d \notin S => Verdict(d)' = Verdict(d)
                          /\ Verdict(d)' \in {"ok", "limit", "error", "none"}
  BY <1>1 DEF WorkOn, Verdict
<1>3. S \in SUBSET Calls
  OBVIOUS
<1> HIDE DEF S
<1> QED BY <1>1, <1>2, <1>3, SameCallerIs, EndIs

LEMMA InitImplements == Init => Remote!Init
  BY DEF Init, Remote!Init, Outcome, WorkOn, Verdict

LEMMA StepImplements ==
    ASSUME RpcInv, [Next]_vars PROVE Remote!Next \/ UNCHANGED Remote!vars
<1>1. CASE UNCHANGED <<caller, task, result>>
  BY <1>1, SameCallerIs, SameTaskIs, StutterIs
<1>2. ASSUME NEW c \in Calls,
             Start(c) \/ CallerStep(c) \/ CancelCall(c) \/ DropCall(c)
             \/ TaskStep(c) \/ TakeResult(c) \/ TakeFrame(c)
      PROVE  Remote!Next \/ UNCHANGED Remote!vars
  <2>1. CASE Start(c) \/ Ask(c) \/ CancelCall(c) \/ DropCall(c)
    BY <2>1, CallerImplements
  <2>2. CASE SendCancel(c)
    BY <1>1, <2>2 DEF SendCancel, working
  <2>3. CASE TaskStep(c) \/ TakeResult(c) \/ TakeFrame(c)
    BY <2>3, TaskImplements DEF TaskStep
  <2> QED BY <1>2, <2>1, <2>2, <2>3 DEF CallerStep
<1>3. CASE TakeCommand \/ ReceiveFrame \/ LoopEnds
  BY <1>3, ClientImplements
<1>4. CASE Connected \/ Transmit \/ Misbehave
  BY <1>1, <1>4 DEF Connected, Transmit, Misbehave, calling, working
<1>5. CASE Welcome \/ Refuse \/ TakeProgress \/ Reply \/ StopServing \/ Drained \/ ShutDown
  BY <1>1, <1>5 DEF Welcome, Refuse, TakeProgress, Reply, StopServing, Drained, ShutDown,
     calling, working
<1>6. CASE Read
  BY <1>6, ReadImplements
<1>7. CASE \E c \in Calls : Join(c)
  BY <1>7, JoinImplements
<1>8. CASE Abort
  BY <1>8, AbortImplements
<1>9. CASE UNCHANGED vars
  BY <1>1, <1>9 DEF vars, calling, working
<1> QED BY <1>2, <1>3, <1>4, <1>5, <1>6, <1>7, <1>8, <1>9 DEF Next, ClientStep, ServerStep

\* Whatever is torn down while requests, cancels and results cross: no call is
\* worked on twice, and no caller gets an answer that is not the verdict on its own
\* call (rpc.rs, `client_loop' and `serve_frontend').
THEOREM ImplementsRemoteCall == Spec => IsRemoteCall
<1>1. RpcInv /\ [Next]_vars => [Remote!Next]_(Remote!vars)
  BY StepImplements
<1> QED BY <1>1, InitImplements, SpecKeepsRpc, PTL DEF Spec, IsRemoteCall, Remote!Spec
=============================================================================
