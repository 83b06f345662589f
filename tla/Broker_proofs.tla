---------------------------- MODULE Broker_proofs ----------------------------
(***************************************************************************)
(* Broker is safe for any number of sockets, connections and calls, and    *)
(* for every limit.                                                        *)
(***************************************************************************)
EXTENDS Broker, SlotQueue_proofs

-----------------------------------------------------------------------------
(* The registry.                                                           *)

Stages == {"fresh", "leased", "registered", "serving", "leaving",
           "unregistered", "drained", "unlisted", "closed"}

RegistryTyped == /\ sessions \in [Conns -> Sockets \cup {None}]
                 /\ sockets \in [Sockets -> Conns \cup {None}]
                 /\ sock \in [Sockets -> Stages]
                 /\ ConnOf \in [Sockets -> Conns] /\ None \notin Sockets \cup Conns

RegistryInv == RegistryTyped /\ RegistryMirrors

\* What a step does to one socket: its task moves on, with its session as it is.
MovesOn(s, to) ==
    /\ UNCHANGED registry
    /\ sock' = [sock EXCEPT ![s] = to]
    /\ to \in Stages
    /\ Present(s) <=> to \in {"registered", "serving", "leaving"}

\* Steps of everybody but the socket tasks.
OthersStep ==
    \/ \E r \in Requests : Route(r) \/ InvokeStep(r) \/ AbandonWait(r)
                           \/ CancelRoute(r) \/ CancelStep(r) \/ PluginFinishes(r)
    \/ \E s \in Sockets : Promote(s) \/ SendOut(s) \/ (\E r \in Requests : Receive(s, r))
    \/ SettleNext \/ TakeExpired \/ ServeStep \/ AcceptFails \/ CancelToken \/ DrainPending

LEMMA OthersLeaveRegistry == OthersStep => UNCHANGED <<registry, sock>>
<1> SUFFICES ASSUME OthersStep PROVE UNCHANGED <<registry, sock>>
  OBVIOUS
<1> USE DEF registry, tasks
<1>1. ASSUME NEW r \in Requests, Route(r) \/ EnqueueCall(r) \/ Admit(r)
      PROVE  UNCHANGED <<registry, sock>>
  BY <1>1 DEF Route, EnqueueCall, Admit
<1>2. ASSUME NEW r \in Requests, Dispatch(r) PROVE UNCHANGED <<registry, sock>>
  BY <1>2 DEF Dispatch
<1>3. ASSUME NEW r \in Requests, AbandonTicket(r) \/ AbandonWait(r) \/ PluginFinishes(r)
      PROVE  UNCHANGED <<registry, sock>>
  BY <1>3 DEF AbandonTicket, AbandonWait, PluginFinishes
<1>4. ASSUME NEW r \in Requests, CancelRoute(r) \/ CancelRemove(r) \/ CancelTell(r)
      PROVE  UNCHANGED <<registry, sock>>
  BY <1>4 DEF CancelRoute, CancelRemove, CancelTell
<1>5. ASSUME NEW s \in Sockets, Promote(s) \/ SendOut(s) PROVE UNCHANGED <<registry, sock>>
  BY <1>5 DEF Promote, SendOut
<1>6. ASSUME NEW s \in Sockets, NEW r \in Requests, Receive(s, r)
      PROVE  UNCHANGED <<registry, sock>>
  BY <1>6 DEF Receive
<1>7. CASE SettleNext \/ TakeExpired \/ DrainPending
  BY <1>7 DEF SettleNext, TakeExpired, DrainPending
<1>8. CASE ServeStep
  BY <1>8 DEF ServeStep, TellExpired, DrainAndJoin, ServeEnds
<1>9. CASE AcceptFails \/ CancelToken
  BY <1>9 DEF AcceptFails, CancelToken
<1> QED BY <1>1, <1>2, <1>3, <1>4, <1>5, <1>6, <1>7, <1>8, <1>9
        DEF OthersStep, InvokeStep, CancelStep

LEMMA MovingOnKeepsRegistry ==
    ASSUME NEW s \in Sockets, NEW to, RegistryInv, MovesOn(s, to) PROVE RegistryInv'
<1>1. \A t \in Sockets : Present(t)' = Present(t)
  BY DEF RegistryInv, RegistryTyped, MovesOn, Present
<1>2. UNCHANGED <<sessions, sockets>> /\ sock' \in [Sockets -> Stages]
  BY DEF RegistryInv, RegistryTyped, MovesOn, registry
<1> QED BY <1>1, <1>2 DEF RegistryInv, RegistryTyped, RegistryMirrors

LEMMA SocketsKeepRegistry ==
    ASSUME NEW s \in Sockets, RegistryInv,
           Hello(s) \/ RejectHello(s) \/ SocketStep(s) \/ Stop(s)
    PROVE  RegistryInv'
<1> USE DEF RegistryInv, RegistryTyped
<1>1. CASE Register(s)
  <2>1. sock[s] = "leased" /\ sockets[s] = None /\ ConnOf[s] \in Conns
    BY <1>1 DEF Register, RegistryMirrors, Present
  <2>2. CASE IsLive(ConnOf[s])
    <3>1. MovesOn(s, "closed")
      BY <1>1, <2>2 DEF Register, Return, MovesOn, Present, Stages
    <3> QED BY <3>1, MovingOnKeepsRegistry
  <2>3. CASE ~IsLive(ConnOf[s])
    <3>1. /\ sock' = [sock EXCEPT ![s] = "registered"]
          /\ sessions' = [sessions EXCEPT ![ConnOf[s]] = s]
          /\ sockets' = [sockets EXCEPT ![s] = ConnOf[s]]
          /\ sessions[ConnOf[s]] = None
      BY <1>1, <2>3 DEF Register, IsLive, Goes
    <3>2. \A t \in Sockets : sockets[t] # ConnOf[s]
      BY <2>1, <3>1 DEF RegistryMirrors
    <3>3. RegistryTyped'
      BY <2>1, <3>1 DEF Stages
    <3>4. \A t \in Sockets : sockets'[t] = IF Present(t)' THEN ConnOf[t] ELSE None
      BY <2>1, <3>1 DEF RegistryMirrors, Present
    <3>5. \A c \in Conns, t \in Sockets : sessions'[c] = t <=> sockets'[t] = c
      BY <2>1, <3>1, <3>2 DEF RegistryMirrors
    <3> QED BY <3>3, <3>4, <3>5 DEF RegistryMirrors
  <2> QED BY <2>2, <2>3
<1>2. CASE Unregister(s)
  <2>1. sock[s] = "leaving" /\ sockets[s] = ConnOf[s] /\ ConnOf[s] \in Conns /\ ConnOf[s] # None
    BY <1>2 DEF Unregister, Goes, RegistryMirrors, Present
  <2>2. /\ sock' = [sock EXCEPT ![s] = "unregistered"]
        /\ sockets' = [sockets EXCEPT ![s] = None]
        /\ sessions' = [sessions EXCEPT ![ConnOf[s]] = None]
    BY <1>2, <2>1 DEF Unregister, Goes, WithoutSession
  <2>3. RegistryTyped'
    BY <2>1, <2>2 DEF Stages
  <2>4. \A t \in Sockets : sockets'[t] = IF Present(t)' THEN ConnOf[t] ELSE None
    BY <2>1, <2>2 DEF RegistryMirrors, Present
  <2>5. \A c \in Conns, t \in Sockets : sessions'[c] = t <=> sockets'[t] = c
    BY <2>1, <2>2 DEF RegistryMirrors
  <2> QED BY <2>3, <2>4, <2>5 DEF RegistryMirrors
<1>3. CASE Hello(s) \/ RejectHello(s) \/ ListQueue(s) \/ Stop(s)
  <2>1. \E to \in Stages : MovesOn(s, to)
    BY <1>3 DEF Hello, RejectHello, ListQueue, Stop, Goes, Return, MovesOn, Present, Stages,
                registry
  <2> QED BY <2>1, MovingOnKeepsRegistry
<1>4. CASE LosePending(s) \/ UnlistQueue(s) \/ LeaveSocket(s)
  <2>1. \E to \in Stages : MovesOn(s, to)
    BY <1>4 DEF LosePending, UnlistQueue, LeaveSocket, Goes, Return, MovesOn, Present, Stages,
                registry
  <2> QED BY <2>1, MovingOnKeepsRegistry
<1> QED BY <1>1, <1>2, <1>3, <1>4 DEF SocketStep

LEMMA InitRegistry == Init => RegistryInv
  BY InstanceAssumption DEF Init, RegistryInv, RegistryTyped, RegistryMirrors, Present, Stages

LEMMA NextSplits ==
    Next => OthersStep \/ \E s \in Sockets : Hello(s) \/ RejectHello(s) \/ SocketStep(s) \/ Stop(s)
  BY DEF Next, OthersStep

LEMMA StepKeepsRegistry == RegistryInv /\ [Next]_vars => RegistryInv'
<1> SUFFICES ASSUME RegistryInv, [Next]_vars PROVE RegistryInv'
  OBVIOUS
<1>1. CASE UNCHANGED <<registry, sock>>
  BY <1>1 DEF registry, RegistryInv, RegistryTyped, RegistryMirrors, Present
<1>2. CASE UNCHANGED vars
  BY <1>1, <1>2 DEF vars, registry
<1> QED BY <1>1, <1>2, OthersLeaveRegistry, SocketsKeepRegistry, NextSplits

\* The two maps of the registry always describe the same sessions, those of the
\* sockets that are there.
THEOREM RegistryStaysTrue == Spec => []RegistryMirrors
<1>1. RegistryInv => RegistryMirrors
  BY DEF RegistryInv
<1> QED BY <1>1, InitRegistry, StepKeepsRegistry, PTL DEF Spec

-----------------------------------------------------------------------------
(* The queues and the pending map.                                         *)

CallStages == {"idle", "refused", "routed", "ticketed", "unwinding", "abandoned", "open"}
WaitStages == {"none", "open", "sent", "lost", "granted", "dropped"}
Workers    == Sockets \cup {None, "serve", "shutdown"}

PlacesTyped ==
    /\ queue \in [Sockets -> QueueType(Requests)]
    /\ pending \subseteq Entry /\ asked \subseteq Requests
    /\ settling \in [todo : SUBSET Entry, kind : Answers, by : Workers]
    /\ call \in [Requests -> [at : CallStages, on : Sockets \cup {None}]]
    /\ wait \in [Requests -> WaitStages]

QueuesBalance == \A s \in Sockets : Balanced(queue[s])

\* A call that got past its route has a socket, and its entry is there.
Located == \A r \in Requests :
    call[r].at \in {"routed", "ticketed", "unwinding", "open"} => call[r].on \in Sockets
PendingIsOpen == \A s \in Sockets, r \in Requests :
    <<s, r>> \in pending => call[r].at = "open" /\ call[r].on = s

\* Whoever is in line listens, unless its future is being dropped; and a request
\* is sent only once its call has its permit.
LineListens == \A s \in Sockets, r \in Requests :
    r \in Line(queue[s]) /\ call[r].at \in {"ticketed", "open"} => wait[r] = "open"
AskedHadPermit == \A r \in asked : call[r].at = "open" /\ wait[r] = "granted"

\* A ticket that is held has its place, whoever else's future is dropped.
TicketsHavePlaces == \A r \in Requests :
    call[r].at = "ticketed" => r \in Places(queue[call[r].on])

PlacesInv == /\ PlacesTyped /\ QueuesBalance /\ Located /\ PendingIsOpen /\ LineListens
             /\ AskedHadPermit /\ TicketsHavePlaces /\ SlotsAreOwned
             /\ settling.todo \subseteq pending

\* A call has places in the queue of its own socket only.
LEMMA PlacesAtHome ==
    ASSUME PlacesInv, NEW s \in Sockets, NEW r \in Requests, r \in Places(queue[s])
    PROVE  call[r].on = s /\ call[r].at \in {"ticketed", "unwinding", "open"}
  BY DEF PlacesInv, SlotsAreOwned, PendingIsOpen, Ticketed

\* A call gives back its place, with its entry if it has one.
GivesBack(s, r) ==
    /\ ~queue[s].promoting
    /\ queue' = [queue EXCEPT ![s] = Release(@, r)]
    /\ pending' = pending \ {<<s, r>>}
    /\ call[r].on = s
    /\ \/ <<s, r>> \in pending /\ call' = call
       \/ call[r].at = "unwinding" /\ call' = [call EXCEPT ![r] = [at |-> "abandoned", on |-> s]]
    /\ \E w \in WaitStages : /\ wait' = [wait EXCEPT ![r] = w]
                             /\ wait[r] = "granted" => w = "granted"
    /\ asked' = asked
    /\ settling' \in [todo : SUBSET Entry, kind : Answers, by : Workers]
    /\ settling'.todo \subseteq settling.todo \ {<<s, r>>}

LEMMA GivingBackKeepsPlaces ==
    ASSUME NEW s \in Sockets, NEW r \in Requests, PlacesInv, GivesBack(s, r) PROVE PlacesInv'
<1>1. queue[s] \in QueueType(Requests) /\ Balanced(queue[s])
  BY DEF PlacesInv, PlacesTyped, QueuesBalance
<1>2. /\ queue'[s] \in QueueType(Requests) /\ Balanced(queue'[s])
      /\ Places(queue'[s]) = Places(queue[s]) \ {r}
      /\ queue'[s].active = queue[s].active \ {r}
  BY <1>1, ReleaseKeeps DEF GivesBack, PlacesInv, PlacesTyped
<1>3. Line(queue'[s]) = Line(queue[s]) \ {r}
  BY <1>1, <1>2, LineOfPlaces DEF Balanced
<1>4. \A t \in Sockets : t # s => queue'[t] = queue[t]
  BY DEF GivesBack, PlacesInv, PlacesTyped
<1>5. PlacesTyped' /\ QueuesBalance'
  BY <1>1, <1>2, <1>4 DEF GivesBack, PlacesInv, PlacesTyped, QueuesBalance, CallStages
<1>6. Located' /\ PendingIsOpen'
  <2>1. /\ \A x \in Requests : x # r => call'[x] = call[x]
        /\ call'[r] = call[r] \/ call'[r].at = "abandoned"
    BY DEF GivesBack, PlacesInv, PlacesTyped
  <2>2. \A t \in Sockets : <<t, r>> \notin pending'
    BY DEF GivesBack, PlacesInv, PendingIsOpen
  <2>3. pending' \subseteq pending
    BY DEF GivesBack
  <2>4. Located'
    BY <2>1 DEF PlacesInv, Located
  <2>5. PendingIsOpen'
    BY <2>1, <2>2, <2>3 DEF PlacesInv, PendingIsOpen
  <2> QED BY <2>4, <2>5
<1>7. LineListens'
  <2> SUFFICES ASSUME NEW t \in Sockets, NEW x \in Requests, x \in Line(queue'[t]),
                      call'[x].at \in {"ticketed", "open"}
               PROVE  wait'[x] = "open"
    BY DEF LineListens
  <2>1. x # r
    <3>1. CASE t = s
      BY <1>3, <3>1
    <3>2. CASE t # s
      BY <1>4, <3>2, PlacesAtHome DEF GivesBack, Places
    <3> QED BY <3>1, <3>2
  <2>2. x \in Line(queue[t])
    BY <1>3, <1>4
  <2>3. call'[x] = call[x] /\ wait'[x] = wait[x]
    BY <2>1 DEF GivesBack, PlacesInv, PlacesTyped
  <2> QED BY <2>2, <2>3 DEF PlacesInv, LineListens
<1>8. AskedHadPermit'
  BY DEF GivesBack, PlacesInv, PlacesTyped, AskedHadPermit
<1>9. SlotsAreOwned'
  <2> SUFFICES ASSUME NEW t \in Sockets, NEW x \in Requests
               PROVE  /\ x \in Places(queue'[t]) => <<t, x>> \in pending' \/ Ticketed(t, x)'
                      /\ <<t, x>> \in pending' => x \in Places(queue'[t])
                      /\ <<t, x>> \in pending' /\ x \in asked' => x \in queue'[t].active
    BY DEF SlotsAreOwned
  <2>1. CASE x = r
    <3>1. x \notin Places(queue'[t])
      BY <1>2, <1>4, <2>1, PlacesAtHome DEF GivesBack
    <3>2. <<t, x>> \notin pending'
      BY <2>1 DEF GivesBack, PlacesInv, PendingIsOpen
    <3> QED BY <3>1, <3>2
  <2>2. CASE x # r
    <3>1. /\ x \in Places(queue'[t]) <=> x \in Places(queue[t])
          /\ x \in queue'[t].active <=> x \in queue[t].active
      BY <1>2, <1>4, <2>2
    <3>2. /\ <<t, x>> \in pending' <=> <<t, x>> \in pending
          /\ Ticketed(t, x)' <=> Ticketed(t, x)
          /\ asked' = asked
      BY <2>2 DEF GivesBack, PlacesInv, PlacesTyped, Ticketed
    <3> QED BY <3>1, <3>2 DEF PlacesInv, SlotsAreOwned
  <2> QED BY <2>1, <2>2
<1>10. settling'.todo \subseteq pending'
  BY DEF GivesBack, PlacesInv
<1>11. TicketsHavePlaces'
  <2> SUFFICES ASSUME NEW x \in Requests, call'[x].at = "ticketed"
               PROVE  x \in Places(queue'[call'[x].on])
    BY DEF TicketsHavePlaces
  <2>1. x # r /\ call'[x] = call[x]
    BY DEF GivesBack, PlacesInv, PlacesTyped, PendingIsOpen
  <2>2. x \in Places(queue[call[x].on]) /\ call[x].on \in Sockets
    BY <2>1 DEF PlacesInv, TicketsHavePlaces, Located
  <2> QED BY <1>2, <1>4, <2>1, <2>2
<1> QED BY <1>5, <1>6, <1>7, <1>8, <1>9, <1>10, <1>11 DEF PlacesInv

\* `Route', which touches no queue.
LEMMA RouteKeepsPlaces ==
    ASSUME NEW r \in Requests, RegistryInv, PlacesInv, Route(r) PROVE PlacesInv'
<1>1. \E pc \in CallStages, s \in Sockets \cup {None} :
         /\ call' = [call EXCEPT ![r] = [at |-> pc, on |-> s]]
         /\ pc \in {"refused", "routed"} /\ (pc = "routed" => s \in Sockets)
  <2>1. TargetOf[r] \in Conns
    BY InstanceAssumption
  <2>2. sessions[TargetOf[r]] \in Sockets \cup {None} /\ call[r].on \in Sockets \cup {None}
    BY <2>1 DEF RegistryInv, RegistryTyped, PlacesInv, PlacesTyped
  <2>3. CASE sessions[TargetOf[r]] = None
    BY <2>2, <2>3 DEF Route, Refuse, At, CallStages
  <2>4. CASE sessions[TargetOf[r]] # None
    BY <2>2, <2>4 DEF Route, At, CallStages
  <2> QED BY <2>3, <2>4
<1>2. /\ call[r].at = "idle"
      /\ UNCHANGED <<queue, wait, pending, settling, asked>>
  BY DEF Route, Refuse
<1>3. \A s \in Sockets : <<s, r>> \notin pending
  BY <1>2 DEF PlacesInv, PendingIsOpen
<1>4. r \notin asked
  BY <1>2 DEF PlacesInv, AskedHadPermit
<1>5. PlacesTyped' /\ QueuesBalance' /\ Located'
  BY <1>1, <1>2 DEF PlacesInv, PlacesTyped, QueuesBalance, Located, CallStages
<1>6. PendingIsOpen' /\ AskedHadPermit' /\ LineListens'
  BY <1>1, <1>2, <1>3, <1>4 DEF PlacesInv, PlacesTyped, PendingIsOpen, AskedHadPermit, LineListens
<1>7. SlotsAreOwned'
  <2>1. \A s \in Sockets, x \in Requests : Ticketed(s, x) => Ticketed(s, x)'
    BY <1>1, <1>2 DEF Ticketed, PlacesInv, PlacesTyped
  <2> QED BY <1>2, <2>1 DEF PlacesInv, SlotsAreOwned
<1>8. TicketsHavePlaces'
  BY <1>1, <1>2 DEF PlacesInv, PlacesTyped, TicketsHavePlaces
<1> QED BY <1>2, <1>5, <1>6, <1>7, <1>8 DEF PlacesInv

LEMMA EnqueueKeepsPlaces ==
    ASSUME NEW r \in Requests, PlacesInv, EnqueueCall(r) PROVE PlacesInv'
<1> DEFINE s == call[r].on
<1>1. s \in Sockets /\ call[r].at = "routed"
  BY DEF EnqueueCall, PlacesInv, Located
<1>2. \A t \in Sockets : <<t, r>> \notin pending /\ r \notin Places(queue[t])
  <2>1. \A t \in Sockets : <<t, r>> \notin pending
    BY <1>1 DEF PlacesInv, PendingIsOpen
  <2> QED BY <1>1, <2>1 DEF PlacesInv, SlotsAreOwned, Ticketed
<1>3. r \notin asked
  BY <1>1 DEF PlacesInv, AskedHadPermit
<1>4. UNCHANGED <<pending, settling, asked>>
  BY DEF EnqueueCall
<1>5. CASE call' = [call EXCEPT ![r] = [at |-> "refused", on |-> s]] /\ UNCHANGED <<queue, wait>>
  <2>1. PlacesTyped' /\ QueuesBalance' /\ Located'
    BY <1>1, <1>4, <1>5 DEF PlacesInv, PlacesTyped, QueuesBalance, Located, CallStages
  <2>2. PendingIsOpen' /\ AskedHadPermit' /\ LineListens'
    BY <1>2, <1>3, <1>4, <1>5 DEF PlacesInv, PlacesTyped, PendingIsOpen, AskedHadPermit, LineListens
  <2>3. \A t \in Sockets, x \in Requests : Ticketed(t, x) => Ticketed(t, x)'
    BY <1>1, <1>5 DEF Ticketed, PlacesInv, PlacesTyped
  <2>4. SlotsAreOwned'
    BY <1>4, <1>5, <2>3 DEF PlacesInv, SlotsAreOwned
  <2>5. TicketsHavePlaces'
    BY <1>5 DEF PlacesInv, PlacesTyped, TicketsHavePlaces
  <2> QED BY <1>4, <2>1, <2>2, <2>4, <2>5 DEF PlacesInv
<1>6. CASE /\ ~queue[s].promoting /\ ~IsFull(queue[s])
           /\ call' = [call EXCEPT ![r] = [at |-> "ticketed", on |-> s]]
           /\ queue' = [queue EXCEPT ![s] = Enqueue(queue[s], r)]
           /\ wait' = [wait EXCEPT ![r] = IF HasSlot(queue[s]) THEN "sent" ELSE "open"]
  <2>1. queue[s] \in QueueType(Requests) /\ Balanced(queue[s])
    BY <1>1 DEF PlacesInv, PlacesTyped, QueuesBalance
  <2>2. /\ queue'[s] \in QueueType(Requests) /\ Balanced(queue'[s])
        /\ Places(queue'[s]) = Places(queue[s]) \cup {r}
        /\ HasSlot(queue[s]) => /\ queue'[s].active = queue[s].active \cup {r}
                                /\ queue'[s].waiting = queue[s].waiting
        /\ ~HasSlot(queue[s]) => queue'[s].active = queue[s].active
    <3>1. queue'[s] = Enqueue(queue[s], r) /\ r \notin Places(queue[s])
      BY <1>1, <1>2, <1>6 DEF PlacesInv, PlacesTyped
    <3> HIDE DEF s
    <3> QED BY <1>6, <2>1, <3>1, EnqueueKeeps
  <2>3. \A t \in Sockets : t # s => queue'[t] = queue[t]
    BY <1>6 DEF PlacesInv, PlacesTyped
  <2>4. PlacesTyped' /\ QueuesBalance' /\ Located'
    BY <1>1, <1>4, <1>6, <2>2, <2>3
       DEF PlacesInv, PlacesTyped, QueuesBalance, Located, CallStages, WaitStages
  <2>5. PendingIsOpen' /\ AskedHadPermit'
    BY <1>2, <1>3, <1>4, <1>6 DEF PlacesInv, PlacesTyped, PendingIsOpen, AskedHadPermit
  <2>6. \A t \in Sockets, x \in Requests :
           x # r => /\ x \in Line(queue'[t]) => x \in Line(queue[t])
                    /\ x \in Places(queue'[t]) <=> x \in Places(queue[t])
                    /\ x \in queue[t].active => x \in queue'[t].active
    <3>1. \A x \in Requests : x # r => (x \in Places(queue'[s]) <=> x \in Places(queue[s]))
      BY <2>2
    <3>2. \A x \in Requests : x # r => (x \in queue'[s].active <=> x \in queue[s].active)
      BY <2>2
    <3>3. Line(queue[s]) = Places(queue[s]) \ queue[s].active
      BY <2>1, LineOfPlaces DEF Balanced
    <3>4. Line(queue'[s]) = Places(queue'[s]) \ queue'[s].active
      BY <2>2, LineOfPlaces DEF Balanced
    <3> QED BY <2>3, <3>1, <3>2, <3>3, <3>4
  <2>7. LineListens'
    <3> SUFFICES ASSUME NEW t \in Sockets, NEW x \in Requests, x \in Line(queue'[t]),
                        call'[x].at \in {"ticketed", "open"}
                 PROVE  wait'[x] = "open"
      BY DEF LineListens
    <3>1. CASE x # r
      <4>1. call'[x] = call[x] /\ wait'[x] = wait[x]
        BY <1>6, <3>1 DEF PlacesInv, PlacesTyped
      <4> QED BY <2>6, <3>1, <4>1 DEF PlacesInv, LineListens
    <3>2. CASE x = r
      <4>1. t = s
        BY <1>2, <2>3, <3>2 DEF Places
      <4>2. ~HasSlot(queue[s])
        BY <1>2, <2>2, <3>2, <4>1 DEF Places, Line
      <4> QED BY <1>6, <3>2, <4>2 DEF PlacesInv, PlacesTyped
    <3> QED BY <3>1, <3>2
  <2>8. SlotsAreOwned'
    <3> SUFFICES ASSUME NEW t \in Sockets, NEW x \in Requests
                 PROVE  /\ x \in Places(queue'[t]) => <<t, x>> \in pending' \/ Ticketed(t, x)'
                        /\ <<t, x>> \in pending' => x \in Places(queue'[t])
                        /\ <<t, x>> \in pending' /\ x \in asked' => x \in queue'[t].active
      BY DEF SlotsAreOwned
    <3>1. CASE x # r
      <4>1. Ticketed(t, x)' <=> Ticketed(t, x)
        BY <1>6, <3>1 DEF Ticketed, PlacesInv, PlacesTyped
      <4> QED BY <1>4, <2>6, <3>1, <4>1 DEF PlacesInv, SlotsAreOwned
    <3>2. CASE x = r
      <4>1. t # s => r \notin Places(queue'[t])
        BY <1>2, <2>3
      <4>2. t = s => Ticketed(t, x)'
        BY <1>1, <1>6, <3>2 DEF Ticketed, PlacesInv, PlacesTyped
      <4> QED BY <1>2, <1>4, <3>2, <4>1, <4>2
    <3> QED BY <3>1, <3>2
  <2>9. TicketsHavePlaces'
    <3>1. call'[r].on = s /\ \A x \in Requests : x # r => call'[x] = call[x]
      BY <1>6 DEF PlacesInv, PlacesTyped
    <3> QED BY <1>1, <2>2, <2>6, <3>1 DEF PlacesInv, TicketsHavePlaces, Located
  <2> QED BY <1>4, <2>4, <2>5, <2>7, <2>8, <2>9 DEF PlacesInv
<1> QED BY <1>5, <1>6 DEF EnqueueCall, Refuse, At, PlacesInv, PlacesTyped

LEMMA AdmitKeepsPlaces ==
    ASSUME NEW r \in Requests, PlacesInv, Admit(r) PROVE PlacesInv'
<1> DEFINE s == call[r].on
<1>1. s \in Sockets /\ call[r].at = "ticketed" /\ settling.todo = {}
  BY DEF Admit, PlacesInv, Located, PendingFree
<1>2. /\ pending' = pending \cup {<<s, r>>}
      /\ call' = [call EXCEPT ![r] = [at |-> "open", on |-> s]]
      /\ UNCHANGED <<queue, wait, settling, asked>>
  BY DEF Admit, At, queues
<1>3. r \notin asked
  BY <1>1 DEF PlacesInv, AskedHadPermit
<1>4. PlacesTyped' /\ QueuesBalance' /\ Located'
  BY <1>1, <1>2 DEF PlacesInv, PlacesTyped, QueuesBalance, Located, CallStages, Entry
<1>5. PendingIsOpen'
  BY <1>1, <1>2 DEF PlacesInv, PlacesTyped, PendingIsOpen
<1>6. AskedHadPermit' /\ LineListens'
  BY <1>1, <1>2, <1>3 DEF PlacesInv, PlacesTyped, AskedHadPermit, LineListens
<1>7. SlotsAreOwned'
  <2>1. \A t \in Sockets, x \in Requests : x # r => (Ticketed(t, x)' <=> Ticketed(t, x))
    BY <1>2 DEF Ticketed, PlacesInv, PlacesTyped
  <2>2. \A t \in Sockets, x \in Requests :
           <<t, x>> \in pending' <=> <<t, x>> \in pending \/ (t = s /\ x = r)
    BY <1>2
  <2>3. \A t \in Sockets : t # s => ~Ticketed(t, r) /\ <<t, r>> \notin pending
    BY <1>1 DEF Ticketed, PlacesInv, PendingIsOpen
  <2>4. r \in Places(queue[s])
    BY <1>1 DEF PlacesInv, TicketsHavePlaces
  <2> QED BY <1>2, <1>3, <2>1, <2>2, <2>3, <2>4 DEF PlacesInv, SlotsAreOwned
<1>8. TicketsHavePlaces'
  BY <1>2 DEF PlacesInv, PlacesTyped, TicketsHavePlaces
<1> QED BY <1>1, <1>2, <1>4, <1>5, <1>6, <1>7, <1>8 DEF PlacesInv

\* A future that is dropped lets go of its channel, then of its ticket.
LEMMA AbandonKeepsPlaces ==
    ASSUME NEW r \in Requests, PlacesInv, AbandonWait(r) \/ AbandonTicket(r) PROVE PlacesInv'
<1> DEFINE s == call[r].on
<1>1. CASE AbandonWait(r)
  <2>1. /\ s \in Sockets /\ call[r].at = "ticketed"
        /\ call' = [call EXCEPT ![r] = [at |-> "unwinding", on |-> s]]
        /\ wait' = [wait EXCEPT ![r] = "dropped"]
        /\ UNCHANGED <<queue, pending, settling, asked>>
    BY <1>1 DEF AbandonWait, At, settled, PlacesInv, Located
  <2>2. r \notin asked /\ \A t \in Sockets : <<t, r>> \notin pending
    BY <2>1 DEF PlacesInv, AskedHadPermit, PendingIsOpen
  <2>3. PlacesTyped' /\ QueuesBalance' /\ Located'
    BY <2>1 DEF PlacesInv, PlacesTyped, QueuesBalance, Located, CallStages, WaitStages
  <2>4. PendingIsOpen' /\ AskedHadPermit' /\ LineListens' /\ TicketsHavePlaces'
    BY <2>1, <2>2 DEF PlacesInv, PlacesTyped, PendingIsOpen, AskedHadPermit, LineListens,
                      TicketsHavePlaces
  <2>5. \A t \in Sockets, x \in Requests : Ticketed(t, x) => Ticketed(t, x)'
    BY <2>1 DEF Ticketed, PlacesInv, PlacesTyped
  <2>6. SlotsAreOwned'
    BY <2>1, <2>5 DEF PlacesInv, SlotsAreOwned
  <2> QED BY <2>1, <2>3, <2>4, <2>6 DEF PlacesInv
<1>2. CASE AbandonTicket(r)
  <2>1. s \in Sockets /\ call[r].at = "unwinding" /\ wait[r] \in WaitStages
    BY <1>2 DEF AbandonTicket, PlacesInv, PlacesTyped, Located
  <2>2. <<s, r>> \notin pending
    BY <2>1 DEF PlacesInv, PendingIsOpen
  <2>3. \E w \in WaitStages : /\ wait' = [wait EXCEPT ![r] = w]
                              /\ wait[r] = "granted" => w = "granted"
    BY <1>2, <2>1 DEF AbandonTicket, DropTicket, WaitStages
  <2>4. ~queue[s].promoting /\ queue' = [queue EXCEPT ![s] = Release(@, r)]
    BY <1>2 DEF AbandonTicket, DropTicket
  <2>5. /\ call' = [call EXCEPT ![r] = [at |-> "abandoned", on |-> s]]
        /\ pending' = pending /\ settling' = settling /\ asked' = asked
    BY <1>2 DEF AbandonTicket, At, settled
  <2>6. pending' = pending \ {<<s, r>>}
    BY <2>2, <2>5
  <2>7. settling \in [todo : SUBSET Entry, kind : Answers, by : Workers]
    BY DEF PlacesInv, PlacesTyped
  <2>8. settling.todo \subseteq settling.todo \ {<<s, r>>}
    BY <2>2 DEF PlacesInv
  <2>9. GivesBack(s, r)
    BY <2>1, <2>3, <2>4, <2>5, <2>6, <2>7, <2>8 DEF GivesBack
  <2> QED BY <2>1, <2>9, GivingBackKeepsPlaces
<1> QED BY <1>1, <1>2

\* One settlement of a pending entry.
LEMMA SettlingKeepsPlaces ==
    ASSUME NEW s \in Sockets, NEW r \in Requests, NEW kind, PlacesInv,
           Settle(s, r, kind), <<s, r>> \in pending, UNCHANGED <<call, asked>>,
           settling' \in [todo : SUBSET Entry, kind : Answers, by : Workers],
           settling'.todo \subseteq settling.todo \ {<<s, r>>}
    PROVE  PlacesInv'
<1>1. call[r].on = s /\ wait[r] \in WaitStages
  BY DEF PlacesInv, PlacesTyped, PendingIsOpen
<1>2. \E w \in WaitStages : /\ wait' = [wait EXCEPT ![r] = w]
                            /\ wait[r] = "granted" => w = "granted"
  BY <1>1 DEF Settle, DropTicket, WaitStages
<1>3. /\ ~queue[s].promoting /\ queue' = [queue EXCEPT ![s] = Release(@, r)]
      /\ pending' = pending \ {<<s, r>>}
  BY DEF Settle, DropTicket
<1>4. GivesBack(s, r)
  BY <1>1, <1>2, <1>3 DEF GivesBack
<1> QED BY <1>4, GivingBackKeepsPlaces

LEMMA SettlersKeepPlaces ==
    ASSUME PlacesInv,
           \/ SettleNext
           \/ \E r \in Requests : CancelRemove(r)
           \/ \E s \in Sockets, r \in Requests : Receive(s, r)
    PROVE  PlacesInv' \/ UNCHANGED <<queue, pending, settling, call, wait, asked>>
<1>1. CASE SettleNext
  <2>1. PICK e \in settling.todo :
           /\ Settle(e[1], e[2], settling.kind)
           /\ settling' = IF settling.todo = {e} THEN Idle
                                                ELSE [settling EXCEPT !.todo = @ \ {e}]
    BY <1>1 DEF SettleNext
  <2>2. PICK s \in Sockets, r \in Requests : e = <<s, r>>
    BY DEF PlacesInv, PlacesTyped, Entry
  <2>3. /\ settling' \in [todo : SUBSET Entry, kind : Answers, by : Workers]
        /\ settling'.todo \subseteq settling.todo \ {<<s, r>>}
    BY <2>1, <2>2 DEF PlacesInv, PlacesTyped, Idle, Answers, Workers
  <2>4. UNCHANGED <<call, asked>> /\ <<s, r>> \in pending
    BY <1>1, <2>2 DEF SettleNext, tasks, PlacesInv
  <2> QED BY <2>1, <2>2, <2>3, <2>4, SettlingKeepsPlaces
<1>2. ASSUME NEW r \in Requests, CancelRemove(r)
      PROVE  PlacesInv' \/ UNCHANGED <<queue, pending, settling, call, wait, asked>>
  <2> DEFINE s == canceller[r].on
  <2>1. CASE <<s, r>> \in pending
    <3>1. s \in Sockets /\ Settle(s, r, "cancelled")
      BY <1>2, <2>1 DEF CancelRemove, PlacesInv, PlacesTyped, Entry
    <3>2. UNCHANGED <<call, asked, settling>> /\ settling.todo = {}
      BY <1>2 DEF CancelRemove, PendingFree
    <3> HIDE DEF s
    <3> QED BY <2>1, <3>1, <3>2, SettlingKeepsPlaces DEF PlacesInv, PlacesTyped
  <2>2. CASE <<s, r>> \notin pending
    BY <1>2, <2>2 DEF CancelRemove
  <2> QED BY <2>1, <2>2
<1>3. ASSUME NEW s \in Sockets, NEW r \in Requests, Receive(s, r) PROVE PlacesInv'
  <2>1. <<s, r>> \in pending /\ Settle(s, r, "answered")
    BY <1>3 DEF Receive, Matching
  <2>2. UNCHANGED <<call, asked, settling>> /\ settling.todo = {}
    BY <1>3 DEF Receive, PendingFree, tasks
  <2> QED BY <2>1, <2>2, SettlingKeepsPlaces DEF PlacesInv, PlacesTyped
<1> QED BY <1>1, <1>2, <1>3

\* A dispatch task has its slot, and sends once.
LEMMA DispatchKeepsPlaces ==
    ASSUME NEW r \in Requests, PlacesInv, Dispatch(r) PROVE PlacesInv'
<1> DEFINE s == call[r].on
<1>1. /\ s \in Sockets /\ call[r].at = "open" /\ wait[r] = "sent" /\ settling.todo = {}
      /\ UNCHANGED <<call, settling>>
  BY DEF Dispatch, HasPermit, PendingFree, tasks, PlacesInv, Located
<1>2. \A t \in Sockets : r \notin Line(queue[t])
  BY <1>1 DEF PlacesInv, LineListens
<1>3. CASE /\ wait' = [wait EXCEPT ![r] = "granted"] /\ UNCHANGED <<queue, pending>>
           /\ asked' = asked \/ (<<s, r>> \in pending /\ asked' = asked \cup {r})
  <2>1. PlacesTyped' /\ QueuesBalance' /\ Located' /\ PendingIsOpen' /\ TicketsHavePlaces'
    BY <1>1, <1>3 DEF PlacesInv, PlacesTyped, QueuesBalance, Located, PendingIsOpen,
                      TicketsHavePlaces, WaitStages
  <2>2. LineListens' /\ AskedHadPermit'
    BY <1>1, <1>2, <1>3 DEF PlacesInv, PlacesTyped, LineListens, AskedHadPermit
  <2>3. <<s, r>> \in pending => r \in queue[s].active
    BY <1>1, <1>2 DEF PlacesInv, SlotsAreOwned, Places
  <2>4. \A t \in Sockets : <<t, r>> \in pending => t = s
    BY DEF PlacesInv, PendingIsOpen
  <2>5. \A t \in Sockets, x \in Requests : Ticketed(t, x)' <=> Ticketed(t, x)
    BY <1>1 DEF Ticketed
  <2>6. SlotsAreOwned'
    BY <1>1, <1>3, <2>3, <2>4, <2>5 DEF PlacesInv, SlotsAreOwned
  <2> QED BY <1>1, <1>3, <2>1, <2>2, <2>6 DEF PlacesInv
<1>4. CASE /\ <<s, r>> \in pending /\ ~queue[s].promoting
           /\ pending' = pending \ {<<s, r>>}
           /\ queue' = [queue EXCEPT ![s] = Release(@, r)]
           /\ wait' = [wait EXCEPT ![r] = "granted"]
           /\ UNCHANGED asked
  <2>1. GivesBack(s, r)
    BY <1>1, <1>4 DEF GivesBack, PlacesInv, PlacesTyped, WaitStages
  <2> QED BY <1>1, <2>1, GivingBackKeepsPlaces
<1> QED BY <1>3, <1>4 DEF Dispatch, StillPending

\* A turn of `promote' takes from the line only who has gone.
LEMMA PromoteKeepsPlaces ==
    ASSUME NEW s \in Sockets, PlacesInv, Promote(s) PROVE PlacesInv'
<1> DEFINE q == queue[s]
           h == Head(q.waiting)
<1>1. q \in QueueType(Requests) /\ Balanced(q) /\ q.promoting
  BY DEF Promote, PlacesInv, PlacesTyped, QueuesBalance
<1>2. /\ queue' = [queue EXCEPT ![s] = PromoteOnce(q, Listening)]
      /\ wait' = IF Granted(q, Listening) THEN [wait EXCEPT ![h] = "sent"] ELSE wait
      /\ UNCHANGED <<pending, settling, call, asked>>
  BY DEF Promote, settled, tasks
<1>3. /\ queue'[s] \in QueueType(Requests) /\ Balanced(queue'[s])
      /\ Places(queue'[s]) = IF CanPromote(q) /\ ~Granted(q, Listening)
                               THEN Places(q) \ {h} ELSE Places(q)
      /\ queue'[s].active = IF Granted(q, Listening) THEN q.active \cup {h} ELSE q.active
  BY <1>1, <1>2, PromoteKeeps DEF PlacesInv, PlacesTyped
<1>4. \A t \in Sockets : t # s => queue'[t] = queue[t]
  BY <1>2 DEF PlacesInv, PlacesTyped
<1>5. CanPromote(q) => h \in Requests /\ h \in Line(q)
  BY <1>1, LineFacts DEF CanPromote, QueueType, Line
<1>6. CanPromote(q) /\ ~Granted(q, Listening) => call[h].at = "unwinding"
  BY <1>5, PlacesAtHome DEF PlacesInv, LineListens, Granted, Listening, Places
<1>7. Granted(q, Listening) => CanPromote(q)
  BY DEF Granted
<1> HIDE DEF q, h
<1>8. PlacesTyped' /\ QueuesBalance'
  BY <1>2, <1>3, <1>4, <1>5, <1>7 DEF PlacesInv, PlacesTyped, QueuesBalance, WaitStages
<1>9. Located' /\ PendingIsOpen'
  BY <1>2 DEF PlacesInv, Located, PendingIsOpen
<1>10. LineListens'
  <2> SUFFICES ASSUME NEW t \in Sockets, NEW x \in Requests, x \in Line(queue'[t]),
                      call'[x].at \in {"ticketed", "open"}
               PROVE  wait'[x] = "open"
    BY DEF LineListens
  <2>1. CASE t = s
    <3>1. x \in Line(q) /\ ~(Granted(q, Listening) /\ x = h)
      <4>1. Line(q) = Places(q) \ q.active /\ Line(queue'[s]) = Places(queue'[s]) \ queue'[s].active
        BY <1>1, <1>3, LineOfPlaces DEF Balanced
      <4> QED BY <1>3, <2>1, <4>1
    <3>2. wait'[x] = wait[x]
      BY <1>2, <3>1
    <3> QED BY <1>2, <2>1, <3>1, <3>2 DEF PlacesInv, LineListens, q
  <2>2. CASE t # s
    <3>1. x \in Line(queue[t]) /\ x \in Places(queue[t])
      BY <1>4, <2>2 DEF Places
    <3>2. Granted(q, Listening) => x # h
      BY <1>5, <1>7, <2>2, <3>1, PlacesAtHome DEF Places, q
    <3> QED BY <1>2, <3>1, <3>2 DEF PlacesInv, LineListens
  <2> QED BY <2>1, <2>2
<1>11. AskedHadPermit'
  <2>1. Granted(q, Listening) => h \notin asked
    BY DEF Granted, Listening, h, PlacesInv, AskedHadPermit
  <2> QED BY <1>2, <2>1 DEF PlacesInv, AskedHadPermit
<1>12. TicketsHavePlaces' /\ SlotsAreOwned'
  <2>1. \A t \in Sockets, x \in Requests :
           /\ x \in Places(queue'[t]) => x \in Places(queue[t])
           /\ x \in Places(queue[t]) /\ call[x].at # "unwinding" => x \in Places(queue'[t])
           /\ x \in queue[t].active => x \in queue'[t].active
    BY <1>3, <1>4, <1>6 DEF q
  <2>2. TicketsHavePlaces'
    BY <1>2, <2>1 DEF PlacesInv, TicketsHavePlaces, Located
  <2>3. \A t \in Sockets, x \in Requests : Ticketed(t, x)' <=> Ticketed(t, x)
    BY <1>2 DEF Ticketed
  <2>4. SlotsAreOwned'
    BY <1>2, <2>1, <2>3 DEF PlacesInv, SlotsAreOwned, PendingIsOpen
  <2> QED BY <2>2, <2>4
<1> QED BY <1>2, <1>8, <1>9, <1>10, <1>11, <1>12 DEF PlacesInv

\* The start of a batch changes only what is to be settled.
LEMMA BatchKeepsPlaces ==
    ASSUME PlacesInv,
           \/ TakeExpired \/ DrainAndJoin \/ DrainPending
           \/ \E s \in Sockets : LosePending(s)
    PROVE  PlacesInv'
<1>1. ASSUME NEW entries \in SUBSET pending, NEW kind \in Answers, NEW task \in Workers,
             BeginBatch(entries, kind, task)
      PROVE  /\ settling' \in [todo : SUBSET Entry, kind : Answers, by : Workers]
             /\ settling'.todo \subseteq pending
  BY <1>1 DEF BeginBatch, Idle, PlacesInv, PlacesTyped, Answers, Workers
<1>2. /\ settling' \in [todo : SUBSET Entry, kind : Answers, by : Workers]
      /\ settling'.todo \subseteq pending
      /\ UNCHANGED <<queue, pending, call, wait, asked>>
  <2>1. CASE TakeExpired
    BY <1>1, <2>1 DEF TakeExpired, Expirable, queues, Answers, Workers
  <2>2. CASE DrainAndJoin
    BY <1>1, <2>2 DEF DrainAndJoin, queues, Answers, Workers
  <2>3. CASE DrainPending
    BY <1>1, <2>3 DEF DrainPending, queues, Answers, Workers
  <2>4. ASSUME NEW s \in Sockets, LosePending(s)
        PROVE  /\ settling' \in [todo : SUBSET Entry, kind : Answers, by : Workers]
               /\ settling'.todo \subseteq pending
               /\ UNCHANGED <<queue, pending, call, wait, asked>>
    BY <1>1, <2>4 DEF LosePending, queues, Answers, Workers
  <2> QED BY <2>1, <2>2, <2>3, <2>4
<1> QED BY <1>2 DEF PlacesInv, PlacesTyped, QueuesBalance, Located, PendingIsOpen, LineListens,
                    AskedHadPermit, TicketsHavePlaces, SlotsAreOwned, Ticketed

\* Everything else leaves the queues and the map alone.
ElsewhereStep ==
    \/ \E r \in Requests : CancelRoute(r) \/ CancelTell(r) \/ PluginFinishes(r)
    \/ \E s \in Sockets : \/ Hello(s) \/ RejectHello(s) \/ Register(s) \/ ListQueue(s)
                          \/ SendOut(s) \/ Stop(s) \/ Unregister(s) \/ UnlistQueue(s)
                          \/ LeaveSocket(s)
    \/ TellExpired \/ ServeEnds \/ AcceptFails \/ CancelToken

LEMMA ElsewhereLeavesPlaces ==
    ElsewhereStep => UNCHANGED <<queue, pending, settling, call, wait, asked>>
<1> SUFFICES ASSUME ElsewhereStep PROVE UNCHANGED <<queue, pending, settling, call, wait, asked>>
  OBVIOUS
<1> USE DEF queues, settled, tasks
<1>1. ASSUME NEW r \in Requests, CancelRoute(r) \/ CancelTell(r) \/ PluginFinishes(r)
      PROVE  UNCHANGED <<queue, pending, settling, call, wait, asked>>
  BY <1>1 DEF CancelRoute, CancelTell, PluginFinishes
<1>2. ASSUME NEW s \in Sockets, Hello(s) \/ RejectHello(s) \/ Register(s) \/ ListQueue(s) \/ Stop(s)
      PROVE  UNCHANGED <<queue, pending, settling, call, wait, asked>>
  BY <1>2 DEF Hello, RejectHello, Register, ListQueue, Stop
<1>3. ASSUME NEW s \in Sockets, Unregister(s) \/ UnlistQueue(s) \/ LeaveSocket(s)
      PROVE  UNCHANGED <<queue, pending, settling, call, wait, asked>>
  BY <1>3 DEF Unregister, UnlistQueue, LeaveSocket
<1>4. ASSUME NEW s \in Sockets, SendOut(s)
      PROVE  UNCHANGED <<queue, pending, settling, call, wait, asked>>
  BY <1>4 DEF SendOut
<1>5. CASE TellExpired \/ ServeEnds \/ AcceptFails \/ CancelToken
  BY <1>5 DEF TellExpired, ServeEnds, AcceptFails, CancelToken
<1> QED BY <1>1, <1>2, <1>3, <1>4, <1>5 DEF ElsewhereStep

LEMMA NextByPlaces ==
    Next => \/ \E r \in Requests : \/ Route(r) \/ EnqueueCall(r) \/ Admit(r) \/ Dispatch(r)
                                   \/ AbandonWait(r) \/ AbandonTicket(r) \/ CancelRemove(r)
            \/ \E s \in Sockets : \/ Promote(s) \/ LosePending(s)
                                  \/ \E r \in Requests : Receive(s, r)
            \/ SettleNext \/ TakeExpired \/ DrainAndJoin \/ DrainPending
            \/ ElsewhereStep
  BY DEF Next, InvokeStep, CancelStep, SocketStep, ServeStep, ElsewhereStep

LEMMA InitPlaces == Init => PlacesInv
<1> SUFFICES ASSUME Init PROVE PlacesInv
  OBVIOUS
<1>1. \A s \in Sockets : /\ queue[s] \in QueueType(Requests) /\ Balanced(queue[s])
                         /\ Places(queue[s]) = {} /\ Line(queue[s]) = {}
  BY EmptyKeeps DEF Init, Places
<1>2. PlacesTyped /\ QueuesBalance
  BY <1>1 DEF Init, PlacesTyped, QueuesBalance, Idle, Answers, Workers, CallStages, WaitStages
<1>3. Located /\ PendingIsOpen /\ AskedHadPermit /\ TicketsHavePlaces /\ settling.todo \subseteq pending
  BY DEF Init, Located, PendingIsOpen, AskedHadPermit, TicketsHavePlaces, Idle
<1>4. LineListens /\ SlotsAreOwned
  BY <1>1 DEF Init, LineListens, SlotsAreOwned
<1> QED BY <1>2, <1>3, <1>4 DEF PlacesInv

LEMMA StepKeepsPlaces == RegistryInv /\ PlacesInv /\ [Next]_vars => PlacesInv'
<1> SUFFICES ASSUME RegistryInv, PlacesInv, [Next]_vars PROVE PlacesInv'
  OBVIOUS
<1>1. CASE UNCHANGED <<queue, pending, settling, call, wait, asked>>
  BY <1>1 DEF PlacesInv, PlacesTyped, QueuesBalance, Located, PendingIsOpen, LineListens,
              AskedHadPermit, TicketsHavePlaces, SlotsAreOwned, Ticketed
<1>2. CASE UNCHANGED vars
  BY <1>1, <1>2 DEF vars
<1> QED BY <1>1, <1>2, NextByPlaces, RouteKeepsPlaces, EnqueueKeepsPlaces, AdmitKeepsPlaces,
           DispatchKeepsPlaces, AbandonKeepsPlaces, SettlersKeepPlaces, PromoteKeepsPlaces,
           BatchKeepsPlaces, ElsewhereLeavesPlaces

\* The calls a plugin was sent and that are still to be answered.
Owed(s) == {r \in asked : <<s, r>> \in pending}

\* No slot is leaked, shared or gone without, whatever is dropped, settled or
\* promoted in between.
THEOREM SlotsAlwaysOwned == Spec => []SlotsAreOwned
<1>1. PlacesInv => SlotsAreOwned
  BY DEF PlacesInv
<1> QED BY <1>1, InitRegistry, StepKeepsRegistry, InitPlaces, StepKeepsPlaces, PTL DEF Spec

\* A plugin is never busy with more calls that are still pending than there are slots:
\* each of them holds a slot of its own (`QueueTicket`, queue.rs).
THEOREM PluginsAreSpared == Spec => [](\A s \in Sockets : Cardinality(Owed(s)) <= MAX_IN_FLIGHT)
<1>1. PlacesInv => \A s \in Sockets : Cardinality(Owed(s)) <= MAX_IN_FLIGHT
  <2> SUFFICES ASSUME PlacesInv, NEW s \in Sockets PROVE Cardinality(Owed(s)) <= MAX_IN_FLIGHT
    OBVIOUS
  <2>1. Owed(s) \subseteq queue[s].active
    BY DEF PlacesInv, PlacesTyped, SlotsAreOwned, Owed
  <2>2. /\ IsFiniteSet(queue[s].active) /\ queue[s].in_flight = Cardinality(queue[s].active)
        /\ queue[s].in_flight <= MAX_IN_FLIGHT /\ queue[s].in_flight \in Nat
    BY DEF PlacesInv, PlacesTyped, QueuesBalance, Balanced, SlotsCounted, QueueType
  <2>3. Cardinality(Owed(s)) \in Nat /\ Cardinality(Owed(s)) <= Cardinality(queue[s].active)
    BY <2>1, <2>2, FS_Subset, FS_CardinalityType
  <2> QED BY <2>2, <2>3, SlotsAssumption
<1> QED BY <1>1, InitRegistry, StepKeepsRegistry, InitPlaces, StepKeepsPlaces, PTL DEF Spec

-----------------------------------------------------------------------------
(* The contract.                                                           *)

PluginStages == {"unseen", "running", "done", "stopped", "warned"}

AnswersTyped == /\ answer \in [Requests -> Answers]
                /\ plugin \in [Requests -> PluginStages]
                /\ outbound \in [Sockets -> Seq(Messages)]

\* A call that is pending, or on its way there, has no answer yet.
Unanswered == \A r \in Requests :
    \/ \E s \in Sockets : <<s, r>> \in pending
    \/ call[r].at \in {"idle", "routed", "ticketed", "unwinding"}
    => answer[r] = "none"

\* A plugin knows, and a channel holds, only requests that were sent.
PluginsWereAsked == \A r \in Requests : plugin[r] \in {"running", "done"} => r \in asked
FramesWereAsked  == \A s \in Sockets, r \in Requests :
    <<"request", r>> \in Range(outbound[s]) => r \in asked

AnswersInv == /\ AnswersTyped /\ Unanswered /\ PluginsWereAsked /\ FramesWereAsked
              /\ settling.todo # {} => settling.kind \in Failure

\* How the answers look to the contract.
Seen(a) == CASE a \in Refusal -> "refused" [] a \in Failure -> "failed" [] OTHER -> a

\* A step that answers one call that has no answer.
Answering(r, kind) ==
    /\ answer \in [Requests -> Answers] /\ answer[r] = "none"
    /\ answer' = [answer EXCEPT ![r] = kind]
    /\ UNCHANGED asked

LEMMA AnsweringSimulates ==
    ASSUME NEW r \in Requests, NEW kind, Answering(r, kind),
           \/ kind \in Failure
           \/ kind = "not_found" /\ r \notin asked
           \/ kind = "answered" /\ r \in asked
    PROVE  Contract!Next
<1> DEFINE before == [x \in Requests |-> Seen(answer[x])]
           after  == [x \in Requests |-> Seen(answer'[x])]
<1>1. before[r] = "none" /\ after = [before EXCEPT ![r] = Seen(kind)]
  BY DEF Answering, Seen, Refusal, Failure
<1>2. CASE kind \in Failure
  <2>1. Seen(kind) = "failed"
    BY <1>2 DEF Seen, Failure, Refusal
  <2>2. Contract!Fail(r)
    BY <1>1, <2>1 DEF Contract!Fail, Contract!Open, Contract!Give, Seen, Answering
  <2> QED BY <2>2 DEF Contract!Next
<1>3. CASE kind = "not_found" /\ r \notin asked
  <2>1. Seen(kind) = "refused"
    BY <1>3 DEF Seen, Failure, Refusal
  <2>2. Contract!Refuse(r)
    BY <1>1, <1>3, <2>1 DEF Contract!Refuse, Contract!Open, Contract!Give, Seen, Answering
  <2> QED BY <2>2 DEF Contract!Next
<1>4. CASE kind = "answered" /\ r \in asked
  <2>1. Seen(kind) = "answered"
    BY <1>4 DEF Seen, Failure, Refusal
  <2>2. Contract!Reply(r)
    BY <1>1, <1>4, <2>1 DEF Contract!Reply, Contract!Open, Contract!Give, Seen, Answering
  <2> QED BY <2>2 DEF Contract!Next
<1> QED BY <1>2, <1>3, <1>4

LEMMA AskingSimulates ==
    ASSUME NEW r \in Requests, answer[r] = "none", r \notin asked, asked' = asked \cup {r},
           UNCHANGED answer
    PROVE  Contract!Next
<1>1. Contract!Ask(r)
  BY DEF Contract!Ask, Contract!Open, Refusal, Failure
<1> QED BY <1>1 DEF Contract!Next

\* Frames that are queued, sent and dropped with their channel.
LEMMA PushFacts ==
    ASSUME NEW s \in Sockets, NEW type \in {"request", "cancel"}, NEW r \in Requests,
           outbound \in [Sockets -> Seq(Messages)], Push(s, type, r)
    PROVE  /\ outbound' \in [Sockets -> Seq(Messages)]
           /\ Range(outbound'[s]) = Range(outbound[s]) \cup {<<type, r>>}
           /\ \A t \in Sockets : t # s => outbound'[t] = outbound[t]
<1>1. <<type, r>> \in Messages /\ outbound[s] \in Seq(Messages)
  BY DEF Messages
<1>2. outbound'[s] = Append(outbound[s], <<type, r>>)
  BY DEF Push
<1>3. Append(outbound[s], <<type, r>>) \in Seq(Messages)
  BY <1>1
<1>4. outbound' \in [Sockets -> Seq(Messages)]
  BY <1>3 DEF Push
<1>5. Range(Append(outbound[s], <<type, r>>)) = Range(outbound[s]) \cup {<<type, r>>}
  BY <1>1, LineFacts
<1>6. \A t \in Sockets : t # s => outbound'[t] = outbound[t]
  BY DEF Push
<1> QED BY <1>2, <1>4, <1>5, <1>6

LEMMA TailFacts ==
    ASSUME NEW s \in Sockets, outbound \in [Sockets -> Seq(Messages)], outbound[s] # <<>>,
           outbound' = [outbound EXCEPT ![s] = Tail(@)]
    PROVE  /\ outbound' \in [Sockets -> Seq(Messages)]
           /\ Head(outbound[s]) \in Messages /\ Head(outbound[s]) \in Range(outbound[s])
           /\ Range(outbound'[s]) \subseteq Range(outbound[s])
           /\ \A t \in Sockets : t # s => outbound'[t] = outbound[t]
<1>1. outbound[s] \in Seq(Messages) /\ Tail(outbound[s]) \in Seq(Messages)
  OBVIOUS
<1>2. outbound'[s] = Tail(outbound[s])
  OBVIOUS
<1>3. outbound' \in [Sockets -> Seq(Messages)]
  BY <1>1
<1>4. Head(outbound[s]) \in Messages
  BY <1>1
<1> QED BY <1>1, <1>2, <1>3, <1>4, LineFacts

LEMMA CloseFacts ==
    ASSUME NEW s \in Sockets, outbound \in [Sockets -> Seq(Messages)], Return(s)
    PROVE  /\ outbound' \in [Sockets -> Seq(Messages)]
           /\ \A t \in Sockets : Range(outbound'[t]) \subseteq Range(outbound[t])
<1>1. <<>> \in Seq(Messages) /\ Range(<<>>) = {}
  BY DEF Range
<1> QED BY <1>1 DEF Return

\* A step that answers nobody, after which fewer frames and calls are to be
\* answered for.
LEMMA NoAnswerKeepsAnswers ==
    ASSUME AnswersInv, UNCHANGED <<answer, plugin>>, asked \subseteq asked',
           outbound' \in [Sockets -> Seq(Messages)],
           \A s \in Sockets, r \in Requests :
              <<"request", r>> \in Range(outbound'[s]) =>
                 <<"request", r>> \in Range(outbound[s]) \/ r \in asked',
           \A r \in Requests :
              \/ \E s \in Sockets : <<s, r>> \in pending'
              \/ call'[r].at \in {"idle", "routed", "ticketed", "unwinding"}
              => answer[r] = "none",
           settling'.todo # {} => settling'.kind \in Failure
    PROVE  AnswersInv'
<1>1. AnswersTyped' /\ PluginsWereAsked' /\ FramesWereAsked'
  BY DEF AnswersInv, AnswersTyped, PluginsWereAsked, FramesWereAsked
<1>2. Unanswered'
  BY DEF Unanswered
<1> QED BY <1>1, <1>2 DEF AnswersInv

\* A settlement answers a call that is owed an answer.
LEMMA SettlingAnswers ==
    ASSUME NEW s \in Sockets, NEW r \in Requests, NEW kind \in Failure \cup {"answered"},
           PlacesInv, AnswersInv, <<s, r>> \in pending, pending' = pending \ {<<s, r>>},
           answer' = [answer EXCEPT ![r] = kind], UNCHANGED <<asked, call, plugin, outbound>>,
           settling'.todo # {} => settling'.kind \in Failure
    PROVE  AnswersInv' /\ Answering(r, kind)
<1>1. answer[r] = "none" /\ kind \in Answers
  BY DEF AnswersInv, Unanswered, Failure, Answers
<1>2. Answering(r, kind)
  BY <1>1 DEF Answering, AnswersInv, AnswersTyped
<1>3. \A t \in Sockets : <<t, r>> \notin pending'
  BY DEF PlacesInv, PendingIsOpen
<1>4. call[r].at = "open"
  BY DEF PlacesInv, PendingIsOpen
<1>5. Unanswered'
  BY <1>3, <1>4 DEF AnswersInv, AnswersTyped, Unanswered
<1>6. AnswersTyped' /\ PluginsWereAsked' /\ FramesWereAsked'
  BY <1>1 DEF AnswersInv, AnswersTyped, PluginsWereAsked, FramesWereAsked
<1> QED BY <1>2, <1>5, <1>6 DEF AnswersInv

Promise == [Contract!Next]_(Contract!vars)

LEMMA SettlersPromise ==
    ASSUME PlacesInv, AnswersInv,
           \/ SettleNext
           \/ \E r \in Requests : CancelRemove(r)
           \/ \E s \in Sockets, r \in Requests : Receive(s, r)
    PROVE  AnswersInv' /\ Promise
<1>1. CASE SettleNext
  <2>1. PICK e \in settling.todo :
           /\ Settle(e[1], e[2], settling.kind)
           /\ settling' = IF settling.todo = {e} THEN Idle
                                                ELSE [settling EXCEPT !.todo = @ \ {e}]
    BY <1>1 DEF SettleNext
  <2>2. PICK s \in Sockets, r \in Requests : e = <<s, r>>
    BY DEF PlacesInv, PlacesTyped, Entry
  <2>3. settling.kind \in Failure /\ (settling'.todo # {} => settling'.kind \in Failure)
    BY <2>1, <2>2 DEF AnswersInv, PlacesInv, PlacesTyped, Idle
  <2>4. UNCHANGED <<call, asked, plugin, outbound>> /\ <<s, r>> \in pending
    BY <1>1, <2>2 DEF SettleNext, tasks, PlacesInv
  <2>5. AnswersInv' /\ Answering(r, settling.kind)
    BY <2>1, <2>2, <2>3, <2>4, SettlingAnswers DEF Settle
  <2> QED BY <2>3, <2>5, AnsweringSimulates DEF Promise
<1>2. ASSUME NEW r \in Requests, CancelRemove(r) PROVE AnswersInv' /\ Promise
  <2> DEFINE s == canceller[r].on
  <2>1. /\ UNCHANGED <<call, asked, settling, plugin, outbound>> /\ settling.todo = {}
    BY <1>2 DEF CancelRemove, PendingFree
  <2>2. CASE <<s, r>> \in pending
    <3>1. s \in Sockets /\ Settle(s, r, "cancelled")
      BY <1>2, <2>2 DEF CancelRemove, PlacesInv, PlacesTyped, Entry
    <3> HIDE DEF s
    <3>2. AnswersInv' /\ Answering(r, "cancelled")
      BY <2>1, <2>2, <3>1, SettlingAnswers DEF Settle, Failure
    <3> QED BY <3>2, AnsweringSimulates DEF Promise, Failure
  <2>3. CASE <<s, r>> \notin pending
    <3>1. UNCHANGED <<pending, answer>>
      BY <1>2, <2>3 DEF CancelRemove
    <3>2. AnswersInv'
      BY <2>1, <3>1 DEF AnswersInv, AnswersTyped, Unanswered, PluginsWereAsked, FramesWereAsked
    <3> QED BY <2>1, <3>1, <3>2 DEF Promise, Contract!vars
  <2> QED BY <2>2, <2>3
<1>3. ASSUME NEW s \in Sockets, NEW r \in Requests, Receive(s, r) PROVE AnswersInv' /\ Promise
  <2>1. <<s, r>> \in pending /\ Settle(s, r, "answered")
    BY <1>3 DEF Receive, Matching
  <2>2. UNCHANGED <<call, asked, settling, plugin, outbound>> /\ settling.todo = {}
    BY <1>3 DEF Receive, PendingFree, tasks
  <2>3. r \in asked
    BY <1>3, <2>1 DEF Receive, MaySend, PlacesInv, PendingIsOpen, AnswersInv, PluginsWereAsked
  <2>4. AnswersInv' /\ Answering(r, "answered")
    BY <2>1, <2>2, SettlingAnswers DEF Settle
  <2> QED BY <2>3, <2>4, AnsweringSimulates DEF Promise
<1> QED BY <1>1, <1>2, <1>3

\* `Route', `EnqueueCall' and `Dispatch' answer their own call, or nobody.
LEMMA RefusingAnswers ==
    ASSUME NEW r \in Requests, NEW kind \in Failure \cup {"not_found"}, PlacesInv, AnswersInv,
           call[r].at \in {"idle", "routed"}, Refuse(r, kind),
           UNCHANGED <<pending, settling, asked, plugin, outbound>>
    PROVE  AnswersInv' /\ Promise
<1>1. r \notin asked /\ answer[r] = "none" /\ kind \in Answers /\ \A s \in Sockets : <<s, r>> \notin pending
  BY DEF PlacesInv, AskedHadPermit, PendingIsOpen, AnswersInv, Unanswered, Failure, Answers
<1>2. answer' = [answer EXCEPT ![r] = kind] /\ call'[r].at = "refused"
  BY DEF Refuse, At, PlacesInv, PlacesTyped
<1>3. \A x \in Requests : x # r => call'[x] = call[x]
  BY DEF Refuse, At, PlacesInv, PlacesTyped
<1>4. Unanswered'
  BY <1>1, <1>2, <1>3 DEF AnswersInv, AnswersTyped, Unanswered
<1>5. AnswersTyped' /\ PluginsWereAsked' /\ FramesWereAsked'
  BY <1>1, <1>2 DEF AnswersInv, AnswersTyped, PluginsWereAsked, FramesWereAsked
<1>6. Answering(r, kind)
  BY <1>1, <1>2 DEF Answering, AnswersInv, AnswersTyped
<1> QED BY <1>1, <1>4, <1>5, <1>6, AnsweringSimulates DEF AnswersInv, Promise

LEMMA InvokePromises ==
    ASSUME NEW r \in Requests, PlacesInv, AnswersInv,
           \/ Route(r) \/ EnqueueCall(r) \/ Admit(r) \/ AbandonWait(r) \/ AbandonTicket(r)
    PROVE  AnswersInv' /\ Promise
<1>1. UNCHANGED <<settling, asked, plugin, outbound>>
  BY DEF Route, EnqueueCall, Admit, AbandonWait, AbandonTicket, settled
<1>2. CASE \E kind \in Failure \cup {"not_found"} :
              /\ call[r].at \in {"idle", "routed"} /\ Refuse(r, kind) /\ UNCHANGED pending
  BY <1>1, <1>2, RefusingAnswers
<1>3. CASE /\ UNCHANGED <<pending, answer>>
           /\ call[r].at \in {"idle", "routed", "ticketed", "unwinding"}
           /\ \E pc \in CallStages : \E s : call' = [call EXCEPT ![r] = [at |-> pc, on |-> s]]
  <2>1. \A x \in Requests : x # r => call'[x] = call[x]
    BY <1>3 DEF PlacesInv, PlacesTyped
  <2>2. Unanswered'
    BY <1>3, <2>1 DEF AnswersInv, Unanswered
  <2>3. AnswersInv'
    BY <1>1, <1>3, <2>2 DEF AnswersInv, AnswersTyped, PluginsWereAsked, FramesWereAsked
  <2> QED BY <1>1, <1>3, <2>3 DEF Promise, Contract!vars
<1>4. CASE Admit(r)
  <2>1. /\ UNCHANGED answer /\ call[r].at = "ticketed"
        /\ pending' = pending \cup {<<call[r].on, r>>}
        /\ call' = [call EXCEPT ![r] = [at |-> "open", on |-> call[r].on]]
    BY <1>4 DEF Admit, At
  <2>2. \A x \in Requests : x # r => call'[x] = call[x]
    BY <2>1 DEF PlacesInv, PlacesTyped
  <2>3. Unanswered'
    BY <2>1, <2>2 DEF AnswersInv, Unanswered
  <2>4. AnswersInv'
    BY <1>1, <2>1, <2>3 DEF AnswersInv, AnswersTyped, PluginsWereAsked, FramesWereAsked
  <2> QED BY <1>1, <2>1, <2>4 DEF Promise, Contract!vars
<1>5. CASE Route(r)
  <2>1. call[r].at = "idle" /\ UNCHANGED pending
    BY <1>5 DEF Route
  <2>2. CASE sessions[TargetOf[r]] = None
    <3>1. Refuse(r, "not_found")
      BY <1>5, <2>2 DEF Route
    <3> QED BY <1>2, <2>1, <3>1
  <2>3. CASE sessions[TargetOf[r]] # None
    <3>1. UNCHANGED answer /\ call' = [call EXCEPT ![r] = [at |-> "routed", on |-> sessions[TargetOf[r]]]]
      BY <1>5, <2>3 DEF Route, At
    <3> QED BY <1>3, <2>1, <3>1 DEF CallStages
  <2> QED BY <2>2, <2>3
<1>6. CASE EnqueueCall(r)
  <2>1. call[r].at = "routed" /\ UNCHANGED pending
    BY <1>6 DEF EnqueueCall
  <2>2. CASE \E kind \in {"not_found", "limit"} : Refuse(r, kind)
    BY <1>2, <2>1, <2>2 DEF Failure
  <2>3. CASE At(r, "ticketed", call[r].on) /\ UNCHANGED answer
    BY <1>3, <2>1, <2>3 DEF At, CallStages
  <2> QED BY <1>6, <2>2, <2>3 DEF EnqueueCall
<1>7. CASE AbandonWait(r) \/ AbandonTicket(r)
  BY <1>3, <1>7 DEF AbandonWait, AbandonTicket, At, settled, CallStages
<1> QED BY <1>4, <1>5, <1>6, <1>7

LEMMA DispatchPromises ==
    ASSUME NEW r \in Requests, PlacesInv, AnswersInv, Dispatch(r) PROVE AnswersInv' /\ Promise
<1> DEFINE s == call[r].on
<1>1. /\ s \in Sockets /\ call[r].at = "open" /\ wait[r] = "sent" /\ settling.todo = {}
      /\ UNCHANGED <<call, settling, plugin>>
  BY DEF Dispatch, HasPermit, PendingFree, tasks, PlacesInv, Located
<1>2. r \notin asked
  BY <1>1 DEF PlacesInv, AskedHadPermit
<1>3. CASE UNCHANGED <<pending, answer, outbound, asked>>
  <2>1. AnswersInv'
    BY <1>1, <1>3 DEF AnswersInv, AnswersTyped, Unanswered, PluginsWereAsked, FramesWereAsked
  <2> QED BY <1>3, <2>1 DEF Promise, Contract!vars
<1>4. CASE /\ <<s, r>> \in pending /\ Push(s, "request", r) /\ asked' = asked \cup {r}
           /\ UNCHANGED <<pending, answer>>
  <2>1. answer[r] = "none"
    BY <1>1, <1>4 DEF AnswersInv, Unanswered
  <2>2. /\ outbound' \in [Sockets -> Seq(Messages)]
        /\ \A t \in Sockets, x \in Requests :
              <<"request", x>> \in Range(outbound'[t]) =>
                 <<"request", x>> \in Range(outbound[t]) \/ x \in asked'
    <3> HIDE DEF s
    <3>1. /\ outbound' \in [Sockets -> Seq(Messages)]
          /\ Range(outbound'[s]) = Range(outbound[s]) \cup {<<"request", r>>}
          /\ \A t \in Sockets : t # s => outbound'[t] = outbound[t]
      BY <1>1, <1>4, PushFacts DEF AnswersInv, AnswersTyped
    <3>2. ASSUME NEW t \in Sockets, NEW x \in Requests, <<"request", x>> \in Range(outbound'[t])
          PROVE  <<"request", x>> \in Range(outbound[t]) \/ x \in asked'
      <4>1. CASE t = s
        BY <1>4, <3>1, <3>2, <4>1
      <4>2. CASE t # s
        BY <3>1, <3>2, <4>2
      <4> QED BY <4>1, <4>2
    <3> QED BY <3>1, <3>2
  <2>3. AnswersInv'
    <3>1. \A x \in Requests :
             \/ \E t \in Sockets : <<t, x>> \in pending'
             \/ call'[x].at \in {"idle", "routed", "ticketed", "unwinding"}
             => answer[x] = "none"
      BY <1>1, <1>4 DEF AnswersInv, Unanswered
    <3> QED BY <1>1, <1>4, <2>2, <3>1, NoAnswerKeepsAnswers
  <2> QED BY <1>2, <1>4, <2>1, <2>3, AskingSimulates DEF Promise
<1>5. CASE /\ <<s, r>> \in pending /\ pending' = pending \ {<<s, r>>}
           /\ \E kind \in {"limit", "lost"} : answer' = [answer EXCEPT ![r] = kind]
           /\ UNCHANGED <<outbound, asked>>
  <2>1. PICK kind \in {"limit", "lost"} : answer' = [answer EXCEPT ![r] = kind]
    BY <1>5
  <2> HIDE DEF s
  <2>2. AnswersInv' /\ Answering(r, kind)
    BY <1>1, <1>5, <2>1, SettlingAnswers DEF Failure
  <2> QED BY <2>2, AnsweringSimulates DEF Promise, Failure
<1> QED BY <1>3, <1>4, <1>5 DEF Dispatch, StillPending

\* Every other step answers nobody.
PluginStep == \/ \E r \in Requests : PluginFinishes(r)
              \/ \E s \in Sockets : SendOut(s)

LEMMA PluginPromises ==
    ASSUME PlacesInv, AnswersInv, PluginStep PROVE AnswersInv' /\ Promise
<1>1. UNCHANGED <<asked, answer, pending, settling, call>>
  BY DEF PluginStep, PluginFinishes, SendOut, settled, tasks
<1>2. ASSUME NEW r \in Requests, PluginFinishes(r) PROVE AnswersInv'
  <2>1. plugin[r] = "running" /\ plugin' = [plugin EXCEPT ![r] = "done"] /\ UNCHANGED outbound
    BY <1>2 DEF PluginFinishes
  <2>2. AnswersTyped' /\ PluginsWereAsked'
    BY <1>1, <2>1 DEF AnswersInv, AnswersTyped, PluginsWereAsked, PluginStages
  <2> QED BY <1>1, <2>1, <2>2 DEF AnswersInv, Unanswered, FramesWereAsked
<1>3. ASSUME NEW s \in Sockets, SendOut(s) PROVE AnswersInv'
  <2> DEFINE m == Head(outbound[s])
  <2>1. outbound[s] # <<>> /\ outbound' = [outbound EXCEPT ![s] = Tail(@)]
    BY <1>3 DEF SendOut
  <2>2. /\ outbound' \in [Sockets -> Seq(Messages)] /\ m \in Messages /\ m \in Range(outbound[s])
        /\ Range(outbound'[s]) \subseteq Range(outbound[s])
        /\ \A t \in Sockets : t # s => outbound'[t] = outbound[t]
    BY <2>1, TailFacts DEF AnswersInv, AnswersTyped
  <2>3. PICK type \in {"request", "cancel"}, r \in Requests : m = <<type, r>>
    BY <2>2 DEF Messages
  <2>4. \E to \in PluginStages : /\ plugin' = [plugin EXCEPT ![r] = to]
                                 /\ to \in {"running", "done"} =>
                                       type = "request" \/ to = plugin[r]
    <3>1. m[1] = type /\ m[2] = r
      BY <2>3
    <3>2. plugin' = [plugin EXCEPT ![r] =
              CASE type = "request"                        -> "running"
                [] type = "cancel" /\ plugin[r] = "unseen"  -> "warned"
                [] type = "cancel" /\ plugin[r] = "running" -> "stopped"
                [] OTHER                                    -> plugin[r]]
      BY <1>3, <3>1 DEF SendOut
    <3>3. plugin[r] \in PluginStages
      BY DEF AnswersInv, AnswersTyped
    <3> QED BY <2>3, <3>2, <3>3 DEF PluginStages
  <2>5. type = "request" => r \in asked
    BY <2>2, <2>3 DEF AnswersInv, FramesWereAsked
  <2>6. AnswersTyped' /\ PluginsWereAsked'
    BY <1>1, <2>2, <2>4, <2>5 DEF AnswersInv, AnswersTyped, PluginsWereAsked
  <2>7. FramesWereAsked'
    <3> SUFFICES ASSUME NEW t \in Sockets, NEW x \in Requests, <<"request", x>> \in Range(outbound'[t])
                 PROVE  x \in asked'
      BY DEF FramesWereAsked
    <3>1. <<"request", x>> \in Range(outbound[t])
      BY <2>2
    <3> QED BY <1>1, <3>1 DEF AnswersInv, FramesWereAsked
  <2> QED BY <1>1, <2>6, <2>7 DEF AnswersInv, Unanswered
<1> QED BY <1>1, <1>2, <1>3 DEF PluginStep, Promise, Contract!vars

\* Cancels are queued, channels close, tasks move on.
FrameStep == \/ \E r \in Requests : CancelTell(r)
             \/ TellExpired
             \/ \E s \in Sockets : RejectHello(s) \/ Register(s) \/ LeaveSocket(s)

LEMMA CancelFacts ==
    ASSUME NEW s \in Sockets, NEW r \in Requests, outbound \in [Sockets -> Seq(Messages)],
           TrySendCancel(s, r) \/ UNCHANGED outbound
    PROVE  /\ outbound' \in [Sockets -> Seq(Messages)]
           /\ \A t \in Sockets : Range(outbound'[t]) \subseteq Range(outbound[t]) \cup {<<"cancel", r>>}
           /\ \A t \in Sockets : t # s => outbound'[t] = outbound[t]
<1>1. CASE Push(s, "cancel", r)
  <2>1. /\ outbound' \in [Sockets -> Seq(Messages)]
        /\ Range(outbound'[s]) = Range(outbound[s]) \cup {<<"cancel", r>>}
        /\ \A t \in Sockets : t # s => outbound'[t] = outbound[t]
    BY <1>1, PushFacts
  <2> QED BY <2>1
<1>2. CASE UNCHANGED outbound
  BY <1>2
<1> QED BY <1>1, <1>2 DEF TrySendCancel

\* Who is told of a cancel: a socket of a call that was removed.
CancelsTyped == /\ canceller \in [Requests -> [at : {"idle", "routed", "removed", "done"},
                                               on : Sockets \cup {None}]]
                /\ \A r \in Requests : canceller[r].at \in {"routed", "removed"}
                                       => canceller[r].on \in Sockets
                /\ sweep \subseteq Entry

LEMMA FramesPromise ==
    ASSUME PlacesInv, AnswersInv, CancelsTyped, FrameStep PROVE AnswersInv' /\ Promise
<1>1. UNCHANGED <<asked, answer, pending, settling, call, plugin>>
  BY DEF FrameStep, CancelTell, TellExpired, RejectHello, Register, LeaveSocket, settled, registry
<1>2. /\ outbound' \in [Sockets -> Seq(Messages)]
      /\ \A s \in Sockets, x \in Requests :
            <<"request", x>> \in Range(outbound'[s]) => <<"request", x>> \in Range(outbound[s])
  <2>1. ASSUME NEW s \in Sockets, NEW r \in Requests, TrySendCancel(s, r) \/ UNCHANGED outbound
        PROVE  <1>2!1 /\ <1>2!2
    BY <2>1, CancelFacts DEF AnswersInv, AnswersTyped
  <2>2. ASSUME NEW r \in Requests, CancelTell(r)
        PROVE  \E s \in Sockets : TrySendCancel(s, r)
    BY <2>2 DEF CancelTell, CancelsTyped
  <2>3. CASE TellExpired
    <3>1. PICK e \in sweep : TrySendCancel(e[1], e[2]) \/ UNCHANGED outbound
      BY <2>3 DEF TellExpired
    <3>2. PICK s \in Sockets, r \in Requests : e = <<s, r>>
      BY DEF CancelsTyped, Entry
    <3> QED BY <2>1, <3>1, <3>2
  <2>4. ASSUME NEW s \in Sockets, Return(s) PROVE <1>2!1 /\ <1>2!2
    BY <2>4, CloseFacts DEF AnswersInv, AnswersTyped
  <2>5. CASE UNCHANGED outbound
    BY <2>5 DEF AnswersInv, AnswersTyped
  <2>6. ASSUME NEW s \in Sockets, RejectHello(s) \/ Register(s) \/ LeaveSocket(s)
        PROVE  Return(s) \/ UNCHANGED outbound
    BY <2>6 DEF RejectHello, Register, LeaveSocket
  <2> QED BY <2>1, <2>2, <2>3, <2>4, <2>5, <2>6 DEF FrameStep
<1>3. AnswersInv'
  BY <1>1, <1>2, NoAnswerKeepsAnswers DEF AnswersInv, Unanswered
<1> QED BY <1>1, <1>3 DEF Promise, Contract!vars

BatchStep == TakeExpired \/ DrainAndJoin \/ DrainPending \/ \E s \in Sockets : LosePending(s)

LEMMA BatchPromises == ASSUME AnswersInv, BatchStep PROVE AnswersInv' /\ Promise
<1>1. UNCHANGED <<asked, answer, plugin, outbound, pending, call>>
  BY DEF BatchStep, TakeExpired, DrainAndJoin, DrainPending, LosePending
<1>2. settling'.todo # {} => settling'.kind \in Failure
  <2>1. ASSUME NEW entries, NEW kind \in {"timeout", "lost"}, NEW task,
               BeginBatch(entries, kind, task)
        PROVE  settling'.todo # {} => settling'.kind \in Failure
    BY <2>1 DEF BeginBatch, Idle, Failure
  <2> QED BY <2>1 DEF BatchStep, TakeExpired, DrainAndJoin, DrainPending, LosePending
<1>3. AnswersInv'
  BY <1>1, <1>2 DEF AnswersInv, AnswersTyped, Unanswered, PluginsWereAsked, FramesWereAsked
<1> QED BY <1>1, <1>3 DEF Promise, Contract!vars

SilentStep ==
    \/ \E r \in Requests : CancelRoute(r)
    \/ \E s \in Sockets : \/ Promote(s) \/ Hello(s) \/ ListQueue(s) \/ Stop(s) \/ Unregister(s)
                          \/ UnlistQueue(s)
    \/ ServeEnds \/ AcceptFails \/ CancelToken

LEMMA SilentLeavesAnswers ==
    SilentStep => UNCHANGED <<asked, answer, plugin, outbound, pending, settling, call>>
<1> SUFFICES ASSUME SilentStep
             PROVE  UNCHANGED <<asked, answer, plugin, outbound, pending, settling, call>>
  OBVIOUS
<1> USE DEF settled, tasks
<1>1. CASE \E r \in Requests : CancelRoute(r)
  BY <1>1 DEF CancelRoute
<1>2. ASSUME NEW s \in Sockets, Promote(s) \/ Hello(s) \/ ListQueue(s)
      PROVE  UNCHANGED <<asked, answer, plugin, outbound, pending, settling, call>>
  BY <1>2 DEF Promote, Hello, ListQueue
<1>3. ASSUME NEW s \in Sockets, Stop(s) \/ Unregister(s) \/ UnlistQueue(s)
      PROVE  UNCHANGED <<asked, answer, plugin, outbound, pending, settling, call>>
  BY <1>3 DEF Stop, Unregister, UnlistQueue
<1>4. CASE ServeEnds \/ AcceptFails \/ CancelToken
  BY <1>4 DEF ServeEnds, AcceptFails, CancelToken
<1> QED BY <1>1, <1>2, <1>3, <1>4 DEF SilentStep

\* The other steps of the cancellers and of the sweep.
LEMMA InitCancels == Init => CancelsTyped
  BY DEF Init, CancelsTyped

LEMMA CancelsChange ==
    ASSUME [Next]_vars
    PROVE  \/ UNCHANGED <<canceller, sweep>>
           \/ \E r \in Requests : CancelRoute(r) \/ CancelRemove(r) \/ CancelTell(r)
           \/ TakeExpired \/ TellExpired
<1>1. ASSUME NEW r \in Requests,
             Route(r) \/ InvokeStep(r) \/ AbandonWait(r) \/ PluginFinishes(r)
      PROVE  UNCHANGED <<canceller, sweep>>
  BY <1>1 DEF Route, InvokeStep, EnqueueCall, Admit, Dispatch, AbandonTicket, AbandonWait,
              PluginFinishes, tasks
<1>2. ASSUME NEW s \in Sockets,
             Promote(s) \/ Hello(s) \/ RejectHello(s) \/ SocketStep(s) \/ SendOut(s) \/ Stop(s)
      PROVE  UNCHANGED <<canceller, sweep>>
  <2>1. CASE Promote(s) \/ SendOut(s)
    BY <2>1 DEF Promote, SendOut, tasks
  <2>2. CASE Hello(s) \/ RejectHello(s) \/ Stop(s)
    BY <2>2 DEF Hello, RejectHello, Stop
  <2>3. CASE SocketStep(s)
    BY <2>3 DEF SocketStep, Register, ListQueue, Unregister, LosePending, UnlistQueue, LeaveSocket
  <2> QED BY <1>2, <2>1, <2>2, <2>3
<1>3. ASSUME NEW s \in Sockets, NEW r \in Requests, Receive(s, r) PROVE UNCHANGED <<canceller, sweep>>
  BY <1>3 DEF Receive, tasks
<1>4. CASE SettleNext \/ DrainAndJoin \/ ServeEnds \/ AcceptFails \/ CancelToken \/ DrainPending
  BY <1>4 DEF SettleNext, DrainAndJoin, ServeEnds, AcceptFails, CancelToken, DrainPending, tasks
<1>5. CASE UNCHANGED vars
  BY <1>5 DEF vars
<1> QED BY <1>1, <1>2, <1>3, <1>4, <1>5 DEF Next, ServeStep, CancelStep

LEMMA StepKeepsCancels == RegistryInv /\ PlacesInv /\ CancelsTyped /\ [Next]_vars => CancelsTyped'
<1> SUFFICES ASSUME RegistryInv, PlacesInv, CancelsTyped, [Next]_vars PROVE CancelsTyped'
  OBVIOUS
<1>1. CASE UNCHANGED <<canceller, sweep>>
  BY <1>1 DEF CancelsTyped
<1>2. ASSUME NEW r \in Requests, CancelRoute(r) \/ CancelRemove(r) \/ CancelTell(r)
      PROVE  CancelsTyped'
  <2>1. TargetOf[r] \in Conns
    BY InstanceAssumption
  <2>2. sessions[TargetOf[r]] \in Sockets \cup {None}
    BY <2>1 DEF RegistryInv, RegistryTyped
  <2>3. CASE CancelRoute(r)
    BY <2>2, <2>3 DEF CancelRoute, CancelAt, CancelsTyped
  <2>4. CASE CancelRemove(r)
    BY <2>4 DEF CancelRemove, CancelAt, CancelsTyped
  <2>5. CASE CancelTell(r)
    BY <2>5 DEF CancelTell, CancelAt, CancelsTyped
  <2> QED BY <1>2, <2>3, <2>4, <2>5
<1>3. CASE TakeExpired \/ TellExpired
  BY <1>3 DEF TakeExpired, TellExpired, CancelsTyped, Expirable, PlacesInv, PlacesTyped
<1> QED BY <1>1, <1>2, <1>3, CancelsChange

LEMMA NextByPromise ==
    Next => \/ SettleNext \/ (\E r \in Requests : CancelRemove(r))
               \/ (\E s \in Sockets, r \in Requests : Receive(s, r))
            \/ \E r \in Requests : \/ Route(r) \/ EnqueueCall(r) \/ Admit(r)
                                   \/ AbandonWait(r) \/ AbandonTicket(r)
            \/ \E r \in Requests : Dispatch(r)
            \/ PluginStep \/ FrameStep \/ BatchStep \/ SilentStep
  BY DEF Next, InvokeStep, CancelStep, SocketStep, ServeStep, PluginStep, FrameStep, BatchStep,
         SilentStep

LEMMA InitAnswers == Init => AnswersInv
<1> SUFFICES ASSUME Init PROVE AnswersInv
  OBVIOUS
<1>1. <<>> \in Seq(Messages) /\ Range(<<>>) = {}
  BY DEF Range
<1> QED BY <1>1 DEF Init, AnswersInv, AnswersTyped, Unanswered, PluginsWereAsked, FramesWereAsked,
                    Idle, Answers, PluginStages

LEMMA InitPromises == Init => Contract!Init
  BY DEF Init, Contract!Init, Refusal, Failure

LEMMA StepPromises ==
    PlacesInv /\ CancelsTyped /\ AnswersInv /\ [Next]_vars => AnswersInv' /\ Promise
<1> SUFFICES ASSUME PlacesInv, CancelsTyped, AnswersInv, [Next]_vars PROVE AnswersInv' /\ Promise
  OBVIOUS
<1>1. CASE UNCHANGED <<asked, answer, plugin, outbound, pending, settling, call>>
  BY <1>1 DEF AnswersInv, AnswersTyped, Unanswered, PluginsWereAsked, FramesWereAsked,
              Promise, Contract!vars
<1>2. CASE UNCHANGED vars
  BY <1>1, <1>2 DEF vars
<1> QED BY <1>1, <1>2, NextByPromise, SettlersPromise, InvokePromises, DispatchPromises,
           PluginPromises, FramesPromise, BatchPromises, SilentLeavesAnswers

\* Every behaviour of the broker keeps the contract of `invoke': a call is asked
\* at most once and only while it is open, answered at most once, and by the
\* plugin that was asked.
THEOREM InvokeKeepsContract == Spec => KeepsContract
<1>1. PlacesInv /\ CancelsTyped /\ AnswersInv /\ [Next]_vars => [Contract!Next]_(Contract!vars)
  BY StepPromises DEF Promise
<1> QED BY <1>1, InitRegistry, StepKeepsRegistry, InitPlaces, StepKeepsPlaces, InitCancels,
           StepKeepsCancels, InitAnswers, StepPromises, InitPromises, PTL
        DEF Spec, KeepsContract, Contract!Spec

-----------------------------------------------------------------------------
(* The order of a call's frames.                                           *)

\* A call that was pending and is no longer: for good.
Over(r) == call[r].at = "open" /\ \A s \in Sockets : <<s, r>> \notin pending

\* Whoever is about to send a cancel has removed the entry before.
CancelsKnown == \A r \in Requests :
    canceller[r].at = "removed" => Over(r) /\ call[r].on = canceller[r].on
SweepKnown == \A s \in Sockets, r \in Requests :
    <<s, r>> \in sweep => /\ call[r].at = "open" /\ call[r].on = s
                          /\ <<s, r>> \in pending => /\ <<s, r>> \in settling.todo
                                                     /\ settling.by = "serve"

\* Frames are in the channel of the call's own socket, and none is a request after
\* its cancel.
FramesKnown == \A s \in Sockets, r \in Requests :
    /\ <<"request", r>> \in Range(outbound[s]) => call[r].on = s
    /\ <<"cancel", r>> \in Range(outbound[s]) => Over(r) /\ call[r].on = s
CancelsFollow == \A s \in Sockets, r \in Requests : \A i, j \in DOMAIN outbound[s] :
    i < j /\ outbound[s][i] = <<"cancel", r>> => outbound[s][j] # <<"request", r>>

WarnedAreOver == \A r \in Requests :
    plugin[r] = "warned" => /\ Over(r)
                            /\ \A s \in Sockets : <<"request", r>> \notin Range(outbound[s])

OrderInv == CancelsKnown /\ SweepKnown /\ FramesKnown /\ CancelsFollow /\ WarnedAreOver

\* Only `admit' makes an entry, and a call it admitted stays where it is.
LEMMA CallsMoveOn ==
    ASSUME PlacesInv, [Next]_vars
    PROVE  \/ UNCHANGED call /\ pending' \subseteq pending
           \/ \E r \in Requests : \E c : /\ call[r].at # "open"
                                     /\ call' = [call EXCEPT ![r] = c]
                                     /\ pending' \subseteq pending \cup {<<call[r].on, r>>}
<1>1. ASSUME NEW r \in Requests,
             Route(r) \/ EnqueueCall(r) \/ Admit(r) \/ AbandonWait(r) \/ AbandonTicket(r)
      PROVE  /\ call[r].at # "open"
             /\ \E c : call' = [call EXCEPT ![r] = c]
             /\ pending' \subseteq pending \cup {<<call[r].on, r>>}
  <2>1. CASE Route(r)
    BY <2>1 DEF Route, Refuse, At
  <2>2. CASE EnqueueCall(r)
    BY <2>2 DEF EnqueueCall, Refuse, At
  <2>3. CASE Admit(r)
    BY <2>3 DEF Admit, At
  <2>4. CASE AbandonWait(r) \/ AbandonTicket(r)
    BY <2>4 DEF AbandonWait, AbandonTicket, At, settled
  <2> QED BY <1>1, <2>1, <2>2, <2>3, <2>4
<1>2. ASSUME NEW r \in Requests, Dispatch(r) PROVE UNCHANGED call /\ pending' \subseteq pending
  BY <1>2 DEF Dispatch, tasks
<1>3. CASE SettleNext
  BY <1>3 DEF SettleNext, Settle, tasks
<1>4. ASSUME NEW r \in Requests, CancelRemove(r) PROVE UNCHANGED call /\ pending' \subseteq pending
  BY <1>4 DEF CancelRemove, Settle
<1>5. ASSUME NEW s \in Sockets, NEW r \in Requests, Receive(s, r)
      PROVE  UNCHANGED call /\ pending' \subseteq pending
  BY <1>5 DEF Receive, Settle, tasks
<1>6. CASE PluginStep
  BY <1>6 DEF PluginStep, PluginFinishes, SendOut, settled, tasks
<1>7. CASE FrameStep
  BY <1>7 DEF FrameStep, CancelTell, TellExpired, RejectHello, Register, LeaveSocket, settled
<1>8. CASE BatchStep
  BY <1>8 DEF BatchStep, TakeExpired, DrainAndJoin, DrainPending, LosePending
<1>9. CASE SilentStep
  BY <1>9, SilentLeavesAnswers
<1>10. CASE UNCHANGED vars
  BY <1>10 DEF vars
<1> QED BY <1>1, <1>2, <1>3, <1>4, <1>5, <1>6, <1>7, <1>8, <1>9, <1>10, NextByPromise

LEMMA OverStays ==
    ASSUME PlacesInv, [Next]_vars, NEW r \in Requests, call[r].at = "open"
    PROVE  /\ call'[r] = call[r]
           /\ \A s \in Sockets : <<s, r>> \in pending' => <<s, r>> \in pending
           /\ Over(r) => Over(r)'
<1>1. call \in [Requests -> [at : CallStages, on : Sockets \cup {None}]]
  BY DEF PlacesInv, PlacesTyped
<1>2. call'[r] = call[r] /\ \A s \in Sockets : <<s, r>> \in pending' => <<s, r>> \in pending
  <2>1. CASE UNCHANGED call /\ pending' \subseteq pending
    BY <2>1
  <2>2. ASSUME NEW x \in Requests, NEW c, call[x].at # "open", call' = [call EXCEPT ![x] = c],
               pending' \subseteq pending \cup {<<call[x].on, x>>}
        PROVE  call'[r] = call[r] /\ \A s \in Sockets : <<s, r>> \in pending' => <<s, r>> \in pending
    BY <1>1, <2>2
  <2> QED BY <2>1, <2>2, CallsMoveOn
<1> QED BY <1>2 DEF Over

\* What a step does to the channels and to what plugins know.
AddsRequest(s, r) == CanSend(s) /\ Push(s, "request", r) /\ UNCHANGED plugin /\ <<s, r>> \in pending
AddsCancel(s, r)  == CanSend(s) /\ Push(s, "cancel", r) /\ UNCHANGED plugin /\ Over(r) /\ call[r].on = s

LEMMA ChannelsChange ==
    ASSUME PlacesInv, CancelsTyped, OrderInv, [Next]_vars
    PROVE  \/ UNCHANGED <<outbound, plugin>>
           \/ \E s \in Sockets, r \in Requests : AddsRequest(s, r) \/ AddsCancel(s, r)
           \/ \E s \in Sockets : (Return(s) /\ UNCHANGED plugin) \/ SendOut(s)
           \/ \E r \in Requests : PluginFinishes(r)
<1> DEFINE Quiet == UNCHANGED <<outbound, plugin>>
<1>1. ASSUME NEW r \in Requests, Dispatch(r)
      PROVE  Quiet \/ \E s \in Sockets : AddsRequest(s, r)
  <2>1. call[r].on \in Sockets
    BY <1>1 DEF Dispatch, PlacesInv, Located
  <2> QED BY <1>1, <2>1 DEF Dispatch, StillPending, AddsRequest
<1>2. ASSUME NEW r \in Requests, CancelTell(r)
      PROVE  Quiet \/ \E s \in Sockets : AddsCancel(s, r)
  <2>1. /\ canceller[r].on \in Sockets /\ Over(r) /\ call[r].on = canceller[r].on
    BY <1>2 DEF CancelTell, CancelsTyped, OrderInv, CancelsKnown
  <2> QED BY <1>2, <2>1 DEF CancelTell, TrySendCancel, AddsCancel
<1>3. CASE TellExpired
  <2>1. PICK e \in sweep : TrySendCancel(e[1], e[2]) \/ UNCHANGED outbound
    BY <1>3 DEF TellExpired
  <2>2. PICK s \in Sockets, r \in Requests : e = <<s, r>>
    BY DEF CancelsTyped, Entry
  <2>3. call[r].at = "open" /\ call[r].on = s /\ <<s, r>> \notin pending
    BY <1>3, <2>2 DEF TellExpired, Busy, OrderInv, SweepKnown
  <2>4. Over(r)
    BY <2>3 DEF Over, PlacesInv, PendingIsOpen
  <2> QED BY <1>3, <2>1, <2>2, <2>3, <2>4 DEF TellExpired, TrySendCancel, AddsCancel
<1>4. ASSUME NEW s \in Sockets, RejectHello(s) \/ Register(s) \/ LeaveSocket(s)
      PROVE  (Return(s) \/ UNCHANGED outbound) /\ UNCHANGED plugin
  BY <1>4 DEF RejectHello, Register, LeaveSocket
<1>5. CASE SettleNext \/ (\E r \in Requests : CancelRemove(r))
           \/ (\E s \in Sockets, r \in Requests : Receive(s, r))
  BY <1>5 DEF SettleNext, CancelRemove, Receive
<1>6. ASSUME NEW r \in Requests,
             Route(r) \/ EnqueueCall(r) \/ Admit(r) \/ AbandonWait(r) \/ AbandonTicket(r)
      PROVE  Quiet
  BY <1>6 DEF Route, EnqueueCall, Admit, AbandonWait, AbandonTicket
<1>7. CASE BatchStep
  BY <1>7 DEF BatchStep, TakeExpired, DrainAndJoin, DrainPending, LosePending
<1>8. CASE SilentStep
  BY <1>8, SilentLeavesAnswers
<1>9. CASE UNCHANGED vars
  BY <1>9 DEF vars
<1> QED BY <1>1, <1>2, <1>3, <1>4, <1>5, <1>6, <1>7, <1>8, <1>9, NextByPromise
        DEF PluginStep, FrameStep

LEMMA StepKeepsCancelsKnown ==
    ASSUME PlacesInv, CancelsTyped, CancelsKnown, [Next]_vars PROVE CancelsKnown'
<1> SUFFICES ASSUME NEW r \in Requests, canceller'[r].at = "removed"
             PROVE  Over(r)' /\ call'[r].on = canceller'[r].on
  BY DEF CancelsKnown
<1>1. CASE canceller'[r] = canceller[r]
  <2>1. Over(r) /\ call[r].on = canceller[r].on /\ call[r].at = "open"
    BY <1>1 DEF CancelsKnown, Over
  <2> QED BY <1>1, <2>1, OverStays
<1>2. CASE CancelRemove(r)
  <2> DEFINE s == canceller[r].on
  <2>1. UNCHANGED call /\ s \in Sockets
    BY <1>2 DEF CancelRemove, CancelsTyped
  <2>2. <<s, r>> \in pending /\ pending' = pending \ {<<s, r>>} /\ canceller'[r].on = s
    BY <1>2 DEF CancelRemove, CancelAt, CancelsTyped, Settle
  <2>3. call[r].at = "open" /\ call[r].on = s /\ \A t \in Sockets : t # s => <<t, r>> \notin pending
    BY <2>1, <2>2 DEF PlacesInv, PendingIsOpen
  <2> QED BY <2>1, <2>2, <2>3 DEF Over
<1>3. ASSUME NEW x \in Requests, CancelRoute(x) \/ CancelTell(x) \/ (CancelRemove(x) /\ x # r)
      PROVE  canceller'[r] = canceller[r]
  BY <1>3 DEF CancelRoute, CancelTell, CancelRemove, CancelAt, CancelsTyped
<1>4. CASE TakeExpired \/ TellExpired
  BY <1>1, <1>4 DEF TakeExpired, TellExpired
<1> QED BY <1>1, <1>2, <1>3, <1>4, CancelsChange

LEMMA SettlingChange ==
    ASSUME [Next]_vars PROVE UNCHANGED settling \/ SettleNext \/ BatchStep
<1>1. ASSUME NEW r \in Requests, CancelRemove(r) PROVE UNCHANGED settling
  BY <1>1 DEF CancelRemove
<1>2. ASSUME NEW s \in Sockets, NEW r \in Requests, Receive(s, r) PROVE UNCHANGED settling
  BY <1>2 DEF Receive
<1>3. ASSUME NEW r \in Requests,
             Route(r) \/ EnqueueCall(r) \/ Admit(r) \/ AbandonWait(r) \/ AbandonTicket(r)
      PROVE  UNCHANGED settling
  BY <1>3 DEF Route, EnqueueCall, Admit, AbandonWait, AbandonTicket, settled
<1>4. ASSUME NEW r \in Requests, Dispatch(r) PROVE UNCHANGED settling
  BY <1>4 DEF Dispatch
<1>5. CASE PluginStep
  BY <1>5 DEF PluginStep, PluginFinishes, SendOut, settled
<1>6. CASE FrameStep
  BY <1>6 DEF FrameStep, CancelTell, TellExpired, RejectHello, Register, LeaveSocket, settled
<1>7. CASE UNCHANGED vars
  BY <1>7 DEF vars
<1> QED BY <1>1, <1>2, <1>3, <1>4, <1>5, <1>6, <1>7, NextByPromise, SilentLeavesAnswers

LEMMA StepKeepsSweepKnown ==
    ASSUME PlacesInv, CancelsTyped, SweepKnown, [Next]_vars PROVE SweepKnown'
<1> SUFFICES ASSUME NEW s \in Sockets, NEW r \in Requests, <<s, r>> \in sweep'
             PROVE  /\ call'[r].at = "open" /\ call'[r].on = s
                    /\ <<s, r>> \in pending' => /\ <<s, r>> \in settling'.todo
                                                /\ settling'.by = "serve"
  BY DEF SweepKnown
<1>1. CASE TakeExpired
  <2>1. PICK entries \in SUBSET pending : BeginBatch(entries, "timeout", "serve") /\ sweep' = entries
    BY <1>1 DEF TakeExpired, Expirable
  <2>2. UNCHANGED <<pending, call>>
    BY <1>1 DEF TakeExpired
  <2>3. <<s, r>> \in pending /\ settling' = [todo |-> entries, kind |-> "timeout", by |-> "serve"]
    BY <2>1 DEF BeginBatch
  <2> QED BY <2>1, <2>2, <2>3 DEF PlacesInv, PendingIsOpen
<1>2. CASE ~TakeExpired
  <2>1. <<s, r>> \in sweep
    <3>1. ASSUME NEW x \in Requests, CancelRoute(x) \/ CancelRemove(x) \/ CancelTell(x)
          PROVE  UNCHANGED sweep
      BY <3>1 DEF CancelRoute, CancelRemove, CancelTell
    <3>2. CASE TellExpired
      BY <3>2 DEF TellExpired
    <3> QED BY <1>2, <3>1, <3>2, CancelsChange
  <2>2. call'[r] = call[r] /\ call[r].at = "open" /\ call[r].on = s
    BY <2>1, OverStays DEF SweepKnown
  <2>3. CASE <<s, r>> \in pending'
    <3>1. <<s, r>> \in settling.todo /\ settling.by = "serve"
      BY <2>1, <2>2, <2>3, OverStays DEF SweepKnown
    <3>2. CASE UNCHANGED settling
      BY <2>2, <3>1, <3>2
    <3>3. CASE SettleNext
      <4>1. PICK e \in settling.todo :
               /\ Settle(e[1], e[2], settling.kind)
               /\ settling' = IF settling.todo = {e} THEN Idle
                                                    ELSE [settling EXCEPT !.todo = @ \ {e}]
        BY <3>3 DEF SettleNext
      <4>2. PICK t \in Sockets, x \in Requests : e = <<t, x>>
        BY DEF PlacesInv, PlacesTyped, Entry
      <4>3. e # <<s, r>>
        BY <2>3, <4>1, <4>2 DEF Settle
      <4>4. settling' = [settling EXCEPT !.todo = @ \ {e}]
        BY <3>1, <4>1, <4>3
      <4>5. settling'.todo = settling.todo \ {e} /\ settling'.by = settling.by
        BY <4>4 DEF PlacesInv, PlacesTyped
      <4> QED BY <2>2, <3>1, <4>3, <4>5
    <3>4. CASE BatchStep
      BY <1>2, <3>1, <3>4 DEF BatchStep, DrainAndJoin, DrainPending, LosePending, PendingFree
    <3> QED BY <3>2, <3>3, <3>4, SettlingChange
  <2> QED BY <2>2, <2>3
<1> QED BY <1>1, <1>2

\* The channels.
ChannelsInv == FramesKnown /\ CancelsFollow /\ WarnedAreOver

LEMMA OldFrames ==
    ASSUME PlacesInv, AnswersInv, ChannelsInv, [Next]_vars, NEW s \in Sockets, NEW r \in Requests
    PROVE  /\ <<"request", r>> \in Range(outbound[s]) => call'[r].on = s
           /\ <<"cancel", r>> \in Range(outbound[s]) => Over(r)' /\ call'[r].on = s
<1>1. ASSUME <<"request", r>> \in Range(outbound[s]) PROVE call'[r].on = s
  <2>1. call[r].at = "open"
    BY <1>1 DEF AnswersInv, FramesWereAsked, PlacesInv, AskedHadPermit
  <2> QED BY <1>1, <2>1, OverStays DEF ChannelsInv, FramesKnown
<1>2. ASSUME <<"cancel", r>> \in Range(outbound[s]) PROVE Over(r)' /\ call'[r].on = s
  <2>1. Over(r) /\ call[r].on = s
    BY <1>2 DEF ChannelsInv, FramesKnown
  <2> QED BY <2>1, OverStays DEF Over
<1> QED BY <1>1, <1>2

LEMMA RequestKeepsOrder ==
    ASSUME NEW s \in Sockets, NEW r \in Requests, PlacesInv, AnswersInv, ChannelsInv,
           [Next]_vars, AddsRequest(s, r)
    PROVE  ChannelsInv'
<1>1. /\ call[r].at = "open" /\ call[r].on = s /\ ~Over(r)
      /\ UNCHANGED plugin
  BY DEF PlacesInv, PendingIsOpen, AddsRequest, Over
<1>2. /\ outbound' \in [Sockets -> Seq(Messages)]
      /\ Range(outbound'[s]) = Range(outbound[s]) \cup {<<"request", r>>}
      /\ \A t \in Sockets : t # s => outbound'[t] = outbound[t]
  BY PushFacts DEF AddsRequest, AnswersInv, AnswersTyped
<1>3. FramesKnown'
  <2> SUFFICES ASSUME NEW t \in Sockets, NEW x \in Requests
               PROVE  /\ <<"request", x>> \in Range(outbound'[t]) => call'[x].on = t
                      /\ <<"cancel", x>> \in Range(outbound'[t]) => Over(x)' /\ call'[x].on = t
    BY DEF FramesKnown
  <2>1. CASE t = s /\ x = r
    BY <1>1, <1>2, <2>1, OverStays, OldFrames
  <2>2. CASE ~(t = s /\ x = r)
    BY <1>2, <2>2, OldFrames
  <2> QED BY <2>1, <2>2
<1>4. CancelsFollow'
  <2> SUFFICES ASSUME NEW t \in Sockets, NEW x \in Requests,
                      NEW i \in DOMAIN outbound'[t], NEW j \in DOMAIN outbound'[t],
                      i < j, outbound'[t][i] = <<"cancel", x>>, outbound'[t][j] = <<"request", x>>
               PROVE  FALSE
    BY DEF CancelsFollow
  <2>1. CASE t # s
    BY <1>2, <2>1 DEF ChannelsInv, CancelsFollow
  <2>2. CASE t = s
    <3> DEFINE q == outbound[s]
               m == <<"request", r>>
    <3>1. q \in Seq(Messages) /\ outbound'[s] = Append(q, m) /\ m \in Messages
      BY DEF AnswersInv, AnswersTyped, AddsRequest, Push, Messages
    <3>2. i \in 1..Len(q) /\ q[i] = <<"cancel", x>>
      <4> HIDE DEF q, m
      <4>1. i \in 1..(Len(q) + 1) /\ j \in 1..(Len(q) + 1)
        BY <2>2, <3>1
      <4>2. i \in 1..Len(q)
        BY <3>1, <4>1
      <4> QED BY <2>2, <3>1, <4>2
    <3>3. Over(x)
      BY <3>1, <3>2 DEF ChannelsInv, FramesKnown, Range
    <3>4. CASE j \in 1..Len(q)
      <4>1. q[j] = <<"request", x>>
        BY <2>2, <3>1, <3>4
      <4>2. i \in DOMAIN outbound[s] /\ j \in DOMAIN outbound[s]
        BY <3>1, <3>2, <3>4
      <4> QED BY <3>2, <4>1, <4>2 DEF ChannelsInv, CancelsFollow
    <3>5. CASE j = Len(q) + 1
      <4>1. x = r
        BY <2>2, <3>1, <3>5
      <4> QED BY <1>1, <3>3, <4>1
    <3> QED BY <2>2, <3>1, <3>4, <3>5
  <2> QED BY <2>1, <2>2
<1>5. WarnedAreOver'
  <2> SUFFICES ASSUME NEW x \in Requests, plugin'[x] = "warned"
               PROVE  Over(x)' /\ \A t \in Sockets : <<"request", x>> \notin Range(outbound'[t])
    BY DEF WarnedAreOver
  <2>1. Over(x) /\ \A t \in Sockets : <<"request", x>> \notin Range(outbound[t])
    BY <1>1 DEF ChannelsInv, WarnedAreOver
  <2>2. x # r
    BY <1>1, <2>1
  <2> QED BY <1>2, <2>1, <2>2, OverStays DEF Over
<1> QED BY <1>3, <1>4, <1>5 DEF ChannelsInv

LEMMA CancelKeepsOrder ==
    ASSUME NEW s \in Sockets, NEW r \in Requests, PlacesInv, AnswersInv, ChannelsInv,
           [Next]_vars, AddsCancel(s, r)
    PROVE  ChannelsInv'
<1>1. call[r].at = "open" /\ call[r].on = s /\ Over(r) /\ UNCHANGED plugin
  BY DEF AddsCancel, Over
<1>2. /\ outbound' \in [Sockets -> Seq(Messages)]
      /\ Range(outbound'[s]) = Range(outbound[s]) \cup {<<"cancel", r>>}
      /\ \A t \in Sockets : t # s => outbound'[t] = outbound[t]
  BY PushFacts DEF AddsCancel, AnswersInv, AnswersTyped
<1>3. FramesKnown'
  <2> SUFFICES ASSUME NEW t \in Sockets, NEW x \in Requests
               PROVE  /\ <<"request", x>> \in Range(outbound'[t]) => call'[x].on = t
                      /\ <<"cancel", x>> \in Range(outbound'[t]) => Over(x)' /\ call'[x].on = t
    BY DEF FramesKnown
  <2>1. CASE t = s /\ x = r
    BY <1>1, <1>2, <2>1, OverStays, OldFrames
  <2>2. CASE ~(t = s /\ x = r)
    BY <1>2, <2>2, OldFrames
  <2> QED BY <2>1, <2>2
<1>4. CancelsFollow'
  <2> SUFFICES ASSUME NEW t \in Sockets, NEW x \in Requests,
                      NEW i \in DOMAIN outbound'[t], NEW j \in DOMAIN outbound'[t],
                      i < j, outbound'[t][i] = <<"cancel", x>>, outbound'[t][j] = <<"request", x>>
               PROVE  FALSE
    BY DEF CancelsFollow
  <2>1. CASE t # s
    BY <1>2, <2>1 DEF ChannelsInv, CancelsFollow
  <2>2. CASE t = s
    <3> DEFINE q == outbound[s]
               m == <<"cancel", r>>
    <3>1. q \in Seq(Messages) /\ outbound'[s] = Append(q, m) /\ m \in Messages
      BY DEF AnswersInv, AnswersTyped, AddsCancel, Push, Messages
    <3>2. i \in 1..(Len(q) + 1) /\ j \in 1..Len(q)
      <4>1. i \in 1..(Len(q) + 1) /\ j \in 1..(Len(q) + 1)
        <5> HIDE DEF q, m
        <5> QED BY <2>2, <3>1
      <4>2. j # Len(q) + 1
        BY <2>2, <3>1
      <4> QED BY <3>1, <4>1, <4>2
    <3>3. i \in 1..Len(q) /\ q[i] = <<"cancel", x>> /\ q[j] = <<"request", x>>
      <4> HIDE DEF q, m
      <4> QED BY <2>2, <3>1, <3>2
    <3>4. i \in DOMAIN outbound[s] /\ j \in DOMAIN outbound[s]
      BY <3>1, <3>2, <3>3
    <3> QED BY <3>3, <3>4 DEF ChannelsInv, CancelsFollow
  <2> QED BY <2>1, <2>2
<1>5. WarnedAreOver'
  <2> SUFFICES ASSUME NEW x \in Requests, plugin'[x] = "warned"
               PROVE  Over(x)' /\ \A t \in Sockets : <<"request", x>> \notin Range(outbound'[t])
    BY DEF WarnedAreOver
  <2>1. Over(x) /\ \A t \in Sockets : <<"request", x>> \notin Range(outbound[t])
    BY <1>1 DEF ChannelsInv, WarnedAreOver
  <2> QED BY <1>2, <2>1, OverStays DEF Over
<1> QED BY <1>3, <1>4, <1>5 DEF ChannelsInv

LEMMA SendingKeepsOrder ==
    ASSUME NEW s \in Sockets, PlacesInv, AnswersInv, ChannelsInv, [Next]_vars, SendOut(s)
    PROVE  ChannelsInv'
<1> DEFINE q == outbound[s]
<1>1. /\ outbound' \in [Sockets -> Seq(Messages)]
      /\ Head(q) \in Messages /\ Head(q) \in Range(q)
      /\ Range(outbound'[s]) \subseteq Range(q)
      /\ \A t \in Sockets : t # s => outbound'[t] = outbound[t]
  BY TailFacts DEF SendOut, AnswersInv, AnswersTyped
<1>2. q \in Seq(Messages) /\ q # <<>> /\ outbound'[s] = Tail(q)
  BY DEF SendOut, AnswersInv, AnswersTyped
<1>3. \A k \in DOMAIN outbound'[s] : /\ k \in Nat \ {0} /\ k + 1 \in DOMAIN q
                                     /\ outbound'[s][k] = q[k + 1]
  <2> HIDE DEF q
  <2> QED BY <1>2
<1>4. FramesKnown'
  <2>1. ASSUME NEW t \in Sockets PROVE Range(outbound'[t]) \subseteq Range(outbound[t])
    BY <1>1
  <2> QED BY <2>1, OldFrames DEF FramesKnown
<1>5. CancelsFollow'
  <2> SUFFICES ASSUME NEW t \in Sockets, NEW x \in Requests,
                      NEW i \in DOMAIN outbound'[t], NEW j \in DOMAIN outbound'[t],
                      i < j, outbound'[t][i] = <<"cancel", x>>
               PROVE  outbound'[t][j] # <<"request", x>>
    BY DEF CancelsFollow
  <2>1. CASE t # s
    BY <1>1, <2>1 DEF ChannelsInv, CancelsFollow
  <2>2. CASE t = s
    <3>1. i + 1 < j + 1 /\ i + 1 \in DOMAIN q /\ j + 1 \in DOMAIN q
      BY <1>3, <2>2
    <3>2. q[i + 1] = <<"cancel", x>> /\ outbound'[t][j] = q[j + 1]
      BY <1>3, <2>2
    <3> QED BY <3>1, <3>2 DEF ChannelsInv, CancelsFollow
  <2> QED BY <2>1, <2>2
<1>6. WarnedAreOver'
  <2> SUFFICES ASSUME NEW x \in Requests, plugin'[x] = "warned"
               PROVE  Over(x)' /\ \A t \in Sockets : <<"request", x>> \notin Range(outbound'[t])
    BY DEF WarnedAreOver
  <2>1. CASE plugin[x] = "warned"
    BY <1>1, <2>1, OverStays DEF ChannelsInv, WarnedAreOver, Over
  <2>2. CASE plugin[x] # "warned"
    <3>1. Head(q) = <<"cancel", x>>
      <4>1. Head(q)[2] = x /\ Head(q)[1] = "cancel"
        BY <1>1, <2>2 DEF SendOut, AnswersInv, AnswersTyped, Messages
      <4> QED BY <1>1, <4>1 DEF Messages
    <3>2. Over(x) /\ call[x].on = s
      BY <1>1, <3>1 DEF ChannelsInv, FramesKnown
    <3>3. ASSUME NEW t \in Sockets, <<"request", x>> \in Range(outbound'[t]) PROVE FALSE
      <4>1. t = s
        BY <1>1, <3>2, <3>3 DEF ChannelsInv, FramesKnown
      <4>2. PICK j \in DOMAIN outbound'[s] : outbound'[s][j] = <<"request", x>>
        BY <3>3, <4>1 DEF Range
      <4>3. 1 < j + 1 /\ j + 1 \in DOMAIN q /\ q[j + 1] = <<"request", x>>
        BY <1>3, <4>2
      <4>4. 1 \in DOMAIN q /\ q[1] = <<"cancel", x>>
        BY <1>2, <3>1
      <4> QED BY <4>3, <4>4 DEF ChannelsInv, CancelsFollow
    <3> QED BY <3>2, <3>3, OverStays DEF Over
  <2> QED BY <2>1, <2>2
<1> QED BY <1>4, <1>5, <1>6 DEF ChannelsInv

LEMMA QuietKeepsOrder ==
    ASSUME PlacesInv, AnswersInv, ChannelsInv, [Next]_vars,
           \A s \in Sockets : outbound'[s] = outbound[s] \/ outbound'[s] = <<>>,
           \A r \in Requests : plugin'[r] = "warned" => plugin[r] = "warned"
    PROVE  ChannelsInv'
<1>1. \A s \in Sockets : Range(outbound'[s]) \subseteq Range(outbound[s])
  BY DEF Range
<1>2. FramesKnown'
  BY <1>1, OldFrames DEF FramesKnown
<1>3. CancelsFollow'
  BY DEF ChannelsInv, CancelsFollow
<1>4. WarnedAreOver'
  BY <1>1, OverStays DEF ChannelsInv, WarnedAreOver, Over
<1> QED BY <1>2, <1>3, <1>4 DEF ChannelsInv

LEMMA StepKeepsOrder ==
    PlacesInv /\ CancelsTyped /\ AnswersInv /\ OrderInv /\ [Next]_vars => OrderInv'
<1> SUFFICES ASSUME PlacesInv, CancelsTyped, AnswersInv, OrderInv, [Next]_vars PROVE OrderInv'
  OBVIOUS
<1>1. CancelsKnown' /\ SweepKnown'
  BY StepKeepsCancelsKnown, StepKeepsSweepKnown DEF OrderInv
<1>2. ChannelsInv
  BY DEF OrderInv, ChannelsInv
<1>3. ASSUME UNCHANGED <<outbound, plugin>> PROVE ChannelsInv'
  <2>1. outbound' = outbound /\ plugin' = plugin
    BY <1>3
  <2> QED BY <1>2, <2>1, QuietKeepsOrder
<1>4. ASSUME NEW s \in Sockets, Return(s) /\ UNCHANGED plugin PROVE ChannelsInv'
  BY <1>2, <1>4, QuietKeepsOrder DEF Return, AnswersInv, AnswersTyped
<1>5. ASSUME NEW r \in Requests, PluginFinishes(r) PROVE ChannelsInv'
  BY <1>2, <1>5, QuietKeepsOrder DEF PluginFinishes, AnswersInv, AnswersTyped
<1>6. ASSUME NEW s \in Sockets, NEW r \in Requests, AddsRequest(s, r) \/ AddsCancel(s, r)
      PROVE  ChannelsInv'
  BY <1>2, <1>6, RequestKeepsOrder, CancelKeepsOrder
<1>7. ASSUME NEW s \in Sockets, SendOut(s) PROVE ChannelsInv'
  BY <1>2, <1>7, SendingKeepsOrder
<1>8. ChannelsInv'
  BY <1>3, <1>4, <1>5, <1>6, <1>7, ChannelsChange
<1> QED BY <1>1, <1>8 DEF OrderInv, ChannelsInv

LEMMA InitOrder == Init => OrderInv
<1> SUFFICES ASSUME Init PROVE OrderInv
  OBVIOUS
<1>1. Range(<<>>) = {}
  BY DEF Range
<1> QED BY <1>1 DEF Init, OrderInv, CancelsKnown, SweepKnown, FramesKnown, CancelsFollow,
                    WarnedAreOver

LEMMA WarnedStays ==
    ASSUME PlacesInv, CancelsTyped, AnswersInv, OrderInv, [Next]_vars, NEW r \in Requests,
           plugin[r] = "warned"
    PROVE  plugin'[r] = "warned"
<1>1. CASE UNCHANGED plugin
  BY <1>1
<1>2. ASSUME NEW x \in Requests, PluginFinishes(x) PROVE plugin'[r] = "warned"
  BY <1>2 DEF PluginFinishes, AnswersInv, AnswersTyped
<1>3. ASSUME NEW s \in Sockets, SendOut(s) PROVE plugin'[r] = "warned"
  <2>1. Head(outbound[s]) \in Messages /\ Head(outbound[s]) \in Range(outbound[s])
    BY <1>3, TailFacts DEF SendOut, AnswersInv, AnswersTyped
  <2>2. Head(outbound[s]) # <<"request", r>>
    BY <2>1 DEF OrderInv, WarnedAreOver
  <2> QED BY <1>3, <2>1, <2>2 DEF SendOut, AnswersInv, AnswersTyped, Messages
<1> QED BY <1>1, <1>2, <1>3, ChannelsChange DEF AddsRequest, AddsCancel

\* No plugin that was told of a cancel is asked afterwards, however many cancels,
\* deadlines, reconnects and dispatches cross.
THEOREM CancelNeverOvertaken == Spec => CancelIsLast
<1>1. PlacesInv /\ CancelsTyped /\ AnswersInv /\ OrderInv /\ [Next]_vars
      => [\A r \in Requests : plugin[r] = "warned" => plugin'[r] = "warned"]_vars
  BY WarnedStays
<1> QED BY <1>1, InitRegistry, StepKeepsRegistry, InitPlaces, StepKeepsPlaces, InitCancels,
           StepKeepsCancels, InitAnswers, StepPromises, InitOrder, StepKeepsOrder, PTL
        DEF Spec, CancelIsLast

-----------------------------------------------------------------------------
(* The types.                                                              *)

RestTyped == /\ listed \subseteq Sockets
             /\ serve \in {"accepting", "joining", "ended"}
             /\ token \in BOOLEAN
             /\ closer \in {"idle", "cancelled", "drained"}

ChannelsBounded == \A s \in Sockets : Len(outbound[s]) <= CHANNEL

LEMMA StepKeepsRest == RestTyped /\ [Next]_vars => RestTyped'
<1> SUFFICES ASSUME RestTyped, [Next]_vars PROVE RestTyped'
  OBVIOUS
<1> USE DEF RestTyped, tasks
<1>1. CASE UNCHANGED <<listed, serve, token, closer>>
  BY <1>1
<1>2. ASSUME NEW s \in Sockets, ListQueue(s) \/ UnlistQueue(s) PROVE RestTyped'
  BY <1>2 DEF ListQueue, UnlistQueue, Unlisted
<1>3. CASE AcceptFails \/ DrainAndJoin \/ ServeEnds \/ CancelToken \/ DrainPending
  BY <1>3 DEF AcceptFails, DrainAndJoin, ServeEnds, CancelToken, DrainPending, queues
<1>4. ASSUME NEW r \in Requests, Route(r) \/ InvokeStep(r) \/ AbandonWait(r)
      PROVE  UNCHANGED <<listed, serve, token, closer>>
  BY <1>4 DEF Route, InvokeStep, EnqueueCall, Admit, Dispatch, AbandonTicket, AbandonWait, queues
<1>5. ASSUME NEW r \in Requests, CancelRoute(r) \/ CancelStep(r) \/ PluginFinishes(r)
      PROVE  UNCHANGED <<listed, serve, token, closer>>
  BY <1>5 DEF CancelRoute, CancelStep, CancelRemove, CancelTell, PluginFinishes, queues
<1>6. ASSUME NEW s \in Sockets, Promote(s) \/ Hello(s) \/ RejectHello(s) \/ SendOut(s) \/ Stop(s)
      PROVE  UNCHANGED <<listed, serve, token, closer>>
  BY <1>6 DEF Promote, Hello, RejectHello, SendOut, Stop, queues
<1>7. ASSUME NEW s \in Sockets, Register(s) \/ Unregister(s) \/ LosePending(s) \/ LeaveSocket(s)
      PROVE  UNCHANGED <<listed, serve, token, closer>>
  BY <1>7 DEF Register, Unregister, LosePending, LeaveSocket, queues
<1>8. ASSUME NEW s \in Sockets, NEW r \in Requests, Receive(s, r)
      PROVE  UNCHANGED <<listed, serve, token, closer>>
  BY <1>8 DEF Receive
<1>9. CASE SettleNext \/ TakeExpired \/ TellExpired
  BY <1>9 DEF SettleNext, TakeExpired, TellExpired, queues
<1>10. CASE UNCHANGED vars
  BY <1>10 DEF vars
<1> QED BY <1>1, <1>2, <1>3, <1>4, <1>5, <1>6, <1>7, <1>8, <1>9, <1>10
        DEF Next, SocketStep, ServeStep

LEMMA StepKeepsChannels ==
    PlacesInv /\ CancelsTyped /\ AnswersInv /\ OrderInv /\ ChannelsBounded /\ [Next]_vars
    => ChannelsBounded'
<1> SUFFICES ASSUME PlacesInv, CancelsTyped, AnswersInv, OrderInv, ChannelsBounded, [Next]_vars,
                    NEW s \in Sockets
             PROVE  Len(outbound'[s]) <= CHANNEL
  BY DEF ChannelsBounded
<1>1. CASE outbound'[s] = outbound[s]
  BY <1>1 DEF ChannelsBounded
<1>2. ASSUME NEW t \in Sockets, NEW r \in Requests, AddsRequest(t, r) \/ AddsCancel(t, r)
      PROVE  Len(outbound'[s]) <= CHANNEL
  <2>1. PICK type \in {"request", "cancel"} : CanSend(t) /\ Push(t, type, r)
    BY <1>2 DEF AddsRequest, AddsCancel
  <2>2. CASE t # s
    BY <1>1, <2>1, <2>2 DEF Push
  <2>3. CASE t = s
    <3>1. outbound[s] \in Seq(Messages) /\ <<type, r>> \in Messages
      BY DEF AnswersInv, AnswersTyped, Messages
    <3>2. outbound'[s] = Append(outbound[s], <<type, r>>) /\ Len(outbound[s]) < CHANNEL
      BY <2>1, <2>3 DEF Push, CanSend, HasRoom, AnswersInv, AnswersTyped
    <3> QED BY <3>1, <3>2, InstanceAssumption
  <2> QED BY <2>2, <2>3
<1>3. ASSUME NEW t \in Sockets, Return(t) \/ SendOut(t) PROVE Len(outbound'[s]) <= CHANNEL
  <2>1. outbound[s] \in Seq(Messages) /\ CHANNEL \in Nat /\ Len(outbound[s]) <= CHANNEL
    BY InstanceAssumption DEF AnswersInv, AnswersTyped, ChannelsBounded
  <2>2. \/ outbound'[s] = outbound[s] \/ outbound'[s] = <<>>
        \/ outbound[s] # <<>> /\ outbound'[s] = Tail(outbound[s])
    BY <1>3 DEF Return, SendOut, AnswersInv, AnswersTyped
  <2> DEFINE q == outbound[s]
  <2>3. Len(<<>>) = 0 /\ (q # <<>> => Len(Tail(q)) = Len(q) - 1) /\ Len(q) \in Nat
    <3> HIDE DEF q
    <3> QED BY <2>1
  <2>4. CASE outbound'[s] = <<>>
    BY <2>1, <2>3, <2>4
  <2>5. CASE q # <<>> /\ outbound'[s] = Tail(q)
    BY <2>1, <2>3, <2>5
  <2> QED BY <2>1, <2>2, <2>4, <2>5
<1>4. CASE UNCHANGED outbound \/ \E r \in Requests : PluginFinishes(r)
  BY <1>1, <1>4 DEF PluginFinishes
<1> QED BY <1>2, <1>3, <1>4, ChannelsChange

LEMMA InitRest == Init => RestTyped /\ ChannelsBounded
<1>1. 0 <= CHANNEL
  BY InstanceAssumption
<1>2. Init => \A s \in Sockets : outbound[s] = <<>>
  BY DEF Init
<1>3. ASSUME NEW q, q = <<>> PROVE Len(q) <= CHANNEL
  BY <1>1, <1>3
<1>4. Init => ChannelsBounded
  BY <1>2, <1>3 DEF ChannelsBounded
<1> QED BY <1>4 DEF Init, RestTyped

\* The variables keep their types, and no channel holds more than it can.
THEOREM TypeCorrect == Spec => []TypeOK
<1>1. RegistryInv /\ PlacesInv /\ CancelsTyped /\ AnswersInv /\ RestTyped /\ ChannelsBounded
      => TypeOK
  BY DEF RegistryInv, RegistryTyped, PlacesInv, PlacesTyped, CancelsTyped, AnswersInv, AnswersTyped,
         RestTyped, ChannelsBounded, TypeOK, Stages, CallStages, WaitStages, Workers, PluginStages,
         QueueType
<1> QED BY <1>1, InitRegistry, StepKeepsRegistry, InitPlaces, StepKeepsPlaces, InitCancels,
           StepKeepsCancels, InitAnswers, StepPromises, InitOrder, StepKeepsOrder, InitRest,
           StepKeepsRest, StepKeepsChannels, PTL DEF Spec
=============================================================================
