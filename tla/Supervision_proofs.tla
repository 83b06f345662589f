------------------------- MODULE Supervision_proofs -------------------------
(***************************************************************************)
(* Roles and ports, for any number of processes.                           *)
(***************************************************************************)
EXTENDS Supervision, TLAPS

\* A connection is one to a bound frontend port, and only a process that joins
\* or follows has one.
LinksAreServed == \A p \in Procs :
    link[p] # None => /\ "frontend" \in up[link[p]]
                      /\ at[p] \in {"joining", "following"}

\* The ports of a process without failures are its role's.
PortsFollowStates == \A p \in Procs :
    /\ at[p] \in {"off", "electing", "rejoining", "binding", "joining", "following", "gone"}
         => up[p] = {}
    /\ at[p] = "bound" => up[p] = {"frontend"}
    /\ at[p] \in {"leading", "quitting"} /\ failures = 0 => up[p] = Ports /\ ~token[p]

\* Whoever is about to close has said so to the frontends.
ClosedIsFlagged == \A p \in Procs : at[p] = "closing" => closing[p] /\ (failures = 0 => ~token[p])

IInv == /\ TypeOK
        /\ LinksAreServed
        /\ PortsFollowStates
        /\ ClosedIsFlagged
        /\ FollowersHaveLeaders
        /\ NoDeadBackend

\* The processes that have not started satisfy all of it.
LEMMA InitIInv == Init => IInv
  BY InstanceAssumption DEF Init, IInv, TypeOK, LinksAreServed, PortsFollowStates, ClosedIsFlagged,
     FollowersHaveLeaders, NoDeadBackend, Hosts, Ports

-----------------------------------------------------------------------------
(* Each action on its own.                                                 *)

USE InstanceAssumption DEF IInv, TypeOK, LinksAreServed, PortsFollowStates, ClosedIsFlagged,
    FollowersHaveLeaders, NoDeadBackend, Hosts, Ports, Go, vars

\* A process starts.
LEMMA StartKeeps == ASSUME IInv, NEW p \in Procs, Start(p) PROVE IInv'
  BY DEF Start

\* A connection is made to whoever bound the frontend port, who has it for now.
LEMMA ConnectKeeps == ASSUME IInv, NEW p \in Procs, Connect(p) PROVE IInv'
  BY DEF Connect, Owner, Free

\* The frontend port is bound, by nobody else.
LEMMA BindFrontendKeeps == ASSUME IInv, NEW p \in Procs, BindFrontend(p) PROVE IInv'
  BY DEF BindFrontend, Owner, Free

\* Both ports make a leader.
LEMMA LeadKeeps == ASSUME IInv, NEW p \in Procs, Lead(p) PROVE IInv'
  BY DEF Lead, Owner, Free

\* One alone is given back.
LEMMA BindPluginKeeps == ASSUME IInv, NEW p \in Procs, BindPlugin(p) PROVE IInv'
<1>1. CASE Lead(p)
  BY <1>1, LeadKeeps
<1>2. CASE ~Free("plugin") /\ Go(p, {"bound"}, "electing") /\ Drop(p, {"frontend"})
           /\ UNCHANGED <<token, closing, cell, failures>>
  BY <1>2 DEF Drop
<1> QED
  BY <1>1, <1>2 DEF BindPlugin

\* A follower's leader leads, and is not about to close.
LEMMA HandshakeKeeps == ASSUME IInv, NEW p \in Procs, Handshake(p) PROVE IInv'
  BY DEF Handshake, Grants

\* A refused process has no connection.
LEMMA HandshakeFailsKeeps == ASSUME IInv, NEW p \in Procs, HandshakeFails(p) PROVE IInv'
  BY DEF HandshakeFails

\* A port that is given up takes its connections with it.
LEMMA ListenerStopsKeeps == ASSUME IInv, NEW p \in Procs, ListenerStops(p) PROVE IInv'
  BY DEF ListenerStops, Drop

\* A dead role leaves no backend.
LEMMA NoticeKeeps == ASSUME IInv, NEW p \in Procs, Notice(p) PROVE IInv'
  BY DEF Notice, Dead

\* The broker of a cleared role can be reached by nobody.
LEMMA ClearBrokerKeeps == ASSUME IInv, NEW p \in Procs, ClearBroker(p) PROVE IInv'
  BY DEF ClearBroker

\* Aborted and drained, a process has no ports and no connections.
LEMMA ClearListenersKeeps == ASSUME IInv, NEW p \in Procs, ClearListeners(p) PROVE IInv'
  BY DEF ClearListeners, Drop

\* A process that ends takes its ports and connections with it.
LEMMA ExitKeeps == ASSUME IInv, NEW p \in Procs, Exit(p) PROVE IInv'
  BY DEF Exit

\* A leader that quits keeps serving.
LEMMA QuitKeeps == ASSUME IInv, NEW p \in Procs, Quit(p) PROVE IInv'
  BY ExitKeeps DEF Quit

\* Only a leader without followers closes.
LEMMA BecomeIdleKeeps == ASSUME IInv, NEW p \in Procs, BecomeIdle(p) PROVE IInv'
  BY DEF BecomeIdle, Followers

\* A closing leader has no followers and detaches first.
LEMMA CloseKeeps == ASSUME IInv, NEW p \in Procs, Close(p) PROVE IInv'
  BY DEF Close

\* A listener that fails takes its connections with it.
LEMMA ListenerFailsKeeps ==
    ASSUME IInv, NEW p \in Procs, NEW port \in Ports, ListenerFails(p, port) PROVE IInv'
  BY DEF ListenerFails, Drop

\* Another program can only take a free port.
LEMMA SquatKeeps == ASSUME IInv, Squat PROVE IInv'
  BY DEF Squat, Drop, Owner, Free

-----------------------------------------------------------------------------
(* The invariant, and what follows from it.                                *)

\* Every step keeps the invariant.
LEMMA NextKeeps == IInv /\ [Next]_vars => IInv'
<1> SUFFICES ASSUME IInv, [Next]_vars PROVE IInv'
  OBVIOUS
<1>1. CASE UNCHANGED vars
  BY <1>1
<1>2. CASE Squat
  BY <1>2, SquatKeeps
<1>3. ASSUME NEW p \in Procs, Start(p) \/ ElectionStep(p) \/ Handshake(p) PROVE IInv'
  BY <1>3, StartKeeps, ConnectKeeps, BindFrontendKeeps, BindPluginKeeps, HandshakeKeeps,
     HandshakeFailsKeeps DEF ElectionStep
<1>4. ASSUME NEW p \in Procs, NEW port \in Ports, ListenerFails(p, port) PROVE IInv'
  BY <1>4, ListenerFailsKeeps
<1>5. ASSUME NEW p \in Procs, Recovery(p) PROVE IInv'
  BY <1>5, ListenerStopsKeeps, NoticeKeeps, ClearBrokerKeeps, ClearListenersKeeps DEF Recovery
<1>6. ASSUME NEW p \in Procs, Quit(p) \/ Crash(p) \/ BecomeIdle(p) \/ WindDown(p) PROVE IInv'
  BY <1>6, QuitKeeps, ExitKeeps, BecomeIdleKeeps, CloseKeeps DEF Crash, WindDown, Leave
<1>7. ASSUME NEW p \in Procs,
             \/ Start(p) \/ ElectionStep(p) \/ Handshake(p)
             \/ \E port \in Ports : ListenerFails(p, port)
             \/ Recovery(p) \/ Quit(p) \/ Crash(p) \/ BecomeIdle(p) \/ WindDown(p)
      PROVE  IInv'
  BY <1>3, <1>4, <1>5, <1>6, <1>7
<1> QED
  BY <1>1, <1>2, <1>7, Zenon DEF Next

\* The invariant holds of every behaviour.
THEOREM Inductive == Spec => []IInv
<1>1. Init => IInv
  BY InitIInv
<1>2. IInv /\ [Next]_vars => IInv'
  BY NextKeeps
<1> QED
  BY <1>1, <1>2, PTL DEF Spec

\* The state of every process, its ports, its connection and its backend have
\* their types, and no more listeners fail than the bound allows.
THEOREM TypeCorrect == Spec => []TypeOK
<1>1. IInv => TypeOK
  OBVIOUS
<1> QED
  BY <1>1, Inductive, PTL

\* However many processes race for the ports, die, fail and recover, nobody
\* connects to itself, and whoever follows follows one that leads.
THEOREM NobodyFollowsAFollower == Spec => []FollowersHaveLeaders
<1>1. IInv => FollowersHaveLeaders
  OBVIOUS
<1> QED
  BY <1>1, Inductive, PTL

\* No election and no loss of a role leaves a port behind.
THEOREM NoPortIsLeft == Spec => []PortsBelongToRoles
<1>1. IInv => PortsBelongToRoles
  BY DEF PortsBelongToRoles
<1> QED
  BY <1>1, Inductive, PTL

\* Calls never reach a broker whose role is over.
THEOREM BackendsAreAlive == Spec => []NoDeadBackend
<1>1. IInv => NoDeadBackend
  OBVIOUS
<1> QED
  BY <1>1, Inductive, PTL

\* A leader that has decided to close has no follower, and gets none, for any
\* number of processes.
THEOREM ClosingAbandonsNobody == Spec => []ClosingHasNoFollowers
<1>1. IInv => ClosingHasNoFollowers
  BY DEF ClosingHasNoFollowers, Followers
<1> QED
  BY <1>1, Inductive, PTL
=============================================================================
