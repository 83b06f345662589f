----------------------------- MODULE Supervision -----------------------------
(***************************************************************************)
(* Several processes of one user, two loopback ports: `elect` (crates/     *)
(* broker/src/election.rs), `Supervisor` (supervisor.rs) and `runtime::run`*)
(* which drives it.  Whoever binds the frontend port and then the plugin   *)
(* port leads; the others connect to the frontend port and follow.         *)
(*                                                                         *)
(* A listener is a task that owns a port.  When the task that owns the     *)
(* frontend port ends, the connections it accepted, and those in its       *)
(* backlog, end with it.  A connect succeeds as soon as the port is bound, *)
(* long before anybody serves it, and whoever bound it: another program,   *)
(* or the very process that connects, if it has not quite let go of it.    *)
(*                                                                         *)
(* Delays are abstract: a process that waits to retry may go on at once.   *)
(* The optional IPv6 listener changes none of this and is left out.        *)
(***************************************************************************)
EXTENDS Naturals, FiniteSets

CONSTANTS Procs,
          Foreign,    \* some other program
          MaySquat,   \* whether it may hold a port
          FAILURES,   \* bound: how many listeners fail while their process lives
          None
ASSUME InstanceAssumption == /\ Foreign \notin Procs /\ None \notin Procs \cup {Foreign}
                             /\ MaySquat \in BOOLEAN /\ FAILURES \in Nat

Ports == {"frontend", "plugin"}
Hosts == Procs \cup {Foreign}

VARIABLES
    at,      \* where each process stands
    up,      \* the ports each host listens on
    link,    \* the host each process is connected to
    token,   \* the shutdown token of each process's broker is cancelled
    closing, \* ... and its ActivityState.closing
    cell,    \* BrokerClient.backend
    failures \* how many listeners have failed
vars == <<at, up, link, token, closing, cell, failures>>

Init == /\ at = [p \in Procs |-> "off"]
        /\ up = [h \in Hosts |-> {}] /\ link = [p \in Procs |-> None]
        /\ token = [p \in Procs |-> FALSE] /\ closing = [p \in Procs |-> FALSE]
        /\ cell = [p \in Procs |-> "none"] /\ failures = 0

Go(p, from, to) == at[p] \in from /\ at' = [at EXCEPT ![p] = to]
Owner(port) == {h \in Hosts : port \in up[h]}
Free(port) == Owner(port) = {}

\* h stops listening on some ports; whoever was connected to its frontend
\* port is not any more.
Drop(h, ports) ==
    /\ up' = [up EXCEPT ![h] = @ \ ports]
    /\ link' = [p \in Procs |-> IF "frontend" \in ports /\ link[p] = h THEN None ELSE link[p]]

-----------------------------------------------------------------------------
(* The election.                                                           *)

Start(p) == Go(p, {"off"}, "electing") /\ UNCHANGED <<up, link, token, closing, cell, failures>>

\* The first connect of `elect`, and the one after a bind that found the
\* address in use.  A refusal there is retried, until the deadline.
Connect(p) ==
    /\ at[p] \in {"electing", "rejoining"}
    /\ \/ \E h \in Owner("frontend") : /\ link' = [link EXCEPT ![p] = h]
                                       /\ at' = [at EXCEPT ![p] = "joining"]
       \/ /\ Free("frontend") /\ UNCHANGED link
          /\ \/ at' = [at EXCEPT ![p] = "binding"]
             \/ at[p] = "rejoining" /\ at' = [at EXCEPT ![p] = "electing"]
    /\ UNCHANGED <<up, token, closing, cell, failures>>

BindFrontendShared(p) ==   \* mutant: the address may be bound while another listens on it
    /\ Go(p, {"binding"}, "bound") /\ up' = [up EXCEPT ![p] = {"frontend"}]
    /\ UNCHANGED <<link, token, closing, cell, failures>>
BindFrontend(p) ==
    /\ \/ Free("frontend") /\ Go(p, {"binding"}, "bound") /\ up' = [up EXCEPT ![p] = {"frontend"}]
       \/ ~Free("frontend") /\ Go(p, {"binding"}, "rejoining") /\ UNCHANGED up
    /\ UNCHANGED <<link, token, closing, cell, failures>>

\* With both ports a new broker is made, its lease taken, its listeners
\* spawned and the backend installed.  Without the second, the first is
\* dropped again.
Lead(p) == /\ Free("plugin") /\ Go(p, {"bound"}, "leading")
           /\ up' = [up EXCEPT ![p] = Ports] /\ cell' = [cell EXCEPT ![p] = "local"]
           /\ token' = [token EXCEPT ![p] = FALSE] /\ closing' = [closing EXCEPT ![p] = FALSE]
           /\ UNCHANGED <<link, failures>>
BindPluginKeeping(p) ==   \* mutant: the frontend listener survives the error
    \/ Lead(p)
    \/ /\ ~Free("plugin") /\ Go(p, {"bound"}, "electing")
       /\ UNCHANGED <<up, link, token, closing, cell, failures>>
BindPlugin(p) ==
    \/ Lead(p)
    \/ /\ ~Free("plugin") /\ Go(p, {"bound"}, "electing")
       /\ Drop(p, {"frontend"}) /\ UNCHANGED <<token, closing, cell, failures>>

\* Whether h answers a hello with Ready: its listener task runs and its broker
\* grants a lease.
GrantsAlways(h) == h \in Procs /\ at[h] \in {"leading", "quitting", "closing"} /\ ~token[h]   \* mutant
Grants(h) == /\ h \in Procs /\ at[h] \in {"leading", "quitting", "closing"}
             /\ ~token[h] /\ ~closing[h]

Handshake(p) == /\ Go(p, {"joining"}, "following") /\ Grants(link[p])
                /\ cell' = [cell EXCEPT ![p] = "remote"]
                /\ UNCHANGED <<up, link, token, closing, failures>>

\* The connection ended, the hello was rejected, or there was no answer in time.
HandshakeFails(p) == /\ Go(p, {"joining"}, "electing") /\ link' = [link EXCEPT ![p] = None]
                     /\ UNCHANGED <<up, token, closing, cell, failures>>

-----------------------------------------------------------------------------
(* Deaths.                                                                 *)

\* An accept fails.  The plugin server cancels the broker's token, the
\* frontend server just returns and drops its connections.
ListenerFails(p, port) ==
    /\ failures < FAILURES /\ failures' = failures + 1 /\ at[p] \in {"leading", "quitting"} /\ port \in up[p]
    /\ Drop(p, {port}) /\ token' = [token EXCEPT ![p] = @ \/ port = "plugin"]
    /\ UNCHANGED <<at, closing, cell>>

\* A listener sees the token.
ListenerStops(p) == /\ token[p] /\ at[p] # "bound"
                    /\ \E port \in up[p] : Drop(p, {port})
                    /\ UNCHANGED <<at, token, closing, cell, failures>>

\* `supervise` sees a leader's listener end, or a follower's connection close:
\* the role is cleared and the client detached.
Dead(p) == \/ at[p] = "leading" /\ up[p] # Ports
           \/ at[p] = "following" /\ link[p] = None
Notice(p) ==
    /\ Dead(p)
    /\ at' = [at EXCEPT ![p] = IF @ = "leading" THEN "clearing" ELSE "electing"]
    /\ cell' = [cell EXCEPT ![p] = "none"]
    /\ UNCHANGED <<up, link, token, closing, failures>>

\* `broker.shutdown`, then `listeners.shutdown`, which returns only when every
\* listener is dropped.
ClearBroker(p) == /\ Go(p, {"clearing"}, "aborting") /\ token' = [token EXCEPT ![p] = TRUE]
                  /\ UNCHANGED <<up, link, closing, cell, failures>>
ClearUndrained(p) ==   \* mutant: the listeners are aborted and not awaited
    /\ Go(p, {"aborting"}, "electing") /\ UNCHANGED <<up, link, token, closing, cell, failures>>
ClearListeners(p) == /\ Go(p, {"aborting"}, "electing") /\ Drop(p, Ports)
                     /\ UNCHANGED <<token, closing, cell, failures>>

-----------------------------------------------------------------------------
(* The end of a process.                                                   *)

\* The connection of p, and whatever p listens on, end with it.
Exit(p) == /\ up' = [up EXCEPT ![p] = {}]
           /\ link' = [q \in Procs |-> IF q = p \/ link[q] = p THEN None ELSE link[q]]
           /\ at' = [at EXCEPT ![p] = "gone"] /\ cell' = [cell EXCEPT ![p] = "none"]
           /\ UNCHANGED <<token, closing, failures>>

\* The client closes stdio, and `run` drops `supervise` wherever it stands.
\* Only a leader has something to wind down; it drops its lease and waits.
Quit(p) == \/ /\ at[p] = "leading" /\ Go(p, {"leading"}, "quitting")
              /\ UNCHANGED <<up, link, token, closing, cell, failures>>
           \/ at[p] \notin {"off", "gone", "leading", "quitting", "closing", "draining"} /\ Exit(p)

Crash(p) == at[p] \notin {"off", "gone"} /\ Exit(p)

\* Nobody holds a lease at the end of the grace (see IdleLifetime): the broker
\* is closed to everybody.
Followers(p) == {q \in Procs : at[q] = "following" /\ link[q] = p}
BecomeIdle(p) == /\ Followers(p) = {} /\ Go(p, {"quitting"}, "closing")
                 /\ closing' = [closing EXCEPT ![p] = TRUE]
                 /\ UNCHANGED <<up, link, token, cell, failures>>

\* The client is detached, and the broker shut down; then the listeners, which
\* see the token, are joined.
CloseAttached(p) ==   \* mutant: the client is left attached
    /\ Go(p, {"closing"}, "draining") /\ token' = [token EXCEPT ![p] = TRUE]
    /\ UNCHANGED <<up, link, closing, cell, failures>>
Close(p) == /\ Go(p, {"closing"}, "draining") /\ token' = [token EXCEPT ![p] = TRUE]
            /\ cell' = [cell EXCEPT ![p] = "none"]
            /\ UNCHANGED <<up, link, closing, failures>>
Leave(p) == at[p] = "draining" /\ up[p] = {} /\ Exit(p)

Squat == /\ MaySquat
         /\ \E port \in Ports :
              \/ Free(port) /\ up' = [up EXCEPT ![Foreign] = @ \cup {port}] /\ UNCHANGED link
              \/ port \in up[Foreign] /\ Drop(Foreign, {port})
         /\ UNCHANGED <<at, token, closing, cell, failures>>

-----------------------------------------------------------------------------
ElectionStep(p) == Connect(p) \/ BindFrontend(p) \/ BindPlugin(p) \/ HandshakeFails(p)
Recovery(p) == ListenerStops(p) \/ Notice(p) \/ ClearBroker(p) \/ ClearListeners(p)
WindDown(p) == Close(p) \/ Leave(p)

Next == \/ \E p \in Procs : \/ Start(p) \/ ElectionStep(p) \/ Handshake(p)
                            \/ (\E port \in Ports : ListenerFails(p, port))
                            \/ Recovery(p) \/ Quit(p) \/ Crash(p) \/ BecomeIdle(p) \/ WindDown(p)
        \/ Squat

Spec == Init /\ [][Next]_vars

\* Every process goes on.  A hello that is answered whenever it is sent is
\* answered in time at last.  Nothing makes a process start, quit, crash or
\* fail, and nothing makes the plugins of a leader that wants to quit leave it.
Fairness == \A p \in Procs : /\ WF_vars(ElectionStep(p)) /\ SF_vars(Handshake(p))
                             /\ WF_vars(ListenerStops(p)) /\ WF_vars(Recovery(p))
                             /\ WF_vars(WindDown(p))
FairSpec == Spec /\ Fairness

-----------------------------------------------------------------------------
\* The types, and nobody shares a port.
TypeOK ==
    /\ \A g, h \in Hosts : up[g] \cap up[h] # {} => g = h
    /\ at \in [Procs -> {"off", "electing", "rejoining", "binding", "bound", "joining", "leading",
                         "following", "clearing", "aborting", "quitting", "closing", "draining",
                         "gone"}]
    /\ up \in [Hosts -> SUBSET Ports] /\ link \in [Procs -> Hosts \cup {None}]
    /\ token \in [Procs -> BOOLEAN] /\ closing \in [Procs -> BOOLEAN]
    /\ cell \in [Procs -> {"none", "local", "remote"}] /\ failures \in 0..FAILURES

\* Nobody ends up connected to itself, and whoever follows follows a process
\* that has led and not yet let go: followers form no chains and no cycles.
FollowersHaveLeaders == \A p \in Procs :
    /\ link[p] # p
    /\ at[p] = "following" /\ link[p] # None
         => link[p] \in Procs /\ at[link[p]] \in {"leading", "quitting", "clearing", "aborting"}

\* No election, failed or lost, leaves a port behind that its process does not
\* serve, and no role loses one unnoticed except to a failure.
PortsBelongToRoles == \A p \in Procs :
    /\ at[p] \in {"off", "electing", "rejoining", "binding", "joining", "following", "gone"}
         => up[p] = {}
    /\ at[p] = "bound" => up[p] = {"frontend"}
    /\ at[p] \in {"leading", "quitting"} /\ failures = 0 => up[p] = Ports

\* The calls of a process reach a broker only while its role lasts, and never
\* one that the supervisor itself has shut down.
NoDeadBackend == \A p \in Procs :
    /\ cell[p] = "local" => /\ at[p] \in {"leading", "quitting", "closing"}
                            /\ failures = 0 => ~token[p]
    /\ cell[p] = "remote" => at[p] = "following"

\* A leader that has decided to close abandons nobody: it has no followers,
\* and gets none.
ClosingHasNoFollowers == \A p \in Procs :
    at[p] \in {"closing", "draining", "gone"} => Followers(p) = {}

\* Whoever looks for a role finds one, unless another program takes a port, or
\* a leader that is quitting has lost a listener: nobody supervises it any more, and until its plugins leave
\* it may keep the one port while it does not serve the other.
Looking(p) == at[p] \in {"electing", "rejoining", "binding", "bound", "joining"}
Stranded(p) == at[p] = "quitting" /\ up[p] # Ports
Converges == \A p \in Procs :
    Looking(p) ~> ~Looking(p) \/ up[Foreign] # {} \/ \E q \in Procs : Stranded(q)
=============================================================================
