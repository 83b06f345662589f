---------------------------- MODULE IdleLifetime ----------------------------
(***************************************************************************)
(* When a leader may go away: `Activity` of crates/broker/src/lifecycle.rs *)
(* with the leases of frontends and plugins, and `Broker::wait_until_idle` *)
(* (lib.rs), which `Supervisor::shutdown` awaits before it shuts the       *)
(* broker down.                                                            *)
(*                                                                         *)
(* Taking or dropping a lease changes a counter under a mutex and, after   *)
(* releasing it, bumps a watch channel.  The waiter reads the counters,    *)
(* and then awaits the timer or the channel, so every interleaving of the  *)
(* two halves with the waiter's reads is possible.  The generation number  *)
(* in the channel matters only as "has it moved since the waiter looked".  *)
(***************************************************************************)
EXTENDS Naturals, FiniteSets

CONSTANTS Frontends, Plugins   \* connections, each of which may come and go
ASSUME HoldersAssumption == /\ IsFiniteSet(Frontends) /\ IsFiniteSet(Plugins)
                            /\ Frontends \cap Plugins = {}
Holders == Frontends \cup Plugins

VARIABLES
    frontends, plugins,  \* ActivityState.counts
    closing,             \* ActivityState.closing
    unseen,              \* the watch channel moved since the waiter last looked
    lease,               \* where each connection stands
    waiter,              \* where `wait_until_idle` stands
    timer                \* its sleep(grace)
vars == <<frontends, plugins, closing, unseen, lease, waiter, timer>>
counts == <<frontends, plugins>>

Init == /\ frontends = 0 /\ plugins = 0 /\ closing = FALSE /\ unseen = FALSE
        /\ lease = [h \in Holders |-> "none"]
        /\ waiter = "idle" /\ timer = "off"

AddPlugin(h) == plugins' = plugins + 1 /\ UNCHANGED frontends   \* mutant: wrong counter
Add(h) == IF h \in Frontends THEN frontends' = frontends + 1 /\ UNCHANGED plugins
                             ELSE plugins' = plugins + 1 /\ UNCHANGED frontends
Sub(h) == IF h \in Frontends THEN frontends' = frontends - 1 /\ UNCHANGED plugins
                             ELSE plugins' = plugins - 1 /\ UNCHANGED frontends

\* `frontend_lease` and `plugin_lease`: counted under the mutex, unless the
\* broker is closing ...
TakeLease(h) == /\ lease[h] = "none" /\ ~closing
                /\ Add(h)
                /\ lease' = [lease EXCEPT ![h] = "counted"]
                /\ UNCHANGED <<closing, unseen, waiter, timer>>

\* ... and dropped the same way.
DropLease(h) == /\ lease[h] = "held"
                /\ Sub(h)
                /\ lease' = [lease EXCEPT ![h] = "uncounted"]
                /\ UNCHANGED <<closing, unseen, waiter, timer>>

\* `changed`, the second half of both; a plugin's task also calls it when its
\* session is listed and when it has been cleaned up.
ChangedOnTake(h) ==   \* mutant: a drop does not notify
    /\ \/ lease[h] = "counted" /\ lease' = [lease EXCEPT ![h] = "held"] /\ unseen' = TRUE
       \/ lease[h] = "uncounted" /\ lease' = [lease EXCEPT ![h] = "none"] /\ UNCHANGED unseen
    /\ UNCHANGED <<counts, closing, waiter, timer>>
Changed(h) == /\ \/ lease[h] = "counted" /\ lease' = [lease EXCEPT ![h] = "held"]
                 \/ lease[h] = "uncounted" /\ lease' = [lease EXCEPT ![h] = "none"]
                 \/ lease[h] = "held" /\ h \in Plugins /\ UNCHANGED lease
              /\ unseen' = TRUE
              /\ UNCHANGED <<counts, closing, waiter, timer>>

-----------------------------------------------------------------------------
(* wait_until_idle                                                         *)

Subscribe == /\ waiter = "idle"
             /\ waiter' = "reading" /\ unseen' = FALSE
             /\ UNCHANGED <<counts, closing, lease, timer>>

AnyLease == frontends # 0 \/ plugins # 0

ReadCounts == /\ waiter = "reading"
              /\ IF AnyLease
                   THEN waiter' = "busy" /\ UNCHANGED timer
                   ELSE waiter' = "grace" /\ timer' = "running"
              /\ UNCHANGED <<counts, closing, unseen, lease>>

\* The grace runs out; the waiter may not be polled at once.
TimerFires == /\ waiter = "grace" /\ timer = "running"
              /\ timer' = "fired"
              /\ UNCHANGED <<counts, closing, unseen, lease, waiter>>

\* `begin_closing_if_idle` decides under the mutex.
TrustFirstRead == FALSE   \* mutant: the counts read before the sleep are trusted
MustStay == AnyLease
GraceElapsed == /\ waiter = "grace" /\ timer = "fired"
                /\ timer' = "off"
                /\ IF MustStay THEN waiter' = "reading" /\ UNCHANGED closing
                               ELSE waiter' = "returned" /\ closing' = TRUE
                /\ UNCHANGED <<counts, unseen, lease>>

\* `changes.changed()` resolves, inside the select or outside.  When the timer
\* is ready as well, the select picks either.
SeesChange == /\ waiter \in {"grace", "busy"} /\ unseen
              /\ waiter' = "reading" /\ timer' = "off" /\ unseen' = FALSE
              /\ UNCHANGED <<counts, closing, lease>>

Next == \/ \E h \in Holders : TakeLease(h) \/ DropLease(h) \/ Changed(h)
        \/ Subscribe \/ ReadCounts \/ TimerFires \/ GraceElapsed \/ SeesChange

Spec == Init /\ [][Next]_vars

\* The waiter is polled when something it awaits is ready, time passes, and
\* the thread that changed a counter goes on to notify.
Fairness == /\ WF_vars(ReadCounts) /\ WF_vars(TimerFires)
            /\ WF_vars(GraceElapsed \/ SeesChange)
            /\ \A h \in Holders : WF_vars(lease[h] # "held" /\ Changed(h))
FairSpec == Spec /\ Fairness

-----------------------------------------------------------------------------
Counted(h) == lease[h] \in {"counted", "held"}

\* The types; neither counter is ever decremented below zero.
TypeOK == /\ frontends \in Nat /\ plugins \in Nat
          /\ closing \in BOOLEAN /\ unseen \in BOOLEAN
          /\ lease \in [Holders -> {"none", "counted", "held", "uncounted"}]
          /\ waiter \in {"idle", "reading", "busy", "grace", "returned"}
          /\ timer \in {"off", "running", "fired"}

\* The counters are the leases, so their subtraction never saturates (the
\* debug assertions "lease count underflow").
CountsAreLeases == /\ frontends = Cardinality({h \in Frontends : Counted(h)})
                   /\ plugins = Cardinality({h \in Plugins : Counted(h)})

\* Closing is decided with nobody there, and nobody comes afterwards: a
\* frontend or plugin that was let in is never shut out by idleness.
ClosingIsEmpty == /\ closing => \A h \in Holders : ~Counted(h)
                  /\ waiter = "returned" => closing

\* No wake-up is lost: a broker everybody has left is closed in the end.
QuietBrokerCloses == <>[](waiter # "idle" /\ \A h \in Holders : lease[h] = "none") => <>closing
=============================================================================
