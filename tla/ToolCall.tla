------------------------------ MODULE ToolCall ------------------------------
(***************************************************************************)
(* The calls of one process's MCP service (crates/tools/src/dispatch.rs)   *)
(* through its `BrokerClient` (crates/broker/src/client.rs), while the     *)
(* supervisor takes backends in and out under them.                        *)
(*                                                                         *)
(* A backend is named by the order in which it is installed: the broker of *)
(* this process, or a connection to the leader of another.  A call holds   *)
(* the backend it was opened with, whatever the cell holds afterwards.     *)
(* What becomes of it there is the matter of Broker and FrontendRpc; here  *)
(* its entry runs, until the backend answers, or is told to stop.          *)
(*                                                                         *)
(* Time is abstract: a timer may fire whenever it runs.                    *)
(***************************************************************************)
EXTENDS Integers

CONSTANTS
    Calls,
    BACKENDS,   \* bound: backends installed in the life of the process
    PROGRESS    \* bound: progress that reaches one caller

ASSUME BoundsAssumption == BACKENDS \in Nat \ {0} /\ PROGRESS \in Nat

Backends == 1..BACKENDS

VARIABLES
    cell,        \* BrokerClient.backend: a backend, or 0 for None
    generation,  \* the value of its `installed` channel
    supervisor,  \* what the supervisor does to the cell
    kind,        \* "local" or "remote", for each backend
    status,      \* "none", "serving", "failed" or, for a broker, "shutdown"
    at,          \* where each call stands, its outcome included
    seen,        \* the generation its receiver of `installed` has seen
    call         \* its OpenCall and the broker's entry for it
backing == <<cell, generation, supervisor, kind, status>>
vars == <<backing, at, seen, call>>

Outcomes == {"value", "refused", "failed", "lost", "cancelled", "timeout"}

NewCall == [op       |-> "invoke",
            backend  |-> 0,        \* the one it was opened with; OpenCall.owner when local
            token    |-> FALSE,    \* the MCP request is cancelled
            abort    |-> FALSE,    \* OpenCall.abort is cancelled
            watcher  |-> "none",   \* OpenCall.watcher, for a remote call
            frame    |-> FALSE,    \* a Cancel is on its way to the leader
            entry    |-> "none",   \* "running", "orphan" when nobody serves it, "gone"
            result   |-> "none",   \* OpenCall.result
            emitted  |-> 0,        \* progress emitted so far, and still unread
            unread   |-> 0]

Init == /\ cell = 0 /\ generation = 0 /\ supervisor = "idle"
        /\ kind = [b \in Backends |-> "local"] /\ status = [b \in Backends |-> "none"]
        /\ at = [c \in Calls |-> "idle"] /\ seen = [c \in Calls |-> 0]
        /\ call = [c \in Calls |-> NewCall]

-----------------------------------------------------------------------------
(* The supervisor.                                                         *)

\* `install`: the cell is written, then its receivers are told.
WriteCell ==
    /\ supervisor = "idle" /\ supervisor' = "installing"
    /\ \E b \in Backends, k \in {"local", "remote"} :
          /\ status[b] = "none" /\ \A a \in Backends : a < b => status[a] # "none"
          /\ cell' = b /\ kind' = [kind EXCEPT ![b] = k]
          /\ status' = [status EXCEPT ![b] = "serving"]
    /\ UNCHANGED <<generation, at, seen, call>>
AnnounceOnce == /\ supervisor = "installing" /\ supervisor' = "installed"
                /\ generation' = 1     \* mutant: only the first election is announced
                /\ UNCHANGED <<cell, kind, status, at, seen, call>>
Announce == /\ supervisor = "installing" /\ supervisor' = "installed"
            /\ generation' = generation + 1
            /\ UNCHANGED <<cell, kind, status, at, seen, call>>

\* Calls end with a code as their backend goes away, in one sweep.
Pending(c) == call[c].entry \in {"running", "orphan"}
Dropped(b) == [c \in Calls |-> IF call[c].backend = b /\ Pending(c)
                               THEN [call[c] EXCEPT !.entry = "gone", !.result = "lost",
                                                    !.frame = FALSE]
                               ELSE call[c]]

\* A listener ends, and the broker limps on; or the connection closes, and
\* `client_loop` drops what it expects.
RoleDies ==
    /\ supervisor = "installed" /\ supervisor' = "dying"
    /\ status' = [status EXCEPT ![cell] = "failed"]
    /\ call' = IF kind[cell] = "local" THEN call ELSE Dropped(cell)
    /\ UNCHANGED <<cell, generation, kind, at, seen>>
Detach == /\ supervisor = "dying" /\ supervisor' = "detached" /\ cell' = 0
          /\ UNCHANGED <<generation, kind, status, at, seen, call>>
WindDown ==
    /\ supervisor = "detached" /\ supervisor' = "idle"
    /\ LET failed == {b \in Backends : status[b] = "failed" /\ kind[b] = "local"}
       IN IF failed = {} THEN UNCHANGED <<status, call>>
          ELSE \E b \in failed : /\ status' = [status EXCEPT ![b] = "shutdown"]
                                 /\ call' = Dropped(b)
    /\ UNCHANGED <<cell, generation, kind, at, seen>>

-----------------------------------------------------------------------------
(* A call, until it has a backend.                                         *)

Goes(c, from, to) == at[c] = from /\ at' = [at EXCEPT ![c] = to]

\* `execute` gets to `backend_ready`, which subscribes before it reads.
Subscribe(c) ==
    /\ Goes(c, "idle", "subscribed") /\ seen' = [seen EXCEPT ![c] = generation]
    /\ \E op \in {"invoke", "list"} : call' = [call EXCEPT ![c].op = op]
    /\ UNCHANGED backing

ReadCell(c) ==
    /\ IF cell = 0 THEN Goes(c, "subscribed", "waiting") /\ UNCHANGED call
       ELSE Goes(c, "subscribed", "opening") /\ call' = [call EXCEPT ![c].backend = cell]
    /\ UNCHANGED <<backing, seen>>

\* `changed` resolves, and the cell is read again: it may be empty once more.
Told(c) == seen[c] # generation
Wake(c) == /\ Told(c) /\ Goes(c, "waiting", "subscribed")
           /\ seen' = [seen EXCEPT ![c] = generation]
           /\ UNCHANGED <<backing, call>>

\* BACKEND_READY_MS pass, or the request is cancelled.  A backend has the
\* precedence over either.
GiveUp(c) == /\ ~Told(c)
             /\ \/ Goes(c, "waiting", "lost")
                \/ call[c].token /\ Goes(c, "waiting", "cancelled")
             /\ UNCHANGED <<backing, seen, call>>

\* The client cancels the MCP request, at any time.
CancelRequest(c) == /\ at[c] \notin Outcomes \cup {"idle"} /\ ~call[c].token
                    /\ call' = [call EXCEPT ![c].token = TRUE]
                    /\ UNCHANGED <<backing, at, seen>>

-----------------------------------------------------------------------------
(* Opening it.                                                             *)

Uses(c, k) == call[c].backend # 0 /\ kind[call[c].backend] = k
IsLocal(c)  == Uses(c, "local")
IsRemote(c) == Uses(c, "remote")
Health(c)   == status[call[c].backend]

\* `local_open`: files are listed on the spot, whatever has become of the
\* broker.  An invocation may find no plugin or no room; after a shutdown, a
\* session that is not yet cleaned up may take it and never serve it.
OpenLocally(c) ==
    /\ IsLocal(c)
    /\ IF call[c].op = "list"
       THEN Goes(c, "opening", "open") /\ call' = [call EXCEPT ![c].result = "value"]
       ELSE \/ Goes(c, "opening", "refused") /\ UNCHANGED call
            \/ /\ Goes(c, "opening", "open")
               /\ call' = [call EXCEPT ![c].entry =
                             IF Health(c) = "shutdown" THEN "orphan" ELSE "running"]
    /\ UNCHANGED <<backing, seen>>

\* `FrontendClient::open`, and `call` for a list, which watches for itself.
OpenRemotely(c) ==
    /\ IsRemote(c)
    /\ IF Health(c) = "serving"
       THEN /\ Goes(c, "opening", "open")
            /\ call' = [call EXCEPT ![c].entry = "running",
                          ![c].watcher = IF call[c].op = "list" THEN "none" ELSE "armed"]
       ELSE Goes(c, "opening", "lost") /\ UNCHANGED call
    /\ UNCHANGED <<backing, seen>>

-----------------------------------------------------------------------------
(* What becomes of it at its backend.                                      *)

\* An answer, an error of the plugin or of the broker, or the broker's own
\* timeout.  A leader that serves answers a list.
Answer(c) == /\ call[c].entry = "running"
             /\ \E r \in {"value", "failed"} :
                   call' = [call EXCEPT ![c].entry = "gone", ![c].result = r]
             /\ UNCHANGED <<backing, at, seen>>

\* Progress finds room in the call's channel; a list has no use for any.
Emit(c) == /\ call[c].entry = "running" /\ call[c].op = "invoke" /\ call[c].emitted < PROGRESS
           /\ call' = [call EXCEPT ![c].emitted = @ + 1, ![c].unread = @ + 1]
           /\ UNCHANGED <<backing, at, seen>>

-----------------------------------------------------------------------------
(* `wait_for_result`, and the loop in `call`.                              *)

\* The result comes first.  With it the OpenCall is dropped, and with that a
\* watcher that has nothing to do is aborted.
TakeResultOnly(c) ==   \* mutant: the watcher is left alone
    /\ \E outcome \in Outcomes : call[c].result = outcome /\ Goes(c, "open", outcome)
    /\ UNCHANGED <<backing, seen, call>>
TakeResult(c) ==
    /\ \E outcome \in Outcomes : call[c].result = outcome /\ Goes(c, "open", outcome)
    /\ call' = [call EXCEPT ![c].watcher = IF @ = "armed" THEN "done" ELSE @]
    /\ UNCHANGED <<backing, seen>>

TakeUnread(c) ==   \* mutant: it takes what was not emitted
    /\ at[c] = "open" /\ call[c].result = "none"
    /\ call' = [call EXCEPT ![c].unread = @ - 1]
    /\ UNCHANGED <<backing, at, seen>>
TakeProgress(c) == /\ at[c] = "open" /\ call[c].result = "none" /\ call[c].unread > 0
                   /\ call' = [call EXCEPT ![c].unread = @ - 1]
                   /\ UNCHANGED <<backing, at, seen>>

\* The invocation is given up only with nothing else to take; the choice in
\* `call` is not biased.  The watcher of a remote call is let go, to tell the
\* leader; a local call, and a remote list, are not left before that is done.
AbandonAndAbort(c, during, outcome) ==   \* mutant: the watcher is aborted all the same
    /\ call[c].op = "invoke" => call[c].result = "none" /\ call[c].unread = 0
    /\ IF call[c].watcher = "armed"
       THEN /\ Goes(c, "open", outcome)
            /\ call' = [call EXCEPT ![c].abort = TRUE, ![c].watcher = "done"]
       ELSE Goes(c, "open", during) /\ call' = [call EXCEPT ![c].abort = TRUE]
    /\ UNCHANGED <<backing, seen>>
Abandon(c, during, outcome) ==
    /\ call[c].op = "invoke" => call[c].result = "none" /\ call[c].unread = 0
    /\ IF call[c].watcher = "armed"
       THEN /\ Goes(c, "open", outcome)
            /\ call' = [call EXCEPT ![c].abort = TRUE, ![c].watcher = "sending"]
       ELSE Goes(c, "open", during) /\ call' = [call EXCEPT ![c].abort = TRUE]
    /\ UNCHANGED <<backing, seen>>
SeeCancel(c) == call[c].token /\ Abandon(c, "cancelling", "cancelled")
\* The inactivity timer, or the total one; a list has none.
Expire(c) == call[c].op = "invoke" /\ Abandon(c, "expiring", "timeout")

\* `owner.cancel`: the entry is removed, if the session can still be routed to.
Left(c) == \/ Goes(c, "cancelling", "cancelled")
           \/ Goes(c, "expiring", "timeout")
CancelAtOwner(c) ==
    /\ IsLocal(c) /\ Left(c)
    /\ \/ call[c].entry # "running" /\ UNCHANGED call
       \/ Pending(c) /\ call' = [call EXCEPT ![c].entry = "gone"]
    /\ UNCHANGED <<backing, seen>>

\* The watcher, or `call` itself, has `client_loop` send a Cancel.
SendCancel(c) ==
    /\ IsRemote(c)
    /\ \/ /\ call[c].watcher = "sending"
          /\ call' = [call EXCEPT ![c].watcher = "done", ![c].frame = Health(c) = "serving"]
          /\ UNCHANGED at
       \/ Left(c) /\ call' = [call EXCEPT ![c].frame = Health(c) = "serving"]
    /\ UNCHANGED <<backing, seen>>
CancelArrives(c) ==
    /\ call[c].frame
    /\ call' = [call EXCEPT ![c].frame = FALSE,
                            ![c].entry = IF @ = "running" THEN "gone" ELSE @]
    /\ UNCHANGED <<backing, at, seen>>

-----------------------------------------------------------------------------
Supervise == Announce \/ Detach \/ WindDown
CallerStep(c) == ReadCell(c) \/ Wake(c) \/ GiveUp(c) \/ OpenLocally(c) \/ OpenRemotely(c)
                 \/ TakeResult(c) \/ TakeProgress(c) \/ CancelAtOwner(c)
Watch(c) == SendCancel(c) \/ CancelArrives(c)
List(c)  == call[c].op = "list" /\ Answer(c)

Next == \/ WriteCell \/ RoleDies \/ Supervise
        \/ \E c \in Calls : \/ Subscribe(c) \/ CancelRequest(c) \/ CallerStep(c) \/ Watch(c)
                            \/ Answer(c) \/ Emit(c) \/ SeeCancel(c) \/ Expire(c)

Spec == Init /\ [][Next]_vars

\* Tasks that can run do, frames arrive, and timers that run fire.  A leader
\* lists its files, or its connection closes; nobody has to answer an
\* invocation, to elect a role or to cancel a request.
Fairness == /\ WF_vars(Supervise)
            /\ \A c \in Calls : /\ WF_vars(CallerStep(c)) /\ WF_vars(Watch(c))
                                /\ WF_vars(List(c))
                                /\ WF_vars(SeeCancel(c)) /\ WF_vars(Expire(c))
FairSpec == Spec /\ Fairness

-----------------------------------------------------------------------------
Places == {"idle", "subscribed", "waiting", "opening", "open", "cancelling", "expiring"}

OpenCalls == [op : {"invoke", "list"}, backend : {0} \cup Backends,
              token : BOOLEAN, abort : BOOLEAN,
              watcher : {"none", "armed", "sending", "done"}, frame : BOOLEAN,
              entry : {"none", "running", "orphan", "gone"},
              result : {"none", "value", "failed", "lost"},
              emitted : 0..PROGRESS, unread : 0..PROGRESS]

\* The types; what is unread was emitted, and a call past its opening has a backend.
TypeOK ==
    /\ cell \in {0} \cup Backends /\ generation \in Nat
    /\ supervisor \in {"idle", "installing", "installed", "dying", "detached"}
    /\ (cell = 0) = (supervisor \in {"idle", "detached"})
    /\ kind \in [Backends -> {"local", "remote"}]
    /\ status \in [Backends -> {"none", "serving", "failed", "shutdown"}]
    /\ at \in [Calls -> Places \cup Outcomes] /\ seen \in [Calls -> Nat]
    /\ call \in [Calls -> OpenCalls]
    /\ \A c \in Calls :
          /\ call[c].unread <= call[c].emitted
          /\ call[c].backend = 0 =>
                /\ at[c] \in {"idle", "subscribed", "waiting", "lost", "cancelled"}
                /\ call[c].watcher = "none" /\ call[c].entry = "none" /\ ~call[c].frame

\* A call that waits for a backend, while one is installed and announced, is
\* told of it: an install between the subscription and the read, or between
\* the read and the wait, is not missed (client.rs:202-210).
NoWaiterMissesABackend ==
    \A c \in Calls : at[c] = "waiting" /\ cell # 0 /\ supervisor # "installing" => Told(c)

\* A call that was given up, by its client or by a timer, stops at the backend
\* it was opened with, whatever is installed by then and although nobody
\* answers there (client.rs:26-34, :45-58).
AbandonedIsCancelled == \A c \in Calls : call[c].abort ~> call[c].entry # "running"

\* Every call ends, whatever the backends do and when, and leaves no watcher
\* behind (client.rs:35-42, dispatch.rs:63).
NothingIsLeftWaiting ==
    \A c \in Calls : at[c] # "idle" ~> at[c] \in Outcomes /\ call[c].watcher \in {"none", "done"}
=============================================================================
