------------------------------- MODULE Broker -------------------------------
(***************************************************************************)
(* The leader's broker: `BrokerState` (crates/broker/src/lib.rs), the      *)
(* tasks of the plugin WebSocket server that change it (ws.rs), and the    *)
(* callers of `Broker::invoke`, `Broker::cancel` and `Broker::shutdown`.   *)
(*                                                                         *)
(* The state is guarded by three independent async mutexes: `registry`,    *)
(* `pending` and `queues`; every queue has a mutex of its own.  An action  *)
(* is what a task does under one acquisition of one of them.  Between two  *)
(* actions of one task every other task may run, which is where this code  *)
(* is hard: a call is routed, given a place in the queue and made pending  *)
(* in three steps, a socket registers in two and leaves in four, a cancel  *)
(* takes three, an expiry two.                                             *)
(*                                                                         *)
(* Time is abstract: an entry that is pending may expire at any moment.    *)
(* Requests name the calls; the code gives each a fresh UUID, so the       *)
(* duplicate check of `admit` cannot fail.                                 *)
(***************************************************************************)
EXTENDS SlotQueue

CONSTANTS
    Conns,        \* connection ids that plugins announce in their hello
    Sockets,      \* WebSocket connections, each with a fresh socket id
    ConnOf,       \* the id the plugin behind a socket announces
    Requests,     \* calls of `invoke`
    TargetOf,     \* the connection a call is addressed to
    Cancellable,  \* the calls whose owner may call `cancel`
    Abandonable,  \* the calls whose `invoke` future may be dropped half way
    Oversized,    \* the calls whose request exceeds MAX_ENVELOPE_BYTES
    CHANNEL,      \* capacity of a socket's outbound channel (config.rs: 16)
    MayShutDown,  \* whether `shutdown` is ever called in this instance
    None

ASSUME InstanceAssumption ==
    /\ ConnOf \in [Sockets -> Conns] /\ TargetOf \in [Requests -> Conns]
    /\ Cancellable \cup Abandonable \cup Oversized \subseteq Requests
    /\ CHANNEL \in Nat \ {0} /\ MayShutDown \in BOOLEAN
    /\ None \notin Sockets \cup Conns \cup Requests

VARIABLES
    sessions,   \* SessionRegistry.sessions: connection id -> its socket
    sockets,    \* SessionRegistry.sockets: socket id -> its connection id
    listed,     \* keys of BrokerState.queues
    queue,      \* the SessionQueue of each socket, alive while anyone holds it
    pending,    \* keys of PendingMap.requests
    settling,   \* the entries a thread inside `remove_matching` or `take_expired` has still to remove
    sock,       \* where each `handle_socket` task stands
    outbound,   \* each socket's outbound channel
    call,       \* where each `invoke` stands, and the socket it was routed to
    wait,       \* the DispatchWait channel of each call, as in SessionQueue
    answer,     \* what each call was answered
    canceller,  \* where each `cancel` stands, and the socket it was routed to
    sweep,      \* expired entries whose plugin has still to be told
    serve,      \* where `ws::serve` stands
    token,      \* BrokerState.shutdown, the CancellationToken
    closer,     \* where `Broker::shutdown` stands
    plugin,     \* what the plugin knows of each request
    asked       \* history: the calls whose request entered an outbound channel

registry == <<sessions, sockets>>
queues   == <<listed, queue, wait>>
settled  == <<pending, settling, answer>>
tasks    == <<sock, call, canceller, sweep, serve, closer>>
vars == <<sessions, sockets, listed, queue, pending, settling, sock, outbound, call,
          wait, answer, canceller, sweep, serve, token, closer, plugin, asked>>

Entry == Sockets \X Requests
Answers == {"none", "answered", "not_found", "limit", "lost", "cancelled", "timeout"}
Messages == {"request", "cancel"} \X Requests

Idle == [todo |-> {}, kind |-> "none", by |-> None]

Init == /\ sessions = [c \in Conns |-> None]
        /\ sockets = [s \in Sockets |-> None]
        /\ listed = {}
        /\ queue = [s \in Sockets |-> EmptyQueue]
        /\ pending = {}
        /\ settling = Idle
        /\ sock = [s \in Sockets |-> "fresh"]
        /\ outbound = [s \in Sockets |-> <<>>]
        /\ call = [r \in Requests |-> [at |-> "idle", on |-> None]]
        /\ wait = [r \in Requests |-> "none"]
        /\ answer = [r \in Requests |-> "none"]
        /\ canceller = [r \in Requests |-> [at |-> "idle", on |-> None]]
        /\ sweep = {}
        /\ serve = "accepting"
        /\ token = FALSE
        /\ closer = "idle"
        /\ plugin = [r \in Requests |-> "unseen"]
        /\ asked = {}

-----------------------------------------------------------------------------
(* The queues.  Releases and promotions are those of SlotQueue.            *)

Listening == {r \in Requests : wait[r] = "open"}

\* A ticket of r, taken from socket s's queue, is dropped.
DropTicket(s, r) ==
    /\ ~queue[s].promoting
    /\ queue' = [queue EXCEPT ![s] = Release(@, r)]
    /\ wait' = [wait EXCEPT ![r] = IF r \in Line(queue[s]) /\ @ = "open" THEN "lost" ELSE @]

Promote(s) ==
    /\ queue[s].promoting
    /\ queue' = [queue EXCEPT ![s] = PromoteOnce(@, Listening)]
    /\ wait' = IF Granted(queue[s], Listening)
                 THEN [wait EXCEPT ![Head(queue[s].waiting)] = "sent"] ELSE wait
    /\ UNCHANGED <<registry, listed, settled, tasks, outbound, token, plugin, asked>>

-----------------------------------------------------------------------------
(* The pending map.  Its mutex is held for one settlement, or for a whole  *)
(* batch of them.                                                          *)

PendingFree == settling.todo = {}

\* The entry leaves the map, its call is answered, and the ticket it owned is
\* dropped: `complete`, and each turn of the loops over a batch.
SettleLeaksTicket(s, r, kind) ==   \* mutant: the ticket outlives its entry
    /\ pending' = pending \ {<<s, r>>}
    /\ answer' = [answer EXCEPT ![r] = kind]
    /\ UNCHANGED <<queue, wait>>
Settle(s, r, kind) ==
    /\ pending' = pending \ {<<s, r>>}
    /\ answer' = [answer EXCEPT ![r] = kind]
    /\ DropTicket(s, r)

\* `remove_matching` and `take_expired` pick their keys ...
BeginBatch(entries, kind, task) ==
    settling' = IF entries = {} THEN Idle ELSE [todo |-> entries, kind |-> kind, by |-> task]

\* ... and settle them one by one in the order of a hash map.
SettleNext == \E e \in settling.todo :
    /\ Settle(e[1], e[2], settling.kind)
    /\ settling' = IF settling.todo = {e} THEN Idle
                                          ELSE [settling EXCEPT !.todo = @ \ {e}]
    /\ UNCHANGED <<registry, listed, tasks, outbound, token, plugin, asked>>

Busy(task) == settling.by = task

-----------------------------------------------------------------------------
(* The outbound channel: `try_send` fails when it is full, and when the    *)
(* receiver is gone because its `handle_socket` returned.                  *)

ReceiverAlive(s) == sock[s] # "closed"
HasRoomForOneMore(s) == Len(outbound[s]) <= CHANNEL   \* mutant
HasRoom(s) == Len(outbound[s]) < CHANNEL
CanSend(s) == ReceiverAlive(s) /\ HasRoom(s)

Push(s, type, r) == outbound' = [outbound EXCEPT ![s] = Append(@, <<type, r>>)]

\* A cancel that cannot be queued is dropped.
TrySendCancel(s, r) == IF CanSend(s) THEN Push(s, "cancel", r) ELSE UNCHANGED outbound

-----------------------------------------------------------------------------
(* Broker::invoke                                                          *)

At(r, pc, s) == call' = [call EXCEPT ![r] = [at |-> pc, on |-> s]]

Refuse(r, why) == /\ At(r, "refused", call[r].on)
                  /\ answer' = [answer EXCEPT ![r] = why]
                  /\ UNCHANGED <<queue, wait>>

\* `route_for` under the registry lock.
Route(r) ==
    /\ call[r].at = "idle"
    /\ LET s == sessions[TargetOf[r]] IN
         IF s = None THEN Refuse(r, "not_found")
                     ELSE At(r, "routed", s) /\ UNCHANGED <<answer, queue, wait>>
    /\ UNCHANGED <<registry, listed, pending, settling, sock, outbound, canceller, sweep,
                   serve, token, closer, plugin, asked>>

\* The lookup of the queue and `try_enqueue`.
EnqueueCall(r) ==
    LET s == call[r].on IN
    /\ call[r].at = "routed"
    /\ \/ s \notin listed /\ Refuse(r, "not_found")
       \/ /\ s \in listed /\ ~queue[s].promoting
          /\ \/ IsFull(queue[s]) /\ Refuse(r, "limit")
             \/ /\ ~IsFull(queue[s])
                /\ At(r, "ticketed", s)
                /\ queue' = [queue EXCEPT ![s] = Enqueue(@, r)]
                /\ wait' = [wait EXCEPT ![r] = IF HasSlot(queue[s]) THEN "sent" ELSE "open"]
                /\ UNCHANGED answer
    /\ UNCHANGED <<registry, listed, pending, settling, sock, outbound, canceller, sweep,
                   serve, token, closer, plugin, asked>>

\* `admit`: the entry takes the ticket, and the dispatch task is spawned.
Admit(r) ==
    LET s == call[r].on IN
    /\ call[r].at = "ticketed" /\ PendingFree
    /\ pending' = pending \cup {<<s, r>>}
    /\ At(r, "open", s)
    /\ UNCHANGED <<registry, queues, settling, answer, sock, outbound, canceller, sweep,
                   serve, token, closer, plugin, asked>>

\* The future of `invoke` is dropped while it waits for the pending lock: its
\* DispatchWait goes first, then its ticket.
AbandonWait(r) ==
    /\ r \in Abandonable /\ call[r].at = "ticketed"
    /\ At(r, "unwinding", call[r].on)
    /\ wait' = [wait EXCEPT ![r] = "dropped"]
    /\ UNCHANGED <<registry, listed, queue, settled, sock, outbound, canceller, sweep,
                   serve, token, closer, plugin, asked>>
AbandonTicket(r) ==
    /\ call[r].at = "unwinding"
    /\ At(r, "abandoned", call[r].on)
    /\ DropTicket(call[r].on, r)
    /\ UNCHANGED <<registry, listed, settled, sock, outbound, canceller, sweep,
                   serve, token, closer, plugin, asked>>

\* The dispatch task, once its slot is granted: under the pending lock, it
\* sends the request unless the call has been settled in the meantime.
HasPermit(r) == wait[r] = "sent"
AlwaysPending(s, r) == TRUE                           \* mutant: does not look
StillPending(s, r) == <<s, r>> \in pending

Dispatch(r) ==
    LET s == call[r].on IN
    /\ call[r].at = "open" /\ HasPermit(r) /\ PendingFree
    /\ \/ /\ ~StillPending(s, r)
          /\ wait' = [wait EXCEPT ![r] = "granted"]
          /\ UNCHANGED <<queue, pending, answer, outbound, asked>>
       \/ /\ StillPending(s, r) /\ CanSend(s) /\ r \notin Oversized
          /\ Push(s, "request", r) /\ asked' = asked \cup {r}
          /\ wait' = [wait EXCEPT ![r] = "granted"]
          /\ UNCHANGED <<queue, pending, answer>>
       \/ /\ StillPending(s, r) /\ (r \in Oversized \/ ~CanSend(s))
          /\ pending' = pending \ {<<s, r>>}
          /\ answer' = [answer EXCEPT ![r] =
                 IF r \in Oversized \/ ReceiverAlive(s) THEN "limit" ELSE "lost"]
          /\ ~queue[s].promoting
          /\ queue' = [queue EXCEPT ![s] = Release(@, r)]
          /\ wait' = [wait EXCEPT ![r] = "granted"]
          /\ UNCHANGED <<outbound, asked>>
    /\ UNCHANGED <<registry, listed, settling, tasks, token, plugin>>

-----------------------------------------------------------------------------
(* Broker::cancel: route, remove the entry, tell the plugin.  Its caller   *)
(* holds the OpenCall, so the call has been admitted.                      *)

CancelAt(r, pc, s) == canceller' = [canceller EXCEPT ![r] = [at |-> pc, on |-> s]]

CancelRoute(r) ==
    /\ r \in Cancellable /\ canceller[r].at = "idle" /\ call[r].at = "open"
    /\ LET s == sessions[TargetOf[r]] IN
         IF s = None THEN CancelAt(r, "done", None) ELSE CancelAt(r, "routed", s)
    /\ UNCHANGED <<registry, queues, settled, sock, outbound, call, sweep, serve,
                   token, closer, plugin, asked>>
CancelRemove(r) ==
    LET s == canceller[r].on IN
    /\ canceller[r].at = "routed" /\ PendingFree
    /\ \/ /\ <<s, r>> \in pending
          /\ Settle(s, r, "cancelled") /\ CancelAt(r, "removed", s)
       \/ /\ <<s, r>> \notin pending
          /\ CancelAt(r, "done", s) /\ UNCHANGED <<queue, wait, pending, answer>>
    /\ UNCHANGED <<registry, listed, settling, sock, outbound, call, sweep, serve,
                   token, closer, plugin, asked>>
CancelTell(r) ==
    /\ canceller[r].at = "removed"
    /\ TrySendCancel(canceller[r].on, r)
    /\ CancelAt(r, "done", canceller[r].on)
    /\ UNCHANGED <<registry, queues, settled, sock, call, sweep, serve,
                   token, closer, plugin, asked>>

-----------------------------------------------------------------------------
(* handle_socket                                                           *)

Goes(s, from, to) == sock[s] = from /\ sock' = [sock EXCEPT ![s] = to]

\* The task returns: it drops the channel's receiver with whatever it held.
Return(s) == /\ sock' = [sock EXCEPT ![s] = "closed"]
             /\ outbound' = [outbound EXCEPT ![s] = <<>>]

\* A handshake, a valid hello and a plugin lease; or the task ends before
\* that (see IdleLifetime for the lease).
Hello(s) ==
    /\ Goes(s, "fresh", "leased") /\ serve # "ended"
    /\ UNCHANGED <<registry, queues, settled, outbound, call, canceller, sweep, serve,
                   token, closer, plugin, asked>>
RejectHello(s) ==
    /\ sock[s] = "fresh" /\ Return(s)
    /\ UNCHANGED <<registry, queues, settled, call, canceller, sweep, serve,
                   token, closer, plugin, asked>>

IsLive(c) == sessions[c] # None

\* `SessionRegistry::insert`; a live connection id is refused and the task
\* returns.
Register(s) ==
    LET c == ConnOf[s] IN
    /\ sock[s] = "leased"
    /\ IF IsLive(c)
         THEN Return(s) /\ UNCHANGED registry
         ELSE /\ Goes(s, "leased", "registered")
              /\ sessions' = [sessions EXCEPT ![c] = s]
              /\ sockets' = [sockets EXCEPT ![s] = c]
              /\ UNCHANGED outbound
    /\ UNCHANGED <<queues, settled, call, canceller, sweep, serve, token, closer, plugin, asked>>

\* The session gets its queue, under another lock.
ListQueue(s) ==
    /\ Goes(s, "registered", "serving")
    /\ listed' = listed \cup {s}
    /\ UNCHANGED <<registry, queue, wait, settled, outbound, call, canceller, sweep, serve,
                   token, closer, plugin, asked>>

\* The head of the channel goes to the plugin, which starts a request and
\* stops one it is told to cancel; of a request it does not know it only
\* learns that it was cancelled.
SendOut(s) ==
    /\ sock[s] = "serving" /\ outbound[s] # <<>>
    /\ outbound' = [outbound EXCEPT ![s] = Tail(@)]
    /\ LET m == Head(outbound[s]) IN
         plugin' = [plugin EXCEPT ![m[2]] =
            CASE m[1] = "request"                  -> "running"
              [] m[1] = "cancel" /\ @ = "unseen"   -> "warned"
              [] m[1] = "cancel" /\ @ = "running"  -> "stopped"
              [] OTHER                             -> @]
    /\ UNCHANGED <<registry, queues, settled, tasks, token, asked>>

\* The plugin finishes; its response is on the wire from then on.
PluginFinishes(r) ==
    /\ plugin[r] = "running"
    /\ plugin' = [plugin EXCEPT ![r] = "done"]
    /\ UNCHANGED <<registry, queues, settled, tasks, outbound, token, asked>>

\* `complete` finds an entry by the socket the frame came from and the id in
\* it.
MatchingId(s, r) == {e \in pending : e[2] = r}   \* mutant: any socket may answer
Matching(s, r) == {<<s, r>>} \cap pending

\* A response or an error frame: from the plugin that ran the request, also
\* late or twice; or from a plugin that was never asked.
MaySend(s, r) == call[r].on # s \/ plugin[r] = "done"
Receive(s, r) ==
    /\ sock[s] = "serving" /\ PendingFree /\ MaySend(s, r)
    /\ \E e \in Matching(s, r) : Settle(e[1], e[2], "answered")
    /\ UNCHANGED <<registry, listed, settling, tasks, outbound, token, plugin, asked>>

\* The loop ends: shutdown, the peer closed or broke the protocol, an I/O
\* error, or no sign of life for `stale_after`.
Stop(s) ==
    /\ Goes(s, "serving", "leaving")
    /\ UNCHANGED <<registry, queues, settled, outbound, call, canceller, sweep, serve,
                   token, closer, plugin, asked>>

WithSession(c) == sessions   \* mutant: only the socket is removed
WithoutSession(c) == IF c = None THEN sessions ELSE [sessions EXCEPT ![c] = None]

\* `cleanup_socket`, one lock after the other, and the return.
Unregister(s) ==
    /\ Goes(s, "leaving", "unregistered")
    /\ LET c == sockets[s] IN
         /\ sockets' = [sockets EXCEPT ![s] = None]
         /\ sessions' = WithoutSession(c)
    /\ UNCHANGED <<queues, settled, outbound, call, canceller, sweep, serve,
                   token, closer, plugin, asked>>
LosePending(s) ==
    /\ PendingFree
    /\ Goes(s, "unregistered", "drained")
    /\ BeginBatch({e \in pending : e[1] = s}, "lost", s)
    /\ UNCHANGED <<registry, queues, pending, answer, outbound, call, canceller, sweep, serve,
                   token, closer, plugin, asked>>
StillListed(s) == listed   \* mutant: the queue is never removed
Unlisted(s) == listed \ {s}
UnlistQueue(s) ==
    /\ ~Busy(s)
    /\ Goes(s, "drained", "unlisted")
    /\ listed' = Unlisted(s)
    /\ UNCHANGED <<registry, queue, wait, settled, outbound, call, canceller, sweep, serve,
                   token, closer, plugin, asked>>
LeaveSocket(s) ==
    /\ sock[s] = "unlisted" /\ Return(s)
    /\ UNCHANGED <<registry, queues, settled, call, canceller, sweep, serve,
                   token, closer, plugin, asked>>

-----------------------------------------------------------------------------
(* ws::serve and Broker::shutdown                                          *)

\* Any deadline may have passed.
ExpirableLive == {e \in pending : sockets[e[1]] # None}   \* mutant: only live sockets
Expirable == pending

\* The 10 ms tick: `take_expired` answers what has expired, then each plugin
\* is told, if its session is still registered.
TakeExpired ==
    /\ serve = "accepting" /\ sweep = {} /\ PendingFree
    /\ \E entries \in (SUBSET Expirable) \ {{}} :
         /\ BeginBatch(entries, "timeout", "serve")
         /\ sweep' = entries
    /\ UNCHANGED <<registry, queues, pending, answer, sock, outbound, call, canceller,
                   serve, token, closer, plugin, asked>>
TellExpired ==
    /\ sweep # {} /\ ~Busy("serve")
    /\ \E e \in sweep :
         /\ sweep' = sweep \ {e}
         /\ IF sockets[e[1]] # None THEN TrySendCancel(e[1], e[2]) ELSE UNCHANGED outbound
    /\ UNCHANGED <<registry, queues, settled, sock, call, canceller, serve,
                   token, closer, plugin, asked>>

\* An accept error cancels the token from inside the loop.
AcceptFails ==
    /\ MayShutDown /\ serve = "accepting" /\ sweep = {} /\ ~token
    /\ token' = TRUE
    /\ UNCHANGED <<registry, queues, settled, tasks, outbound, plugin, asked>>

\* The loop sees the token and drains the map; then it joins its sockets.
DrainAndJoin ==
    /\ serve = "accepting" /\ sweep = {} /\ token /\ PendingFree
    /\ serve' = "joining"
    /\ BeginBatch(pending, "lost", "serve")
    /\ UNCHANGED <<registry, queues, pending, answer, sock, outbound, call, canceller, sweep,
                   token, closer, plugin, asked>>
ServeEnds ==
    /\ serve = "joining" /\ ~Busy("serve")
    /\ \A s \in Sockets : sock[s] \in {"fresh", "closed"}
    /\ serve' = "ended"
    /\ UNCHANGED <<registry, queues, settled, sock, outbound, call, canceller, sweep,
                   token, closer, plugin, asked>>

\* `Broker::shutdown` is two statements.
CancelToken ==
    /\ MayShutDown /\ closer = "idle"
    /\ closer' = "cancelled" /\ token' = TRUE
    /\ UNCHANGED <<registry, queues, settled, sock, outbound, call, canceller, sweep, serve,
                   plugin, asked>>
DrainPending ==
    /\ closer = "cancelled" /\ PendingFree
    /\ closer' = "drained"
    /\ BeginBatch(pending, "lost", "shutdown")
    /\ UNCHANGED <<registry, queues, pending, answer, sock, outbound, call, canceller, sweep,
                   serve, token, plugin, asked>>

-----------------------------------------------------------------------------
InvokeStep(r) == \/ EnqueueCall(r) \/ Admit(r) \/ Dispatch(r) \/ AbandonTicket(r)
CancelStep(r) == CancelRemove(r) \/ CancelTell(r)
SocketStep(s) == \/ Register(s) \/ ListQueue(s)
                 \/ Unregister(s) \/ LosePending(s) \/ UnlistQueue(s) \/ LeaveSocket(s)
ServeStep     == TellExpired \/ DrainAndJoin \/ ServeEnds

Next == \/ \E r \in Requests : Route(r) \/ InvokeStep(r) \/ AbandonWait(r)
                               \/ CancelRoute(r) \/ CancelStep(r) \/ PluginFinishes(r)
        \/ \E s \in Sockets : \/ Promote(s) \/ Hello(s) \/ RejectHello(s) \/ SocketStep(s)
                              \/ SendOut(s) \/ Stop(s)
                              \/ \E r \in Requests : Receive(s, r)
        \/ SettleNext \/ TakeExpired \/ ServeStep
        \/ AcceptFails \/ CancelToken \/ DrainPending

Spec == Init /\ [][Next]_vars

\* Tasks that can run do: tokio's mutexes are fair, and every await below is
\* of a mutex or a resolved channel.  An entry that stays pending passes its
\* total deadline.  A socket leaves its loop once the token is cancelled.
\* Nothing makes callers call, plugins answer or peers read.
ExpireEach(e) == TakeExpired /\ e \in sweep'
StopOnToken(s) == token /\ Stop(s)
Fairness ==
    /\ \A r \in Requests : WF_vars(InvokeStep(r)) /\ WF_vars(CancelStep(r))
    /\ \A s \in Sockets : WF_vars(Promote(s)) /\ WF_vars(SocketStep(s)) /\ WF_vars(StopOnToken(s))
    /\ WF_vars(SettleNext) /\ WF_vars(ServeStep) /\ WF_vars(DrainPending)
    /\ \A e \in Entry : WF_vars(ExpireEach(e))
FairSpec == Spec /\ Fairness

-----------------------------------------------------------------------------
\* The types, and the bound on each outbound channel.
TypeOK ==
    /\ sessions \in [Conns -> Sockets \cup {None}]
    /\ sockets \in [Sockets -> Conns \cup {None}]
    /\ listed \subseteq Sockets
    /\ queue \in [Sockets -> [in_flight : Nat, waiting : Seq(Requests),
                              active : SUBSET Requests, promoting : BOOLEAN]]
    /\ pending \subseteq Entry
    /\ settling \in [todo : SUBSET Entry, kind : Answers,
                     by : Sockets \cup {None, "serve", "shutdown"}]
    /\ sock \in [Sockets -> {"fresh", "leased", "registered", "serving", "leaving",
                             "unregistered", "drained", "unlisted", "closed"}]
    /\ outbound \in [Sockets -> Seq(Messages)]
    /\ \A s \in Sockets : Len(outbound[s]) <= CHANNEL
    /\ call \in [Requests -> [at : {"idle", "refused", "routed", "ticketed", "unwinding",
                                    "abandoned", "open"},
                              on : Sockets \cup {None}]]
    /\ wait \in [Requests -> {"none", "open", "sent", "lost", "granted", "dropped"}]
    /\ answer \in [Requests -> Answers]
    /\ canceller \in [Requests -> [at : {"idle", "routed", "removed", "done"},
                                   on : Sockets \cup {None}]]
    /\ sweep \subseteq Entry
    /\ serve \in {"accepting", "joining", "ended"}
    /\ token \in BOOLEAN
    /\ closer \in {"idle", "cancelled", "drained"}
    /\ plugin \in [Requests -> {"unseen", "running", "done", "stopped", "warned"}]
    /\ asked \subseteq Requests

\* The two maps of the registry describe the same sessions, and a session is
\* exactly a socket whose task registered it and has not yet unregistered it:
\* a socket that is gone can be found by no route.
Present(s) == sock[s] \in {"registered", "serving", "leaving"}
RegistryMirrors ==
    /\ \A s \in Sockets : sockets[s] = IF Present(s) THEN ConnOf[s] ELSE None
    /\ \A c \in Conns : \A s \in Sockets : sessions[c] = s <=> sockets[s] = c

\* No slot is leaked and no call goes without: whoever has a slot or a place
\* is pending on that socket or about to be, a pending call has a place there,
\* and a call that was sent and is unanswered holds a slot, so a plugin never
\* owes more answers than MAX_IN_FLIGHT.
Ticketed(s, r) == call[r].at \in {"ticketed", "unwinding"} /\ call[r].on = s
SlotsAreOwned == \A s \in Sockets, r \in Requests :
    /\ r \in Places(queue[s]) => <<s, r>> \in pending \/ Ticketed(s, r)
    /\ <<s, r>> \in pending => r \in Places(queue[s])
    /\ <<s, r>> \in pending /\ r \in asked => r \in queue[s].active

\* A plugin that was told of a cancel is never asked afterwards: a cancel or
\* timeout of queued work cannot be overtaken by its dispatch.
CancelIsLast == [][\A r \in Requests : plugin[r] = "warned" => plugin'[r] = "warned"]_vars

Refusal == {"not_found"}
Failure == {"limit", "lost", "cancelled", "timeout"}
Contract == INSTANCE InvokeContract WITH
    Calls <- Requests,
    answer <- [r \in Requests |-> CASE answer[r] \in Refusal -> "refused"
                                   [] answer[r] \in Failure -> "failed"
                                   [] OTHER -> answer[r]]

\* Asked at most once and only while open, answered at most once, and by the
\* plugin that was asked.
KeepsContract == Contract!Spec

\* Every call gets an answer as long as the broker is not shut down, whatever
\* sockets, plugins and cancels do: no entry is forgotten, no waiter stuck.  A
\* shutdown answers whoever is pending when it begins.
Done(r) == answer[r] # "none" \/ call[r].at = "abandoned"
EveryCallIsAnswered == \A r \in Requests :
    /\ call[r].at = "routed" ~> Done(r) \/ token
    /\ closer = "cancelled" /\ (\E s \in Sockets : <<s, r>> \in pending) ~> Done(r)

\* A socket that stops serving leaves no trace, whoever holds which lock.
SocketsLeave == \A s \in Sockets :
    sock[s] = "leaving" ~> sock[s] = "closed" /\ s \notin listed /\ sockets[s] = None

\* The claim of docs/acceptance-sweep.md that `Broker::shutdown` fails every
\* outstanding call itself.  It does not: a call that stands between its queue
\* and the pending map while the map is drained is admitted afterwards, and
\* its request dies in the channel of a socket task that is on its way out.
ShutdownFailsEveryCall == \A r \in Requests :
    closer = "cancelled" /\ call[r].at \in {"ticketed", "open"} ~> Done(r)
=============================================================================
