# A TLA+ verification of figma-dev-mcp

`figma-dev-mcp` lets MCP clients read Figma documents. Each client launches one
process; one of the processes leads and runs a *broker* to which the Figma
plugins connect over WebSocket; the others forward their calls to it. Every
call is routed to a plugin, queued, made pending, sent, and answered,
cancelled, expired or lost. What is hard in this code is not any single step
but that nearly every step runs in a task of its own and takes one of several
independent locks, so that everything can happen between any two of them.

This directory holds the models of that code, the TLC configurations that check
them and the proofs TLAPS checks. All paths below are relative to the
repository.

## 1. Inventory

| Part | State | Operations | Hard because | What makes it correct |
| --- | --- | --- | --- | --- |
| **Session queue** `crates/broker/src/queue.rs` | slot count, holders, line of waiters, each with a one-shot channel | `try_enqueue`, `QueueTicket::drop`, `promote`, `DispatchWait::wait` | receivers are dropped without the mutex, while `promote` notifies them; dropping one handle before the other | exact slot count, no leak, order of arrival, work conservation, every listener served |
| **Broker** `lib.rs`, `pending.rs`, `registry.rs` | registry (two maps), pending map, map of queues: three async mutexes; a cancellation token | `invoke` (route, enqueue, admit, dispatch task), `cancel`, `shutdown`, `complete`, `take_expired` | calls cross the locks one after the other while sockets come and go | at most one answer, from the plugin asked; asked at most once and never after the end; nothing forgotten |
| **Plugin server** `ws.rs`, `lifecycle.rs` | one task per socket with a bounded outbound channel; the accept loop with its 10 ms expiry tick | hello, register, list queue, send, receive, clean up in three critical sections; drain and join | duplicate connection ids, late and foreign responses, full channels, clean-up racing calls | registry only points at live sockets, only the owner unregisters, clean-up leaves nothing |
| **Idle lifetime** `lifecycle.rs`, `lib.rs` | counters of leases, closing flag, watch channel | take/drop a lease, `wait_until_idle` | check and close against arrivals; lost wake-ups | closes only when empty, admits nobody afterwards, closes in the end |
| **Frontend RPC** `rpc.rs` | per connection: call tasks, progress channel (32), writer | hello, call, cancel, progress, teardown | bounded channels in both directions, teardown waiting for tasks that push | each call answered once, cancel reaches it, teardown ends |
| **Supervision and election** `supervisor.rs`, `election.rs` | role, backend, listeners, backoff | probe, bind both ports, serve, follow, escalate, recycle, shutdown | several processes, two ports, crashes, self-connection | one leader, followers converge, every death path drains |
| **Broker client** `client.rs` | installed backend, ready flag, open calls | install, detach, wait for backend, call, drop | wake-ups of waiters, cancel on drop across role changes | no waiter stranded, cancel reaches the owning broker |
| **Tool calls** `crates/tools/src/dispatch.rs`, `service.rs` | two timers, progress stream, cancellation | run, forward progress, time out, cancel | timers against late answers and dying backends | every call ends, and what it abandons is told to stop |
| **Plugin socket** `plugin/src/ui/socket.ts`, `relay.ts` | socket generation, timers, owners of requests | open, hello, message, close, reconnect | events of old sockets, answers after reconnect | an answer goes only to the socket that asked |
| **Plugin controller** `plugin/src/main/*.ts` | cancellation registry, progress reporter | begin, cancel, finish, report, validate screenshots | cancel racing finish, host calls that cannot be stopped | one outcome per request, nothing after it |
| **Readers** `plugin/src/read/*.ts` | none kept | bounded traversals of the document | budgets and deferral | bounds respected, order stable |
| **Contracts** `crates/protocol`, `plugin/src/shared` | a visitor's slots, a budget of nodes, a running size | hand-written decoders, trees, deferred objects, validation | an encoder is derived and its decoder written by hand; limits are counted twice, in different orders | both sides accept the same values |
| **Result content** `crates/tools/src/content.rs` | items and images so far, an overflow flag | take an image or refuse it, account the whole | what replaces an image takes room too | within the limits, every item in its place |
| **Catalogue, prompts, logging, executable** | static | JSON shaping, wiring | nothing | - |

How they interact: a frontend process holds a *client* whose backend is either
its own broker (leader) or an RPC connection to the leader's *frontend RPC*
server (follower); the *supervisor* installs and detaches that backend. A tool
call opens a call on the backend; the leader's broker runs it on a plugin's
socket; the plugin's UI relays it to the controller and the answer back.
Frontend connections and plugin sockets hold leases of the *idle lifetime*,
which ends a leader nobody uses.

`PROJECT.json` lists under `hazards` the points of this code that tests hardly
reach, each at its line, with the properties below that would catch them.

## 2. What is modelled

```
SlotQueue ------ SessionQueue ==implements==> SlotSemaphore
    |                 |
    |            SessionQueue_proofs (with SlotQueue_proofs)
    +----------- Broker ======implements====> InvokeContract
                      |
                 Broker_proofs (with SlotQueue_proofs)
FrontendRpc ====implements====> RemoteCall
    |
FrontendRpc_proofs
ToolCall ------- ToolCall_proofs
Supervision ---- Supervision_proofs
Plugin --------- Plugin_proofs
MCParts -------- IdleLifetime, Recycling, NodeTree, DeferredObject, ImageBatch
                 (with Limits), WireDecoder (with WireFormats): all in Parts_proofs
```

The life of one request runs through five of them: `ToolCall` has it from the
MCP client to the backend, `FrontendRpc` between a follower and its leader,
`Broker` (with one `SessionQueue` per session) inside the leader, and `Plugin`
behind the socket. Each reduces its neighbours to what it may assume of them: to
`ToolCall` a backend is something that answers, or does not, or goes away; to
`Broker` a plugin is something that may answer what it was sent; to `Plugin` the
broker is any peer. `Supervision` decides which process has which backend.

**`SlotQueue`** is the record behind a session queue's mutex and its operations,
as operators on a value, so that one queue (`SessionQueue`) and a family of
queues (`Broker`) share them and their lemmas. `promote` is a loop that notifies
receivers other threads may be dropping: each turn is a step of its own, and the
extra field `promoting` stands for "the mutex is held inside the loop".

**`SessionQueue`** adds the two handles `try_enqueue` returns. `ticket[id]` is
the `QueueTicket`, `wait[id]` the one-shot channel seen from its receiver. The
actions are `TryEnqueue` (granted, in line, refused), `DropTicket`, `Promote`,
`WaitReturns` and `DropWait`, in any order the handles' owners choose.

**`SlotSemaphore`** is what the queue promises: a first-come, first-served
semaphore with a bounded line.

**`Broker`** models the three mutexes and every task that takes them. An action
is what one task does under one acquisition, so `invoke` is `Route`,
`EnqueueCall`, `Admit`, `Dispatch`; `cancel` is three actions; a socket's
registration two and its clean-up four; an expiry two or more, since the plugins
are told one by one. A future dropped half-way is `AbandonWait`, `AbandonTicket`,
in the order in which Rust drops the two handles. `Broker::shutdown` and the
accept loop's own drain are separate actors.

- A thread that settles several entries (`remove_matching`, `take_expired`)
  holds the pending lock throughout, but drops a ticket, and so takes a queue's
  mutex and may run `promote`, for each. `settling` is that batch. One
  settlement (remove, answer, drop the ticket) is one step: all of it happens
  under the pending lock, and the only thread that could tell the difference is
  one in `try_enqueue`, which sees the queue just before or just after the drop.
  The loop of `promote` that may follow is *not* part of that step, and other
  users of the pending lock are let in while it turns: more interleavings than
  the code has.
- Time is abstract. Any pending entry may expire at any tick: the progress
  frames that push the inactivity deadline back restrict behaviours and are left
  out. A socket may stop serving at any moment, which covers the peer closing,
  a protocol error, an I/O error and staleness.
- A plugin answers a request it received, possibly after the broker gave up on
  it, and may answer it repeatedly; any other plugin may send a frame with the
  same id. That a plugin answers a request it never received on the socket it is
  addressed to is excluded: ids are fresh UUIDs.
- The history variable `asked` records whose request entered a channel.

**`InvokeContract`** is what `invoke` promises its callers.

**`IdleLifetime`** models each lease's two halves (change the counter under the
mutex, then notify) and the waiter's reads, select and check.

**`FrontendRpc`** is one connection of a follower to its leader, both ends. An
action is what one task does between two awaits that may block, so the frame a
loop is sending (`outgoing`, `reply`) is state: meanwhile that loop reads
nothing and takes nothing. Callers put requests in the client's command channel
(`Ask`), cancel (`CancelCall`, then `SendCancel` by the watcher) or drop the
`OpenCall`; `client_loop` is `TakeCommand`, `Transmit`, `ReceiveFrame`,
`LoopEnds`; `serve_frontend` is `Welcome` or `Refuse`, then `Read`,
`TakeProgress`, `Join`, `Reply`, and `StopServing` and `Drained` for its
teardown; a call's task is `Open`, `TakeResult`, `TakeFrame` and `Report`,
`Obey`. The broker behind a call is reduced to when it opens and what kind of
result it gives (an ordinary one, one too large for a frame, an error). A frame
that cannot be decoded and one that repeats an active id both leave the server's
loop and are one `Bad`.

**`RemoteCall`** is what such a connection promises about a call: the leader
begins to work on it once at most, and only if it was sent; the work ends once;
and the caller gets one outcome, which is, if it is an answer, the verdict on the
work on this very call. A call is `open` from the moment its request is in the
command channel, its work has `begun` when its task is spawned, and the verdict
stands when the task is joined (an oversized result has become LIMIT_EXCEEDED by
then).

**`Supervision`** is several processes over the two ports. `at` says where
`supervise` and `elect` stand, `up` which ports a process listens on, `link` whom
it is connected to. The election's connect, bind, second connect and second bind
are separate actions, since other processes act in between; entering a leader's
role (`Lead`) has no await in it and is one. `Notice`, `ClearBroker` and
`ClearListeners` are the three stretches of a role's teardown. `Quit` is the end
of the MCP client, which drops `supervise` wherever it stands; what follows is
`BecomeIdle`, `Close` and `Leave`. Another program may hold either port. Followers
are the leases of others: when a leader may close is `IdleLifetime`'s matter, and
here it is the moment nobody follows it.

**`Recycling`** is how fast a supervisor goes from role to role and how much it
says. A role is entered (`EnterRole`), dies (`RoleDies`), is torn down
(`TearDown`) and followed by another election (`ElectNext`), whose own attempts
may fail (`AttemptFails`). The delays, their growth by shifts, the counters they
are computed from and the level of each log line are translated as they stand;
the wording is not. `young` and `silence` are history variables.

**`ToolCall`** is the calls of one process through its `BrokerClient`. `cell` is
the client's slot for a backend and `generation` the value of its watch channel:
`install` writes one and then the other (`WriteCell`, `Announce`), and
`backend_ready` subscribes, reads and waits (`Subscribe`, `ReadCell`, `Wake`,
`GiveUp`), with everything else in between. A call keeps the backend it was
opened with. `wait_for_result` prefers the result to progress and either to the
timers and the cancellation (`TakeResult`, `TakeProgress`, `SeeCancel`,
`Expire`); dropping the `OpenCall` aborts or releases its watcher, in the order
of `Drop`. A list is opened by another path, with an unbiased loop and no timer
of its own. `RoleDies`, `Detach` and `WindDown` are the supervisor's order of
teardown as `Supervision` has it.

**`Plugin`** is the plugin's two halves, the iframe with the WebSocket and the
controller that reads the document, each handling one event at a time, with a
queue of messages either way. A `generation` is one WebSocket. `owner` is
`requestOwners`, `work` what the cancellation registry knows of a read;
`detached` is a read that lost its race against its cancellation but cannot be
stopped and goes on reporting (`Tick`).

**`WireFormats`** and **`WireDecoder`** are the contract of the wire. The encoder
of a type is derived, its decoder is a visitor written by hand, so that fields
may come in any order. `WireFormats` states for 28 types what an encoder writes
(`sends`) and which fields each arm of the visitor needs, keeps and bars
(`arms`), read off the two places in the source independently. `WireDecoder`
has a sender write one shape in any order with at most `MaxFaults` deviations (a
field left out, added, doubled, of another kind or null), and the visitor store,
refuse and decide. A value is reduced to its kind.

**`NodeTree`** is trees and batches of design nodes: `validate_node_roots` and
`try_from`, which count a finished document, against the seeds and visitors of
the reader, which count as they go. **`DeferredObject`** is the buffer of fields
whose tag has not come yet, with its running size and the encoding it stands
for. **`ImageBatch`** is the packing of images into one result, for screenshots
(`account_mixed_images`) and for the older images-only call
(`account_batch_images`). **`Limits`** declares the limits they share.

The `MC*` modules name the instances. Operators marked "mutant" stand beside
some definitions: each is that definition with a plausible mistake in it, used
to confirm that the property at stake notices.

## 3. What the runs check

| Run | Instance | Shows |
| --- | --- | --- |
| `session_queue` | 2 slots, 2 places, 5 ids, fair | `BooksBalance`, `PlacesAreHeld`, `GrantsAreReal`: the slot count is exact whatever is dropped when, nothing leaks, grants are backed by slots; `IsSemaphore` (with the semaphore's fairness) and `EveryWaiterResolves` |
| `broker_reconnect` | two sockets with one connection id, 2 calls, 1 slot, 1 place, channel of 1 | `TypeOK`, `RegistryMirrors`, `CancelIsLast` and `KeepsContract` through a reconnect or a duplicate |
| `broker_live` | 1 socket, 2 calls, one of them cancellable, the other abandonable and too large to send; shutdown and accept errors at any point; fair | `SlotsAreOwned` survives shutdown; `EveryCallIsAnswered`, `SocketsLeave` |
| `broker_shutdown_claim` | 1 socket, 2 calls, fair, with shutdown | **violation** of `ShutdownFailsEveryCall` |
| `frontend_rpc` | 2 calls, one maybe oversized; channels of 2 and 1, room for 4 frames up and 1 down, 1 progress frame each; shutdown, abort, bad frames | `NoCallIsLost`, `TasksAreAccounted`, and `IsRemoteCall`: the connection implements `RemoteCall` |
| `frontend_rpc_live` | the same without shutdown and bad frames, fair | `EveryCallEnds`, if plugins answer or deadlines pass; `CancelStopsWork`, even if not |
| `frontend_rpc_teardown` | 2 progress frames, bad frames | **violation** of `BadFrameCloses` |
| `supervision` | 3 processes, 2 listener failures, another program on either port, fair | `TypeOK`, `FollowersHaveLeaders`, `PortsBelongToRoles`, `NoDeadBackend`, `ClosingHasNoFollowers`, `Converges` |
| `tool_call` | 1 call of either kind, 3 backends, local or remote, 2 progress frames, fair | `TypeOK`, `NoWaiterMissesABackend`, `AbandonedIsCancelled`, `NothingIsLeftWaiting` |
| `plugin` | 2 requests, 2 sockets, 2 progress frames, fair | `WorkIsOwned`, `FramesAreDue`, `RequestsAreSettled` |
| `parts` | 28 types with at most one deviation; documents of up to 6 elements; up to 4 images; up to 14 deaths or attempts; 2 frontends and a plugin | `EveryEncoding`, `OnlyEncodings`, `SameTrees`, `EstimateIsExact`, `BatchIsFaithful`, `WaitsAreEarned`, `NeverSilent`, `CountsAreLeases`, `ClosingIsEmpty`, `QuietBrokerCloses` |
| `batch_claim` | the images alone | **violation** of `PartialBatchReturns` |

*Bounds.* The code's limits (4 slots, 16 places, channels of 16) become 1 or 2,
which makes full, empty and hand-over happen with two or three calls: one call
in a slot, one in line, one refused. Calls do not come back, so behaviours end
and deadlock is not checked; nothing in the code blocks for good within a
module, which the liveness runs show instead. Two sockets with one connection id
are every race a registration has, since the maps treat different ids
independently. Two frontends and a plugin give every mix of leases up to two of
a kind. For every safety property the proofs of section 4 remove the bounds.

In `FrontendRpc` a progress channel of one and a downlink of one frame are full
as soon as a second frame wants in, so every blocking send does block; the
uplink holds all that two calls can send, as the kernel's buffers do for small
frames. (With a smaller uplink both loops can be sending at once, with nobody
reading: a deadlock the design admits when both directions' buffers are full.)
Shutdown and bad frames are left out of the liveness run because they meet the
second disagreement below. In `Supervision` three processes are a leader, a follower
and a newcomer, and two failures let a role die twice, or both its listeners.

One call is enough in `tool_call`: calls share nothing but the cell, which no
call changes. Three backends let a call be opened on one, outlive it, and see
two more come; two progress frames leave one unread when another comes. In
`plugin` two requests are one per socket or both on one, and a third socket adds
nothing the second does not: what is compared is the current generation and an
older one. In `parts` the documents go one node, one level and one item past
each limit (4 nodes, 2 levels, 3 items) and still have room for what follows;
sizes straddle each limit of an image, of a text and of an envelope; deaths and
attempts go past every cap and past two heartbeats of each kind. The parts share
no state, so each behaviour runs one of them.

*Fairness.* Tasks that can run, run: the async runtime polls every ready task
and its mutexes are fair, so weak fairness is assumed for each task's next step,
per call, per socket and for the accept loop. `ExpireEach` says that an entry
that stays pending passes its deadline and is swept by the tick: every call has
a total deadline of 120 s. A socket whose token is cancelled leaves its loop.
Nothing makes callers call, plugins answer, peers read, or sockets close. In
`SessionQueue` a holder gives its slot back in the end, which is what
`EveryCallIsAnswered` establishes one level up. In `IdleLifetime` the waiter is
polled when what it awaits is ready, and a thread that changed a counter goes
on to notify; the choice between a ready timer and a ready change is free.

In `FrontendRpc` each caller, loop and call task goes on when it can; the end of
the leader's side is seen once what came before has been read; opening a call
ends, which is `Broker`'s matter; and `EveryCallEnds` says what follows if a call
ends too, at its deadline at the latest. In `Supervision` every process goes on; strong
fairness is assumed of the handshake alone: a hello that is sent again and again
to somebody who would answer it is answered in time at last. Nothing makes
processes start, quit, crash or fail.

In `ToolCall` the supervisor finishes what it began, tasks that can run do,
frames arrive, a timer that runs fires, and a leader that serves answers a list.
Nobody has to answer an invocation, to cancel it or to elect anybody: the call
ends all the same, by its timers. In `Plugin` queued events and messages are
handled and a read ends; sockets need not open or break.

*`Converges`* has two exceptions. Another program may take a port; and the code
earns the second. Once its MCP client has gone,
a leader is no longer supervised: it waits for its followers and plugins to leave. If
one of its listeners fails during that wait it keeps the other port, and as long
as a plugin stays no other process can bind both ports; if the frontend port is
the one it lost, none can follow it either. `Stranded` names that state.

*The three disagreements.* `docs/acceptance-sweep.md` (line 1011) says of
`Broker::shutdown` that it "fails every outstanding call itself". The run shows
a call that has its ticket but not its entry when the map is drained: it is
admitted afterwards, because `admit` does not look at the token, and its request
sits in the channel of a socket task that is on its way out. Nobody in the
broker answers it; the expiry tick has ended with the accept loop, so what is
left is the caller's own timer. The test of that name only shuts down with calls
already pending.

Second, `tests/integration/multi_client.rs` says (line 485) that a duplicate
request "must close the frontend connection" and (line 691) that malformed input
"must cancel active plugin calls". The run shows a connection that does neither:
`serve_frontend` (rpc.rs:203-206) cancels its calls and joins their tasks, but a
task that is in the middle of `progress_tx.send(..).await` (rpc.rs:126) with the
channel full waits for a reader that has left its loop, and sees no cancellation
while it waits. The connection, the plugin call and the frontend lease remain,
and with the lease a leader that would like to exit. It takes 32 queued progress
frames, so a leader that was held up for a while by a follower that does not
read; any way out of the loop then leads there, shutdown included.

Third, `tests/contracts/response_accounting.rs` (line 183) expects of
`account_batch_images` that a "partial batch must still return a result". An
image is accepted when the result up to it fits, without room for the errors
that stand for the images after it; those are not counted until the whole is
accounted at the end (content.rs:221), which then refuses all of it. It takes
accepted images within a few hundred bytes of the limit.

Two smaller things were seen on the way and have no run. The test named
`activity_during_idle_grace_restarts_the_full_timer` overstates the idle
lifetime: if the timer has elapsed when the waiter is next polled and a visitor
came and went in the same instant, the select may take the timer. And the
visitor of `ReactionAction`, which says it expects "a closed prototype reaction
action", lets fields of other variants pass: `OnlyEncodings` makes that
exception, and `ClosedReactions` is the same without it.

## 4. What is proved

For every limit, queue length, and number of callers or connections:

- `SlotQueue_proofs`: each operation keeps a queue's type and `Balanced`, and
  what it does to the places it keeps (`TakeKeeps`, `JoinKeeps`, `LeaveKeeps`,
  `FreeKeeps`, `PopKeeps`, then `EnqueueKeeps`, `ReleaseKeeps`, `PromoteKeeps`).
- `SessionQueue_proofs`: `TypeCorrect`, `BooksAlwaysBalance`, `NothingLeaks`,
  `GrantsAlwaysReal`, `NeverOvertaken`, and `ImplementsSemaphore` (initial states
  and steps; the semaphore's fairness is left to TLC). The four checked
  invariants are not inductive alone: `IInv` adds that the line is sorted by id
  and that ids not handed out yet have no ticket, which is what makes a new
  arrival the largest and gives the order of arrival.
- `Supervision_proofs`: `TypeCorrect`, `NobodyFollowsAFollower`, `NoPortIsLeft`,
  `BackendsAreAlive`, `ClosingAbandonsNobody`, one lemma per action. `IInv` adds
  that a connection is one to a bound frontend port and belongs to a process that
  joins or follows (`LinksAreServed`), that a role's ports come with an
  uncancelled token until something fails (`PortsFollowStates`), and that whoever
  closes has said so (`ClosedIsFlagged`); without them a follower's leader might
  have no port, and a backend's broker be shut down.

- `ToolCall_proofs`: `NeverMissed`. A receiver has seen no generation that was
  not sent, and a call that waits having seen the latest waits because there is
  no backend, or because it is written and not yet announced. Subscribing before
  reading is what makes the second part hold. `TypeCorrect` goes call by call:
  every step changes one call's record, and `Retains` says what it leaves.

- `Broker_proofs`: `TypeCorrect`, `RegistryStaysTrue`, `SlotsAlwaysOwned`,
  `PluginsAreSpared` (a plugin never has more calls pending than there are
  slots), `InvokeKeepsContract` (the refinement of `InvokeContract`, step by step) and
  `CancelNeverOvertaken`. The invariant is built in four layers, each proved
  with the ones below it. `RegistryInv`: which socket owns which session.
  `PlacesInv`: a call's place in its queue, its ticket and its entry go together,
  by the lemmas of `SlotQueue_proofs`. `AnswersInv`: a call that is pending, or on
  its way there, has no answer yet, which is why one answer at most gets out.
  `OrderInv`: a cancel in a channel follows the request it is for, and is only
  sent when the entry is gone; so a request can no longer be sent after it.
  `RestTyped` and `ChannelsBounded` give the types that the layers leave out.

- `Plugin_proofs`: `FramesAlwaysDue` and `WorkAlwaysOwned`. What may cross the
  socket next for a request depends on what is still queued between the two
  halves, so `PluginInv` says of each queue what may stand in it, and in which
  order: a request comes in once (`Incoming`), is begun before it is stopped and
  answered only when its read has ended (`InOrder`); nothing is known of one that
  has not come in (`Unknown`), and no read is adrift of its socket (`NotAdrift`).
  The lemmas at the head of the module say what `Append`, `Tail`, concatenation
  and the listing of a set do to what a queue holds and to its order.

- `FrontendRpc_proofs`: `TypeCorrect`, `CallsAreKept`, `TasksStayAccounted` and
  `ImplementsRemoteCall`, the refinement of `RemoteCall`, step by step.
  That no call is lost needs to know that a request is made once and is in one
  place until its task begins (`Once`), that a result on its way back is final
  (`Final`), and that nothing is expected before both ends have greeted
  (`Handshake`). It holds for streams and channels of any size, those on which
  the two loops wait for each other included: waiting loses nothing. The same
  two facts carry the refinement: `Once` is why a request that is read begins a
  call no task has had, `Final` why what is answered is a verdict.

- `Parts_proofs` has the parts that touch no other, for limits, delays and
  documents of any size. Several of them compare two computations, one of which
  runs step by step and the other over the finished whole, and so need induction
  over numbers. It is done without the library's induction theorems: a set of
  numbers that is not empty has a least element (`LeastNumber`, from
  `NatLessThanWellFounded` and `WFMin`), so a set that has 0 and with each number
  the next has them all (`SetInduction`), and a function can be defined by
  recursion (`Recursion`). The models write their recursions as functions.

  - `DecodersMatchMakers`. A decoder that is half-way through a document has a
    stack of open lists; `TreeInv` says that what it has counted is what
    `validate_node` and `try_from` will count of the part that has been read,
    and that the depth of the next node is the height of the stack.
  - `EstimatesAreExact`. The text `decode` writes grows by exactly `field_cost`
    with each field (`EncodingGrows`), so the running size is its length.
  - `BatchesAreFaithful`. Each item is in its place and each image belongs to the
    next item that has one; an image that was taken fits with all before it, so
    the account at the end can only fail for what replaced other images.
  - `RolesWaitAsEarned`. Both loops compute the one curve (`CurveDoubles`,
    `RecycleDelayIsCurve`: the clamp of the shift at 16 never shows, because the
    cap is reached before it), and what the next election will count is settled
    when a role dies, however long it takes to wind down (`Earned`).
  - `SilenceEnds`. `Told` bounds the silence by the rounds since the last
    heartbeat of the deaths, each worth one heartbeat of an election's attempts,
    plus the attempts of this one; it needs that an election only goes quiet
    before its first heartbeat.
  - `CountsStayExact` and `ClosesEmpty` of the idle lifetime. The three parts of
    `IInv` need each other: closing is decided on the counters, so "nobody is
    there" follows only because the counters are exact.
  - `EncodingsAreTaken` and `OnlyEncodingsAreTaken` of the formats of the wire, for
    any number of deviations. Most of the 28 formats are `Regular`: each arm needs,
    keeps and bars what its variant has, so one argument does for all (`RegularWhole`
    for what an encoder writes, `RegularTaken` for what a visitor lets pass).
    Reactions are regular too, but not `Shut`: their arms let fields of other
    variants pass, which is their exception in `OnlyEncodings`. Errors and nodes
    have one arm for all variants (`Plain`), selectors one field (`Choice`), and
    screenshot assets two kinds of arm and a check across fields. `WireInv` says
    that the slots hold only what was let in, that a field that came twice or is
    nobody's has ended the object, and that a sender that has not deviated has
    every field of its shape written or still to write, and no other.

They assume only the named assumptions on constants: at least one slot, natural
limits, finitely many connections and requests, a value `None` that is no
call, request or frame, an envelope that has room for an empty object, and of the
supervisor's delays what the order of its steps relies on: that the cap is
reached before the shift is clamped and that the first heartbeat comes after the
last loud attempt. The types of `FrontendRpc` (with the capacity of every channel
and of the stream), `TypeCorrect` and `NeverOvertaken` of `SessionQueue`, the
types of `IdleLifetime`, `PluginsAreSpared` and the types in `PluginInv` are proved
and checked by no run.

What is model-checked only is liveness, which is beyond the prover, as `ENABLED` is:
the semaphore's fairness in `IsSemaphore`, `EveryWaiterResolves`,
`EveryCallIsAnswered`, `SocketsLeave`, `EveryCallEnds`, `CancelStopsWork`,
`Converges`, `AbandonedIsCancelled`, `NothingIsLeftWaiting`, `RequestsAreSettled` and
`QuietBrokerCloses`.

## 5. What is not modelled, and what is left

Inside the parts above:

- *Broker and plugin server*: progress frames (they extend a deadline and are
  forwarded), heartbeats beyond their effect of ending a socket, the abort of
  the plugin server's tasks by the supervisor, panics.
- *Supervision*: how long anything waits is `Recycling`'s matter; the optional
  IPv6 listener and the retries inside `elect` are left out.
- *ToolCall*: a progress frame's own deadline, the conversion of results and
  errors, and `Supervisor::shutdown`, which empties the client's cell on the way
  out. The command channel of a remote call is in `FrontendRpc`. The model has
  every broker of the past shut down by the time a new backend is installed,
  because `supervise` does so; sending a cancel to the current backend instead of
  the one the call was opened with would go unnoticed here for that reason.
- *Plugin*: the reconnection's delays, frames that cannot be parsed, repeated
  requests, pings, and the round trip in which the UI validates a screenshot.
- *Wire*: derived decoders, bounded strings and lists, number ranges, schemas
  and the framing of bytes: each checks one value and holds no state.

Altogether: the plugin's readers of the document, its validation of SVG, CSS and
rasters (parsers of text and bytes, of which small inputs show little), static
catalogues and prompts, logging's wording, and the plugin-side contracts, which
check the same values without state.

What would come next: a composition of `Plugin` with one broker-side socket, and pure modules of the
plugin's bounded searches.
