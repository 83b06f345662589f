----------------------------- MODULE FrontendRpc -----------------------------
(***************************************************************************)
(* One connection between a follower and the leader (crates/broker/src/    *)
(* rpc.rs): the calls made on a `FrontendClient`, its `client_loop`, the   *)
(* two directions of the stream, `serve_frontend` in the leader and the    *)
(* task it spawns for each call.                                           *)
(*                                                                         *)
(* Either loop does one thing at a time: while it waits for a frame it     *)
(* sends to be taken by the stream, it reads nothing, takes no command and *)
(* no progress.  A call task that hands over progress waits, in the same   *)
(* way, for room in the channel, and looks neither at its result nor at    *)
(* its cancellation.  What blocks whom, and what a teardown leaves behind, *)
(* is what this module is about.                                           *)
(*                                                                         *)
(* A call is named by the fresh UUID the client gives it.  The broker that *)
(* serves the call is reduced to when it opens and when it answers.        *)
(***************************************************************************)
EXTENDS SequencesExt, Integers, FiniteSets

CONSTANTS
    Calls,
    COMMANDS,        \* capacity of the client's command channel (16)
    PROGRESS,        \* capacity of the connection's progress channel (32)
    UPLINK, DOWNLINK,\* frames the stream holds in each direction
    FRAMES,          \* bound: progress frames the plugin emits for one call
    Oversizable,     \* calls whose request may exceed MAX_ENVELOPE_BYTES
    MayShutDown,     \* whether the leader's broker may be shut down
    MayAbort,        \* whether the leader may drop its listeners while it serves
    MayMisbehave,    \* whether the peer is some other program, that may send a bad frame
    None

ASSUME InstanceAssumption ==
    /\ {COMMANDS, PROGRESS, UPLINK, DOWNLINK} \subseteq Nat \ {0}
    /\ FRAMES \in Nat /\ Oversizable \subseteq Calls
    /\ None \notin Calls \cup {"request", "cancel", "progress", "result"} \X Calls
    /\ {MayShutDown, MayAbort, MayMisbehave} \subseteq BOOLEAN

VARIABLES
    caller,      \* where each caller of `open` or `call` stands, its outcome included
    cancelling,  \* cancelled calls whose Cancel has still to enter `commands`
    commands,    \* the client's command channel
    client,      \* where `client_loop` stands
    outgoing,    \* the frame it is sending, or None
    expects,     \* keys of its maps `pending` and `progress`, which are the same
    uplink, downlink,
    server,      \* where `serve_frontend` stands; it holds its lease while "serving", "draining"
    reply,       \* the frame it is sending, or None
    active,      \* keys of its map `active`
    cancelled,   \* the calls whose CancellationToken is cancelled
    task,        \* where each call's task stands
    result,      \* what it ended with
    frames,      \* progress frames the plugin may still emit for the call
    progress,    \* the connection's progress channel
    shutdown     \* BrokerState.shutdown
calling == <<caller, cancelling>>
looping == <<client, outgoing, expects>>
serving == <<server, reply, active>>
working == <<task, result, frames>>
vars == <<calling, commands, looping, uplink, downlink, serving, cancelled, working,
          progress, shutdown>>

Request(c) == <<"request", c>>
Cancel(c)  == <<"cancel", c>>
Progress(c)== <<"progress", c>>
Result(c)  == <<"result", c>>
Bad        == <<"bad", None>>
Ready      == <<"ready", None>>

Init == /\ caller = [c \in Calls |-> "idle"] /\ cancelling = {} /\ commands = <<>>
        /\ client = "dialing" /\ outgoing = None /\ expects = {}
        /\ uplink = <<>> /\ downlink = <<>>
        /\ server = "handshake" /\ reply = None /\ active = {} /\ cancelled = {}
        /\ task = [c \in Calls |-> "none"] /\ result = [c \in Calls |-> "none"]
        /\ frames = [c \in Calls |-> FRAMES]
        /\ progress = <<>> /\ shutdown = FALSE

-----------------------------------------------------------------------------
(* The callers, in the follower's MCP service.                             *)

Step(c, from, to) == caller[c] = from /\ caller' = [caller EXCEPT ![c] = to]
HasRoom == client = "serving" /\ Len(commands) < COMMANDS

Start(c) == /\ client \in {"serving", "ended"} /\ Step(c, "idle", "asking")
            /\ UNCHANGED <<cancelling, commands, looping, uplink, downlink, serving, cancelled,
                           working, progress, shutdown>>

\* `open` up to its watcher: the request enters the channel, unless the loop
\* that reads it is gone.
Ask(c) ==
    /\ \/ /\ HasRoom /\ Step(c, "asking", "waiting")
          /\ commands' = Append(commands, Request(c))
       \/ client = "ended" /\ Step(c, "asking", "lost") /\ UNCHANGED commands
    /\ UNCHANGED <<cancelling, looping, uplink, downlink, serving, cancelled, working,
                   progress, shutdown>>

\* The caller cancels and leaves; the watcher of `open`, or `call` itself,
\* then has a Cancel to send.
SwallowedCancelCall(c) ==   \* mutant: dropping the OpenCall aborts its watcher all the same
    /\ Step(c, "waiting", "cancelled")
    /\ UNCHANGED <<cancelling, commands, looping, uplink, downlink, serving, cancelled, working,
                   progress, shutdown>>
CancelCall(c) ==
    /\ Step(c, "waiting", "cancelled") /\ cancelling' = cancelling \cup {c}
    /\ UNCHANGED <<commands, looping, uplink, downlink, serving, cancelled, working,
                   progress, shutdown>>
SendCancel(c) ==
    /\ c \in cancelling /\ cancelling' = cancelling \ {c}
    /\ \/ HasRoom /\ commands' = Append(commands, Cancel(c))
       \/ client = "ended" /\ UNCHANGED commands
    /\ UNCHANGED <<caller, looping, uplink, downlink, serving, cancelled, working,
                   progress, shutdown>>

\* The OpenCall is dropped uncancelled: its watcher is aborted.
DropCall(c) == /\ Step(c, "waiting", "dropped")
               /\ UNCHANGED <<cancelling, commands, looping, uplink, downlink, serving,
                              cancelled, working, progress, shutdown>>

-----------------------------------------------------------------------------
(* The client's loop.                                                      *)

Answered(calls, kind) ==
    caller' = [c \in Calls |-> IF c \in calls /\ caller[c] = "waiting" THEN kind ELSE caller[c]]

\* The loop ends: the calls it expects are failed, and those still in the
\* channel lose their senders with it.
EndLoop(also) ==
    /\ client' = "ended" /\ outgoing' = None /\ expects' = {} /\ commands' = <<>>
    /\ Answered(expects \cup also \cup {c \in Calls : Contains(commands, Request(c))}, "lost")

Connected == /\ client = "dialing" /\ downlink = <<Ready>>
             /\ client' = "serving" /\ downlink' = <<>>
             /\ UNCHANGED <<calling, commands, outgoing, expects, uplink, serving, cancelled,
                            working, progress, shutdown>>

\* An oversized request breaks the loop, after it was put in the maps.
TakeCommand ==
    /\ client = "serving" /\ outgoing = None /\ commands # <<>>
    /\ LET m == Head(commands)
           asks == IF m[1] = "request" THEN {m[2]} ELSE {} IN
       \/ /\ commands' = Tail(commands) /\ outgoing' = m /\ expects' = expects \cup asks
          /\ UNCHANGED <<caller, client>>
       \/ asks \cap Oversizable # {} /\ EndLoop(asks)
    /\ UNCHANGED <<cancelling, uplink, downlink, serving, cancelled, working, progress, shutdown>>

TransmitRepeats ==   \* mutant: the frame is sent again
            /\ outgoing # None /\ Len(uplink) < UPLINK
            /\ uplink' = Append(uplink, outgoing)
            /\ UNCHANGED <<calling, commands, looping, downlink, serving, cancelled, working,
                           progress, shutdown>>
Transmit == /\ outgoing # None /\ Len(uplink) < UPLINK
            /\ uplink' = Append(uplink, outgoing) /\ outgoing' = None
            /\ UNCHANGED <<calling, commands, client, expects, downlink, serving, cancelled,
                           working, progress, shutdown>>

\* A result answers the call if it is still expected; progress is passed on
\* if there is room, which no property depends on.
ReceiveFrame ==
    /\ client = "serving" /\ outgoing = None /\ downlink # <<>>
    /\ LET m == Head(downlink) IN
       IF m[1] = "result" THEN expects' = expects \ {m[2]}
                               /\ Answered(expects \cap {m[2]}, result[m[2]])
                          ELSE UNCHANGED <<expects, caller>>
    /\ downlink' = Tail(downlink)
    /\ UNCHANGED <<cancelling, commands, client, outgoing, uplink, serving, cancelled, working,
                   progress, shutdown>>

\* The stream ends, dialing fails or times out, or the follower goes away
\* (its supervisor dropped the client, its process ended).
LoopEnds == /\ client \in {"dialing", "serving"} /\ EndLoop({})
            /\ UNCHANGED <<cancelling, uplink, downlink, serving, cancelled, working, progress,
                           shutdown>>

\* Some other program at this end sends what cannot be decoded, or repeats an
\* id that is active.
Misbehave == /\ MayMisbehave /\ client = "serving" /\ outgoing = None /\ Len(uplink) < UPLINK
             /\ ~Contains(uplink, Bad)
             /\ uplink' = Append(uplink, Bad)
             /\ UNCHANGED <<calling, commands, looping, downlink, serving, cancelled, working,
                            progress, shutdown>>

-----------------------------------------------------------------------------
(* The leader's side of the connection.                                    *)

\* The hello arrives in time and in the right version, and the broker is not
\* closing: a lease is taken, and Ready sent.
Welcome == /\ server = "handshake"
           /\ server' = "serving" /\ downlink' = <<Ready>>
           /\ UNCHANGED <<calling, commands, looping, uplink, reply, active, cancelled, working,
                          progress, shutdown>>
\* Or else the connection is closed.
Refuse == /\ server = "handshake" /\ server' = "ended"
          /\ UNCHANGED <<calling, commands, looping, uplink, downlink, reply, active, cancelled,
                         working, progress, shutdown>>

\* The loop is left: what was active is cancelled, and its tasks are awaited.
Teardown == /\ server' = "draining" /\ reply' = None
            /\ cancelled' = cancelled \cup active /\ active' = {}

AtSelect == server = "serving" /\ reply = None

Read ==
    /\ AtSelect /\ uplink # <<>> /\ uplink' = Tail(uplink)
    /\ LET m == Head(uplink) IN
       \/ /\ m[1] = "request"
          /\ active' = active \cup {m[2]} /\ task' = [task EXCEPT ![m[2]] = "opening"]
          /\ UNCHANGED <<server, reply, cancelled>>
       \/ /\ m[1] = "cancel" /\ cancelled' = cancelled \cup ({m[2]} \cap active)
          /\ UNCHANGED <<serving, task>>
       \/ m = Bad /\ Teardown /\ UNCHANGED task
    /\ UNCHANGED <<calling, commands, looping, downlink, result, frames, progress, shutdown>>

TakeProgress == /\ AtSelect /\ progress # <<>>
                /\ reply' = Progress(Head(progress)) /\ progress' = Tail(progress)
                /\ UNCHANGED <<calling, commands, looping, uplink, downlink, server, active,
                               cancelled, working, shutdown>>

\* A finished task is joined and its result sent; one that is too large is
\* replaced by LIMIT_EXCEEDED, which is small.
JoinDropsOversize(c) ==   \* mutant: nothing is sent in place of a result that is too large
    /\ AtSelect /\ task[c] = "done"
    /\ task' = [task EXCEPT ![c] = "joined"] /\ active' = active \ {c}
    /\ reply' = IF result[c] = "big" THEN None ELSE Result(c)
    /\ result' = [result EXCEPT ![c] = IF @ = "big" THEN "limit" ELSE @]
    /\ UNCHANGED <<calling, commands, looping, uplink, downlink, server, cancelled, frames,
                   progress, shutdown>>
JoinForgets(c) ==   \* mutant: the call stays in `active`
    /\ AtSelect /\ task[c] = "done"
    /\ task' = [task EXCEPT ![c] = "joined"]
    /\ reply' = Result(c)
    /\ result' = [result EXCEPT ![c] = IF @ = "big" THEN "limit" ELSE @]
    /\ UNCHANGED <<calling, commands, looping, uplink, downlink, server, active, cancelled,
                   frames, progress, shutdown>>
Join(c) ==
    /\ AtSelect /\ task[c] = "done"
    /\ task' = [task EXCEPT ![c] = "joined"] /\ active' = active \ {c}
    /\ reply' = Result(c)
    /\ result' = [result EXCEPT ![c] = IF @ = "big" THEN "limit" ELSE @]
    /\ UNCHANGED <<calling, commands, looping, uplink, downlink, server, cancelled, frames,
                   progress, shutdown>>

Reply == /\ reply # None /\ Len(downlink) < DOWNLINK
         /\ downlink' = Append(downlink, reply) /\ reply' = None
         /\ UNCHANGED <<calling, commands, looping, uplink, server, active, cancelled, working,
                        progress, shutdown>>

\* The stream has ended or failed, or the broker is shut down while the loop
\* waits for something to do.
StopServing == /\ server = "serving" /\ (client = "ended" \/ (shutdown /\ reply = None))
               /\ Teardown
               /\ UNCHANGED <<calling, commands, looping, uplink, downlink, working, progress,
                              shutdown>>

Working(c) == task[c] \in {"opening", "running", "reporting", "stopping"}

\* `serve_frontend` returns: the stream is closed and the lease dropped.
Drained == /\ server = "draining" /\ \A c \in Calls : ~Working(c)
           /\ server' = "ended"
           /\ UNCHANGED <<calling, commands, looping, uplink, downlink, reply, active, cancelled,
                          working, progress, shutdown>>

\* The supervisor drops its listeners, and with them this task and its calls.
Abort == /\ MayAbort /\ server \in {"serving", "draining"}
         /\ server' = "ended" /\ reply' = None /\ active' = {}
         /\ task' = [c \in Calls |-> IF task[c] = "none" THEN "none" ELSE "joined"]
         /\ UNCHANGED <<calling, commands, looping, uplink, downlink, cancelled, result, frames,
                        progress, shutdown>>

ShutDown == /\ MayShutDown /\ ~shutdown /\ shutdown' = TRUE
            /\ UNCHANGED <<calling, commands, looping, uplink, downlink, serving, cancelled,
                           working, progress>>

-----------------------------------------------------------------------------
(* The task of a call.                                                     *)

Move(c, from, to) == task[c] = from /\ task' = [task EXCEPT ![c] = to]
Finish(c, from, kind) == Move(c, from, "done") /\ result' = [result EXCEPT ![c] = kind]
Alone == UNCHANGED <<calling, commands, looping, uplink, downlink, serving, cancelled, shutdown>>

\* Opening waits for a slot, whatever is cancelled meanwhile, or fails.
Open(c) == /\ \/ Move(c, "opening", "running") /\ UNCHANGED result
              \/ Finish(c, "opening", "error")
           /\ UNCHANGED <<frames, progress>> /\ Alone

TakeResult(c) == /\ \E kind \in {"ok", "big", "error"} : Finish(c, "running", kind)
                 /\ UNCHANGED <<frames, progress>> /\ Alone

TakeFrame(c) == /\ frames[c] > 0 /\ Move(c, "running", "reporting")
                /\ frames' = [frames EXCEPT ![c] = @ - 1]
                /\ UNCHANGED <<result, progress>> /\ Alone
Report(c) == /\ Len(progress) < PROGRESS /\ Move(c, "reporting", "running")
             /\ progress' = Append(progress, c)
             /\ UNCHANGED <<result, frames>> /\ Alone

\* The cancellation is seen, `Broker::cancel` awaited, and the call ends.
Obey(c) == /\ \/ c \in cancelled /\ Move(c, "running", "stopping") /\ UNCHANGED result
              \/ Finish(c, "stopping", "error")
           /\ UNCHANGED <<frames, progress>> /\ Alone

-----------------------------------------------------------------------------
CallerStep(c) == Ask(c) \/ SendCancel(c)
ClientStep == Connected \/ TakeCommand \/ Transmit \/ ReceiveFrame
ServerStep == Read \/ TakeProgress \/ (\E c \in Calls : Join(c)) \/ Reply \/ StopServing \/ Drained
TaskStep(c) == Open(c) \/ Report(c) \/ Obey(c)

Next == \/ \E c \in Calls : \/ Start(c) \/ CallerStep(c) \/ CancelCall(c) \/ DropCall(c)
                            \/ TaskStep(c) \/ TakeResult(c) \/ TakeFrame(c)
        \/ ClientStep \/ LoopEnds \/ Misbehave
        \/ Welcome \/ Refuse \/ ServerStep \/ Abort \/ ShutDown

Spec == Init /\ [][Next]_vars

\* Tasks that can run do.  The broker opens a call, or refuses to, in the end
\* (see Broker).  The end of the leader's side is seen by the client once it
\* has read what came before.
SeesEnd == server = "ended" /\ downlink = <<>> /\ LoopEnds
Fairness == /\ \A c \in Calls : WF_vars(CallerStep(c)) /\ WF_vars(TaskStep(c))
            /\ WF_vars(ClientStep) /\ WF_vars(ServerStep) /\ WF_vars(SeesEnd)
FairSpec == Spec /\ Fairness


-----------------------------------------------------------------------------
Outcomes == {"idle", "asking", "waiting", "cancelled", "dropped", "lost", "ok", "limit", "error"}
Up   == {Request(c) : c \in Calls} \cup {Cancel(c) : c \in Calls}
Down == {Progress(c) : c \in Calls} \cup {Result(c) : c \in Calls}

\* The types, and the capacities.
TypeOK ==
    /\ caller \in [Calls -> Outcomes] /\ cancelling \subseteq Calls
    /\ commands \in Seq(Up) /\ Len(commands) <= COMMANDS
    /\ client \in {"dialing", "serving", "ended"} /\ outgoing \in Up \cup {None}
    /\ expects \subseteq Calls
    /\ uplink \in Seq(Up \cup {Bad}) /\ Len(uplink) <= UPLINK
    /\ downlink \in Seq(Down \cup {Ready}) /\ Len(downlink) <= DOWNLINK
    /\ server \in {"handshake", "serving", "draining", "ended"} /\ reply \in Down \cup {None}
    /\ active \cup cancelled \subseteq Calls
    /\ task \in [Calls -> {"none", "opening", "running", "reporting", "stopping", "done", "joined"}]
    /\ result \in [Calls -> {"none", "ok", "big", "limit", "error"}]
    /\ frames \in [Calls -> 0..FRAMES]
    /\ progress \in Seq(Calls) /\ Len(progress) <= PROGRESS
    /\ shutdown \in BOOLEAN

\* No call is lost while both ends serve: a call the client expects a result
\* for is on its way there, being worked on, or on its way back.
NoCallIsLost == \A c \in expects : client = "serving" /\ server = "serving" =>
    \/ outgoing = Request(c) \/ Contains(uplink, Request(c))
    \/ c \in active
    \/ reply = Result(c) \/ Contains(downlink, Result(c))

\* Nothing is done that nobody can stop: while a connection is served, exactly
\* the calls that have a task can be cancelled by name; afterwards all those tasks
\* are cancelled; and when the leader may count this frontend as gone, no task is
\* left.
TasksAreAccounted ==
    /\ server = "serving" => active = {c \in Calls : Working(c) \/ task[c] = "done"}
    /\ server = "draining" => {c \in Calls : Working(c)} \subseteq cancelled
    /\ server = "ended" => \A c \in Calls : ~Working(c)

\* A call as RemoteCall has it: no request has left its caller before it waits,
\* and what the work came to stands once its task is joined.
Outcome(c) == CASE caller[c] \in {"idle", "asking"} -> "unsent"
                [] caller[c] = "waiting" -> "open"
                [] OTHER -> caller[c]
WorkOn(c) == CASE task[c] = "none" -> "none" [] task[c] = "joined" -> "over" [] OTHER -> "begun"
Verdict(c) == IF task[c] = "joined" /\ result[c] \in {"ok", "limit", "error"}
              THEN result[c] ELSE "none"

Remote == INSTANCE RemoteCall WITH
              outcome <- [c \in Calls |-> Outcome(c)],
              work    <- [c \in Calls |-> WorkOn(c)],
              verdict <- [c \in Calls |-> Verdict(c)]

\* Requests, cancels and results cross in channels that are torn down at any
\* time; still no call is worked on twice, and no caller gets an answer that is
\* not the verdict on its own call.
IsRemoteCall == Remote!Spec

\* Every call gets a result, from the leader or by the loss of the connection,
\* however slow the stream is and whatever other calls do, if a call that stays
\* open is answered at last, by the plugin or at its deadline.
CallsEnd == \A c \in Calls : WF_vars(TakeResult(c))
EveryCallEnds == CallsEnd => \A c \in Calls :
    caller[c] \in {"asking", "waiting"} ~> caller[c] \notin {"asking", "waiting"}

\* Cancelling a call stops the work on it, without the plugin's help, as long
\* as the connection is served.
OnItsWay(c) == server # "ended" /\ \/ Contains(commands, Request(c)) \/ outgoing = Request(c)
                                   \/ Contains(uplink, Request(c))
CancelStopsWork == \A c \in Calls :
    caller[c] = "cancelled" ~> (~Working(c) /\ ~OnItsWay(c)) \/ server = "draining"

\* What tests/integration/multi_client.rs says of a connection that sent a bad
\* frame: its calls are cancelled and it is closed.
BadFrameCloses == server = "draining" /\ client = "serving" ~> server = "ended"
=============================================================================
