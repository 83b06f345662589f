------------------------------- MODULE Plugin -------------------------------
(***************************************************************************)
(* The plugin's two halves: the iframe that holds the WebSocket to the     *)
(* broker (plugin/src/ui/socket.ts) and the controller that reads the      *)
(* document (plugin/src/main/dispatch.ts, cancellation.ts, progress.ts).   *)
(*                                                                         *)
(* Each runs one event at a time, and they exchange messages, in order, by *)
(* postMessage.  A generation is one WebSocket with what was asked of the  *)
(* controller on its behalf; sockets come and go while the controller goes *)
(* on.  A request is named by the fresh UUID the UI gives it, which stands *)
(* for the broker's own as well: on one socket neither is used twice.      *)
(*                                                                         *)
(* The broker is any peer that sends requests and cancels.  Reads are      *)
(* reduced to progress and an end; the round trip in which the UI          *)
(* validates a screenshot is part of a read.                               *)
(***************************************************************************)
EXTENDS SequencesExt, Integers, FiniteSets

CONSTANTS
    Requests,
    SOCKETS,    \* bound: sockets opened in the life of the plugin
    PROGRESS    \* bound: progress of one read

ASSUME InstanceAssumption ==
    SOCKETS \in Nat \ {0} /\ PROGRESS \in Nat \ {0} /\ IsFiniteSet(Requests)

VARIABLES
    generation,   \* the generation last created
    socket,       \* readyState of the active one's socket, or "none"
    helloSent,
    timer,        \* reconnectTimer is set
    owner,        \* requestOwners: each request's generation, or 0
    down,         \* frames of the broker on the active socket
    toController, toUi,
    work,         \* a read: "none", "running", "detached" or "ended"
    emitted,      \* its progress so far
    sentOn,       \* the generation on whose socket the broker sent it, or 0
    cancelled,    \* the requests the broker cancelled
    crossed       \* history: the frames of a request that the UI took and sent
connection == <<generation, socket, helloSent, timer>>
reading == <<work, emitted>>
broker == <<sentOn, cancelled>>
vars == <<connection, owner, down, toController, toUi, reading, broker, crossed>>

Init == /\ generation = 1 /\ socket = "connecting" /\ helloSent = FALSE /\ timer = FALSE
        /\ owner = [r \in Requests |-> 0] /\ down = <<>> /\ toController = <<>> /\ toUi = <<>>
        /\ work = [r \in Requests |-> "none"] /\ emitted = [r \in Requests |-> 0]
        /\ sentOn = [r \in Requests |-> 0] /\ cancelled = {}
        /\ crossed = [r \in Requests |-> <<>>]

-----------------------------------------------------------------------------
(* The broker, and the network.                                            *)

BrokerSends(r) ==
    /\ socket = "open" /\ helloSent
    /\ \/ /\ sentOn[r] = 0 /\ sentOn' = [sentOn EXCEPT ![r] = generation]
          /\ down' = Append(down, <<"request", r>>) /\ UNCHANGED cancelled
       \/ /\ sentOn[r] = generation /\ r \notin cancelled /\ cancelled' = cancelled \cup {r}
          /\ down' = Append(down, <<"cancel", r>>) /\ UNCHANGED sentOn
    /\ UNCHANGED <<connection, owner, toController, toUi, reading, crossed>>

\* The socket closes, or errs and is closed.  Frames that are still queued
\* find it so, and are not looked at.
Break == /\ socket \in {"connecting", "open"} /\ socket' = "closing" /\ down' = <<>>
         /\ UNCHANGED <<generation, helloSent, timer, owner, toController, toUi, reading, broker,
                        crossed>>

-----------------------------------------------------------------------------
(* The UI: the events of its socket.                                       *)

Opens == /\ socket = "connecting" /\ socket' = "open"
         /\ toController' = Append(toController, <<"metadata", generation>>)
         /\ UNCHANGED <<generation, helloSent, timer, owner, down, toUi, reading, broker, crossed>>

\* What the generation asked for is cancelled, and a reconnection scheduled.
Disowned(g) == [r \in Requests |-> IF owner[r] = g THEN 0 ELSE owner[r]]
ClosesQuietly ==   \* mutant: the requests are forgotten, not cancelled
    /\ socket = "closing" /\ socket' = "none" /\ timer' = TRUE
    /\ owner' = Disowned(generation)
    /\ UNCHANGED <<generation, helloSent, down, toController, toUi, reading, broker, crossed>>
Closes ==
    /\ socket = "closing" /\ socket' = "none" /\ timer' = TRUE
    /\ owner' = Disowned(generation)
    /\ LET cancels == {<<"cancel", r>> : r \in {q \in Requests : owner[q] = generation}}
       IN toController' = toController \o SetToSeq(cancels)
    /\ UNCHANGED <<generation, helloSent, down, toUi, reading, broker, crossed>>

Reconnects == /\ timer /\ generation < SOCKETS /\ timer' = FALSE
              /\ generation' = generation + 1 /\ socket' = "connecting" /\ helloSent' = FALSE
              /\ UNCHANGED <<owner, down, toController, toUi, reading, broker, crossed>>

\* A frame that crosses a socket other than the one its request came on is astray.
Crosses(r, frame) ==
    crossed' = [crossed EXCEPT ![r] =
                  Append(@, IF sentOn[r] = generation THEN frame ELSE "astray")]

Listens == socket = "open" /\ helloSent /\ down # <<>>

\* A request is owned and passed on.
TakeRequest(r) ==
    /\ Listens /\ Head(down) = <<"request", r>> /\ down' = Tail(down)
    /\ owner' = [owner EXCEPT ![r] = generation] /\ Crosses(r, "request")
    /\ toController' = Append(toController, <<"request", r>>)
    /\ UNCHANGED <<connection, toUi, reading, broker>>

\* A cancel is passed on while its request is owned, and ends that.
TakeCancelOnly(r) ==   \* mutant: the request stays owned
    /\ Listens /\ Head(down) = <<"cancel", r>> /\ down' = Tail(down)
    /\ IF owner[r] = generation
       THEN Crosses(r, "cancel") /\ toController' = Append(toController, <<"cancel", r>>)
       ELSE UNCHANGED <<toController, crossed>>
    /\ UNCHANGED <<connection, owner, toUi, reading, broker>>
TakeCancel(r) ==
    /\ Listens /\ Head(down) = <<"cancel", r>> /\ down' = Tail(down)
    /\ IF owner[r] = generation
       THEN /\ owner' = [owner EXCEPT ![r] = 0] /\ Crosses(r, "cancel")
            /\ toController' = Append(toController, <<"cancel", r>>)
       ELSE UNCHANGED <<owner, toController, crossed>>
    /\ UNCHANGED <<connection, toUi, reading, broker>>

-----------------------------------------------------------------------------
(* The UI: `receiveController`.                                            *)

\* The controller is ready: hello is sent, if it was asked for this socket.
Hello == /\ toUi # <<>> /\ Head(toUi)[1] = "ready" /\ toUi' = Tail(toUi)
         /\ helloSent' = (helloSent \/ (socket = "open" /\ Head(toUi)[2] = generation))
         /\ UNCHANGED <<generation, socket, timer, owner, down, toController, reading, broker,
                        crossed>>

\* What a read has to say is sent while the request is owned by a socket that
\* is open; its answer ends that.
Relay(r) ==
    /\ toUi # <<>> /\ Head(toUi) \in {<<"progress", r>>, <<"answer", r>>} /\ toUi' = Tail(toUi)
    /\ IF owner[r] = generation /\ socket = "open"
       THEN /\ Crosses(r, Head(toUi)[1])
            /\ owner' = IF Head(toUi)[1] = "answer" THEN [owner EXCEPT ![r] = 0] ELSE owner
       ELSE UNCHANGED <<owner, crossed>>
    /\ UNCHANGED <<connection, down, toController, reading, broker>>

-----------------------------------------------------------------------------
(* The controller.                                                         *)

Outside == UNCHANGED <<connection, owner, down, broker, crossed>>
Takes(message) == /\ toController # <<>> /\ Head(toController) = message
                  /\ toController' = Tail(toController) /\ Outside
Posts(kind, x) == toUi' = Append(toUi, <<kind, x>>)

TellMetadata(g) == /\ Takes(<<"metadata", g>>) /\ Posts("ready", g) /\ UNCHANGED reading

\* The heartbeat's first progress leaves before the read begins.
BeginRead(r) == /\ Takes(<<"request", r>>) /\ Posts("progress", r)
                /\ work' = [work EXCEPT ![r] = "running"]
                /\ emitted' = [emitted EXCEPT ![r] = 1]

\* The read loses its race: the request fails, and the read goes on by itself.
AbortRead(r) == /\ Takes(<<"cancel", r>>) /\ UNCHANGED emitted
                /\ IF work[r] = "running"
                   THEN Posts("answer", r) /\ work' = [work EXCEPT ![r] = "detached"]
                   ELSE UNCHANGED <<toUi, work>>

\* The heartbeat, or the read itself, which nothing stops from reporting.
Tick(r) == /\ work[r] \in {"running", "detached"} /\ emitted[r] < PROGRESS
           /\ emitted' = [emitted EXCEPT ![r] = @ + 1] /\ Posts("progress", r)
           /\ UNCHANGED <<work, toController>> /\ Outside

EndQuietly(r) ==   \* mutant: a read that throws is not answered
    /\ work[r] \in {"running", "detached"} /\ work' = [work EXCEPT ![r] = "ended"]
    /\ (work[r] = "running" /\ Posts("answer", r)) \/ UNCHANGED toUi
    /\ UNCHANGED <<emitted, toController>> /\ Outside
EndRead(r) == /\ work[r] \in {"running", "detached"} /\ work' = [work EXCEPT ![r] = "ended"]
              /\ IF work[r] = "running" THEN Posts("answer", r) ELSE UNCHANGED toUi
              /\ UNCHANGED <<emitted, toController>> /\ Outside

-----------------------------------------------------------------------------
UiStep == Closes \/ Hello \/ \E r \in Requests : TakeRequest(r) \/ TakeCancel(r) \/ Relay(r)
ControllerStep == \/ \E g \in 1..SOCKETS : TellMetadata(g)
                  \/ \E r \in Requests : BeginRead(r) \/ AbortRead(r)

Next == \/ UiStep \/ ControllerStep \/ Break \/ Opens \/ Reconnects
        \/ \E r \in Requests : BrokerSends(r) \/ Tick(r) \/ EndRead(r)

Spec == Init /\ [][Next]_vars

\* Events that are queued are handled, and reads end; no socket has to open,
\* and the broker has to do nothing.  A socket's close does not wait behind
\* frames, nor these behind the controller's messages.
Fairness == /\ WF_vars(Closes) /\ WF_vars(ControllerStep)
            /\ WF_vars(Hello \/ \E r \in Requests : Relay(r))
            /\ WF_vars(\E r \in Requests : TakeRequest(r) \/ TakeCancel(r))
            /\ \A r \in Requests : WF_vars(EndRead(r))
FairSpec == Spec /\ Fairness

-----------------------------------------------------------------------------
\* No read is left to itself: one that runs, or is about to, is owned by the
\* socket it was asked for on, or its cancel is on the way, also when sockets
\* break and reconnect meanwhile (socket.ts:66-76, :251-257).
WorkIsOwned ==
    \A r \in Requests :
       work[r] = "running" \/ Contains(toController, <<"request", r>>)
          => \/ owner[r] = generation /\ sentOn[r] = generation /\ socket \in {"open", "closing"}
             \/ Contains(toController, <<"cancel", r>>)

\* The broker is sent what it is due: frames of a request only on the socket
\* that brought it, and none after its answer or after its cancel was taken,
\* although a cancelled read goes on reporting (socket.ts:99-106, :227-240).
FramesAreDue ==
    \A r \in Requests : \A i \in DOMAIN crossed[r] :
       /\ i = 1 <=> crossed[r][i] = "request"
       /\ crossed[r][i] # "astray"
       /\ crossed[r][i] \in {"answer", "cancel"} => i = Len(crossed[r])

\* Every request is settled: answered, cancelled or given up with its socket,
\* as long as reads end (dispatch.ts:165-217).
RequestsAreSettled == \A r \in Requests : owner[r] # 0 ~> owner[r] = 0
=============================================================================
