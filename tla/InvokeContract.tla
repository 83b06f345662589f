--------------------------- MODULE InvokeContract ---------------------------
(***************************************************************************)
(* What `Broker::invoke` promises its callers: the plugin is asked at most *)
(* once, only while the call is open; the call gets at most one answer;    *)
(* the plugin's answer is given only if the plugin was asked; and a call   *)
(* that was refused was never sent.  Broker implements this.               *)
(***************************************************************************)
CONSTANT Calls

VARIABLES asked,    \* calls whose request was put on the way to the plugin
          answer
vars == <<asked, answer>>

Init == asked = {} /\ answer = [c \in Calls |-> "none"]

Open(c) == answer[c] = "none"
Give(c, kind) == answer' = [answer EXCEPT ![c] = kind]

Ask(c)    == Open(c) /\ c \notin asked /\ asked' = asked \cup {c} /\ UNCHANGED answer
Reply(c)  == Open(c) /\ c \in asked /\ Give(c, "answered") /\ UNCHANGED asked
Refuse(c) == Open(c) /\ c \notin asked /\ Give(c, "refused") /\ UNCHANGED asked
Fail(c)   == Open(c) /\ Give(c, "failed") /\ UNCHANGED asked

Next == \E c \in Calls : Ask(c) \/ Reply(c) \/ Refuse(c) \/ Fail(c)

Spec == Init /\ [][Next]_vars
=============================================================================
