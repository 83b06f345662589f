----------------------------- MODULE RemoteCall -----------------------------
(***************************************************************************)
(* What the connection between a follower and its leader promises about a  *)
(* call, whatever becomes of the connection, of either end and of other    *)
(* calls: the leader begins to work on it once at most, and only if it was *)
(* sent; the work ends once, with a verdict or without; and the caller     *)
(* gets one outcome, which is, if it is an answer, the verdict on the work *)
(* on this very call.  FrontendRpc implements this.                        *)
(***************************************************************************)
CONSTANT Calls

VARIABLES outcome,   \* of each call at its caller: "unsent", "open", or how it ended
          work,      \* of the leader on it: "none", "begun" or "over"
          verdict    \* on the work that is over, or "none"
vars == <<outcome, work, verdict>>

Verdicts == {"ok", "limit", "error"}

Init == /\ outcome = [c \in Calls |-> "unsent"]
        /\ work = [c \in Calls |-> "none"]
        /\ verdict = [c \in Calls |-> "none"]

Becomes(c, kind) == /\ outcome' = [outcome EXCEPT ![c] = kind]
                    /\ UNCHANGED <<work, verdict>>

Send(c)    == outcome[c] = "unsent" /\ Becomes(c, "open")
Answer(c)  == /\ outcome[c] = "open" /\ work[c] = "over" /\ verdict[c] \in Verdicts
              /\ Becomes(c, verdict[c])
Abandon(c) == outcome[c] = "open" /\ \E kind \in {"cancelled", "dropped"} : Becomes(c, kind)

\* A connection that is lost ends many calls.
Lose(S) == /\ \A c \in S : outcome[c] \in {"unsent", "open"}
           /\ outcome' = [c \in Calls |-> IF c \in S THEN "lost" ELSE outcome[c]]
           /\ UNCHANGED <<work, verdict>>

Begin(c) == /\ outcome[c] # "unsent" /\ work[c] = "none"
            /\ work' = [work EXCEPT ![c] = "begun"]
            /\ UNCHANGED <<outcome, verdict>>

\* So may the work on many.
End(S) == /\ \A c \in S : work[c] = "begun"
          /\ work' = [c \in Calls |-> IF c \in S THEN "over" ELSE work[c]]
          /\ \E v \in [S -> Verdicts \cup {"none"}] :
                verdict' = [c \in Calls |-> IF c \in S THEN v[c] ELSE verdict[c]]
          /\ UNCHANGED outcome

Next == \/ \E c \in Calls : Send(c) \/ Answer(c) \/ Abandon(c) \/ Begin(c)
        \/ \E S \in SUBSET Calls : Lose(S) \/ End(S)

Spec == Init /\ [][Next]_vars
=============================================================================
