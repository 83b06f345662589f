------------------------------ MODULE MCBroker ------------------------------
(* Instances for TLC. *)
EXTENDS Broker, TLC

CONSTANTS c1, s1, s2, r1, r2, r3

\* Two plugins, one connection id: a reconnect, or a duplicate.
OneConn  == {c1}
TwoSocks == {s1, s2}
SameConn == [s \in TwoSocks |-> c1]
TwoCalls == {r1, r2}
ToC1     == [r \in TwoCalls |-> c1]

\* One plugin, three calls: a line, a refusal, a hand-over.
OneSock    == {s1}
SoleConn   == [s \in OneSock |-> c1]
ThreeCalls == {r1, r2, r3}
AllToC1    == [r \in ThreeCalls |-> c1]

JustR1 == {r1}
JustR2 == {r2}
Nobody == {}

Swap2 == Permutations(TwoSocks)
=============================================================================
