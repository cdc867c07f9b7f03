-------------------------- MODULE MCMessageRuntime --------------------------
(* Instances of MessageRuntime for TLC.                                    *)
EXTENDS MessageRuntime, TLC

CONSTANTS p1, p2

\* Both processes on one host, or each on a host of its own.
OneHost  == [p \in Procs |-> "h1"]
TwoHosts == [p \in Procs |-> IF p = p2 THEN "h2" ELSE "h1"]

\* p1 publishes and p2 subscribes, each with one node.
Publishing == {<<p1, "alice">>}
Listening  == {<<p2, "bob">>}
\* Two nodes of p2 subscribe.
BothListen == {<<p2, "alice">>, <<p2, "bob">>}
=============================================================================
