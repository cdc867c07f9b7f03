-------------------------- MODULE MCServiceRuntime --------------------------
(* Instances of ServiceRuntime for TLC: process p1 requests the service     *)
(* "sum" of p2, whose callback may request "log" of p1.                    *)
EXTENDS ServiceRuntime, TLC

CONSTANTS p1, p2, r1, r2

Service(type, p, n) == [topic |-> "calc", type |-> type, proc |-> p, node |-> n]
Wants(type)         == [topic |-> "calc", type |-> type]

BothServe == {Service("sum", p2, "a"), Service("log", p1, "b")}
OnlyLog   == {Service("log", p1, "b")}

MCCallers == [r \in Requests |-> IF r = r1 THEN {p1} ELSE {p1, p2}]
MCWant    == [r \in Requests |-> Wants(IF r = r1 THEN "sum" ELSE "log")]
=============================================================================
