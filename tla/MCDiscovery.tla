---------------------------- MODULE MCDiscovery ----------------------------
(* Instances of Discovery for TLC.                                         *)
EXTENDS Discovery, TLC

CONSTANTS p1, p2

\* Both processes are on one host.
OneHost == [p \in Procs |-> "h1"]

\* Every node of every process, or those of one process.
Everyone == Procs \X Nodes
Only1    == {p1} \X Nodes
Only2    == {p2} \X Nodes
=============================================================================
