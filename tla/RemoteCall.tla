----------------------------- MODULE RemoteCall -----------------------------
(***************************************************************************)
(* What a service request promises, without processes, sockets or threads: *)
(* the service runs a request at most once, and the requester learns       *)
(* nothing but the result of that run, or that it waited too long, or that *)
(* there is no service; in the last case the request never runs.  A        *)
(* request that timed out may have run, and may run later.                 *)
(***************************************************************************)
EXTENDS Sequences

CONSTANT Requests

VARIABLES runs,     \* results of the runs of each request, in order
          outcome   \* what its requester was told

Results == {"ok", "failed"}

Init == /\ runs = [r \in Requests |-> << >>]
        /\ outcome = [r \in Requests |-> "none"]

Run(r) ==
    /\ runs[r] = << >> /\ outcome[r] # "refused"
    /\ \E res \in Results : runs' = [runs EXCEPT ![r] = <<res>>]
    /\ UNCHANGED outcome

Answer(r) ==
    /\ outcome[r] = "none" /\ runs[r] # << >>
    /\ outcome' = [outcome EXCEPT ![r] = Head(runs[r])]
    /\ UNCHANGED runs

\* The service is in the requester's own process.
RunLocally(r) ==
    /\ outcome[r] = "none" /\ runs[r] = << >>
    /\ \E res \in Results : /\ runs' = [runs EXCEPT ![r] = <<res>>]
                            /\ outcome' = [outcome EXCEPT ![r] = res]

TimeOut(r) ==
    /\ outcome[r] = "none"
    /\ outcome' = [outcome EXCEPT ![r] = "timeout"]
    /\ UNCHANGED runs

Refuse(r) ==
    /\ outcome[r] = "none" /\ runs[r] = << >>
    /\ outcome' = [outcome EXCEPT ![r] = "refused"]
    /\ UNCHANGED runs

Next == \E r \in Requests :
            Run(r) \/ Answer(r) \/ RunLocally(r) \/ TimeOut(r) \/ Refuse(r)

Spec == Init /\ [][Next]_<<runs, outcome>>
=============================================================================
