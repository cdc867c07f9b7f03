------------------------------ MODULE Mailbox ------------------------------
(***************************************************************************)
(* What the shared-memory transport promises its users, with no slot, no   *)
(* sequence number and no step smaller than a message: a message that was  *)
(* sent may reach the callback of a reader, whole, or be lost; it is never *)
(* altered and nothing else is ever delivered.  ShmRing implements it.     *)
(***************************************************************************)
CONSTANTS Readers,  \* subscribing processes
          Words,    \* the pieces a payload is copied in
          Message   \* the messages that can be sent

VARIABLES posted,     \* the messages whose descriptor was sent
          delivered   \* what the callbacks received: a reader and the words

vars == <<posted, delivered>>

Whole(m) == [w \in Words |-> m]

Init == posted = {} /\ delivered = {}

Post(m) ==
    /\ posted' = posted \union {m}
    /\ UNCHANGED delivered

Deliver(r, m) ==
    /\ m \in posted
    /\ delivered' = delivered \union {[reader |-> r, msg |-> Whole(m)]}
    /\ UNCHANGED posted

Next ==
    \/ \E m \in Message : Post(m)
    \/ \E r \in Readers, m \in Message : Deliver(r, m)

Spec == Init /\ [][Next]_vars
=============================================================================
