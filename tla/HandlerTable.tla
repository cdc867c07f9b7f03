---------------------------- MODULE HandlerTable ----------------------------
(***************************************************************************)
(* What a HandlerStorage promises to the message runtime and the service   *)
(* runtime: a set of handlers, by topic, node and their own uuid.          *)
(***************************************************************************)
CONSTANTS Topics, Nodes, Ids, Handler

VARIABLES handlers, result

Init == handlers = {} /\ result = FALSE

AddHandler(h) == handlers' = handlers \union {h} /\ UNCHANGED result

\* The handlers selected go; the result says whether there were any.
Remove(selected) ==
    /\ handlers' = handlers \ selected
    /\ result' = (selected \intersect handlers # {})

Next ==
    \/ \E h \in Handler : AddHandler(h)
    \/ \E t \in Topics, n \in Nodes :
          \/ Remove({h \in handlers : h.topic = t /\ h.node = n})
          \/ \E id \in Ids : Remove({h \in handlers : h.topic = t /\ h.node = n /\ h.uuid = id})

Spec == Init /\ [][Next]_<<handlers, result>>
=============================================================================
