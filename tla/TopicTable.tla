----------------------------- MODULE TopicTable -----------------------------
(***************************************************************************)
(* What a TopicStorage promises to Discovery and to the message runtime: a *)
(* set of publishers, each operation a single step that says whether it    *)
(* changed the set.                                                        *)
(***************************************************************************)
EXTENDS TopicStorage

CONSTANTS Publisher, \* what may be added
          Key,       \* a topic, a process and a node
          Procs

VARIABLES table, result

Init == table = {} /\ result = FALSE

Add(pub) ==
    /\ table' = AddPublisher(table, pub)
    /\ result' = ~Contains(table, pub)

RemoveNode(key) ==
    /\ table' = DelPublishersByNode(table, key)
    /\ result' = Contains(table, key)

RemoveProc(p) ==
    /\ table' = DelPublishersByProc(table, {p})
    /\ result' = HasPublisher(table, p)

Clear == table' = {} /\ UNCHANGED result

Next == \/ \E pub \in Publisher : Add(pub)
        \/ \E key \in Key : RemoveNode(key)
        \/ \E p \in Procs : RemoveProc(p)
        \/ Clear

Spec == Init /\ [][Next]_<<table, result>>
=============================================================================
