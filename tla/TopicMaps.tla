------------------------------ MODULE TopicMaps -----------------------------
(***************************************************************************)
(* TopicStorage<Pub> of topic_storage.hpp as it is built: a map from topic *)
(* to a map from process to the publishers of that process.  Each          *)
(* operation holds the table's mutex throughout, so it is one step; the    *)
(* interleaving of its callers is the order of the steps.  A vector of     *)
(* publishers is the set of its elements.  It implements TopicTable, the   *)
(* set of publishers the other models work with.                           *)
(***************************************************************************)
EXTENDS TopicStorage, Maps

CONSTANTS Procs,
          AddrOf     \* the address that publishers of a process are given: in
                     \* remote_subscribers_ the same for all, else its endpoint

Key == [topic : Topics, proc : Procs, node : Nodes]
Publisher == {pub \in [topic : Topics, proc : Procs, node : Nodes, type : Types,
                       addr : {AddrOf[p] : p \in Procs}] : pub.addr = AddrOf[pub.proc]}

VARIABLES data,   \* data_
          result  \* what the last operation returned

vars == <<data, result>>

Init == data = Nothing /\ result = FALSE

-----------------------------------------------------------------------------
\* Mutant: the node is not compared.
AddOnePerProc(pub) ==
    LET procs == At(data, pub.topic, Nothing)
        list  == At(procs, pub.proc, {}) IN
    IF \E e \in list : e.addr = pub.addr
    THEN result' = FALSE /\ UNCHANGED data
    ELSE /\ data' = With(data, pub.topic, With(procs, pub.proc, list \union {pub}))
         /\ result' = TRUE

\* addPublisher
Add(pub) ==
    LET procs == At(data, pub.topic, Nothing)
        list  == At(procs, pub.proc, {}) IN
    IF \E e \in list : e.addr = pub.addr /\ e.node = pub.node
    THEN result' = FALSE /\ UNCHANGED data
    ELSE /\ data' = With(data, pub.topic, With(procs, pub.proc, list \union {pub}))
         /\ result' = TRUE

\* Mutant: the list that is left empty stays.
RemoveNodeKeepsList(key) ==
    IF key.topic \in DOMAIN data /\ key.proc \in DOMAIN data[key.topic]
    THEN LET list == data[key.topic][key.proc]
             left == {e \in list : e.node # key.node} IN
         /\ data' = With(data, key.topic, With(data[key.topic], key.proc, left))
         /\ result' = (left # list)
    ELSE result' = FALSE /\ UNCHANGED data

\* delPublishersByNode: a list left empty goes, and a topic left empty.
RemoveNode(key) ==
    IF key.topic \in DOMAIN data /\ key.proc \in DOMAIN data[key.topic]
    THEN LET list  == data[key.topic][key.proc]
             left  == {e \in list : e.node # key.node}
             procs == IF left = {} THEN Without(data[key.topic], key.proc)
                                   ELSE With(data[key.topic], key.proc, left) IN
         /\ data' = IF DOMAIN procs = {} THEN Without(data, key.topic)
                                         ELSE With(data, key.topic, procs)
         /\ result' = (left # list)
    ELSE result' = FALSE /\ UNCHANGED data

\* Mutant: a topic left empty stays.
RemoveProcKeepsTopic(p) ==
    /\ data' = [t \in DOMAIN data |-> Without(data[t], p)]
    /\ result' = \E t \in DOMAIN data : p \in DOMAIN data[t]

\* delPublishersByProc
RemoveProc(p) ==
    /\ data' = [t \in {u \in DOMAIN data : DOMAIN data[u] \ {p} # {}} |-> Without(data[t], p)]
    /\ result' = \E t \in DOMAIN data : p \in DOMAIN data[t]

\* clear
Clear == data' = Nothing /\ UNCHANGED result

Next == \/ \E pub \in Publisher : Add(pub)
        \/ \E key \in Key : RemoveNode(key)
        \/ \E p \in Procs : RemoveProc(p)
        \/ Clear

Spec == Init /\ [][Next]_vars

-----------------------------------------------------------------------------
(* Queries.                                                                *)

HasTopic(t)            == t \in DOMAIN data
HasAnyPublishers(t, p) == HasTopic(t) /\ p \in DOMAIN data[t]
HasTopicOfType(t, type) ==
    HasTopic(t) /\ \E p \in DOMAIN data[t] : \E pub \in data[t][p] : pub.type \in {type, Generic}
HasAddress(addr) ==
    \E t \in DOMAIN data : \E p \in DOMAIN data[t] : \E pub \in data[t][p] : pub.addr = addr

\* getPublisher: the publishers it may choose the first of.
Found(t, p, n) == IF HasAnyPublishers(t, p) THEN {pub \in data[t][p] : pub.node = n} ELSE {}

\* getPublishers, getPublishersByProc and getPublishersByNode.
OfTopic(t)   == IF HasTopic(t) THEN UNION {data[t][p] : p \in DOMAIN data[t]} ELSE {}
OfProc(p)    == UNION {data[t][p] : t \in {u \in DOMAIN data : p \in DOMAIN data[u]}}
OfNode(p, n) == {pub \in OfProc(p) : pub.node = n}

TopicList == DOMAIN data

-----------------------------------------------------------------------------
Entries == UNION {UNION {data[t][p] : p \in DOMAIN data[t]} : t \in DOMAIN data}

\* Types, and the shape of the maps: a publisher stands under its own topic
\* and process, no key is left without a publisher, no key is there twice.
Typed ==
    /\ result \in BOOLEAN
    /\ DOMAIN data \subseteq Topics
    /\ \A t \in DOMAIN data : /\ DOMAIN data[t] \subseteq Procs
                              /\ \A p \in DOMAIN data[t] : data[t][p] \subseteq Publisher
Filed ==
    \A t \in DOMAIN data : \A p \in DOMAIN data[t] : \A pub \in data[t][p] :
        pub.topic = t /\ pub.proc = p
NoEmptyKey ==
    \A t \in DOMAIN data : DOMAIN data[t] # {} /\ \A p \in DOMAIN data[t] : data[t][p] # {}
OneOfAKey == \A a, b \in Entries : SameKey(a, b) => a = b

WellFormed == Typed /\ Filed /\ NoEmptyKey /\ OneOfAKey

\* Every query on the maps answers what the set of publishers says: a topic
\* or a process that has lost its last publisher is not found any more, or
\* discover and Node::request would go on with nobody behind them.
QueriesAgree ==
    /\ TopicList = {e.topic : e \in Entries}
    /\ \A t \in Topics :
          /\ HasTopic(t) <=> GetPublishers(Entries, t) # {}
          /\ OfTopic(t) = GetPublishers(Entries, t)
          /\ \A type \in Types :
                HasTopicOfType(t, type) <=> \E e \in GetPublishers(Entries, t) : e.type \in {type, Generic}
          /\ \A p \in Procs :
                HasAnyPublishers(t, p) <=> \E e \in GetPublishers(Entries, t) : e.proc = p
    /\ \A p \in Procs :
          /\ OfProc(p) = GetPublishersByProc(Entries, p)
          /\ \A n \in Nodes : OfNode(p, n) = {e \in GetPublishersByProc(Entries, p) : e.node = n}
          /\ (\A q \in Procs : AddrOf[q] = AddrOf[p] => q = p)
                => (HasAddress(AddrOf[p]) <=> HasPublisher(Entries, p))
    /\ \A key \in Key : Found(key.topic, key.proc, key.node) = {e \in Entries : SameKey(e, key)}

\* The maps are the set of their publishers: each operation changes it and
\* answers as the operation of that name does on the set.
Table == INSTANCE TopicTable WITH table <- Entries
SameOperation ==
    /\ \A pub \in Publisher : Add(pub) => Table!Add(pub)
    /\ \A key \in Key : RemoveNode(key) => Table!RemoveNode(key)
    /\ \A p \in Procs : RemoveProc(p) => Table!RemoveProc(p)
ImplementsTopicTable == Table!Spec /\ [][SameOperation]_vars
=============================================================================
