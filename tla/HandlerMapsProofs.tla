-------------------------- MODULE HandlerMapsProofs -------------------------
(***************************************************************************)
(* Theorems about HandlerMaps, for any topics, nodes, handlers and types:  *)
(* a node is a key only while it has handlers, the queries answer what the *)
(* set of handlers says, every operation changes that set as HandlerTable  *)
(* says, and only removeHandler leaves a topic without handlers.           *)
(***************************************************************************)
EXTENDS HandlerMaps, TLAPS

-----------------------------------------------------------------------------
(* What each operation does to the keys and to the handlers under them.    *)
(* At the topic it works on, the operation leaves the map nodes; the other *)
(* topics keep theirs.                                                     *)

\* A step that puts a map of nodes with handlers at a topic keeps the shape.
LEMMA PutWellFormed ==
  ASSUME HandlersWellFormed, NEW t \in Topics, NEW nodes, handlerData' = With(handlerData, t, nodes),
         DOMAIN nodes \subseteq Nodes, handlerResult' \in BOOLEAN,
         \A n \in DOMAIN nodes : nodes[n] \subseteq Ids /\ nodes[n] # {}
  PROVE  /\ HandlersWellFormed'
         /\ \A h \in Handler : GetHandler(h.topic, h.node, h.uuid)' <=>
               IF h.topic = t THEN h.node \in DOMAIN nodes /\ h.uuid \in nodes[h.node]
                              ELSE GetHandler(h.topic, h.node, h.uuid)
         /\ Hollow' = (Hollow \ {t}) \union (IF DOMAIN nodes = {} THEN {t} ELSE {})
<1>1. /\ DOMAIN handlerData' = DOMAIN handlerData \union {t}
      /\ handlerData'[t] = nodes
      /\ \A u \in DOMAIN handlerData : u # t => handlerData'[u] = handlerData[u]
  BY DEF With
<1>2. HandlersWellFormed'
  <2>1. ASSUME NEW u \in DOMAIN handlerData'
        PROVE  /\ DOMAIN handlerData'[u] \subseteq Nodes
               /\ \A n \in DOMAIN handlerData'[u] : handlerData'[u][n] \subseteq Ids /\ handlerData'[u][n] # {}
    BY <1>1 DEF HandlersWellFormed
  <2>2. DOMAIN handlerData' \subseteq Topics
    BY <1>1 DEF HandlersWellFormed
  <2> QED
    BY <2>1, <2>2 DEF HandlersWellFormed
<1>3. ASSUME NEW h \in Handler
      PROVE  GetHandler(h.topic, h.node, h.uuid)' <=>
               IF h.topic = t THEN h.node \in DOMAIN nodes /\ h.uuid \in nodes[h.node]
                              ELSE GetHandler(h.topic, h.node, h.uuid)
  BY <1>1 DEF GetHandler, HasHandlersForNode
<1>4. Hollow' = (Hollow \ {t}) \union (IF DOMAIN nodes = {} THEN {t} ELSE {})
  BY <1>1 DEF Hollow
<1> QED
  BY <1>2, <1>3, <1>4

\* A step that drops a topic keeps the shape.
LEMMA DropWellFormed ==
  ASSUME HandlersWellFormed, NEW t \in Topics, handlerData' = Without(handlerData, t), handlerResult' \in BOOLEAN
  PROVE  /\ HandlersWellFormed'
         /\ \A h \in Handler : GetHandler(h.topic, h.node, h.uuid)' <=>
               h.topic # t /\ GetHandler(h.topic, h.node, h.uuid)
         /\ Hollow' = Hollow \ {t}
<1>1. /\ DOMAIN handlerData' = DOMAIN handlerData \ {t}
      /\ \A u \in DOMAIN handlerData' : handlerData'[u] = handlerData[u]
  BY DEF Without, Restrict
<1>2. HandlersWellFormed'
  BY <1>1 DEF HandlersWellFormed
<1>3. ASSUME NEW h \in Handler
      PROVE  GetHandler(h.topic, h.node, h.uuid)' <=> h.topic # t /\ GetHandler(h.topic, h.node, h.uuid)
  BY <1>1 DEF GetHandler, HasHandlersForNode
<1>4. Hollow' = Hollow \ {t}
  BY <1>1 DEF Hollow
<1> QED
  BY <1>2, <1>3, <1>4

\* Nothing happened to the maps.
LEMMA SameWellFormed ==
  ASSUME HandlersWellFormed, UNCHANGED handlerData, handlerResult' \in BOOLEAN
  PROVE  HandlersWellFormed' /\ Handlers' = Handlers /\ Hollow' = Hollow
  BY DEF HandlersWellFormed, Handlers, GetHandler, HasHandlersForNode, Hollow

-----------------------------------------------------------------------------
\* addHandler adds the handler to the set, and its topic is not hollow.
LEMMA AddStep ==
  ASSUME HandlersWellFormed, NEW h \in Handler, AddHandler(h)
  PROVE  /\ HandlersWellFormed'
         /\ HandlerSet!AddHandler(h)
         /\ Hollow' \subseteq Hollow
<1> DEFINE old   == At(handlerData, h.topic, Nothing)
           nodes == With(old, h.node, At(old, h.node, {}) \union {h.uuid})
<1>1. h.topic \in Topics /\ h.node \in Nodes /\ h.uuid \in Ids
  BY DEF Handler
<1>2. handlerData' = With(handlerData, h.topic, nodes) /\ handlerResult' = handlerResult
  BY DEF AddHandler
<1>3. /\ DOMAIN old = IF h.topic \in DOMAIN handlerData THEN DOMAIN handlerData[h.topic] ELSE {}
      /\ \A n \in DOMAIN old : old[n] = handlerData[h.topic][n]
  BY DEF At, Nothing
<1>4. /\ DOMAIN old \subseteq Nodes
      /\ \A n \in DOMAIN old : old[n] \subseteq Ids /\ old[n] # {}
  BY <1>3 DEF HandlersWellFormed
<1> HIDE DEF old
<1>5. /\ DOMAIN nodes = DOMAIN old \union {h.node}
      /\ nodes[h.node] = At(old, h.node, {}) \union {h.uuid}
      /\ \A n \in DOMAIN old : n # h.node => nodes[n] = old[n]
  BY DEF With
<1> HIDE DEF nodes
<1>6. /\ DOMAIN nodes \subseteq Nodes /\ DOMAIN nodes # {}
      /\ \A n \in DOMAIN nodes : nodes[n] \subseteq Ids /\ nodes[n] # {}
  BY <1>1, <1>4, <1>5 DEF At
<1>7. handlerResult' \in BOOLEAN
  BY <1>2 DEF HandlersWellFormed
<1>8. /\ HandlersWellFormed'
      /\ \A g \in Handler : GetHandler(g.topic, g.node, g.uuid)' <=>
            IF g.topic = h.topic THEN g.node \in DOMAIN nodes /\ g.uuid \in nodes[g.node]
                                 ELSE GetHandler(g.topic, g.node, g.uuid)
      /\ Hollow' = (Hollow \ {h.topic}) \union (IF DOMAIN nodes = {} THEN {h.topic} ELSE {})
  BY <1>1, <1>2, <1>6, <1>7, PutWellFormed
<1>9. ASSUME NEW g \in Handler
      PROVE  GetHandler(g.topic, g.node, g.uuid)' <=> (GetHandler(g.topic, g.node, g.uuid) \/ g = h)
  <2>1. CASE g.topic # h.topic
    BY <2>1, <1>8
  <2>2. CASE g.topic = h.topic /\ g.node # h.node
    BY <2>2, <1>3, <1>5, <1>8 DEF GetHandler, HasHandlersForNode
  <2>3. CASE g.topic = h.topic /\ g.node = h.node
    <3>1. g = h <=> g.uuid = h.uuid
      BY <2>3 DEF Handler
    <3>2. GetHandler(g.topic, g.node, g.uuid) <=> g.uuid \in At(old, h.node, {})
      BY <2>3, <1>3 DEF At, GetHandler, HasHandlersForNode
    <3> QED
      BY <2>3, <3>1, <3>2, <1>5, <1>8
  <2> QED
    BY <2>1, <2>2, <2>3
<1>10. Handlers' = Handlers \union {h}
  BY <1>9 DEF Handlers
<1> QED
  BY <1>2, <1>6, <1>8, <1>10 DEF HandlerSet!AddHandler

\* removeHandler takes the handler from the set; the topic may become hollow.
LEMMA RemoveStep ==
  ASSUME HandlersWellFormed, NEW t \in Topics, NEW n \in Nodes, NEW id \in Ids, RemoveHandler(t, n, id)
  PROVE  /\ HandlersWellFormed'
         /\ HandlerSet!Remove({h \in Handlers : h.topic = t /\ h.node = n /\ h.uuid = id})
<1> DEFINE selected == {h \in Handlers : h.topic = t /\ h.node = n /\ h.uuid = id}
           there    == t \in DOMAIN handlerData /\ n \in DOMAIN handlerData[t]
           left     == handlerData[t][n] \ {id}
           inner    == IF left = {} THEN Without(handlerData[t], n) ELSE With(handlerData[t], n, left)
           nodes    == IF DOMAIN inner = {} THEN Without(inner, t) ELSE inner
<1>1. (selected \intersect Handlers # {}) <=> GetHandler(t, n, id)
  <2>1. [topic |-> t, node |-> n, uuid |-> id] \in Handler
    BY DEF Handler
  <2> QED
    BY <2>1 DEF Handlers
<1>2. GetHandler(t, n, id) <=> there /\ id \in handlerData[t][n]
  BY DEF GetHandler, HasHandlersForNode
<1>3. CASE ~there
  <2>1. UNCHANGED handlerData /\ handlerResult' = FALSE
    BY <1>3 DEF RemoveHandler
  <2>2. HandlersWellFormed' /\ Handlers' = Handlers
    BY <2>1, SameWellFormed
  <2>3. ~GetHandler(t, n, id)
    BY <1>2, <1>3
  <2>4. selected = {}
    BY <2>3 DEF Handlers
  <2> QED
    BY <2>1, <2>2, <2>4 DEF HandlerSet!Remove
<1>4. CASE there
  <2>1. handlerData' = With(handlerData, t, nodes) /\ handlerResult' = (id \in handlerData[t][n])
    BY <1>4 DEF RemoveHandler
  <2>2. /\ DOMAIN inner = DOMAIN handlerData[t] \ (IF left = {} THEN {n} ELSE {})
        /\ left # {} => inner[n] = left
        /\ \A k \in DOMAIN inner : k # n => inner[k] = handlerData[t][k]
    BY <1>4 DEF With, Without, Restrict
  <2> HIDE DEF inner
  <2>3. /\ DOMAIN nodes = DOMAIN inner
        /\ \A k \in DOMAIN inner : nodes[k] = inner[k]
    BY DEF Without, Restrict
  <2> HIDE DEF nodes
  <2>4. /\ DOMAIN nodes = DOMAIN handlerData[t] \ (IF left = {} THEN {n} ELSE {})
        /\ left # {} => nodes[n] = left
        /\ \A k \in DOMAIN nodes : k # n => nodes[k] = handlerData[t][k]
    BY <1>4, <2>2, <2>3
  <2>5. /\ DOMAIN handlerData[t] \subseteq Nodes
        /\ \A k \in DOMAIN handlerData[t] : handlerData[t][k] \subseteq Ids /\ handlerData[t][k] # {}
    BY <1>4 DEF HandlersWellFormed
  <2>6. /\ DOMAIN nodes \subseteq Nodes
        /\ \A k \in DOMAIN nodes : nodes[k] \subseteq Ids /\ nodes[k] # {}
    BY <1>4, <2>4, <2>5
  <2>7. /\ HandlersWellFormed'
        /\ \A h \in Handler : GetHandler(h.topic, h.node, h.uuid)' <=>
              IF h.topic = t THEN h.node \in DOMAIN nodes /\ h.uuid \in nodes[h.node]
                             ELSE GetHandler(h.topic, h.node, h.uuid)
    <3>1. handlerData' = With(handlerData, t, nodes) /\ handlerResult' \in BOOLEAN
      BY <2>1
    <3>2. /\ HandlersWellFormed'
          /\ \A h \in Handler : GetHandler(h.topic, h.node, h.uuid)' <=>
                IF h.topic = t THEN h.node \in DOMAIN nodes /\ h.uuid \in nodes[h.node]
                               ELSE GetHandler(h.topic, h.node, h.uuid)
          /\ Hollow' = (Hollow \ {t}) \union (IF DOMAIN nodes = {} THEN {t} ELSE {})
      BY <3>1, <2>6, PutWellFormed
    <3> QED
      BY <3>2
  <2>8. ASSUME NEW h \in Handler
        PROVE  GetHandler(h.topic, h.node, h.uuid)' <=>
                  /\ GetHandler(h.topic, h.node, h.uuid)
                  /\ ~(h.topic = t /\ h.node = n /\ h.uuid = id)
    <3>1. CASE h.topic # t
      BY <3>1, <2>7
    <3>2. CASE h.topic = t /\ h.node # n
      BY <3>2, <1>4, <2>4, <2>7 DEF GetHandler, HasHandlersForNode
    <3>3. CASE h.topic = t /\ h.node = n
      <4>1. GetHandler(h.topic, h.node, h.uuid)' <=> h.uuid \in left
        BY <3>3, <1>4, <2>4, <2>7
      <4> QED
        BY <3>3, <4>1, <1>4 DEF GetHandler, HasHandlersForNode
    <3> QED
      BY <3>1, <3>2, <3>3
  <2>9. Handlers' = Handlers \ selected
    BY <2>8 DEF Handlers
  <2>10. handlerResult' = (selected \intersect Handlers # {})
    BY <1>1, <1>2, <1>4, <2>1
  <2> QED
    BY <2>7, <2>9, <2>10 DEF HandlerSet!Remove
<1> QED
  BY <1>3, <1>4

\* removeHandlersForNode takes the handlers of the node; no topic becomes
\* hollow.
LEMMA RemoveNodeStep ==
  ASSUME HandlersWellFormed, NEW t \in Topics, NEW n \in Nodes, RemoveHandlersForNode(t, n)
  PROVE  /\ HandlersWellFormed'
         /\ HandlerSet!Remove({h \in Handlers : h.topic = t /\ h.node = n})
         /\ Hollow' \subseteq Hollow
<1> DEFINE selected == {h \in Handlers : h.topic = t /\ h.node = n}
           there    == t \in DOMAIN handlerData /\ n \in DOMAIN handlerData[t]
           nodes    == Without(handlerData[t], n)
<1>1. (selected \intersect Handlers # {}) <=> there
  <2>1. CASE there
    <3>1. PICK id \in Ids : id \in handlerData[t][n]
      BY <2>1 DEF HandlersWellFormed
    <3>2. [topic |-> t, node |-> n, uuid |-> id] \in Handler
      BY DEF Handler
    <3> QED
      BY <2>1, <3>1, <3>2 DEF Handlers, GetHandler, HasHandlersForNode
  <2>2. CASE ~there
    BY <2>2 DEF Handlers, GetHandler, HasHandlersForNode
  <2> QED
    BY <2>1, <2>2
<1>2. CASE t \notin DOMAIN handlerData
  <2>1. UNCHANGED handlerData /\ handlerResult' = FALSE
    BY <1>2 DEF RemoveHandlersForNode
  <2>2. HandlersWellFormed' /\ Handlers' = Handlers /\ Hollow' = Hollow
    BY <2>1, SameWellFormed
  <2>3. selected = {}
    BY <1>2 DEF Handlers, GetHandler, HasHandlersForNode
  <2> QED
    BY <2>1, <2>2, <2>3 DEF HandlerSet!Remove
<1>3. CASE t \in DOMAIN handlerData
  <2>1. /\ handlerData' = IF DOMAIN nodes = {} THEN Without(handlerData, t) ELSE With(handlerData, t, nodes)
        /\ handlerResult' = (n \in DOMAIN handlerData[t])
    BY <1>3 DEF RemoveHandlersForNode
  <2>2. /\ DOMAIN nodes = DOMAIN handlerData[t] \ {n}
        /\ \A k \in DOMAIN nodes : nodes[k] = handlerData[t][k]
    BY DEF Without, Restrict
  <2> HIDE DEF nodes
  <2>3. /\ DOMAIN nodes \subseteq Nodes
        /\ \A k \in DOMAIN nodes : nodes[k] \subseteq Ids /\ nodes[k] # {}
    BY <1>3, <2>2 DEF HandlersWellFormed
  <2>4. /\ HandlersWellFormed'
        /\ \A h \in Handler : GetHandler(h.topic, h.node, h.uuid)' <=>
              IF h.topic = t THEN h.node \in DOMAIN nodes /\ h.uuid \in nodes[h.node]
                             ELSE GetHandler(h.topic, h.node, h.uuid)
        /\ Hollow' \subseteq Hollow
    <3>1. CASE DOMAIN nodes = {}
      BY <3>1, <2>1, DropWellFormed
    <3>2. CASE DOMAIN nodes # {}
      <4>1. handlerData' = With(handlerData, t, nodes) /\ handlerResult' \in BOOLEAN
        BY <3>2, <2>1
      <4>2. /\ HandlersWellFormed'
            /\ \A h \in Handler : GetHandler(h.topic, h.node, h.uuid)' <=>
                  IF h.topic = t THEN h.node \in DOMAIN nodes /\ h.uuid \in nodes[h.node]
                                 ELSE GetHandler(h.topic, h.node, h.uuid)
            /\ Hollow' = (Hollow \ {t}) \union (IF DOMAIN nodes = {} THEN {t} ELSE {})
        BY <4>1, <2>3, PutWellFormed
      <4> QED
        BY <3>2, <4>2
    <3> QED
      BY <3>1, <3>2
  <2>5. ASSUME NEW h \in Handler
        PROVE  GetHandler(h.topic, h.node, h.uuid)' <=>
                  (GetHandler(h.topic, h.node, h.uuid) /\ ~(h.topic = t /\ h.node = n))
    BY <1>3, <2>2, <2>4 DEF GetHandler, HasHandlersForNode
  <2>6. Handlers' = Handlers \ selected
    BY <2>5 DEF Handlers
  <2>7. handlerResult' = (selected \intersect Handlers # {})
    BY <1>1, <1>3, <2>1
  <2> QED
    BY <2>4, <2>6, <2>7 DEF HandlerSet!Remove
<1> QED
  BY <1>2, <1>3

-----------------------------------------------------------------------------
\* A step of the maps keeps their shape, is a step of the set, and hollows a
\* topic only if it is removeHandler.
LEMMA TableStep ==
  HandlersWellFormed /\ [HandlerNext]_handlerVars =>
      /\ HandlersWellFormed'
      /\ [HandlerSet!Next]_<<Handlers, handlerResult>>
      /\ \/ Hollow' \subseteq Hollow
         \/ \E h \in Handler : RemoveHandler(h.topic, h.node, h.uuid)
<1> DEFINE Single == \E h \in Handler : RemoveHandler(h.topic, h.node, h.uuid)
<1> SUFFICES ASSUME HandlersWellFormed, [HandlerNext]_handlerVars
             PROVE  /\ HandlersWellFormed' /\ [HandlerSet!Next]_<<Handlers, handlerResult>>
                    /\ Hollow' \subseteq Hollow \/ Single
  OBVIOUS
<1>1. ASSUME NEW h \in Handler, AddHandler(h)
      PROVE  HandlersWellFormed' /\ HandlerSet!Next /\ Hollow' \subseteq Hollow
  BY <1>1, AddStep DEF HandlerSet!Next
<1>2. ASSUME NEW t \in Topics, NEW n \in Nodes, RemoveHandlersForNode(t, n)
      PROVE  HandlersWellFormed' /\ HandlerSet!Next /\ Hollow' \subseteq Hollow
  BY <1>2, RemoveNodeStep DEF HandlerSet!Next
<1>3. ASSUME NEW t \in Topics, NEW n \in Nodes, NEW id \in Ids, RemoveHandler(t, n, id)
      PROVE  HandlersWellFormed' /\ HandlerSet!Next /\ Single
  <2>1. [topic |-> t, node |-> n, uuid |-> id] \in Handler
    BY DEF Handler
  <2>2. Single
    BY <1>3, <2>1
  <2>3. /\ HandlersWellFormed'
        /\ HandlerSet!Remove({h \in Handlers : h.topic = t /\ h.node = n /\ h.uuid = id})
    BY <1>3, RemoveStep
  <2> HIDE DEF Single
  <2> QED
    BY <2>2, <2>3 DEF HandlerSet!Next
<1>4. CASE UNCHANGED handlerVars
  <2>1. UNCHANGED <<handlerData, handlerResult>>
    BY <1>4 DEF handlerVars
  <2>2. HandlersWellFormed' /\ Handlers' = Handlers /\ Hollow' = Hollow
    BY <2>1, SameWellFormed DEF HandlersWellFormed
  <2> QED
    BY <2>1, <2>2
<1> HIDE DEF Single
<1> QED
  BY <1>1, <1>2, <1>3, <1>4 DEF HandlerNext

\* The queries follow from the shape.
LEMMA WellFormedQueries ==
  ASSUME HandlersWellFormed
  PROVE  HandlerQueriesAgree
<1>1. ASSUME NEW t \in Topics, NEW n \in Nodes
      PROVE  HasHandlersForNode(t, n) <=> \E h \in Handlers : h.topic = t /\ h.node = n
  <2>1. ASSUME HasHandlersForNode(t, n)
        PROVE  \E h \in Handlers : h.topic = t /\ h.node = n
    <3>1. PICK id \in Ids : id \in handlerData[t][n]
      BY <2>1 DEF HandlersWellFormed, HasHandlersForNode
    <3>2. [topic |-> t, node |-> n, uuid |-> id] \in Handler
      BY DEF Handler
    <3> QED
      BY <2>1, <3>1, <3>2 DEF Handlers, GetHandler
  <2> QED
    BY <2>1 DEF Handlers, GetHandler
<1>2. ASSUME NEW t \in Topics
      PROVE  /\ HasHandlersForTopic(t) <=> \E h \in Handlers : h.topic = t
             /\ (\E h \in Handlers : h.topic = t) => HasTopicKey(t)
  <2>1. HasHandlersForTopic(t) <=> \E n \in Nodes : HasHandlersForNode(t, n)
    BY DEF HasHandlersForTopic, HasHandlersForNode, HandlersWellFormed
  <2>2. \A h \in Handlers : h.node \in Nodes
    BY DEF Handlers, Handler
  <2>3. HasHandlersForTopic(t) => HasTopicKey(t)
    BY DEF HasHandlersForTopic, HasTopicKey
  <2> QED
    BY <1>1, <2>1, <2>2, <2>3
<1>3. ASSUME NEW t \in Topics, NEW type \in Types
      PROVE  OfType(t, type) = {h \in Handlers : h.topic = t /\ TypeOf[h.uuid] = type}
  BY DEF OfType, HandlersOfTopic, Handlers, GetHandler, HasHandlersForNode
<1>4. ASSUME NEW t \in Topics, NEW type \in Types, NEW n \in Nodes
      PROVE  n \in NodeUuids(t, type) <=>
                \E h \in Handlers : h.topic = t /\ h.node = n /\ TypeOf[h.uuid] \in {type, Generic}
  <2>1. Generic \in Types
    BY GenericAssumption
  <2>2. n \in NodeUuids(t, type) <=> \E h \in OfType(t, type) \union OfType(t, Generic) : h.node = n
    BY DEF NodeUuids
  <2> QED
    BY <1>3, <2>1, <2>2
<1> QED
  BY <1>1, <1>2, <1>3, <1>4 DEF HandlerQueriesAgree

-----------------------------------------------------------------------------
\* The nested maps of handler_storage.hpp keep their shape: a node is a key
\* exactly while it has handlers.
THEOREM ShapeKept == HandlerSpec => []HandlersWellFormed
<1>1. HandlerInit => HandlersWellFormed
  BY DEF HandlerInit, Nothing, HandlersWellFormed
<1>2. HandlersWellFormed /\ [HandlerNext]_handlerVars => HandlersWellFormed'
  BY TableStep
<1> QED
  BY <1>1, <1>2, PTL DEF HandlerSpec

\* Each query of handler_storage.hpp answers what the set of handlers says,
\* but for topics that hasTopic finds without handlers.
THEOREM QueriesAnswer == HandlerSpec => []HandlerQueriesAgree
<1>1. HandlersWellFormed => HandlerQueriesAgree
  BY WellFormedQueries
<1> QED
  BY <1>1, ShapeKept, PTL

\* Such a topic is left by removeHandler only.
THEOREM HollowBySingle == HandlerSpec => HollowOnlyBySingleRemoval
<1>1. HandlersWellFormed /\ [HandlerNext]_handlerVars =>
        [Hollow' \subseteq Hollow \/ \E h \in Handler : RemoveHandler(h.topic, h.node, h.uuid)]_handlerVars
  BY TableStep
<1> QED
  BY <1>1, ShapeKept, PTL DEF HandlerSpec, HollowOnlyBySingleRemoval

\* The nested maps implement the set of handlers that MessageRuntime and
\* ServiceRuntime use.
THEOREM MapsAreTable == HandlerSpec => ImplementsHandlerTable
<1>1. HandlerInit => HandlerSet!Init
  BY DEF HandlerInit, Nothing, Handlers, GetHandler, HasHandlersForNode, HandlerSet!Init
<1>2. HandlersWellFormed /\ [HandlerNext]_handlerVars => [HandlerSet!Next]_<<Handlers, handlerResult>>
  BY TableStep
<1>3. HandlersWellFormed => SameHandlerOperation
  BY AddStep, RemoveNodeStep, RemoveStep DEF SameHandlerOperation
<1>4. HandlersWellFormed => [SameHandlerOperation]_handlerVars
  BY <1>3
<1> QED
  BY <1>1, <1>2, <1>4, ShapeKept, PTL DEF HandlerSpec, ImplementsHandlerTable, HandlerSet!Spec
=============================================================================
