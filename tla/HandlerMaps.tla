----------------------------- MODULE HandlerMaps ----------------------------
(***************************************************************************)
(* HandlerStorage<T> of handler_storage.hpp as it is built: a map from     *)
(* topic to a map from node to the handlers of that node, themselves by    *)
(* uuid.  It holds the subscriptions of HandlerWrapper and the requests    *)
(* and responders of ServiceRuntime.  Each operation holds the mutex       *)
(* throughout.  It implements HandlerTable, the set of handlers the other  *)
(* models work with.                                                       *)
(***************************************************************************)
EXTENDS Maps

CONSTANTS Ids,
          TypeOf  \* a handler's message types, which its uuid determines

ASSUME HandlersAssumption == TypeOf \in [Ids -> Types]

Handler == [topic : Topics, node : Nodes, uuid : Ids]

VARIABLES handlerData,   \* data_
          handlerResult  \* what the last removal returned

handlerVars == <<handlerData, handlerResult>>

HandlerInit == handlerData = Nothing /\ handlerResult = FALSE

-----------------------------------------------------------------------------
\* Mutant: the handlers of the node are replaced.
AddHandlerAlone(h) ==
    /\ handlerData' = With(handlerData, h.topic, With(At(handlerData, h.topic, Nothing), h.node, {h.uuid}))
    /\ UNCHANGED handlerResult

\* addHandler
AddHandler(h) ==
    LET nodes == At(handlerData, h.topic, Nothing) IN
    /\ handlerData' = With(handlerData, h.topic, With(nodes, h.node, At(nodes, h.node, {}) \union {h.uuid}))
    /\ UNCHANGED handlerResult

\* Mutant: the node that is left without handlers stays.
RemoveHandlerKeepsNode(t, n, id) ==
    IF t \in DOMAIN handlerData /\ n \in DOMAIN handlerData[t]
    THEN /\ handlerData' = With(handlerData, t, With(handlerData[t], n, handlerData[t][n] \ {id}))
         /\ handlerResult' = (id \in handlerData[t][n])
    ELSE handlerResult' = FALSE /\ UNCHANGED handlerData

\* removeHandler: a node left without handlers goes.  What the code erases
\* when the topic is left without nodes is the key of that name in the empty
\* inner map, so the topic stays a key.
RemoveHandler(t, n, id) ==
    IF t \in DOMAIN handlerData /\ n \in DOMAIN handlerData[t]
    THEN LET left  == handlerData[t][n] \ {id}
             nodes == IF left = {} THEN Without(handlerData[t], n) ELSE With(handlerData[t], n, left) IN
         /\ handlerData' = With(handlerData, t, IF DOMAIN nodes = {} THEN Without(nodes, t) ELSE nodes)
         /\ handlerResult' = (id \in handlerData[t][n])
    ELSE handlerResult' = FALSE /\ UNCHANGED handlerData

\* Mutant: the topic stays here as well.
RemoveNodeKeepsTopic(t, n) ==
    IF t \in DOMAIN handlerData
    THEN /\ handlerData' = With(handlerData, t, Without(handlerData[t], n))
         /\ handlerResult' = (n \in DOMAIN handlerData[t])
    ELSE handlerResult' = FALSE /\ UNCHANGED handlerData

\* removeHandlersForNode: a topic left without nodes goes.
RemoveHandlersForNode(t, n) ==
    IF t \in DOMAIN handlerData
    THEN LET nodes == Without(handlerData[t], n) IN
         /\ handlerData' = IF DOMAIN nodes = {} THEN Without(handlerData, t) ELSE With(handlerData, t, nodes)
         /\ handlerResult' = (n \in DOMAIN handlerData[t])
    ELSE handlerResult' = FALSE /\ UNCHANGED handlerData

HandlerNext ==
    \/ \E h \in Handler : AddHandler(h)
    \/ \E t \in Topics, n \in Nodes :
          \/ RemoveHandlersForNode(t, n)
          \/ \E id \in Ids : RemoveHandler(t, n, id)

HandlerSpec == HandlerInit /\ [][HandlerNext]_handlerVars

-----------------------------------------------------------------------------
(* Queries; HasTopicKey is hasTopic, and HandlersOfTopic getHandlers.      *)

HasTopicKey(t)           == t \in DOMAIN handlerData
\* Mutant: a topic that is found has handlers.
HasHandlersByKey(t)      == HasTopicKey(t)
HasHandlersForTopic(t)   == t \in DOMAIN handlerData /\ DOMAIN handlerData[t] # {}
HasHandlersForNode(t, n) == t \in DOMAIN handlerData /\ n \in DOMAIN handlerData[t]
GetHandler(t, n, id)     == HasHandlersForNode(t, n) /\ id \in handlerData[t][n]

\* getHandlers; of one type, getFirstHandler takes the first of them; and
\* HandlerWrapper::getNodeUuids.
HandlersOfTopic(t) ==
    IF t \in DOMAIN handlerData
    THEN {h \in Handler : h.topic = t /\ h.node \in DOMAIN handlerData[t] /\ h.uuid \in handlerData[t][h.node]}
    ELSE {}
OfType(t, type)    == {h \in HandlersOfTopic(t) : TypeOf[h.uuid] = type}
NodeUuids(t, type) == {h.node : h \in OfType(t, type) \union OfType(t, Generic)}

-----------------------------------------------------------------------------
Handlers == {h \in Handler : GetHandler(h.topic, h.node, h.uuid)}

\* Types; and a node is a key only while it has handlers, which is what
\* hasHandlersForNode relies on.
HandlersWellFormed ==
    /\ handlerResult \in BOOLEAN
    /\ DOMAIN handlerData \subseteq Topics
    /\ \A t \in DOMAIN handlerData :
          /\ DOMAIN handlerData[t] \subseteq Nodes
          /\ \A n \in DOMAIN handlerData[t] : handlerData[t][n] \subseteq Ids /\ handlerData[t][n] # {}

\* The queries of the message runtime and the service runtime answer what the
\* set of handlers says.  hasTopic and getHandlers may find a topic without
\* handlers, but never miss one that has some.
HandlerQueriesAgree ==
    \A t \in Topics :
        /\ HasHandlersForTopic(t) <=> \E h \in Handlers : h.topic = t
        /\ (\E h \in Handlers : h.topic = t) => HasTopicKey(t)
        /\ \A n \in Nodes :
              HasHandlersForNode(t, n) <=> \E h \in Handlers : h.topic = t /\ h.node = n
        /\ \A type \in Types :
              /\ OfType(t, type) = {h \in Handlers : h.topic = t /\ TypeOf[h.uuid] = type}
              /\ \A n \in Nodes : n \in NodeUuids(t, type) <=>
                    \E h \in Handlers : h.topic = t /\ h.node = n /\ TypeOf[h.uuid] \in {type, Generic}

\* A topic is left without handlers but found by hasTopic only when
\* removeHandler took the last one, as it does for requests; for
\* subscriptions and responders, which removeHandlersForNode takes, hasTopic
\* and getHandlers are exact.
Hollow == {t \in DOMAIN handlerData : DOMAIN handlerData[t] = {}}
HollowOnlyBySingleRemoval ==
    [][Hollow' \subseteq Hollow \/ \E h \in Handler : RemoveHandler(h.topic, h.node, h.uuid)]_handlerVars

\* The maps are the set of their handlers: each operation changes it and
\* answers as the operation on the set does.
HandlerSet == INSTANCE HandlerTable WITH handlers <- Handlers, result <- handlerResult
SameHandlerOperation ==
    /\ \A h \in Handler : AddHandler(h) => HandlerSet!AddHandler(h)
    /\ \A t \in Topics, n \in Nodes :
          /\ RemoveHandlersForNode(t, n) => HandlerSet!Remove({h \in Handlers : h.topic = t /\ h.node = n})
          /\ \A id \in Ids : RemoveHandler(t, n, id) =>
                HandlerSet!Remove({h \in Handlers : h.topic = t /\ h.node = n /\ h.uuid = id})
ImplementsHandlerTable == HandlerSet!Spec /\ [][SameHandlerOperation]_handlerVars
=============================================================================
