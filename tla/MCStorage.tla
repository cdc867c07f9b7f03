----------------------------- MODULE MCStorage ------------------------------
(* TopicMaps and HandlerMaps for TLC.  The two tables share nothing, so one  *)
(* of them is as at the start while the other works: what an operation does  *)
(* to its own table does not depend on the other.                            *)
EXTENDS TopicMaps, HandlerMaps

CONSTANTS p1, p2, h1, h2

TwoProcs    == {p1, p2}
Endpoints   == [p \in TwoProcs |-> IF p = p1 THEN "tcp://a:1" ELSE "tcp://a:2"]
TwoHandlers == {h1, h2}
Kinds       == [h \in TwoHandlers |-> IF h = h1 THEN "Text" ELSE "any"]

StorageInit == Init /\ HandlerInit

StorageNext ==
    \/ HandlerInit /\ Next /\ UNCHANGED handlerVars
    \/ Init /\ HandlerNext /\ UNCHANGED vars

StorageSpec == StorageInit /\ [][StorageNext]_<<vars, handlerVars>>
=============================================================================
