-------------------------------- MODULE Maps --------------------------------
(***************************************************************************)
(* What TopicStorage and HandlerStorage are built from: topics, nodes and  *)
(* message types, and std::map as a function on the keys that are there.   *)
(***************************************************************************)
EXTENDS Functions

CONSTANTS Topics, Nodes, Types,
          Generic  \* kGenericMessageType

ASSUME GenericAssumption == Generic \in Types

Nothing == [x \in {} |-> {}]

\* m[k] = v
With(m, k, v) == [x \in DOMAIN m \union {k} |-> IF x = k THEN v ELSE m[x]]

\* m.erase(k)
Without(m, k) == Restrict(m, DOMAIN m \ {k})

\* m[k], which enters an empty value where there is none.
At(m, k, empty) == IF k \in DOMAIN m THEN m[k] ELSE empty
=============================================================================
