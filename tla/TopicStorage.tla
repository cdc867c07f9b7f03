---------------------------- MODULE TopicStorage ----------------------------
(***************************************************************************)
(* TopicStorage<Pub> of topic_storage.hpp, the table behind                *)
(* Discovery::known_publishers_ and the remote_publishers_ and             *)
(* remote_subscribers_ of the message runtime.  The nested map from topic  *)
(* to process to list is the set of its entries: entries that agree on     *)
(* topic, process and node never coexist (the address of a message         *)
(* endpoint is that of its process), and every removal drops the map keys  *)
(* it empties, so a topic is a key exactly when some entry has it.         *)
(***************************************************************************)

SameKey(a, b) == a.topic = b.topic /\ a.proc = b.proc /\ a.node = b.node

\* addPublisher: false, and the older entry kept, when the key is taken.
Contains(table, pub)     == \E e \in table : SameKey(e, pub)
AddPublisher(table, pub) == IF Contains(table, pub) THEN table ELSE table \union {pub}

\* delPublishersByNode and delPublishersByProc.
DelPublishersByNode(table, pub) == {e \in table : ~SameKey(e, pub)}
DelPublishersByProc(table, ps)  == {e \in table : e.proc \notin ps}

\* getPublishers(topic) and getPublishersByProc.
GetPublishers(table, t)       == {e \in table : e.topic = t}
GetPublishersByProc(table, p) == {e \in table : e.proc = p}

\* hasPublisher(addr): the address stands for the process that owns it.
HasPublisher(table, p) == GetPublishersByProc(table, p) # {}
=============================================================================
