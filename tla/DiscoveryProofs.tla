-------------------------- MODULE DiscoveryProofs --------------------------
(***************************************************************************)
(* Proofs about Discovery for any processes, hosts, nodes and topics, any  *)
(* number of API calls, lost or delayed datagrams, false expiries and      *)
(* exits.                                                                  *)
(***************************************************************************)
EXTENDS Discovery, TLAPS, SequenceTheorems, FiniteSetTheorems

\* What a datagram carries, by its type.
LEMMA MessageParts ==
  ASSUME NEW m \in Message
  PROVE  /\ m.from \in Procs
         /\ m.type \in {"ADVERTISE", "UNADVERTISE"} =>
               m.pub \in Publisher /\ m.pub.proc = m.from
         /\ m.type = "SUBSCRIBE" => m.topic \in Topics
  BY DEF Message, About, Registration, Publisher, Entry

LEMMA PlainIsMessage ==
  ASSUME NEW p \in Procs, NEW type \in {"HEARTBEAT", "BYE"}
  PROVE  Plain(type, p) \in Message /\ Plain(type, p).from = p
  BY DEF Message, Plain

LEMMA QueryIsMessage ==
  ASSUME NEW p \in Procs, NEW t \in Topics
  PROVE  Query(p, t) \in Message /\ Query(p, t).from = p
  BY DEF Message, Query

LEMMA AboutIsMessage ==
  ASSUME NEW pub \in Publisher, NEW type \in {"ADVERTISE", "UNADVERTISE"}
  PROVE  About(type, pub) \in Message /\ About(type, pub).from = pub.proc
<1>1. \E t \in {"ADVERTISE", "UNADVERTISE"}, b \in Publisher : About(type, pub) = About(t, b)
  OBVIOUS
<1>2. About(type, pub) \in Message
  BY <1>1 DEF Message
<1>3. About(type, pub).from = pub.proc
  BY DEF About
<1>4. QED
  BY <1>2, <1>3

\* What a receiver tests is what ScopeRespected asks for.
LEMMA ScopeTested ==
  ASSUME NEW pub \in Publisher, NEW p
  PROVE  InScope(pub, pub.proc, p) <=>
            pub.scope = "ALL" \/ (pub.scope = "HOST" /\ HostOf[pub.proc] = HostOf[p])
<1>1. pub.scope \in Scopes
  BY DEF Publisher
<1>2. QED
  BY <1>1 DEF InScope, Scopes

\* The queues of work items: what Work makes is one, what Done leaves is one,
\* and what a thread sends is a datagram of its own process.
LEMMA WorkIsQueue ==
  ASSUME NEW S, NEW op, NEW args, [op |-> op, args |-> args] \in S
  PROVE  Work(op, args) \in Seq(S)
  BY DEF Work

LEMMA DoneIsQueue ==
  ASSUME NEW p \in Procs, NEW queue \in Seq(ItemsOf(p)), NEW x \in Pending(queue)
  PROVE  Done(queue, x) \in Seq(ItemsOf(p))
<1>1. queue # << >>
  BY DEF Pending
<1>2. Head(queue) \in ItemsOf(p) /\ Tail(queue) \in Seq(ItemsOf(p))
  BY <1>1, HeadTailProperties
<1>3. [op |-> Head(queue).op, args |-> Head(queue).args \ {x}] \in ItemsOf(p)
  BY <1>2 DEF ItemsOf, WorkItem
<1>4. Work(Head(queue).op, Head(queue).args \ {x}) \in Seq(ItemsOf(p))
  BY <1>3, WorkIsQueue
<1>5. QED
  BY <1>2, <1>4, ConcatProperties DEF Done

LEMMA SentIsOwn ==
  ASSUME NEW p \in Procs, NEW queue \in Seq(ItemsOf(p)), NEW x, Doing(queue, "send", x)
  PROVE  x \in Message /\ x.from = p /\ x \in Pending(queue)
<1>1. queue # << >>
  BY DEF Doing, Pending
<1>2. Head(queue) \in ItemsOf(p)
  BY <1>1, HeadTailProperties
<1>3. x \in Head(queue).args /\ Head(queue).op = "send"
  BY <1>1 DEF Doing, Pending
<1>4. QED
  BY <1>2, <1>3 DEF ItemsOf, WorkItem, Doing

\* Traffic and the shape of the queues give their types.
LEMMA InboxTyped ==
  ASSUME NEW box, box = [p \in Procs |-> box[p]],
         \A p \in Procs : box[p] \in Seq(MessagesTo(p))
  PROVE  box \in [Procs -> Seq(Message)]
<1>1. ASSUME NEW p \in Procs PROVE box[p] \in Seq(Message)
  <2>1. MessagesTo(p) \subseteq Message
    BY DEF MessagesTo
  <2>2. QED
    BY <2>1, SeqMonotonic
<1>2. QED
  BY <1>1

LEMMA QueueTyped ==
  ASSUME NEW p, NEW queue \in Seq(ItemsOf(p))
  PROVE  queue \in Seq(WorkItem)
<1>1. ItemsOf(p) \subseteq WorkItem
  BY DEF ItemsOf
<1>2. QED
  BY <1>1, SeqMonotonic

-----------------------------------------------------------------------------
(* The invariant, one lemma per kind of step.                              *)

\* A datagram that is sent keeps the network well typed, and none of its
\* copies is for the process that sent it.
LEMMA MulticastKeeps ==
  ASSUME IInv, NEW p \in Procs, NEW m \in Message, m.from = p, Multicast(p, m)
  PROVE  /\ inbox' \in [Procs -> Seq(Message)]
         /\ \A q \in Procs : inbox'[q] \in Seq(MessagesTo(q))
         /\ delayed' \in SUBSET [to : Procs, msg : Message]
         /\ \A d \in delayed' : d.msg.from # d.to
         /\ faults' \in Nat
<1>1. PICK absent \in SUBSET Listeners(p), late \in SUBSET Listeners(p) :
         /\ faults' = faults + Cardinality(absent \union late)
         /\ delayed' = delayed \union {[to |-> q, msg |-> m] : q \in late}
         /\ inbox' = [q \in Procs |-> IF q \in Listeners(p) \ absent
                                       THEN Append(inbox[q], m) ELSE inbox[q]]
  BY DEF Multicast
<1>2. \A q \in Listeners(p) : q \in Procs /\ q # p
  BY DEF Listeners
<1>3. ASSUME NEW q \in Procs PROVE inbox'[q] \in Seq(MessagesTo(q))
  <2>1. inbox[q] \in Seq(MessagesTo(q))
    BY DEF IInv, Traffic
  <2>2. CASE q \in Listeners(p) \ absent
    <3>1. m \in MessagesTo(q)
      BY <1>2, <2>2 DEF MessagesTo
    <3>2. QED
      BY <1>1, <2>1, <2>2, <3>1, AppendProperties
  <2>3. CASE q \notin Listeners(p) \ absent
    BY <1>1, <2>1, <2>3
  <2>4. QED
    BY <2>2, <2>3
<1>4. inbox' \in [Procs -> Seq(Message)]
  <2>1. inbox' = [q \in Procs |-> inbox'[q]]
    BY <1>1
  <2>2. QED
    BY <1>3, <2>1, InboxTyped
<1>5. /\ delayed' \in SUBSET [to : Procs, msg : Message]
      /\ \A d \in delayed' : d.msg.from # d.to
  BY <1>1, <1>2 DEF IInv, TypeOK, Traffic
<1>6. faults' \in Nat
  <2>1. IsFiniteSet(absent \union late)
    BY <1>2, ProcessesAssumption, FS_Subset
  <2>2. Cardinality(absent \union late) \in Nat
    BY <2>1, FS_CardinalityType
  <2>3. QED
    BY <1>1, <2>2 DEF IInv, TypeOK
<1>7. QED
  BY <1>3, <1>4, <1>5, <1>6

\* A step that changes neither what is known nor who is seen.
LEMMA TablesKept ==
  ASSUME IInv, known' = known, seen' = seen
  PROVE  KnownHasLease' /\ NeverSeesItself' /\ ScopeRespected'
  BY DEF IInv, KnownHasLease, NeverSeesItself, ScopeRespected

\* A new queue for the discovery thread of p, or for its thread of node n.
LEMMA DworkKeeps ==
  ASSUME IInv, NEW p \in Procs, NEW queue \in Seq(ItemsOf(p)),
         dwork' = [dwork EXCEPT ![p] = queue]
  PROVE  /\ dwork' \in [Procs -> Seq(WorkItem)]
         /\ \A q \in Procs : dwork'[q] \in Seq(ItemsOf(q))
<1>1. dwork \in [Procs -> Seq(WorkItem)] /\ \A q \in Procs : dwork[q] \in Seq(ItemsOf(q))
  BY DEF IInv, TypeOK, Traffic
<1>2. queue \in Seq(WorkItem)
  BY QueueTyped
<1>3. QED
  BY <1>1, <1>2

LEMMA AworkKeeps ==
  ASSUME IInv, NEW p \in Procs, NEW n \in Nodes, NEW queue \in Seq(ItemsOf(p)),
         awork' = [awork EXCEPT ![p][n] = queue]
  PROVE  /\ awork' \in [Procs -> [Nodes -> Seq(WorkItem)]]
         /\ \A q \in Procs : \A k \in Nodes : awork'[q][k] \in Seq(ItemsOf(q))
<1>1. /\ awork \in [Procs -> [Nodes -> Seq(WorkItem)]]
      /\ \A q \in Procs : \A k \in Nodes : awork[q][k] \in Seq(ItemsOf(q))
  BY DEF IInv, TypeOK, Traffic
<1>2. queue \in Seq(WorkItem)
  BY QueueTyped
<1>3. QED
  BY <1>1, <1>2

-----------------------------------------------------------------------------
(* The discovery thread.                                                   *)

\* What every datagram does, when its type leaves a good table and good work.
LEMMA DispatchKeeps ==
  ASSUME IInv, NEW p \in Procs, inbox[p] # << >>, NEW m, m = Head(inbox[p]),
         NEW table \in SUBSET Publisher, NEW work \in Seq(ItemsOf(p)),
         \A pub \in table : /\ pub.proc \in seen'[p] \union {p}
                            /\ pub.proc # p => InScope(pub, pub.proc, p),
         Dispatch(p, m, table, work)
  PROVE  IInv'
<1> USE DEF Dispatch
<1>1. m \in MessagesTo(p) /\ Tail(inbox[p]) \in Seq(MessagesTo(p))
  BY HeadTailProperties DEF IInv, Traffic
<1>2. m \in Message /\ m.from \in Procs /\ m.from # p
  BY <1>1, MessageParts DEF MessagesTo
<1>3. inbox' \in [Procs -> Seq(Message)] /\ \A q \in Procs : inbox'[q] \in Seq(MessagesTo(q))
  <2>1. inbox \in [Procs -> Seq(Message)] /\ \A q \in Procs : inbox[q] \in Seq(MessagesTo(q))
    BY DEF IInv, TypeOK, Traffic
  <2>2. inbox' = [inbox EXCEPT ![p] = Tail(inbox[p])]
    OBVIOUS
  <2>3. \A q \in Procs : inbox'[q] \in Seq(MessagesTo(q))
    BY <1>1, <2>1, <2>2
  <2>4. inbox' = [q \in Procs |-> inbox'[q]]
    BY <2>1, <2>2
  <2>5. QED
    BY <2>3, <2>4, InboxTyped
<1>4. dwork' \in [Procs -> Seq(WorkItem)] /\ \A q \in Procs : dwork'[q] \in Seq(ItemsOf(q))
  BY DworkKeeps
<1>5. seen' \in [Procs -> SUBSET Procs] /\ NeverSeesItself'
  BY <1>2 DEF IInv, TypeOK, NeverSeesItself
<1>6. known' \in [Procs -> SUBSET Publisher]
  BY DEF IInv, TypeOK
<1>7. TypeOK'
  BY <1>3, <1>4, <1>5, <1>6 DEF IInv, TypeOK, budgets
<1>8. Traffic'
  BY <1>3, <1>4 DEF IInv, Traffic, MessagesTo, ItemsOf
<1>9. KnownHasLease' /\ ScopeRespected'
  <2>1. \A q \in Procs : q # p => known'[q] = known[q] /\ seen'[q] = seen[q]
    BY DEF IInv, TypeOK
  <2>2. known'[p] = table
    BY DEF IInv, TypeOK
  <2>3. ASSUME NEW q \in Procs, NEW pub \in known'[q]
        PROVE  pub.proc \in seen'[q] \union {q}
    BY <2>1, <2>2 DEF IInv, KnownHasLease
  <2>4. KnownHasLease'
    BY <2>3 DEF KnownHasLease
  <2>5. \A pub \in table : pub.proc # p =>
           pub.scope = "ALL" \/ (pub.scope = "HOST" /\ HostOf[pub.proc] = HostOf[p])
    BY ScopeTested
  <2>6. ScopeRespected'
    BY <2>1, <2>2, <2>5 DEF IInv, ScopeRespected
  <2>7. QED
    BY <2>4, <2>6
<1>10. QED
  BY <1>5, <1>7, <1>8, <1>9 DEF IInv

\* The datagram at the head of a socket is another process's.
LEMMA HeadIsForeign ==
  ASSUME IInv, NEW p \in Procs, inbox[p] # << >>, NEW m, m = Head(inbox[p])
  PROVE  m \in Message /\ m.from \in Procs /\ m.from # p
<1>1. m \in MessagesTo(p)
  BY HeadTailProperties DEF IInv, Traffic
<1>2. QED
  BY <1>1, MessageParts DEF MessagesTo

\* What p knew stays good when the sender of a datagram is seen.
LEMMA KnownStaysGood ==
  ASSUME IInv, NEW p \in Procs, NEW m,
         seen' = [seen EXCEPT ![p] = @ \union {m.from}]
  PROVE  /\ seen'[p] = seen[p] \union {m.from}
         /\ known[p] \in SUBSET Publisher
         /\ \A pub \in known[p] : /\ pub.proc \in seen'[p] \union {p}
                                  /\ pub.proc # p => InScope(pub, pub.proc, p)
<1>1. seen'[p] = seen[p] \union {m.from} /\ known[p] \in SUBSET Publisher
  BY DEF IInv, TypeOK
<1>2. \A pub \in known[p] : pub.proc \in seen'[p] \union {p}
  BY <1>1 DEF IInv, KnownHasLease
<1>3. \A pub \in known[p] : pub.proc # p => InScope(pub, pub.proc, p)
  BY <1>1, ScopeTested DEF IInv, ScopeRespected
<1>4. QED
  BY <1>1, <1>2, <1>3

LEMMA ReceiveKeeps ==
  ASSUME IInv, NEW p \in Procs, Receive(p)
  PROVE  IInv'
<1> DEFINE m == Head(inbox[p])
<1> HIDE DEF m
<1>1. inbox[p] # << >> /\ m = Head(inbox[p])
  BY DEF Receive, m
<1>2. m \in Message /\ m.from \in Procs /\ m.from # p
  BY <1>1, HeadIsForeign
<1>3. << >> \in Seq(ItemsOf(p))
  OBVIOUS
<1>4. CASE RecvAdvertise(p, m)
  <2>1. m.type # "BYE" /\ m.pub \in Publisher /\ m.pub.proc = m.from
    BY <1>2, <1>4, MessageParts DEF RecvAdvertise
  <2>2. CASE InScope(m.pub, m.from, p) /\ ~Contains(known[p], m.pub)
    <3> DEFINE table == AddPublisher(known[p], m.pub)
               work == Work("connect", {m.pub})
    <3>1. Dispatch(p, m, table, work)
      BY <1>4, <2>2 DEF RecvAdvertise
    <3>2. seen' = [seen EXCEPT ![p] = @ \union {m.from}]
      BY <2>1, <3>1 DEF Dispatch
    <3>3. table \subseteq known[p] \union {m.pub}
      BY DEF AddPublisher
    <3>4. \A pub \in table : /\ pub \in Publisher
                             /\ pub.proc \in seen'[p] \union {p}
                             /\ pub.proc # p => InScope(pub, pub.proc, p)
      <4>1. \A pub \in known[p] : /\ pub \in Publisher
                                  /\ pub.proc \in seen'[p] \union {p}
                                  /\ pub.proc # p => InScope(pub, pub.proc, p)
        BY <3>2, KnownStaysGood
      <4>2. m.pub.proc \in seen'[p] /\ InScope(m.pub, m.pub.proc, p)
        <5>1. seen'[p] = seen[p] \union {m.from}
          BY <3>2, KnownStaysGood
        <5>2. m.pub.proc \in seen'[p]
          BY <2>1, <5>1
        <5>3. InScope(m.pub, m.pub.proc, p)
          BY <2>1, <2>2 DEF InScope
        <5>4. QED
          BY <5>2, <5>3
      <4> HIDE DEF table
      <4>3. QED
        BY <2>1, <3>3, <4>1, <4>2
    <3>5. work \in Seq(ItemsOf(p))
      <4>1. [op |-> "connect", args |-> {m.pub}] \in ItemsOf(p)
        BY <2>1 DEF ItemsOf, WorkItem
      <4>2. QED
        BY <4>1, WorkIsQueue
    <3> HIDE DEF table, work
    <3>6. QED
      BY <1>1, <3>1, <3>4, <3>5, DispatchKeeps
  <2>3. CASE ~(InScope(m.pub, m.from, p) /\ ~Contains(known[p], m.pub))
    <3>1. Dispatch(p, m, known[p], << >>)
      BY <1>4, <2>3 DEF RecvAdvertise
    <3>2. seen' = [seen EXCEPT ![p] = @ \union {m.from}]
      BY <2>1, <3>1 DEF Dispatch
    <3>3. QED
      BY <1>1, <1>3, <3>1, <3>2, KnownStaysGood, DispatchKeeps
  <2>4. QED
    BY <2>2, <2>3
<1>5. CASE RecvUnadvertise(p, m)
  <2>1. m.type # "BYE" /\ m.pub \in Publisher
    BY <1>2, <1>5, MessageParts DEF RecvUnadvertise
  <2>2. CASE InScope(m.pub, m.from, p)
    <3> DEFINE table == DelPublishersByNode(known[p], m.pub)
               work == Work("disconnect", {m.pub})
    <3>1. Dispatch(p, m, table, work)
      BY <1>5, <2>2 DEF RecvUnadvertise
    <3>2. seen' = [seen EXCEPT ![p] = @ \union {m.from}]
      BY <2>1, <3>1 DEF Dispatch
    <3>3. table \subseteq known[p]
      BY DEF DelPublishersByNode
    <3>4. \A pub \in table : /\ pub \in Publisher
                             /\ pub.proc \in seen'[p] \union {p}
                             /\ pub.proc # p => InScope(pub, pub.proc, p)
      BY <3>2, <3>3, KnownStaysGood
    <3>5. work \in Seq(ItemsOf(p))
      <4>1. [op |-> "disconnect", args |-> {m.pub}] \in ItemsOf(p)
        BY <2>1 DEF ItemsOf, WorkItem
      <4>2. QED
        BY <4>1, WorkIsQueue
    <3> HIDE DEF table, work
    <3>6. QED
      BY <1>1, <3>1, <3>4, <3>5, DispatchKeeps
  <2>3. CASE ~InScope(m.pub, m.from, p)
    <3>1. Dispatch(p, m, known[p], << >>)
      BY <1>5, <2>3 DEF RecvUnadvertise
    <3>2. seen' = [seen EXCEPT ![p] = @ \union {m.from}]
      BY <2>1, <3>1 DEF Dispatch
    <3>3. QED
      BY <1>1, <1>3, <3>1, <3>2, KnownStaysGood, DispatchKeeps
  <2>4. QED
    BY <2>2, <2>3
<1>6. CASE RecvSubscribe(p, m)
  <2> DEFINE answers == {pub \in Own(p) : pub.topic = m.topic /\ InScope(pub, m.from, p)}
             sends == {About("ADVERTISE", pub) : pub \in answers}
             work == Work("send", sends)
  <2>1. Dispatch(p, m, known[p], work) /\ m.type # "BYE"
    BY <1>6 DEF RecvSubscribe
  <2>2. seen' = [seen EXCEPT ![p] = @ \union {m.from}]
    BY <2>1 DEF Dispatch
  <2>3. \A pub \in answers : pub \in Publisher /\ pub.proc = p
    BY DEF Own, GetPublishersByProc, IInv, TypeOK
  <2>4. \A x \in sends : x \in Message /\ x.from = p
    BY <2>3, AboutIsMessage
  <2>5. work \in Seq(ItemsOf(p))
    <3> HIDE DEF sends
    <3>1. [op |-> "send", args |-> sends] \in ItemsOf(p)
      BY <2>4 DEF ItemsOf, WorkItem
    <3>2. QED
      BY <3>1, WorkIsQueue
  <2> HIDE DEF work
  <2>6. QED
    BY <1>1, <2>1, <2>2, <2>5, KnownStaysGood, DispatchKeeps
<1>7. CASE RecvRegistration(p, m)
  <2>1. PICK op \in {"register", "unregister"} :
           Dispatch(p, m, known[p], Work(op, {m})) /\ m.type # "BYE"
    BY <1>7 DEF RecvRegistration
  <2>2. seen' = [seen EXCEPT ![p] = @ \union {m.from}]
    BY <2>1 DEF Dispatch
  <2>3. [op |-> op, args |-> {m}] \in ItemsOf(p)
    BY <1>2 DEF ItemsOf, WorkItem
  <2>4. Work(op, {m}) \in Seq(ItemsOf(p))
    BY <2>3, WorkIsQueue
  <2>5. QED
    BY <1>1, <2>1, <2>2, <2>4, KnownStaysGood, DispatchKeeps
<1>8. CASE RecvHeartbeat(p, m)
  <2>1. Dispatch(p, m, known[p], << >>) /\ m.type # "BYE"
    BY <1>8 DEF RecvHeartbeat
  <2>2. seen' = [seen EXCEPT ![p] = @ \union {m.from}]
    BY <2>1 DEF Dispatch
  <2>3. QED
    BY <1>1, <1>3, <2>1, <2>2, KnownStaysGood, DispatchKeeps
<1>9. CASE RecvBye(p, m)
  <2> DEFINE table == DelPublishersByProc(known[p], {m.from})
             work == Work("gone", {m.from})
  <2>1. Dispatch(p, m, table, work) /\ m.type = "BYE"
    BY <1>9 DEF RecvBye
  <2>2. seen'[p] = seen[p] \ {m.from}
    BY <2>1 DEF Dispatch, IInv, TypeOK
  <2>3. \A pub \in table : pub \in known[p] /\ pub.proc # m.from
    BY DEF DelPublishersByProc
  <2>4. \A pub \in table : /\ pub \in Publisher
                           /\ pub.proc \in seen'[p] \union {p}
                           /\ pub.proc # p => InScope(pub, pub.proc, p)
    <3> HIDE DEF table
    <3>1. \A pub \in table : pub \in Publisher /\ pub.proc \in seen'[p] \union {p}
      BY <2>2, <2>3 DEF IInv, TypeOK, KnownHasLease
    <3>2. \A pub \in table : pub.proc # p => InScope(pub, pub.proc, p)
      BY <2>3, <3>1, ScopeTested DEF IInv, ScopeRespected
    <3>3. QED
      BY <3>1, <3>2
  <2>5. work \in Seq(ItemsOf(p))
    <3>1. [op |-> "gone", args |-> {m.from}] \in ItemsOf(p)
      BY <1>2 DEF ItemsOf, WorkItem
    <3>2. QED
      BY <3>1, WorkIsQueue
  <2> HIDE DEF table, work
  <2>6. QED
    BY <1>1, <2>1, <2>4, <2>5, DispatchKeeps
<1>10. QED
  BY <1>4, <1>5, <1>6, <1>7, <1>8, <1>9 DEF Receive, m

LEMMA BeatKeeps ==
  ASSUME IInv, NEW p \in Procs, Beat(p)
  PROVE  IInv'
<1> USE DEF Beat
<1> DEFINE again == {pub \in Own(p) : pub.scope # "PROCESS"}
           sends == {About("ADVERTISE", pub) : pub \in again}
<1>1. \A pub \in again : pub \in Publisher /\ pub.proc = p
  BY DEF Own, GetPublishersByProc, IInv, TypeOK
<1>2. \A x \in sends : x \in Message /\ x.from = p
  BY <1>1, AboutIsMessage
<1>3. Work("send", sends) \in Seq(ItemsOf(p))
  <2> HIDE DEF sends
  <2>1. [op |-> "send", args |-> sends] \in ItemsOf(p)
    BY <1>2 DEF ItemsOf, WorkItem
  <2>2. QED
    BY <2>1, WorkIsQueue
<1>4. dwork' = [dwork EXCEPT ![p] = Work("send", sends)]
  OBVIOUS
<1> HIDE DEF sends
<1>5. dwork' \in [Procs -> Seq(WorkItem)] /\ \A q \in Procs : dwork'[q] \in Seq(ItemsOf(q))
  BY <1>3, <1>4, DworkKeeps
<1>6. /\ inbox' \in [Procs -> Seq(Message)]
      /\ \A q \in Procs : inbox'[q] \in Seq(MessagesTo(q))
      /\ delayed' \in SUBSET [to : Procs, msg : Message]
      /\ \A d \in delayed' : d.msg.from # d.to
      /\ faults' \in Nat
  BY PlainIsMessage, MulticastKeeps
<1>7. TypeOK'
  BY <1>5, <1>6 DEF IInv, TypeOK
<1>8. Traffic'
  BY <1>5, <1>6 DEF IInv, Traffic, MessagesTo, ItemsOf
<1>9. QED
  BY <1>7, <1>8, TablesKept DEF IInv

LEMMA ExpireKeeps ==
  ASSUME IInv, NEW p \in Procs, NEW quiet \in SUBSET seen[p], Expire(p, quiet)
  PROVE  IInv'
<1> USE DEF Expire
<1>1. quiet \in SUBSET Procs
  BY DEF IInv, TypeOK
<1>2. Work("gone", quiet) \in Seq(ItemsOf(p))
  <2>1. [op |-> "gone", args |-> quiet] \in ItemsOf(p)
    BY <1>1 DEF ItemsOf, WorkItem
  <2>2. QED
    BY <2>1, WorkIsQueue
<1>3. dwork' \in [Procs -> Seq(WorkItem)] /\ \A q \in Procs : dwork'[q] \in Seq(ItemsOf(q))
  BY <1>2, DworkKeeps
<1>4. silences' \in Nat
  <2> DEFINE alive == {q \in quiet : status[q] = "on"}
  <2>1. IsFiniteSet(alive)
    BY <1>1, ProcessesAssumption, FS_Subset
  <2>2. Cardinality(alive) \in Nat
    BY <2>1, FS_CardinalityType
  <2>3. QED
    BY <2>2 DEF IInv, TypeOK
<1>5. known' \in [Procs -> SUBSET Publisher] /\ seen' \in [Procs -> SUBSET Procs]
  BY DEF IInv, TypeOK, DelPublishersByProc
<1>6. TypeOK'
  BY <1>3, <1>4, <1>5 DEF IInv, TypeOK
<1>7. Traffic'
  BY <1>3 DEF IInv, Traffic, MessagesTo, ItemsOf
<1>8. \A q \in Procs : /\ known'[q] \subseteq known[q]
                       /\ seen'[q] \subseteq seen[q]
                       /\ \A pub \in known'[q] : pub.proc \in seen[q] => pub.proc \in seen'[q]
  BY DEF IInv, TypeOK, DelPublishersByProc
<1>9. KnownHasLease' /\ NeverSeesItself' /\ ScopeRespected'
  BY <1>8 DEF IInv, KnownHasLease, NeverSeesItself, ScopeRespected
<1>10. QED
  BY <1>6, <1>7, <1>9 DEF IInv

LEMMA DiscSendKeeps ==
  ASSUME IInv, NEW p \in Procs, NEW m, DiscSend(p, m)
  PROVE  IInv'
<1> USE DEF DiscSend
<1>1. dwork[p] \in Seq(ItemsOf(p))
  BY DEF IInv, Traffic
<1>2. m \in Message /\ m.from = p /\ m \in Pending(dwork[p])
  BY <1>1, SentIsOwn
<1>3. Done(dwork[p], m) \in Seq(ItemsOf(p))
  BY <1>1, <1>2, DoneIsQueue
<1>4. dwork' \in [Procs -> Seq(WorkItem)] /\ \A q \in Procs : dwork'[q] \in Seq(ItemsOf(q))
  BY <1>3, DworkKeeps
<1>5. /\ inbox' \in [Procs -> Seq(Message)]
      /\ \A q \in Procs : inbox'[q] \in Seq(MessagesTo(q))
      /\ delayed' \in SUBSET [to : Procs, msg : Message]
      /\ \A d \in delayed' : d.msg.from # d.to
      /\ faults' \in Nat
  BY <1>2, MulticastKeeps
<1>6. TypeOK'
  BY <1>4, <1>5 DEF IInv, TypeOK
<1>7. Traffic'
  BY <1>4, <1>5 DEF IInv, Traffic, MessagesTo, ItemsOf
<1>8. QED
  BY <1>6, <1>7, TablesKept DEF IInv

LEMMA DiscCallKeeps ==
  ASSUME IInv, NEW p \in Procs, NEW cb, NEW x, DiscCall(p, cb, x)
  PROVE  IInv'
<1> USE DEF DiscCall
<1>1. dwork[p] \in Seq(ItemsOf(p)) /\ x \in Pending(dwork[p])
  BY DEF IInv, Traffic, Doing
<1>2. Done(dwork[p], x) \in Seq(ItemsOf(p))
  BY <1>1, DoneIsQueue
<1>3. dwork' \in [Procs -> Seq(WorkItem)] /\ \A q \in Procs : dwork'[q] \in Seq(ItemsOf(q))
  BY <1>2, DworkKeeps
<1>4. TypeOK'
  BY <1>3 DEF IInv, TypeOK, budgets
<1>5. Traffic'
  BY <1>3 DEF IInv, Traffic, MessagesTo, ItemsOf
<1>6. QED
  BY <1>4, <1>5, TablesKept DEF IInv

-----------------------------------------------------------------------------
(* Application threads.                                                    *)

\* A step of the thread of node n that leaves it another queue of work and
\* touches nothing else but the number of calls.
LEMMA AppWorkKeeps ==
  ASSUME IInv, NEW p \in Procs, NEW n \in Nodes, NEW queue \in Seq(ItemsOf(p)),
         awork' = [awork EXCEPT ![p][n] = queue], ops' \in Nat,
         UNCHANGED <<status, seen, inbox, delayed, turn, dwork, faults, silences, exits>>,
         known' \in [Procs -> SUBSET Publisher]
  PROVE  TypeOK' /\ Traffic' /\ NeverSeesItself'
<1>1. /\ awork' \in [Procs -> [Nodes -> Seq(WorkItem)]]
      /\ \A q \in Procs : \A k \in Nodes : awork'[q][k] \in Seq(ItemsOf(q))
  BY AworkKeeps
<1>2. TypeOK'
  BY <1>1 DEF IInv, TypeOK
<1>3. Traffic'
  BY <1>1 DEF IInv, Traffic, MessagesTo, ItemsOf
<1>4. QED
  BY <1>2, <1>3 DEF IInv, NeverSeesItself

LEMMA AnnounceIsQueue ==
  ASSUME NEW p \in Procs, NEW pub \in Publisher, pub.proc = p,
         NEW type \in {"ADVERTISE", "UNADVERTISE"}
  PROVE  Announce(type, pub) \in Seq(ItemsOf(p))
<1> DEFINE args == IF pub.scope = "PROCESS" THEN {} ELSE {About(type, pub)}
<1>1. \A x \in args : x \in Message /\ x.from = p
  BY AboutIsMessage
<1>2. Announce(type, pub) = Work("send", args)
  BY DEF Announce
<1> HIDE DEF args
<1>3. [op |-> "send", args |-> args] \in ItemsOf(p)
  BY <1>1 DEF ItemsOf, WorkItem
<1>4. QED
  BY <1>2, <1>3, WorkIsQueue

LEMMA AdvertiseKeeps ==
  ASSUME IInv, NEW p \in Procs, NEW n \in Nodes, NEW t \in Topics, NEW scope \in Offered,
         Advertise(p, n, t, scope)
  PROVE  IInv'
<1> DEFINE pub == [topic |-> t, proc |-> p, node |-> n, scope |-> scope]
           queue == Work("connect", {pub}) \o Announce("ADVERTISE", pub)
<1> USE DEF Advertise, AppStarts
<1>1. pub \in Publisher /\ pub.proc = p
  BY ProcessesAssumption DEF Publisher
<1>2. known' = [known EXCEPT ![p] = AddPublisher(@, pub)]
  OBVIOUS
<1>3. awork' = [awork EXCEPT ![p][n] = queue]
  OBVIOUS
<1>4. UNCHANGED <<status, seen, inbox, delayed, turn, dwork, faults, silences, exits>>
  OBVIOUS
<1>5. ops' \in Nat
  BY DEF IInv, TypeOK
<1> HIDE DEF pub
<1>6. queue \in Seq(ItemsOf(p))
  <2>1. [op |-> "connect", args |-> {pub}] \in ItemsOf(p)
    BY <1>1 DEF ItemsOf, WorkItem
  <2>2. Work("connect", {pub}) \in Seq(ItemsOf(p))
    BY <2>1, WorkIsQueue
  <2>3. Announce("ADVERTISE", pub) \in Seq(ItemsOf(p))
    BY <1>1, AnnounceIsQueue
  <2>4. QED
    BY <2>2, <2>3, ConcatProperties
<1>7. \A q \in Procs : /\ known'[q] \in SUBSET Publisher
                       /\ \A e \in known'[q] : e \in known[q] \/ e.proc = q
  BY <1>1, <1>2 DEF IInv, TypeOK, AddPublisher
<1>8. known' \in [Procs -> SUBSET Publisher]
  BY <1>2, <1>7 DEF IInv, TypeOK
<1> HIDE DEF queue
<1>9. TypeOK' /\ Traffic' /\ NeverSeesItself'
  BY <1>3, <1>4, <1>5, <1>6, <1>8, AppWorkKeeps
<1>10. KnownHasLease'
  BY <1>4, <1>7 DEF IInv, KnownHasLease
<1>11. ScopeRespected'
  BY <1>7 DEF IInv, ScopeRespected
<1>12. QED
  BY <1>9, <1>10, <1>11 DEF IInv

LEMMA UnadvertiseKeeps ==
  ASSUME IInv, NEW p \in Procs, NEW n \in Nodes, NEW pub, Unadvertise(p, n, pub)
  PROVE  IInv'
<1> USE DEF Unadvertise, AppStarts
<1>1. pub \in Publisher /\ pub.proc = p
  BY DEF Own, GetPublishersByProc, IInv, TypeOK
<1>2. Announce("UNADVERTISE", pub) \in Seq(ItemsOf(p))
  BY <1>1, AnnounceIsQueue
<1>3. ops' \in Nat
  BY DEF IInv, TypeOK
<1>4. known' \in [Procs -> SUBSET Publisher] /\ \A q \in Procs : known'[q] \subseteq known[q]
  BY DEF IInv, TypeOK, DelPublishersByNode
<1>5. TypeOK' /\ Traffic' /\ NeverSeesItself'
  BY <1>2, <1>3, <1>4, AppWorkKeeps
<1>6. KnownHasLease' /\ ScopeRespected'
  BY <1>4 DEF IInv, KnownHasLease, ScopeRespected
<1>7. QED
  BY <1>5, <1>6 DEF IInv

LEMMA DiscoverKeeps ==
  ASSUME IInv, NEW p \in Procs, NEW n \in Nodes, NEW t \in Topics, Discover(p, n, t)
  PROVE  IInv'
<1> DEFINE queue == Work("send", {Query(p, t)}) \o Work("lookup", {t})
<1> USE DEF Discover, AppStarts
<1>1. queue \in Seq(ItemsOf(p))
  <2>1. /\ [op |-> "send", args |-> {Query(p, t)}] \in ItemsOf(p)
        /\ [op |-> "lookup", args |-> {t}] \in ItemsOf(p)
    BY QueryIsMessage DEF ItemsOf, WorkItem
  <2>2. Work("send", {Query(p, t)}) \in Seq(ItemsOf(p)) /\ Work("lookup", {t}) \in Seq(ItemsOf(p))
    BY <2>1, WorkIsQueue
  <2>3. QED
    BY <2>2, ConcatProperties
<1>2. awork' = [awork EXCEPT ![p][n] = queue]
  OBVIOUS
<1>3. ops' \in Nat /\ known' \in [Procs -> SUBSET Publisher]
  BY DEF IInv, TypeOK
<1> HIDE DEF queue
<1>4. TypeOK' /\ Traffic'
  BY <1>1, <1>2, <1>3, AppWorkKeeps
<1>5. QED
  BY <1>4, TablesKept DEF IInv

LEMMA AppSendKeeps ==
  ASSUME IInv, NEW p \in Procs, NEW n \in Nodes, NEW m, AppSend(p, n, m)
  PROVE  IInv'
<1> USE DEF AppSend
<1>1. awork[p][n] \in Seq(ItemsOf(p))
  BY DEF IInv, Traffic
<1>2. m \in Message /\ m.from = p /\ m \in Pending(awork[p][n])
  BY <1>1, SentIsOwn
<1>3. Done(awork[p][n], m) \in Seq(ItemsOf(p))
  BY <1>1, <1>2, DoneIsQueue
<1>4. /\ awork' \in [Procs -> [Nodes -> Seq(WorkItem)]]
      /\ \A q \in Procs : \A k \in Nodes : awork'[q][k] \in Seq(ItemsOf(q))
  BY <1>3, AworkKeeps
<1>5. /\ inbox' \in [Procs -> Seq(Message)]
      /\ \A q \in Procs : inbox'[q] \in Seq(MessagesTo(q))
      /\ delayed' \in SUBSET [to : Procs, msg : Message]
      /\ \A d \in delayed' : d.msg.from # d.to
      /\ faults' \in Nat
  BY <1>2, MulticastKeeps
<1>6. TypeOK'
  BY <1>4, <1>5 DEF IInv, TypeOK
<1>7. Traffic'
  BY <1>4, <1>5 DEF IInv, Traffic, MessagesTo, ItemsOf
<1>8. QED
  BY <1>6, <1>7, TablesKept DEF IInv

LEMMA AppLookupKeeps ==
  ASSUME IInv, NEW p \in Procs, NEW n \in Nodes, NEW t, AppLookup(p, n, t)
  PROVE  IInv'
<1> DEFINE found == GetPublishers(known[p], t)
           queue == Work("connect", found) \o Done(awork[p][n], t)
<1> USE DEF AppLookup
<1>1. awork[p][n] \in Seq(ItemsOf(p)) /\ t \in Pending(awork[p][n])
  BY DEF IInv, Traffic, Doing
<1>2. found \in SUBSET Publisher
  BY DEF GetPublishers, IInv, TypeOK
<1>3. awork' = [awork EXCEPT ![p][n] = queue]
  OBVIOUS
<1>4. ops' \in Nat /\ known' \in [Procs -> SUBSET Publisher]
  BY DEF IInv, TypeOK, budgets
<1>5. UNCHANGED <<status, known, seen, inbox, delayed, turn, dwork, faults, silences, exits>>
  BY DEF budgets
<1> HIDE DEF found
<1>6. queue \in Seq(ItemsOf(p))
  <2>1. [op |-> "connect", args |-> found] \in ItemsOf(p)
    BY <1>2 DEF ItemsOf, WorkItem
  <2>2. Work("connect", found) \in Seq(ItemsOf(p))
    BY <2>1, WorkIsQueue
  <2>3. Done(awork[p][n], t) \in Seq(ItemsOf(p))
    BY <1>1, DoneIsQueue
  <2>4. QED
    BY <2>2, <2>3, ConcatProperties
<1> HIDE DEF queue
<1>7. TypeOK' /\ Traffic'
  BY <1>3, <1>4, <1>5, <1>6, AppWorkKeeps
<1>8. QED
  BY <1>5, <1>7, TablesKept DEF IInv

LEMMA AppConnectKeeps ==
  ASSUME IInv, NEW p \in Procs, NEW n \in Nodes, NEW pub, AppConnect(p, n, pub)
  PROVE  IInv'
<1> USE DEF AppConnect
<1>1. awork[p][n] \in Seq(ItemsOf(p)) /\ pub \in Pending(awork[p][n])
  BY DEF IInv, Traffic, Doing
<1>2. Done(awork[p][n], pub) \in Seq(ItemsOf(p))
  BY <1>1, DoneIsQueue
<1>3. ops' \in Nat /\ known' \in [Procs -> SUBSET Publisher]
  BY DEF IInv, TypeOK, budgets
<1>4. UNCHANGED <<status, known, seen, inbox, delayed, turn, dwork, faults, silences, exits>>
  BY DEF budgets
<1>5. TypeOK' /\ Traffic'
  BY <1>2, <1>3, <1>4, AppWorkKeeps
<1>6. QED
  BY <1>4, <1>5, TablesKept DEF IInv

-----------------------------------------------------------------------------
(* The network and the processes.                                          *)

LEMMA ArriveKeeps ==
  ASSUME IInv, NEW d \in delayed, Arrive(d)
  PROVE  IInv'
<1> USE DEF Arrive
<1>1. d.to \in Procs /\ d.msg \in MessagesTo(d.to)
  BY DEF IInv, TypeOK, Traffic, MessagesTo
<1>2. inbox \in [Procs -> Seq(Message)] /\ \A q \in Procs : inbox[q] \in Seq(MessagesTo(q))
  BY DEF IInv, TypeOK, Traffic
<1>3. ASSUME NEW q \in Procs PROVE inbox'[q] \in Seq(MessagesTo(q))
  <2>1. CASE q = d.to /\ status[q] = "on"
    <3>1. inbox'[q] = Append(inbox[q], d.msg)
      BY <1>2, <2>1
    <3>2. QED
      BY <1>1, <1>2, <2>1, <3>1, AppendProperties
  <2>2. CASE ~(q = d.to /\ status[q] = "on")
    <3>1. inbox'[q] = inbox[q]
      BY <1>2, <2>2
    <3>2. QED
      BY <1>2, <3>1
  <2>3. QED
    BY <2>1, <2>2
<1>4. inbox' \in [Procs -> Seq(Message)]
  <2>1. inbox' = [q \in Procs |-> inbox'[q]]
    BY <1>2
  <2>2. QED
    BY ZenonT(30), <1>3, <2>1, InboxTyped
<1>5. TypeOK'
  BY <1>4 DEF IInv, TypeOK, budgets
<1>6. Traffic'
  BY <1>3 DEF IInv, Traffic, MessagesTo, ItemsOf
<1>7. QED
  BY <1>5, <1>6, TablesKept DEF IInv

LEMMA StartKeeps ==
  ASSUME IInv, NEW p \in Procs, Start(p)
  PROVE  IInv'
<1>1. TypeOK'
  BY DEF Start, IInv, TypeOK, budgets
<1>2. Traffic'
  BY DEF Start, IInv, Traffic, MessagesTo, ItemsOf
<1>3. QED
  BY <1>1, <1>2, TablesKept DEF IInv, Start

\* The memory a process loses takes its entries, leases and work with it.
LEMMA VanishKeeps ==
  ASSUME IInv, NEW p \in Procs, Vanish(p),
         inbox' \in [Procs -> Seq(Message)],
         \A q \in Procs : inbox'[q] \in Seq(MessagesTo(q)),
         delayed' \in SUBSET [to : Procs, msg : Message],
         \A d \in delayed' : d.msg.from # d.to,
         faults' \in Nat
  PROVE  IInv'
<1> USE DEF Vanish
<1>1. << >> \in Seq(ItemsOf(p)) /\ << >> \in Seq(WorkItem)
  OBVIOUS
<1>2. dwork' \in [Procs -> Seq(WorkItem)] /\ \A q \in Procs : dwork'[q] \in Seq(ItemsOf(q))
  BY <1>1, DworkKeeps
<1>3. /\ awork' \in [Procs -> [Nodes -> Seq(WorkItem)]]
      /\ \A q \in Procs : \A n \in Nodes : awork'[q][n] \in Seq(ItemsOf(q))
  BY <1>1 DEF IInv, TypeOK, Traffic
<1>4. /\ known' \in [Procs -> SUBSET Publisher] /\ seen' \in [Procs -> SUBSET Procs]
      /\ \A q \in Procs : \/ known'[q] = {} /\ seen'[q] = {}
                          \/ known'[q] = known[q] /\ seen'[q] = seen[q]
  <2>1. known \in [Procs -> SUBSET Publisher] /\ seen \in [Procs -> SUBSET Procs]
    BY DEF IInv, TypeOK
  <2>2. known' = [known EXCEPT ![p] = {}] /\ seen' = [seen EXCEPT ![p] = {}]
    OBVIOUS
  <2>3. known' \in [Procs -> SUBSET Publisher] /\ seen' \in [Procs -> SUBSET Procs]
    BY <2>1, <2>2
  <2>4. ASSUME NEW q \in Procs
        PROVE  \/ known'[q] = {} /\ seen'[q] = {}
               \/ known'[q] = known[q] /\ seen'[q] = seen[q]
    <3>1. CASE q = p
      BY <2>1, <2>2, <3>1
    <3>2. CASE q # p
      BY <2>1, <2>2, <3>2
    <3>3. QED
      BY <3>1, <3>2
  <2>5. QED
    BY <2>3, <2>4
<1>5. TypeOK'
  BY <1>2, <1>3, <1>4 DEF IInv, TypeOK
<1>6. Traffic'
  BY <1>2, <1>3 DEF IInv, Traffic, MessagesTo, ItemsOf
<1>7. KnownHasLease' /\ NeverSeesItself' /\ ScopeRespected'
  BY <1>4 DEF IInv, KnownHasLease, NeverSeesItself, ScopeRespected
<1>8. QED
  BY <1>5, <1>6, <1>7 DEF IInv

LEMMA ExitKeeps ==
  ASSUME IInv, NEW p \in Procs, Exit(p)
  PROVE  IInv'
<1>1. Plain("BYE", p) \in Message /\ Plain("BYE", p).from = p
  BY PlainIsMessage
<1>2. /\ inbox' \in [Procs -> Seq(Message)]
      /\ \A q \in Procs : inbox'[q] \in Seq(MessagesTo(q))
      /\ delayed' \in SUBSET [to : Procs, msg : Message]
      /\ \A d \in delayed' : d.msg.from # d.to
      /\ faults' \in Nat
  BY <1>1, MulticastKeeps DEF Exit
<1>3. QED
  BY <1>2, VanishKeeps DEF Exit

LEMMA CrashKeeps ==
  ASSUME IInv, NEW p \in Procs, Crash(p)
  PROVE  IInv'
<1>1. /\ inbox' \in [Procs -> Seq(Message)]
      /\ \A q \in Procs : inbox'[q] \in Seq(MessagesTo(q))
      /\ delayed' \in SUBSET [to : Procs, msg : Message]
      /\ \A d \in delayed' : d.msg.from # d.to
      /\ faults' \in Nat
  BY DEF Crash, IInv, TypeOK, Traffic, MessagesTo
<1>2. QED
  BY <1>1, VanishKeeps DEF Crash

-----------------------------------------------------------------------------
(* The theorems.                                                           *)

LEMMA InvInit == Init => IInv
<1> SUFFICES ASSUME Init PROVE IInv
  OBVIOUS
<1> USE DEF Init
<1>1. TypeOK
  BY DEF TypeOK
<1>2. Traffic
  BY DEF Traffic
<1>3. KnownHasLease /\ NeverSeesItself /\ ScopeRespected
  BY DEF KnownHasLease, NeverSeesItself, ScopeRespected
<1>4. QED
  BY <1>1, <1>2, <1>3 DEF IInv

LEMMA InvStep == IInv /\ [Next]_discVars => IInv'
<1> SUFFICES ASSUME IInv, [Next]_discVars PROVE IInv'
  OBVIOUS
<1>1. ASSUME NEW p \in Procs, DiscThread(p) \/ DiscCallback(p) PROVE IInv'
  BY <1>1, ReceiveKeeps, BeatKeeps, ExpireKeeps, DiscSendKeeps, DiscCallKeeps
     DEF DiscThread, DiscCallback
<1>2. ASSUME NEW p \in Procs, NEW n \in Nodes, AppThread(p, n) PROVE IInv'
  BY <1>2, AdvertiseKeeps, UnadvertiseKeeps, DiscoverKeeps DEF AppThread
<1>3. ASSUME NEW p \in Procs, NEW n \in Nodes, AppWork(p, n) PROVE IInv'
  BY <1>3, AppSendKeeps, AppLookupKeeps, AppConnectKeeps DEF AppWork
<1>4. CASE Environment
  BY <1>4, ArriveKeeps, StartKeeps, ExitKeeps, CrashKeeps DEF Environment
<1>5. CASE UNCHANGED discVars
  <2>1. TypeOK'
    BY <1>5 DEF discVars, IInv, TypeOK
  <2>2. Traffic'
    BY <1>5 DEF discVars, IInv, Traffic, MessagesTo, ItemsOf
  <2>3. QED
    BY <1>5, <2>1, <2>2, TablesKept DEF discVars, IInv
<1>6. QED
  BY <1>1, <1>2, <1>3, <1>4, <1>5 DEF Next

\* The invariant of discovery: whatever is lost, delayed, duplicated or taken
\* for dead, the traffic is well typed and never comes back to its sender,
\* and the tables of known publishers and of leases agree.
THEOREM Invariant == Spec => []IInv
<1>1. QED
  BY InvInit, InvStep, PTL DEF Spec

\* Type correctness of discovery.
THEOREM TypeCorrect == Spec => []TypeOK
<1>1. IInv => TypeOK
  BY DEF IInv
<1>2. QED
  BY <1>1, Invariant, PTL

\* No process ever knows a publisher that it would not drop when the
\* publisher's process falls silent (updateActivity, BYE).
THEOREM EntriesHaveLeases == Spec => []KnownHasLease
<1>1. IInv => KnownHasLease
  BY DEF IInv
<1>2. QED
  BY <1>1, Invariant, PTL

\* A process never expires itself: dispatchDiscoveryMsg discards what it sent.
THEOREM NoLeaseOnItself == Spec => []NeverSeesItself
<1>1. IInv => NeverSeesItself
  BY DEF IInv
<1>2. QED
  BY <1>1, Invariant, PTL

\* A publisher is known only to processes in its scope.
THEOREM ScopesHold == Spec => []ScopeRespected
<1>1. IInv => ScopeRespected
  BY DEF IInv
<1>2. QED
  BY <1>1, Invariant, PTL

\* What p owns is touched by no datagram, for none is about a publisher of p.
LEMMA ReceiveKeepsOwn ==
  ASSUME IInv, NEW p \in Procs, Receive(p)
  PROVE  \A q \in Procs : Own(q)' = Own(q)
<1> DEFINE m == Head(inbox[p])
<1> HIDE DEF m
<1>1. inbox[p] # << >> /\ m = Head(inbox[p])
  BY DEF Receive, m
<1>2. m \in Message /\ m.from # p
  BY <1>1, HeadIsForeign
<1>3. m.type \in {"ADVERTISE", "UNADVERTISE"} => m.pub.proc = m.from
  BY <1>2, MessageParts
<1>4. PICK table, work : /\ Dispatch(p, m, table, work)
                         /\ GetPublishersByProc(table, p) = Own(p)
  <2>1. CASE RecvAdvertise(p, m)
    BY <1>2, <1>3, <2>1 DEF RecvAdvertise, AddPublisher, Own, GetPublishersByProc
  <2>2. CASE RecvUnadvertise(p, m)
    BY <1>2, <1>3, <2>2
       DEF RecvUnadvertise, DelPublishersByNode, SameKey, Own, GetPublishersByProc
  <2>3. CASE RecvSubscribe(p, m) \/ RecvRegistration(p, m) \/ RecvHeartbeat(p, m)
    BY <2>3 DEF RecvSubscribe, RecvRegistration, RecvHeartbeat, Own
  <2>4. CASE RecvBye(p, m)
    BY <1>2, <2>4 DEF RecvBye, DelPublishersByProc, Own, GetPublishersByProc
  <2>5. QED
    BY <2>1, <2>2, <2>3, <2>4 DEF Receive, m
<1>5. known' = [known EXCEPT ![p] = table] /\ known \in [Procs -> SUBSET Publisher]
  BY <1>4 DEF Dispatch, IInv, TypeOK
<1>6. QED
  BY <1>4, <1>5 DEF Own, GetPublishersByProc

LEMMA ExpireKeepsOwn ==
  ASSUME IInv, NEW p \in Procs, NEW quiet \in SUBSET seen[p], Expire(p, quiet)
  PROVE  \A q \in Procs : Own(q)' = Own(q)
<1>1. p \notin quiet
  BY DEF IInv, NeverSeesItself
<1>2. /\ known' = [known EXCEPT ![p] = DelPublishersByProc(@, quiet)]
      /\ known \in [Procs -> SUBSET Publisher]
  BY DEF Expire, IInv, TypeOK
<1>3. QED
  BY <1>1, <1>2 DEF Own, GetPublishersByProc, DelPublishersByProc

LEMMA VanishKeepsOwn ==
  ASSUME IInv, NEW p \in Procs, Vanish(p)
  PROVE  \A q \in Procs : Own(q)' # Own(q) => status'[q] = "gone"
<1>1. /\ known' = [known EXCEPT ![p] = {}] /\ known \in [Procs -> SUBSET Publisher]
      /\ status' = [status EXCEPT ![p] = "gone"] /\ status \in [Procs -> {"off", "on", "gone"}]
  BY DEF Vanish, IInv, TypeOK
<1>2. QED
  BY <1>1 DEF Own, GetPublishersByProc

\* The publishers of a process change only by its own calls: neither a
\* datagram that is lost, late or repeated nor an expiry touches them.
THEOREM OwnerDecides == Spec => OwnOnlyByApi
<1> DEFINE A == \A p \in Procs :
                  Own(p)' # Own(p) => ops' = ops + 1 \/ status'[p] = "gone"
<1>1. IInv /\ [Next]_discVars => [A]_discVars
  <2> SUFFICES ASSUME IInv, Next PROVE A
    OBVIOUS
  <2>1. ASSUME NEW p \in Procs, DiscThread(p) PROVE A
    <3>1. CASE Receive(p)
      BY <3>1, ReceiveKeepsOwn
    <3>2. ASSUME NEW quiet \in SUBSET seen[p], Expire(p, quiet) PROVE A
      BY <3>2, ExpireKeepsOwn
    <3>3. CASE Beat(p) \/ \E m \in Pending(dwork[p]) : DiscSend(p, m)
      BY <3>3 DEF Beat, DiscSend, Own
    <3>4. QED
      BY <2>1, <3>1, <3>2, <3>3 DEF DiscThread
  <2>2. ASSUME NEW p \in Procs, DiscCallback(p) PROVE A
    BY <2>2 DEF DiscCallback, DiscCall, Own
  <2>3. ASSUME NEW p \in Procs, NEW n \in Nodes, AppThread(p, n) PROVE A
    BY <2>3 DEF AppThread, Advertise, Discover, Unadvertise, AppStarts
  <2>4. ASSUME NEW p \in Procs, NEW n \in Nodes, AppWork(p, n) PROVE A
    BY <2>4 DEF AppWork, AppSend, AppLookup, AppConnect, Own
  <2>5. CASE Environment
    <3>1. CASE \E d \in delayed : Arrive(d)
      BY <3>1 DEF Arrive, Own
    <3>2. ASSUME NEW p \in Procs, Start(p) PROVE A
      BY <3>2 DEF Start, Own
    <3>3. ASSUME NEW p \in Procs, Exit(p) \/ Crash(p) PROVE A
      BY <3>3, VanishKeepsOwn DEF Exit, Crash
    <3>4. QED
      BY <2>5, <3>1, <3>2, <3>3 DEF Environment
  <2>6. QED
    BY <2>1, <2>2, <2>3, <2>4, <2>5 DEF Next
<1>2. QED
  BY <1>1, Invariant, PTL DEF Spec, OwnOnlyByApi

=============================================================================
