--------------------------- MODULE RuntimeProofs ---------------------------
(***************************************************************************)
(* Proofs about MessageRuntime for any processes, nodes and topics, any    *)
(* number of API calls, lost, delayed or duplicated datagrams, false       *)
(* expiries, exits and crashes.  What Discovery guarantees is proved again *)
(* for the composition from the lemmas of DiscoveryProofs: unsubscribing   *)
(* and registering subscribers are steps Discovery alone does not have.    *)
(***************************************************************************)
EXTENDS MessageRuntime, DiscoveryProofs

-----------------------------------------------------------------------------
(* Queues of work.                                                         *)

LEMMA WorkOnWork ==
  ASSUME NEW op, NEW args, NEW o, NEW x
  PROVE  WorkOn(Work(op, args), o, x) <=> o = op /\ x \in args
<1>1. CASE args = {}
  BY <1>1 DEF WorkOn, Work
<1>2. CASE args # {}
  <2>1. Work(op, args) = <<[op |-> op, args |-> args]>>
    BY <1>2 DEF Work
  <2> QED
    BY <2>1 DEF WorkOn
<1> QED
  BY <1>1, <1>2

LEMMA WorkOnConcat ==
  ASSUME NEW S, NEW q1 \in Seq(S), NEW q2 \in Seq(S), NEW o, NEW x
  PROVE  WorkOn(q1 \o q2, o, x) <=> WorkOn(q1, o, x) \/ WorkOn(q2, o, x)
<1>1. /\ Len(q1 \o q2) = Len(q1) + Len(q2)
      /\ \A i \in 1 .. Len(q1) : (q1 \o q2)[i] = q1[i]
      /\ \A i \in 1 .. Len(q2) : (q1 \o q2)[Len(q1) + i] = q2[i]
      /\ Len(q1) \in Nat /\ Len(q2) \in Nat
  OBVIOUS
<1>2. ASSUME WorkOn(q1 \o q2, o, x) PROVE WorkOn(q1, o, x) \/ WorkOn(q2, o, x)
  <2>1. PICK i \in 1 .. Len(q1 \o q2) : (q1 \o q2)[i].op = o /\ x \in (q1 \o q2)[i].args
    BY <1>2 DEF WorkOn
  <2>2. CASE i \in 1 .. Len(q1)
    BY <1>1, <2>1, <2>2 DEF WorkOn
  <2>3. CASE i \notin 1 .. Len(q1)
    <3>1. i - Len(q1) \in 1 .. Len(q2) /\ i = Len(q1) + (i - Len(q1))
      BY <1>1, <2>3
    <3>2. (q1 \o q2)[i] = q2[i - Len(q1)]
      BY <1>1, <3>1
    <3> QED
      BY <2>1, <3>1, <3>2 DEF WorkOn
  <2> QED
    BY <2>2, <2>3
<1>3. ASSUME WorkOn(q1, o, x) PROVE WorkOn(q1 \o q2, o, x)
  BY <1>1, <1>3 DEF WorkOn
<1>4. ASSUME WorkOn(q2, o, x) PROVE WorkOn(q1 \o q2, o, x)
  <2>1. PICK i \in 1 .. Len(q2) : q2[i].op = o /\ x \in q2[i].args
    BY <1>4 DEF WorkOn
  <2>2. Len(q1) + i \in 1 .. Len(q1 \o q2) /\ (q1 \o q2)[Len(q1) + i] = q2[i]
    BY <1>1
  <2> QED
    BY <2>1, <2>2 DEF WorkOn
<1> QED
  BY <1>2, <1>3, <1>4

\* The work of a queue is what its first item holds and what the rest does.
LEMMA WorkOnHead ==
  ASSUME NEW S, NEW queue \in Seq(S), queue # << >>, NEW o, NEW x
  PROVE  WorkOn(queue, o, x) <=> \/ Head(queue).op = o /\ x \in Head(queue).args
                                 \/ WorkOn(Tail(queue), o, x)
<1>1. /\ Len(queue) \in Nat /\ Len(queue) > 0
      /\ Len(Tail(queue)) = Len(queue) - 1 /\ Head(queue) = queue[1]
      /\ \A i \in 1 .. Len(Tail(queue)) : Tail(queue)[i] = queue[i + 1]
  OBVIOUS
<1>2. ASSUME WorkOn(queue, o, x)
      PROVE  (Head(queue).op = o /\ x \in Head(queue).args) \/ WorkOn(Tail(queue), o, x)
  <2>1. PICK i \in 1 .. Len(queue) : queue[i].op = o /\ x \in queue[i].args
    BY <1>2 DEF WorkOn
  <2>2. CASE i = 1
    BY <1>1, <2>1, <2>2
  <2>3. CASE i # 1
    <3>1. i - 1 \in 1 .. Len(Tail(queue)) /\ Tail(queue)[i - 1] = queue[i]
      BY <1>1, <2>3
    <3> QED
      BY <2>1, <3>1 DEF WorkOn
  <2> QED
    BY <2>2, <2>3
<1>3. ASSUME WorkOn(Tail(queue), o, x) PROVE WorkOn(queue, o, x)
  <2>1. PICK i \in 1 .. Len(Tail(queue)) : Tail(queue)[i].op = o /\ x \in Tail(queue)[i].args
    BY <1>3 DEF WorkOn
  <2>2. i + 1 \in 1 .. Len(queue) /\ Tail(queue)[i] = queue[i + 1]
    BY <1>1
  <2> QED
    BY <2>1, <2>2 DEF WorkOn
<1> QED
  BY <1>1, <1>2, <1>3 DEF WorkOn

\* A step on argument y of the first item leaves everything else to be done.
LEMMA WorkOnDone ==
  ASSUME NEW p \in Procs, NEW queue \in Seq(ItemsOf(p)), NEW y \in Pending(queue),
         NEW o, NEW x
  PROVE  /\ WorkOn(Done(queue, y), o, x) => WorkOn(queue, o, x)
         /\ WorkOn(queue, o, x) =>
               WorkOn(Done(queue, y), o, x) \/ (x = y /\ Head(queue).op = o)
<1> DEFINE rest == Work(Head(queue).op, Head(queue).args \ {y})
<1>1. queue # << >>
  BY DEF Pending
<1>2. Head(queue) \in ItemsOf(p) /\ Tail(queue) \in Seq(ItemsOf(p))
  BY <1>1, HeadTailProperties
<1>3. [op |-> Head(queue).op, args |-> Head(queue).args \ {y}] \in ItemsOf(p)
  BY <1>2 DEF ItemsOf, WorkItem
<1>4. rest \in Seq(ItemsOf(p))
  BY <1>3, WorkIsQueue
<1>5. WorkOn(rest, o, x) <=> o = Head(queue).op /\ x \in Head(queue).args \ {y}
  BY WorkOnWork
<1>6. Done(queue, y) = rest \o Tail(queue)
  BY DEF Done
<1> HIDE DEF rest
<1>7. WorkOn(Done(queue, y), o, x) <=> WorkOn(rest, o, x) \/ WorkOn(Tail(queue), o, x)
  <2>1. WorkOn(rest \o Tail(queue), o, x) <=> WorkOn(rest, o, x) \/ WorkOn(Tail(queue), o, x)
    BY <1>2, <1>4, WorkOnConcat
  <2> QED
    BY <1>6, <2>1
<1>8. WorkOn(queue, o, x) <=> \/ Head(queue).op = o /\ x \in Head(queue).args
                              \/ WorkOn(Tail(queue), o, x)
  BY <1>1, WorkOnHead
<1> QED
  BY <1>5, <1>7, <1>8

\* What a thread does now, it had to do.
LEMMA DoingIsWork ==
  ASSUME NEW p \in Procs, NEW queue \in Seq(ItemsOf(p)), NEW op, NEW x, Doing(queue, op, x)
  PROVE  /\ queue # << >> /\ x \in Pending(queue) /\ Head(queue).op = op
         /\ Head(queue) \in WorkItem /\ x \in Head(queue).args
         /\ WorkOn(queue, op, x)
<1>1. queue # << >> /\ x \in Pending(queue) /\ Head(queue).op = op /\ x \in Head(queue).args
  BY DEF Doing, Pending
<1>2. Head(queue) \in WorkItem
  BY <1>1, HeadTailProperties DEF ItemsOf
<1> QED
  BY <1>1, <1>2, WorkOnHead

LEMMA NoWork ==
  ASSUME NEW o, NEW x
  PROVE  ~WorkOn(<< >>, o, x)
  BY DEF WorkOn

-----------------------------------------------------------------------------
(* What Discovery guarantees, in the composition.                          *)

LEMMA UnsubscribeKeeps ==
  ASSUME IInv, NEW p \in Procs, NEW n \in Nodes, NEW t \in Topics, Unsubscribe(p, n, t)
  PROVE  IInv'
<1> DEFINE queue == Work("leave", {t})
<1>1. queue \in Seq(ItemsOf(p))
  <2>1. [op |-> "leave", args |-> {t}] \in ItemsOf(p)
    BY DEF ItemsOf, WorkItem
  <2> QED
    BY <2>1, WorkIsQueue
<1>2. awork' = [awork EXCEPT ![p][n] = queue]
  BY DEF Unsubscribe, AppStarts
<1>3. UNCHANGED <<status, known, seen, inbox, delayed, turn, dwork, faults, silences, exits>>
  BY DEF Unsubscribe, AppStarts
<1>4. ops' \in Nat /\ known' \in [Procs -> SUBSET Publisher]
  BY <1>3 DEF Unsubscribe, AppStarts, IInv, TypeOK
<1> HIDE DEF queue
<1>5. TypeOK' /\ Traffic'
  BY <1>1, <1>2, <1>3, <1>4, AppWorkKeeps
<1> QED
  BY <1>3, <1>5, TablesKept DEF IInv

LEMMA RegistrationIsMessage ==
  ASSUME NEW p \in Procs, NEW q \in Procs, NEW n \in Nodes, NEW t \in Topics,
         NEW type \in {"NEW_CONNECTION", "END_CONNECTION"}
  PROVE  LET m == Registration(type, Subscriber(t, p, n), q) IN m \in Message /\ m.from = p
<1>1. Subscriber(t, p, n) \in Entry /\ Subscriber(t, p, n).proc = p
  BY DEF Subscriber, Entry
<1>2. \E e \in Entry, type2 \in {"NEW_CONNECTION", "END_CONNECTION"}, q2 \in Procs :
         Registration(type, Subscriber(t, p, n), q) = Registration(type2, e, q2)
  BY <1>1
<1>3. Registration(type, Subscriber(t, p, n), q) \in Message
  BY <1>2 DEF Message
<1>4. Registration(type, Subscriber(t, p, n), q).from = p
  BY <1>1 DEF Registration
<1> QED
  BY <1>3, <1>4

LEMMA AppLeaveKeeps ==
  ASSUME IInv, NEW p \in Procs, NEW n \in Nodes, NEW t, AppLeave(p, n, t)
  PROVE  IInv'
<1> DEFINE publishers == {pub.proc : pub \in GetPublishers(known[p], t)}
           sends == {Registration("END_CONNECTION", Subscriber(t, p, n), q) : q \in publishers}
           queue == Work("send", sends) \o Done(awork[p][n], t)
<1>1. awork[p][n] \in Seq(ItemsOf(p))
  BY DEF IInv, Traffic
<1>2. t \in Topics /\ t \in Pending(awork[p][n])
  BY <1>1, DoingIsWork DEF AppLeave, WorkItem
<1>3. publishers \subseteq Procs
  BY DEF GetPublishers, IInv, TypeOK, Publisher
<1>4. \A m \in sends : m \in Message /\ m.from = p
  BY <1>2, <1>3, RegistrationIsMessage
<1>5. awork' = [awork EXCEPT ![p][n] = queue]
  BY DEF AppLeave
<1> HIDE DEF sends
<1>6. queue \in Seq(ItemsOf(p))
  <2>1. [op |-> "send", args |-> sends] \in ItemsOf(p)
    BY <1>4 DEF ItemsOf, WorkItem
  <2>2. Work("send", sends) \in Seq(ItemsOf(p)) /\ Done(awork[p][n], t) \in Seq(ItemsOf(p))
    BY <1>1, <1>2, <2>1, WorkIsQueue, DoneIsQueue
  <2> QED
    BY <2>2, ConcatProperties
<1>7. UNCHANGED <<status, known, seen, inbox, delayed, turn, dwork, ops, faults, silences, exits>>
  BY DEF AppLeave, budgets
<1>8. ops' \in Nat /\ known' \in [Procs -> SUBSET Publisher]
  BY <1>7 DEF IInv, TypeOK
<1> HIDE DEF queue
<1>9. TypeOK' /\ Traffic'
  BY <1>5, <1>6, <1>7, <1>8, AppWorkKeeps
<1> QED
  BY <1>7, <1>9, TablesKept DEF IInv

LEMMA RegisterKeeps ==
  ASSUME IInv, NEW p \in Procs, NEW m \in Message, m.from = p, Register(p, m)
  PROVE  IInv'
<1>1. /\ inbox' \in [Procs -> Seq(Message)]
      /\ \A q \in Procs : inbox'[q] \in Seq(MessagesTo(q))
      /\ delayed' \in SUBSET [to : Procs, msg : Message]
      /\ \A d \in delayed' : d.msg.from # d.to
      /\ faults' \in Nat
  BY MulticastKeeps DEF Register
<1>2. TypeOK'
  BY <1>1 DEF Register, IInv, TypeOK
<1>3. Traffic'
  BY <1>1 DEF Register, IInv, Traffic, MessagesTo, ItemsOf
<1> QED
  BY <1>2, <1>3, TablesKept DEF Register, IInv

LEMMA DiscoveryStutters ==
  ASSUME IInv, UNCHANGED discVars
  PROVE  IInv'
  BY InvStep

LEMMA DiscoveryStep ==
  ASSUME IInv, RuntimeTypeOK, RegistersOwn, [RuntimeNext]_vars
  PROVE  IInv'
<1>1. ASSUME NEW p \in Procs, DiscThread(p) PROVE IInv'
  BY <1>1, InvStep DEF Next
<1>2. ASSUME NEW p \in Procs, RuntimeCallback(p) PROVE IInv'
  BY <1>2, DiscCallKeeps DEF RuntimeCallback
<1>3. ASSUME NEW p \in Procs, ReceiveThread(p) PROVE IInv'
  <2>1. CASE ApplyConnect(p) \/ ApplySubscribe(p) \/ ApplyUnsubscribe(p)
    BY <2>1, DiscoveryStutters DEF ApplyConnect, ApplySubscribe, ApplyUnsubscribe, Apply
  <2>2. ASSUME NEW m \in registering[p], Register(p, m) PROVE IInv'
    BY <2>2, RegisterKeeps DEF RuntimeTypeOK, RegistersOwn
  <2> QED
    BY <1>3, <2>1, <2>2 DEF ReceiveThread
<1>4. ASSUME NEW p \in Procs, NEW n \in Nodes, RuntimeApp(p, n) PROVE IInv'
  BY <1>4, AdvertiseKeeps, UnadvertiseKeeps, DiscoverKeeps, UnsubscribeKeeps
     DEF RuntimeApp, Subscribe
<1>5. ASSUME NEW p \in Procs, NEW n \in Nodes, RuntimeAppWork(p, n) PROVE IInv'
  BY <1>5, AppSendKeeps, AppLookupKeeps, AppConnectKeeps, AppLeaveKeeps DEF RuntimeAppWork
<1>6. CASE RuntimeEnvironment
  BY <1>6, ArriveKeeps, StartKeeps, ExitKeeps, CrashKeeps DEF RuntimeEnvironment
<1>7. CASE UNCHANGED vars
  BY <1>7, DiscoveryStutters DEF vars
<1> QED
  BY <1>1, <1>2, <1>3, <1>4, <1>5, <1>6, <1>7 DEF RuntimeNext

-----------------------------------------------------------------------------
(* Types of the runtime, and whom the receive thread registers.            *)

\* What the threads call back about.
LEMMA CallbackTypes ==
  ASSUME IInv, NEW p \in Procs, NEW op, NEW x,
         \/ Doing(dwork[p], op, x)
         \/ \E n \in Nodes : Doing(awork[p][n], op, x)
  PROVE  /\ op \in {"connect", "disconnect"} => x \in Publisher
         /\ op \in {"register", "unregister"} => x \in Message
         /\ op = "gone" => x \in Procs
         /\ op \in {"lookup", "leave"} => x \in Topics
<1>1. PICK queue \in Seq(ItemsOf(p)) : Doing(queue, op, x)
  BY DEF IInv, Traffic
<1>2. Head(queue) \in WorkItem /\ Head(queue).op = op /\ x \in Head(queue).args
  BY <1>1, DoingIsWork
<1> QED
  BY <1>2 DEF WorkItem

LEMMA CommandTypes ==
  ASSUME NEW type, NEW value, NEW nodes,
         \/ type = "Connect" /\ value \in Procs /\ nodes = {}
         \/ type = "Subscribe" /\ value \in Publisher /\ nodes \in SUBSET Nodes
         \/ type = "Unsubscribe" /\ value \in Topics /\ nodes = {}
  PROVE  Command(type, value, nodes) \in Commands
  BY DEF Command, Commands

LEMMA ConnectedTypes ==
  ASSUME RuntimeTypeOK, NEW p \in Procs, NEW pub \in Publisher, OnPublisherConnected(p, pub)
  PROVE  RuntimeTypeOK' /\ registering' = registering
<1>1. CASE ~(HasSubscriber(p, pub.topic) /\ pub.proc # p)
  BY <1>1 DEF OnPublisherConnected, runtimeVars, RuntimeTypeOK
<1>2. CASE HasSubscriber(p, pub.topic) /\ pub.proc # p
  <2> DEFINE dial == IF HasPublisher(remotePubs[p], pub.proc) THEN << >>
                     ELSE <<Command("Connect", pub.proc, {})>>
             more == <<Command("Subscribe", pub, NodesWith(p, pub.topic))>>
  <2>1. pub.proc \in Procs /\ NodesWith(p, pub.topic) \in SUBSET Nodes
    BY DEF Publisher, NodesWith
  <2>2. /\ Command("Connect", pub.proc, {}) \in Commands
        /\ Command("Subscribe", pub, NodesWith(p, pub.topic)) \in Commands
    BY <2>1, CommandTypes
  <2>3. dial \in Seq(Commands) /\ more \in Seq(Commands) /\ commands[p] \in Seq(Commands)
    BY <2>2 DEF RuntimeTypeOK
  <2>4. /\ commands' = [commands EXCEPT ![p] = @ \o dial \o more]
        /\ remotePubs' = [remotePubs EXCEPT ![p] = AddPublisher(@, pub)]
        /\ UNCHANGED <<handlers, remoteSubs, registering, connected, filter>>
    BY <1>2 DEF OnPublisherConnected
  <2> HIDE DEF dial, more
  <2>5. commands[p] \o dial \o more \in Seq(Commands)
    BY <2>3, ConcatProperties
  <2>6. commands' \in [Procs -> Seq(Commands)]
    BY <2>4, <2>5 DEF RuntimeTypeOK
  <2>7. remotePubs' \in [Procs -> SUBSET Publisher]
    BY <2>4 DEF RuntimeTypeOK, AddPublisher
  <2> QED
    BY <2>4, <2>6, <2>7 DEF RuntimeTypeOK
<1> QED
  BY <1>1, <1>2

\* The subscriber of a registration datagram is an entry of its sender.
LEMMA RegistrationParts ==
  ASSUME NEW m \in Message, m.type \in {"NEW_CONNECTION", "END_CONNECTION"}
  PROVE  m.pub \in Entry /\ m.pub.proc = m.from
  BY DEF Message, About, Registration, Entry

LEMMA CallbackKeepsTypes ==
  ASSUME IInv, RuntimeTypeOK, RegistersSeen, NEW p \in Procs, RuntimeCallback(p)
  PROVE  RuntimeTypeOK' /\ registering' = registering
<1>1. ASSUME NEW x, DiscCall(p, "connect", x), OnPublisherConnected(p, x)
      PROVE  RuntimeTypeOK' /\ registering' = registering
  BY <1>1, CallbackTypes, ConnectedTypes DEF DiscCall
<1>2. ASSUME NEW x, OnPublisherDisconnected(p, x) \/ OnProcessGone(p, x)
      PROVE  RuntimeTypeOK' /\ registering' = registering
  <2>1. /\ UNCHANGED <<handlers, commands, registering, connected, filter>>
        /\ \/ remotePubs' = [remotePubs EXCEPT ![p] = DelPublishersByNode(@, x)]
           \/ remotePubs' = [remotePubs EXCEPT ![p] = DelPublishersByProc(@, {x})]
        /\ \/ remoteSubs' = remoteSubs
           \/ remoteSubs' = [remoteSubs EXCEPT ![p] = DelPublishersByProc(@, {x})]
    BY <1>2 DEF OnPublisherDisconnected, OnProcessGone
  <2>2. remotePubs' \in [Procs -> SUBSET Publisher]
    <3>1. remotePubs \in [Procs -> SUBSET Publisher]
      BY DEF RuntimeTypeOK
    <3>2. /\ DelPublishersByNode(remotePubs[p], x) \in SUBSET Publisher
          /\ DelPublishersByProc(remotePubs[p], {x}) \in SUBSET Publisher
      BY <3>1 DEF DelPublishersByNode, DelPublishersByProc
    <3> QED
      BY <2>1, <3>1, <3>2
  <2>3. remoteSubs' \in [Procs -> SUBSET Entry]
    <3>1. remoteSubs \in [Procs -> SUBSET Entry]
      BY DEF RuntimeTypeOK
    <3>2. DelPublishersByProc(remoteSubs[p], {x}) \in SUBSET Entry
      BY <3>1 DEF DelPublishersByProc
    <3> QED
      BY <2>1, <3>1, <3>2
  <2> QED
    BY <2>1, <2>2, <2>3 DEF RuntimeTypeOK
<1>3. ASSUME NEW x, DiscCall(p, "register", x), OnSubscriberRegistered(p, x)
      PROVE  RuntimeTypeOK' /\ registering' = registering
  <2>1. dwork[p] \in Seq(ItemsOf(p))
    BY DEF IInv, Traffic
  <2>2. WorkOn(dwork[p], "register", x)
    BY <1>3, <2>1, DoingIsWork DEF DiscCall
  <2>3. x.pub \in Entry
    BY <2>2 DEF WorkOn, RegistersSeen
  <2>4. /\ UNCHANGED <<handlers, remotePubs, commands, registering, connected, filter>>
        /\ \/ remoteSubs' = remoteSubs
           \/ remoteSubs' = [remoteSubs EXCEPT ![p] = AddPublisher(@, x.pub)]
    BY <1>3 DEF OnSubscriberRegistered, runtimeVars
  <2>5. remoteSubs' \in [Procs -> SUBSET Entry]
    <3>1. remoteSubs \in [Procs -> SUBSET Entry]
      BY DEF RuntimeTypeOK
    <3>2. AddPublisher(remoteSubs[p], x.pub) \in SUBSET Entry
      BY <2>3, <3>1 DEF AddPublisher
    <3> QED
      BY <2>4, <3>1, <3>2
  <2> QED
    BY <2>4, <2>5 DEF RuntimeTypeOK
<1>4. ASSUME NEW x, OnSubscriberUnregistered(p, x)
      PROVE  RuntimeTypeOK' /\ registering' = registering
  BY <1>4 DEF OnSubscriberUnregistered, DelPublishersByNode, runtimeVars, RuntimeTypeOK
<1> QED
  BY <1>1, <1>2, <1>3, <1>4 DEF RuntimeCallback

LEMMA ApplyTypes ==
  ASSUME RuntimeTypeOK, RegistersOwn, NEW p \in Procs,
         ApplyConnect(p) \/ ApplySubscribe(p) \/ ApplyUnsubscribe(p)
  PROVE  RuntimeTypeOK' /\ RegistersOwn'
<1> DEFINE c == Head(commands[p])
<1>1. /\ commands[p] \in Seq(Commands) /\ commands[p] # << >>
      /\ commands' = [commands EXCEPT ![p] = Tail(@)]
      /\ UNCHANGED <<handlers, remotePubs, remoteSubs>>
  BY DEF ApplyConnect, ApplySubscribe, ApplyUnsubscribe, Apply, RuntimeTypeOK
<1>2. c \in Commands /\ Tail(commands[p]) \in Seq(Commands)
  BY <1>1, HeadTailProperties
<1>3. commands' \in [Procs -> Seq(Commands)]
  BY <1>1, <1>2 DEF RuntimeTypeOK
<1> HIDE DEF c
<1>4. CASE ApplyConnect(p)
  <2>1. c.type = "Connect" /\ connected' = [connected EXCEPT ![p] = @ \union {c.value}]
        /\ UNCHANGED <<registering, filter>>
    BY <1>4 DEF ApplyConnect, Apply, c
  <2>2. c.value \in Procs
    BY <1>2, <2>1 DEF Commands
  <2> QED
    BY <1>1, <1>3, <2>1, <2>2 DEF RuntimeTypeOK, RegistersOwn
<1>5. CASE ApplySubscribe(p)
  <2> DEFINE sends == {Registration("NEW_CONNECTION", Subscriber(c.value.topic, p, n), c.value.proc) :
                          n \in c.nodes}
  <2>1. c.type = "Subscribe" /\ UNCHANGED connected
    BY <1>5 DEF ApplySubscribe, Apply, c
  <2>2. c.value \in Publisher /\ c.nodes \subseteq Nodes
    BY <1>2, <2>1 DEF Commands
  <2>3. c.value.topic \in Topics /\ c.value.proc \in Procs
    BY <2>2 DEF Publisher
  <2>4. \A m \in sends : m \in Message /\ m.from = p
    BY <2>2, <2>3, RegistrationIsMessage
  <2>5. \/ /\ filter' = [filter EXCEPT ![p][c.value.topic] = @ + 1]
           /\ registering' = [registering EXCEPT ![p] = sends]
        \/ UNCHANGED <<filter, registering>>
    BY <1>5 DEF ApplySubscribe, c
  <2> HIDE DEF sends
  <2>6. filter \in [Procs -> [Topics -> Nat]] /\ registering \in [Procs -> SUBSET Message]
    BY DEF RuntimeTypeOK
  <2>7. filter' \in [Procs -> [Topics -> Nat]]
    BY <2>3, <2>5, <2>6
  <2>8. registering' \in [Procs -> SUBSET Message] /\ RegistersOwn'
    BY <2>4, <2>5, <2>6 DEF RegistersOwn
  <2> QED
    BY <1>1, <1>3, <2>1, <2>7, <2>8 DEF RuntimeTypeOK
<1>6. CASE ApplyUnsubscribe(p)
  <2>1. c.type = "Unsubscribe" /\ UNCHANGED <<registering, connected>>
    BY <1>6 DEF ApplyUnsubscribe, Apply, c
  <2>2. c.value \in Topics
    BY <1>2, <2>1 DEF Commands
  <2>3. \/ filter[p][c.value] > 0 /\ filter' = [filter EXCEPT ![p][c.value] = @ - 1]
        \/ UNCHANGED filter
    BY <1>6 DEF ApplyUnsubscribe, c
  <2>4. filter \in [Procs -> [Topics -> Nat]]
    BY DEF RuntimeTypeOK
  <2>5. filter[p][c.value] \in Nat
    BY <2>2, <2>4
  <2>6. filter' \in [Procs -> [Topics -> Nat]]
    BY <2>2, <2>3, <2>4, <2>5
  <2> QED
    BY <1>1, <1>3, <2>1, <2>6 DEF RuntimeTypeOK, RegistersOwn
<1> QED
  BY <1>4, <1>5, <1>6

LEMMA UnsubscribeTypes ==
  ASSUME RuntimeTypeOK, NEW p \in Procs, NEW n \in Nodes, NEW t \in Topics, Unsubscribe(p, n, t)
  PROVE  RuntimeTypeOK' /\ registering' = registering
<1>1. Command("Unsubscribe", t, {}) \in Commands
  BY CommandTypes
<1>2. commands[p] \in Seq(Commands)
  BY DEF RuntimeTypeOK
<1>3. Append(commands[p], Command("Unsubscribe", t, {})) \in Seq(Commands)
  BY <1>1, <1>2, AppendProperties
<1>4. \/ commands' = [commands EXCEPT ![p] = Append(@, Command("Unsubscribe", t, {}))]
      \/ commands' = commands
  <2>1. CASE NodesWith(p, t) = {n}
    BY <2>1 DEF Unsubscribe
  <2>2. CASE NodesWith(p, t) # {n}
    <3>1. commands' = [commands EXCEPT ![p] = @]
      BY <2>2 DEF Unsubscribe
    <3> QED
      BY <3>1 DEF RuntimeTypeOK
  <2> QED
    BY <2>1, <2>2
<1>5. commands' \in [Procs -> Seq(Commands)]
  BY <1>3, <1>4 DEF RuntimeTypeOK
<1> QED
  BY <1>5 DEF Unsubscribe, RuntimeTypeOK

LEMMA ForgetTypes ==
  ASSUME RuntimeTypeOK, RegistersOwn, NEW p \in Procs, Forget(p)
  PROVE  RuntimeTypeOK' /\ RegistersOwn'
<1>1. << >> \in Seq(Commands)
  OBVIOUS
<1>2. RuntimeTypeOK'
  BY <1>1 DEF Forget, RuntimeTypeOK
<1>3. registering \in [Procs -> SUBSET Message] /\ registering' = [registering EXCEPT ![p] = {}]
  BY DEF Forget, RuntimeTypeOK
<1> QED
  BY <1>2, <1>3 DEF RegistersOwn

LEMMA RuntimeTypeStep ==
  ASSUME IInv, RuntimeTypeOK, RegistersOwn, RegistersSeen, [RuntimeNext]_vars
  PROVE  RuntimeTypeOK' /\ RegistersOwn'
<1>1. ASSUME registering' = registering PROVE RegistersOwn'
  BY <1>1 DEF RegistersOwn
<1>2. ASSUME UNCHANGED runtimeVars PROVE RuntimeTypeOK' /\ RegistersOwn'
  BY <1>2 DEF runtimeVars, RuntimeTypeOK, RegistersOwn
<1>3. ASSUME NEW p \in Procs, RuntimeCallback(p) PROVE RuntimeTypeOK' /\ RegistersOwn'
  BY <1>1, <1>3, CallbackKeepsTypes
<1>4. ASSUME NEW p \in Procs, ReceiveThread(p) PROVE RuntimeTypeOK' /\ RegistersOwn'
  <2>1. ASSUME NEW m \in registering[p], Register(p, m)
        PROVE  RuntimeTypeOK' /\ RegistersOwn'
    BY <2>1 DEF Register, RuntimeTypeOK, RegistersOwn
  <2> QED
    BY <1>4, <2>1, ApplyTypes DEF ReceiveThread
<1>5. ASSUME NEW p \in Procs, NEW n \in Nodes, RuntimeApp(p, n)
      PROVE  RuntimeTypeOK' /\ RegistersOwn'
  <2>1. ASSUME NEW t \in Topics, Subscribe(p, n, t) PROVE RuntimeTypeOK' /\ RegistersOwn'
    BY <2>1 DEF Subscribe, Handler, RuntimeTypeOK, RegistersOwn
  <2> QED
    BY <1>1, <1>2, <1>5, <2>1, UnsubscribeTypes DEF RuntimeApp
<1>6. ASSUME NEW p \in Procs, NEW n \in Nodes, RuntimeAppWork(p, n)
      PROVE  RuntimeTypeOK' /\ RegistersOwn'
  <2>1. ASSUME NEW x, AppConnect(p, n, x), OnPublisherConnected(p, x)
        PROVE  RuntimeTypeOK' /\ RegistersOwn'
    <3>1. x \in Publisher
      BY <2>1, CallbackTypes DEF AppConnect
    <3> QED
      BY <1>1, <2>1, <3>1, ConnectedTypes
  <2> QED
    BY <1>2, <1>6, <2>1 DEF RuntimeAppWork
<1>7. CASE RuntimeEnvironment
  BY <1>2, <1>7, ForgetTypes DEF RuntimeEnvironment
<1> QED
  BY <1>2, <1>3, <1>4, <1>5, <1>6, <1>7 DEF RuntimeNext, vars

-----------------------------------------------------------------------------
(* Remote subscribers and the leases of their processes.                   *)

\* A step of one process needs to be looked at in that process only.
LEMMA LeasesOf ==
  ASSUME RegistersSeen, SubscribersHaveLease, NEW p \in Procs,
         \A q \in Procs \ {p} : /\ dwork'[q] = dwork[q] /\ seen'[q] = seen[q]
                                /\ remoteSubs'[q] = remoteSubs[q],
         \A m : WorkOn(dwork'[p], "register", m) =>
                   m.pub \in Entry /\ m.pub.proc = m.from /\ m.from \in seen'[p],
         \A s \in remoteSubs'[p] : s.proc \in seen'[p] \/ WorkOn(dwork'[p], "gone", s.proc)
  PROVE  RegistersSeen' /\ SubscribersHaveLease'
<1>1. RegistersSeen'
  <2> SUFFICES ASSUME NEW q \in Procs, NEW i \in 1 .. Len(dwork'[q]),
                      dwork'[q][i].op = "register", NEW m \in dwork'[q][i].args
               PROVE  m.pub \in Entry /\ m.pub.proc = m.from /\ m.from \in seen'[q]
    BY DEF RegistersSeen
  <2>1. CASE q = p
    BY <2>1 DEF WorkOn
  <2>2. CASE q # p
    BY <2>2 DEF RegistersSeen
  <2> QED
    BY <2>1, <2>2
<1>2. SubscribersHaveLease'
  <2> SUFFICES ASSUME NEW q \in Procs, NEW s \in remoteSubs'[q]
               PROVE  s.proc \in seen'[q] \/ WorkOn(dwork'[q], "gone", s.proc)
    BY DEF SubscribersHaveLease
  <2>1. CASE q = p
    BY <2>1
  <2>2. CASE q # p
    BY <2>2 DEF SubscribersHaveLease
  <2> QED
    BY <2>1, <2>2
<1> QED
  BY <1>1, <1>2

LEMMA RegistersSeenWork ==
  ASSUME RegistersSeen, NEW p \in Procs, NEW m, WorkOn(dwork[p], "register", m)
  PROVE  m.pub \in Entry /\ m.pub.proc = m.from /\ m.from \in seen[p]
  BY DEF RegistersSeen, WorkOn

\* A discovery thread that takes up new work has none left: every subscriber
\* of its process has its lease.
LEMMA ReceiveLeases ==
  ASSUME IInv, RegistersSeen, SubscribersHaveLease, NEW p \in Procs, Receive(p),
         UNCHANGED remoteSubs
  PROVE  RegistersSeen' /\ SubscribersHaveLease'
<1> DEFINE m == Head(inbox[p])
<1> HIDE DEF m
<1>1. inbox[p] # << >> /\ m = Head(inbox[p]) /\ dwork[p] = << >>
  BY DEF Receive, DiscIdle, m
<1>2. m \in Message
  BY <1>1, HeadIsForeign
<1>3. \A s \in remoteSubs[p] : s.proc \in seen[p]
  BY <1>1, NoWork DEF SubscribersHaveLease
<1>4. PICK table, work :
         /\ Dispatch(p, m, table, work)
         /\ \A x : WorkOn(work, "register", x) => x = m /\ m.type = "NEW_CONNECTION"
         /\ m.type = "BYE" => WorkOn(work, "gone", m.from)
  <2>1. CASE RecvAdvertise(p, m)
    <3>1. /\ \A x : ~WorkOn(Work("connect", {m.pub}), "register", x)
          /\ \A x : ~WorkOn(<< >>, "register", x)
      BY WorkOnWork, NoWork
    <3> QED
      BY <2>1, <3>1 DEF RecvAdvertise
  <2>2. CASE RecvUnadvertise(p, m)
    <3>1. /\ \A x : ~WorkOn(Work("disconnect", {m.pub}), "register", x)
          /\ \A x : ~WorkOn(<< >>, "register", x)
      BY WorkOnWork, NoWork
    <3> QED
      BY <2>2, <3>1 DEF RecvUnadvertise
  <2>3. CASE RecvSubscribe(p, m)
    <3> DEFINE answers == {pub \in Own(p) : pub.topic = m.topic /\ InScope(pub, m.from, p)}
               work == Work("send", {About("ADVERTISE", pub) : pub \in answers})
    <3>1. Dispatch(p, m, known[p], work) /\ m.type = "SUBSCRIBE"
      BY <2>3 DEF RecvSubscribe
    <3>2. \A x : ~WorkOn(work, "register", x)
      BY WorkOnWork
    <3> QED
      BY <3>1, <3>2
  <2>4. CASE RecvRegistration(p, m)
    <3>1. /\ \A x : WorkOn(Work("register", {m}), "register", x) => x = m
          /\ \A x : ~WorkOn(Work("unregister", {m}), "register", x)
      BY WorkOnWork
    <3> QED
      BY <2>4, <3>1 DEF RecvRegistration
  <2>5. CASE RecvHeartbeat(p, m)
    BY <2>5, NoWork DEF RecvHeartbeat
  <2>6. CASE RecvBye(p, m)
    <3>1. /\ \A x : ~WorkOn(Work("gone", {m.from}), "register", x)
          /\ WorkOn(Work("gone", {m.from}), "gone", m.from)
      BY WorkOnWork
    <3> QED
      BY <2>6, <3>1 DEF RecvBye
  <2> QED
    BY <2>1, <2>2, <2>3, <2>4, <2>5, <2>6 DEF Receive, m
<1>5. /\ dwork'[p] = work
      /\ seen'[p] = IF m.type = "BYE" THEN seen[p] \ {m.from} ELSE seen[p] \union {m.from}
      /\ \A q \in Procs \ {p} : dwork'[q] = dwork[q] /\ seen'[q] = seen[q]
  BY <1>4 DEF Dispatch, IInv, TypeOK
<1>6. \A x : WorkOn(dwork'[p], "register", x) =>
                x.pub \in Entry /\ x.pub.proc = x.from /\ x.from \in seen'[p]
  BY <1>2, <1>4, <1>5, RegistrationParts
<1>7. \A s \in remoteSubs'[p] : s.proc \in seen'[p] \/ WorkOn(dwork'[p], "gone", s.proc)
  BY <1>3, <1>4, <1>5
<1> QED
  BY <1>5, <1>6, <1>7, LeasesOf

LEMMA BeatLeases ==
  ASSUME IInv, RegistersSeen, SubscribersHaveLease, NEW p \in Procs, Beat(p),
         UNCHANGED remoteSubs
  PROVE  RegistersSeen' /\ SubscribersHaveLease'
<1>1. PICK work : /\ dwork' = [dwork EXCEPT ![p] = Work("send", work)]
                  /\ dwork[p] = << >> /\ seen' = seen
  BY DEF Beat, Reached, DiscIdle
<1>2. /\ dwork'[p] = Work("send", work)
      /\ \A q \in Procs \ {p} : dwork'[q] = dwork[q]
  BY <1>1 DEF IInv, TypeOK
<1>3. \A x : ~WorkOn(dwork'[p], "register", x)
  BY <1>2, WorkOnWork
<1>4. \A s \in remoteSubs'[p] : s.proc \in seen'[p]
  BY <1>1, NoWork DEF SubscribersHaveLease
<1> QED
  BY <1>1, <1>2, <1>3, <1>4, LeasesOf

LEMMA ExpireLeases ==
  ASSUME IInv, RegistersSeen, SubscribersHaveLease, NEW p \in Procs,
         NEW quiet \in SUBSET seen[p], Expire(p, quiet), UNCHANGED remoteSubs
  PROVE  RegistersSeen' /\ SubscribersHaveLease'
<1>1. /\ dwork' = [dwork EXCEPT ![p] = Work("gone", quiet)]
      /\ seen' = [seen EXCEPT ![p] = @ \ quiet] /\ dwork[p] = << >>
  BY DEF Expire, Reached, DiscIdle
<1>2. /\ dwork'[p] = Work("gone", quiet) /\ seen'[p] = seen[p] \ quiet
      /\ \A q \in Procs \ {p} : dwork'[q] = dwork[q] /\ seen'[q] = seen[q]
  BY <1>1 DEF IInv, TypeOK
<1>3. /\ \A x : ~WorkOn(dwork'[p], "register", x)
      /\ \A x \in quiet : WorkOn(dwork'[p], "gone", x)
  BY <1>2, WorkOnWork
<1>4. \A s \in remoteSubs[p] : s.proc \in seen[p]
  BY <1>1, NoWork DEF SubscribersHaveLease
<1>5. \A s \in remoteSubs'[p] : s.proc \in seen'[p] \/ WorkOn(dwork'[p], "gone", s.proc)
  BY <1>2, <1>3, <1>4
<1> QED
  BY <1>2, <1>3, <1>5, LeasesOf

\* A work item that is done took argument x off the queue; what it was about
\* is excused.
LEMMA DoneLeases ==
  ASSUME IInv, RegistersSeen, SubscribersHaveLease, NEW p \in Procs,
         NEW op, NEW x, Doing(dwork[p], op, x),
         dwork'[p] = Done(dwork[p], x), seen' = seen,
         \A q \in Procs \ {p} : dwork'[q] = dwork[q] /\ remoteSubs'[q] = remoteSubs[q],
         \A s \in remoteSubs'[p] : \/ s \in remoteSubs[p] /\ (op = "gone" => s.proc # x)
                                   \/ s.proc \in seen[p]
  PROVE  RegistersSeen' /\ SubscribersHaveLease'
<1>1. dwork[p] \in Seq(ItemsOf(p))
  BY DEF IInv, Traffic
<1>2. x \in Pending(dwork[p]) /\ Head(dwork[p]).op = op
  BY <1>1, DoingIsWork
<1>3. dwork'[p] = Done(dwork[p], x)
  OBVIOUS
<1>4. \A m : WorkOn(dwork'[p], "register", m) => WorkOn(dwork[p], "register", m)
  BY <1>1, <1>2, <1>3, WorkOnDone
<1>5. \A m : WorkOn(dwork'[p], "register", m) =>
                m.pub \in Entry /\ m.pub.proc = m.from /\ m.from \in seen'[p]
  BY <1>4, RegistersSeenWork
<1>6. ASSUME NEW s \in remoteSubs'[p]
      PROVE  s.proc \in seen'[p] \/ WorkOn(dwork'[p], "gone", s.proc)
  <2>1. CASE s.proc \in seen[p]
    BY <2>1
  <2>2. CASE s.proc \notin seen[p]
    <3>1. s \in remoteSubs[p] /\ (op = "gone" => s.proc # x)
      BY <2>2
    <3>2. WorkOn(dwork[p], "gone", s.proc)
      BY <2>2, <3>1 DEF SubscribersHaveLease
    <3> QED
      BY <1>1, <1>2, <1>3, <3>1, <3>2, WorkOnDone
  <2> QED
    BY <2>1, <2>2
<1> QED
  BY <1>5, <1>6, LeasesOf

LEMMA CallbackLeases ==
  ASSUME IInv, RuntimeTypeOK, RegistersSeen, SubscribersHaveLease, NEW p \in Procs,
         RuntimeCallback(p)
  PROVE  RegistersSeen' /\ SubscribersHaveLease'
<1>1. PICK x, cb : /\ DiscCall(p, cb, x)
                   /\ \/ cb = "connect" /\ OnPublisherConnected(p, x)
                      \/ cb = "disconnect" /\ OnPublisherDisconnected(p, x)
                      \/ cb = "gone" /\ OnProcessGone(p, x)
                      \/ cb = "register" /\ OnSubscriberRegistered(p, x)
                      \/ cb = "unregister" /\ OnSubscriberUnregistered(p, x)
  BY DEF RuntimeCallback
<1>2. /\ Doing(dwork[p], cb, x) /\ dwork' = [dwork EXCEPT ![p] = Done(@, x)] /\ seen' = seen
  BY <1>1 DEF DiscCall
<1>3. dwork[p] \in Seq(ItemsOf(p))
  BY DEF IInv, Traffic
<1>4. remoteSubs \in [Procs -> SUBSET Entry]
  BY DEF RuntimeTypeOK
<1>5. /\ \A q \in Procs \ {p} : remoteSubs'[q] = remoteSubs[q]
      /\ \A s \in remoteSubs'[p] : \/ s \in remoteSubs[p] /\ (cb = "gone" => s.proc # x)
                                   \/ s.proc \in seen[p]
  <2>1. CASE cb = "connect" \/ cb = "disconnect"
    BY <1>1, <2>1 DEF OnPublisherConnected, OnPublisherDisconnected, runtimeVars
  <2>2. CASE cb = "gone"
    <3>1. remoteSubs' = [remoteSubs EXCEPT ![p] = DelPublishersByProc(@, {x})]
      BY <1>1, <2>2 DEF OnProcessGone
    <3> QED
      BY <1>4, <3>1 DEF DelPublishersByProc
  <2>3. CASE cb = "register"
    <3>1. WorkOn(dwork[p], "register", x)
      BY <1>2, <1>3, <2>3, DoingIsWork
    <3>2. x.pub.proc \in seen[p]
      BY <3>1, RegistersSeenWork
    <3>3. \/ remoteSubs' = remoteSubs
          \/ remoteSubs' = [remoteSubs EXCEPT ![p] = AddPublisher(@, x.pub)]
      BY <1>1, <2>3 DEF OnSubscriberRegistered, runtimeVars
    <3> QED
      BY <1>4, <2>3, <3>2, <3>3 DEF AddPublisher
  <2>4. CASE cb = "unregister"
    <3>1. \/ remoteSubs' = remoteSubs
          \/ remoteSubs' = [remoteSubs EXCEPT ![p] = DelPublishersByNode(@, x.pub)]
      BY <1>1, <2>4 DEF OnSubscriberUnregistered, runtimeVars
    <3> QED
      BY <1>4, <2>4, <3>1 DEF DelPublishersByNode
  <2> QED
    BY <1>1, <2>1, <2>2, <2>3, <2>4
<1>6. dwork'[p] = Done(dwork[p], x) /\ \A q \in Procs \ {p} : dwork'[q] = dwork[q]
  BY <1>2 DEF IInv, TypeOK
<1> QED
  BY <1>2, <1>5, <1>6, DoneLeases

LEMMA VanishLeases ==
  ASSUME IInv, RuntimeTypeOK, RegistersSeen, SubscribersHaveLease, NEW p \in Procs,
         Vanish(p), Forget(p)
  PROVE  RegistersSeen' /\ SubscribersHaveLease'
<1>1. /\ seen' = [seen EXCEPT ![p] = {}] /\ dwork' = [dwork EXCEPT ![p] = << >>]
      /\ remoteSubs' = [remoteSubs EXCEPT ![p] = {}]
  BY DEF Vanish, Forget
<1>2. /\ dwork'[p] = << >> /\ remoteSubs'[p] = {}
      /\ \A q \in Procs \ {p} : /\ dwork'[q] = dwork[q] /\ seen'[q] = seen[q]
                                /\ remoteSubs'[q] = remoteSubs[q]
  BY <1>1 DEF IInv, TypeOK, RuntimeTypeOK
<1> QED
  BY <1>2, NoWork, LeasesOf

LEMMA LeaseStep ==
  ASSUME IInv, RuntimeTypeOK, RegistersSeen, SubscribersHaveLease, [RuntimeNext]_vars
  PROVE  RegistersSeen' /\ SubscribersHaveLease'
<1>1. ASSUME UNCHANGED <<dwork, seen, remoteSubs>>
      PROVE  RegistersSeen' /\ SubscribersHaveLease'
  BY <1>1 DEF RegistersSeen, SubscribersHaveLease
<1>2. ASSUME NEW p \in Procs, NEW x, OnPublisherConnected(p, x)
      PROVE  UNCHANGED remoteSubs
  BY <1>2 DEF OnPublisherConnected, runtimeVars
<1>3. ASSUME NEW p \in Procs, DiscThread(p), UNCHANGED runtimeVars
      PROVE  RegistersSeen' /\ SubscribersHaveLease'
  <2>1. UNCHANGED remoteSubs
    BY <1>3 DEF runtimeVars
  <2>2. ASSUME NEW m, DiscSend(p, m) PROVE RegistersSeen' /\ SubscribersHaveLease'
    <3>1. Doing(dwork[p], "send", m) /\ seen' = seen
      BY <2>2 DEF DiscSend
    <3>2. dwork'[p] = Done(dwork[p], m) /\ \A q \in Procs \ {p} : dwork'[q] = dwork[q]
      BY <2>2 DEF DiscSend, IInv, TypeOK
    <3> QED
      BY <2>1, <3>1, <3>2, DoneLeases
  <2> QED
    BY <1>3, <2>1, <2>2, ReceiveLeases, BeatLeases, ExpireLeases DEF DiscThread
<1>4. ASSUME NEW p \in Procs, ReceiveThread(p) PROVE UNCHANGED <<dwork, seen, remoteSubs>>
  BY <1>4 DEF ReceiveThread, ApplyConnect, ApplySubscribe, ApplyUnsubscribe, Apply,
              Register, discVars
<1>5. ASSUME NEW p \in Procs, NEW n \in Nodes, RuntimeApp(p, n)
      PROVE  UNCHANGED <<dwork, seen, remoteSubs>>
  BY <1>5 DEF RuntimeApp, Advertise, Subscribe, Discover, Unsubscribe, Unadvertise,
              AppStarts, runtimeVars
<1>6. ASSUME NEW p \in Procs, NEW n \in Nodes, RuntimeAppWork(p, n)
      PROVE  UNCHANGED <<dwork, seen, remoteSubs>>
  BY <1>2, <1>6 DEF RuntimeAppWork, AppSend, AppLookup, AppLeave, AppConnect, runtimeVars
<1>7. CASE RuntimeEnvironment
  <2>1. ASSUME NEW d \in delayed, Arrive(d), UNCHANGED runtimeVars
        PROVE  UNCHANGED <<dwork, seen, remoteSubs>>
    BY <2>1 DEF Arrive, runtimeVars
  <2>2. ASSUME NEW p \in Procs, Start(p), UNCHANGED runtimeVars
        PROVE  UNCHANGED <<dwork, seen, remoteSubs>>
    BY <2>2 DEF Start, runtimeVars
  <2>3. ASSUME NEW p \in Procs, Exit(p) \/ Crash(p), Forget(p)
        PROVE  RegistersSeen' /\ SubscribersHaveLease'
    BY <2>3, VanishLeases DEF Exit, Crash
  <2> QED
    BY <1>1, <1>7, <2>1, <2>2, <2>3 DEF RuntimeEnvironment
<1>8. CASE UNCHANGED vars
  BY <1>1, <1>8 DEF vars, discVars, runtimeVars
<1> QED
  BY <1>1, <1>3, <1>4, <1>5, <1>6, <1>7, <1>8, CallbackLeases DEF RuntimeNext

-----------------------------------------------------------------------------
(* Publishers a subscriber knows.                                          *)

\* The socket of p hears pub, or the receive thread has the command for it.
Linked(p, pub) == /\ pub.proc \in connected[p] \/ Queued(p, "Connect", pub.proc)
                  /\ filter[p][pub.topic] > 0 \/ Queued(p, "Subscribe", pub)

QueuedIn(queue, type, value) ==
    \E i \in 1 .. Len(queue) : queue[i].type = type /\ queue[i].value = value

LEMMA QueuedConcat ==
  ASSUME NEW S, NEW q1 \in Seq(S), NEW q2 \in Seq(S), NEW type, NEW value,
         QueuedIn(q1, type, value) \/ QueuedIn(q2, type, value)
  PROVE  QueuedIn(q1 \o q2, type, value)
<1>1. /\ Len(q1 \o q2) = Len(q1) + Len(q2)
      /\ \A i \in 1 .. Len(q1) : (q1 \o q2)[i] = q1[i]
      /\ \A i \in 1 .. Len(q2) : (q1 \o q2)[Len(q1) + i] = q2[i]
      /\ Len(q1) \in Nat /\ Len(q2) \in Nat
  OBVIOUS
<1>2. CASE QueuedIn(q1, type, value)
  BY <1>1, <1>2 DEF QueuedIn
<1>3. CASE QueuedIn(q2, type, value)
  <2>1. PICK i \in 1 .. Len(q2) : q2[i].type = type /\ q2[i].value = value
    BY <1>3 DEF QueuedIn
  <2>2. Len(q1) + i \in 1 .. Len(q1 \o q2) /\ (q1 \o q2)[Len(q1) + i] = q2[i]
    BY <1>1
  <2> QED
    BY <2>1, <2>2 DEF QueuedIn
<1> QED
  BY <1>2, <1>3

LEMMA QueuedOne ==
  ASSUME NEW type, NEW value, NEW nodes
  PROVE  QueuedIn(<<Command(type, value, nodes)>>, type, value)
  BY DEF QueuedIn, Command

\* A command stays in the queue until it is the one applied.
LEMMA QueuedTail ==
  ASSUME NEW S, NEW queue \in Seq(S), queue # << >>, NEW type, NEW value,
         QueuedIn(queue, type, value)
  PROVE  \/ Head(queue).type = type /\ Head(queue).value = value
         \/ QueuedIn(Tail(queue), type, value)
<1>1. /\ Len(queue) \in Nat /\ Len(Tail(queue)) = Len(queue) - 1 /\ Head(queue) = queue[1]
      /\ \A i \in 1 .. Len(Tail(queue)) : Tail(queue)[i] = queue[i + 1]
  OBVIOUS
<1>2. PICK i \in 1 .. Len(queue) : queue[i].type = type /\ queue[i].value = value
  BY DEF QueuedIn
<1>3. CASE i = 1
  BY <1>1, <1>2, <1>3
<1>4. CASE i # 1
  <2>1. i - 1 \in 1 .. Len(Tail(queue)) /\ Tail(queue)[i - 1] = queue[i]
    BY <1>1, <1>4
  <2> QED
    BY <1>2, <2>1 DEF QueuedIn
<1> QED
  BY <1>3, <1>4

LEMMA QueuedIsIn ==
  ASSUME NEW p, NEW type, NEW value
  PROVE  /\ Queued(p, type, value) <=> QueuedIn(commands[p], type, value)
         /\ Queued(p, type, value)' <=> QueuedIn(commands'[p], type, value)
  BY DEF Queued, QueuedIn

\* A step of one process needs to be looked at in that process only.
LEMMA MissedOf ==
  ASSUME NoMissedPublisher, PublishersConnected, NEW p \in Procs,
         \A q \in Procs \ {p} :
            /\ known'[q] = known[q] /\ handlers'[q] = handlers[q] /\ filter'[q] = filter[q]
            /\ awork'[q] = awork[q] /\ dwork'[q] = dwork[q] /\ commands'[q] = commands[q]
            /\ connected'[q] = connected[q] /\ remotePubs'[q] = remotePubs[q],
         \A q \in Procs : HasPublisher(remotePubs'[p], q) =>
                             q \in connected'[p] \/ Queued(p, "Connect", q)',
         \A pub \in known'[p] :
            pub.proc # p /\ HasSubscriber(p, pub.topic)' =>
               StillConnecting(p, pub)' \/ Linked(p, pub)'
  PROVE  NoMissedPublisher' /\ PublishersConnected'
<1>1. NoMissedPublisher'
  <2> SUFFICES ASSUME NEW q \in Procs, NEW pub \in known'[q], pub.proc # q,
                      HasSubscriber(q, pub.topic)', ~StillConnecting(q, pub)'
               PROVE  Linked(q, pub)'
    BY DEF NoMissedPublisher, Linked
  <2>1. CASE q = p
    BY <2>1
  <2>2. CASE q # p
    <3>1. pub \in known[q] /\ HasSubscriber(q, pub.topic) /\ ~StillConnecting(q, pub)
      BY <2>2 DEF HasSubscriber, NodesWith, StillConnecting
    <3>2. Linked(q, pub)
      BY <3>1 DEF NoMissedPublisher, Linked
    <3> QED
      BY <2>2, <3>2 DEF Linked, Queued
  <2> QED
    BY <2>1, <2>2
<1>2. PublishersConnected'
  <2> SUFFICES ASSUME NEW q \in Procs, NEW r \in Procs, HasPublisher(remotePubs'[q], r)
               PROVE  r \in connected'[q] \/ Queued(q, "Connect", r)'
    BY DEF PublishersConnected
  <2>1. CASE q = p
    BY <2>1
  <2>2. CASE q # p
    BY <2>2 DEF PublishersConnected, Queued
  <2> QED
    BY <2>1, <2>2
<1> QED
  BY <1>1, <1>2

\* A step of p that leaves handlers, commands, connections and filters alone,
\* and after which the publishers p has come to know are still to be connected.
Quiet(p) ==
    /\ UNCHANGED <<handlers, remotePubs, commands, connected, filter>>
    /\ \A q \in Procs \ {p} :
          known'[q] = known[q] /\ awork'[q] = awork[q] /\ dwork'[q] = dwork[q]
    /\ \A pub \in known'[p] : pub \in known[p] \/ pub.proc = p \/ StillConnecting(p, pub)'
    /\ \A pub \in known[p] : StillConnecting(p, pub) => StillConnecting(p, pub)'

LEMMA QuietStep ==
  ASSUME NoMissedPublisher, PublishersConnected, NEW p \in Procs, Quiet(p)
  PROVE  NoMissedPublisher' /\ PublishersConnected'
<1> USE DEF Quiet
<1>1. ASSUME NEW q \in Procs, HasPublisher(remotePubs'[p], q)
      PROVE  q \in connected'[p] \/ Queued(p, "Connect", q)'
  BY <1>1 DEF PublishersConnected, Queued
<1>2. ASSUME NEW pub \in known'[p], pub.proc # p, HasSubscriber(p, pub.topic)',
             ~StillConnecting(p, pub)'
      PROVE  Linked(p, pub)'
  <2>1. pub \in known[p] /\ ~StillConnecting(p, pub) /\ HasSubscriber(p, pub.topic)
    BY <1>2 DEF HasSubscriber, NodesWith
  <2>2. Linked(p, pub)
    BY <1>2, <2>1 DEF NoMissedPublisher, Linked
  <2> QED
    BY <2>2 DEF Linked, Queued
<1> QED
  BY <1>1, <1>2, MissedOf

LEMMA DworkConnecting ==
  ASSUME NEW p \in Procs, awork'[p] = awork[p],
         \A x : WorkOn(dwork[p], "connect", x) => WorkOn(dwork'[p], "connect", x)
  PROVE  \A pub : StillConnecting(p, pub) => StillConnecting(p, pub)'
  BY DEF StillConnecting

LEMMA AworkConnecting ==
  ASSUME NEW p \in Procs, NEW n \in Nodes, dwork'[p] = dwork[p],
         \A k \in Nodes \ {n} : awork'[p][k] = awork[p][k],
         NEW pub,
         WorkOn(awork[p][n], "connect", pub) \/ WorkOn(awork[p][n], "lookup", pub.topic) =>
            WorkOn(awork'[p][n], "connect", pub) \/ WorkOn(awork'[p][n], "lookup", pub.topic)
  PROVE  StillConnecting(p, pub) => StillConnecting(p, pub)'
<1> SUFFICES ASSUME StillConnecting(p, pub) PROVE StillConnecting(p, pub)'
  OBVIOUS
<1>1. CASE WorkOn(dwork[p], "connect", pub)
  BY <1>1 DEF StillConnecting
<1>2. ASSUME NEW k \in Nodes,
             WorkOn(awork[p][k], "connect", pub) \/ WorkOn(awork[p][k], "lookup", pub.topic)
      PROVE  StillConnecting(p, pub)'
  <2>1. CASE k = n
    BY <1>2, <2>1 DEF StillConnecting
  <2>2. CASE k # n
    BY <1>2, <2>2 DEF StillConnecting
  <2> QED
    BY <2>1, <2>2
<1> QED
  BY <1>1, <1>2 DEF StillConnecting

\* A discovery thread that takes up new work has none left.
LEMMA ReceiveQuiet ==
  ASSUME IInv, NEW p \in Procs, Receive(p), UNCHANGED runtimeVars
  PROVE  Quiet(p)
<1> DEFINE m == Head(inbox[p])
<1> HIDE DEF m
<1>1. dwork[p] = << >>
  BY DEF Receive, DiscIdle
<1>2. PICK table, work :
         /\ Dispatch(p, m, table, work)
         /\ \A pub \in table : pub \in known[p] \/ WorkOn(work, "connect", pub)
  <2>1. CASE RecvAdvertise(p, m)
    <3>1. WorkOn(Work("connect", {m.pub}), "connect", m.pub)
      BY WorkOnWork
    <3> QED
      BY <2>1, <3>1 DEF RecvAdvertise, AddPublisher
  <2>2. CASE RecvUnadvertise(p, m)
    BY <2>2 DEF RecvUnadvertise, DelPublishersByNode
  <2>3. CASE RecvSubscribe(p, m) \/ RecvRegistration(p, m) \/ RecvHeartbeat(p, m)
    BY <2>3 DEF RecvSubscribe, RecvRegistration, RecvHeartbeat
  <2>4. CASE RecvBye(p, m)
    BY <2>4 DEF RecvBye, DelPublishersByProc
  <2> QED
    BY <2>1, <2>2, <2>3, <2>4 DEF Receive, m
<1>3. /\ dwork'[p] = work /\ known'[p] = table /\ awork' = awork
      /\ \A q \in Procs \ {p} : dwork'[q] = dwork[q] /\ known'[q] = known[q]
  BY <1>2 DEF Dispatch, IInv, TypeOK
<1>4. \A pub \in known'[p] : pub \in known[p] \/ StillConnecting(p, pub)'
  BY <1>2, <1>3 DEF StillConnecting
<1>5. \A pub : StillConnecting(p, pub) => StillConnecting(p, pub)'
  BY <1>1, <1>3, NoWork, DworkConnecting
<1> QED
  BY <1>3, <1>4, <1>5 DEF Quiet, runtimeVars

LEMMA DiscThreadQuiet ==
  ASSUME IInv, NEW p \in Procs, DiscThread(p), UNCHANGED runtimeVars
  PROVE  Quiet(p)
<1>1. CASE Beat(p) \/ \E quiet \in SUBSET seen[p] : Expire(p, quiet)
  <2>1. dwork[p] = << >> /\ awork' = awork
    BY <1>1 DEF Beat, Expire, Reached, DiscIdle
  <2>2. /\ known'[p] \subseteq known[p]
        /\ \A q \in Procs \ {p} : dwork'[q] = dwork[q] /\ known'[q] = known[q]
    <3>1. /\ \E work : dwork' = [dwork EXCEPT ![p] = work]
          /\ \E table \in SUBSET known[p] : known' = [known EXCEPT ![p] = table]
      <4>1. known \in [Procs -> SUBSET Publisher]
        BY DEF IInv, TypeOK
      <4>2. CASE Beat(p)
        BY <4>1, <4>2 DEF Beat
      <4>3. CASE \E quiet \in SUBSET seen[p] : Expire(p, quiet)
        BY <4>1, <4>3 DEF Expire, DelPublishersByProc
      <4> QED
        BY <1>1, <4>2, <4>3
    <3> QED
      BY <3>1 DEF IInv, TypeOK
  <2>3. \A pub : StillConnecting(p, pub) => StillConnecting(p, pub)'
    BY <2>1, NoWork, DworkConnecting
  <2> QED
    BY <2>1, <2>2, <2>3 DEF Quiet, runtimeVars
<1>2. ASSUME NEW m, DiscSend(p, m) PROVE Quiet(p)
  <2>1. /\ awork' = awork /\ known' = known /\ dwork'[p] = Done(dwork[p], m)
        /\ \A q \in Procs \ {p} : dwork'[q] = dwork[q]
    BY <1>2 DEF DiscSend, IInv, TypeOK
  <2>2. dwork[p] \in Seq(ItemsOf(p))
    BY DEF IInv, Traffic
  <2>3. m \in Pending(dwork[p]) /\ Head(dwork[p]).op = "send"
    BY <1>2, <2>2, DoingIsWork DEF DiscSend
  <2>4. \A x : WorkOn(dwork[p], "connect", x) => WorkOn(dwork'[p], "connect", x)
    BY <2>1, <2>2, <2>3, WorkOnDone
  <2>5. \A pub : StillConnecting(p, pub) => StillConnecting(p, pub)'
    BY <2>1, <2>4, DworkConnecting
  <2> QED
    BY <2>1, <2>5 DEF Quiet, runtimeVars
<1> QED
  BY <1>1, <1>2, ReceiveQuiet DEF DiscThread

\* onPublisherConnected leaves the receive thread what links the publisher, and
\* takes nothing back.
LEMMA ConnectedLinks ==
  ASSUME RuntimeTypeOK, PublishersConnected, NEW p \in Procs, NEW x \in Publisher,
         OnPublisherConnected(p, x)
  PROVE  /\ UNCHANGED <<handlers, connected, filter>>
         /\ \A q \in Procs \ {p} : commands'[q] = commands[q] /\ remotePubs'[q] = remotePubs[q]
         /\ \A pub : Linked(p, pub) => Linked(p, pub)'
         /\ HasSubscriber(p, x.topic) /\ x.proc # p => Linked(p, x)'
         /\ \A q \in Procs : HasPublisher(remotePubs'[p], q) =>
                                q \in connected'[p] \/ Queued(p, "Connect", q)'
<1>1. CASE ~(HasSubscriber(p, x.topic) /\ x.proc # p)
  <2>1. UNCHANGED <<handlers, connected, filter, commands, remotePubs>>
    BY <1>1 DEF OnPublisherConnected, runtimeVars
  <2>2. \A pub : Linked(p, pub) => Linked(p, pub)'
    BY <2>1 DEF Linked, Queued
  <2>3. \A q \in Procs : HasPublisher(remotePubs'[p], q) =>
                            q \in connected'[p] \/ Queued(p, "Connect", q)'
    BY <2>1 DEF PublishersConnected, Queued
  <2> QED
    BY <1>1, <2>1, <2>2, <2>3
<1>2. CASE HasSubscriber(p, x.topic) /\ x.proc # p
  <2> DEFINE dial == IF HasPublisher(remotePubs[p], x.proc) THEN << >>
                     ELSE <<Command("Connect", x.proc, {})>>
             more == <<Command("Subscribe", x, NodesWith(p, x.topic))>>
  <2>1. x.proc \in Procs /\ NodesWith(p, x.topic) \in SUBSET Nodes
    BY DEF Publisher, NodesWith
  <2>2. /\ Command("Connect", x.proc, {}) \in Commands
        /\ Command("Subscribe", x, NodesWith(p, x.topic)) \in Commands
    BY <2>1, CommandTypes
  <2>3. dial \in Seq(Commands) /\ more \in Seq(Commands) /\ commands[p] \in Seq(Commands)
    BY <2>2 DEF RuntimeTypeOK
  <2>4. /\ commands' = [commands EXCEPT ![p] = @ \o dial \o more]
        /\ remotePubs' = [remotePubs EXCEPT ![p] = AddPublisher(@, x)]
        /\ UNCHANGED <<handlers, connected, filter>>
    BY <1>2 DEF OnPublisherConnected
  <2>5. HasPublisher(remotePubs[p], x.proc) \/ QueuedIn(dial, "Connect", x.proc)
    BY QueuedOne
  <2>6. QueuedIn(more, "Subscribe", x)
    BY QueuedOne
  <2> HIDE DEF dial, more
  <2>7. /\ commands'[p] = (commands[p] \o dial) \o more
        /\ remotePubs'[p] = AddPublisher(remotePubs[p], x)
        /\ \A q \in Procs \ {p} : commands'[q] = commands[q] /\ remotePubs'[q] = remotePubs[q]
    BY <2>4 DEF RuntimeTypeOK
  <2>8. commands[p] \o dial \in Seq(Commands)
    BY <2>3, ConcatProperties
  <2>9. ASSUME NEW type, NEW value,
               \/ QueuedIn(commands[p], type, value)
               \/ QueuedIn(dial, type, value)
               \/ QueuedIn(more, type, value)
        PROVE  Queued(p, type, value)'
    <3>1. QueuedIn(commands[p] \o dial, type, value) \/ QueuedIn(more, type, value)
      BY <2>3, <2>9, QueuedConcat
    <3>2. QueuedIn((commands[p] \o dial) \o more, type, value)
      BY <2>3, <2>8, <3>1, QueuedConcat
    <3> QED
      BY <2>7, <3>2, QueuedIsIn
  <2>10. \A type, value : Queued(p, type, value) => Queued(p, type, value)'
    BY <2>9, QueuedIsIn
  <2>11. \A pub : Linked(p, pub) => Linked(p, pub)'
    BY <2>4, <2>10 DEF Linked
  <2>12. \A q \in Procs : HasPublisher(remotePubs[p], q) =>
                             q \in connected'[p] \/ Queued(p, "Connect", q)'
    BY <2>4, <2>10 DEF PublishersConnected
  <2>13. x.proc \in connected'[p] \/ Queued(p, "Connect", x.proc)'
    BY <2>1, <2>5, <2>9, <2>12
  <2>14. Linked(p, x)'
    BY <2>6, <2>9, <2>13 DEF Linked
  <2>15. \A q \in Procs : HasPublisher(remotePubs'[p], q) =>
                             q = x.proc \/ HasPublisher(remotePubs[p], q)
    BY <2>7 DEF AddPublisher, HasPublisher, GetPublishersByProc
  <2>16. \A q \in Procs : HasPublisher(remotePubs'[p], q) =>
                             q \in connected'[p] \/ Queued(p, "Connect", q)'
    BY <2>12, <2>13, <2>15
  <2> QED
    BY <2>4, <2>7, <2>11, <2>14, <2>16
<1> QED
  BY <1>1, <1>2

\* A connection callback that is done has linked its publisher.
LEMMA ConnectMissed ==
  ASSUME IInv, RuntimeTypeOK, NoMissedPublisher, PublishersConnected,
         NEW p \in Procs, NEW x \in Publisher, OnPublisherConnected(p, x),
         known' = known,
         \A q \in Procs \ {p} : awork'[q] = awork[q] /\ dwork'[q] = dwork[q],
         \A pub : pub # x /\ StillConnecting(p, pub) => StillConnecting(p, pub)'
  PROVE  NoMissedPublisher' /\ PublishersConnected'
<1>1. /\ UNCHANGED <<handlers, connected, filter>>
      /\ \A q \in Procs \ {p} : commands'[q] = commands[q] /\ remotePubs'[q] = remotePubs[q]
      /\ \A q \in Procs : HasPublisher(remotePubs'[p], q) =>
                             q \in connected'[p] \/ Queued(p, "Connect", q)'
  BY ConnectedLinks
<1>2. /\ \A pub : Linked(p, pub) => Linked(p, pub)'
      /\ HasSubscriber(p, x.topic) /\ x.proc # p => Linked(p, x)'
  BY ConnectedLinks
<1>3. ASSUME NEW pub \in known'[p], pub.proc # p, HasSubscriber(p, pub.topic)'
      PROVE  StillConnecting(p, pub)' \/ Linked(p, pub)'
  <2>1. pub \in known[p] /\ HasSubscriber(p, pub.topic)
    BY <1>1, <1>3 DEF HasSubscriber, NodesWith
  <2>2. CASE pub = x
    BY <1>2, <1>3, <2>1, <2>2
  <2>3. CASE pub # x /\ StillConnecting(p, pub)
    BY <2>3
  <2>4. CASE ~StillConnecting(p, pub)
    <3>1. Linked(p, pub)
      BY <1>3, <2>1, <2>4 DEF NoMissedPublisher, Linked
    <3> QED
      BY <1>2, <3>1
  <2> QED
    BY <2>2, <2>3, <2>4
<1> QED
  BY <1>1, <1>3, MissedOf

\* The discovery thread is done with x: the rest of its work is as before.
LEMMA CallbackConnecting ==
  ASSUME IInv, NEW p \in Procs, NEW cb, NEW x, DiscCall(p, cb, x)
  PROVE  /\ Doing(dwork[p], cb, x) /\ known' = known /\ awork' = awork
         /\ dwork'[p] = Done(dwork[p], x)
         /\ \A q \in Procs \ {p} : dwork'[q] = dwork[q]
         /\ \A pub : ~(pub = x /\ cb = "connect") /\ StillConnecting(p, pub)
                        => StillConnecting(p, pub)'
<1>1. /\ Doing(dwork[p], cb, x) /\ known' = known /\ awork' = awork
      /\ dwork'[p] = Done(dwork[p], x)
      /\ \A q \in Procs \ {p} : dwork'[q] = dwork[q]
  BY DEF DiscCall, IInv, TypeOK
<1>2. dwork[p] \in Seq(ItemsOf(p))
  BY DEF IInv, Traffic
<1>3. x \in Pending(dwork[p]) /\ Head(dwork[p]).op = cb
  BY <1>1, <1>2, DoingIsWork
<1>4. \A pub : WorkOn(dwork[p], "connect", pub) =>
                  WorkOn(dwork'[p], "connect", pub) \/ (pub = x /\ cb = "connect")
  BY <1>1, <1>2, <1>3, WorkOnDone
<1>5. \A pub : ~(pub = x /\ cb = "connect") /\ StillConnecting(p, pub)
                  => StillConnecting(p, pub)'
  BY <1>1, <1>4 DEF StillConnecting
<1> QED
  BY <1>1, <1>5

LEMMA CallbackMissed ==
  ASSUME IInv, RuntimeTypeOK, NoMissedPublisher, PublishersConnected, NEW p \in Procs,
         RuntimeCallback(p)
  PROVE  NoMissedPublisher' /\ PublishersConnected'
<1>1. PICK x, cb : /\ DiscCall(p, cb, x)
                   /\ \/ cb = "connect" /\ OnPublisherConnected(p, x)
                      \/ cb = "disconnect" /\ OnPublisherDisconnected(p, x)
                      \/ cb = "gone" /\ OnProcessGone(p, x)
                      \/ cb = "register" /\ OnSubscriberRegistered(p, x)
                      \/ cb = "unregister" /\ OnSubscriberUnregistered(p, x)
  BY DEF RuntimeCallback
<1>2. /\ Doing(dwork[p], cb, x) /\ known' = known /\ awork' = awork
      /\ \A q \in Procs \ {p} : dwork'[q] = dwork[q]
  BY <1>1, CallbackConnecting
<1>3. \A pub : ~(pub = x /\ cb = "connect") /\ StillConnecting(p, pub)
                  => StillConnecting(p, pub)'
  BY <1>1, CallbackConnecting
<1>4. CASE cb = "connect"
  <2>1. x \in Publisher /\ OnPublisherConnected(p, x)
    BY <1>1, <1>2, <1>4, CallbackTypes
  <2> QED
    BY <1>2, <1>3, <2>1, ConnectMissed
<1>5. CASE cb # "connect"
  <2>1. /\ UNCHANGED <<handlers, commands, connected, filter>>
        /\ \A q \in Procs \ {p} : remotePubs'[q] = remotePubs[q]
        /\ remotePubs'[p] \subseteq remotePubs[p]
    BY <1>1, <1>5 DEF OnPublisherDisconnected, OnProcessGone, OnSubscriberRegistered,
       OnSubscriberUnregistered, runtimeVars, RuntimeTypeOK, DelPublishersByNode,
       DelPublishersByProc
  <2>2. ASSUME NEW q \in Procs, HasPublisher(remotePubs'[p], q)
        PROVE  q \in connected'[p] \/ Queued(p, "Connect", q)'
    BY <2>1, <2>2 DEF PublishersConnected, HasPublisher, GetPublishersByProc, Queued
  <2>3. ASSUME NEW pub \in known'[p], pub.proc # p, HasSubscriber(p, pub.topic)'
        PROVE  StillConnecting(p, pub)' \/ Linked(p, pub)'
    <3>1. pub \in known[p] /\ HasSubscriber(p, pub.topic)
      BY <1>2, <2>1, <2>3 DEF HasSubscriber, NodesWith
    <3>2. StillConnecting(p, pub) \/ Linked(p, pub)
      BY <2>3, <3>1 DEF NoMissedPublisher, Linked
    <3> QED
      BY <1>3, <1>5, <2>1, <3>2 DEF Linked, Queued
  <2> QED
    BY <1>2, <2>1, <2>2, <2>3, MissedOf
<1> QED
  BY <1>4, <1>5

\* The thread of an idle node starts a call: it had nothing to connect.
LEMMA IdleMissed ==
  ASSUME IInv, NEW p \in Procs, NEW n \in Nodes, AppIdle(p, n), NEW queue,
         awork' = [awork EXCEPT ![p][n] = queue], dwork' = dwork
  PROVE  /\ awork'[p][n] = queue
         /\ \A q \in Procs \ {p} : awork'[q] = awork[q]
         /\ \A pub : StillConnecting(p, pub) => StillConnecting(p, pub)'
<1>1. awork \in [Procs -> [Nodes -> Seq(WorkItem)]] /\ awork[p][n] = << >>
  BY DEF IInv, TypeOK, AppIdle
<1>2. /\ awork'[p][n] = queue
      /\ \A k \in Nodes \ {n} : awork'[p][k] = awork[p][k]
      /\ \A q \in Procs \ {p} : awork'[q] = awork[q]
  BY <1>1
<1>3. \A o, x : ~WorkOn(awork[p][n], o, x)
  BY <1>1, NoWork
<1>4. \A pub : StillConnecting(p, pub) => StillConnecting(p, pub)'
  BY <1>2, <1>3, AworkConnecting
<1> QED
  BY <1>2, <1>4

LEMMA AdvertiseQuiet ==
  ASSUME IInv, NEW p \in Procs, NEW n \in Nodes, NEW t \in Topics, NEW scope \in Offered,
         Advertise(p, n, t, scope), UNCHANGED runtimeVars
  PROVE  Quiet(p)
<1> DEFINE pub == [topic |-> t, proc |-> p, node |-> n, scope |-> scope]
           queue == Work("connect", {pub}) \o Announce("ADVERTISE", pub)
<1>1. /\ AppIdle(p, n) /\ awork' = [awork EXCEPT ![p][n] = queue] /\ dwork' = dwork
      /\ known' = [known EXCEPT ![p] = AddPublisher(@, pub)]
  BY DEF Advertise, AppStarts
<1>2. pub.proc = p
  OBVIOUS
<1> HIDE DEF pub, queue
<1>3. /\ \A e \in known'[p] : e \in known[p] \/ e.proc = p
      /\ \A q \in Procs \ {p} : known'[q] = known[q]
  BY <1>1, <1>2 DEF IInv, TypeOK, AddPublisher
<1>4. /\ \A q \in Procs \ {p} : awork'[q] = awork[q]
      /\ \A e : StillConnecting(p, e) => StillConnecting(p, e)'
  BY <1>1, IdleMissed
<1> QED
  BY <1>1, <1>3, <1>4 DEF Quiet, runtimeVars

LEMMA UnadvertiseQuiet ==
  ASSUME IInv, NEW p \in Procs, NEW n \in Nodes, NEW pub \in known[p],
         Unadvertise(p, n, pub), UNCHANGED runtimeVars
  PROVE  Quiet(p)
<1>1. /\ AppIdle(p, n) /\ dwork' = dwork
      /\ awork' = [awork EXCEPT ![p][n] = Announce("UNADVERTISE", pub)]
      /\ known' = [known EXCEPT ![p] = DelPublishersByNode(@, pub)]
  BY DEF Unadvertise, AppStarts
<1>2. /\ \A e \in known'[p] : e \in known[p]
      /\ \A q \in Procs \ {p} : known'[q] = known[q]
  BY <1>1 DEF IInv, TypeOK, DelPublishersByNode
<1>3. /\ \A q \in Procs \ {p} : awork'[q] = awork[q]
      /\ \A e : StillConnecting(p, e) => StillConnecting(p, e)'
  BY <1>1, IdleMissed
<1> QED
  BY <1>1, <1>2, <1>3 DEF Quiet, runtimeVars

\* A node that subscribes has yet to look up the topic.
LEMMA SubscribeConnecting ==
  ASSUME IInv, NEW p \in Procs, NEW n \in Nodes, NEW t \in Topics, Subscribe(p, n, t)
  PROVE  /\ known' = known /\ dwork' = dwork
         /\ \A q \in Procs \ {p} : awork'[q] = awork[q]
         /\ \A e : StillConnecting(p, e) => StillConnecting(p, e)'
         /\ \A e : e.topic = t => StillConnecting(p, e)'
<1> DEFINE query == Work("send", {Query(p, t)})
           queue == query \o Work("lookup", {t})
<1>1. /\ AppIdle(p, n) /\ awork' = [awork EXCEPT ![p][n] = queue] /\ dwork' = dwork
      /\ known' = known /\ handlers' = [handlers EXCEPT ![p] = @ \union {Handler(t, n)}]
      /\ UNCHANGED <<remotePubs, commands, connected, filter>>
  BY DEF Subscribe, Discover, AppStarts
<1>2. /\ [op |-> "send", args |-> {Query(p, t)}] \in ItemsOf(p)
      /\ [op |-> "lookup", args |-> {t}] \in ItemsOf(p)
  BY QueryIsMessage DEF ItemsOf, WorkItem
<1>3. query \in Seq(ItemsOf(p)) /\ Work("lookup", {t}) \in Seq(ItemsOf(p))
  BY <1>2, WorkIsQueue
<1>4. WorkOn(Work("lookup", {t}), "lookup", t)
  BY WorkOnWork
<1> HIDE DEF query
<1>5. WorkOn(queue, "lookup", t)
  BY <1>3, <1>4, WorkOnConcat
<1> HIDE DEF queue
<1>6. /\ awork'[p][n] = queue
      /\ \A q \in Procs \ {p} : awork'[q] = awork[q]
      /\ \A e : StillConnecting(p, e) => StillConnecting(p, e)'
  BY <1>1, IdleMissed
<1>7. \A e : e.topic = t => StillConnecting(p, e)'
  BY <1>5, <1>6 DEF StillConnecting
<1> QED
  BY <1>1, <1>6, <1>7

LEMMA AppMissed ==
  ASSUME IInv, RuntimeTypeOK, NoMissedPublisher, PublishersConnected,
         NEW p \in Procs, NEW n \in Nodes, RuntimeApp(p, n)
  PROVE  NoMissedPublisher' /\ PublishersConnected'
<1>1. ASSUME NEW t \in Topics, NEW scope \in Offered, Advertise(p, n, t, scope),
             UNCHANGED runtimeVars
      PROVE  NoMissedPublisher' /\ PublishersConnected'
  BY <1>1, AdvertiseQuiet, QuietStep
<1>2. ASSUME NEW pub \in known[p], Unadvertise(p, n, pub), UNCHANGED runtimeVars
      PROVE  NoMissedPublisher' /\ PublishersConnected'
  BY <1>2, UnadvertiseQuiet, QuietStep
<1>3. ASSUME NEW t \in Topics, Subscribe(p, n, t)
      PROVE  NoMissedPublisher' /\ PublishersConnected'
  <2>1. /\ known' = known /\ dwork' = dwork
        /\ handlers' = [handlers EXCEPT ![p] = @ \union {Handler(t, n)}]
        /\ UNCHANGED <<remotePubs, commands, connected, filter>>
    BY <1>3, SubscribeConnecting DEF Subscribe
  <2>2. /\ \A q \in Procs \ {p} : awork'[q] = awork[q]
        /\ \A e : StillConnecting(p, e) => StillConnecting(p, e)'
        /\ \A e : e.topic = t => StillConnecting(p, e)'
    BY <1>3, SubscribeConnecting
  <2>3. \A q \in Procs \ {p} : handlers'[q] = handlers[q]
    BY <2>1 DEF RuntimeTypeOK
  <2>4. ASSUME NEW e \in known'[p], e.proc # p, HasSubscriber(p, e.topic)'
        PROVE  StillConnecting(p, e)' \/ Linked(p, e)'
    <3>1. CASE e.topic = t
      BY <2>2, <3>1
    <3>2. CASE e.topic # t
      <4>1. handlers'[p] = handlers[p] \union {Handler(t, n)}
        BY <2>1 DEF RuntimeTypeOK
      <4>2. \A k : Handler(e.topic, k) # Handler(t, n)
        BY <3>2 DEF Handler
      <4>3. HasSubscriber(p, e.topic)
        BY <2>4, <4>1, <4>2 DEF HasSubscriber, NodesWith
      <4>4. StillConnecting(p, e) \/ Linked(p, e)
        BY <2>1, <2>4, <4>3 DEF NoMissedPublisher, Linked
      <4> QED
        BY <2>1, <2>2, <4>4 DEF Linked, Queued
    <3> QED
      BY <3>1, <3>2
  <2>5. \A q \in Procs : HasPublisher(remotePubs'[p], q) =>
                             q \in connected'[p] \/ Queued(p, "Connect", q)'
    BY <2>1 DEF PublishersConnected, Queued
  <2> QED
    BY <2>1, <2>2, <2>3, <2>4, <2>5, MissedOf
<1>4. ASSUME NEW t \in Topics, Unsubscribe(p, n, t)
      PROVE  NoMissedPublisher' /\ PublishersConnected'
  <2> DEFINE last == Command("Unsubscribe", t, {})
             queue == Work("leave", {t})
  <2>1. /\ AppIdle(p, n) /\ awork' = [awork EXCEPT ![p][n] = queue] /\ dwork' = dwork
        /\ known' = known /\ handlers' = [handlers EXCEPT ![p] = @ \ {Handler(t, n)}]
        /\ UNCHANGED <<remotePubs, connected, filter>>
        /\ commands' = [commands EXCEPT ![p] = IF NodesWith(p, t) = {n} THEN Append(@, last) ELSE @]
    BY <1>4 DEF Unsubscribe, AppStarts
  <2>2. last \in Commands /\ commands[p] \in Seq(Commands)
    BY CommandTypes DEF RuntimeTypeOK
  <2> HIDE DEF last, queue
  <2>3. \A q \in Procs \ {p} : awork'[q] = awork[q]
    BY <2>1, IdleMissed
  <2>4. \A e : StillConnecting(p, e) => StillConnecting(p, e)'
    BY <2>1, IdleMissed
  <2>5. /\ \A q \in Procs \ {p} : handlers'[q] = handlers[q] /\ commands'[q] = commands[q]
        /\ handlers'[p] \subseteq handlers[p]
        /\ commands'[p] \in {commands[p], Append(commands[p], last)}
    BY <2>1 DEF RuntimeTypeOK
  <2>6. ASSUME NEW type, NEW value, Queued(p, type, value) PROVE Queued(p, type, value)'
    <3>1. Append(commands[p], last) = commands[p] \o <<last>> /\ <<last>> \in Seq(Commands)
      BY <2>2
    <3>2. QueuedIn(commands[p], type, value)
      BY <2>6, QueuedIsIn
    <3>3. QueuedIn(commands[p] \o <<last>>, type, value)
      BY <2>2, <3>1, <3>2, QueuedConcat
    <3>4. QueuedIn(commands'[p], type, value)
      BY <2>5, <3>1, <3>2, <3>3
    <3> QED
      BY <3>4, QueuedIsIn
  <2>7. ASSUME NEW e \in known'[p], e.proc # p, HasSubscriber(p, e.topic)'
        PROVE  StillConnecting(p, e)' \/ Linked(p, e)'
    <3>1. e \in known[p] /\ HasSubscriber(p, e.topic)
      BY <2>1, <2>5, <2>7 DEF HasSubscriber, NodesWith
    <3>2. StillConnecting(p, e) \/ Linked(p, e)
      BY <2>7, <3>1 DEF NoMissedPublisher, Linked
    <3> QED
      BY <2>1, <2>4, <2>6, <3>2 DEF Linked
  <2>8. \A q \in Procs : HasPublisher(remotePubs'[p], q) =>
                            q \in connected'[p] \/ Queued(p, "Connect", q)'
    BY <2>1, <2>6 DEF PublishersConnected
  <2> QED
    BY <2>1, <2>3, <2>5, <2>7, <2>8, MissedOf
<1> QED
  BY <1>1, <1>2, <1>3, <1>4 DEF RuntimeApp

LEMMA AworkAt ==
  ASSUME IInv, NEW p \in Procs, NEW n \in Nodes, NEW queue,
         awork' = [awork EXCEPT ![p][n] = queue]
  PROVE  /\ awork'[p][n] = queue
         /\ \A k \in Nodes \ {n} : awork'[p][k] = awork[p][k]
         /\ \A q \in Procs \ {p} : awork'[q] = awork[q]
<1>1. awork \in [Procs -> [Nodes -> Seq(WorkItem)]]
  BY DEF IInv, TypeOK
<1> QED
  BY <1>1

\* A thread that has done x leaves everything else to be done, and what it puts
\* before it.
LEMMA WorkLeft ==
  ASSUME NEW p \in Procs, NEW queue \in Seq(ItemsOf(p)), NEW op, NEW x, Doing(queue, op, x),
         NEW more \in Seq(ItemsOf(p)), NEW o, NEW y
  PROVE  /\ WorkOn(queue, o, y) => WorkOn(Done(queue, x), o, y) \/ (y = x /\ o = op)
         /\ WorkOn(queue, o, y) => WorkOn(more \o Done(queue, x), o, y) \/ (y = x /\ o = op)
         /\ WorkOn(more, o, y) => WorkOn(more \o Done(queue, x), o, y)
<1>1. x \in Pending(queue) /\ Head(queue).op = op
  BY DoingIsWork
<1>2. Done(queue, x) \in Seq(ItemsOf(p))
  BY <1>1, DoneIsQueue
<1>3. WorkOn(more \o Done(queue, x), o, y) <=> WorkOn(more, o, y) \/ WorkOn(Done(queue, x), o, y)
  BY <1>2, WorkOnConcat
<1>4. WorkOn(queue, o, y) => WorkOn(Done(queue, x), o, y) \/ (y = x /\ o = op)
  BY <1>1, WorkOnDone
<1> QED
  BY <1>3, <1>4

LEMMA AppWorkQuiet ==
  ASSUME IInv, NEW p \in Procs, NEW n \in Nodes, NEW z,
         AppSend(p, n, z) \/ AppLookup(p, n, z) \/ AppLeave(p, n, z), UNCHANGED runtimeVars
  PROVE  Quiet(p)
<1>1. awork[p][n] \in Seq(ItemsOf(p)) /\ << >> \in Seq(ItemsOf(p))
  BY DEF IInv, Traffic
<1>2. ASSUME NEW x, AppSend(p, n, x), UNCHANGED runtimeVars
      PROVE  Quiet(p)
  <2>1. /\ Doing(awork[p][n], "send", x) /\ dwork' = dwork /\ known' = known
        /\ awork' = [awork EXCEPT ![p][n] = Done(@, x)]
    BY <1>2 DEF AppSend
  <2>2. /\ awork'[p][n] = Done(awork[p][n], x)
        /\ \A k \in Nodes \ {n} : awork'[p][k] = awork[p][k]
        /\ \A q \in Procs \ {p} : awork'[q] = awork[q]
    BY <2>1, AworkAt
  <2>3. \A o, y : o # "send" /\ WorkOn(awork[p][n], o, y) => WorkOn(awork'[p][n], o, y)
    BY <1>1, <2>1, <2>2, WorkLeft
  <2>4. \A pub : StillConnecting(p, pub) => StillConnecting(p, pub)'
    BY <2>1, <2>2, <2>3, AworkConnecting
  <2> QED
    BY <1>2, <2>1, <2>2, <2>4 DEF Quiet, runtimeVars
<1>3. ASSUME NEW t, AppLookup(p, n, t), UNCHANGED runtimeVars
      PROVE  Quiet(p)
  <2> DEFINE found == GetPublishers(known[p], t)
             more == Work("connect", found)
  <2>1. /\ Doing(awork[p][n], "lookup", t) /\ dwork' = dwork /\ known' = known
        /\ awork' = [awork EXCEPT ![p][n] = more \o Done(@, t)]
    BY <1>3 DEF AppLookup, budgets
  <2>2. found \in SUBSET Publisher /\ \A pub \in known[p] : pub.topic = t => pub \in found
    BY DEF GetPublishers, IInv, TypeOK
  <2> HIDE DEF found
  <2>3. [op |-> "connect", args |-> found] \in ItemsOf(p)
    BY <2>2 DEF ItemsOf, WorkItem
  <2>4. more \in Seq(ItemsOf(p)) /\ \A pub \in found : WorkOn(more, "connect", pub)
    BY <2>3, WorkIsQueue, WorkOnWork
  <2> HIDE DEF more
  <2>5. /\ awork'[p][n] = more \o Done(awork[p][n], t)
        /\ \A k \in Nodes \ {n} : awork'[p][k] = awork[p][k]
        /\ \A q \in Procs \ {p} : awork'[q] = awork[q]
    BY <2>1, AworkAt
  <2>6. ASSUME NEW o, NEW y, WorkOn(more, o, y) PROVE WorkOn(awork'[p][n], o, y)
    <3>1. WorkOn(more \o Done(awork[p][n], t), o, y)
      BY <1>1, <2>1, <2>4, <2>6, WorkLeft
    <3> QED
      BY <2>5, <3>1
  <2>7. \A pub \in known[p] : pub.topic = t => StillConnecting(p, pub)'
    BY <2>2, <2>4, <2>6 DEF StillConnecting
  <2>8. ASSUME NEW pub, StillConnecting(p, pub), pub.topic # t
        PROVE  StillConnecting(p, pub)'
    <3>1. \A o, y : /\ WorkOn(awork[p][n], o, y)
                    /\ ~(y = t /\ o = "lookup")
                    => WorkOn(awork'[p][n], o, y)
      BY <1>1, <2>1, <2>4, <2>5, WorkLeft
    <3> QED
      BY <2>1, <2>5, <2>8, <3>1, AworkConnecting
  <2>9. \A pub \in known[p] : StillConnecting(p, pub) => StillConnecting(p, pub)'
    BY <2>7, <2>8
  <2> QED
    BY <1>3, <2>1, <2>5, <2>9 DEF Quiet, runtimeVars
<1>4. ASSUME NEW t, AppLeave(p, n, t), UNCHANGED runtimeVars
      PROVE  Quiet(p)
  <2> DEFINE publishers == {pub.proc : pub \in GetPublishers(known[p], t)}
             sends == {Registration("END_CONNECTION", Subscriber(t, p, n), q) : q \in publishers}
             more == Work("send", sends)
  <2>1. /\ Doing(awork[p][n], "leave", t) /\ dwork' = dwork /\ known' = known
        /\ awork' = [awork EXCEPT ![p][n] = more \o Done(@, t)]
    BY <1>4 DEF AppLeave, budgets
  <2>2. t \in Topics
    BY <2>1, CallbackTypes
  <2>3. publishers \subseteq Procs
    BY DEF GetPublishers, IInv, TypeOK, Publisher
  <2> HIDE DEF publishers
  <2>4. \A m \in sends : m \in Message /\ m.from = p
    BY <2>2, <2>3, RegistrationIsMessage
  <2> HIDE DEF sends
  <2>5. [op |-> "send", args |-> sends] \in ItemsOf(p)
    BY <2>4 DEF ItemsOf, WorkItem
  <2>6. more \in Seq(ItemsOf(p))
    BY <2>5, WorkIsQueue
  <2> HIDE DEF more
  <2>7. /\ awork'[p][n] = more \o Done(awork[p][n], t)
        /\ \A k \in Nodes \ {n} : awork'[p][k] = awork[p][k]
        /\ \A q \in Procs \ {p} : awork'[q] = awork[q]
    BY <2>1, AworkAt
  <2>8. \A o, y : o # "leave" /\ WorkOn(awork[p][n], o, y) => WorkOn(awork'[p][n], o, y)
    BY <1>1, <2>1, <2>6, <2>7, WorkLeft
  <2>9. \A pub : StillConnecting(p, pub) => StillConnecting(p, pub)'
    BY <2>1, <2>7, <2>8, AworkConnecting
  <2> QED
    BY <1>4, <2>1, <2>7, <2>9 DEF Quiet, runtimeVars
<1> QED
  BY <1>2, <1>3, <1>4

LEMMA AppConnectConnecting ==
  ASSUME IInv, NEW p \in Procs, NEW n \in Nodes, NEW x, AppConnect(p, n, x)
  PROVE  /\ x \in Publisher /\ dwork' = dwork /\ known' = known
         /\ \A q \in Procs \ {p} : awork'[q] = awork[q]
         /\ \A pub : pub # x /\ StillConnecting(p, pub) => StillConnecting(p, pub)'
<1>0. awork[p][n] \in Seq(ItemsOf(p)) /\ << >> \in Seq(ItemsOf(p))
  BY DEF IInv, Traffic
<1>1. /\ Doing(awork[p][n], "connect", x) /\ dwork' = dwork /\ known' = known
      /\ awork' = [awork EXCEPT ![p][n] = Done(@, x)]
  BY DEF AppConnect
<1>2. /\ awork'[p][n] = Done(awork[p][n], x)
      /\ \A k \in Nodes \ {n} : awork'[p][k] = awork[p][k]
      /\ \A q \in Procs \ {p} : awork'[q] = awork[q]
  BY <1>1, AworkAt
<1>3. ASSUME NEW pub, pub # x, StillConnecting(p, pub) PROVE StillConnecting(p, pub)'
  <2>1. \A o, y : /\ WorkOn(awork[p][n], o, y)
                  /\ ~(y = x /\ o = "connect")
                  => WorkOn(awork'[p][n], o, y)
    BY <1>0, <1>1, <1>2, WorkLeft
  <2> QED
    BY <1>1, <1>2, <1>3, <2>1, AworkConnecting
<1>4. x \in Publisher
  BY <1>1, CallbackTypes
<1> QED
  BY <1>1, <1>2, <1>3, <1>4

LEMMA AppWorkMissed ==
  ASSUME IInv, RuntimeTypeOK, NoMissedPublisher, PublishersConnected,
         NEW p \in Procs, NEW n \in Nodes, RuntimeAppWork(p, n)
  PROVE  NoMissedPublisher' /\ PublishersConnected'
<1>1. ASSUME NEW x, AppSend(p, n, x) \/ AppLookup(p, n, x) \/ AppLeave(p, n, x),
             UNCHANGED runtimeVars
      PROVE  NoMissedPublisher' /\ PublishersConnected'
  BY <1>1, AppWorkQuiet, QuietStep
<1>2. ASSUME NEW x, AppConnect(p, n, x), OnPublisherConnected(p, x)
      PROVE  NoMissedPublisher' /\ PublishersConnected'
  BY <1>2, AppConnectConnecting, ConnectMissed
<1> QED
  BY <1>1, <1>2 DEF RuntimeAppWork

\* The receive thread applies a command: what it was for is done.
LEMMA ApplyMissed ==
  ASSUME IInv, RuntimeTypeOK, NoMissedPublisher, PublishersConnected, NEW p \in Procs,
         ApplyConnect(p) \/ ApplySubscribe(p) \/ ApplyUnsubscribe(p)
  PROVE  NoMissedPublisher' /\ PublishersConnected'
<1> DEFINE c == Head(commands[p])
<1>1. /\ commands[p] \in Seq(Commands) /\ commands[p] # << >>
      /\ commands' = [commands EXCEPT ![p] = Tail(@)]
      /\ UNCHANGED <<known, awork, dwork, handlers, remotePubs, remoteSubs>>
  BY DEF ApplyConnect, ApplySubscribe, ApplyUnsubscribe, Apply, RuntimeTypeOK, discVars
<1>2. c \in Commands
  BY <1>1, HeadTailProperties
<1>3. commands'[p] = Tail(commands[p]) /\ \A q \in Procs \ {p} : commands'[q] = commands[q]
  BY <1>1 DEF RuntimeTypeOK
<1>4. ASSUME NEW type, NEW value, Queued(p, type, value)
      PROVE  Queued(p, type, value)' \/ (c.type = type /\ c.value = value)
  <2>1. QueuedIn(commands[p], type, value)
    BY <1>4, QueuedIsIn
  <2>2. (c.type = type /\ c.value = value) \/ QueuedIn(Tail(commands[p]), type, value)
    BY <1>1, <2>1, QueuedTail
  <2> QED
    BY <1>3, <2>2, QueuedIsIn
<1> HIDE DEF c
<1>5. /\ filter \in [Procs -> [Topics -> Nat]] /\ connected \in [Procs -> SUBSET Procs]
      /\ \A pub \in known[p] : pub \in Publisher /\ pub.topic \in Topics
  BY DEF RuntimeTypeOK, IInv, TypeOK, Publisher
<1>6. /\ \A q \in Procs \ {p} : filter'[q] = filter[q] /\ connected'[q] = connected[q]
      /\ connected[p] \subseteq connected'[p]
      /\ c.type = "Connect" => c.value \in connected'[p]
      /\ \A t \in Topics : filter[p][t] > 0 /\ HasSubscriber(p, t) => filter'[p][t] > 0
      /\ c.type = "Subscribe" /\ HasSubscriber(p, c.value.topic) => filter'[p][c.value.topic] > 0
  <2>1. CASE ApplyConnect(p)
    <3>1. /\ c.type = "Connect" /\ connected' = [connected EXCEPT ![p] = @ \union {c.value}]
          /\ filter' = filter
      BY <2>1 DEF ApplyConnect, Apply, c
    <3> QED
      BY <1>5, <3>1
  <2>2. CASE ApplySubscribe(p)
    <3>1. c.type = "Subscribe" /\ connected' = connected
      BY <2>2 DEF ApplySubscribe, Apply, c
    <3>2. c.value.topic \in Topics
      BY <1>2, <3>1 DEF Commands, Publisher
    <3>3. IF HasSubscriber(p, c.value.topic)
          THEN filter' = [filter EXCEPT ![p][c.value.topic] = @ + 1]
          ELSE filter' = filter
      BY <2>2 DEF ApplySubscribe, c
    <3>4. filter[p][c.value.topic] \in Nat
      BY <1>5, <3>2
    <3> QED
      BY <1>5, <3>1, <3>2, <3>3, <3>4
  <2>3. CASE ApplyUnsubscribe(p)
    <3>1. c.type = "Unsubscribe" /\ connected' = connected
      BY <2>3 DEF ApplyUnsubscribe, Apply, c
    <3>2. c.value \in Topics
      BY <1>2, <3>1 DEF Commands
    <3>3. \/ ~HasSubscriber(p, c.value) /\ filter' = [filter EXCEPT ![p][c.value] = @ - 1]
          \/ filter' = filter
      BY <2>3 DEF ApplyUnsubscribe, c
    <3> QED
      BY <1>5, <3>1, <3>2, <3>3
  <2> QED
    BY <2>1, <2>2, <2>3
<1>7. ASSUME NEW q \in Procs, HasPublisher(remotePubs'[p], q)
      PROVE  q \in connected'[p] \/ Queued(p, "Connect", q)'
  BY <1>1, <1>4, <1>6, <1>7 DEF PublishersConnected
<1>8. ASSUME NEW pub \in known'[p], pub.proc # p, HasSubscriber(p, pub.topic)'
      PROVE  StillConnecting(p, pub)' \/ Linked(p, pub)'
  <2>1. /\ pub \in known[p] /\ HasSubscriber(p, pub.topic)
        /\ StillConnecting(p, pub) => StillConnecting(p, pub)'
    BY <1>1, <1>8 DEF HasSubscriber, NodesWith, StillConnecting
  <2>2. CASE StillConnecting(p, pub)
    BY <2>1, <2>2
  <2>3. CASE ~StillConnecting(p, pub)
    <3>1. Linked(p, pub)
      BY <1>8, <2>1, <2>3 DEF NoMissedPublisher, Linked
    <3>2. pub.proc \in connected'[p] \/ Queued(p, "Connect", pub.proc)'
      BY <1>4, <1>6, <3>1 DEF Linked
    <3>3. filter'[p][pub.topic] > 0 \/ Queued(p, "Subscribe", pub)'
      BY <1>4, <1>5, <1>6, <2>1, <3>1 DEF Linked
    <3> QED
      BY <3>2, <3>3 DEF Linked
  <2> QED
    BY <2>2, <2>3
<1> QED
  BY <1>1, <1>3, <1>6, <1>7, <1>8, MissedOf

LEMMA VanishMissed ==
  ASSUME IInv, RuntimeTypeOK, NoMissedPublisher, PublishersConnected, NEW p \in Procs,
         Vanish(p), Forget(p)
  PROVE  NoMissedPublisher' /\ PublishersConnected'
<1>1. /\ known' = [known EXCEPT ![p] = {}] /\ dwork' = [dwork EXCEPT ![p] = << >>]
      /\ awork' = [awork EXCEPT ![p] = [n \in Nodes |-> << >>]]
  BY DEF Vanish
<1>2. /\ known'[p] = {} /\ remotePubs'[p] = {}
      /\ \A q \in Procs \ {p} :
            /\ known'[q] = known[q] /\ dwork'[q] = dwork[q] /\ awork'[q] = awork[q]
            /\ handlers'[q] = handlers[q] /\ filter'[q] = filter[q]
            /\ commands'[q] = commands[q] /\ connected'[q] = connected[q]
            /\ remotePubs'[q] = remotePubs[q]
  BY <1>1 DEF Forget, IInv, TypeOK, RuntimeTypeOK
<1>3. \A q \in Procs : ~HasPublisher(remotePubs'[p], q)
  BY <1>2 DEF HasPublisher, GetPublishersByProc
<1> QED
  BY <1>2, <1>3, MissedOf

LEMMA MissedStep ==
  ASSUME IInv, RuntimeTypeOK, NoMissedPublisher, PublishersConnected, [RuntimeNext]_vars
  PROVE  NoMissedPublisher' /\ PublishersConnected'
<1>1. ASSUME UNCHANGED <<known, awork, dwork, handlers, remotePubs, commands, connected, filter>>
      PROVE  NoMissedPublisher' /\ PublishersConnected'
  BY <1>1 DEF NoMissedPublisher, PublishersConnected, HasSubscriber, NodesWith,
              StillConnecting, Queued
<1>2. ASSUME NEW p \in Procs, ReceiveThread(p)
      PROVE  NoMissedPublisher' /\ PublishersConnected'
  <2>1. ASSUME NEW m, Register(p, m) PROVE NoMissedPublisher' /\ PublishersConnected'
    BY <1>1, <2>1 DEF Register
  <2> QED
    BY <1>2, <2>1, ApplyMissed DEF ReceiveThread
<1>3. CASE RuntimeEnvironment
  <2>1. ASSUME NEW d \in delayed, Arrive(d), UNCHANGED runtimeVars
        PROVE  NoMissedPublisher' /\ PublishersConnected'
    BY <1>1, <2>1 DEF Arrive, runtimeVars
  <2>2. ASSUME NEW p \in Procs, Start(p), UNCHANGED runtimeVars
        PROVE  NoMissedPublisher' /\ PublishersConnected'
    BY <1>1, <2>2 DEF Start, runtimeVars
  <2>3. ASSUME NEW p \in Procs, Exit(p) \/ Crash(p), Forget(p)
        PROVE  NoMissedPublisher' /\ PublishersConnected'
    BY <2>3, VanishMissed DEF Exit, Crash
  <2> QED
    BY <1>3, <2>1, <2>2, <2>3 DEF RuntimeEnvironment
<1>4. CASE UNCHANGED vars
  BY <1>1, <1>4 DEF vars, discVars, runtimeVars
<1> QED
  BY <1>2, <1>3, <1>4, DiscThreadQuiet, QuietStep, CallbackMissed, AppMissed, AppWorkMissed DEF RuntimeNext

-----------------------------------------------------------------------------
(* The theorems.                                                           *)

LEMMA RuntimeInvInit == RuntimeInit => RuntimeInv
<1> SUFFICES ASSUME RuntimeInit PROVE RuntimeInv
  OBVIOUS
<1>1. IInv
  BY InvInit DEF RuntimeInit
<1>2. RuntimeTypeOK
  BY DEF RuntimeInit, RuntimeTypeOK
<1>3. RegistersOwn /\ SubscribersHaveLease /\ PublishersConnected
  BY DEF RuntimeInit, RegistersOwn, SubscribersHaveLease, PublishersConnected,
         HasPublisher, GetPublishersByProc
<1>4. RegistersSeen /\ NoMissedPublisher
  BY DEF RuntimeInit, Init, RegistersSeen, NoMissedPublisher
<1> QED
  BY <1>1, <1>2, <1>3, <1>4 DEF RuntimeInv

LEMMA RuntimeInvStep == RuntimeInv /\ [RuntimeNext]_vars => RuntimeInv'
  BY DiscoveryStep, RuntimeTypeStep, LeaseStep, MissedStep DEF RuntimeInv

\* The invariant of the control plane: whatever is lost, delayed, duplicated or
\* taken for dead, the tables of discovery stay sound under the runtime's own
\* datagrams, and those of the runtime agree with them.
THEOREM RuntimeInvariant == RuntimeSpec => []RuntimeInv
<1> QED
  BY RuntimeInvInit, RuntimeInvStep, PTL DEF RuntimeSpec

\* Type correctness of the message runtime.
THEOREM RuntimeTypesCorrect == RuntimeSpec => []RuntimeTypeOK
<1>1. RuntimeInv => RuntimeTypeOK
  BY DEF RuntimeInv
<1> QED
  BY <1>1, RuntimeInvariant, PTL

\* A publisher keeps no subscriber whose process it would not expire
\* (onSubscriberRegistered, onPublisherDisconnected).
THEOREM LeasedSubscribers == RuntimeSpec => []SubscribersHaveLease
<1>1. RuntimeInv => SubscribersHaveLease
  BY DEF RuntimeInv
<1> QED
  BY <1>1, RuntimeInvariant, PTL

\* No order of subscribing, unsubscribing and discovering makes a subscriber
\* miss a publisher its process knows (subscribe, onPublisherConnected,
\* applySubscriberCommands).
THEOREM NoPublisherMissed == RuntimeSpec => []NoMissedPublisher
<1>1. RuntimeInv => NoMissedPublisher
  BY DEF RuntimeInv
<1> QED
  BY <1>1, RuntimeInvariant, PTL
=============================================================================
