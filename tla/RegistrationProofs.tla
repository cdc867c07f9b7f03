------------------------- MODULE RegistrationProofs -------------------------
(***************************************************************************)
(* A proof of RegistrationConserved of MessageRuntime, for any processes,  *)
(* nodes, topics, calls, exits and crashes: as long as the network has     *)
(* lost, delayed or duplicated no datagram and nobody was taken for dead,  *)
(* no subscriber that knows a publisher goes unregistered there.           *)
(***************************************************************************)
EXTENDS RuntimeProofs

-----------------------------------------------------------------------------
(* Sequences.                                                              *)

LEMMA AppendParts ==
  ASSUME NEW S, NEW queue \in Seq(S), NEW m \in S
  PROVE  /\ Append(queue, m) \in Seq(S) /\ Len(queue) \in Nat
         /\ Len(Append(queue, m)) = Len(queue) + 1
         /\ \A i \in 1 .. Len(queue) : Append(queue, m)[i] = queue[i]
         /\ Append(queue, m)[Len(queue) + 1] = m
  OBVIOUS

LEMMA TailParts ==
  ASSUME NEW S, NEW queue \in Seq(S), queue # << >>
  PROVE  /\ Tail(queue) \in Seq(S) /\ Len(queue) \in Nat /\ Len(queue) > 0
         /\ Len(Tail(queue)) = Len(queue) - 1
         /\ Head(queue) = queue[1] /\ Head(queue) \in S
         /\ \A i \in 1 .. Len(Tail(queue)) : Tail(queue)[i] = queue[i + 1]
  OBVIOUS

-----------------------------------------------------------------------------
(* The network while nothing is disturbed.                                 *)

LEMMA EmptyOrCounted ==
  ASSUME NEW S, IsFiniteSet(S)
  PROVE  Cardinality(S) \in Nat /\ (Cardinality(S) = 0 => S = {})
  BY FS_CardinalityType, FS_EmptySet

\* A multicast that uses up nothing of its budget reaches every listener.
LEMMA MulticastWhole ==
  ASSUME IInv, NEW r \in Procs, NEW m, Multicast(r, m), faults' = 0
  PROVE  /\ faults = 0 /\ delayed' = delayed
         /\ \A q \in Procs : \/ q \in Listeners(r) /\ inbox'[q] = Append(inbox[q], m)
                             \/ q \notin Listeners(r) /\ inbox'[q] = inbox[q]
<1>1. PICK absent \in SUBSET Listeners(r), late \in SUBSET Listeners(r) :
         /\ faults' = faults + Cardinality(absent \union late)
         /\ delayed' = delayed \union {[to |-> q, msg |-> m] : q \in late}
         /\ inbox' = [q \in Procs |-> IF q \in Listeners(r) \ absent
                                      THEN Append(inbox[q], m) ELSE inbox[q]]
  BY DEF Multicast
<1>2. IsFiniteSet(absent \union late)
  <2>1. absent \union late \subseteq Procs
    BY DEF Listeners
  <2> QED
    BY <2>1, ProcessesAssumption, FS_Subset
<1>3. faults \in Nat
  BY DEF IInv, TypeOK
<1>4. faults = 0 /\ absent \union late = {}
  BY <1>1, <1>2, <1>3, EmptyOrCounted
<1> QED
  BY <1>1, <1>4

\* An expiry that uses up nothing of its budget is of processes that do not run.
LEMMA ExpireGone ==
  ASSUME IInv, NEW p \in Procs, NEW quiet \in SUBSET seen[p], Expire(p, quiet), silences' = 0
  PROVE  silences = 0 /\ \A q \in quiet : status[q] # "on"
<1> DEFINE running == {q \in quiet : status[q] = "on"}
<1>1. silences' = silences + Cardinality(running)
  BY DEF Expire
<1>2. IsFiniteSet(running)
  <2>1. running \subseteq Procs
    BY DEF IInv, TypeOK
  <2> QED
    BY <2>1, ProcessesAssumption, FS_Subset
<1>3. silences \in Nat
  BY DEF IInv, TypeOK
<1> HIDE DEF running
<1>4. silences = 0 /\ running = {}
  BY <1>1, <1>2, <1>3, EmptyOrCounted
<1> QED
  BY <1>4 DEF running

\* An undisturbed state comes of an undisturbed one.
LEMMA UndisturbedBefore ==
  ASSUME IInv, [RuntimeNext]_vars, Undisturbed'
  PROVE  Undisturbed
<1>1. ASSUME UNCHANGED <<faults, silences>> PROVE Undisturbed
  BY <1>1 DEF Undisturbed
<1>2. ASSUME NEW r \in Procs, NEW m, Multicast(r, m), UNCHANGED silences PROVE Undisturbed
  BY <1>2, MulticastWhole DEF Undisturbed
<1>3. ASSUME NEW p \in Procs, DiscThread(p) PROVE Undisturbed
  <2>1. CASE Receive(p)
    BY <1>1, <2>1 DEF Receive, RecvAdvertise, RecvUnadvertise, RecvSubscribe,
                      RecvRegistration, RecvHeartbeat, RecvBye, Dispatch, budgets
  <2>2. CASE Beat(p)
    BY <1>2, <2>2 DEF Beat
  <2>3. ASSUME NEW quiet \in SUBSET seen[p], Expire(p, quiet) PROVE Undisturbed
    <3>1. silences = 0 /\ faults' = faults
      BY <2>3, ExpireGone DEF Expire, Undisturbed
    <3> QED
      BY <3>1 DEF Undisturbed
  <2>4. ASSUME NEW m, DiscSend(p, m) PROVE Undisturbed
    BY <1>2, <2>4 DEF DiscSend
  <2> QED
    BY <1>3, <2>1, <2>2, <2>3, <2>4 DEF DiscThread
<1>4. ASSUME NEW p \in Procs, RuntimeCallback(p) PROVE Undisturbed
  BY <1>1, <1>4 DEF RuntimeCallback, DiscCall, budgets
<1>5. ASSUME NEW p \in Procs, ReceiveThread(p) PROVE Undisturbed
  <2>1. ASSUME NEW m, Register(p, m) PROVE Undisturbed
    BY <1>2, <2>1 DEF Register
  <2> QED
    BY <1>1, <1>5, <2>1 DEF ReceiveThread, ApplyConnect, ApplySubscribe, ApplyUnsubscribe,
                            Apply, discVars
<1>6. ASSUME NEW p \in Procs, NEW n \in Nodes, RuntimeApp(p, n) PROVE Undisturbed
  BY <1>1, <1>6 DEF RuntimeApp, Advertise, Subscribe, Discover, Unsubscribe, Unadvertise,
                    AppStarts
<1>7. ASSUME NEW p \in Procs, NEW n \in Nodes, RuntimeAppWork(p, n) PROVE Undisturbed
  <2>1. ASSUME NEW m, AppSend(p, n, m) PROVE Undisturbed
    BY <1>2, <2>1 DEF AppSend
  <2> QED
    BY <1>1, <1>7, <2>1 DEF RuntimeAppWork, AppLookup, AppLeave, AppConnect, budgets
<1>8. CASE RuntimeEnvironment
  <2>1. ASSUME NEW p \in Procs, Exit(p) PROVE Undisturbed
    BY <1>2, <2>1 DEF Exit, Vanish
  <2> QED
    BY <1>1, <1>8, <2>1 DEF RuntimeEnvironment, Arrive, Start, Crash, Vanish, budgets
<1>9. CASE UNCHANGED vars
  BY <1>1, <1>9 DEF vars, discVars
<1> QED
  BY <1>3, <1>4, <1>5, <1>6, <1>7, <1>8, <1>9 DEF RuntimeNext

\* Process r, which runs, sends datagram m.
Sent(r, m) ==
    /\ m \in Message /\ m.from = r /\ status[r] = "on" /\ Multicast(r, m)
    /\ m.type = "BYE" => status'[r] = "gone"
    /\ m.type = "END_CONNECTION" =>
          Handler(m.pub.topic, m.pub.node) \notin handlers[r] /\ handlers' = handlers

\* What the steps do to the network: one datagram is received, or one is sent,
\* or nothing happens to it.
LEMMA NetworkStep ==
  ASSUME IInv, RuntimeTypeOK, RegistersOwn, Sending, delayed = {}, [RuntimeNext]_vars
  PROVE  \/ UNCHANGED <<inbox, delayed>>
         \/ \E p \in Procs : Receive(p) /\ UNCHANGED runtimeVars
         \/ \E r \in Procs : \E m : Sent(r, m)
<1> DEFINE Goal == \/ UNCHANGED <<inbox, delayed>>
                   \/ \E p \in Procs : Receive(p) /\ UNCHANGED runtimeVars
                   \/ \E r \in Procs : \E m : Sent(r, m)
<1>1. ASSUME UNCHANGED <<inbox, delayed>> PROVE Goal
  BY <1>1
<1>2. ASSUME NEW r \in Procs, NEW m, Sent(r, m) PROVE Goal
  BY <1>2
<1> HIDE DEF Goal
<1>3. ASSUME NEW p \in Procs, DiscThread(p), UNCHANGED runtimeVars PROVE Goal
  <2>1. CASE Beat(p)
    <3>1. Plain("HEARTBEAT", p) \in Message /\ Plain("HEARTBEAT", p).from = p
      BY PlainIsMessage
    <3>2. Sent(p, Plain("HEARTBEAT", p))
      BY <2>1, <3>1 DEF Beat, Reached, DiscIdle, Sent, Plain
    <3> QED
      BY <1>2, <3>2
  <2>2. ASSUME NEW m, DiscSend(p, m) PROVE Goal
    <3>1. dwork[p] \in Seq(ItemsOf(p)) /\ Doing(dwork[p], "send", m)
      BY <2>2 DEF DiscSend, IInv, Traffic
    <3>2. m \in Message /\ m.from = p /\ WorkOn(dwork[p], "send", m)
      BY <3>1, SentIsOwn, DoingIsWork
    <3>3. m.type = "ADVERTISE"
      BY <3>2 DEF Sending
    <3>4. Sent(p, m)
      BY <2>2, <3>2, <3>3 DEF DiscSend, Sent
    <3> QED
      BY <1>2, <3>4
  <2>3. CASE Receive(p)
    BY <1>3, <2>3 DEF Goal
  <2>4. ASSUME NEW quiet, Expire(p, quiet) PROVE Goal
    BY <1>1, <2>4 DEF Expire
  <2> QED
    BY <1>3, <2>1, <2>2, <2>3, <2>4 DEF DiscThread
<1>4. ASSUME NEW p \in Procs, RuntimeCallback(p) PROVE Goal
  BY <1>1, <1>4 DEF RuntimeCallback, DiscCall
<1>5. ASSUME NEW p \in Procs, ReceiveThread(p) PROVE Goal
  <2>1. ASSUME NEW m \in registering[p], Register(p, m) PROVE Goal
    <3>1. m \in Message /\ m.from = p /\ m.type = "NEW_CONNECTION"
      BY DEF RuntimeTypeOK, RegistersOwn, Sending
    <3>2. Sent(p, m)
      BY <2>1, <3>1 DEF Register, Sent
    <3> QED
      BY <1>2, <3>2
  <2> QED
    BY <1>1, <1>5, <2>1 DEF ReceiveThread, ApplyConnect, ApplySubscribe, ApplyUnsubscribe,
                            Apply, discVars
<1>6. ASSUME NEW p \in Procs, NEW n \in Nodes, RuntimeApp(p, n) PROVE Goal
  BY <1>1, <1>6 DEF RuntimeApp, Advertise, Subscribe, Discover, Unsubscribe, Unadvertise,
                    AppStarts
<1>7. ASSUME NEW p \in Procs, NEW n \in Nodes, RuntimeAppWork(p, n) PROVE Goal
  <2>1. ASSUME NEW m, AppSend(p, n, m), UNCHANGED runtimeVars PROVE Goal
    <3>1. awork[p][n] \in Seq(ItemsOf(p)) /\ Doing(awork[p][n], "send", m)
      BY <2>1 DEF AppSend, IInv, Traffic
    <3>2. m \in Message /\ m.from = p /\ WorkOn(awork[p][n], "send", m)
      BY <3>1, SentIsOwn, DoingIsWork
    <3>3. /\ m.type # "BYE"
          /\ m.type = "END_CONNECTION" => Handler(m.pub.topic, m.pub.node) \notin handlers[p]
      BY <3>2 DEF Sending, Sends
    <3>4. Sent(p, m)
      BY <2>1, <3>2, <3>3 DEF AppSend, Sent, runtimeVars
    <3> QED
      BY <1>2, <3>4
  <2> QED
    BY <1>1, <1>7, <2>1 DEF RuntimeAppWork, AppLookup, AppLeave, AppConnect
<1>8. ASSUME RuntimeEnvironment PROVE Goal
  <2>1. ASSUME NEW p \in Procs, Exit(p) PROVE Goal
    <3>1. Plain("BYE", p) \in Message /\ Plain("BYE", p).from = p
      BY PlainIsMessage
    <3>2. status'[p] = "gone"
      BY <2>1 DEF Exit, Vanish, IInv, TypeOK
    <3>3. Sent(p, Plain("BYE", p))
      BY <2>1, <3>1, <3>2 DEF Exit, DiscIdle, Sent, Plain
    <3> QED
      BY <1>2, <3>3
  <2>2. ASSUME NEW p \in Procs, Start(p) \/ Crash(p) PROVE Goal
    BY <1>1, <2>2 DEF Start, Crash
  <2> QED
    BY <1>8, <2>1, <2>2 DEF RuntimeEnvironment
<1>9. ASSUME UNCHANGED vars PROVE Goal
  BY <1>1, <1>9 DEF vars, discVars
<1> QED
  BY <1>3, <1>4, <1>5, <1>6, <1>7, <1>8, <1>9 DEF RuntimeNext, Goal
-----------------------------------------------------------------------------
(* What the steps do to the discovery thread and its tables.               *)

\* How the work of a discovery thread comes about, m being the datagram it
\* receives: x, which op is done on, is an advertisement, a process that said
\* BYE, the registration received, or a publisher.
WorkFrom(m, op, x) ==
    \/ op = "send" /\ x.type = "ADVERTISE"
    \/ op = "gone" /\ m.type = "BYE" /\ x = m.from
    \/ op = "register" /\ m.type = "NEW_CONNECTION" /\ x = m
    \/ op = "unregister" /\ m.type = "END_CONNECTION" /\ x = m
    \/ op \in {"connect", "disconnect"}

Dispatched(p, m, table, work) ==
    /\ Dispatch(p, m, table, work)
    /\ \A pub \in table : pub \in known[p] \/ pub.proc = m.from
    /\ \A op, x : WorkOn(work, op, x) => WorkFrom(m, op, x)
    /\ m.type = "NEW_CONNECTION" => WorkOn(work, "register", m)

LEMMA ReceiveDispatches ==
  ASSUME IInv, NEW p \in Procs, Receive(p)
  PROVE  /\ inbox[p] # << >> /\ dwork[p] = << >> /\ status[p] = "on"
         /\ Head(inbox[p]) \in Message
         /\ \E table, work : Dispatched(p, Head(inbox[p]), table, work)
<1> DEFINE m == Head(inbox[p])
<1> HIDE DEF m
<1>1. inbox[p] # << >> /\ dwork[p] = << >> /\ status[p] = "on" /\ m = Head(inbox[p])
  BY DEF Receive, DiscIdle, m
<1>2. m \in Message
  BY <1>1, HeadIsForeign
<1>3. ASSUME NEW table, NEW op, NEW args, Dispatch(p, m, table, Work(op, args)),
             \A pub \in table : pub \in known[p] \/ pub.proc = m.from,
             \A x \in args : WorkFrom(m, op, x),
             m.type = "NEW_CONNECTION" => op = "register" /\ m \in args
      PROVE  \E t, work : Dispatched(p, m, t, work)
  <2> DEFINE work == Work(op, args)
  <2>1. ASSUME NEW o, NEW x, WorkOn(work, o, x) PROVE WorkFrom(m, o, x)
    BY <1>3, <2>1, WorkOnWork
  <2>2. m.type = "NEW_CONNECTION" => WorkOn(work, "register", m)
    BY <1>3, WorkOnWork
  <2>3. Dispatched(p, m, table, work)
    BY <1>3, <2>1, <2>2 DEF Dispatched
  <2> QED
    BY <2>3
<1>4. ASSUME NEW table \in SUBSET known[p], Dispatch(p, m, table, << >>), m.type # "NEW_CONNECTION"
      PROVE  \E t, work : Dispatched(p, m, t, work)
  <2>1. Dispatched(p, m, table, << >>)
    BY <1>4, NoWork DEF Dispatched
  <2> QED
    BY <2>1
<1> DEFINE Goal == \E t, work : Dispatched(p, m, t, work)
<1> HIDE DEF Goal
<1>5. ASSUME RecvAdvertise(p, m) PROVE Goal
  <2>1. CASE InScope(m.pub, m.from, p) /\ ~Contains(known[p], m.pub)
    <3>1. m.type = "ADVERTISE" /\ m.pub.proc = m.from
      BY <1>2, <1>5, MessageParts DEF RecvAdvertise
    <3>2. Dispatch(p, m, AddPublisher(known[p], m.pub), Work("connect", {m.pub}))
      BY <1>5, <2>1 DEF RecvAdvertise
    <3>3. \A pub \in AddPublisher(known[p], m.pub) : pub \in known[p] \/ pub.proc = m.from
      BY <3>1 DEF AddPublisher
    <3>4. \A x \in {m.pub} : WorkFrom(m, "connect", x)
      BY DEF WorkFrom
    <3> QED
      BY <1>3, <3>1, <3>2, <3>3, <3>4 DEF Goal
  <2>2. CASE ~(InScope(m.pub, m.from, p) /\ ~Contains(known[p], m.pub))
    <3>1. Dispatch(p, m, known[p], << >>) /\ m.type # "NEW_CONNECTION"
      BY <1>5, <2>2 DEF RecvAdvertise
    <3> QED
      BY <1>4, <3>1 DEF Goal
  <2> QED
    BY <2>1, <2>2
<1>6. ASSUME RecvUnadvertise(p, m) PROVE Goal
  <2>1. CASE InScope(m.pub, m.from, p)
    <3>1. /\ Dispatch(p, m, DelPublishersByNode(known[p], m.pub), Work("disconnect", {m.pub}))
          /\ m.type = "UNADVERTISE"
      BY <1>6, <2>1 DEF RecvUnadvertise
    <3>2. \A pub \in DelPublishersByNode(known[p], m.pub) : pub \in known[p]
      BY DEF DelPublishersByNode
    <3>3. \A x \in {m.pub} : WorkFrom(m, "disconnect", x)
      BY DEF WorkFrom
    <3> QED
      BY <1>3, <3>1, <3>2, <3>3 DEF Goal
  <2>2. CASE ~InScope(m.pub, m.from, p)
    <3>1. Dispatch(p, m, known[p], << >>) /\ m.type # "NEW_CONNECTION"
      BY <1>6, <2>2 DEF RecvUnadvertise
    <3> QED
      BY <1>4, <3>1 DEF Goal
  <2> QED
    BY <2>1, <2>2
<1>7. ASSUME RecvSubscribe(p, m) PROVE Goal
  <2> DEFINE answers == {pub \in Own(p) : pub.topic = m.topic /\ InScope(pub, m.from, p)}
             args == {About("ADVERTISE", pub) : pub \in answers}
  <2>1. m.type = "SUBSCRIBE" /\ Dispatch(p, m, known[p], Work("send", args))
    BY <1>7 DEF RecvSubscribe
  <2>2. \A x \in args : WorkFrom(m, "send", x)
    BY DEF About, WorkFrom
  <2> HIDE DEF args
  <2> QED
    BY <1>3, <2>1, <2>2 DEF Goal
<1>8. ASSUME RecvRegistration(p, m) PROVE Goal
  <2>1. CASE m.type = "NEW_CONNECTION"
    <3>1. Dispatch(p, m, known[p], Work("register", {m}))
      BY <1>8, <2>1 DEF RecvRegistration
    <3>2. \A x \in {m} : WorkFrom(m, "register", x)
      BY <2>1 DEF WorkFrom
    <3> QED
      BY <1>3, <3>1, <3>2 DEF Goal
  <2>2. CASE m.type = "END_CONNECTION"
    <3>1. Dispatch(p, m, known[p], Work("unregister", {m}))
      BY <1>8, <2>2 DEF RecvRegistration
    <3>2. \A x \in {m} : WorkFrom(m, "unregister", x)
      BY <2>2 DEF WorkFrom
    <3> QED
      BY <1>3, <2>2, <3>1, <3>2 DEF Goal
  <2> QED
    BY <1>8, <2>1, <2>2 DEF RecvRegistration
<1>9. ASSUME RecvHeartbeat(p, m) PROVE Goal
  <2>1. Dispatch(p, m, known[p], << >>) /\ m.type # "NEW_CONNECTION"
    BY <1>9 DEF RecvHeartbeat
  <2> QED
    BY <1>4, <2>1 DEF Goal
<1>10. ASSUME RecvBye(p, m) PROVE Goal
  <2>1. /\ Dispatch(p, m, DelPublishersByProc(known[p], {m.from}), Work("gone", {m.from}))
        /\ m.type = "BYE"
    BY <1>10 DEF RecvBye
  <2>2. \A pub \in DelPublishersByProc(known[p], {m.from}) : pub \in known[p]
    BY DEF DelPublishersByProc
  <2>3. \A x \in {m.from} : WorkFrom(m, "gone", x)
    BY <2>1 DEF WorkFrom
  <2> QED
    BY <1>3, <2>1, <2>2, <2>3 DEF Goal
<1>11. Goal
  BY <1>5, <1>6, <1>7, <1>8, <1>9, <1>10 DEF Receive, m
<1> QED
  BY <1>1, <1>2, <1>11 DEF Goal

\* A process starts once, and once gone stays gone; one that is not running
\* comes to know nobody.
LEMMA StatusStep ==
  ASSUME IInv, [RuntimeNext]_vars, NEW q \in Procs
  PROVE  /\ status[q] # "off" => status'[q] # "off"
         /\ status[q] = "gone" => status'[q] = "gone"
         /\ \/ status'[q] = "on" \/ known'[q] = {}
            \/ status'[q] = status[q] /\ known'[q] = known[q]
<1>1. status \in [Procs -> {"off", "on", "gone"}] /\ known \in [Procs -> SUBSET Publisher]
  BY DEF IInv, TypeOK
<1> DEFINE Goal == /\ status[q] # "off" => status'[q] # "off"
                   /\ status[q] = "gone" => status'[q] = "gone"
                   /\ \/ status'[q] = "on" \/ known'[q] = {}
                      \/ status'[q] = status[q] /\ known'[q] = known[q]
<1>2. ASSUME UNCHANGED <<status, known>> PROVE Goal
  BY <1>2
<1>3. ASSUME NEW p \in Procs, NEW table, status' = status, status[p] = "on",
             known' = [known EXCEPT ![p] = table]
      PROVE  Goal
  BY <1>1, <1>3
<1>4. ASSUME NEW p \in Procs, Start(p) PROVE Goal
  BY <1>1, <1>4 DEF Start
<1>5. ASSUME NEW p \in Procs, Vanish(p), status[p] = "on" PROVE Goal
  BY <1>1, <1>5 DEF Vanish
<1> HIDE DEF Goal
<1>6. ASSUME NEW p \in Procs, DiscThread(p) PROVE Goal
  <2>1. CASE Receive(p)
    <3>1. PICK table, work : Dispatch(p, Head(inbox[p]), table, work)
      BY <2>1, ReceiveDispatches DEF Dispatched
    <3>2. /\ status' = status /\ known' = [known EXCEPT ![p] = table] /\ status[p] = "on"
      BY <2>1, <3>1 DEF Dispatch, Receive, DiscIdle
    <3> QED
      BY <1>3, <3>2
  <2>2. CASE Beat(p)
    BY <1>2, <2>2 DEF Beat
  <2>3. ASSUME NEW quiet, Expire(p, quiet) PROVE Goal
    BY <1>3, <2>3 DEF Expire, Reached, DiscIdle
  <2>4. ASSUME NEW m, DiscSend(p, m) PROVE Goal
    BY <1>2, <2>4 DEF DiscSend
  <2> QED
    BY <1>6, <2>1, <2>2, <2>3, <2>4 DEF DiscThread
<1>7. ASSUME NEW p \in Procs, RuntimeCallback(p) PROVE Goal
  BY <1>2, <1>7 DEF RuntimeCallback, DiscCall
<1>8. ASSUME NEW p \in Procs, ReceiveThread(p) PROVE Goal
  BY <1>2, <1>8 DEF ReceiveThread, ApplyConnect, ApplySubscribe, ApplyUnsubscribe, Apply,
                    Register, discVars
<1>9. ASSUME NEW p \in Procs, NEW n \in Nodes, RuntimeApp(p, n) PROVE Goal
  <2>1. ASSUME NEW t, NEW scope, Advertise(p, n, t, scope) PROVE Goal
    BY <1>3, <2>1 DEF Advertise, AppIdle, AppStarts
  <2>2. ASSUME NEW pub, Unadvertise(p, n, pub) PROVE Goal
    BY <1>3, <2>2 DEF Unadvertise, AppIdle, AppStarts
  <2>3. ASSUME NEW t, Subscribe(p, n, t) \/ Unsubscribe(p, n, t) PROVE Goal
    BY <1>2, <2>3 DEF Subscribe, Discover, Unsubscribe, AppStarts
  <2> QED
    BY <1>9, <2>1, <2>2, <2>3 DEF RuntimeApp
<1>10. ASSUME NEW p \in Procs, NEW n \in Nodes, RuntimeAppWork(p, n) PROVE Goal
  BY <1>2, <1>10 DEF RuntimeAppWork, AppSend, AppLookup, AppLeave, AppConnect
<1>11. ASSUME RuntimeEnvironment PROVE Goal
  <2>1. ASSUME NEW p \in Procs, Exit(p) PROVE Goal
    BY <1>5, <2>1 DEF Exit, DiscIdle
  <2>2. ASSUME NEW p \in Procs, Crash(p) PROVE Goal
    BY <1>5, <2>2 DEF Crash
  <2>3. ASSUME NEW d, Arrive(d) PROVE Goal
    BY <1>2, <2>3 DEF Arrive
  <2> QED
    BY <1>4, <1>11, <2>1, <2>2, <2>3 DEF RuntimeEnvironment
<1>12. ASSUME UNCHANGED vars PROVE Goal
  BY <1>2, <1>12 DEF vars, discVars
<1>13. Goal
  BY <1>6, <1>7, <1>8, <1>9, <1>10, <1>11, <1>12 DEF RuntimeNext
<1> QED
  BY <1>13 DEF Goal

\* Who a process comes to know or to hear of sent it a datagram, or is itself.
LEMMA TablesStep ==
  ASSUME IInv, [RuntimeNext]_vars, NEW p \in Procs
  PROVE  /\ \A pub \in known'[p] : \/ pub \in known[p] \/ pub.proc = p
                                   \/ /\ inbox[p] # << >> /\ status[p] = "on"
                                      /\ pub.proc = Head(inbox[p]).from
         /\ \A x \in seen'[p] : x \in seen[p] \/ (inbox[p] # << >> /\ x = Head(inbox[p]).from)
<1>1. /\ known \in [Procs -> SUBSET Publisher] /\ seen \in [Procs -> SUBSET Procs]
  BY DEF IInv, TypeOK
<1> DEFINE Goal ==
      /\ \A pub \in known'[p] : \/ pub \in known[p] \/ pub.proc = p
                                \/ /\ inbox[p] # << >> /\ status[p] = "on"
                                   /\ pub.proc = Head(inbox[p]).from
      /\ \A x \in seen'[p] : x \in seen[p] \/ (inbox[p] # << >> /\ x = Head(inbox[p]).from)
<1>2. ASSUME NEW q \in Procs, NEW table,
             UNCHANGED seen \/ \E gone : seen' = [seen EXCEPT ![q] = @ \ gone],
             known' = [known EXCEPT ![q] = table],
             \A pub \in table : pub \in known[q] \/ pub.proc = q
      PROVE  Goal
  BY <1>1, <1>2
<1>3. ASSUME UNCHANGED <<known, seen>> PROVE Goal
  BY <1>3
<1>4. ASSUME NEW q \in Procs, Receive(q) PROVE Goal
  <2> DEFINE m == Head(inbox[q])
  <2>1. PICK table, work :
          /\ known' = [known EXCEPT ![q] = table]
          /\ seen' = [seen EXCEPT ![q] = IF m.type = "BYE" THEN @ \ {m.from} ELSE @ \union {m.from}]
          /\ \A pub \in table : pub \in known[q] \/ pub.proc = m.from
    BY <1>4, ReceiveDispatches DEF Dispatched, Dispatch
  <2>2. inbox[q] # << >> /\ status[q] = "on"
    BY <1>4, ReceiveDispatches
  <2>3. CASE p = q
    BY <1>1, <2>1, <2>2, <2>3
  <2>4. CASE p # q
    BY <1>1, <2>1, <2>4
  <2> QED
    BY <2>3, <2>4
<1> HIDE DEF Goal
<1>5. ASSUME NEW q \in Procs, DiscThread(q) PROVE Goal
  <2>1. ASSUME NEW quiet, Expire(q, quiet) PROVE Goal
    <3>1. /\ known' = [known EXCEPT ![q] = DelPublishersByProc(known[q], quiet)]
          /\ seen' = [seen EXCEPT ![q] = @ \ quiet]
      BY <1>1, <2>1 DEF Expire
    <3>2. \A pub \in DelPublishersByProc(known[q], quiet) : pub \in known[q]
      BY DEF DelPublishersByProc
    <3> QED
      BY <1>2, <3>1, <3>2
  <2> QED
    BY <1>3, <1>4, <1>5, <2>1 DEF DiscThread, Beat, DiscSend
<1>6. ASSUME NEW q \in Procs, RuntimeCallback(q) PROVE Goal
  BY <1>3, <1>6 DEF RuntimeCallback, DiscCall
<1>7. ASSUME NEW q \in Procs, ReceiveThread(q) PROVE Goal
  BY <1>3, <1>7 DEF ReceiveThread, ApplyConnect, ApplySubscribe, ApplyUnsubscribe, Apply,
                    Register, discVars
<1>8. ASSUME NEW q \in Procs, NEW n \in Nodes, RuntimeApp(q, n) PROVE Goal
  <2>1. ASSUME NEW t, NEW scope, Advertise(q, n, t, scope) PROVE Goal
    <3> DEFINE new == [topic |-> t, proc |-> q, node |-> n, scope |-> scope]
    <3>1. known' = [known EXCEPT ![q] = AddPublisher(known[q], new)] /\ seen' = seen
      BY <1>1, <2>1 DEF Advertise, AppStarts
    <3>2. \A pub \in AddPublisher(known[q], new) : pub \in known[q] \/ pub.proc = q
      BY DEF AddPublisher
    <3> QED
      BY <1>2, <3>1, <3>2
  <2>2. ASSUME NEW old, Unadvertise(q, n, old) PROVE Goal
    <3>1. known' = [known EXCEPT ![q] = DelPublishersByNode(known[q], old)] /\ seen' = seen
      BY <1>1, <2>2 DEF Unadvertise, AppStarts
    <3>2. \A pub \in DelPublishersByNode(known[q], old) : pub \in known[q]
      BY DEF DelPublishersByNode
    <3> QED
      BY <1>2, <3>1, <3>2
  <2>3. ASSUME NEW t, Subscribe(q, n, t) \/ Unsubscribe(q, n, t) PROVE Goal
    BY <1>3, <2>3 DEF Subscribe, Discover, Unsubscribe, AppStarts
  <2> QED
    BY <1>8, <2>1, <2>2, <2>3 DEF RuntimeApp
<1>9. ASSUME NEW q \in Procs, NEW n \in Nodes, RuntimeAppWork(q, n) PROVE Goal
  BY <1>3, <1>9 DEF RuntimeAppWork, AppSend, AppLookup, AppLeave, AppConnect
<1>10. ASSUME RuntimeEnvironment PROVE Goal
  <2>1. ASSUME NEW q \in Procs, Vanish(q) PROVE Goal
    <3>1. known'[p] \in {{}, known[p]} /\ seen'[p] \in {{}, seen[p]}
      BY <1>1, <2>1 DEF Vanish
    <3> QED
      BY <3>1 DEF Goal
  <2> QED
    BY <1>3, <1>10, <2>1 DEF RuntimeEnvironment, Exit, Crash, Start, Arrive
<1>11. ASSUME UNCHANGED vars PROVE Goal
  BY <1>3, <1>11 DEF vars, discVars
<1>12. Goal
  BY <1>5, <1>6, <1>7, <1>8, <1>9, <1>10, <1>11 DEF RuntimeNext
<1> QED
  BY <1>12 DEF Goal

-----------------------------------------------------------------------------
(* What the steps do to the mail of a process.                             *)

\* What keeps the network reliable: nothing is late, and every thread sends
\* what it should.
Reliable == /\ RuntimeInv /\ Undisturbed /\ delayed = {}
            /\ Started /\ Farewells /\ Sending

LEMMA MailStep ==
  ASSUME Reliable, [RuntimeNext]_vars, faults' = 0, NEW q \in Procs
  PROVE  /\ delayed' = {}
         /\ \/ inbox'[q] = inbox[q]
            \/ \E r \in Procs : \E m : Sent(r, m) /\ q # r /\ inbox'[q] = Append(inbox[q], m)
            \/ Receive(q) /\ UNCHANGED runtimeVars /\ inbox'[q] = Tail(inbox[q])
<1>0. /\ IInv /\ RuntimeTypeOK /\ RegistersOwn /\ Sending /\ delayed = {}
      /\ inbox \in [Procs -> Seq(Message)]
  BY DEF Reliable, RuntimeInv, IInv, TypeOK
<1>1. ASSUME NEW r \in Procs, NEW m, Sent(r, m)
      PROVE  /\ delayed' = {}
             /\ inbox'[q] = inbox[q] \/ (q # r /\ inbox'[q] = Append(inbox[q], m))
  <2>1. Multicast(r, m)
    BY <1>1 DEF Sent
  <2> QED
    BY <1>0, <2>1, MulticastWhole DEF Listeners
<1>2. ASSUME NEW p \in Procs, Receive(p), UNCHANGED runtimeVars
      PROVE  /\ delayed' = {}
             /\ \/ inbox'[q] = inbox[q]
                \/ Receive(q) /\ UNCHANGED runtimeVars /\ inbox'[q] = Tail(inbox[q])
  <2>1. PICK table, work : Dispatch(p, Head(inbox[p]), table, work)
    BY <1>0, <1>2, ReceiveDispatches DEF Dispatched
  <2>2. delayed' = delayed /\ inbox' = [inbox EXCEPT ![p] = Tail(@)]
    BY <2>1 DEF Dispatch
  <2> QED
    BY <1>0, <1>2, <2>2
<1>3. \/ UNCHANGED <<inbox, delayed>>
      \/ \E p \in Procs : Receive(p) /\ UNCHANGED runtimeVars
      \/ \E r \in Procs : \E m : Sent(r, m)
  BY <1>0, NetworkStep
<1>4. CASE UNCHANGED <<inbox, delayed>>
  BY <1>0, <1>4
<1> QED
  BY <1>1, <1>2, <1>3, <1>4

\* A datagram in the mail was there before or was just sent.
LEMMA MailFrom ==
  ASSUME Reliable, [RuntimeNext]_vars, faults' = 0, NEW q \in Procs,
         NEW i \in 1 .. Len(inbox'[q])
  PROVE  \/ \E j \in 1 .. Len(inbox[q]) : inbox'[q][i] = inbox[q][j]
         \/ \E r \in Procs : Sent(r, inbox'[q][i])
<1>1. inbox[q] \in Seq(Message)
  BY DEF Reliable, RuntimeInv, IInv, TypeOK
<1>2. CASE inbox'[q] = inbox[q]
  BY <1>2
<1>3. ASSUME NEW r \in Procs, NEW m, Sent(r, m), inbox'[q] = Append(inbox[q], m)
      PROVE  \/ \E j \in 1 .. Len(inbox[q]) : inbox'[q][i] = inbox[q][j]
             \/ Sent(r, inbox'[q][i])
  <2>1. m \in Message
    BY <1>3 DEF Sent
  <2>2. /\ Len(inbox[q]) \in Nat /\ Len(inbox'[q]) = Len(inbox[q]) + 1
        /\ \A j \in 1 .. Len(inbox[q]) : inbox'[q][j] = inbox[q][j]
        /\ inbox'[q][Len(inbox[q]) + 1] = m
    BY <1>1, <1>3, <2>1, AppendParts
  <2>3. CASE i = Len(inbox[q]) + 1
    BY <1>3, <2>2, <2>3
  <2>4. CASE i # Len(inbox[q]) + 1
    BY <2>2, <2>4
  <2> QED
    BY <2>3, <2>4
<1>4. ASSUME Receive(q), inbox'[q] = Tail(inbox[q])
      PROVE  \E j \in 1 .. Len(inbox[q]) : inbox'[q][i] = inbox[q][j]
  <2>1. inbox[q] # << >>
    BY <1>4 DEF Receive
  <2>2. /\ Len(inbox[q]) \in Nat /\ Len(inbox'[q]) = Len(inbox[q]) - 1
        /\ inbox'[q][i] = inbox[q][i + 1]
    BY <1>1, <1>4, <2>1, TailParts
  <2>3. i + 1 \in 1 .. Len(inbox[q])
    BY <2>2
  <2> QED
    BY <2>2, <2>3
<1> QED
  BY <1>2, <1>3, <1>4, MailStep

LEMMA HeadIsMail ==
  ASSUME NEW S, NEW queue \in Seq(S), queue # << >>
  PROVE  \E i \in 1 .. Len(queue) : Head(queue) = queue[i]
<1>1. 1 \in 1 .. Len(queue) /\ Head(queue) = queue[1]
  BY TailParts
<1> QED
  BY <1>1

LEMMA StartedStep ==
  ASSUME Reliable, [RuntimeNext]_vars, faults' = 0
  PROVE  Started'
<1>1. IInv /\ Started /\ inbox \in [Procs -> Seq(Message)]
  BY DEF Reliable, RuntimeInv, IInv, TypeOK
<1>2. \A q \in Procs : status[q] # "off" => status'[q] # "off"
  BY <1>1, StatusStep
<1>3. ASSUME NEW p \in Procs, inbox[p] # << >>
      PROVE  Head(inbox[p]).from \in Procs /\ status[Head(inbox[p]).from] # "off"
  <2>1. PICK i \in 1 .. Len(inbox[p]) : Head(inbox[p]) = inbox[p][i]
    BY <1>1, <1>3, HeadIsMail
  <2>2. Head(inbox[p]) \in Message
    BY <1>1, <1>3, TailParts
  <2> QED
    BY <1>1, <2>1, <2>2, MessageParts DEF Started
<1>4. ASSUME NEW p \in Procs, status'[p] # "on" PROVE known'[p] = {}
  <2>1. known'[p] = {} \/ (status'[p] = status[p] /\ known'[p] = known[p])
    BY <1>1, <1>4, StatusStep
  <2> QED
    BY <1>1, <1>4, <2>1 DEF Started
<1>5. ASSUME NEW p \in Procs, NEW pub \in known'[p] PROVE status'[pub.proc] # "off"
  <2>1. known'[p] # {} /\ status'[p] = "on"
    BY <1>4
  <2>2. known[p] \subseteq Publisher
    BY <1>1 DEF IInv, TypeOK
  <2>3. CASE pub \in known[p]
    BY <1>1, <1>2, <2>2, <2>3 DEF Started, Publisher
  <2>4. CASE pub.proc = p
    BY <2>1, <2>4
  <2>5. CASE inbox[p] # << >> /\ pub.proc = Head(inbox[p]).from
    BY <1>2, <1>3, <2>5
  <2> QED
    BY <1>1, <2>3, <2>4, <2>5, TablesStep
<1>6. ASSUME NEW p \in Procs, NEW x \in seen'[p] PROVE status'[x] # "off"
  <2>1. seen[p] \subseteq Procs
    BY <1>1 DEF IInv, TypeOK
  <2>2. x \in seen[p] \/ (inbox[p] # << >> /\ x = Head(inbox[p]).from)
    BY <1>1, TablesStep
  <2> QED
    BY <1>1, <1>2, <1>3, <2>1, <2>2 DEF Started
<1>7. ASSUME NEW p \in Procs, NEW i \in 1 .. Len(inbox'[p]) PROVE status'[inbox'[p][i].from] # "off"
  <2>1. ASSUME NEW j \in 1 .. Len(inbox[p]), inbox'[p][i] = inbox[p][j]
        PROVE  status'[inbox'[p][i].from] # "off"
    <3>1. inbox[p][j] \in Message
      BY <1>1
    <3>2. inbox[p][j].from \in Procs /\ status[inbox[p][j].from] # "off"
      BY <1>1, <3>1, MessageParts DEF Started
    <3> QED
      BY <1>2, <2>1, <3>2
  <2>2. ASSUME NEW r \in Procs, Sent(r, inbox'[p][i])
        PROVE  status'[inbox'[p][i].from] # "off"
    BY <1>2, <2>2 DEF Sent
  <2> QED
    BY <2>1, <2>2, MailFrom
<1> QED
  BY <1>4, <1>5, <1>6, <1>7 DEF Started

\* What a discovery thread has to do it had to before, or it comes of the
\* datagram it received, of its heartbeat, or of an expiry.
LEMMA DworkStep ==
  ASSUME IInv, Started, [RuntimeNext]_vars, silences' = 0, NEW q \in Procs, NEW op, NEW x,
         WorkOn(dwork'[q], op, x)
  PROVE  \/ WorkOn(dwork[q], op, x)
         \/ Receive(q) /\ WorkFrom(Head(inbox[q]), op, x)
         \/ op = "send" /\ x.type = "ADVERTISE"
         \/ op = "gone" /\ x \in Procs /\ status[x] = "gone"
<1> DEFINE Goal == \/ WorkOn(dwork[q], op, x)
                   \/ Receive(q) /\ WorkFrom(Head(inbox[q]), op, x)
                   \/ op = "send" /\ x.type = "ADVERTISE"
                   \/ op = "gone" /\ x \in Procs /\ status[x] = "gone"
<1>1. dwork \in [Procs -> Seq(WorkItem)] /\ \A p \in Procs : dwork[p] \in Seq(ItemsOf(p))
  BY DEF IInv, TypeOK, Traffic
<1>2. ASSUME dwork' = dwork PROVE Goal
  BY <1>2
<1>3. ASSUME NEW p \in Procs, NEW work, dwork' = [dwork EXCEPT ![p] = work],
             p = q => (WorkOn(work, op, x) => Goal)
      PROVE  Goal
  BY <1>1, <1>3
<1>4. ASSUME NEW p \in Procs, NEW cb, NEW y, Doing(dwork[p], cb, y),
             dwork' = [dwork EXCEPT ![p] = Done(@, y)]
      PROVE  Goal
  <2>1. WorkOn(Done(dwork[p], y), op, x) => WorkOn(dwork[p], op, x)
    BY <1>1, <1>4, DoingIsWork, WorkOnDone
  <2>2. dwork' = [dwork EXCEPT ![p] = Done(dwork[p], y)]
    BY <1>4
  <2> QED
    BY <1>3, <2>1, <2>2
<1>5. ASSUME NEW p \in Procs, Receive(p) PROVE Goal
  <2>1. PICK table, work : Dispatched(p, Head(inbox[p]), table, work)
    BY <1>5, ReceiveDispatches
  <2>2. /\ dwork' = [dwork EXCEPT ![p] = work]
        /\ WorkOn(work, op, x) => WorkFrom(Head(inbox[p]), op, x)
    BY <2>1 DEF Dispatched, Dispatch
  <2> QED
    BY <1>3, <1>5, <2>2
<1>6. ASSUME NEW p \in Procs, Beat(p) PROVE Goal
  <2> DEFINE args == {About("ADVERTISE", pub) : pub \in {pub \in Own(p) : pub.scope # "PROCESS"}}
  <2>1. dwork' = [dwork EXCEPT ![p] = Work("send", args)]
    BY <1>6 DEF Beat
  <2>2. \A y \in args : y.type = "ADVERTISE"
    BY DEF About
  <2> HIDE DEF args
  <2>3. WorkOn(Work("send", args), op, x) => op = "send" /\ x.type = "ADVERTISE"
    BY <2>2, WorkOnWork
  <2> QED
    BY <1>3, <2>1, <2>3
<1>7. ASSUME NEW p \in Procs, NEW quiet \in SUBSET seen[p], Expire(p, quiet) PROVE Goal
  <2>1. \A r \in quiet : r \in Procs /\ status[r] = "gone"
    <3>1. seen[p] \subseteq Procs /\ status \in [Procs -> {"off", "on", "gone"}]
      BY DEF IInv, TypeOK
    <3>2. \A r \in quiet : status[r] # "on"
      BY <1>7, ExpireGone
    <3> QED
      BY <3>1, <3>2 DEF Started
  <2>2. dwork' = [dwork EXCEPT ![p] = Work("gone", quiet)]
    BY <1>7 DEF Expire
  <2>3. WorkOn(Work("gone", quiet), op, x) => op = "gone" /\ x \in quiet
    BY WorkOnWork
  <2> QED
    BY <1>3, <2>1, <2>2, <2>3
<1>8. ASSUME NEW p \in Procs, Vanish(p) PROVE Goal
  <2>1. dwork' = [dwork EXCEPT ![p] = << >>]
    BY <1>8 DEF Vanish
  <2> QED
    BY <1>3, <2>1, NoWork
<1> HIDE DEF Goal
<1>9. ASSUME NEW p \in Procs, DiscThread(p) PROVE Goal
  <2>1. ASSUME NEW m, DiscSend(p, m) PROVE Goal
    BY <1>4, <2>1 DEF DiscSend
  <2> QED
    BY <1>5, <1>6, <1>7, <1>9, <2>1 DEF DiscThread
<1>10. ASSUME NEW p \in Procs, RuntimeCallback(p) PROVE Goal
  <2>1. ASSUME NEW cb, NEW y, DiscCall(p, cb, y) PROVE Goal
    BY <1>4, <2>1 DEF DiscCall
  <2> QED
    BY <1>10, <2>1 DEF RuntimeCallback
<1>11. ASSUME NEW p \in Procs, ReceiveThread(p) PROVE Goal
  BY <1>2, <1>11 DEF ReceiveThread, ApplyConnect, ApplySubscribe, ApplyUnsubscribe, Apply,
                     Register, discVars
<1>12. ASSUME NEW p \in Procs, NEW n \in Nodes, RuntimeApp(p, n) PROVE Goal
  BY <1>2, <1>12 DEF RuntimeApp, Advertise, Unadvertise, Subscribe, Discover, Unsubscribe,
                     AppStarts
<1>13. ASSUME NEW p \in Procs, NEW n \in Nodes, RuntimeAppWork(p, n) PROVE Goal
  BY <1>2, <1>13 DEF RuntimeAppWork, AppSend, AppLookup, AppLeave, AppConnect
<1>14. ASSUME RuntimeEnvironment PROVE Goal
  BY <1>2, <1>8, <1>14 DEF RuntimeEnvironment, Exit, Crash, Start, Arrive
<1>15. ASSUME UNCHANGED vars PROVE Goal
  BY <1>2, <1>15 DEF vars, discVars
<1>16. Goal
  BY <1>9, <1>10, <1>11, <1>12, <1>13, <1>14, <1>15 DEF RuntimeNext
<1> QED
  BY <1>16 DEF Goal

LEMMA FarewellsStep ==
  ASSUME Reliable, [RuntimeNext]_vars, faults' = 0, silences' = 0
  PROVE  Farewells'
<1>1. IInv /\ Started /\ Farewells /\ inbox \in [Procs -> Seq(Message)]
  BY DEF Reliable, RuntimeInv, IInv, TypeOK
<1>2. \A q \in Procs : status[q] = "gone" => status'[q] = "gone"
  BY <1>1, StatusStep
<1>3. ASSUME NEW p \in Procs, NEW i \in 1 .. Len(inbox'[p]), inbox'[p][i].type = "BYE"
      PROVE  status'[inbox'[p][i].from] = "gone"
  <2>1. ASSUME NEW j \in 1 .. Len(inbox[p]), inbox'[p][i] = inbox[p][j]
        PROVE  status'[inbox'[p][i].from] = "gone"
    <3>1. inbox[p][j] \in Message
      BY <1>1
    <3>2. inbox[p][j].from \in Procs /\ status[inbox[p][j].from] = "gone"
      BY <1>1, <1>3, <2>1, <3>1, MessageParts DEF Farewells
    <3> QED
      BY <1>2, <2>1, <3>2
  <2>2. ASSUME NEW r \in Procs, Sent(r, inbox'[p][i])
        PROVE  status'[inbox'[p][i].from] = "gone"
    BY <1>3, <2>2 DEF Sent
  <2> QED
    BY <2>1, <2>2, MailFrom
<1>4. ASSUME NEW p \in Procs, NEW q \in Procs, WorkOn(dwork'[p], "gone", q)
      PROVE  status'[q] = "gone"
  <2>1. CASE WorkOn(dwork[p], "gone", q)
    BY <1>1, <1>2, <2>1 DEF Farewells
  <2>2. CASE Receive(p) /\ WorkFrom(Head(inbox[p]), "gone", q)
    <3>1. inbox[p] # << >> /\ Head(inbox[p]).type = "BYE" /\ q = Head(inbox[p]).from
      BY <2>2 DEF Receive, WorkFrom
    <3>2. PICK i \in 1 .. Len(inbox[p]) : Head(inbox[p]) = inbox[p][i]
      BY <1>1, <3>1, HeadIsMail
    <3> QED
      BY <1>1, <1>2, <3>1, <3>2 DEF Farewells
  <2>3. CASE status[q] = "gone"
    BY <1>2, <2>3
  <2>4. "gone" # "send"
    OBVIOUS
  <2> QED
    BY <1>1, <1>4, <2>1, <2>2, <2>3, <2>4, DworkStep
<1> QED
  BY <1>3, <1>4 DEF Farewells

-----------------------------------------------------------------------------
(* What the steps give the threads to send.                                *)

\* What a thread of node n may have to do for its queue to be right.
Fitting(op, x, n, subscribed) ==
    \/ op \in {"connect", "lookup"}
    \/ op = "leave" /\ Handler(x, n) \notin subscribed
    \/ op = "send" /\ x.type \in {"ADVERTISE", "UNADVERTISE", "SUBSCRIBE"}
    \/ /\ op = "send" /\ x.type = "END_CONNECTION"
       /\ x.pub.node = n /\ Handler(x.pub.topic, n) \notin subscribed

LEMMA SendsOf ==
  ASSUME NEW queue, NEW n, NEW subscribed,
         \A op, x : WorkOn(queue, op, x) => Fitting(op, x, n, subscribed)
  PROVE  Sends(queue, n, subscribed)
<1>1. ASSUME NEW m \in Message, WorkOn(queue, "send", m)
      PROVE  /\ m.type \in {"ADVERTISE", "UNADVERTISE", "SUBSCRIBE", "END_CONNECTION"}
             /\ m.type = "END_CONNECTION" =>
                   m.pub.node = n /\ Handler(m.pub.topic, n) \notin subscribed
  <2>1. Fitting("send", m, n, subscribed)
    BY <1>1
  <2> QED
    BY <2>1 DEF Fitting
<1>2. ASSUME NEW t \in Topics, WorkOn(queue, "leave", t) PROVE Handler(t, n) \notin subscribed
  <2>1. Fitting("leave", t, n, subscribed)
    BY <1>2
  <2> QED
    BY <2>1 DEF Fitting
<1> QED
  BY <1>1, <1>2 DEF Sends

\* Work in front of the work that is left.
LEMMA SendsMore ==
  ASSUME NEW p \in Procs, NEW n \in Nodes, NEW subscribed,
         NEW queue \in Seq(ItemsOf(p)), Sends(queue, n, subscribed),
         NEW y, y \in Pending(queue), NEW more \in Seq(ItemsOf(p)),
         \A op, x : WorkOn(more, op, x) => Fitting(op, x, n, subscribed)
  PROVE  /\ Sends(Done(queue, y), n, subscribed)
         /\ Sends(more \o Done(queue, y), n, subscribed)
<1>1. Done(queue, y) \in Seq(ItemsOf(p))
  BY DoneIsQueue
<1>2. Sends(more, n, subscribed)
  BY SendsOf
<1>3. \A op, x : WorkOn(Done(queue, y), op, x) => WorkOn(queue, op, x)
  BY WorkOnDone
<1>4. \A op, x : WorkOn(more \o Done(queue, y), op, x) => WorkOn(queue, op, x) \/ WorkOn(more, op, x)
  BY <1>1, <1>3, WorkOnConcat
<1> QED
  BY <1>2, <1>3, <1>4 DEF Sends

\* A thread of node n takes up this work, and handlers are added, if at all,
\* for node n.
LEMMA SendsStep ==
  ASSUME IInv, Sending, NEW p \in Procs, NEW n \in Nodes, NEW work,
         awork' = [awork EXCEPT ![p][n] = work], Sends(work, n, handlers'[p]),
         \A k \in Nodes \ {n} : \A t : Handler(t, k) \in handlers'[p] => Handler(t, k) \in handlers[p],
         \A q \in Procs \ {p} : handlers'[q] = handlers[q],
         NEW r \in Procs, NEW k \in Nodes
  PROVE  Sends(awork'[r][k], k, handlers'[r])
<1>1. /\ awork'[p][n] = work
      /\ \A j \in Nodes \ {n} : awork'[p][j] = awork[p][j]
      /\ \A q \in Procs \ {p} : awork'[q] = awork[q]
  BY AworkAt
<1>2. Sends(awork[r][k], k, handlers[r])
  BY DEF Sending
<1>3. CASE r # p
  BY <1>1, <1>2, <1>3
<1>4. CASE r = p /\ k = n
  BY <1>1, <1>4
<1>5. CASE r = p /\ k # n
  BY <1>1, <1>2, <1>5 DEF Sends
<1> QED
  BY <1>3, <1>4, <1>5

\* The API calls.
LEMMA CallSends ==
  ASSUME IInv, RuntimeTypeOK, Sending, NEW p \in Procs, NEW n \in Nodes, RuntimeApp(p, n),
         NEW r \in Procs, NEW k \in Nodes
  PROVE  Sends(awork'[r][k], k, handlers'[r])
<1> DEFINE Goal == Sends(awork'[r][k], k, handlers'[r])
<1>1. handlers \in [Procs -> SUBSET [topic : Topics, node : Nodes]]
  BY DEF RuntimeTypeOK
<1>2. ASSUME NEW work, awork' = [awork EXCEPT ![p][n] = work], handlers' = handlers,
             \A op, x : WorkOn(work, op, x) => Fitting(op, x, n, handlers[p])
      PROVE  Goal
  BY <1>2, SendsOf, SendsStep
<1>3. ASSUME NEW type \in {"ADVERTISE", "UNADVERTISE"}, NEW pub \in Publisher,
             NEW op, NEW x, WorkOn(Announce(type, pub), op, x)
      PROVE  Fitting(op, x, n, handlers[p])
  <2>1. op = "send" /\ x = About(type, pub)
    BY <1>3, WorkOnWork DEF Announce
  <2> QED
    BY <2>1 DEF Fitting, About
<1>4. ASSUME NEW t \in Topics, NEW scope \in Offered, Advertise(p, n, t, scope),
             UNCHANGED runtimeVars
      PROVE  Goal
  <2> DEFINE pub == [topic |-> t, proc |-> p, node |-> n, scope |-> scope]
             connect == Work("connect", {pub})
             announce == Announce("ADVERTISE", pub)
  <2>1. awork' = [awork EXCEPT ![p][n] = connect \o announce] /\ handlers' = handlers
    BY <1>4 DEF Advertise, AppStarts, runtimeVars
  <2>2. pub \in Publisher /\ pub.proc = p
    BY ProcessesAssumption DEF Publisher
  <2> HIDE DEF pub
  <2>3. /\ [op |-> "connect", args |-> {pub}] \in ItemsOf(p)
        /\ [op |-> "send", args |-> {About("ADVERTISE", pub)}] \in ItemsOf(p)
        /\ << >> \in Seq(ItemsOf(p))
    BY <2>2, AboutIsMessage DEF ItemsOf, WorkItem
  <2>4. connect \in Seq(ItemsOf(p))
    BY <2>3, WorkIsQueue
  <2>5. announce \in Seq(ItemsOf(p))
    BY <2>3, WorkIsQueue DEF Announce, Work
  <2>6. \A op, x : WorkOn(connect, op, x) => Fitting(op, x, n, handlers[p])
    BY WorkOnWork DEF Fitting
  <2>7. \A op, x : WorkOn(announce, op, x) => Fitting(op, x, n, handlers[p])
    BY <1>3, <2>2
  <2> HIDE DEF connect, announce
  <2>8. \A op, x : WorkOn(connect \o announce, op, x) => Fitting(op, x, n, handlers[p])
    BY <2>4, <2>5, <2>6, <2>7, WorkOnConcat
  <2> QED
    BY <1>2, <2>1, <2>8
<1>5. ASSUME NEW pub \in known[p], Unadvertise(p, n, pub), UNCHANGED runtimeVars
      PROVE  Goal
  <2>1. /\ awork' = [awork EXCEPT ![p][n] = Announce("UNADVERTISE", pub)]
        /\ handlers' = handlers
    BY <1>5 DEF Unadvertise, AppStarts, runtimeVars
  <2>2. pub \in Publisher
    BY DEF IInv, TypeOK
  <2> QED
    BY <1>2, <1>3, <2>1, <2>2
<1>6. ASSUME NEW t \in Topics, Subscribe(p, n, t) PROVE Goal
  <2> DEFINE query == Work("send", {Query(p, t)})
             lookup == Work("lookup", {t})
  <2>1. /\ awork' = [awork EXCEPT ![p][n] = query \o lookup]
        /\ handlers' = [handlers EXCEPT ![p] = @ \union {Handler(t, n)}]
    BY <1>6 DEF Subscribe, Discover, AppStarts
  <2>2. /\ handlers'[p] = handlers[p] \union {Handler(t, n)}
        /\ \A q \in Procs \ {p} : handlers'[q] = handlers[q]
    BY <1>1, <2>1
  <2>3. ASSUME NEW j \in Nodes \ {n}, NEW e, Handler(e, j) \in handlers'[p]
        PROVE  Handler(e, j) \in handlers[p]
    BY <2>2, <2>3 DEF Handler
  <2>4. /\ [op |-> "send", args |-> {Query(p, t)}] \in ItemsOf(p)
        /\ [op |-> "lookup", args |-> {t}] \in ItemsOf(p)
    BY QueryIsMessage DEF ItemsOf, WorkItem
  <2>5. query \in Seq(ItemsOf(p)) /\ lookup \in Seq(ItemsOf(p))
    BY <2>4, WorkIsQueue
  <2>6. \A op, x : WorkOn(query, op, x) \/ WorkOn(lookup, op, x) => Fitting(op, x, n, handlers'[p])
    BY WorkOnWork DEF Fitting, Query
  <2> HIDE DEF query, lookup
  <2>7. \A op, x : WorkOn(query \o lookup, op, x) => Fitting(op, x, n, handlers'[p])
    BY <2>5, <2>6, WorkOnConcat
  <2>8. Sends(query \o lookup, n, handlers'[p])
    BY <2>7, SendsOf
  <2> QED
    BY <2>1, <2>2, <2>3, <2>8, SendsStep
<1>7. ASSUME NEW t \in Topics, Unsubscribe(p, n, t) PROVE Goal
  <2>1. /\ awork' = [awork EXCEPT ![p][n] = Work("leave", {t})]
        /\ handlers' = [handlers EXCEPT ![p] = @ \ {Handler(t, n)}]
    BY <1>7 DEF Unsubscribe, AppStarts
  <2>2. /\ handlers'[p] = handlers[p] \ {Handler(t, n)}
        /\ \A q \in Procs \ {p} : handlers'[q] = handlers[q]
    BY <1>1, <2>1
  <2>3. \A op, x : WorkOn(Work("leave", {t}), op, x) => Fitting(op, x, n, handlers'[p])
    BY <2>2, WorkOnWork DEF Fitting
  <2>4. Sends(Work("leave", {t}), n, handlers'[p])
    BY <2>3, SendsOf
  <2>5. \A j \in Nodes \ {n} : \A e : Handler(e, j) \in handlers'[p] => Handler(e, j) \in handlers[p]
    BY <2>2
  <2> QED
    BY <2>1, <2>2, <2>4, <2>5, SendsStep
<1> QED
  BY <1>4, <1>5, <1>6, <1>7 DEF RuntimeApp

\* What they leave to do.
LEMMA CallWorkSends ==
  ASSUME IInv, RuntimeTypeOK, Sending, NEW p \in Procs, NEW n \in Nodes, RuntimeAppWork(p, n),
         NEW r \in Procs, NEW k \in Nodes
  PROVE  Sends(awork'[r][k], k, handlers'[r])
<1> DEFINE Goal == Sends(awork'[r][k], k, handlers'[r])
           queue == awork[p][n]
<1>1. queue \in Seq(ItemsOf(p)) /\ << >> \in Seq(ItemsOf(p)) /\ Sends(queue, n, handlers[p])
  BY DEF IInv, Traffic, Sending
<1>2. ASSUME NEW work, awork' = [awork EXCEPT ![p][n] = work], handlers' = handlers,
             Sends(work, n, handlers[p])
      PROVE  Goal
  BY <1>2, SendsStep
<1> HIDE DEF Goal
<1>3. ASSUME NEW op, NEW x, Doing(queue, op, x), handlers' = handlers,
             awork' = [awork EXCEPT ![p][n] = Done(@, x)]
      PROVE  Goal
  <2>1. x \in Pending(queue)
    BY <1>3 DEF Doing
  <2>2. Sends(Done(queue, x), n, handlers[p])
    BY <1>1, <2>1, NoWork, SendsMore
  <2>3. awork' = [awork EXCEPT ![p][n] = Done(queue, x)]
    BY <1>3
  <2> QED
    BY <1>2, <1>3, <2>2, <2>3
<1>4. ASSUME NEW op, NEW x, Doing(queue, op, x), handlers' = handlers,
             NEW more \in Seq(ItemsOf(p)),
             \A o, y : WorkOn(more, o, y) => Fitting(o, y, n, handlers[p]),
             awork' = [awork EXCEPT ![p][n] = more \o Done(@, x)]
      PROVE  Goal
  <2>1. x \in Pending(queue)
    BY <1>4 DEF Doing
  <2>2. Sends(more \o Done(queue, x), n, handlers[p])
    BY <1>1, <1>4, <2>1, SendsMore
  <2>3. awork' = [awork EXCEPT ![p][n] = more \o Done(queue, x)]
    BY <1>4
  <2> QED
    BY <1>2, <1>4, <2>2, <2>3
<1>5. ASSUME NEW x, AppSend(p, n, x), UNCHANGED runtimeVars PROVE Goal
  BY <1>3, <1>5 DEF AppSend, runtimeVars
<1>6. ASSUME NEW t, AppLookup(p, n, t), UNCHANGED runtimeVars PROVE Goal
  <2> DEFINE found == GetPublishers(known[p], t)
             more == Work("connect", found)
  <2>1. /\ Doing(queue, "lookup", t) /\ handlers' = handlers
        /\ awork' = [awork EXCEPT ![p][n] = more \o Done(@, t)]
    BY <1>6 DEF AppLookup, runtimeVars
  <2>2. found \in SUBSET Publisher
    BY DEF GetPublishers, IInv, TypeOK
  <2> HIDE DEF found
  <2>3. [op |-> "connect", args |-> found] \in ItemsOf(p)
    BY <2>2 DEF ItemsOf, WorkItem
  <2>4. more \in Seq(ItemsOf(p)) /\ \A o, y : WorkOn(more, o, y) => Fitting(o, y, n, handlers[p])
    BY <2>3, WorkIsQueue, WorkOnWork DEF Fitting
  <2> HIDE DEF more
  <2> QED
    BY <1>4, <2>1, <2>4
<1>7. ASSUME NEW t, AppLeave(p, n, t), UNCHANGED runtimeVars PROVE Goal
  <2> DEFINE publishers == {pub.proc : pub \in GetPublishers(known[p], t)}
             sends == {Registration("END_CONNECTION", Subscriber(t, p, n), q) : q \in publishers}
             more == Work("send", sends)
  <2>1. /\ Doing(queue, "leave", t) /\ handlers' = handlers
        /\ awork' = [awork EXCEPT ![p][n] = more \o Done(@, t)]
    BY <1>7 DEF AppLeave, runtimeVars
  <2>2. t \in Topics /\ WorkOn(queue, "leave", t)
    <3>1. \E node \in Nodes : Doing(awork[p][node], "leave", t)
      BY <2>1
    <3>2. t \in Topics
      BY <3>1, CallbackTypes
    <3>3. WorkOn(queue, "leave", t)
      BY <1>1, <2>1, DoingIsWork
    <3> QED
      BY <3>2, <3>3
  <2>3. Handler(t, n) \notin handlers[p]
    BY <1>1, <2>2 DEF Sends
  <2>4. publishers \subseteq Procs
    <3>1. known[p] \subseteq Publisher
      BY DEF IInv, TypeOK
    <3>2. \A pub \in GetPublishers(known[p], t) : pub \in Publisher
      BY <3>1 DEF GetPublishers
    <3>3. \A pub \in Publisher : pub.proc \in Procs
      BY DEF Publisher
    <3> QED
      BY <3>2, <3>3
  <2> HIDE DEF publishers
  <2>5. \A m \in sends : m \in Message /\ m.from = p
    BY <2>2, <2>4, RegistrationIsMessage
  <2>6. \A m \in sends : Fitting("send", m, n, handlers[p])
    BY <2>3 DEF Registration, Subscriber, Fitting
  <2> HIDE DEF sends
  <2>7. [op |-> "send", args |-> sends] \in ItemsOf(p)
    BY <2>5 DEF ItemsOf, WorkItem
  <2>8. more \in Seq(ItemsOf(p)) /\ \A o, y : WorkOn(more, o, y) => Fitting(o, y, n, handlers[p])
    BY <2>6, <2>7, WorkIsQueue, WorkOnWork
  <2> HIDE DEF more
  <2> QED
    BY <1>4, <2>1, <2>8
<1>8. ASSUME NEW x, AppConnect(p, n, x), OnPublisherConnected(p, x) PROVE Goal
  <2>1. handlers' = handlers
    BY <1>8 DEF OnPublisherConnected, runtimeVars
  <2> QED
    BY <1>3, <1>8, <2>1 DEF AppConnect
<1> QED
  BY <1>5, <1>6, <1>7, <1>8 DEF RuntimeAppWork, Goal

\* The application threads of all processes.
LEMMA AppSends ==
  ASSUME IInv, RuntimeTypeOK, Sending, [RuntimeNext]_vars, NEW r \in Procs, NEW k \in Nodes
  PROVE  Sends(awork'[r][k], k, handlers'[r])
<1> DEFINE Goal == Sends(awork'[r][k], k, handlers'[r])
<1>1. Sends(awork[r][k], k, handlers[r])
  BY DEF Sending
<1>2. ASSUME UNCHANGED <<awork, handlers>> PROVE Goal
  BY <1>1, <1>2
<1>3. ASSUME NEW p \in Procs, Vanish(p), Forget(p) PROVE Goal
  <2>1. r = p => awork'[r][k] = << >>
    BY <1>3 DEF Vanish, IInv, TypeOK
  <2>2. r # p => awork'[r] = awork[r] /\ handlers'[r] = handlers[r]
    BY <1>3 DEF Vanish, Forget, IInv, TypeOK, RuntimeTypeOK
  <2>3. Sends(<< >>, k, handlers'[r])
    BY NoWork DEF Sends
  <2> QED
    BY <1>1, <2>1, <2>2, <2>3
<1> HIDE DEF Goal
<1>4. ASSUME NEW p \in Procs, DiscThread(p), UNCHANGED runtimeVars PROVE Goal
  <2>1. ASSUME Receive(p) PROVE Goal
    <3>1. awork' = awork
      BY <2>1, ReceiveDispatches DEF Dispatched, Dispatch
    <3> QED
      BY <1>2, <1>4, <3>1 DEF runtimeVars
  <2> QED
    BY <1>2, <1>4, <2>1 DEF DiscThread, Beat, Expire, DiscSend, runtimeVars
<1>5. ASSUME NEW p \in Procs, RuntimeCallback(p) PROVE Goal
  BY <1>2, <1>5 DEF RuntimeCallback, DiscCall, OnPublisherConnected, OnPublisherDisconnected,
     OnProcessGone, OnSubscriberRegistered, OnSubscriberUnregistered, runtimeVars
<1>6. ASSUME NEW p \in Procs, ReceiveThread(p) PROVE Goal
  BY <1>2, <1>6 DEF ReceiveThread, ApplyConnect, ApplySubscribe, ApplyUnsubscribe, Apply,
                    Register, discVars
<1>7. ASSUME NEW p \in Procs, NEW n \in Nodes, RuntimeApp(p, n) \/ RuntimeAppWork(p, n) PROVE Goal
  BY <1>7, CallSends, CallWorkSends DEF Goal
<1>8. ASSUME RuntimeEnvironment PROVE Goal
  BY <1>2, <1>3, <1>8 DEF RuntimeEnvironment, Exit, Crash, Start, Arrive, runtimeVars
<1>9. ASSUME UNCHANGED vars PROVE Goal
  BY <1>2, <1>9 DEF vars, discVars, runtimeVars
<1>10. Goal
  BY <1>4, <1>5, <1>6, <1>7, <1>8, <1>9 DEF RuntimeNext
<1> QED
  BY <1>10 DEF Goal

\* How what a receive thread has to register changes: a Subscribe command is
\* applied, a registration is sent, or the process is gone.
LEMMA RegisteringStep ==
  ASSUME RuntimeTypeOK, [RuntimeNext]_vars, NEW p \in Procs
  PROVE  \/ registering'[p] = registering[p]
         \/ ApplySubscribe(p) /\ registering[p] = {}
         \/ \E m \in registering[p] : Register(p, m) /\ registering'[p] = registering[p] \ {m}
         \/ registering'[p] = {} /\ Vanish(p)
<1> DEFINE Goal == \/ registering'[p] = registering[p]
                   \/ ApplySubscribe(p) /\ registering[p] = {}
                   \/ \E m \in registering[p] :
                         Register(p, m) /\ registering'[p] = registering[p] \ {m}
                   \/ registering'[p] = {} /\ Vanish(p)
<1>1. registering \in [Procs -> SUBSET Message]
  BY DEF RuntimeTypeOK
<1>2. ASSUME registering' = registering PROVE Goal
  BY <1>2
<1>3. ASSUME NEW q \in Procs, ApplySubscribe(q) PROVE Goal
  <2>1. q = p => registering[p] = {}
    BY <1>3 DEF ApplySubscribe, Apply
  <2>2. q # p => registering'[p] = registering[p]
    BY <1>1, <1>3 DEF ApplySubscribe
  <2> QED
    BY <1>3, <2>1, <2>2
<1>4. ASSUME NEW q \in Procs, NEW m \in registering[q], Register(q, m) PROVE Goal
  <2>1. registering' = [registering EXCEPT ![q] = @ \ {m}]
    BY <1>4 DEF Register
  <2>2. CASE q = p
    BY <1>1, <1>4, <2>1, <2>2
  <2>3. CASE q # p
    BY <1>1, <2>1, <2>3
  <2> QED
    BY <2>2, <2>3
<1>5. ASSUME NEW q \in Procs, Vanish(q), Forget(q) PROVE Goal
  <2>1. registering' = [registering EXCEPT ![q] = {}]
    BY <1>5 DEF Forget
  <2> QED
    BY <1>1, <1>5, <2>1
<1> HIDE DEF Goal
<1>6. ASSUME NEW q \in Procs, RuntimeCallback(q) PROVE Goal
  BY <1>2, <1>6 DEF RuntimeCallback, OnPublisherConnected, OnPublisherDisconnected,
     OnProcessGone, OnSubscriberRegistered, OnSubscriberUnregistered, runtimeVars
<1>7. ASSUME NEW q \in Procs, ReceiveThread(q) PROVE Goal
  BY <1>2, <1>3, <1>4, <1>7 DEF ReceiveThread, ApplyConnect, ApplyUnsubscribe
<1>8. ASSUME NEW q \in Procs, NEW n \in Nodes, RuntimeApp(q, n) PROVE Goal
  BY <1>2, <1>8 DEF RuntimeApp, Subscribe, Unsubscribe, runtimeVars
<1>9. ASSUME NEW q \in Procs, NEW n \in Nodes, RuntimeAppWork(q, n) PROVE Goal
  BY <1>2, <1>9 DEF RuntimeAppWork, OnPublisherConnected, runtimeVars
<1>10. ASSUME RuntimeEnvironment PROVE Goal
  BY <1>2, <1>5, <1>10 DEF RuntimeEnvironment, Exit, Crash, runtimeVars
<1>11. ASSUME UNCHANGED vars PROVE Goal
  BY <1>2, <1>11 DEF vars, runtimeVars
<1>12. ASSUME NEW q \in Procs, UNCHANGED runtimeVars PROVE Goal
  BY <1>2, <1>12 DEF runtimeVars
<1>13. Goal
  BY <1>6, <1>7, <1>8, <1>9, <1>10, <1>11, <1>12 DEF RuntimeNext
<1> QED
  BY <1>13 DEF Goal

LEMMA SendingStep ==
  ASSUME Reliable, [RuntimeNext]_vars, silences' = 0
  PROVE  Sending'
<1>1. IInv /\ RuntimeTypeOK /\ Started /\ Sending
  BY DEF Reliable, RuntimeInv
<1>2. ASSUME NEW p \in Procs, NEW m \in Message, WorkOn(dwork'[p], "send", m)
      PROVE  m.type = "ADVERTISE"
  <2>1. \/ WorkOn(dwork[p], "send", m)
        \/ Receive(p) /\ WorkFrom(Head(inbox[p]), "send", m)
        \/ m.type = "ADVERTISE"
    BY <1>1, <1>2, DworkStep
  <2> QED
    BY <1>1, <2>1 DEF Sending, WorkFrom
<1>3. ASSUME NEW p \in Procs, NEW m \in Message, WorkOn(dwork'[p], "unregister", m)
      PROVE  m.type = "END_CONNECTION"
  <2>1. \/ WorkOn(dwork[p], "unregister", m)
        \/ Receive(p) /\ WorkFrom(Head(inbox[p]), "unregister", m)
    BY <1>1, <1>3, DworkStep
  <2> QED
    BY <1>1, <2>1 DEF Sending, WorkFrom
<1>4. ASSUME NEW p \in Procs, NEW m \in registering'[p] PROVE m.type = "NEW_CONNECTION"
  <2>1. CASE ApplySubscribe(p) /\ registering[p] = {}
    <3>1. \/ registering' = registering
          \/ \E pub : registering' = [registering EXCEPT ![p] =
                {Registration("NEW_CONNECTION", Subscriber(pub.topic, p, n), pub.proc) :
                    n \in Head(commands[p]).nodes}]
      BY <2>1 DEF ApplySubscribe
    <3> QED
      BY <1>1, <1>4, <2>1, <3>1 DEF Registration, RuntimeTypeOK
  <2> QED
    BY <1>1, <1>4, <2>1, RegisteringStep DEF Sending
<1>5. \A p \in Procs : \A n \in Nodes : Sends(awork'[p][n], n, handlers'[p])
  BY <1>1, AppSends
<1>6. \A p \in Procs : \A n \in Nodes : Sends(awork[p][n], n, handlers[p])'
  BY <1>5 DEF Sends
<1> QED
  BY <1>2, <1>3, <1>4, <1>6 DEF Sending

-----------------------------------------------------------------------------
(* What the steps do to the commands of a process.                         *)

CommandedIn(queue, s, q) ==
    \E i \in 1 .. Len(queue) :
        /\ queue[i].type = "Subscribe" /\ queue[i].value.topic = s.topic
        /\ queue[i].value.proc = q /\ s.node \in queue[i].nodes

LEMMA CommandedIsIn ==
  ASSUME NEW s, NEW q
  PROVE  /\ Commanded(s, q) <=> CommandedIn(commands[s.proc], s, q)
         /\ Commanded(s, q)' <=> CommandedIn(commands'[s.proc], s, q)
  BY DEF Commanded, CommandedIn

LEMMA CommandedConcat ==
  ASSUME NEW S, NEW q1 \in Seq(S), NEW q2 \in Seq(S), NEW s, NEW q,
         CommandedIn(q1, s, q) \/ CommandedIn(q2, s, q)
  PROVE  CommandedIn(q1 \o q2, s, q)
<1>1. /\ Len(q1 \o q2) = Len(q1) + Len(q2)
      /\ \A i \in 1 .. Len(q1) : (q1 \o q2)[i] = q1[i]
      /\ \A i \in 1 .. Len(q2) : (q1 \o q2)[Len(q1) + i] = q2[i]
      /\ Len(q1) \in Nat /\ Len(q2) \in Nat
  OBVIOUS
<1>2. CASE CommandedIn(q1, s, q)
  <2>1. PICK i \in 1 .. Len(q1) :
               /\ q1[i].type = "Subscribe" /\ q1[i].value.topic = s.topic
               /\ q1[i].value.proc = q /\ s.node \in q1[i].nodes
    BY <1>2 DEF CommandedIn
  <2>2. i \in 1 .. Len(q1 \o q2) /\ (q1 \o q2)[i] = q1[i]
    BY <1>1
  <2> QED
    BY <2>1, <2>2 DEF CommandedIn
<1>3. CASE CommandedIn(q2, s, q)
  <2>1. PICK i \in 1 .. Len(q2) :
               /\ q2[i].type = "Subscribe" /\ q2[i].value.topic = s.topic
               /\ q2[i].value.proc = q /\ s.node \in q2[i].nodes
    BY <1>3 DEF CommandedIn
  <2>2. Len(q1) + i \in 1 .. Len(q1 \o q2) /\ (q1 \o q2)[Len(q1) + i] = q2[i]
    BY <1>1
  <2> QED
    BY <2>1, <2>2 DEF CommandedIn
<1> QED
  BY <1>2, <1>3

LEMMA CommandedTail ==
  ASSUME NEW S, NEW queue \in Seq(S), queue # << >>, NEW s, NEW q, CommandedIn(queue, s, q)
  PROVE  \/ /\ Head(queue).type = "Subscribe" /\ Head(queue).value.topic = s.topic
            /\ Head(queue).value.proc = q /\ s.node \in Head(queue).nodes
         \/ CommandedIn(Tail(queue), s, q)
<1>1. /\ Len(queue) \in Nat /\ Len(Tail(queue)) = Len(queue) - 1 /\ Head(queue) = queue[1]
      /\ \A i \in 1 .. Len(Tail(queue)) : Tail(queue)[i] = queue[i + 1]
  BY TailParts
<1>2. PICK i \in 1 .. Len(queue) : /\ queue[i].type = "Subscribe" /\ queue[i].value.topic = s.topic
                                   /\ queue[i].value.proc = q /\ s.node \in queue[i].nodes
  BY DEF CommandedIn
<1>3. CASE i = 1
  BY <1>1, <1>2, <1>3
<1>4. CASE i # 1
  <2>1. i - 1 \in 1 .. Len(Tail(queue)) /\ Tail(queue)[i - 1] = queue[i]
    BY <1>1, <1>4
  <2> QED
    BY <1>2, <2>1 DEF CommandedIn
<1> QED
  BY <1>3, <1>4

\* onPublisherConnected adds to the commands, one of them for each node that
\* subscribes.
LEMMA ConnectedCommands ==
  ASSUME RuntimeTypeOK, NEW p \in Procs, NEW x \in Publisher, OnPublisherConnected(p, x)
  PROVE  /\ \E more \in Seq(Commands) : commands'[p] = commands[p] \o more
         /\ \A q \in Procs \ {p} : commands'[q] = commands[q]
         /\ x.proc # p => \A n \in NodesWith(p, x.topic) :
                             Commanded(Subscriber(x.topic, p, n), x.proc)'
<1>0. commands \in [Procs -> Seq(Commands)]
  BY DEF RuntimeTypeOK
<1>1. CASE ~(HasSubscriber(p, x.topic) /\ x.proc # p)
  <2>1. commands' = commands
    BY <1>1 DEF OnPublisherConnected, runtimeVars
  <2>2. commands'[p] = commands[p] \o << >> /\ << >> \in Seq(Commands)
    BY <1>0, <2>1
  <2>3. x.proc # p => NodesWith(p, x.topic) = {}
    BY <1>1 DEF HasSubscriber
  <2> QED
    BY <2>1, <2>2, <2>3
<1>2. CASE HasSubscriber(p, x.topic) /\ x.proc # p
  <2> DEFINE connect == IF HasPublisher(remotePubs[p], x.proc) THEN << >>
                        ELSE <<Command("Connect", x.proc, {})>>
             subscribe == <<Command("Subscribe", x, NodesWith(p, x.topic))>>
  <2>1. commands' = [commands EXCEPT ![p] = @ \o connect \o subscribe]
    BY <1>2 DEF OnPublisherConnected
  <2>2. x.proc \in Procs /\ NodesWith(p, x.topic) \in SUBSET Nodes
    BY DEF Publisher, NodesWith
  <2>3. /\ Command("Connect", x.proc, {}) \in Commands
        /\ Command("Subscribe", x, NodesWith(p, x.topic)) \in Commands
    BY <2>2, CommandTypes
  <2>4. connect \in Seq(Commands) /\ subscribe \in Seq(Commands)
    BY <2>3
  <2>5. ASSUME NEW n \in NodesWith(p, x.topic)
        PROVE  CommandedIn(subscribe, Subscriber(x.topic, p, n), x.proc)
    <3>1. Len(subscribe) = 1 /\ subscribe[1] = Command("Subscribe", x, NodesWith(p, x.topic))
      OBVIOUS
    <3> QED
      BY <3>1 DEF CommandedIn, Command, Subscriber
  <2> HIDE DEF connect, subscribe
  <2>6. /\ commands'[p] = commands[p] \o connect \o subscribe
        /\ \A q \in Procs \ {p} : commands'[q] = commands[q]
    BY <1>0, <2>1
  <2>7. /\ commands'[p] = commands[p] \o (connect \o subscribe)
        /\ connect \o subscribe \in Seq(Commands)
    BY <1>0, <2>4, <2>6
  <2>8. ASSUME NEW n \in NodesWith(p, x.topic)
        PROVE  Commanded(Subscriber(x.topic, p, n), x.proc)'
    <3>1. commands[p] \o connect \in Seq(Commands)
      BY <1>0, <2>4
    <3>2. CommandedIn(commands'[p], Subscriber(x.topic, p, n), x.proc)
      BY <2>4, <2>5, <2>6, <3>1, CommandedConcat
    <3>3. Subscriber(x.topic, p, n).proc = p
      BY DEF Subscriber
    <3> QED
      BY <3>2, <3>3, CommandedIsIn
  <2> QED
    BY <2>6, <2>7, <2>8
<1> QED
  BY <1>1, <1>2

\* The commands of a process that stays: they grow, or the first is applied.
LEMMA CommandsStep ==
  ASSUME IInv, RuntimeTypeOK, [RuntimeNext]_vars, NEW p \in Procs, status'[p] = "on"
  PROVE  \/ \E more \in Seq(Commands) : commands'[p] = commands[p] \o more
         \/ /\ ApplyConnect(p) \/ ApplySubscribe(p) \/ ApplyUnsubscribe(p)
            /\ commands[p] # << >> /\ commands'[p] = Tail(commands[p])
<1> DEFINE Goal == \/ \E more \in Seq(Commands) : commands'[p] = commands[p] \o more
                   \/ /\ ApplyConnect(p) \/ ApplySubscribe(p) \/ ApplyUnsubscribe(p)
                      /\ commands[p] # << >> /\ commands'[p] = Tail(commands[p])
<1>0. commands \in [Procs -> Seq(Commands)] /\ status \in [Procs -> {"off", "on", "gone"}]
  BY DEF RuntimeTypeOK, IInv, TypeOK
<1>1. ASSUME commands'[p] = commands[p] PROVE Goal
  <2>1. commands'[p] = commands[p] \o << >> /\ << >> \in Seq(Commands)
    BY <1>0, <1>1
  <2> QED
    BY <2>1
<1>2. ASSUME NEW q \in Procs, ApplyConnect(q) \/ ApplySubscribe(q) \/ ApplyUnsubscribe(q)
      PROVE  Goal
  <2>1. commands' = [commands EXCEPT ![q] = Tail(@)] /\ commands[q] # << >>
    BY <1>2 DEF ApplyConnect, ApplySubscribe, ApplyUnsubscribe, Apply
  <2>2. CASE q = p
    BY <1>0, <1>2, <2>1, <2>2
  <2>3. CASE q # p
    BY <1>0, <1>1, <2>1, <2>3
  <2> QED
    BY <2>2, <2>3
<1>3. ASSUME NEW q \in Procs, NEW x \in Publisher, OnPublisherConnected(q, x) PROVE Goal
  <2>1. CASE q = p
    BY <1>3, <2>1, ConnectedCommands
  <2>2. CASE q # p
    BY <1>1, <1>3, <2>2, ConnectedCommands
  <2> QED
    BY <2>1, <2>2
<1>4. ASSUME NEW q \in Procs, NEW n \in Nodes, NEW t \in Topics, Unsubscribe(q, n, t) PROVE Goal
  <2> DEFINE last == Command("Unsubscribe", t, {})
  <2>1. last \in Commands
    BY CommandTypes
  <2>2. commands' = [commands EXCEPT ![q] = IF NodesWith(q, t) = {n} THEN Append(@, last) ELSE @]
    BY <1>4 DEF Unsubscribe
  <2> HIDE DEF last
  <2>3. commands'[p] \in {commands[p], Append(commands[p], last)}
    BY <1>0, <2>2
  <2>4. Append(commands[p], last) = commands[p] \o <<last>> /\ <<last>> \in Seq(Commands)
    BY <1>0, <2>1
  <2> QED
    BY <1>1, <2>3, <2>4
<1>5. ASSUME NEW q \in Procs, Vanish(q), Forget(q) PROVE Goal
  <2>1. q # p
    BY <1>0, <1>5 DEF Vanish
  <2>2. commands'[p] = commands[p]
    BY <1>0, <1>5, <2>1 DEF Forget
  <2> QED
    BY <1>1, <2>2
<1> HIDE DEF Goal
<1>6. ASSUME UNCHANGED commands PROVE Goal
  BY <1>1, <1>6
<1>7. ASSUME NEW q \in Procs, RuntimeCallback(q) PROVE Goal
  <2>1. ASSUME NEW x, DiscCall(q, "connect", x), OnPublisherConnected(q, x) PROVE Goal
    BY <1>3, <2>1, CallbackTypes DEF DiscCall
  <2> QED
    BY <1>6, <1>7, <2>1 DEF RuntimeCallback, OnPublisherDisconnected,
       OnProcessGone, OnSubscriberRegistered, OnSubscriberUnregistered, runtimeVars
<1>8. ASSUME NEW q \in Procs, ReceiveThread(q) PROVE Goal
  BY <1>2, <1>6, <1>8 DEF ReceiveThread, Register
<1>9. ASSUME NEW q \in Procs, NEW n \in Nodes, RuntimeApp(q, n) PROVE Goal
  BY <1>4, <1>6, <1>9 DEF RuntimeApp, Subscribe, runtimeVars
<1>10. ASSUME NEW q \in Procs, NEW n \in Nodes, RuntimeAppWork(q, n) PROVE Goal
  <2>1. ASSUME NEW x, AppConnect(q, n, x), OnPublisherConnected(q, x) PROVE Goal
    BY <1>3, <2>1, AppConnectConnecting
  <2> QED
    BY <1>6, <1>10, <2>1 DEF RuntimeAppWork, runtimeVars
<1>11. ASSUME RuntimeEnvironment PROVE Goal
  BY <1>5, <1>6, <1>11 DEF RuntimeEnvironment, Exit, Crash, runtimeVars
<1>12. ASSUME UNCHANGED vars PROVE Goal
  BY <1>6, <1>12 DEF vars, runtimeVars
<1>13. ASSUME UNCHANGED runtimeVars PROVE Goal
  BY <1>6, <1>13 DEF runtimeVars
<1>14. Goal
  BY <1>7, <1>8, <1>9, <1>10, <1>11, <1>12, <1>13 DEF RuntimeNext
<1> QED
  BY <1>14 DEF Goal

-----------------------------------------------------------------------------
(* What becomes due.                                                       *)

\* A publisher becomes due to be registered with when the callback about it is
\* done: its command is there then.
LEMMA DueStep ==
  ASSUME IInv, RuntimeTypeOK, [RuntimeNext]_vars,
         NEW p \in Procs, NEW pub, NEW n \in Nodes, Due(p, pub, n)'
  PROVE  Due(p, pub, n) \/ Commanded(Subscriber(pub.topic, p, n), pub.proc)'
<1> DEFINE Goal == Due(p, pub, n) \/ Commanded(Subscriber(pub.topic, p, n), pub.proc)'
<1>0. /\ pub \in known'[p] /\ pub.proc # p /\ Handler(pub.topic, n) \in handlers'[p]
      /\ ~StillConnecting(p, pub)'
  BY DEF Due, NodesWith
<1>1. ASSUME pub \in known[p], Handler(pub.topic, n) \in handlers[p], ~StillConnecting(p, pub)
      PROVE  Goal
  BY <1>0, <1>1 DEF Due, NodesWith
<1> HIDE DEF Goal
<1>2. ASSUME NEW r \in Procs, Quiet(r) PROVE Goal
  <2>1. handlers' = handlers
    BY <1>2 DEF Quiet
  <2>2. CASE r = p
    <3>1. pub \in known[p] /\ ~StillConnecting(p, pub)
      BY <1>0, <1>2, <2>2 DEF Quiet
    <3> QED
      BY <1>0, <1>1, <2>1, <3>1
  <2>3. CASE r # p
    <3>1. known'[p] = known[p] /\ awork'[p] = awork[p] /\ dwork'[p] = dwork[p]
      BY <1>2, <2>3 DEF Quiet
    <3> QED
      BY <1>0, <1>1, <2>1, <3>1 DEF StillConnecting
  <2> QED
    BY <2>2, <2>3
<1>3. ASSUME UNCHANGED <<known, handlers, awork, dwork>> PROVE Goal
  BY <1>0, <1>1, <1>3 DEF StillConnecting
<1>4. ASSUME NEW r \in Procs, known' = known, NEW x \in Publisher, OnPublisherConnected(r, x),
             \A q \in Procs \ {r} : awork'[q] = awork[q] /\ dwork'[q] = dwork[q],
             pub # x /\ StillConnecting(r, pub) => StillConnecting(r, pub)'
      PROVE  Goal
  <2>1. handlers' = handlers
    BY <1>4 DEF OnPublisherConnected, runtimeVars
  <2>2. CASE r # p
    BY <1>0, <1>1, <1>4, <2>1, <2>2 DEF StillConnecting
  <2>3. CASE r = p /\ pub # x
    BY <1>0, <1>1, <1>4, <2>1, <2>3
  <2>4. CASE r = p /\ pub = x
    <3>1. n \in NodesWith(p, x.topic)
      BY <1>0, <2>1, <2>4 DEF NodesWith
    <3> QED
      BY <1>0, <1>4, <2>4, <3>1, ConnectedCommands DEF Goal
  <2> QED
    BY <2>2, <2>3, <2>4
<1>5. ASSUME NEW r \in Procs, NEW cb, NEW x, cb # "connect", DiscCall(r, cb, x),
             handlers' = handlers
      PROVE  Goal
  <2>1. /\ known' = known /\ awork' = awork /\ \A q \in Procs \ {r} : dwork'[q] = dwork[q]
    BY <1>5, CallbackConnecting
  <2>2. StillConnecting(r, pub) => StillConnecting(r, pub)'
    BY <1>5, CallbackConnecting
  <2>3. CASE r = p
    BY <1>0, <1>1, <1>5, <2>1, <2>2, <2>3
  <2>4. CASE r # p
    BY <1>0, <1>1, <1>5, <2>1, <2>4 DEF StillConnecting
  <2> QED
    BY <2>3, <2>4
<1>6. ASSUME NEW r \in Procs, RuntimeCallback(r) PROVE Goal
  <2>1. ASSUME NEW x, DiscCall(r, "connect", x), OnPublisherConnected(r, x) PROVE Goal
    <3>1. x \in Publisher
      BY <2>1, CallbackTypes DEF DiscCall
    <3>2. /\ known' = known /\ awork' = awork
          /\ \A q \in Procs \ {r} : dwork'[q] = dwork[q]
      BY <2>1, CallbackConnecting
    <3>3. pub # x /\ StillConnecting(r, pub) => StillConnecting(r, pub)'
      BY <2>1, CallbackConnecting
    <3> QED
      BY <1>4, <2>1, <3>1, <3>2, <3>3
  <2> QED
    BY <1>5, <1>6, <2>1 DEF RuntimeCallback, OnPublisherDisconnected, OnProcessGone,
       OnSubscriberRegistered, OnSubscriberUnregistered, runtimeVars
<1>7. ASSUME NEW r \in Procs, ReceiveThread(r) PROVE Goal
  BY <1>3, <1>7 DEF ReceiveThread, ApplyConnect, ApplySubscribe, ApplyUnsubscribe, Apply,
                    Register, discVars
<1>8. ASSUME NEW r \in Procs, NEW k \in Nodes, NEW t \in Topics, Subscribe(r, k, t) PROVE Goal
  <2>1. /\ known' = known /\ dwork' = dwork
        /\ \A q \in Procs \ {r} : awork'[q] = awork[q]
    BY <1>8, SubscribeConnecting
  <2>2. /\ StillConnecting(r, pub) => StillConnecting(r, pub)'
        /\ pub.topic = t => StillConnecting(r, pub)'
    BY <1>8, SubscribeConnecting
  <2>3. handlers' = [handlers EXCEPT ![r] = @ \union {Handler(t, k)}]
    BY <1>8 DEF Subscribe
  <2>4. CASE r # p
    <3>1. handlers'[p] = handlers[p]
      BY <2>3, <2>4 DEF RuntimeTypeOK
    <3> QED
      BY <1>0, <1>1, <2>1, <2>4, <3>1 DEF StillConnecting
  <2>5. CASE r = p
    <3>1. handlers'[p] = handlers[p] \union {Handler(t, k)} /\ pub.topic # t
      BY <1>0, <2>2, <2>3, <2>5 DEF RuntimeTypeOK
    <3>2. Handler(pub.topic, n) \in handlers[p]
      BY <1>0, <3>1 DEF Handler
    <3> QED
      BY <1>0, <1>1, <2>1, <2>2, <2>5, <3>2
  <2> QED
    BY <2>4, <2>5
<1>9. ASSUME NEW r \in Procs, NEW k \in Nodes, NEW t \in Topics, Unsubscribe(r, k, t) PROVE Goal
  <2> DEFINE queue == Work("leave", {t})
  <2>1. /\ AppIdle(r, k) /\ awork' = [awork EXCEPT ![r][k] = queue] /\ dwork' = dwork
        /\ known' = known /\ handlers' = [handlers EXCEPT ![r] = @ \ {Handler(t, k)}]
    BY <1>9 DEF Unsubscribe, AppStarts
  <2> HIDE DEF queue
  <2>2. /\ \A q \in Procs \ {r} : awork'[q] = awork[q]
        /\ \A e : StillConnecting(r, e) => StillConnecting(r, e)'
    BY <2>1, IdleMissed
  <2>3. handlers'[p] \subseteq handlers[p]
    BY <2>1 DEF RuntimeTypeOK
  <2>4. CASE r # p
    BY <1>0, <1>1, <2>1, <2>2, <2>3, <2>4 DEF StillConnecting
  <2>5. CASE r = p
    BY <1>0, <1>1, <2>1, <2>2, <2>3, <2>5
  <2> QED
    BY <2>4, <2>5
<1>10. ASSUME NEW r \in Procs, NEW k \in Nodes, RuntimeApp(r, k) PROVE Goal
  <2>1. ASSUME NEW t \in Topics, NEW scope \in Offered, Advertise(r, k, t, scope), UNCHANGED runtimeVars
        PROVE  Goal
    BY <1>2, <2>1, AdvertiseQuiet
  <2>2. ASSUME NEW e \in known[r], Unadvertise(r, k, e), UNCHANGED runtimeVars PROVE Goal
    BY <1>2, <2>2, UnadvertiseQuiet
  <2> QED
    BY <1>8, <1>9, <1>10, <2>1, <2>2 DEF RuntimeApp
<1>11. ASSUME NEW r \in Procs, NEW k \in Nodes, RuntimeAppWork(r, k) PROVE Goal
  <2>1. ASSUME NEW x, AppConnect(r, k, x), OnPublisherConnected(r, x) PROVE Goal
    <3>1. /\ x \in Publisher /\ dwork' = dwork /\ known' = known
          /\ \A q \in Procs \ {r} : awork'[q] = awork[q]
      BY <2>1, AppConnectConnecting
    <3>2. pub # x /\ StillConnecting(r, pub) => StillConnecting(r, pub)'
      BY <2>1, AppConnectConnecting
    <3> QED
      BY <1>4, <2>1, <3>1, <3>2
  <2>2. ASSUME NEW x, AppSend(r, k, x) \/ AppLookup(r, k, x) \/ AppLeave(r, k, x),
               UNCHANGED runtimeVars
        PROVE  Goal
    BY <1>2, <2>2, AppWorkQuiet
  <2> QED
    BY <1>11, <2>1, <2>2 DEF RuntimeAppWork
<1>12. ASSUME NEW r \in Procs, Vanish(r), Forget(r) PROVE Goal
  <2>1. r # p
    BY <1>0, <1>12 DEF Vanish, IInv, TypeOK
  <2>2. /\ known'[p] = known[p] /\ awork'[p] = awork[p] /\ dwork'[p] = dwork[p]
        /\ handlers'[p] = handlers[p]
    BY <1>12, <2>1 DEF Vanish, Forget, IInv, TypeOK, RuntimeTypeOK
  <2> QED
    BY <1>0, <1>1, <2>2 DEF StillConnecting
<1>13. ASSUME RuntimeEnvironment PROVE Goal
  BY <1>3, <1>12, <1>13 DEF RuntimeEnvironment, Exit, Crash, Start, Arrive, runtimeVars
<1>14. ASSUME UNCHANGED vars PROVE Goal
  BY <1>3, <1>14 DEF vars, discVars, runtimeVars
<1>15. ASSUME NEW r \in Procs, DiscThread(r), UNCHANGED runtimeVars PROVE Goal
  BY <1>2, <1>15, DiscThreadQuiet
<1>16. Goal
  BY <1>6, <1>7, <1>10, <1>11, <1>13, <1>14, <1>15 DEF RuntimeNext
<1> QED
  BY <1>16 DEF Goal

-----------------------------------------------------------------------------
(* What becomes of a registration.                                         *)

LEMMA RegistersParts ==
  ASSUME NEW t, NEW p, NEW n, NEW q
  PROVE  LET s == Subscriber(t, p, n) IN
         /\ s.topic = t /\ s.proc = p /\ s.node = n
         /\ Registers(s, q).type = "NEW_CONNECTION" /\ Registers(s, q).from = p
         /\ Registers(s, q).pub = s /\ Registers(s, q).ctrl = q
         /\ Unregisters(s, q).type = "END_CONNECTION" /\ Unregisters(s, q).from = p
         /\ Unregisters(s, q).pub = s
  BY DEF Subscriber, Registers, Unregisters, Registration

\* The command is applied: the node still has a handler, so its registration is
\* sent.
LEMMA CommandedStep ==
  ASSUME Reliable, [RuntimeNext]_vars, NEW p \in Procs, NEW q, NEW t, NEW n \in Nodes,
         status'[p] = "on", Handler(t, n) \in handlers[p], Commanded(Subscriber(t, p, n), q)
  PROVE  \/ Commanded(Subscriber(t, p, n), q)'
         \/ Registers(Subscriber(t, p, n), q) \in registering'[p]
<1> DEFINE s == Subscriber(t, p, n)
<1>0. s.proc = p /\ s.topic = t /\ s.node = n
  BY RegistersParts
<1>1. /\ IInv /\ RuntimeTypeOK /\ commands[p] \in Seq(Commands)
      /\ registering \in [Procs -> SUBSET Message]
  BY DEF Reliable, RuntimeInv, RuntimeTypeOK
<1> HIDE DEF s
<1>2. CommandedIn(commands[p], s, q)
  BY <1>0, CommandedIsIn DEF s
<1>3. ASSUME CommandedIn(commands'[p], s, q) PROVE Commanded(s, q)'
  BY <1>0, <1>3, CommandedIsIn DEF s
<1>4. CASE \E more \in Seq(Commands) : commands'[p] = commands[p] \o more
  BY <1>1, <1>2, <1>3, <1>4, CommandedConcat DEF s
<1>5. CASE /\ ApplyConnect(p) \/ ApplySubscribe(p) \/ ApplyUnsubscribe(p)
           /\ commands[p] # << >> /\ commands'[p] = Tail(commands[p])
  <2> DEFINE c == Head(commands[p])
  <2>1. CASE CommandedIn(commands'[p], s, q)
    BY <1>3, <2>1 DEF s
  <2>2. CASE c.type = "Subscribe" /\ c.value.topic = t /\ c.value.proc = q /\ n \in c.nodes
    <3>1. ApplySubscribe(p)
      BY <1>5, <2>2 DEF ApplyConnect, ApplyUnsubscribe, Apply
    <3>2. HasSubscriber(p, t)
      BY DEF HasSubscriber, NodesWith
    <3>3. registering' = [registering EXCEPT ![p] =
             {Registration("NEW_CONNECTION", Subscriber(t, p, k), q) : k \in c.nodes}]
      BY <2>2, <3>1, <3>2 DEF ApplySubscribe
    <3>4. Registers(s, q) \in registering'[p]
      BY <1>1, <2>2, <3>3 DEF Registers, s
    <3> QED
      BY <3>4 DEF s
  <2> QED
    BY <1>0, <1>1, <1>2, <1>5, <2>1, <2>2, CommandedTail
<1> QED
  BY <1>1, <1>4, <1>5, CommandsStep

\* A datagram at the end of the mail is the last word.
LEMMA LastWordAppended ==
  ASSUME NEW s, NEW q \in Procs, inbox[q] \in Seq(Message), Registers(s, q) \in Message,
         inbox'[q] = Append(inbox[q], Registers(s, q))
  PROVE  LastWord(s, q)'
<1>1. /\ Len(inbox[q]) \in Nat /\ Len(inbox'[q]) = Len(inbox[q]) + 1
      /\ inbox'[q][Len(inbox[q]) + 1] = Registers(s, q)
  BY AppendParts
<1>2. \A j \in 1 .. Len(inbox'[q]) : ~(j > Len(inbox[q]) + 1)
  BY <1>1
<1>3. Len(inbox[q]) + 1 \in 1 .. Len(inbox'[q])
  BY <1>1
<1>4. \E i \in 1 .. Len(inbox'[q]) :
         /\ inbox'[q][i] = Registers(s, q)
         /\ \A j \in 1 .. Len(inbox'[q]) : j > i => inbox'[q][j] # Unregisters(s, q)
  BY <1>1, <1>2, <1>3
<1> QED
  BY <1>4 DEF LastWord, Registers, Unregisters, Registration

\* The registration is sent: it is the last word there.
LEMMA RegisteringKept ==
  ASSUME Reliable, [RuntimeNext]_vars, faults' = 0, NEW p \in Procs, NEW q \in Procs \ {p},
         NEW t, NEW n, status'[p] = "on", status[q] = "on",
         Registers(Subscriber(t, p, n), q) \in registering[p]
  PROVE  \/ Registers(Subscriber(t, p, n), q) \in registering'[p]
         \/ LastWord(Subscriber(t, p, n), q)'
<1> DEFINE s == Subscriber(t, p, n)
<1>1. /\ IInv /\ RuntimeTypeOK /\ inbox \in [Procs -> Seq(Message)]
      /\ registering[p] \subseteq Message
  BY DEF Reliable, RuntimeInv, RuntimeTypeOK, IInv, TypeOK
<1>2. CASE registering'[p] = registering[p] \/ (ApplySubscribe(p) /\ registering[p] = {})
  BY <1>2
<1>3. ASSUME NEW m \in registering[p], Register(p, m), registering'[p] = registering[p] \ {m}
      PROVE  Registers(s, q) \in registering'[p] \/ LastWord(s, q)'
  <2>1. CASE m # Registers(s, q)
    BY <1>3, <2>1
  <2>2. CASE m = Registers(s, q)
    <3>1. Multicast(p, m)
      BY <1>3 DEF Register
    <3>2. q \in Listeners(p)
      BY DEF Listeners
    <3>3. inbox'[q] = Append(inbox[q], m)
      BY <1>1, <3>1, <3>2, MulticastWhole
    <3>4. m \in Message
      BY <1>1
    <3> HIDE DEF s
    <3> QED
      BY <1>1, <2>2, <3>3, <3>4, LastWordAppended
  <2> QED
    BY <2>1, <2>2
<1>4. ~Vanish(p)
  BY <1>1 DEF Vanish, IInv, TypeOK
<1> QED
  BY <1>1, <1>2, <1>3, <1>4, RegisteringStep

\* No thread takes back the registration of a node that subscribes.
LEMMA NoneTakesBack ==
  ASSUME NEW p, NEW q, NEW t, NEW n, Handler(t, n) \in handlers[p],
         NEW r \in Procs, NEW m, Sent(r, m)
  PROVE  m # Unregisters(Subscriber(t, p, n), q)
<1> SUFFICES ASSUME m = Unregisters(Subscriber(t, p, n), q) PROVE FALSE
  OBVIOUS
<1>1. m.type = "END_CONNECTION" /\ m.from = p /\ m.pub.topic = t /\ m.pub.node = n
  BY RegistersParts
<1> QED
  BY <1>1 DEF Sent

\* The last word stays the last; it is received and handed to the callback.
LEMMA LastWordKept ==
  ASSUME Reliable, [RuntimeNext]_vars, faults' = 0, NEW p \in Procs, NEW q \in Procs \ {p},
         NEW t, NEW n, Handler(t, n) \in handlers[p],
         LastWord(Subscriber(t, p, n), q)
  PROVE  LastWord(Subscriber(t, p, n), q)' \/ Entered(Subscriber(t, p, n), q)'
<1> DEFINE s == Subscriber(t, p, n)
           R == Registers(s, q)
           U == Unregisters(s, q)
<1>0. R.type = "NEW_CONNECTION" /\ U.type = "END_CONNECTION"
  BY RegistersParts
<1>00. s' = s /\ R' = R /\ U' = U
  BY DEF Subscriber, Registers, Unregisters, Registration
<1>1. IInv /\ inbox[q] \in Seq(Message)
  BY DEF Reliable, RuntimeInv, IInv, TypeOK
<1>2. PICK i \in 1 .. Len(inbox[q]) :
         inbox[q][i] = R /\ \A j \in 1 .. Len(inbox[q]) : j > i => inbox[q][j] # U
  BY DEF LastWord
<1>3. ASSUME NEW k \in 1 .. Len(inbox'[q]), inbox'[q][k] = R,
             \A j \in 1 .. Len(inbox'[q]) : j > k => inbox'[q][j] # U
      PROVE  LastWord(s, q)'
  BY <1>3 DEF LastWord, Registers, Unregisters, Registration
<1>4. ASSUME NEW r \in Procs, NEW m, Sent(r, m) PROVE m # U
  BY <1>4, NoneTakesBack
<1> HIDE DEF s, R, U
<1>5. CASE inbox'[q] = inbox[q]
  BY <1>2, <1>3, <1>5 DEF s
<1>6. ASSUME NEW r \in Procs, NEW m, Sent(r, m), inbox'[q] = Append(inbox[q], m)
      PROVE  LastWord(s, q)'
  <2>1. m \in Message /\ m # U
    BY <1>4, <1>6 DEF Sent
  <2>2. /\ Len(inbox[q]) \in Nat /\ Len(inbox'[q]) = Len(inbox[q]) + 1
        /\ \A j \in 1 .. Len(inbox[q]) : inbox'[q][j] = inbox[q][j]
        /\ inbox'[q][Len(inbox[q]) + 1] = m
    BY <1>1, <1>6, <2>1, AppendParts
  <2>3. ASSUME NEW j \in 1 .. Len(inbox'[q]), j > i PROVE inbox'[q][j] # U
    <3>1. CASE j \in 1 .. Len(inbox[q])
      BY <1>2, <2>2, <2>3, <3>1
    <3>2. CASE j \notin 1 .. Len(inbox[q])
      <4>1. j = Len(inbox[q]) + 1
        BY <2>2, <3>2
      <4> QED
        BY <2>1, <2>2, <4>1
    <3> QED
      BY <3>1, <3>2
  <2>4. i \in 1 .. Len(inbox'[q]) /\ inbox'[q][i] = R
    BY <1>2, <2>2
  <2> QED
    BY <1>3, <2>3, <2>4
<1>7. ASSUME Receive(q), inbox'[q] = Tail(inbox[q])
      PROVE  LastWord(s, q)' \/ Entered(s, q)'
  <2>1. inbox[q] # << >>
    BY <1>7 DEF Receive
  <2>2. /\ Len(inbox[q]) \in Nat /\ Len(inbox'[q]) = Len(inbox[q]) - 1
        /\ Head(inbox[q]) = inbox[q][1]
        /\ \A j \in 1 .. Len(inbox'[q]) : inbox'[q][j] = inbox[q][j + 1]
    BY <1>1, <1>7, <2>1, TailParts
  <2>3. ASSUME NEW j \in 1 .. Len(inbox'[q]), j + 1 > i PROVE inbox'[q][j] # U
    <3>1. j + 1 \in 1 .. Len(inbox[q])
      BY <2>2
    <3> QED
      BY <1>2, <2>2, <2>3, <3>1
  <2>4. CASE i = 1
    <3>1. PICK table, work : Dispatched(q, R, table, work)
      BY <1>2, <1>7, <2>2, <2>4, <1>1, ReceiveDispatches
    <3>2. dwork'[q] = work
      BY <1>1, <3>1 DEF Dispatched, Dispatch, IInv, TypeOK
    <3>3. WorkOn(dwork'[q], "register", R)
      BY <1>0, <3>1, <3>2 DEF Dispatched
    <3>4. ~WorkOn(dwork'[q], "unregister", U)
      BY <1>0, <3>1, <3>2 DEF Dispatched, WorkFrom
    <3>5. \A j \in 1 .. Len(inbox'[q]) : inbox'[q][j] # U
      BY <2>3, <2>4
    <3>6. Entered(s, q)'
      BY <3>3, <3>4, <3>5 DEF Entered, Registers, Unregisters, Registration, WorkOn, R, U
    <3> QED
      BY <3>6
  <2>5. CASE i # 1
    <3>1. i - 1 \in 1 .. Len(inbox'[q]) /\ inbox'[q][i - 1] = R
      BY <1>2, <2>2, <2>5
    <3>2. \A j \in 1 .. Len(inbox'[q]) : j > i - 1 => inbox'[q][j] # U
      BY <2>2, <2>3
    <3> QED
      BY <1>3, <3>1, <3>2
  <2> QED
    BY <2>4, <2>5
<1> QED
  BY <1>5, <1>6, <1>7, MailStep DEF s

LEMMA EntriesByKey ==
  ASSUME NEW e \in Entry, NEW f \in Entry, SameKey(e, f)
  PROVE  e = f
  BY DEF Entry, SameKey

\* The tables of a publisher: a subscriber of a running process stays in them,
\* unless it is unregistered.
LEMMA ListedStep ==
  ASSUME Reliable, [RuntimeNext]_vars, NEW p \in Procs, NEW q \in Procs,
         NEW t, NEW n, status[p] = "on", status'[q] = "on",
         ~WorkOn(dwork[q], "unregister", Unregisters(Subscriber(t, p, n), q)),
         Subscriber(t, p, n) \in remoteSubs[q]
  PROVE  Subscriber(t, p, n) \in remoteSubs'[q]
<1> DEFINE s == Subscriber(t, p, n)
<1>0. s.topic = t /\ s.proc = p /\ s.node = n
  BY RegistersParts
<1>1. /\ IInv /\ RuntimeTypeOK /\ Farewells /\ Sending
      /\ remoteSubs \in [Procs -> SUBSET Entry] /\ dwork[q] \in Seq(ItemsOf(q))
  BY DEF Reliable, RuntimeInv, RuntimeTypeOK, IInv, Traffic
<1> DEFINE Goal == s \in remoteSubs'[q]
<1> HIDE DEF s
<1>2. ASSUME remoteSubs'[q] = remoteSubs[q] PROVE Goal
  BY <1>2 DEF s
<1>3. ASSUME UNCHANGED remoteSubs PROVE Goal
  BY <1>2, <1>3
<1>4. ASSUME NEW x, DiscCall(q, "gone", x), OnProcessGone(q, x) PROVE Goal
  <2>1. x \in Procs /\ WorkOn(dwork[q], "gone", x)
    BY <1>1, <1>4, CallbackTypes, DoingIsWork DEF DiscCall
  <2>2. x # p
    BY <1>1, <2>1 DEF Farewells
  <2>3. remoteSubs'[q] = {e \in remoteSubs[q] : e.proc \notin {x}}
    BY <1>1, <1>4 DEF OnProcessGone, DelPublishersByProc
  <2> QED
    BY <1>0, <2>2, <2>3 DEF s
<1>5. ASSUME NEW x, DiscCall(q, "register", x), OnSubscriberRegistered(q, x) PROVE Goal
  <2>1. \/ remoteSubs' = remoteSubs
        \/ remoteSubs' = [remoteSubs EXCEPT ![q] = AddPublisher(@, x.pub)]
    BY <1>5 DEF OnSubscriberRegistered, runtimeVars
  <2> QED
    BY <1>1, <1>3, <2>1 DEF AddPublisher, s
<1>6. ASSUME NEW x, DiscCall(q, "unregister", x), OnSubscriberUnregistered(q, x) PROVE Goal
  <2>1. x \in Message /\ WorkOn(dwork[q], "unregister", x)
    BY <1>1, <1>6, CallbackTypes, DoingIsWork DEF DiscCall
  <2>2. x.type = "END_CONNECTION"
    BY <1>1, <2>1 DEF Sending
  <2>3. x = Registration("END_CONNECTION", x.pub, x.ctrl) /\ x.pub \in Entry
    BY <2>1, <2>2 DEF Message, Registration, About
  <2>4. CASE x.ctrl = q
    <3>1. x.pub # s
      BY <2>1, <2>3, <2>4 DEF Unregisters, s
    <3>2. s \in Entry
      BY <1>1 DEF s
    <3>3. ~SameKey(s, x.pub)
      BY <2>3, <3>1, <3>2, EntriesByKey
    <3>4. remoteSubs'[q] = {e \in remoteSubs[q] : ~SameKey(e, x.pub)}
      BY <1>1, <1>6, <2>4 DEF OnSubscriberUnregistered, DelPublishersByNode
    <3> QED
      BY <3>3, <3>4 DEF s
  <2>5. CASE x.ctrl # q
    BY <1>3, <1>6, <2>5 DEF OnSubscriberUnregistered, runtimeVars
  <2> QED
    BY <2>4, <2>5
<1>7. ASSUME NEW r \in Procs, Vanish(r), Forget(r) PROVE Goal
  <2>1. r # q
    BY <1>1, <1>7 DEF Vanish, IInv, TypeOK
  <2> QED
    BY <1>1, <1>2, <1>7, <2>1 DEF Forget
<1> HIDE DEF Goal
<1>8. ASSUME NEW r \in Procs, RuntimeCallback(r) PROVE Goal
  <2>1. CASE r = q
    BY <1>3, <1>4, <1>5, <1>6, <1>8, <2>1 DEF RuntimeCallback, OnPublisherConnected,
       OnPublisherDisconnected, runtimeVars
  <2>2. CASE r # q
    <3>1. \/ remoteSubs' = remoteSubs
          \/ \E table : remoteSubs' = [remoteSubs EXCEPT ![r] = table]
      BY <1>8 DEF RuntimeCallback, OnPublisherConnected, OnPublisherDisconnected,
         OnProcessGone, OnSubscriberRegistered, OnSubscriberUnregistered, runtimeVars
    <3> QED
      BY <1>1, <1>2, <2>2, <3>1
  <2> QED
    BY <2>1, <2>2
<1>9. ASSUME NEW r \in Procs, ReceiveThread(r) PROVE Goal
  BY <1>3, <1>9 DEF ReceiveThread, ApplyConnect, ApplySubscribe, ApplyUnsubscribe, Apply,
                    Register
<1>10. ASSUME NEW r \in Procs, NEW k \in Nodes, RuntimeApp(r, k) \/ RuntimeAppWork(r, k)
       PROVE  Goal
  BY <1>3, <1>10 DEF RuntimeApp, RuntimeAppWork, Subscribe, Unsubscribe, OnPublisherConnected,
                     runtimeVars
<1>11. ASSUME RuntimeEnvironment PROVE Goal
  BY <1>3, <1>7, <1>11 DEF RuntimeEnvironment, Exit, Crash, runtimeVars
<1>12. ASSUME UNCHANGED vars PROVE Goal
  BY <1>3, <1>12 DEF vars, runtimeVars
<1>13. ASSUME UNCHANGED runtimeVars PROVE Goal
  BY <1>3, <1>13 DEF runtimeVars
<1>14. Goal
  BY <1>8, <1>9, <1>10, <1>11, <1>12, <1>13 DEF RuntimeNext
<1> QED
  BY <1>14 DEF Goal, s

\* What is left of a queue after one of its steps, unless that is what was done.
LEMMA LeftToDo ==
  ASSUME NEW p \in Procs, NEW queue \in Seq(ItemsOf(p)), NEW op, NEW x, Doing(queue, op, x),
         NEW o, NEW y, WorkOn(queue, o, y)
  PROVE  WorkOn(Done(queue, x), o, y) \/ (y = x /\ o = op)
<1>1. << >> \in Seq(ItemsOf(p))
  OBVIOUS
<1> QED
  BY <1>1, WorkLeft

\* A registration that was received is in the queue of the discovery thread
\* until its callback enters the subscriber in the table.
LEMMA ToRegisterStep ==
  ASSUME Reliable, [RuntimeNext]_vars, NEW p \in Procs, NEW q \in Procs,
         NEW t, NEW n, status'[q] = "on",
         WorkOn(dwork[q], "register", Registers(Subscriber(t, p, n), q))
  PROVE  \/ WorkOn(dwork'[q], "register", Registers(Subscriber(t, p, n), q))
         \/ Subscriber(t, p, n) \in remoteSubs'[q]
<1> DEFINE s == Subscriber(t, p, n)
           R == Registers(s, q)
           Goal == WorkOn(dwork'[q], "register", R) \/ s \in remoteSubs'[q]
<1>0. /\ R.pub = s /\ R.ctrl = q
  BY RegistersParts
<1> HIDE DEF s, R
<1>1. /\ IInv /\ RuntimeTypeOK /\ RegistersSeen
      /\ remoteSubs \in [Procs -> SUBSET Entry] /\ dwork \in [Procs -> Seq(WorkItem)]
      /\ \A r \in Procs : dwork[r] \in Seq(ItemsOf(r))
  BY DEF Reliable, RuntimeInv, RuntimeTypeOK, IInv, Traffic, TypeOK
<1>2. ASSUME dwork'[q] = dwork[q] PROVE Goal
  BY <1>2 DEF s, R
<1>3. dwork[q] # << >>
  BY NoWork
<1>4. ASSUME NEW r \in Procs, r # q, NEW work, dwork' = [dwork EXCEPT ![r] = work] PROVE Goal
  BY <1>1, <1>2, <1>4
<1>5. ASSUME NEW r \in Procs, NEW op, NEW x, Doing(dwork[r], op, x),
             dwork' = [dwork EXCEPT ![r] = Done(@, x)],
             r = q /\ op = "register" /\ x = R => s \in remoteSubs'[q]
      PROVE  Goal
  <2>1. CASE r # q
    BY <1>1, <1>2, <1>5, <2>1
  <2>2. CASE r = q
    <3>1. dwork'[q] = Done(dwork[q], x)
      BY <1>1, <1>5, <2>2
    <3>2. WorkOn(Done(dwork[q], x), "register", R) \/ (R = x /\ op = "register")
      BY <1>1, <1>5, <2>2, LeftToDo DEF s, R
    <3> QED
      BY <1>5, <2>2, <3>1, <3>2
  <2> QED
    BY <2>1, <2>2
<1>6. ASSUME NEW r \in Procs, DiscThread(r) PROVE Goal
  <2>1. ASSUME Receive(r) PROVE Goal
    <3>1. dwork[r] = << >> /\ \E work : dwork' = [dwork EXCEPT ![r] = work]
      BY <1>1, <2>1, ReceiveDispatches DEF Dispatched, Dispatch
    <3> QED
      BY <1>3, <1>4, <3>1
  <2>2. ASSUME Beat(r) PROVE Goal
    <3>1. dwork[r] = << >> /\ \E work : dwork' = [dwork EXCEPT ![r] = work]
      BY <2>2 DEF Beat, Reached, DiscIdle
    <3> QED
      BY <1>3, <1>4, <3>1
  <2>3. ASSUME NEW quiet, Expire(r, quiet) PROVE Goal
    <3>1. dwork[r] = << >> /\ \E work : dwork' = [dwork EXCEPT ![r] = work]
      BY <2>3 DEF Expire, Reached, DiscIdle
    <3> QED
      BY <1>3, <1>4, <3>1
  <2>4. ASSUME NEW m, DiscSend(r, m) PROVE Goal
    BY <1>5, <2>4 DEF DiscSend
  <2> QED
    BY <1>6, <2>1, <2>2, <2>3, <2>4 DEF DiscThread
<1>7. ASSUME NEW r \in Procs, RuntimeCallback(r) PROVE Goal
  <2>1. ASSUME DiscCall(q, "register", R), OnSubscriberRegistered(q, R) PROVE s \in remoteSubs'[q]
    <3>1. R.pub \in Entry
      BY <1>1, RegistersSeenWork DEF R, s
    <3>2. remoteSubs'[q] = AddPublisher(remoteSubs[q], s)
      BY <1>0, <1>1, <2>1 DEF OnSubscriberRegistered
    <3>3. \A e \in remoteSubs[q] : SameKey(e, s) => e = s
      BY <1>0, <1>1, <3>1, EntriesByKey
    <3> QED
      BY <3>2, <3>3 DEF AddPublisher, Contains
  <2>2. PICK x, cb : /\ DiscCall(r, cb, x)
                     /\ cb = "register" => OnSubscriberRegistered(r, x)
    BY <1>7 DEF RuntimeCallback
  <2> QED
    BY <1>5, <2>1, <2>2 DEF DiscCall
<1>8. ASSUME NEW r \in Procs, ReceiveThread(r) PROVE Goal
  BY <1>2, <1>8 DEF ReceiveThread, ApplyConnect, ApplySubscribe, ApplyUnsubscribe, Apply,
                    Register, discVars
<1>9. ASSUME NEW r \in Procs, NEW k \in Nodes, RuntimeApp(r, k) PROVE Goal
  BY <1>2, <1>9 DEF RuntimeApp, Advertise, Unadvertise, Subscribe, Discover, Unsubscribe,
                    AppStarts
<1>10. ASSUME NEW r \in Procs, NEW k \in Nodes, RuntimeAppWork(r, k) PROVE Goal
  BY <1>2, <1>10 DEF RuntimeAppWork, AppSend, AppLookup, AppLeave, AppConnect
<1>11. ASSUME NEW r \in Procs, Vanish(r) PROVE Goal
  <2>1. r # q
    BY <1>1, <1>11 DEF Vanish, IInv, TypeOK
  <2> QED
    BY <1>4, <1>11, <2>1 DEF Vanish
<1> HIDE DEF Goal
<1>12. ASSUME RuntimeEnvironment PROVE Goal
  BY <1>2, <1>11, <1>12 DEF RuntimeEnvironment, Exit, Crash, Start, Arrive
<1>13. ASSUME UNCHANGED vars PROVE Goal
  BY <1>2, <1>13 DEF vars, discVars
<1>14. Goal
  BY <1>6, <1>7, <1>8, <1>9, <1>10, <1>12, <1>13 DEF RuntimeNext
<1> QED
  BY <1>14 DEF Goal, s, R

LEMMA EnteredKept ==
  ASSUME Reliable, [RuntimeNext]_vars, faults' = 0, silences' = 0,
         NEW p \in Procs, NEW q \in Procs, NEW t, NEW n,
         Handler(t, n) \in handlers[p], status[p] = "on", status'[q] = "on",
         Entered(Subscriber(t, p, n), q)
  PROVE  Entered(Subscriber(t, p, n), q)'
<1> DEFINE s == Subscriber(t, p, n)
           R == Registers(s, q)
           U == Unregisters(s, q)
<1>0. /\ R.type = "NEW_CONNECTION" /\ U.type = "END_CONNECTION"
      /\ IInv /\ Started /\ inbox[q] \in Seq(Message)
  BY RegistersParts DEF Reliable, RuntimeInv, IInv, TypeOK
<1>1. /\ s \in remoteSubs[q] \/ WorkOn(dwork[q], "register", R)
      /\ ~WorkOn(dwork[q], "unregister", U)
      /\ \A j \in 1 .. Len(inbox[q]) : inbox[q][j] # U
  BY DEF Entered
<1>2. s \in remoteSubs'[q] \/ WorkOn(dwork'[q], "register", R)
  BY <1>1, ListedStep, ToRegisterStep
<1>3. ASSUME WorkOn(dwork'[q], "unregister", U) PROVE FALSE
  <2>1. Receive(q) /\ WorkFrom(Head(inbox[q]), "unregister", U)
    BY <1>0, <1>1, <1>3, DworkStep
  <2>2. inbox[q] # << >> /\ Head(inbox[q]) = U
    BY <2>1 DEF Receive, WorkFrom
  <2> QED
    BY <1>0, <1>1, <2>2, HeadIsMail
<1>4. ASSUME NEW j \in 1 .. Len(inbox'[q]) PROVE inbox'[q][j] # U
  <2>1. CASE \E i \in 1 .. Len(inbox[q]) : inbox'[q][j] = inbox[q][i]
    BY <1>1, <2>1
  <2>2. ASSUME NEW r \in Procs, Sent(r, inbox'[q][j]) PROVE inbox'[q][j] # U
    BY <2>2, NoneTakesBack
  <2> QED
    BY <2>1, <2>2, MailFrom
<1> QED
  BY <1>2, <1>3, <1>4 DEF Entered, Registers, Unregisters, Registration, Subscriber, WorkOn

\* A subscriber that is registered, or will be, stays so.
LEMMA RegisteredStep ==
  ASSUME Reliable, [RuntimeNext]_vars, faults' = 0, silences' = 0,
         NEW p \in Procs, NEW q \in Procs \ {p}, NEW t, NEW n \in Nodes,
         Handler(t, n) \in handlers[p], status[p] = "on", status'[p] = "on",
         status[q] = "on", status'[q] = "on",
         Registered(Subscriber(t, p, n), q)
  PROVE  Registered(Subscriber(t, p, n), q)'
<1> DEFINE s == Subscriber(t, p, n)
<1>0. s.proc = p
  BY RegistersParts
<1>1. CASE Commanded(s, q)
  <2>1. Commanded(s, q)' \/ Registers(s, q) \in registering'[p]
    BY <1>1, CommandedStep
  <2> QED
    BY <1>0, <2>1 DEF Registered, Registers, Registration, Subscriber
<1>2. CASE Registers(s, q) \in registering[s.proc]
  <2>1. Registers(s, q) \in registering'[p] \/ LastWord(s, q)'
    BY <1>0, <1>2, RegisteringKept
  <2> QED
    BY <1>0, <2>1 DEF Registered, Registers, Registration, Subscriber
<1>3. CASE LastWord(s, q)
  <2>1. LastWord(s, q)' \/ Entered(s, q)'
    BY <1>3, LastWordKept
  <2> QED
    BY <2>1 DEF Registered
<1>4. CASE Entered(s, q)
  <2>1. Entered(s, q)'
    BY <1>4, EnteredKept
  <2> QED
    BY <2>1 DEF Registered
<1> QED
  BY <1>1, <1>2, <1>3, <1>4 DEF Registered

-----------------------------------------------------------------------------
(* The theorem.                                                            *)

LEMMA RegistrationStep ==
  ASSUME Reliable, RegistrationConserved, Started', [RuntimeNext]_vars, Undisturbed'
  PROVE  RegistrationConserved'
<1>1. /\ IInv /\ RuntimeTypeOK /\ Started /\ Undisturbed /\ faults' = 0 /\ silences' = 0
      /\ status \in [Procs -> {"off", "on", "gone"}] /\ known \in [Procs -> SUBSET Publisher]
  BY DEF Reliable, RuntimeInv, Undisturbed, IInv, TypeOK
<1>2. ASSUME NEW p \in Procs, NEW pub \in known'[p], NEW n \in Nodes, Due(p, pub, n)',
             status'[pub.proc] = "on"
      PROVE  Registered(Subscriber(pub.topic, p, n), pub.proc)'
  <2> DEFINE t == pub.topic
             q == pub.proc
  <2>1. CASE Commanded(Subscriber(t, p, n), q)'
    BY <2>1 DEF Registered
  <2>2. CASE Due(p, pub, n)
    <3>1. pub \in known[p] /\ q # p /\ Handler(t, n) \in handlers[p]
      BY <2>2 DEF Due, NodesWith
    <3>2. q \in Procs
      BY <1>1, <3>1 DEF Publisher
    <3>3. status[p] = "on" /\ status'[p] = "on"
      BY <1>1, <1>2, <3>1 DEF Started
    <3>4. status[q] = "on"
      <4>1. status[q] # "off" /\ status[q] # "gone"
        BY <1>1, <1>2, <3>1, <3>2, StatusStep DEF Started
      <4> QED
        BY <1>1, <3>2, <4>1
    <3>5. Registered(Subscriber(t, p, n), q)
      BY <1>1, <2>2, <3>1, <3>4 DEF RegistrationConserved
    <3> HIDE DEF t, q
    <3>6. Registered(Subscriber(t, p, n), q)'
      BY <1>1, <1>2, <3>1, <3>2, <3>3, <3>4, <3>5, RegisteredStep DEF q
    <3> QED
      BY <3>6 DEF t, q
  <2> QED
    BY <1>1, <1>2, <2>1, <2>2, DueStep
<1> QED
  BY <1>2 DEF RegistrationConserved

LEMMA ReliableStep == RuntimeInv /\ ReliableInv /\ [RuntimeNext]_vars => ReliableInv'
<1> SUFFICES ASSUME RuntimeInv, ReliableInv, [RuntimeNext]_vars, Undisturbed'
             PROVE  /\ delayed' = {} /\ Started' /\ Farewells' /\ Sending'
                    /\ RegistrationConserved'
  BY DEF ReliableInv
<1>1. Undisturbed
  BY UndisturbedBefore DEF RuntimeInv
<1>2. Reliable /\ RegistrationConserved
  BY <1>1 DEF ReliableInv, Reliable
<1>3. faults' = 0 /\ silences' = 0
  BY DEF Undisturbed
<1>4. delayed' = {}
  <2>1. CASE Procs = {}
    <3>1. delayed' \in SUBSET [to : Procs, msg : Message]
      BY RuntimeInvStep DEF RuntimeInv, IInv, TypeOK
    <3> QED
      BY <2>1, <3>1
  <2>2. ASSUME NEW q \in Procs PROVE delayed' = {}
    BY <1>2, <1>3, <2>2, MailStep
  <2> QED
    BY <2>1, <2>2
<1>5. Started'
  BY <1>2, <1>3, StartedStep
<1>6. Farewells' /\ Sending'
  BY <1>2, <1>3, FarewellsStep, SendingStep
<1>7. RegistrationConserved'
  BY <1>2, <1>5, RegistrationStep
<1> QED
  BY <1>4, <1>5, <1>6, <1>7

LEMMA ReliableInit == RuntimeInit => ReliableInv
<1> SUFFICES ASSUME RuntimeInit PROVE ReliableInv
  OBVIOUS
<1>1. /\ delayed = {} /\ status = [p \in Procs |-> IF p \in Running THEN "on" ELSE "off"]
      /\ \A p \in Procs : /\ known[p] = {} /\ seen[p] = {} /\ inbox[p] = << >>
                          /\ dwork[p] = << >> /\ registering[p] = {}
                          /\ \A n \in Nodes : awork[p][n] = << >>
  BY DEF RuntimeInit, Init
<1>2. Started /\ RegistrationConserved
  BY <1>1 DEF Started, RegistrationConserved
<1>3. Farewells
  BY <1>1, NoWork DEF Farewells
<1>4. Sending
  BY <1>1, NoWork DEF Sending, Sends
<1> QED
  BY <1>1, <1>2, <1>3, <1>4 DEF ReliableInv

\* What a reliable network keeps: only what was started is known or heard of,
\* only processes that are gone are said good-bye of, and each thread sends
\* what it should.
THEOREM ReliableInvariant == RuntimeSpec => [](RuntimeInv /\ ReliableInv)
<1>1. RuntimeInit => RuntimeInv /\ ReliableInv
  BY RuntimeInvInit, ReliableInit
<1>2. (RuntimeInv /\ ReliableInv) /\ [RuntimeNext]_vars => (RuntimeInv /\ ReliableInv)'
  BY RuntimeInvStep, ReliableStep
<1> QED
  BY <1>1, <1>2, PTL DEF RuntimeSpec

\* As long as the network loses and delays nothing and nobody is taken for dead,
\* a node that subscribes is registered, or will be, at every running publisher
\* its process knows, in whatever order nodes subscribe, unsubscribe, advertise
\* and unadvertise, and processes start, exit and crash (onPublisherConnected,
\* applySubscriberCommands, unsubscribe, onSubscriberRegistered and
\* onSubscriberUnregistered).
THEOREM RegistrationsConserved == RuntimeSpec => []RegistrationConserved
<1>1. RuntimeInv /\ ReliableInv => RegistrationConserved
  BY DEF ReliableInv, RegistrationConserved
<1> QED
  BY <1>1, ReliableInvariant, PTL
=============================================================================
