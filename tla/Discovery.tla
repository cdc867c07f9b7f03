----------------------------- MODULE Discovery -----------------------------
(***************************************************************************)
(* Discovery<MessagePublisherInfo> of discovery.hpp: one instance per      *)
(* process, all of them on one UDP multicast group.  In every process one  *)
(* discovery thread receives datagrams, beats and expires silent peers;    *)
(* application threads (one per node) advertise, unadvertise and discover. *)
(*                                                                         *)
(* Both kinds of thread release mutex_ before they send or call back, so   *)
(* what a thread still has to do after its critical section is a queue of  *)
(* work items: "send" datagrams, "lookup" a topic, or a callback of the    *)
(* runtime.  An item holds a set of arguments, done one per step.          *)
(***************************************************************************)
EXTENDS Integers, Sequences, FiniteSets, TopicStorage

CONSTANTS Procs,      \* process uuids: a restarted program is another one
          Running,    \* those running when the behaviour starts
          HostOf,     \* host address of each process
          Nodes,      \* node names, each driven by a thread of its own
          Topics,
          Advertising, Subscribing, \* bound: the processes and nodes that do
          Offered,    \* bound: the scopes publishers are advertised with
          MaxOps,     \* bound: API calls in a behaviour
          MaxFaults,  \* bound: datagrams lost, delayed or duplicated
          MaxSilence, \* bound: running processes taken for dead
          MaxTrouble, \* bound: those two together
          MaxExits    \* bound: processes that exit or crash

Scopes == {"PROCESS", "HOST", "ALL"}

ASSUME ProcessesAssumption == /\ IsFiniteSet(Procs) /\ Running \subseteq Procs
                              /\ Advertising \subseteq Procs \X Nodes
                              /\ Subscribing \subseteq Procs \X Nodes
                              /\ Offered \subseteq Scopes
ASSUME BoundsAssumption  == /\ MaxOps \in Nat /\ MaxFaults \in Nat
                            /\ MaxSilence \in Nat /\ MaxTrouble \in Nat /\ MaxExits \in Nat

VARIABLES status,   \* "off", "on" (enabled_), or "gone"
          known,    \* known_publishers_
          seen,     \* the keys of last_seen_by_process_
          inbox,    \* datagrams waiting in the socket of a process
          delayed,  \* datagrams the network still holds
          turn,     \* what the loop comes to in this round
          dwork,    \* what the discovery thread still has to do
          awork,    \* what each application thread still has to do
          ops, faults, silences, exits   \* how much of each bound is used

budgets  == <<ops, faults, silences, exits>>
discVars == <<status, known, seen, inbox, delayed, turn, dwork, awork,
              ops, faults, silences, exits>>

Publisher == [topic : Topics, proc : Procs, node : Nodes, scope : Scopes]

\* Datagrams.  In NEW_CONNECTION and END_CONNECTION pub is the subscriber's
\* entry and ctrl the publisher's process.
Plain(type, p)           == [type |-> type, from |-> p]
Query(p, t)              == [type |-> "SUBSCRIBE", from |-> p, topic |-> t]
About(type, pub)         == [type |-> type, from |-> pub.proc, pub |-> pub]
Registration(type, e, q) == [type |-> type, from |-> e.proc, pub |-> e, ctrl |-> q]

\* A queue with one work item, and a queue after argument x of its first
\* item is done.
Work(op, args) == IF args = {} THEN << >> ELSE <<[op |-> op, args |-> args]>>
Done(queue, x) == Work(Head(queue).op, Head(queue).args \ {x}) \o Tail(queue)

\* What the thread with this queue may do next, and that it is op on x.
Pending(queue)      == IF queue = << >> THEN {} ELSE Head(queue).args
Doing(queue, op, x) == x \in Pending(queue) /\ Head(queue).op = op

Own(p) == GetPublishersByProc(known[p], p)

Init ==
    /\ status = [p \in Procs |-> IF p \in Running THEN "on" ELSE "off"]
    /\ known = [p \in Procs |-> {}]
    /\ seen  = [p \in Procs |-> {}]
    /\ inbox = [p \in Procs |-> << >>]
    /\ delayed = {}
    /\ turn = [p \in Procs |-> "poll"]
    /\ dwork = [p \in Procs |-> << >>]
    /\ awork = [p \in Procs |-> [n \in Nodes |-> << >>]]
    /\ ops = 0 /\ faults = 0 /\ silences = 0 /\ exits = 0

-----------------------------------------------------------------------------
(* The network.                                                            *)

\* Mutant: a process does not discard the copies of its own datagrams.
ListenersAndSelf(p) == {q \in Procs : status[q] = "on"}

Listeners(p) == {q \in Procs \ {p} : status[q] = "on"}

\* sendMulticast: a copy for every other process (its own copy is discarded
\* on receipt).  Copies in absent do not reach the socket now; copies in late
\* reach it some time later: a copy in late alone is duplicated, one in absent
\* alone is lost.
Multicast(p, m) ==
    \E absent, late \in SUBSET Listeners(p) :
        /\ faults + Cardinality(absent \union late) <= MaxFaults
        /\ faults' = faults + Cardinality(absent \union late)
        /\ faults' + silences <= MaxTrouble
        /\ delayed' = delayed \union {[to |-> q, msg |-> m] : q \in late}
        /\ inbox' = [q \in Procs |-> IF q \in Listeners(p) \ absent
                                     THEN Append(inbox[q], m) ELSE inbox[q]]

\* A delayed copy arrives (at a socket that is closed, it vanishes).
Arrive(d) ==
    /\ delayed' = delayed \ {d}
    /\ inbox' = [inbox EXCEPT ![d.to] = IF status[d.to] = "on"
                                        THEN Append(@, d.msg) ELSE @]
    /\ UNCHANGED <<status, known, seen, turn, dwork, awork, budgets>>

-----------------------------------------------------------------------------
(* Application threads: advertise, unadvertise, discover.                  *)

\* The thread of node n is between two API calls, and one more is allowed.
AppIdle(p, n) == status[p] = "on" /\ awork[p][n] = << >> /\ ops < MaxOps

\* The thread of node n starts an API call that leaves it this work.
AppStarts(p, n, work) ==
    /\ awork' = [awork EXCEPT ![p][n] = work]
    /\ ops' = ops + 1
    /\ UNCHANGED <<status, seen, inbox, delayed, turn, dwork,
                   faults, silences, exits>>

\* Datagrams about a publisher of scope PROCESS are not sent.
Announce(type, pub) ==
    Work("send", IF pub.scope = "PROCESS" THEN {} ELSE {About(type, pub)})

Advertise(p, n, t, scope) ==
    LET pub == [topic |-> t, proc |-> p, node |-> n, scope |-> scope] IN
    /\ AppIdle(p, n) /\ <<p, n>> \in Advertising
    /\ ~Contains(known[p], pub)
    /\ known' = [known EXCEPT ![p] = AddPublisher(@, pub)]
    /\ AppStarts(p, n, Work("connect", {pub}) \o Announce("ADVERTISE", pub))

Unadvertise(p, n, pub) ==
    /\ AppIdle(p, n)
    /\ pub \in Own(p) /\ pub.node = n
    /\ known' = [known EXCEPT ![p] = DelPublishersByNode(@, pub)]
    /\ AppStarts(p, n, Announce("UNADVERTISE", pub))

Discover(p, n, t) ==
    /\ AppIdle(p, n) /\ <<p, n>> \in Subscribing
    /\ AppStarts(p, n, Work("send", {Query(p, t)}) \o Work("lookup", {t}))
    /\ UNCHANGED known

AppSend(p, n, m) ==
    /\ status[p] = "on" /\ Doing(awork[p][n], "send", m)
    /\ Multicast(p, m)
    /\ awork' = [awork EXCEPT ![p][n] = Done(@, m)]
    /\ UNCHANGED <<status, known, seen, turn, dwork, ops, silences, exits>>

\* getPublishers under mutex_, then one connection callback per publisher.
AppLookup(p, n, t) ==
    /\ status[p] = "on" /\ Doing(awork[p][n], "lookup", t)
    /\ awork' = [awork EXCEPT ![p][n] =
                    Work("connect", GetPublishers(known[p], t)) \o Done(@, t)]
    /\ UNCHANGED <<status, known, seen, inbox, delayed, turn, dwork, budgets>>

AppConnect(p, n, pub) ==
    /\ status[p] = "on" /\ Doing(awork[p][n], "connect", pub)
    /\ awork' = [awork EXCEPT ![p][n] = Done(@, pub)]
    /\ UNCHANGED <<status, known, seen, inbox, delayed, turn, dwork, budgets>>

-----------------------------------------------------------------------------
(* The discovery thread: loop, dispatchDiscoveryMsg, updateHeartbeat,      *)
(* updateActivity.                                                         *)

DiscIdle(p) == status[p] = "on" /\ dwork[p] = << >>

\* Mutant: the host of the sender is not compared.
InScopeAnywhere(pub, p, q) == pub.scope # "PROCESS"

\* Whether a process (is_sender_local or not) is in the scope of a publisher.
InScope(pub, p, q) ==
    pub.scope # "PROCESS" /\ (pub.scope = "HOST" => HostOf[p] = HostOf[q])

\* Mutant: only a heartbeat renews the lease of its sender.
DispatchOnHeartbeat(p, m, table, work) ==
    /\ inbox' = [inbox EXCEPT ![p] = Tail(@)]
    /\ turn' = [turn EXCEPT ![p] = "beat"]
    /\ seen' = [seen EXCEPT ![p] = CASE m.type = "BYE" -> @ \ {m.from}
                                     [] m.type = "HEARTBEAT" -> @ \union {m.from}
                                     [] OTHER -> @]
    /\ known' = [known EXCEPT ![p] = table]
    /\ dwork' = [dwork EXCEPT ![p] = work]
    /\ UNCHANGED <<status, delayed, awork, budgets>>

\* What every datagram does first: it is taken off the socket and its sender
\* is seen alive; table and work are what its type does next.
Dispatch(p, m, table, work) ==
    /\ inbox' = [inbox EXCEPT ![p] = Tail(@)]
    /\ turn' = [turn EXCEPT ![p] = "beat"]
    /\ seen' = [seen EXCEPT ![p] = IF m.type = "BYE" THEN @ \ {m.from}
                                   ELSE @ \union {m.from}]
    /\ known' = [known EXCEPT ![p] = table]
    /\ dwork' = [dwork EXCEPT ![p] = work]
    /\ UNCHANGED <<status, delayed, awork, budgets>>

RecvAdvertise(p, m) ==
    /\ m.type = "ADVERTISE"
    /\ IF InScope(m.pub, m.from, p) /\ ~Contains(known[p], m.pub)
       THEN Dispatch(p, m, AddPublisher(known[p], m.pub), Work("connect", {m.pub}))
       ELSE Dispatch(p, m, known[p], << >>)

RecvUnadvertise(p, m) ==
    /\ m.type = "UNADVERTISE"
    /\ IF InScope(m.pub, m.from, p)
       THEN Dispatch(p, m, DelPublishersByNode(known[p], m.pub),
                     Work("disconnect", {m.pub}))
       ELSE Dispatch(p, m, known[p], << >>)

\* The publishers of the topic in this process that the sender may see are
\* advertised again.
RecvSubscribe(p, m) ==
    /\ m.type = "SUBSCRIBE"
    /\ LET answers == {pub \in Own(p) : pub.topic = m.topic /\ InScope(pub, m.from, p)}
       IN Dispatch(p, m, known[p],
                   Work("send", {About("ADVERTISE", pub) : pub \in answers}))

RecvRegistration(p, m) ==
    \/ /\ m.type = "NEW_CONNECTION"
       /\ Dispatch(p, m, known[p], Work("register", {m}))
    \/ /\ m.type = "END_CONNECTION"
       /\ Dispatch(p, m, known[p], Work("unregister", {m}))

RecvHeartbeat(p, m) ==
    /\ m.type = "HEARTBEAT"
    /\ Dispatch(p, m, known[p], << >>)

\* Mutant: the callback is given the datagram, not its process.
RecvByeWhole(p, m) ==
    /\ m.type = "BYE"
    /\ Dispatch(p, m, DelPublishersByProc(known[p], {m.from}), Work("gone", {m}))

RecvBye(p, m) ==
    /\ m.type = "BYE"
    /\ Dispatch(p, m, DelPublishersByProc(known[p], {m.from}),
                Work("gone", {m.from}))

\* recvDiscoveryMsg, when poll found the socket readable.
Receive(p) ==
    /\ DiscIdle(p)
    /\ inbox[p] # << >>
    /\ LET m == Head(inbox[p]) IN
          \/ RecvAdvertise(p, m)
          \/ RecvUnadvertise(p, m)
          \/ RecvSubscribe(p, m)
          \/ RecvRegistration(p, m)
          \/ RecvHeartbeat(p, m)
          \/ RecvBye(p, m)

\* A round of the loop polls the socket and receives one datagram if there is
\* one, then beats if that is due, then expires if that is due.
Reached(p, turns) == DiscIdle(p) /\ (turn[p] \in turns \/ inbox[p] = << >>)

\* A heartbeat interval (1 s) is far longer than a datagram waits in a socket:
\* what a process sent before has been received, unless the network holds it.
Spaced(p) == \A q \in Listeners(p) : \A i \in 1 .. Len(inbox[q]) : inbox[q][i].from # p

\* Mutant: the heartbeat does not advertise the publishers again.
BeatAlone(p) ==
    /\ Reached(p, {"beat"})
    /\ Spaced(p)
    /\ Multicast(p, Plain("HEARTBEAT", p))
    /\ turn' = [turn EXCEPT ![p] = "expire"]
    /\ UNCHANGED <<status, known, seen, dwork, awork, ops, silences, exits>>

\* updateHeartbeat: the own publishers are copied under mutex_ and advertised
\* one by one after it is released.
Beat(p) ==
    /\ Reached(p, {"beat"})
    /\ Spaced(p)
    /\ Multicast(p, Plain("HEARTBEAT", p))
    /\ LET again == {pub \in Own(p) : pub.scope # "PROCESS"} IN
       dwork' = [dwork EXCEPT ![p] =
                    Work("send", {About("ADVERTISE", pub) : pub \in again})]
    /\ turn' = [turn EXCEPT ![p] = "expire"]
    /\ UNCHANGED <<status, known, seen, awork, ops, silences, exits>>

\* Mutant: a process that expires leaves its publishers behind.
ExpireKeepsPublishers(p, quiet) ==
    /\ Reached(p, {"beat", "expire"})
    /\ quiet # {} /\ quiet \subseteq seen[p]
    /\ silences' = silences + Cardinality({q \in quiet : status[q] = "on"})
    /\ silences' <= MaxSilence /\ faults + silences' <= MaxTrouble
    /\ seen' = [seen EXCEPT ![p] = @ \ quiet]
    /\ dwork' = [dwork EXCEPT ![p] = Work("gone", quiet)]
    /\ turn' = [turn EXCEPT ![p] = "poll"]
    /\ UNCHANGED <<status, known, inbox, delayed, awork, ops, faults, exits>>

\* updateActivity: the peers in quiet were silent for the silence interval.
\* A process that runs is silent only if its datagrams failed to come.
Expire(p, quiet) ==
    /\ Reached(p, {"beat", "expire"})
    /\ quiet # {} /\ quiet \subseteq seen[p]
    /\ silences' = silences + Cardinality({q \in quiet : status[q] = "on"})
    /\ silences' <= MaxSilence /\ faults + silences' <= MaxTrouble
    /\ known' = [known EXCEPT ![p] = DelPublishersByProc(@, quiet)]
    /\ seen' = [seen EXCEPT ![p] = @ \ quiet]
    /\ dwork' = [dwork EXCEPT ![p] = Work("gone", quiet)]
    /\ turn' = [turn EXCEPT ![p] = "poll"]
    /\ UNCHANGED <<status, inbox, delayed, awork, ops, faults, exits>>

DiscSend(p, m) ==
    /\ status[p] = "on" /\ Doing(dwork[p], "send", m)
    /\ Multicast(p, m)
    /\ dwork' = [dwork EXCEPT ![p] = Done(@, m)]
    /\ UNCHANGED <<status, known, seen, turn, awork, ops, silences, exits>>

\* The discovery thread runs a callback of the runtime.
DiscCall(p, cb, x) ==
    /\ status[p] = "on" /\ Doing(dwork[p], cb, x)
    /\ dwork' = [dwork EXCEPT ![p] = Done(@, x)]
    /\ UNCHANGED <<status, known, seen, inbox, delayed, turn, awork, budgets>>

-----------------------------------------------------------------------------
(* Processes come and go.                                                  *)

Start(p) ==
    /\ status[p] = "off"
    /\ status' = [status EXCEPT ![p] = "on"]
    /\ UNCHANGED <<known, seen, inbox, delayed, turn, dwork, awork, budgets>>

\* A process loses its memory; nobody reads its socket any more.
Vanish(p) ==
    /\ exits < MaxExits
    /\ exits' = exits + 1
    /\ status' = [status EXCEPT ![p] = "gone"]
    /\ known' = [known EXCEPT ![p] = {}]
    /\ seen' = [seen EXCEPT ![p] = {}]
    /\ dwork' = [dwork EXCEPT ![p] = << >>]
    /\ awork' = [awork EXCEPT ![p] = [n \in Nodes |-> << >>]]
    /\ UNCHANGED <<turn, ops, silences>>

\* stop joins the discovery thread, then the destructor sends BYE.
Exit(p) ==
    /\ DiscIdle(p)
    /\ \A n \in Nodes : awork[p][n] = << >>
    /\ Multicast(p, Plain("BYE", p))
    /\ Vanish(p)

Crash(p) ==
    /\ status[p] = "on"
    /\ Vanish(p)
    /\ UNCHANGED <<inbox, delayed, faults>>

-----------------------------------------------------------------------------
Callbacks == {"connect", "disconnect", "register", "unregister", "gone"}

\* What the discovery thread does without the runtime's help.
DiscThread(p) ==
    \/ Receive(p)
    \/ Beat(p)
    \/ \E quiet \in SUBSET seen[p] : Expire(p, quiet)
    \/ \E m \in Pending(dwork[p]) : DiscSend(p, m)

\* The callbacks it runs, here without effect.
DiscCallback(p) ==
    \E x \in Pending(dwork[p]) :
        \E cb \in Callbacks : DiscCall(p, cb, x)

AppThread(p, n) ==
    \/ \E t \in Topics :
          \/ \E scope \in Offered : Advertise(p, n, t, scope)
          \/ Discover(p, n, t)
    \/ \E pub \in known[p] : Unadvertise(p, n, pub)

AppWork(p, n) ==
    \E x \in Pending(awork[p][n]) :
        \/ AppSend(p, n, x)
        \/ AppLookup(p, n, x)
        \/ AppConnect(p, n, x)

Environment ==
    \/ \E d \in delayed : Arrive(d)
    \/ \E p \in Procs : Start(p) \/ Exit(p) \/ Crash(p)

Next ==
    \/ \E p \in Procs : DiscThread(p) \/ DiscCallback(p)
    \/ \E p \in Procs, n \in Nodes : AppThread(p, n) \/ AppWork(p, n)
    \/ Environment

Spec == Init /\ [][Next]_discVars

\* Threads keep running: work that was started is finished, datagrams are
\* taken off the socket and those the network holds arrive.  The heartbeat
\* timer and the expiry of a process that is gone come due again and again,
\* and the loop looks at both in every round.
Fairness ==
    /\ \A p \in Procs :
          /\ WF_discVars(Receive(p))
          /\ WF_discVars(DiscCallback(p) \/ \E m \in Pending(dwork[p]) : DiscSend(p, m))
          /\ \A n \in Nodes : WF_discVars(AppWork(p, n))
          /\ SF_discVars(Beat(p))
          /\ SF_discVars(Expire(p, {q \in seen[p] : status[q] = "gone"}))
    /\ WF_discVars(\E d \in delayed : Arrive(d))

LiveSpec == Spec /\ Fairness

-----------------------------------------------------------------------------
Entry   == [topic : Topics, proc : Procs, node : Nodes]
Message == [type : {"HEARTBEAT", "BYE"}, from : Procs]
     \union [type : {"SUBSCRIBE"}, from : Procs, topic : Topics]
     \union {About(type, pub) : type \in {"ADVERTISE", "UNADVERTISE"}, pub \in Publisher}
     \union {Registration(type, e, q) : type \in {"NEW_CONNECTION", "END_CONNECTION"},
                                        e \in Entry, q \in Procs}
WorkItem == [op : {"send", "register", "unregister"}, args : SUBSET Message]
      \union [op : {"connect", "disconnect"}, args : SUBSET Publisher]
      \union [op : {"lookup", "leave"}, args : SUBSET Topics]  \* leave: MessageRuntime
      \union [op : {"gone"}, args : SUBSET Procs]

TypeOK ==
    /\ status \in [Procs -> {"off", "on", "gone"}]
    /\ known \in [Procs -> SUBSET Publisher]
    /\ seen \in [Procs -> SUBSET Procs]
    /\ inbox \in [Procs -> Seq(Message)]
    /\ delayed \in SUBSET [to : Procs, msg : Message]
    /\ turn \in [Procs -> {"poll", "beat", "expire"}]
    /\ dwork \in [Procs -> Seq(WorkItem)]
    /\ awork \in [Procs -> [Nodes -> Seq(WorkItem)]]
    /\ ops \in Nat /\ faults \in Nat /\ silences \in Nat /\ exits \in Nat

\* Every publisher a process knows belongs to a peer it will expire if that
\* peer falls silent, or to itself: an entry without an activity stamp would
\* stay for ever (dispatchDiscoveryMsg, updateActivity and BYE keep the two
\* tables in step).
KnownHasLease ==
    \A p \in Procs : \A pub \in known[p] : pub.proc \in seen[p] \union {p}

\* A process never expires itself, so its own publishers are not dropped by
\* its own silence.
NeverSeesItself == \A p \in Procs : p \notin seen[p]

\* PROCESS publishers never leave their process and HOST publishers never
\* reach another host, whichever of ADVERTISE, the answer to SUBSCRIBE or the
\* heartbeat carried them.
ScopeRespected ==
    \A p \in Procs : \A pub \in known[p] : pub.proc # p =>
        pub.scope = "ALL" \/ (pub.scope = "HOST" /\ HostOf[pub.proc] = HostOf[p])

\* The publishers a process owns change only by its own API calls (or when it
\* is gone): no datagram, delayed, duplicated or out of order, and no expiry
\* adds or removes one.
OwnOnlyByApi ==
    [][\A p \in Procs :
          Own(p)' # Own(p) => ops' = ops + 1 \/ status'[p] = "gone"]_discVars

\* What keeps these three: a process is never sent its own datagrams, and
\* sends none in the name of another.
MessagesTo(p) == {m \in Message : m.from # p}
ItemsOf(p) == {item \in WorkItem : item.op = "send" => \A m \in item.args : m.from = p}

Traffic ==
    /\ \A p \in Procs : /\ inbox[p] \in Seq(MessagesTo(p))
                        /\ dwork[p] \in Seq(ItemsOf(p))
                        /\ \A n \in Nodes : awork[p][n] \in Seq(ItemsOf(p))
    /\ \A d \in delayed : d.msg.from # d.to

IInv == TypeOK /\ Traffic /\ KnownHasLease /\ NeverSeesItself /\ ScopeRespected

\* Who may offer publishers to others, and which.
Offerers  == {p \in Procs : \E n \in Nodes : <<p, n>> \in Advertising}
Offers(p) == [topic : Topics, proc : {p}, node : {n \in Nodes : <<p, n>> \in Advertising},
              scope : Offered \ {"PROCESS"}]

\* A publisher that a running process keeps offering becomes known to every
\* running process in its scope, though ADVERTISE, SUBSCRIBE or heartbeats
\* are lost: the heartbeat advertises it again (architecture.md:254).
OfferedBecomesKnown ==
    \A p \in Offerers : \A q \in Procs \ {p} : \A pub \in Offers(p) :
        InScope(pub, p, q) =>
            []<>(Contains(known[q], pub) \/ pub \notin Own(p) \/ status[q] # "on")

\* The publishers of a process that is gone are forgotten for good, by BYE or
\* by silence, even if one of its datagrams arrives late.
GoneIsForgotten ==
    \A p \in Offerers : \A q \in Procs \ {p} :
        []<>(status[p] = "gone") =>
            <>[](status[q] # "on" \/ GetPublishersByProc(known[q], p) = {})

\* A publisher that its process withdrew, and does not offer again, is in the
\* end forgotten by its peers (discovery-mechanism.md:83, 113).
WithdrawnIsForgotten ==
    \A p \in Procs : \A q \in Procs \ {p} : \A pub \in Offers(p) :
        <>[](status[p] = "on" /\ status[q] = "on" /\ pub \notin known[p])
            => []<>(pub \notin known[q])
=============================================================================
