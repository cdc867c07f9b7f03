--------------------------- MODULE MessageRuntime ---------------------------
(***************************************************************************)
(* The control plane of publish and subscribe: MessageRuntime of           *)
(* message_runtime.cc on top of Discovery.  Application threads add and     *)
(* remove handlers, the discovery thread (and subscribing threads) call    *)
(* back, and the receive thread, the only one to touch the SUB socket,     *)
(* applies the commands they leave it.  A publisher sends a topic to the   *)
(* network only while remote_subscribers_ has an entry for it.             *)
(*                                                                         *)
(* A callback is one step: it reads the handlers under their own lock, but *)
(* what it enqueues is checked again when it is applied.                   *)
(***************************************************************************)
EXTENDS Discovery

VARIABLES handlers,     \* local_subscribers_: topics and nodes with a handler
          remotePubs,   \* remote_publishers_
          remoteSubs,   \* remote_subscribers_
          commands,     \* subscriber_commands_, with the batch being applied
          registering,  \* what the receive thread still has to register
          connected,    \* processes the SUB socket was connected to
          filter        \* how often the SUB socket has each topic filter

runtimeVars == <<handlers, remotePubs, remoteSubs, commands, registering,
                 connected, filter>>
vars == <<discVars, runtimeVars>>

RuntimeInit ==
    /\ Init
    /\ handlers = [p \in Procs |-> {}]
    /\ remotePubs = [p \in Procs |-> {}]
    /\ remoteSubs = [p \in Procs |-> {}]
    /\ commands = [p \in Procs |-> << >>]
    /\ registering = [p \in Procs |-> {}]
    /\ connected = [p \in Procs |-> {}]
    /\ filter = [p \in Procs |-> [t \in Topics |-> 0]]

Handler(t, n)       == [topic |-> t, node |-> n]
NodesWith(p, t)     == {n \in Nodes : Handler(t, n) \in handlers[p]}
HasSubscriber(p, t) == NodesWith(p, t) # {}

\* An entry of remote_subscribers_: a node of a process subscribes to a topic.
Subscriber(t, p, n) == [topic |-> t, proc |-> p, node |-> n]

-----------------------------------------------------------------------------
(* Callbacks of Discovery.                                                 *)

Command(type, value, nodes) == [type |-> type, value |-> value, nodes |-> nodes]

\* onPublisherConnected.  The address of a publisher stands for its process;
\* what a Subscribe command registers is a node here and the process of pub
\* there.
OnPublisherConnected(p, pub) ==
    IF HasSubscriber(p, pub.topic) /\ pub.proc # p
    THEN /\ commands' = [commands EXCEPT ![p] =
                @ \o (IF HasPublisher(remotePubs[p], pub.proc) THEN << >>
                      ELSE <<Command("Connect", pub.proc, {})>>)
                  \o <<Command("Subscribe", pub, NodesWith(p, pub.topic))>>]
         /\ remotePubs' = [remotePubs EXCEPT ![p] = AddPublisher(@, pub)]
         /\ UNCHANGED <<handlers, remoteSubs, registering, connected, filter>>
    ELSE UNCHANGED runtimeVars

\* onPublisherDisconnected, of one publisher or of a whole process.
OnPublisherDisconnected(p, pub) ==
    /\ remotePubs' = [remotePubs EXCEPT ![p] = DelPublishersByNode(@, pub)]
    /\ UNCHANGED <<handlers, remoteSubs, commands, registering, connected, filter>>

\* Mutant: only the publishers of the process are dropped.
OnProcessGoneKeepsSubs(p, q) ==
    /\ remotePubs' = [remotePubs EXCEPT ![p] = DelPublishersByProc(@, {q})]
    /\ UNCHANGED <<handlers, remoteSubs, commands, registering, connected, filter>>

OnProcessGone(p, q) ==
    /\ remoteSubs' = [remoteSubs EXCEPT ![p] = DelPublishersByProc(@, {q})]
    /\ remotePubs' = [remotePubs EXCEPT ![p] = DelPublishersByProc(@, {q})]
    /\ UNCHANGED <<handlers, commands, registering, connected, filter>>

\* Mutant: ctrl is compared with the wrong process.
OnSubscriberRegisteredAstray(p, m) ==
    IF m.ctrl = m.pub.proc
    THEN /\ remoteSubs' = [remoteSubs EXCEPT ![p] = AddPublisher(@, m.pub)]
         /\ UNCHANGED <<handlers, remotePubs, commands, registering, connected, filter>>
    ELSE UNCHANGED runtimeVars

\* onSubscriberRegistered and onSubscriberUnregistered: the datagram is for
\* the process that ctrl names.
OnSubscriberRegistered(p, m) ==
    IF m.ctrl = p
    THEN /\ remoteSubs' = [remoteSubs EXCEPT ![p] = AddPublisher(@, m.pub)]
         /\ UNCHANGED <<handlers, remotePubs, commands, registering, connected, filter>>
    ELSE UNCHANGED runtimeVars

OnSubscriberUnregistered(p, m) ==
    IF m.ctrl = p
    THEN /\ remoteSubs' = [remoteSubs EXCEPT ![p] = DelPublishersByNode(@, m.pub)]
         /\ UNCHANGED <<handlers, remotePubs, commands, registering, connected, filter>>
    ELSE UNCHANGED runtimeVars

\* The discovery thread calls back.
RuntimeCallback(p) ==
    \E x \in Pending(dwork[p]) :
        \/ DiscCall(p, "connect", x) /\ OnPublisherConnected(p, x)
        \/ DiscCall(p, "disconnect", x) /\ OnPublisherDisconnected(p, x)
        \/ DiscCall(p, "gone", x) /\ OnProcessGone(p, x)
        \/ DiscCall(p, "register", x) /\ OnSubscriberRegistered(p, x)
        \/ DiscCall(p, "unregister", x) /\ OnSubscriberUnregistered(p, x)

-----------------------------------------------------------------------------
(* Application threads.                                                    *)

\* Mutant: the node asks the network, but does not look up what its process
\* knows already.
SubscribeAsksOnly(p, n, t) ==
    /\ AppIdle(p, n) /\ <<p, n>> \in Subscribing
    /\ AppStarts(p, n, Work("send", {Query(p, t)}))
    /\ handlers' = [handlers EXCEPT ![p] = @ \union {Handler(t, n)}]
    /\ UNCHANGED <<known, remotePubs, remoteSubs, commands, registering, connected, filter>>

\* addHandler, then discover.
Subscribe(p, n, t) ==
    /\ Discover(p, n, t)
    /\ handlers' = [handlers EXCEPT ![p] = @ \union {Handler(t, n)}]
    /\ UNCHANGED <<remotePubs, remoteSubs, commands, registering, connected, filter>>

\* Mutant: the publishers are told, but the handlers stay.
UnsubscribeKeepsHandler(p, n, t) ==
    /\ AppIdle(p, n)
    /\ Handler(t, n) \in handlers[p]
    /\ AppStarts(p, n, Work("leave", {t}))
    /\ UNCHANGED <<known, runtimeVars>>

\* removeHandlersForNode, and a command when that was the last handler; the
\* publishers are looked up in a later step.
Unsubscribe(p, n, t) ==
    /\ AppIdle(p, n)
    /\ Handler(t, n) \in handlers[p]
    /\ handlers' = [handlers EXCEPT ![p] = @ \ {Handler(t, n)}]
    /\ commands' = [commands EXCEPT ![p] =
            IF NodesWith(p, t) = {n} THEN Append(@, Command("Unsubscribe", t, {})) ELSE @]
    /\ AppStarts(p, n, Work("leave", {t}))
    /\ UNCHANGED <<known, remotePubs, remoteSubs, registering, connected, filter>>

\* END_CONNECTION to each process that is known to publish the topic.
AppLeave(p, n, t) ==
    /\ status[p] = "on" /\ Doing(awork[p][n], "leave", t)
    /\ LET publishers == {pub.proc : pub \in GetPublishers(known[p], t)} IN
       awork' = [awork EXCEPT ![p][n] =
            Work("send", {Registration("END_CONNECTION", Subscriber(t, p, n), q) :
                             q \in publishers}) \o Done(@, t)]
    /\ UNCHANGED <<status, known, seen, inbox, delayed, turn, dwork, budgets>>

RuntimeApp(p, n) ==
    \/ \E t \in Topics :
          \/ \E scope \in Offered : Advertise(p, n, t, scope) /\ UNCHANGED runtimeVars
          \/ Subscribe(p, n, t)
          \/ Unsubscribe(p, n, t)
    \/ \E pub \in known[p] : Unadvertise(p, n, pub) /\ UNCHANGED runtimeVars

RuntimeAppWork(p, n) ==
    \E x \in Pending(awork[p][n]) :
        \/ (AppSend(p, n, x) \/ AppLookup(p, n, x) \/ AppLeave(p, n, x))
              /\ UNCHANGED runtimeVars
        \/ AppConnect(p, n, x) /\ OnPublisherConnected(p, x)

-----------------------------------------------------------------------------
(* The receive thread: applySubscriberCommands.  Taking the whole queue as *)
(* a batch does not change the order.                                      *)

Apply(p, type) ==
    /\ status[p] = "on" /\ registering[p] = {}
    /\ commands[p] # << >> /\ Head(commands[p]).type = type
    /\ commands' = [commands EXCEPT ![p] = Tail(@)]
    /\ UNCHANGED <<discVars, handlers, remotePubs, remoteSubs>>

ApplyConnect(p) ==
    /\ Apply(p, "Connect")
    /\ connected' = [connected EXCEPT ![p] = @ \union {Head(commands[p]).value}]
    /\ UNCHANGED <<registering, filter>>

\* Mutant: the publisher is told, but the filter is not set.
ApplySubscribeUnfiltered(p) ==
    /\ Apply(p, "Subscribe")
    /\ LET pub == Head(commands[p]).value IN
       registering' = [registering EXCEPT ![p] =
            {Registration("NEW_CONNECTION", Subscriber(pub.topic, p, n), pub.proc) :
                n \in Head(commands[p]).nodes}]
    /\ UNCHANGED <<connected, filter>>

\* The filter first, then the registrations, if there still is a handler.
ApplySubscribe(p) ==
    /\ Apply(p, "Subscribe")
    /\ LET pub == Head(commands[p]).value IN
       IF HasSubscriber(p, pub.topic)
       THEN /\ filter' = [filter EXCEPT ![p][pub.topic] = @ + 1]
            /\ registering' = [registering EXCEPT ![p] =
                    {Registration("NEW_CONNECTION", Subscriber(pub.topic, p, n), pub.proc) :
                        n \in Head(commands[p]).nodes}]
       ELSE UNCHANGED <<filter, registering>>
    /\ UNCHANGED connected

\* Mutant: a filter is taken back that was never given.
ApplyUnsubscribeBlindly(p) ==
    /\ Apply(p, "Unsubscribe")
    /\ LET t == Head(commands[p]).value IN
       filter' = [filter EXCEPT ![p][t] = @ - 1]
    /\ UNCHANGED <<registering, connected>>

\* A SUB socket takes back one of the filters it was given.
ApplyUnsubscribe(p) ==
    /\ Apply(p, "Unsubscribe")
    /\ LET t == Head(commands[p]).value IN
       IF ~HasSubscriber(p, t) /\ filter[p][t] > 0
       THEN filter' = [filter EXCEPT ![p][t] = @ - 1]
       ELSE UNCHANGED filter
    /\ UNCHANGED <<registering, connected>>

Register(p, m) ==
    /\ status[p] = "on"
    /\ Multicast(p, m)
    /\ registering' = [registering EXCEPT ![p] = @ \ {m}]
    /\ UNCHANGED <<status, known, seen, turn, dwork, awork, ops, silences, exits,
                   handlers, remotePubs, remoteSubs, commands, connected, filter>>

ReceiveThread(p) ==
    \/ ApplyConnect(p)
    \/ ApplySubscribe(p)
    \/ ApplyUnsubscribe(p)
    \/ \E m \in registering[p] : Register(p, m)

-----------------------------------------------------------------------------
\* A process that is gone leaves nothing behind.
Forget(p) ==
    /\ handlers' = [handlers EXCEPT ![p] = {}]
    /\ remotePubs' = [remotePubs EXCEPT ![p] = {}]
    /\ remoteSubs' = [remoteSubs EXCEPT ![p] = {}]
    /\ commands' = [commands EXCEPT ![p] = << >>]
    /\ registering' = [registering EXCEPT ![p] = {}]
    /\ connected' = [connected EXCEPT ![p] = {}]
    /\ filter' = [filter EXCEPT ![p] = [t \in Topics |-> 0]]

\* The receive thread is joined, its batch done, before the BYE.
RuntimeEnvironment ==
    \/ \E d \in delayed : Arrive(d) /\ UNCHANGED runtimeVars
    \/ \E p \in Procs :
          \/ Start(p) /\ UNCHANGED runtimeVars
          \/ Exit(p) /\ registering[p] = {} /\ Forget(p)
          \/ Crash(p) /\ Forget(p)

RuntimeNext ==
    \/ \E p \in Procs :
          \/ DiscThread(p) /\ UNCHANGED runtimeVars
          \/ RuntimeCallback(p)
          \/ ReceiveThread(p)
          \/ \E n \in Nodes : RuntimeApp(p, n) \/ RuntimeAppWork(p, n)
    \/ RuntimeEnvironment

RuntimeSpec == RuntimeInit /\ [][RuntimeNext]_vars

\* As in Discovery, with the callbacks of the runtime; the receive thread
\* returns to its commands every 250 ms.
RuntimeFairness ==
    /\ \A p \in Procs :
          /\ SF_vars(Receive(p) /\ UNCHANGED runtimeVars)
          /\ WF_vars(RuntimeCallback(p))
          /\ WF_vars(\E m \in Pending(dwork[p]) : DiscSend(p, m) /\ UNCHANGED runtimeVars)
          /\ WF_vars(ReceiveThread(p))
          /\ \A n \in Nodes : WF_vars(RuntimeAppWork(p, n))
          /\ SF_vars(Beat(p) /\ UNCHANGED runtimeVars)
    /\ WF_vars(\E d \in delayed : Arrive(d) /\ UNCHANGED runtimeVars)

LiveRuntime == RuntimeSpec /\ RuntimeFairness

-----------------------------------------------------------------------------
Commands == [type : {"Connect"}, value : Procs, nodes : {{}}]
      \union [type : {"Subscribe"}, value : Publisher, nodes : SUBSET Nodes]
      \union [type : {"Unsubscribe"}, value : Topics, nodes : {{}}]

RuntimeTypeOK ==
    /\ handlers \in [Procs -> SUBSET [topic : Topics, node : Nodes]]
    /\ remotePubs \in [Procs -> SUBSET Publisher]
    /\ remoteSubs \in [Procs -> SUBSET Entry]
    /\ commands \in [Procs -> Seq(Commands)]
    /\ registering \in [Procs -> SUBSET Message]
    /\ connected \in [Procs -> SUBSET Procs]
    /\ filter \in [Procs -> [Topics -> Nat]]

\* Work of process p, in any of its threads, that has yet to look up topic t
\* or to call back about pub.
WorkOn(queue, op, x) == \E i \in 1 .. Len(queue) : queue[i].op = op /\ x \in queue[i].args
StillConnecting(p, pub) ==
    \/ WorkOn(dwork[p], "connect", pub)
    \/ \E n \in Nodes : \/ WorkOn(awork[p][n], "connect", pub)
                        \/ WorkOn(awork[p][n], "lookup", pub.topic)

Queued(p, type, value) ==
    \E i \in 1 .. Len(commands[p]) : commands[p][i].type = type /\ commands[p][i].value = value

\* A subscriber never misses a publisher: whichever comes first, the handler
\* or the advertisement, a process that knows a publisher of a topic it has a
\* handler for is connected to it with the filter set, or one of its threads
\* still has that to do.  subscribe adds the handler before it looks up, and
\* the discovery thread adds the publisher before it calls back.
NoMissedPublisher ==
    \A p \in Procs : \A pub \in known[p] :
        (pub.proc # p /\ HasSubscriber(p, pub.topic) /\ ~StillConnecting(p, pub))
            => /\ pub.proc \in connected[p] \/ Queued(p, "Connect", pub.proc)
               /\ filter[p][pub.topic] > 0 \/ Queued(p, "Subscribe", pub)

\* A remote subscriber belongs to a process the publisher would expire if it
\* fell silent, so publishing to dead subscribers ends (or its disconnection
\* callback is under way).
SubscribersHaveLease ==
    \A p \in Procs : \A s \in remoteSubs[p] :
        s.proc \in seen[p] \/ WorkOn(dwork[p], "gone", s.proc)

Registers(s, q)   == Registration("NEW_CONNECTION", s, q)
Unregisters(s, q) == Registration("END_CONNECTION", s, q)

\* Subscriber s is registered at process q or will be: its command or datagram
\* is on its way, and no END_CONNECTION of an earlier subscription of s comes
\* after the last one that registers it.
Commanded(s, q) ==
    \E i \in 1 .. Len(commands[s.proc]) :
        LET c == commands[s.proc][i] IN
        c.type = "Subscribe" /\ c.value.topic = s.topic /\ c.value.proc = q /\ s.node \in c.nodes
LastWord(s, q) ==
    \E i \in 1 .. Len(inbox[q]) :
        /\ inbox[q][i] = Registers(s, q)
        /\ \A j \in 1 .. Len(inbox[q]) : j > i => inbox[q][j] # Unregisters(s, q)
Entered(s, q) ==
    /\ s \in remoteSubs[q] \/ WorkOn(dwork[q], "register", Registers(s, q))
    /\ ~WorkOn(dwork[q], "unregister", Unregisters(s, q))
    /\ \A j \in 1 .. Len(inbox[q]) : inbox[q][j] # Unregisters(s, q)
Registered(s, q) ==
    \/ Commanded(s, q) \/ Registers(s, q) \in registering[s.proc]
    \/ LastWord(s, q)
    \/ Entered(s, q)

\* p knows pub, has a handler of node n for its topic and is done connecting it.
Due(p, pub, n) ==
    /\ pub \in known[p] /\ pub.proc # p
    /\ n \in NodesWith(p, pub.topic) /\ ~StillConnecting(p, pub)

\* As long as no datagram is lost or late and nobody is taken for dead, a
\* subscriber that knows a publisher is registered there or will be: no order
\* of subscribing, unsubscribing, advertising, starting and stopping loses it.
Undisturbed == faults = 0 /\ silences = 0
RegistrationConserved ==
    Undisturbed =>
        \A p \in Procs : \A pub \in known[p] : \A n \in Nodes :
            (Due(p, pub, n) /\ status[pub.proc] = "on")
                => Registered(Subscriber(pub.topic, p, n), pub.proc)

Roles == {r \in Advertising \X Subscribing \X Topics : r[1][1] # r[2][1]}
Together(p, q) == status[p] = "on" /\ status[q] = "on"
Subscribed(r) == Handler(r[3], r[2][2]) \in handlers[r[2][1]]
Listed(r) == Subscriber(r[3], r[2][1], r[2][2]) \in remoteSubs[r[1][1]]
OffersTo(r) == \E pub \in known[r[1][1]] : /\ pub.proc = r[1][1] /\ pub.topic = r[3]
                                           /\ InScope(pub, r[1][1], r[2][1])

\* A node that stays subscribed to a topic a peer keeps offering is, from some
\* time on, registered there, so that the peer sends to it (architecture.md:254:
\* after an expiry the advertisements establish the connection again).
Reconnects ==
    \A r \in Roles :
        <>[](Together(r[1][1], r[2][1]) /\ Subscribed(r) /\ OffersTo(r)) => <>[]Listed(r)

\* A node that unsubscribed and stays so is in the end no longer registered at
\* a publisher that runs on (discovery-mechanism.md:111).
UnsubscribedIsUnlisted ==
    \A r \in Roles :
        <>[](Together(r[1][1], r[2][1]) /\ ~Subscribed(r)) => []<>(~Listed(r))

-----------------------------------------------------------------------------
(* What keeps the invariants.                                              *)

\* The receive thread registers subscribers of its own process.
RegistersOwn == \A p \in Procs : \A m \in registering[p] : m.from = p

\* Between a registration and its callback the subscriber keeps its lease: the
\* discovery thread does both, and drops leases only when its queue is empty.
RegistersSeen ==
    \A p \in Procs : \A i \in 1 .. Len(dwork[p]) :
        dwork[p][i].op = "register" =>
            \A m \in dwork[p][i].args :
                m.pub \in Entry /\ m.pub.proc = m.from /\ m.from \in seen[p]

\* A Connect command is enqueued before the first publisher of a process enters
\* remote_publishers_, and no connection is ever taken back.
PublishersConnected ==
    \A p, q \in Procs :
        HasPublisher(remotePubs[p], q) => q \in connected[p] \/ Queued(p, "Connect", q)

RuntimeInv == /\ IInv /\ RuntimeTypeOK
              /\ RegistersOwn /\ RegistersSeen /\ PublishersConnected
              /\ SubscribersHaveLease /\ NoMissedPublisher

\* What keeps RegistrationConserved.  Who is known or heard of was started, and
\* a process that is not running knows nobody.
Started ==
    \A p \in Procs :
        /\ status[p] # "on" => known[p] = {}
        /\ \A pub \in known[p] : status[pub.proc] # "off"
        /\ \A q \in seen[p] : status[q] # "off"
        /\ \A i \in 1 .. Len(inbox[p]) : status[inbox[p][i].from] # "off"

\* Only processes that are gone say BYE or are dropped.
Farewells ==
    \A p \in Procs :
        /\ \A i \in 1 .. Len(inbox[p]) :
              inbox[p][i].type = "BYE" => status[inbox[p][i].from] = "gone"
        /\ \A q \in Procs : WorkOn(dwork[p], "gone", q) => status[q] = "gone"

\* What the thread of node n has to send, its process having these handlers.
Sends(queue, n, subscribed) ==
    /\ \A m \in Message : WorkOn(queue, "send", m) =>
          /\ m.type \in {"ADVERTISE", "UNADVERTISE", "SUBSCRIBE", "END_CONNECTION"}
          /\ m.type = "END_CONNECTION" =>
                m.pub.node = n /\ Handler(m.pub.topic, n) \notin subscribed
    /\ \A t \in Topics : WorkOn(queue, "leave", t) => Handler(t, n) \notin subscribed

\* END_CONNECTION comes from the thread of the node that unsubscribed, which
\* cannot subscribe again before it is sent.
Sending ==
    \A p \in Procs :
        /\ \A m \in Message : WorkOn(dwork[p], "send", m) => m.type = "ADVERTISE"
        /\ \A m \in Message : WorkOn(dwork[p], "unregister", m) => m.type = "END_CONNECTION"
        /\ \A m \in registering[p] : m.type = "NEW_CONNECTION"
        /\ \A n \in Nodes : Sends(awork[p][n], n, handlers[p])

ReliableInv ==
    Undisturbed => delayed = {} /\ Started /\ Farewells /\ Sending /\ RegistrationConserved
=============================================================================
