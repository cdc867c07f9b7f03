--------------------------- MODULE ServiceRuntime ---------------------------
(***************************************************************************)
(* Service requests: Node::request and ServiceRuntime of                   *)
(* service_runtime.cc.  Every process has a requester socket, a replier    *)
(* socket, a receive thread that moves what arrives into two queues, and   *)
(* one handle thread that takes both queues as a batch and runs service    *)
(* callbacks and answers in it.  Requests are issued by application        *)
(* threads, or by a service callback, that is by a handle thread.          *)
(*                                                                         *)
(* Discovery is seen from here: services become known and are forgotten.   *)
(* A critical section of mutex_ is one step.  A message is in one place at *)
(* a time; order within a queue is not kept, except that the requests of   *)
(* a batch come before its responses.                                      *)
(***************************************************************************)
EXTENDS Naturals, Sequences, FiniteSets

CONSTANTS Procs,     \* process uuids
          Services,  \* bound: what is ever advertised, records with the
                     \* fields topic, type, proc and node
          Standing,  \* those every process knows already, and is connected to
          Requests,  \* bound: the requests ever made, by handler uuid
          Callers,   \* bound: the processes each request may be made in
          Want,      \* the topic and type it is made for
          Nested,    \* those a service callback makes and waits for
          MaxFaults  \* bound: services withdrawn, connections broken, leases
                     \* lost, late datagrams and processes stopped, together

ASSUME RequestsAssumption == /\ IsFiniteSet(Services)
                             /\ \A s \in Services : s.proc \in Procs
                             /\ Standing \subseteq Services
                             /\ Callers \in [Requests -> SUBSET Procs]
                             /\ Nested \subseteq Requests
ASSUME MaxFaultsAssumption == MaxFaults \in Nat

VARIABLES caller,      \* the process each request is made in, chosen once
          up,          \* processes that run
          offer,       \* how far the advertisement of each service is
          known,       \* services in the discovery table of each process
          work,        \* connection callbacks a process has yet to run
          connections, \* requester_connections_
          link,        \* state of the connection from requester to replier
          route,       \* routing id the replier knows that requester by
          pc,          \* where the thread making each request is
          picked,      \* the responder its sendPendingRequests looked up
          waits,       \* requests made with a timeout; the rest have a callback
          handlers,    \* request_handlers_ of all processes
          sent,        \* those with requested_ set, and where they went
          unsent,      \* those for which sending failed once
          msgs,        \* requests and responses on their way or handled
          runs,        \* results of the service callbacks run for a request
          result,      \* rep_ and result_ of a handler
          available,   \* rep_available_
          outcome,     \* what the requester was told
          faults       \* of those MaxFaults bounds, how many there were

netVars  == <<caller, up, offer, known, work, connections, link, route, faults>>
callVars == <<pc, picked, waits, handlers, sent, unsent>>
ansVars  == <<runs, result, available, outcome>>
vars     == <<netVars, callVars, msgs, ansVars>>

Results == {"ok", "failed"}

Init ==
    /\ caller \in {f \in [Requests -> Procs] : \A r \in Requests : f[r] \in Callers[r]}
    /\ up = Procs
    /\ offer = [s \in Services |-> IF s \in Standing THEN "on" ELSE "off"]
    /\ known = [p \in Procs |-> Standing]
    /\ work = [p \in Procs |-> {}]
    /\ connections = [p \in Procs |-> {s.proc : s \in Standing}]
    /\ link = [p \in Procs |-> [q \in Procs |->
                  IF q \in connections[p] THEN "up" ELSE "none"]]
    /\ route = [p \in Procs |-> [q \in Procs |-> 0]]
    /\ pc = [r \in Requests |-> "idle"]
    /\ picked = {} /\ waits = {} /\ handlers = {} /\ sent = {} /\ unsent = {}
    /\ msgs = {}
    /\ runs = [r \in Requests |-> << >>]
    /\ result = [r \in Requests |-> "none"]
    /\ available = {}
    /\ outcome = [r \in Requests |-> "none"]
    /\ faults = 0

Matches(s, k)    == s.topic = k.topic /\ s.type = k.type
Responders(p, k) == {s \in known[p] : Matches(s, k)}
Serving(q, k)    == {s \in Services : s.proc = q /\ Matches(s, k) /\ offer[s] \in {"adding", "on"}}

Requested     == {x.req : x \in sent}
Pending(p, k) == {r \in handlers \ Requested : caller[r] = p /\ Matches(Want[r], k)}

\* A message: the frames that matter, and where it is.
RequestMsg(r, q)  == [kind |-> "request", req |-> r, server |-> q, at |-> "wire",
                      route |-> route[caller[r]][q], res |-> "none"]
Moved(m, place)   == (msgs \ {m}) \union {[m EXCEPT !.at = place]}
Holder(m)         == IF m.kind = "request" THEN m.server ELSE caller[m.req]

-----------------------------------------------------------------------------
(* Advertising a service: the handler first, then discovery.               *)

AddService(s) ==
    /\ s.proc \in up /\ offer[s] = "off"
    /\ offer' = [offer EXCEPT ![s] = "adding"]
    /\ UNCHANGED <<caller, up, known, work, connections, link, route, faults>>
    /\ UNCHANGED <<callVars, msgs, ansVars>>

AnnounceService(s) ==
    /\ s.proc \in up /\ offer[s] = "adding"
    /\ offer' = [offer EXCEPT ![s] = "on"]
    /\ known' = [known EXCEPT ![s.proc] = @ \union {s}]
    /\ work' = [work EXCEPT ![s.proc] = @ \union {s}]
    /\ UNCHANGED <<caller, up, connections, link, route, faults>>
    /\ UNCHANGED <<callVars, msgs, ansVars>>

RemoveService(s) ==
    /\ s.proc \in up /\ offer[s] = "on"
    /\ faults < MaxFaults /\ faults' = faults + 1
    /\ offer' = [offer EXCEPT ![s] = "removing"]
    /\ UNCHANGED <<caller, up, known, work, connections, link, route>>
    /\ UNCHANGED <<callVars, msgs, ansVars>>

WithdrawService(s) ==
    /\ s.proc \in up /\ offer[s] = "removing"
    /\ offer' = [offer EXCEPT ![s] = "withdrawn"]
    /\ known' = [known EXCEPT ![s.proc] = @ \ {s}]
    /\ UNCHANGED <<caller, up, work, connections, link, route, faults>>
    /\ UNCHANGED <<callVars, msgs, ansVars>>

-----------------------------------------------------------------------------
(* Discovery, in another process, and its callbacks.                       *)

\* ADVERTISE arrives; a late one may tell of a service withdrawn since.
Learn(p, s) ==
    /\ p \in up \ {s.proc} /\ s \notin known[p]
    /\ offer[s] \notin {"off", "adding"}
    /\ faults' = IF offer[s] = "withdrawn" \/ s.proc \notin up THEN faults + 1 ELSE faults
    /\ faults' <= MaxFaults
    /\ known' = [known EXCEPT ![p] = @ \union {s}]
    /\ work' = [work EXCEPT ![p] = @ \union {s}]
    /\ UNCHANGED <<caller, up, offer, connections, link, route>>
    /\ UNCHANGED <<callVars, msgs, ansVars>>

\* UNADVERTISE arrives: onServiceDisconnected forgets the address, which
\* other services of the process may share.
Unlearn(p, s) ==
    /\ p \in up \ {s.proc} /\ s \in known[p] /\ offer[s] = "withdrawn"
    /\ known' = [known EXCEPT ![p] = @ \ {s}]
    /\ connections' = [connections EXCEPT ![p] = @ \ {s.proc}]
    /\ UNCHANGED <<caller, up, offer, work, link, route, faults>>
    /\ UNCHANGED <<callVars, msgs, ansVars>>

\* A process is gone, or taken for it: the publisher onServiceDisconnected is
\* given then has no address, and nothing is erased.
Expire(p, q) ==
    /\ p \in up \ {q} /\ \E s \in known[p] : s.proc = q
    /\ faults' = IF q \in up THEN faults + 1 ELSE faults
    /\ faults' <= MaxFaults
    /\ known' = [known EXCEPT ![p] = {s \in @ : s.proc # q}]
    /\ UNCHANGED <<caller, up, offer, work, connections, link, route>>
    /\ UNCHANGED <<callVars, msgs, ansVars>>

-----------------------------------------------------------------------------
(* Connecting and sending, under mutex_.                                   *)

\* The requester connects to those of the processes it has not connected to
\* yet, and sleeps for 100 ms: by then the connection may stand.
Dialled(p, q) ==
    IF q \in connections[p] \/ link[p][q] = "up" THEN {link[p][q]}
    ELSE {"dialing"} \union (IF q \in up THEN {"up"} ELSE {})

Dial(p, peers) ==
    /\ connections' = [connections EXCEPT ![p] = @ \union peers]
    /\ \E state \in [peers -> {"none", "dialing", "up"}] :
          /\ \A q \in peers : state[q] \in Dialled(p, q)
          /\ link' = [link EXCEPT ![p] = [q \in Procs |->
                         IF q \in peers THEN state[q] ELSE @[q]]]

\* The rest of sendPendingRequests: the responder gets every request of the
\* topic and types that was not sent before.  The socket refuses a peer it is
\* not connected to (EHOSTUNREACH): the request stays, marked here as unsent.
\* Mutant: hasRequested is not asked.
SendPendingAgain(p, q, k) ==
    LET due == {r \in handlers : caller[r] = p /\ Matches(Want[r], k)} IN
    IF link'[p][q] = "up"
    THEN /\ sent' = sent \union [req : due, to : {q}]
         /\ msgs' = msgs \union {RequestMsg(r, q) : r \in due}
         /\ UNCHANGED unsent
    ELSE /\ unsent' = unsent \union due
         /\ UNCHANGED <<sent, msgs>>

SendPending(p, q, k) ==
    LET due == Pending(p, k) IN
    IF link'[p][q] = "up"
    THEN /\ sent' = sent \union [req : due, to : {q}]
         /\ msgs' = msgs \union {RequestMsg(r, q) : r \in due}
         /\ UNCHANGED unsent
    ELSE /\ unsent' = unsent \union due
         /\ UNCHANGED <<sent, msgs>>

\* The callback of discovery for a new service; it holds mutex_ throughout.
\* Mutant: a new responder is connected to, but the requests that wait for
\* one are left alone.
OnServiceConnectedOnly(p, s) ==
    /\ p \in up /\ s \in work[p]
    /\ work' = [work EXCEPT ![p] = @ \ {s}]
    /\ Dial(p, {s.proc})
    /\ UNCHANGED <<caller, up, offer, known, route, faults>>
    /\ UNCHANGED <<callVars, msgs, ansVars>>

OnServiceConnected(p, s) ==
    /\ p \in up /\ s \in work[p]
    /\ work' = [work EXCEPT ![p] = @ \ {s}]
    /\ \/ /\ \/ Responders(p, s) = {}
             \/ \A r \in handlers : caller[r] = p => ~Matches(Want[r], s)
          /\ Dial(p, {s.proc})
          /\ UNCHANGED <<sent, unsent, msgs>>
       \/ \E x \in Responders(p, s) :
             /\ \E r \in handlers : caller[r] = p /\ Matches(Want[r], s)
             /\ Dial(p, {s.proc, x.proc})
             /\ SendPending(p, x.proc, s)
    /\ UNCHANGED <<caller, up, offer, known, route, faults>>
    /\ UNCHANGED <<pc, picked, waits, handlers, ansVars>>

-----------------------------------------------------------------------------
(* Node::request and ServiceRuntime::request.                              *)

Active(r) == pc[r] \notin {"idle", "returned"}

\* The handle thread of p is in a callback, of a service or of a request; it
\* waits there for a request of its own.
InCallback(p) ==
    \E m \in msgs : /\ Holder(m) = p
                    /\ m.at = "calling" \/ (m.at = "noted" /\ m.req \notin waits)
Waiting(p)    == \E r \in Nested : caller[r] = p /\ Active(r)

MayRequest(r) ==
    /\ pc[r] = "idle" /\ caller[r] \in up
    /\ r \in Nested => InCallback(caller[r]) /\ ~Waiting(caller[r])

Step(r, from, to) == /\ caller[r] \in up /\ pc[r] = from
                     /\ pc' = [pc EXCEPT ![r] = to]

\* A local responder runs in the thread of the caller.
RequestLocally(r) ==
    /\ MayRequest(r) /\ Serving(caller[r], Want[r]) # {}
    /\ \E res \in Results : /\ runs' = [runs EXCEPT ![r] = Append(@, res)]
                            /\ outcome' = [outcome EXCEPT ![r] = res]
    /\ Step(r, "idle", "returned")
    /\ UNCHANGED <<netVars, picked, waits, handlers, sent, unsent, msgs, result, available>>

RequestRemote(r) ==
    /\ MayRequest(r) /\ Serving(caller[r], Want[r]) = {}
    /\ Step(r, "idle", "remote")
    /\ waits' \in {waits \union {r}} \union (IF r \in Nested THEN {} ELSE {waits})
    /\ UNCHANGED <<netVars, picked, handlers, sent, unsent, msgs, ansVars>>

KnowsTopic(r) == \E s \in known[caller[r]] : s.topic = Want[r].topic

RefuseRequest(r) ==
    /\ Step(r, "remote", "returned") /\ ~KnowsTopic(r)
    /\ outcome' = [outcome EXCEPT ![r] = "refused"]
    /\ UNCHANGED <<netVars, picked, waits, handlers, sent, unsent, msgs, runs, result, available>>

AddHandler(r) ==
    /\ Step(r, "remote", "added") /\ KnowsTopic(r)
    /\ handlers' = handlers \union {r}
    /\ UNCHANGED <<netVars, picked, waits, sent, unsent, msgs, ansVars>>

\* Mutant: the responder is used without asking whether one was found.
PickAnyResponder(r) ==
    /\ Step(r, "added", "sending")
    /\ \E q \in {s.proc : s \in Responders(caller[r], Want[r])} \union {"nobody"} :
          picked' = picked \union {[req |-> r, to |-> q]}
    /\ UNCHANGED <<netVars, waits, handlers, sent, unsent, msgs, ansVars>>

\* The first responder of the types asked for, in the order of the uuids, which
\* may be any.
PickResponder(r) ==
    \/ /\ Step(r, "added", "issued") /\ Responders(caller[r], Want[r]) = {}
       /\ UNCHANGED <<netVars, picked, waits, handlers, sent, unsent, msgs, ansVars>>
    \/ /\ Step(r, "added", "sending")
       /\ \E s \in Responders(caller[r], Want[r]) :
             picked' = picked \union {[req |-> r, to |-> s.proc]}
       /\ UNCHANGED <<netVars, waits, handlers, sent, unsent, msgs, ansVars>>

SendRequest(r) ==
    /\ Step(r, "sending", "issued")
    /\ \E x \in picked : /\ x.req = r
                         /\ picked' = picked \ {x}
                         /\ Dial(caller[r], {x.to})
                         /\ SendPending(caller[r], x.to, Want[r])
    /\ UNCHANGED <<caller, up, offer, known, work, route, faults, waits, handlers, ansVars>>

\* waitFor: the answer is there, or the time is over; the handler stays.
ReadResult(r) ==
    /\ r \in waits /\ r \in available
    /\ Step(r, "issued", "returned")
    /\ outcome' = [outcome EXCEPT ![r] = result[r]]
    /\ UNCHANGED <<netVars, picked, waits, handlers, sent, unsent, msgs, runs, result, available>>

TimeOut(r) ==
    /\ r \in waits \ available
    /\ Step(r, "issued", "returned")
    /\ outcome' = [outcome EXCEPT ![r] = "timeout"]
    /\ UNCHANGED <<netVars, picked, waits, handlers, sent, unsent, msgs, runs, result, available>>

RequestThread(r) ==
    \/ RefuseRequest(r) \/ AddHandler(r) \/ PickResponder(r) \/ SendRequest(r)
    \/ ReadResult(r) \/ TimeOut(r)

-----------------------------------------------------------------------------
(* The receive thread, and the handle thread with its batch.               *)

Move(m, from, to) == /\ m.at = from /\ Holder(m) \in up
                     /\ msgs' = Moved(m, to)

\* receiveRequest, receiveResponse.
\* Mutant: the receive thread runs notifyResult itself.
ReceiveAndNotify(m) ==
    /\ m.at = "wire" /\ Holder(m) \in up
    /\ \/ /\ m.kind = "request" /\ Move(m, "wire", "queue")
          /\ UNCHANGED <<handlers, ansVars>>
       \/ /\ m.kind = "response" /\ msgs' = msgs \ {m}
          /\ result' = [result EXCEPT ![m.req] = m.res]
          /\ available' = available \union {m.req}
          /\ handlers' = handlers \ {m.req}
          /\ UNCHANGED <<runs, outcome>>
    /\ UNCHANGED <<netVars, pc, picked, waits, sent, unsent>>

Receive(m) ==
    /\ Move(m, "wire", "queue")
    /\ UNCHANGED <<netVars, callVars, ansVars>>

InHand(p) == {m \in msgs : Holder(m) = p /\ m.at \notin {"wire", "queue"}}
Busy(p)   == \E m \in InHand(p) : m.at # "batch"

\* Mutant: the queue of responses is cleared when requests are taken.
TakeRequestsOnly(p) ==
    /\ p \in up /\ InHand(p) = {}
    /\ LET queued == {m \in msgs : Holder(m) = p /\ m.at = "queue"}
           asked  == {m \in queued : m.kind = "request"}
           taken  == IF asked = {} THEN queued ELSE asked IN
       /\ queued # {}
       /\ msgs' = (msgs \ queued) \union {[m EXCEPT !.at = "batch"] : m \in taken}
    /\ UNCHANGED <<netVars, callVars, ansVars>>

\* Mutant: the loop goes back to waiting when there are no requests.
TakeBatchOnRequest(p) ==
    /\ p \in up /\ InHand(p) = {}
    /\ LET queued == {m \in msgs : Holder(m) = p /\ m.at = "queue"} IN
       /\ \E m \in queued : m.kind = "request"
       /\ msgs' = (msgs \ queued) \union {[m EXCEPT !.at = "batch"] : m \in queued}
    /\ UNCHANGED <<netVars, callVars, ansVars>>

\* serviceHandleLoop: both queues are swapped out at once.
TakeBatch(p) ==
    /\ p \in up /\ InHand(p) = {}
    /\ LET queued == {m \in msgs : Holder(m) = p /\ m.at = "queue"} IN
       /\ queued # {}
       /\ msgs' = (msgs \ queued) \union {[m EXCEPT !.at = "batch"] : m \in queued}
    /\ UNCHANGED <<netVars, callVars, ansVars>>

\* handleRequests, up to the callback; without a handler there is no reply.
StartCallback(m) ==
    /\ m.kind = "request" /\ ~Busy(Holder(m))
    /\ \/ Serving(m.server, Want[m.req]) # {} /\ Move(m, "batch", "calling")
       \/ /\ Serving(m.server, Want[m.req]) = {}
          /\ m.at = "batch" /\ Holder(m) \in up
          /\ msgs' = msgs \ {m}
    /\ UNCHANGED <<netVars, callVars, ansVars>>

\* The callback returns, with the requests it made itself.
ReturnFromCallback(m) ==
    /\ m.at = "calling" /\ Holder(m) \in up /\ ~Waiting(Holder(m))
    /\ \E res \in Results :
          /\ runs' = [runs EXCEPT ![m.req] = Append(@, res)]
          /\ msgs' = (msgs \ {m}) \union {[m EXCEPT !.at = "ran", !.res = res]}
    /\ UNCHANGED <<netVars, callVars, result, available, outcome>>

\* The reply goes to the routing id the request came with; after the
\* connection was broken, the replier no longer knows it.
CanReply(m) == /\ caller[m.req] \in up /\ link[caller[m.req]][m.server] = "up"
               /\ route[caller[m.req]][m.server] = m.route

Reply(m) ==
    /\ m.at = "ran" /\ Holder(m) \in up
    /\ msgs' = (msgs \ {m}) \union
                 (IF CanReply(m) THEN {[m EXCEPT !.kind = "response", !.at = "wire"]} ELSE {})
    /\ UNCHANGED <<netVars, callVars, ansVars>>

\* handleResponses: notifyResult runs the callback or stores the answer, then
\* sets rep_available_; removeHandler.
NotifyResult(m) ==
    /\ m.kind = "response" /\ m.at = "batch" /\ Holder(m) \in up
    /\ ~Busy(Holder(m)) /\ \A x \in InHand(Holder(m)) : x.kind # "request"
    /\ msgs' = IF m.req \in handlers THEN Moved(m, "noted") ELSE msgs \ {m}
    /\ result' = IF m.req \in handlers \intersect waits
                 THEN [result EXCEPT ![m.req] = m.res] ELSE result
    /\ outcome' = IF m.req \in handlers \ waits
                  THEN [outcome EXCEPT ![m.req] = m.res] ELSE outcome
    /\ UNCHANGED <<netVars, callVars, runs, available>>

WakeCaller(m) ==
    /\ m.at = "noted" /\ Holder(m) \in up /\ ~Waiting(Holder(m))
    /\ available' = available \union {m.req}
    /\ handlers' = handlers \ {m.req}
    /\ msgs' = msgs \ {m}
    /\ UNCHANGED <<netVars, pc, picked, waits, sent, unsent, runs, result, outcome>>

HandleThread(p) ==
    \/ TakeBatch(p)
    \/ \E m \in InHand(p) :
          \/ StartCallback(m) \/ ReturnFromCallback(m) \/ Reply(m)
          \/ NotifyResult(m) \/ WakeCaller(m)

-----------------------------------------------------------------------------
(* Connections and processes.                                              *)

Establish(p, q) ==
    /\ p \in up /\ q \in up /\ link[p][q] = "dialing"
    /\ link' = [link EXCEPT ![p][q] = "up"]
    /\ UNCHANGED <<caller, up, offer, known, work, connections, route, faults>>
    /\ UNCHANGED <<callVars, msgs, ansVars>>

\* The messages on the wire between requester p and replier q.
OnWire(p, q) == {m \in msgs : m.at = "wire" /\ caller[m.req] = p /\ m.server = q}

\* A connection breaks; ZeroMQ connects again, to the replier as a new peer.
Break(p, q) ==
    /\ p # q /\ link[p][q] = "up" /\ faults < MaxFaults
    /\ faults' = faults + 1
    /\ link' = [link EXCEPT ![p][q] = "dialing"]
    /\ route' = [route EXCEPT ![p][q] = @ + 1]
    /\ \E lost \in SUBSET OnWire(p, q) : msgs' = msgs \ lost
    /\ UNCHANGED <<caller, up, offer, known, work, connections>>
    /\ UNCHANGED <<callVars, ansVars>>

\* A process ends, by exit or crash: what its queues hold is lost, and perhaps
\* what it just sent.
Stop(p) ==
    /\ p \in up /\ faults < MaxFaults
    /\ faults' = faults + 1
    /\ up' = up \ {p}
    /\ \E lost \in SUBSET {m \in msgs : m.at = "wire"} :
          /\ \A m \in lost : m.server = p \/ caller[m.req] = p
          /\ msgs' = {m \in msgs \ lost : Holder(m) # p}
    /\ known' = [known EXCEPT ![p] = {}]
    /\ work' = [work EXCEPT ![p] = {}]
    /\ connections' = [connections EXCEPT ![p] = {}]
    /\ link' = [a \in Procs |-> [q \in Procs |->
                  CASE a = p -> "none"
                    [] a # p /\ q = p /\ link[a][q] = "up" -> "dialing"
                    [] OTHER -> link[a][q]]]
    /\ picked' = {x \in picked : caller[x.req] # p}
    /\ handlers' = {r \in handlers : caller[r] # p}
    /\ UNCHANGED <<caller, offer, route, pc, waits, sent, unsent, ansVars>>

Next ==
    \/ \E s \in Services :
          \/ AddService(s) \/ AnnounceService(s) \/ RemoveService(s) \/ WithdrawService(s)
          \/ \E p \in Procs : \/ Learn(p, s) \/ Unlearn(p, s)
                             \/ OnServiceConnected(p, s)
    \/ \E r \in Requests : RequestLocally(r) \/ RequestRemote(r) \/ RequestThread(r)
    \/ \E m \in msgs : Receive(m)
    \/ \E p \in Procs : HandleThread(p) \/ Stop(p)
    \/ \E p, q \in Procs : Expire(p, q) \/ Establish(p, q) \/ Break(p, q)

Spec == Init /\ [][Next]_vars

\* A thread that has something to do goes on, a service callback returns, a
\* timeout ends, and a message on the wire arrives.
Fairness ==
    /\ \A p \in Procs : WF_vars(HandleThread(p))
    /\ \A r \in Requests : WF_vars(RequestThread(r))
    /\ WF_vars(\E m \in msgs : Receive(m))

LiveSpec == Spec /\ Fairness

-----------------------------------------------------------------------------
Place == {"wire", "queue", "batch", "calling", "ran", "noted"}
Message == [kind : {"request", "response"}, req : Requests, server : Procs,
            at : Place, route : Nat, res : Results \union {"none"}]
Told == Results \union {"none", "refused", "timeout"}

TypeOK ==
    /\ caller \in [Requests -> Procs]
    /\ up \subseteq Procs
    /\ offer \in [Services -> {"off", "adding", "on", "removing", "withdrawn"}]
    /\ known \in [Procs -> SUBSET Services]
    /\ work \in [Procs -> SUBSET Services]
    /\ connections \in [Procs -> SUBSET Procs]
    /\ link \in [Procs -> [Procs -> {"none", "dialing", "up"}]]
    /\ route \in [Procs -> [Procs -> Nat]]
    /\ pc \in [Requests -> {"idle", "remote", "added", "sending", "issued", "returned"}]
    /\ picked \subseteq [req : Requests, to : Procs]
    /\ waits \subseteq Requests /\ handlers \subseteq Requests
    /\ sent \subseteq [req : Requests, to : Procs]
    /\ unsent \subseteq Requests
    /\ msgs \subseteq Message
    /\ runs \in [Requests -> Seq(Results)]
    /\ result \in [Requests -> Results \union {"none"}]
    /\ available \subseteq Requests
    /\ outcome \in [Requests -> Told]
    /\ faults \in Nat

\* No order of requesting and discovering makes a request miss a responder: a
\* handler that is still to be sent, with a responder of its types known, is
\* one whose thread has yet to look, or some thread is about to send, or the
\* socket refused it once (then it waits for the next request or responder).
NoMissedResponder ==
    \A p \in up : \A s \in known[p] : \A r \in Pending(p, s) :
        \/ pc[r] \in {"added", "sending"} \/ r \in unsent
        \/ s \in work[p]

\* What may cost a request that was sent its answer: one of the two processes
\* stopped, their connection broke, or the service was withdrawn (the request
\* is then dropped without a reply).
Hindered(r) ==
    \E x \in sent : /\ x.req = r
                    /\ \/ {caller[r], x.to} \ up # {}
                       \/ route[caller[r]][x.to] > 0
                       \/ \E s \in Services : /\ s.proc = x.to /\ Matches(s, Want[r])
                                              /\ offer[s] \in {"removing", "withdrawn"}

\* A request that was sent is never lost without such a cause: until it is
\* answered it is on its way to the service, there, or on its way back.
RequestConserved ==
    \A r \in Requested : r \in available \/ Hindered(r) \/ \E m \in msgs : m.req = r

\* A synchronous request made in a callback of the handle thread over the
\* network is never answered in time: the thread that would take the answer is
\* the one that waits for it.
NestedTimesOut ==
    \A x \in sent : x.req \in Nested => outcome[x.req] \in {"none", "timeout"}

Call == INSTANCE RemoteCall
\* Whatever is broken, stopped, late or retried: at most one run, and the
\* requester learns the result of that run or nothing of it.
ImplementsRemoteCall == Call!Spec

\* A request that was sent is answered in the end, whether its requester still
\* waits or not, unless something hinders it.
SentIsAnswered ==
    \A r \in Requests : r \in Requested ~> r \in available \/ Hindered(r)
-----------------------------------------------------------------------------
(* What the properties rest on, proved in ServiceProofs.                    *)

\* How far a request has come says what can have become of it.
CallOf(r) ==
    /\ pc[r] \in {"idle", "remote"} =>
          /\ r \notin handlers \union Requested
          /\ runs[r] = << >> /\ outcome[r] = "none"
    /\ pc[r] = "idle" => r \notin waits
    /\ r \in waits /\ pc[r] # "returned" => outcome[r] = "none"
    /\ r \in handlers \union Requested => outcome[r] # "refused"
    /\ r \in handlers \ Requested => /\ runs[r] = << >>
                                    /\ (r \notin waits => outcome[r] = "none")
    /\ r \in Requested => r \in handlers \/ r \in available \/ caller[r] \notin up
    /\ r \in available => r \in Requested
    /\ r \in available \intersect waits => result[r] # "none"
    /\ result[r] # "none" => runs[r] = <<result[r]>>

NestedOf(r) ==
    r \in Nested => /\ Active(r) \/ r \in handlers \union Requested => r \in waits
                    /\ Active(r) => r \notin available

\* A nested request whose handler was added is not told a result, sent or not.
UntoldOf(r) ==
    r \in Nested /\ r \in handlers \union Requested => outcome[r] \in {"none", "timeout"}

\* A message tells how far its request has come, and is the only one of it.
MessageOf(m) ==
    /\ [req |-> m.req, to |-> m.server] \in sent
    /\ m.route <= route[caller[m.req]][m.server]
    /\ m.at \in {"calling", "ran"} => m.kind = "request"
    /\ m.at = "noted" => m.kind = "response"
    /\ m.kind = "request" /\ m.at # "ran" => runs[m.req] = << >>
    /\ m.kind = "response" \/ m.at = "ran" =>
          m.res \in Results /\ runs[m.req] = <<m.res>>
    /\ m.at # "noted" /\ m.req \notin waits => outcome[m.req] = "none"
    /\ m.at = "noted" /\ m.req \in waits => result[m.req] # "none"

\* What is known, looked up or sent to is, or was, announced.
Announced(s) == offer[s] \notin {"off", "adding"}
Offered ==
    /\ \A p \in Procs : \A s \in known[p] : Announced(s)
    /\ \A x \in picked \union sent : \E s \in Services :
          s.proc = x.to /\ Matches(s, Want[x.req]) /\ Announced(s)

\* The connection a request went through stands, or was broken since.
Connected ==
    \A x \in sent : \/ link[caller[x.req]][x.to] = "up"
                    \/ route[caller[x.req]][x.to] > 0
                    \/ {caller[x.req], x.to} \ up # {}

Calls    == \A r \in Requests : CallOf(r)
Nestings == \A r \in Requests : NestedOf(r)
Untold   == \A r \in Requests : UntoldOf(r)
Mail     == /\ \A m \in msgs : MessageOf(m)
            /\ \A m, n \in msgs : m.req = n.req => m = n
=============================================================================
