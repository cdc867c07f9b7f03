---------------------------- MODULE ServiceProofs ----------------------------
(***************************************************************************)
(* Theorems about ServiceRuntime, for any processes, services and requests *)
(* and any number of faults: every safety property of the run              *)
(* service_calls.                                                          *)
(***************************************************************************)
EXTENDS ServiceRuntime, TLAPS

-----------------------------------------------------------------------------
(* What dialling and sending do, for the two actions that do both.         *)

\* A connection that stands is left alone by Dial.
LEMMA DialFacts ==
    ASSUME TypeOK, NEW p \in Procs, NEW peers \in SUBSET Procs, Dial(p, peers)
    PROVE  /\ connections' \in [Procs -> SUBSET Procs]
           /\ link' \in [Procs -> [Procs -> {"none", "dialing", "up"}]]
           /\ \A a, q \in Procs : link[a][q] = "up" => link'[a][q] = "up"
<1>1. connections' \in [Procs -> SUBSET Procs]
  BY DEF Dial, TypeOK
<1>2. PICK state \in [peers -> {"none", "dialing", "up"}] :
          /\ \A q \in peers : state[q] \in Dialled(p, q)
          /\ link' = [link EXCEPT ![p] = [q \in Procs |->
                         IF q \in peers THEN state[q] ELSE @[q]]]
  BY DEF Dial
<1>3. link' \in [Procs -> [Procs -> {"none", "dialing", "up"}]]
  BY <1>2 DEF TypeOK
<1>4. ASSUME NEW a \in Procs, NEW q \in Procs, link[a][q] = "up"
      PROVE  link'[a][q] = "up"
  <2>1. CASE a = p /\ q \in peers
    <3>0. link[p][q] = "up"
      BY <1>4, <2>1
    <3>1. Dialled(p, q) = {"up"}
      BY ONLY <3>0 DEF Dialled
    <3>2. state[q] = "up"
      BY <3>1, <1>2, <2>1
    <3> QED
      BY <3>2, <1>2, <2>1 DEF TypeOK
  <2>2. CASE ~(a = p /\ q \in peers)
    BY <2>2, <1>2, <1>4 DEF TypeOK
  <2> QED
    BY <2>1, <2>2
<1> QED
  BY <1>1, <1>3, <1>4

\* The requests that are due go to q, or none of them does.
Issue(p, q, k, due) ==
    /\ due \subseteq Pending(p, k)
    /\ sent' = sent \union {[req |-> r, to |-> q] : r \in due}
    /\ msgs' = msgs \union {RequestMsg(r, q) : r \in due}
    /\ due # {} => link'[p][q] = "up"

LEMMA SendIssues ==
    ASSUME NEW p, NEW q, NEW k, SendPending(p, q, k)
    PROVE  /\ \E due : Issue(p, q, k, due)
           /\ unsent \subseteq unsent' /\ unsent' \subseteq unsent \union handlers
           /\ \A r \in Pending(p, k) : r \in unsent' \/ [req |-> r, to |-> q] \in sent'
<1> DEFINE due == Pending(p, k)
<1>1. CASE link'[p][q] = "up"
  <2>1. /\ sent' = sent \union [req : due, to : {q}]
        /\ msgs' = msgs \union {RequestMsg(r, q) : r \in due}
        /\ UNCHANGED unsent
    BY <1>1 DEF SendPending
  <2>2. [req : due, to : {q}] = {[req |-> r, to |-> q] : r \in due}
    <3> HIDE DEF due
    <3>1. \A x \in [req : due, to : {q}] : x = [req |-> x.req, to |-> q] /\ x.req \in due
      OBVIOUS
    <3>2. \A r \in due : [req |-> r, to |-> q] \in [req : due, to : {q}]
      OBVIOUS
    <3> QED
      BY <3>1, <3>2
  <2>3. Issue(p, q, k, due)
    BY <1>1, <2>1, <2>2 DEF Issue
  <2> QED
    BY <2>1, <2>2, <2>3
<1>2. CASE link'[p][q] # "up"
  <2>1. unsent' = unsent \union due /\ UNCHANGED <<sent, msgs>>
    BY <1>2 DEF SendPending
  <2>2. Issue(p, q, k, {})
    BY <2>1 DEF Issue
  <2> QED
    BY <2>1, <2>2 DEF Pending
<1> QED
  BY <1>1, <1>2

\* Both actions, as far as requests and messages are concerned.
Issuing == \E p, q \in Procs : \E k, due : p \in up /\ Issue(p, q, k, due)

LEMMA SendIssuing ==
    ASSUME TypeOK, NEW r \in Requests, SendRequest(r)
    PROVE  /\ Issuing
           /\ connections' \in [Procs -> SUBSET Procs]
           /\ link' \in [Procs -> [Procs -> {"none", "dialing", "up"}]]
           /\ \A a, q \in Procs : link[a][q] = "up" => link'[a][q] = "up"
           /\ \E x \in picked : /\ x.req = r
                                /\ \E due : Issue(caller[r], x.to, Want[r], due)
<1>1. PICK x \in picked : /\ x.req = r
                          /\ Dial(caller[r], {x.to})
                          /\ SendPending(caller[r], x.to, Want[r])
  BY DEF SendRequest
<1>2. x.to \in Procs /\ caller[r] \in Procs /\ caller[r] \in up
  BY DEF TypeOK, SendRequest, Step
<1>3. {x.to} \in SUBSET Procs
  BY <1>2
<1>4. PICK due : Issue(caller[r], x.to, Want[r], due)
  BY <1>1, SendIssues
<1> QED
  BY <1>1, <1>2, <1>3, <1>4, DialFacts DEF Issuing

LEMMA ConnectIssuing ==
    ASSUME TypeOK, NEW p \in Procs, NEW s \in Services, OnServiceConnected(p, s)
    PROVE  /\ Issuing
           /\ connections' \in [Procs -> SUBSET Procs]
           /\ link' \in [Procs -> [Procs -> {"none", "dialing", "up"}]]
           /\ \A a, q \in Procs : link[a][q] = "up" => link'[a][q] = "up"
           /\ unsent \subseteq unsent' /\ unsent' \subseteq unsent \union handlers
           /\ \/ \E q : Issue(p, q, s, {})
              \/ \E x \in Responders(p, s) : \E due : Issue(p, x.proc, s, due)
<1>1. s.proc \in Procs /\ p \in up
  BY RequestsAssumption DEF OnServiceConnected
<1>2. CASE Dial(p, {s.proc}) /\ UNCHANGED <<sent, unsent, msgs>>
  <2>1. Issue(p, s.proc, s, {})
    BY <1>2 DEF Issue
  <2>2. {s.proc} \in SUBSET Procs
    BY <1>1
  <2> QED
    BY <1>1, <1>2, <2>1, <2>2, DialFacts DEF Issuing
<1>3. CASE \E x \in Responders(p, s) : Dial(p, {s.proc, x.proc}) /\ SendPending(p, x.proc, s)
  <2>1. PICK x \in Responders(p, s) : Dial(p, {s.proc, x.proc}) /\ SendPending(p, x.proc, s)
    BY <1>3
  <2>2. x.proc \in Procs
    BY RequestsAssumption DEF Responders, TypeOK
  <2>3. {s.proc, x.proc} \in SUBSET Procs
    BY <1>1, <2>2
  <2>4. PICK due : Issue(p, x.proc, s, due)
    BY <2>1, SendIssues
  <2>5. unsent \subseteq unsent' /\ unsent' \subseteq unsent \union handlers
    BY <2>1, SendIssues
  <2> QED
    BY <1>1, <2>1, <2>2, <2>3, <2>4, <2>5, DialFacts DEF Issuing
<1> QED
  BY <1>2, <1>3 DEF OnServiceConnected
-----------------------------------------------------------------------------
(* The actions by what they leave alone.                                    *)

\* Discovery and connecting: no request and no message is touched.
Elsewhere ==
    \/ \E s \in Services :
          \/ AddService(s) \/ AnnounceService(s) \/ RemoveService(s) \/ WithdrawService(s)
          \/ \E p \in Procs : Learn(p, s) \/ Unlearn(p, s)
    \/ \E p, q \in Procs : Expire(p, q) \/ Establish(p, q)

LEMMA ElsewhereQuiet ==
    ASSUME Elsewhere
    PROVE  UNCHANGED <<caller, up, route, callVars, msgs, ansVars>>
BY DEF Elsewhere, AddService, AnnounceService, RemoveService, WithdrawService,
       Learn, Unlearn, Expire, Establish

\* The handling of one message.
Handling(m) ==
    \/ Receive(m) \/ StartCallback(m) \/ ReturnFromCallback(m) \/ Reply(m)
    \/ NotifyResult(m) \/ WakeCaller(m)

LEMMA NextCases ==
    ASSUME Next
    PROVE  \/ Elsewhere
           \/ \E p \in Procs, s \in Services : OnServiceConnected(p, s)
           \/ \E r \in Requests : RequestLocally(r) \/ RequestRemote(r) \/ RequestThread(r)
           \/ \E m \in msgs : Handling(m)
           \/ \E p \in Procs : TakeBatch(p) \/ Stop(p)
           \/ \E p, q \in Procs : Break(p, q)
BY DEF Next, Elsewhere, Handling, HandleThread, InHand

-----------------------------------------------------------------------------
(* Types.                                                                   *)

LEMMA InitTypes == Init => TypeOK
<1> SUFFICES ASSUME Init PROVE TypeOK
  OBVIOUS
<1>1. caller \in [Requests -> Procs]
  BY RequestsAssumption DEF Init
<1>2. known \in [Procs -> SUBSET Services] /\ work \in [Procs -> SUBSET Services]
  BY RequestsAssumption DEF Init
<1>3. connections \in [Procs -> SUBSET Procs]
  BY RequestsAssumption DEF Init
<1>4. link \in [Procs -> [Procs -> {"none", "dialing", "up"}]]
  BY DEF Init
<1>5. runs \in [Requests -> Seq(Results)]
  BY DEF Init
<1> QED
  BY <1>1, <1>2, <1>3, <1>4, <1>5 DEF Init, TypeOK, Told, Message

\* The messages that are sent, and a message moved to another place.
LEMMA MessageTypes ==
    ASSUME TypeOK
    PROVE  /\ \A r \in Requests, q \in Procs : RequestMsg(r, q) \in Message
           /\ \A m \in msgs, place \in Place : Moved(m, place) \subseteq Message
           /\ \A m \in msgs : Holder(m) \in Procs
<1>1. ASSUME NEW r \in Requests, NEW q \in Procs
      PROVE  RequestMsg(r, q) \in Message
  <2>1. route[caller[r]][q] \in Nat
    BY DEF TypeOK
  <2> QED
    BY <2>1 DEF RequestMsg, Message, Place
<1>2. ASSUME NEW m \in msgs, NEW place \in Place
      PROVE  Moved(m, place) \subseteq Message
  BY DEF TypeOK, Moved, Message
<1>3. ASSUME NEW m \in msgs
      PROVE  Holder(m) \in Procs
  BY DEF TypeOK, Holder, Message
<1> QED
  BY <1>1, <1>2, <1>3

LEMMA IssueTypes ==
    ASSUME TypeOK, Issuing
    PROVE  /\ sent' \subseteq [req : Requests, to : Procs]
           /\ msgs' \subseteq Message
<1>1. PICK p \in Procs, q \in Procs : \E k, due : Issue(p, q, k, due)
  BY DEF Issuing
<1>2. PICK k, due : Issue(p, q, k, due)
  BY <1>1
<1>3. due \subseteq Requests
  BY <1>2 DEF Issue, Pending, TypeOK
<1>4. {RequestMsg(r, q) : r \in due} \subseteq Message
  BY <1>3, MessageTypes
<1>5. {[req |-> r, to |-> q] : r \in due} \subseteq [req : Requests, to : Procs]
  BY <1>3
<1>6. sent \subseteq [req : Requests, to : Procs] /\ msgs \subseteq Message
  BY DEF TypeOK
<1> QED
  BY <1>2, <1>4, <1>5, <1>6 DEF Issue

LEMMA StepTypes ==
    ASSUME TypeOK, [Next]_vars
    PROVE  TypeOK'
<1>1. CASE UNCHANGED vars
  BY <1>1 DEF TypeOK, vars, netVars, callVars, ansVars
<1>2. ASSUME NEW s \in Services,
             AddService(s) \/ AnnounceService(s) \/ RemoveService(s) \/ WithdrawService(s)
      PROVE  TypeOK'
  <2>1. s.proc \in Procs
    BY RequestsAssumption
  <2>2. CASE AddService(s)
    BY <2>2 DEF AddService, TypeOK, callVars, ansVars
  <2>3. CASE AnnounceService(s)
    BY <2>1, <2>3 DEF AnnounceService, TypeOK, callVars, ansVars
  <2>4. CASE RemoveService(s)
    <3>1. offer' \in [Services -> {"off", "adding", "on", "removing", "withdrawn"}]
      BY <2>4 DEF RemoveService, TypeOK
    <3>2. faults' \in Nat
      BY <2>4 DEF RemoveService, TypeOK
    <3> QED
      BY <2>4, <3>1, <3>2 DEF RemoveService, TypeOK, callVars, ansVars
  <2>5. CASE WithdrawService(s)
    BY <2>1, <2>5 DEF WithdrawService, TypeOK, callVars, ansVars
  <2> QED
    BY <1>2, <2>2, <2>3, <2>4, <2>5
<1>3. ASSUME NEW p \in Procs, NEW s \in Services, Learn(p, s) \/ Unlearn(p, s)
      PROVE  TypeOK'
  <2>2. CASE Learn(p, s)
    BY <2>2 DEF Learn, TypeOK, callVars, ansVars
  <2>3. CASE Unlearn(p, s)
    BY <2>3 DEF Unlearn, TypeOK, callVars, ansVars
  <2> QED
    BY <1>3, <2>2, <2>3
<1>4. ASSUME NEW p \in Procs, NEW s \in Services, OnServiceConnected(p, s)
      PROVE  TypeOK'
  <2>1. Issuing /\ unsent' \subseteq unsent \union handlers
    BY <1>4, ConnectIssuing
  <2>2. /\ connections' \in [Procs -> SUBSET Procs]
        /\ link' \in [Procs -> [Procs -> {"none", "dialing", "up"}]]
    BY <1>4, ConnectIssuing
  <2>3. sent' \subseteq [req : Requests, to : Procs] /\ msgs' \subseteq Message
    BY <2>1, IssueTypes
  <2> QED
    BY <1>4, <2>1, <2>2, <2>3 DEF OnServiceConnected, TypeOK, ansVars
<1>5. ASSUME NEW r \in Requests, RequestLocally(r)
      PROVE  TypeOK'
  <2>1. PICK res \in Results : /\ runs' = [runs EXCEPT ![r] = Append(@, res)]
                               /\ outcome' = [outcome EXCEPT ![r] = res]
    BY <1>5 DEF RequestLocally
  <2>2. runs' \in [Requests -> Seq(Results)] /\ outcome' \in [Requests -> Told]
    <3>1. Append(runs[r], res) \in Seq(Results)
      BY DEF TypeOK
    <3> QED
      BY <2>1, <3>1 DEF TypeOK, Told
  <2> QED
    BY <1>5, <2>2 DEF RequestLocally, Step, TypeOK, netVars
<1>6. ASSUME NEW r \in Requests, RequestRemote(r)
      PROVE  TypeOK'
  BY <1>6 DEF RequestRemote, Step, TypeOK, netVars, ansVars
<1>7. ASSUME NEW r \in Requests, RequestThread(r)
      PROVE  TypeOK'
  <2>1. CASE RefuseRequest(r)
    BY <2>1 DEF RefuseRequest, Step, TypeOK, netVars, Told
  <2>2. CASE AddHandler(r)
    BY <2>2 DEF AddHandler, Step, TypeOK, netVars, ansVars
  <2>3. CASE PickResponder(r)
    <3>1. CASE Step(r, "added", "issued") /\ UNCHANGED picked
      BY <2>3, <3>1 DEF PickResponder, Step, TypeOK, netVars, ansVars
    <3>2. CASE /\ Step(r, "added", "sending")
               /\ \E s \in Responders(caller[r], Want[r]) :
                     picked' = picked \union {[req |-> r, to |-> s.proc]}
      <4>1. picked' \subseteq [req : Requests, to : Procs]
        BY <3>2, RequestsAssumption DEF Responders, TypeOK
      <4> QED
        BY <2>3, <3>2, <4>1 DEF PickResponder, Step, TypeOK, netVars, ansVars
    <3> QED
      BY <2>3, <3>1, <3>2 DEF PickResponder
  <2>4. CASE SendRequest(r)
    <3>1. Issuing
      BY <2>4, SendIssuing
    <3>2. /\ connections' \in [Procs -> SUBSET Procs]
          /\ link' \in [Procs -> [Procs -> {"none", "dialing", "up"}]]
      BY <2>4, SendIssuing
    <3>3. sent' \subseteq [req : Requests, to : Procs] /\ msgs' \subseteq Message
      BY <3>1, IssueTypes
    <3>4. picked' \subseteq picked /\ unsent' \subseteq unsent \union handlers
      BY <2>4, SendIssues DEF SendRequest
    <3> QED
      BY <2>4, <3>2, <3>3, <3>4 DEF SendRequest, Step, TypeOK, ansVars
  <2>5. CASE ReadResult(r)
    BY <2>5 DEF ReadResult, Step, TypeOK, netVars, Told
  <2>6. CASE TimeOut(r)
    BY <2>6 DEF TimeOut, Step, TypeOK, netVars, Told
  <2> QED
    BY <1>7, <2>1, <2>2, <2>3, <2>4, <2>5, <2>6 DEF RequestThread
<1>8. ASSUME NEW m \in msgs, Handling(m)
      PROVE  TypeOK'
  <2>1. m \in Message
    BY DEF TypeOK
  <2>2. CASE Receive(m)
    <3>1. msgs' \subseteq Message
      BY <2>2, MessageTypes DEF Receive, Move, Place
    <3> QED
      BY <2>2, <3>1 DEF Receive, TypeOK, netVars, callVars, ansVars
  <2>3. CASE StartCallback(m)
    <3>1. msgs' \subseteq Message
      BY <2>3, MessageTypes DEF StartCallback, Move, Place, TypeOK
    <3> QED
      BY <2>3, <3>1 DEF StartCallback, TypeOK, netVars, callVars, ansVars
  <2>4. CASE ReturnFromCallback(m)
    <3>1. PICK res \in Results :
            /\ runs' = [runs EXCEPT ![m.req] = Append(@, res)]
            /\ msgs' = (msgs \ {m}) \union {[m EXCEPT !.at = "ran", !.res = res]}
      BY <2>4 DEF ReturnFromCallback
    <3>2. m.req \in Requests /\ Append(runs[m.req], res) \in Seq(Results)
      BY <2>1 DEF TypeOK, Message
    <3>3. [m EXCEPT !.at = "ran", !.res = res] \in Message
      BY <2>1 DEF Message, Place
    <3>4. runs' \in [Requests -> Seq(Results)] /\ msgs' \subseteq Message
      BY <3>1, <3>2, <3>3 DEF TypeOK
    <3> QED
      BY <2>4, <3>4 DEF ReturnFromCallback, TypeOK, netVars, callVars
  <2>5. CASE Reply(m)
    <3>1. [m EXCEPT !.kind = "response", !.at = "wire"] \in Message
      BY <2>1 DEF Message, Place
    <3>2. msgs' \subseteq Message
      BY <2>5, <3>1 DEF Reply, TypeOK
    <3> QED
      BY <2>5, <3>2 DEF Reply, TypeOK, netVars, callVars, ansVars
  <2>6. CASE NotifyResult(m)
    <3>1. msgs' \subseteq Message
      BY <2>6, MessageTypes DEF NotifyResult, Place, TypeOK
    <3>2. m.res \in Results \union {"none"}
      BY <2>1 DEF Message
    <3>3. result' \in [Requests -> Results \union {"none"}] /\ outcome' \in [Requests -> Told]
      BY <2>6, <3>2 DEF NotifyResult, TypeOK, Told
    <3> QED
      BY <2>6, <3>1, <3>3 DEF NotifyResult, TypeOK, netVars, callVars
  <2>7. CASE WakeCaller(m)
    BY <2>1, <2>7 DEF WakeCaller, TypeOK, netVars, Message
  <2> QED
    BY <1>8, <2>2, <2>3, <2>4, <2>5, <2>6, <2>7 DEF Handling
<1>9. ASSUME NEW p \in Procs, TakeBatch(p)
      PROVE  TypeOK'
  <2>1. ASSUME NEW m \in msgs
        PROVE  [m EXCEPT !.at = "batch"] \in Message
    <3>1. m \in Message
      BY DEF TypeOK
    <3> QED
      BY <3>1 DEF Message, Place
  <2>2. msgs' \subseteq Message
    BY <1>9, <2>1 DEF TakeBatch, TypeOK
  <2> QED
    BY <1>9, <2>2 DEF TakeBatch, TypeOK, netVars, callVars, ansVars
<1>10. ASSUME NEW p \in Procs, Stop(p)
       PROVE  TypeOK'
  <2>1. link' \in [Procs -> [Procs -> {"none", "dialing", "up"}]]
    <3>1. \A a, q \in Procs : link[a][q] \in {"none", "dialing", "up"}
      BY DEF TypeOK
    <3> QED
      BY <1>10, <3>1 DEF Stop
  <2>2. /\ known' \in [Procs -> SUBSET Services] /\ work' \in [Procs -> SUBSET Services]
        /\ connections' \in [Procs -> SUBSET Procs]
    BY <1>10 DEF Stop, TypeOK
  <2>3. msgs' \subseteq msgs
    BY <1>10 DEF Stop
  <2> QED
    BY <1>10, <2>1, <2>2, <2>3 DEF Stop, TypeOK, ansVars
<1>11. ASSUME NEW p \in Procs, NEW q \in Procs, Expire(p, q) \/ Establish(p, q) \/ Break(p, q)
       PROVE  TypeOK'
  <2>1. CASE Expire(p, q)
    BY <2>1 DEF Expire, TypeOK, callVars, ansVars
  <2>2. CASE Establish(p, q)
    BY <2>2 DEF Establish, TypeOK, callVars, ansVars
  <2>3. CASE Break(p, q)
    <3>1. route' \in [Procs -> [Procs -> Nat]]
      BY <2>3 DEF Break, TypeOK
    <3>2. link' \in [Procs -> [Procs -> {"none", "dialing", "up"}]]
      BY <2>3 DEF Break, TypeOK
    <3>3. msgs' \subseteq msgs
      BY <2>3 DEF Break
    <3>4. faults' \in Nat
      BY <2>3 DEF Break, TypeOK
    <3>5. UNCHANGED <<caller, up, offer, known, work, connections, callVars, ansVars>>
      BY <2>3 DEF Break
    <3> QED
      BY <3>1, <3>2, <3>3, <3>4, <3>5 DEF TypeOK, callVars, ansVars
  <2> QED
    BY <1>11, <2>1, <2>2, <2>3
<1> QED
  BY <1>1, <1>2, <1>3, <1>4, <1>5, <1>6, <1>7, <1>8, <1>9, <1>10, <1>11, NextCases
     DEF Elsewhere

\* The types of all variables, at every step of every run.
THEOREM TypeCorrect == Spec => []TypeOK
<1>1. Init => TypeOK
  BY InitTypes
<1>2. TypeOK /\ [Next]_vars => TypeOK'
  BY StepTypes
<1> QED
  BY <1>1, <1>2, PTL DEF Spec
-----------------------------------------------------------------------------
(* What can have become of a request.                                       *)

LEMMA MailRequested ==
    ASSUME TypeOK, Mail, NEW m \in msgs
    PROVE  m.req \in Requests /\ m.req \in Requested /\ m.server \in Procs
<1>1. m.req \in Requests /\ m.server \in Procs
  BY DEF TypeOK, Message
<1>2. PICK x \in sent : x = [req |-> m.req, to |-> m.server]
  BY DEF Mail, MessageOf
<1>3. x.req = m.req
  BY <1>2
<1> QED
  BY <1>1, <1>3 DEF Requested

\* A request that is due has not been sent, and has not run.
LEMMA DueFacts ==
    ASSUME TypeOK, Calls, NEW p, NEW q, NEW k, NEW due, Issue(p, q, k, due)
    PROVE  /\ Requested' = Requested \union due
           /\ due \subseteq Requests /\ due \subseteq handlers \ Requested
           /\ \A r \in due : /\ caller[r] = p /\ Matches(Want[r], k)
                             /\ runs[r] = << >>
                             /\ r \notin waits => outcome[r] = "none"
<1>1. due \subseteq handlers \ Requested /\ \A r \in due : caller[r] = p /\ Matches(Want[r], k)
  BY DEF Issue, Pending
<1>2. due \subseteq Requests
  BY <1>1 DEF TypeOK
<1>3. \A r \in due : runs[r] = << >> /\ (r \notin waits => outcome[r] = "none")
  BY <1>1, <1>2 DEF Calls, CallOf
<1>4. Requested' = Requested \union due
  <2>1. sent' = sent \union {[req |-> r, to |-> q] : r \in due}
    BY DEF Issue
  <2>2. \A r \in due : [req |-> r, to |-> q].req = r
    OBVIOUS
  <2>3. \A x \in sent' : x \in sent \/ x.req \in due
    BY <2>1
  <2>4. Requested' \subseteq Requested \union due
    BY <2>3 DEF Requested
  <2>5. due \subseteq Requested'
    BY <2>1, <2>2 DEF Requested
  <2>6. Requested \subseteq Requested'
    BY <2>1 DEF Requested
  <2> QED
    BY <2>4, <2>5, <2>6
<1> QED
  BY <1>1, <1>2, <1>3, <1>4

LEMMA IssueCalls ==
    ASSUME TypeOK, Calls, Issuing, UNCHANGED <<caller, up, waits, handlers, ansVars>>,
           NEW r \in Requests,
           pc'[r] = pc[r] \/ {pc[r], pc'[r]} \subseteq {"sending", "issued"}
    PROVE  CallOf(r)'
<1>1. PICK p \in Procs, q \in Procs : \E k, due : Issue(p, q, k, due)
  BY DEF Issuing
<1>2. PICK k, due : Issue(p, q, k, due)
  BY <1>1
<1>3. Requested' = Requested \union due /\ due \subseteq handlers \ Requested
  BY <1>2, DueFacts
<1>4. CallOf(r)
  BY DEF Calls
<1> QED
  BY <1>3, <1>4 DEF CallOf, ansVars

LEMMA InitCalls == Init => Calls
BY RequestsAssumption DEF Init, Calls, CallOf, Requested

LEMMA StepCalls ==
    ASSUME TypeOK, TypeOK', Calls, Mail, [Next]_vars
    PROVE  Calls'
<1> SUFFICES ASSUME NEW r \in Requests
             PROVE  CallOf(r)'
  BY DEF Calls
<1>0. CallOf(r)
  BY DEF Calls
<1>1. CASE UNCHANGED <<caller, up, callVars, ansVars>>
  BY <1>0, <1>1 DEF CallOf, Requested, callVars, ansVars
<1>2. ASSUME NEW p \in Procs, NEW s \in Services, OnServiceConnected(p, s)
      PROVE  CallOf(r)'
  BY <1>2, ConnectIssuing, IssueCalls DEF OnServiceConnected
<1>3. ASSUME NEW q \in Requests, RequestLocally(q)
      PROVE  CallOf(r)'
  <2>1. pc[q] = "idle" /\ CallOf(q)
    BY <1>3 DEF RequestLocally, Step, Calls
  <2>2. CASE r = q
    BY <1>3, <2>1, <2>2 DEF RequestLocally, Step, CallOf, Requested, TypeOK, netVars, Results
  <2>3. CASE r # q
    BY <1>0, <1>3, <2>3 DEF RequestLocally, Step, CallOf, Requested, TypeOK, netVars
  <2> QED
    BY <2>2, <2>3
<1>4. ASSUME NEW q \in Requests, RequestRemote(q)
      PROVE  CallOf(r)'
  BY <1>0, <1>4 DEF RequestRemote, Step, CallOf, Requested, TypeOK, netVars, ansVars
<1>5. ASSUME NEW q \in Requests, RefuseRequest(q)
      PROVE  CallOf(r)'
  BY <1>0, <1>5 DEF RefuseRequest, Step, CallOf, Requested, TypeOK, netVars
<1>6. ASSUME NEW q \in Requests, AddHandler(q)
      PROVE  CallOf(r)'
  BY <1>0, <1>6 DEF AddHandler, Step, CallOf, Requested, TypeOK, netVars, ansVars
<1>7. ASSUME NEW q \in Requests, PickResponder(q)
      PROVE  CallOf(r)'
  BY <1>0, <1>7 DEF PickResponder, Step, CallOf, Requested, TypeOK, netVars, ansVars
<1>8. ASSUME NEW q \in Requests, SendRequest(q)
      PROVE  CallOf(r)'
  <2>1. pc'[r] = pc[r] \/ {pc[r], pc'[r]} \subseteq {"sending", "issued"}
    BY <1>8 DEF SendRequest, Step, TypeOK
  <2> QED
    BY <1>8, <2>1, SendIssuing, IssueCalls DEF SendRequest
<1>9. ASSUME NEW q \in Requests, ReadResult(q)
      PROVE  CallOf(r)'
  <2>1. CallOf(q) /\ q \in waits /\ q \in available /\ pc[q] = "issued"
    BY <1>9 DEF Calls, ReadResult, Step
  <2>2. result[q] \in Results
    BY <2>1 DEF CallOf, TypeOK
  <2>3. result[q] # "refused" /\ result[q] # "none"
    BY <2>2 DEF Results
  <2>4. /\ pc \in [Requests -> {"idle", "remote", "added", "sending", "issued", "returned"}]
        /\ outcome \in [Requests -> Told]
    BY DEF TypeOK
  <2>5. /\ pc' = [pc EXCEPT ![q] = "returned"]
        /\ outcome' = [outcome EXCEPT ![q] = result[q]]
        /\ UNCHANGED <<caller, up, waits, handlers, sent, runs, result, available>>
    BY <1>9 DEF ReadResult, Step, netVars
  <2>6. CASE q = r
    <3>1. pc'[r] = "returned" /\ outcome'[r] = result[r]
      BY <2>4, <2>5, <2>6
    <3> QED
      BY <1>0, <2>1, <2>3, <2>5, <2>6, <3>1 DEF CallOf, Requested
  <2>7. CASE q # r
    <3>1. pc'[r] = pc[r] /\ outcome'[r] = outcome[r]
      BY <2>4, <2>5, <2>7
    <3> QED
      BY <1>0, <2>5, <3>1 DEF CallOf, Requested
  <2> QED
    BY <2>6, <2>7
<1>10. ASSUME NEW q \in Requests, TimeOut(q)
       PROVE  CallOf(r)'
  BY <1>0, <1>10 DEF TimeOut, Step, CallOf, Requested, TypeOK, netVars
<1>11. ASSUME NEW m \in msgs, ReturnFromCallback(m)
       PROVE  CallOf(r)'
  <2>1. PICK res \in Results : runs' = [runs EXCEPT ![m.req] = Append(@, res)]
    BY <1>11 DEF ReturnFromCallback
  <2>2. m.req \in Requests /\ m.req \in Requested /\ CallOf(m.req)
    BY MailRequested DEF Calls
  <2>3. runs[m.req] = << >>
    BY <1>11 DEF ReturnFromCallback, Mail, MessageOf
  <2>4. result[m.req] = "none"
    BY <2>2, <2>3 DEF CallOf
  <2>5. UNCHANGED <<caller, up, callVars, result, available, outcome>>
    BY <1>11 DEF ReturnFromCallback, netVars
  <2>6. CASE r = m.req
    BY <1>0, <2>2, <2>4, <2>5, <2>6 DEF CallOf, Requested, callVars
  <2>7. CASE r # m.req
    BY <1>0, <2>1, <2>2, <2>5, <2>7 DEF CallOf, Requested, TypeOK, callVars
  <2> QED
    BY <2>6, <2>7
<1>12. ASSUME NEW m \in msgs, NotifyResult(m)
       PROVE  CallOf(r)'
  <2>1. m.req \in Requests /\ m.req \in Requested /\ CallOf(m.req)
    BY MailRequested DEF Calls
  <2>2. m.res \in Results /\ runs[m.req] = <<m.res>>
    BY <1>12 DEF NotifyResult, Mail, MessageOf
  <2>3. m.res # "refused" /\ m.res # "none"
    BY <2>2 DEF Results
  <2>4. UNCHANGED <<caller, up, callVars, runs, available>>
    BY <1>12 DEF NotifyResult, netVars
  <2>5. CASE r = m.req
    <3>1. outcome' = IF m.req \in handlers \ waits
                     THEN [outcome EXCEPT ![m.req] = m.res] ELSE outcome
      BY <1>12 DEF NotifyResult
    <3>2. result' = IF m.req \in handlers \intersect waits
                    THEN [result EXCEPT ![m.req] = m.res] ELSE result
      BY <1>12 DEF NotifyResult
    <3>3. pc[r] \notin {"idle", "remote"}
      BY <2>1, <2>5 DEF CallOf
    <3> QED
      BY SMTT(30), <1>0, <2>1, <2>2, <2>3, <2>4, <2>5, <3>1, <3>2, <3>3
         DEF CallOf, Requested, TypeOK, callVars
  <2>6. CASE r # m.req
    <3>1. outcome'[r] = outcome[r] /\ result'[r] = result[r]
      BY <1>12, <2>6 DEF NotifyResult, TypeOK
    <3> QED
      BY <1>0, <2>4, <3>1 DEF CallOf, Requested, callVars
  <2> QED
    BY <2>5, <2>6
<1>13. ASSUME NEW m \in msgs, WakeCaller(m)
       PROVE  CallOf(r)'
  <2>1. m.req \in Requests /\ m.req \in Requested
    BY MailRequested
  <2>2. m.req \in waits => result[m.req] # "none"
    BY <1>13 DEF WakeCaller, Mail, MessageOf
  <2>3. /\ UNCHANGED <<caller, up, pc, waits, sent, runs, result, outcome>>
        /\ available' = available \union {m.req} /\ handlers' = handlers \ {m.req}
    BY <1>13 DEF WakeCaller, netVars
  <2> QED
    BY <1>0, <2>1, <2>2, <2>3 DEF CallOf, Requested
<1>14. ASSUME NEW p \in Procs, Stop(p)
       PROVE  CallOf(r)'
  <2>1. /\ UNCHANGED <<caller, pc, waits, sent, ansVars>>
        /\ up' = up \ {p} /\ handlers' = {q \in handlers : caller[q] # p}
    BY <1>14 DEF Stop
  <2> QED
    BY <1>0, <2>1 DEF CallOf, Requested, ansVars
<1>15. CASE Elsewhere
  BY <1>1, <1>15, ElsewhereQuiet
<1>16. ASSUME NEW m \in msgs, Receive(m) \/ StartCallback(m) \/ Reply(m)
       PROVE  CallOf(r)'
  BY <1>1, <1>16 DEF Receive, StartCallback, Reply, netVars
<1>17. ASSUME NEW p \in Procs, NEW q \in Procs, TakeBatch(p) \/ Break(p, q)
       PROVE  CallOf(r)'
  BY <1>1, <1>17 DEF TakeBatch, Break, netVars
<1>18. CASE UNCHANGED vars
  BY <1>1, <1>18 DEF vars, netVars
<1> QED
  BY <1>2, <1>3, <1>4, <1>5, <1>6, <1>7, <1>8, <1>9, <1>10, <1>11, <1>12, <1>13,
     <1>14, <1>15, <1>16, <1>17, <1>18, NextCases
     DEF RequestThread, Handling
-----------------------------------------------------------------------------
(* What the messages tell.                                                  *)

LEMMA IssueMail ==
    ASSUME TypeOK, Calls, Mail, Issuing, UNCHANGED <<caller, route, waits, ansVars>>
    PROVE  Mail'
<1>1. PICK p \in Procs, q \in Procs : \E k, due : Issue(p, q, k, due)
  BY DEF Issuing
<1>2. PICK k, due : Issue(p, q, k, due)
  BY <1>1
<1>3. \A r \in due : r \in Requests /\ r \notin Requested
  BY <1>2, DueFacts
<1>4. msgs' = msgs \union {RequestMsg(r, q) : r \in due}
  BY <1>2 DEF Issue
<1>5. ASSUME NEW m \in msgs
      PROVE  MessageOf(m)'
  <2>1. MessageOf(m) /\ sent \subseteq sent'
    BY <1>2 DEF Mail, Issue
  <2> QED
    BY <2>1 DEF MessageOf, ansVars
<1>6. ASSUME NEW r \in due, NEW n, n = RequestMsg(r, q)
      PROVE  MessageOf(n)'
  <2>1. [req |-> r, to |-> q] \in sent'
    BY <1>2 DEF Issue
  <2>2. runs[r] = << >> /\ (r \notin waits => outcome[r] = "none")
    BY <1>2, DueFacts
  <2>3. route[caller[r]][q] \in Nat
    BY <1>3 DEF TypeOK
  <2> QED
    BY <1>6, <2>1, <2>2, <2>3 DEF MessageOf, RequestMsg, ansVars
<1>7. ASSUME NEW m \in msgs', NEW n \in msgs', m.req = n.req
      PROVE  m = n
  <2>1. \A x \in msgs' : x \in msgs \/ x = RequestMsg(x.req, q)
    BY <1>4 DEF RequestMsg
  <2>2. \A x \in msgs' : x \in msgs \/ x.req \in due
    BY <1>4 DEF RequestMsg
  <2>3. \A x \in msgs : x.req \notin due
    BY <1>3, MailRequested
  <2> QED
    BY <1>7, <2>1, <2>2, <2>3 DEF Mail
<1>8. \A m \in msgs' : MessageOf(m)'
  BY <1>4, <1>5, <1>6
<1> QED
  BY <1>7, <1>8 DEF Mail

\* Some messages go; what they tell of their requests is not touched.
LEMMA FewerMessages ==
    ASSUME TypeOK, Mail, msgs' \subseteq msgs,
           UNCHANGED <<caller, sent, waits, result>>,
           \A p, q \in Procs : route[p][q] <= route'[p][q],
           TypeOK',
           \A m \in msgs' : /\ runs'[m.req] = runs[m.req]
                            /\ outcome'[m.req] = outcome[m.req] \/ m.req \in waits
    PROVE  Mail'
<1>1. ASSUME NEW m \in msgs'
      PROVE  MessageOf(m)'
  <2>1. MessageOf(m) /\ m \in Message
    BY DEF Mail, TypeOK
  <2>2. m.route \in Nat /\ m.req \in Requests /\ m.server \in Procs
    BY <2>1 DEF Message
  <2>3. caller[m.req] \in Procs
    BY <2>2 DEF TypeOK
  <2>4. /\ route[caller[m.req]][m.server] <= route'[caller[m.req]][m.server]
        /\ route[caller[m.req]][m.server] \in Nat /\ route'[caller[m.req]][m.server] \in Nat
    BY SMTT(30), <2>2, <2>3 DEF TypeOK
  <2>5. m.route <= route'[caller'[m.req]][m.server]
    BY <2>1, <2>2, <2>4 DEF MessageOf
  <2> QED
    BY <2>1, <2>5 DEF MessageOf
<1> QED
  BY <1>1 DEF Mail

\* One message moves on; nothing is said of another request.
LEMMA OneMoves ==
    ASSUME TypeOK, Mail, NEW m \in msgs, NEW n, n.req = m.req, n.server = m.server,
           n.route = m.route, msgs' \subseteq (msgs \ {m}) \union {n},
           UNCHANGED <<caller, sent, route, waits>>,
           \A r \in Requests \ {m.req} : /\ runs'[r] = runs[r] /\ result'[r] = result[r]
                                         /\ outcome'[r] = outcome[r],
           n.at \in {"calling", "ran"} => n.kind = "request",
           n.at = "noted" => n.kind = "response",
           n.kind = "request" /\ n.at # "ran" => runs'[n.req] = << >>,
           n.kind = "response" \/ n.at = "ran" =>
              n.res \in Results /\ runs'[n.req] = <<n.res>>,
           n.at # "noted" /\ n.req \notin waits => outcome'[n.req] = "none",
           n.at = "noted" /\ n.req \in waits => result'[n.req] # "none"
    PROVE  Mail'
<1>1. MessageOf(m)
  BY DEF Mail
<1>2. MessageOf(n)'
  BY <1>1 DEF MessageOf
<1>3. ASSUME NEW x \in msgs, x # m
      PROVE  MessageOf(x)' /\ x.req # m.req
  <2>1. MessageOf(x) /\ x.req # m.req /\ x.req \in Requests
    BY <1>3, MailRequested DEF Mail
  <2> QED
    BY <2>1 DEF MessageOf
<1> QED
  BY <1>2, <1>3 DEF Mail

LEMMA InitMail == Init => Mail
BY DEF Init, Mail

LEMMA StepMail ==
    ASSUME TypeOK, TypeOK', Calls, Mail, [Next]_vars
    PROVE  Mail'
<1>0. \A r \in Requests : CallOf(r)
  BY DEF Calls
<1>a. \A m \in msgs : m.req \in Requests /\ m.req \in Requested
  BY MailRequested
<1>b. \A p, q \in Procs : route[p][q] \in Nat /\ route'[p][q] \in Nat
  BY DEF TypeOK
<1>1. CASE UNCHANGED <<caller, route, sent, waits, msgs, ansVars>>
  <2>1. \A p, q \in Procs : route[p][q] <= route'[p][q]
    BY <1>1, <1>b
  <2> QED
    BY <1>1, <2>1, FewerMessages DEF ansVars
<1>2. ASSUME NEW p \in Procs, NEW s \in Services, OnServiceConnected(p, s)
      PROVE  Mail'
  BY <1>2, ConnectIssuing, IssueMail DEF OnServiceConnected
<1>3. ASSUME NEW r \in Requests, SendRequest(r)
      PROVE  Mail'
  BY <1>3, SendIssuing, IssueMail DEF SendRequest
<1>4. ASSUME NEW r \in Requests, RequestLocally(r) \/ RefuseRequest(r)
      PROVE  Mail'
  <2>1. pc[r] \in {"idle", "remote"}
    BY <1>4 DEF RequestLocally, RefuseRequest, Step
  <2>2. \A m \in msgs : m.req # r
    BY <1>0, <1>a, <2>1 DEF CallOf
  <2>3. UNCHANGED <<caller, route, sent, waits, msgs, result>>
    BY <1>4 DEF RequestLocally, RefuseRequest, netVars
  <2>4. \A q \in Requests \ {r} : runs'[q] = runs[q] /\ outcome'[q] = outcome[q]
    <3>1. CASE RequestLocally(r)
      BY <3>1 DEF RequestLocally, TypeOK
    <3>2. CASE RefuseRequest(r)
      BY <3>2 DEF RefuseRequest, TypeOK
    <3> QED
      BY <1>4, <3>1, <3>2
  <2> QED
    BY <1>a, <1>b, <2>2, <2>3, <2>4, FewerMessages
<1>5. ASSUME NEW r \in Requests, RequestRemote(r)
      PROVE  Mail'
  <2>1. \A m \in msgs : m.req # r
    BY <1>0, <1>a, <1>5 DEF CallOf, RequestRemote, Step
  <2>2. \A q \in Requests \ {r} : q \in waits' <=> q \in waits
    BY <1>5 DEF RequestRemote
  <2>3. UNCHANGED <<caller, route, sent, msgs, ansVars>>
    BY <1>5 DEF RequestRemote, netVars
  <2>4. ASSUME NEW m \in msgs
        PROVE  MessageOf(m)'
    <3>1. MessageOf(m) /\ (m.req \in waits' <=> m.req \in waits)
      BY <1>a, <2>1, <2>2 DEF Mail
    <3> QED
      BY <2>3, <3>1 DEF MessageOf, ansVars
  <2> QED
    BY <2>3, <2>4 DEF Mail
<1>6. ASSUME NEW r \in Requests, ReadResult(r) \/ TimeOut(r)
      PROVE  Mail'
  <2>1. r \in waits /\ UNCHANGED <<caller, route, sent, waits, msgs, runs, result>>
    BY <1>6 DEF ReadResult, TimeOut, netVars
  <2>2. \A q \in Requests \ {r} : outcome'[q] = outcome[q]
    <3>1. outcome \in [Requests -> Told]
      BY <1>b DEF TypeOK
    <3>2. PICK told : outcome' = [outcome EXCEPT ![r] = told]
      BY <1>6 DEF ReadResult, TimeOut
    <3> QED
      BY <3>1, <3>2
  <2> QED
    BY <1>a, <1>b, <2>1, <2>2, FewerMessages
<1>7. ASSUME NEW r \in Requests, AddHandler(r) \/ PickResponder(r)
      PROVE  Mail'
  BY <1>1, <1>7 DEF AddHandler, PickResponder, netVars
<1>8. ASSUME NEW m \in msgs, Receive(m)
      PROVE  Mail'
  <2> DEFINE n == [m EXCEPT !.at = "queue"]
  <2>1. MessageOf(m) /\ m \in Message /\ m.at = "wire"
    BY <1>8 DEF Mail, TypeOK, Receive, Move
  <2>2. /\ n.req = m.req /\ n.server = m.server /\ n.route = m.route /\ n.at = "queue"
        /\ n.kind = m.kind /\ n.res = m.res
    BY <2>1 DEF Message
  <2>3. msgs' = (msgs \ {m}) \union {n}
    BY <1>8 DEF Receive, Move, Moved
  <2>4. UNCHANGED <<caller, sent, route, waits, ansVars>>
    BY <1>8 DEF Receive, netVars, callVars
  <2> HIDE DEF n
  <2> QED
    BY <2>1, <2>2, <2>3, <2>4, OneMoves DEF MessageOf, ansVars
<1>9. ASSUME NEW m \in msgs, StartCallback(m)
      PROVE  Mail'
  <2> DEFINE n == [m EXCEPT !.at = "calling"]
  <2>1. MessageOf(m) /\ m \in Message /\ m.at = "batch" /\ m.kind = "request"
    BY <1>9 DEF Mail, TypeOK, StartCallback, Move
  <2>2. /\ n.req = m.req /\ n.server = m.server /\ n.route = m.route /\ n.at = "calling"
        /\ n.kind = m.kind /\ n.res = m.res
    BY <2>1 DEF Message
  <2>3. msgs' \subseteq (msgs \ {m}) \union {n}
    BY <1>9 DEF StartCallback, Move, Moved
  <2>4. UNCHANGED <<caller, sent, route, waits, ansVars>>
    BY <1>9 DEF StartCallback, netVars, callVars
  <2> HIDE DEF n
  <2> QED
    BY <2>1, <2>2, <2>3, <2>4, OneMoves DEF MessageOf, ansVars
<1>10. ASSUME NEW m \in msgs, ReturnFromCallback(m)
       PROVE  Mail'
  <2>1. /\ MessageOf(m) /\ m \in Message /\ m.at = "calling" /\ m.kind = "request"
        /\ m.req \in Requests
    BY <1>10, <1>a DEF Mail, MessageOf, TypeOK, ReturnFromCallback
  <2>2. PICK res \in Results :
          /\ runs' = [runs EXCEPT ![m.req] = Append(@, res)]
          /\ msgs' = (msgs \ {m}) \union {[m EXCEPT !.at = "ran", !.res = res]}
    BY <1>10 DEF ReturnFromCallback
  <2> DEFINE n == [m EXCEPT !.at = "ran", !.res = res]
  <2>3. /\ n.req = m.req /\ n.server = m.server /\ n.route = m.route /\ n.at = "ran"
        /\ n.kind = "request" /\ n.res = res
    BY <2>1 DEF Message
  <2>4. runs[m.req] = << >> /\ (m.req \notin waits => outcome[m.req] = "none")
    BY <2>1 DEF MessageOf
  <2>5. runs'[m.req] = <<res>>
    <3>1. Append(<< >>, res) = <<res>>
      OBVIOUS
    <3>2. runs'[m.req] = Append(runs[m.req], res)
      BY <2>1, <2>2 DEF TypeOK
    <3> QED
      BY <2>4, <3>1, <3>2
  <2>6. \A r \in Requests \ {m.req} : runs'[r] = runs[r]
    BY <2>2 DEF TypeOK
  <2>7. UNCHANGED <<caller, sent, route, waits, result, outcome>>
    BY <1>10 DEF ReturnFromCallback, netVars, callVars
  <2>8. msgs' \subseteq (msgs \ {m}) \union {n}
    BY <2>2
  <2> HIDE DEF n
  <2> QED
    BY <2>3, <2>4, <2>5, <2>6, <2>7, <2>8, OneMoves
<1>11. ASSUME NEW m \in msgs, Reply(m)
       PROVE  Mail'
  <2> DEFINE n == [m EXCEPT !.kind = "response", !.at = "wire"]
  <2>1. MessageOf(m) /\ m \in Message /\ m.at = "ran"
    BY <1>11 DEF Mail, TypeOK, Reply
  <2>2. /\ n.req = m.req /\ n.server = m.server /\ n.route = m.route /\ n.at = "wire"
        /\ n.kind = "response" /\ n.res = m.res
    BY <2>1 DEF Message
  <2>3. msgs' \subseteq (msgs \ {m}) \union {n}
    BY <1>11 DEF Reply
  <2>4. UNCHANGED <<caller, sent, route, waits, ansVars>>
    BY <1>11 DEF Reply, netVars, callVars
  <2> HIDE DEF n
  <2> QED
    BY <2>1, <2>2, <2>3, <2>4, OneMoves DEF MessageOf, ansVars
<1>12. ASSUME NEW m \in msgs, NotifyResult(m)
       PROVE  Mail'
  <2>1. /\ MessageOf(m) /\ m \in Message /\ m.at = "batch" /\ m.kind = "response"
        /\ m.req \in Requests
    BY <1>12, <1>a DEF Mail, TypeOK, NotifyResult
  <2>2. m.res \in Results /\ m.res # "none" /\ runs[m.req] = <<m.res>>
    BY <2>1 DEF MessageOf, Results
  <2>3. UNCHANGED <<caller, sent, route, waits, runs>>
    BY <1>12 DEF NotifyResult, netVars, callVars
  <2>4. \A r \in Requests \ {m.req} : result'[r] = result[r] /\ outcome'[r] = outcome[r]
    <3>1. result \in [Requests -> Results \union {"none"}] /\ outcome \in [Requests -> Told]
      BY <1>b DEF TypeOK
    <3>2. /\ result' \in {result, [result EXCEPT ![m.req] = m.res]}
          /\ outcome' \in {outcome, [outcome EXCEPT ![m.req] = m.res]}
      BY <1>12 DEF NotifyResult
    <3> QED
      BY <3>1, <3>2
  <2>5. CASE m.req \in handlers
    <3> DEFINE n == [m EXCEPT !.at = "noted"]
    <3>1. /\ n.req = m.req /\ n.server = m.server /\ n.route = m.route /\ n.at = "noted"
          /\ n.kind = "response" /\ n.res = m.res
      BY <2>1 DEF Message
    <3>2. msgs' \subseteq (msgs \ {m}) \union {n}
      BY <1>12, <2>5 DEF NotifyResult, Moved
    <3>3. m.req \in waits => result'[m.req] = m.res
      BY <1>12, <2>1, <2>5 DEF NotifyResult, TypeOK
    <3> HIDE DEF n
    <3> QED
      BY <2>2, <2>3, <2>4, <3>1, <3>2, <3>3, OneMoves
  <2>6. CASE m.req \notin handlers
    <3>1. msgs' = msgs \ {m} /\ UNCHANGED <<result, outcome>>
      BY <1>12, <2>6 DEF NotifyResult
    <3> QED
      BY <1>b, <2>3, <3>1, FewerMessages
  <2> QED
    BY <2>5, <2>6
<1>13. ASSUME NEW m \in msgs, WakeCaller(m)
       PROVE  Mail'
  BY <1>b, <1>13, FewerMessages DEF WakeCaller, netVars
<1>14. ASSUME NEW p \in Procs, TakeBatch(p)
       PROVE  Mail'
  <2> DEFINE queued == {m \in msgs : Holder(m) = p /\ m.at = "queue"}
             In(m) == [m EXCEPT !.at = "batch"]
  <2>1. msgs' = (msgs \ queued) \union {In(m) : m \in queued}
    BY <1>14 DEF TakeBatch
  <2>2. UNCHANGED <<caller, sent, route, waits, ansVars>>
    BY <1>14 DEF TakeBatch, netVars, callVars
  <2>3. ASSUME NEW m \in msgs
        PROVE  MessageOf(m)'
    <3>1. MessageOf(m)
      BY DEF Mail
    <3> QED
      BY <2>2, <3>1 DEF MessageOf, ansVars
  <2>4. ASSUME NEW m \in queued
        PROVE  MessageOf(In(m))' /\ In(m).req = m.req
    <3>1. MessageOf(m) /\ m \in Message /\ m.at = "queue"
      BY DEF Mail, TypeOK
    <3>2. /\ In(m).req = m.req /\ In(m).server = m.server /\ In(m).route = m.route
          /\ In(m).at = "batch" /\ In(m).kind = m.kind /\ In(m).res = m.res
      BY <3>1 DEF Message
    <3> HIDE DEF In
    <3> QED
      BY <2>2, <3>1, <3>2 DEF MessageOf, ansVars
  <2> HIDE DEF In, queued
  <2>5. \A m \in msgs' : MessageOf(m)'
    BY <2>1, <2>3, <2>4
  <2>6. queued \subseteq msgs
    BY DEF queued
  <2>7. \A x \in msgs' : \E m \in msgs : /\ x.req = m.req
                                         /\ x = IF m \in queued THEN In(m) ELSE m
    BY <2>1, <2>4, <2>6
  <2>8. ASSUME NEW x \in msgs', NEW y \in msgs', x.req = y.req
        PROVE  x = y
    BY <2>7, <2>8 DEF Mail
  <2> QED
    BY <2>5, <2>8 DEF Mail
<1>15. ASSUME NEW p \in Procs, Stop(p)
       PROVE  Mail'
  <2>1. msgs' \subseteq msgs /\ UNCHANGED <<caller, route, sent, waits, ansVars>>
    BY <1>15 DEF Stop
  <2> QED
    BY <1>b, <2>1, FewerMessages DEF ansVars
<1>16. ASSUME NEW p \in Procs, NEW q \in Procs, Break(p, q)
       PROVE  Mail'
  <2>1. msgs' \subseteq msgs /\ UNCHANGED <<caller, sent, waits, ansVars>>
    BY <1>16 DEF Break, callVars
  <2>2. \A a, b \in Procs : route[a][b] <= route'[a][b]
    <3>1. route \in [Procs -> [Procs -> Nat]]
      BY <1>b DEF TypeOK
    <3>2. route' = [route EXCEPT ![p][q] = @ + 1]
      BY <1>16 DEF Break
    <3> QED
      BY <3>1, <3>2
  <2> QED
    BY <2>1, <2>2, FewerMessages DEF ansVars
<1>17. CASE Elsewhere
  BY <1>1, <1>17, ElsewhereQuiet DEF callVars
<1>18. CASE UNCHANGED vars
  BY <1>1, <1>18 DEF vars, netVars, callVars
<1> QED
  BY <1>2, <1>3, <1>4, <1>5, <1>6, <1>7, <1>8, <1>9, <1>10, <1>11, <1>12, <1>13,
     <1>14, <1>15, <1>16, <1>17, <1>18, NextCases
     DEF RequestThread, Handling
-----------------------------------------------------------------------------
(* Requests made in callbacks.                                              *)

LEMMA InitNestings == Init => Nestings
BY DEF Init, Nestings, NestedOf, Active, Requested

LEMMA StepNestings ==
    ASSUME TypeOK, Calls, Mail, Nestings, [Next]_vars
    PROVE  Nestings'
<1> SUFFICES ASSUME NEW r \in Requests
             PROVE  NestedOf(r)'
  BY DEF Nestings
<1>0. NestedOf(r) /\ CallOf(r)
  BY DEF Nestings, Calls
<1>1. CASE UNCHANGED <<pc, waits, handlers, sent, available>>
  BY <1>0, <1>1 DEF NestedOf, Active, Requested
<1>2. ASSUME Issuing, UNCHANGED <<waits, handlers, available>>,
             pc'[r] = pc[r] \/ {pc[r], pc'[r]} \subseteq {"sending", "issued"}
      PROVE  NestedOf(r)'
  <2>0. PICK p \in Procs, q \in Procs : \E k, due : Issue(p, q, k, due)
    BY <1>2 DEF Issuing
  <2>1. PICK k, due : Issue(p, q, k, due)
    BY <2>0
  <2>2. Requested' = Requested \union due /\ due \subseteq handlers
    BY <2>1, DueFacts
  <2> QED
    BY <1>0, <1>2, <2>2 DEF NestedOf, Active
<1>3. ASSUME NEW p \in Procs, NEW s \in Services, OnServiceConnected(p, s)
      PROVE  NestedOf(r)'
  BY <1>2, <1>3, ConnectIssuing DEF OnServiceConnected, ansVars
<1>4. ASSUME NEW q \in Requests, SendRequest(q)
      PROVE  NestedOf(r)'
  <2>1. pc'[r] = pc[r] \/ {pc[r], pc'[r]} \subseteq {"sending", "issued"}
    BY <1>4 DEF SendRequest, Step, TypeOK
  <2> QED
    BY <1>2, <1>4, <2>1, SendIssuing DEF SendRequest, ansVars
<1>5. ASSUME NEW q \in Requests, RequestRemote(q)
      PROVE  NestedOf(r)'
  BY <1>0, <1>5 DEF RequestRemote, Step, NestedOf, CallOf, Active, Requested, TypeOK, ansVars
<1>6. ASSUME NEW q \in Requests,
             \/ RequestLocally(q) \/ RefuseRequest(q) \/ AddHandler(q)
             \/ PickResponder(q) \/ ReadResult(q) \/ TimeOut(q)
      PROVE  NestedOf(r)'
  <2>1. CASE RequestLocally(q)
    BY <1>0, <2>1 DEF RequestLocally, Step, NestedOf, CallOf, Active, Requested, TypeOK
  <2>2. CASE RefuseRequest(q)
    BY <1>0, <2>2 DEF RefuseRequest, Step, NestedOf, Active, Requested, TypeOK
  <2>3. CASE AddHandler(q)
    BY <1>0, <2>3 DEF AddHandler, Step, NestedOf, Active, Requested, TypeOK, ansVars
  <2>4. CASE PickResponder(q)
    BY <1>0, <2>4 DEF PickResponder, Step, NestedOf, Active, Requested, TypeOK, ansVars
  <2>5. CASE ReadResult(q)
    BY <1>0, <2>5 DEF ReadResult, Step, NestedOf, Active, Requested, TypeOK
  <2>6. CASE TimeOut(q)
    BY <1>0, <2>6 DEF TimeOut, Step, NestedOf, Active, Requested, TypeOK
  <2> QED
    BY <1>6, <2>1, <2>2, <2>3, <2>4, <2>5, <2>6
<1>7. ASSUME NEW m \in msgs, WakeCaller(m)
      PROVE  NestedOf(r)'
  <2>1. Holder(m) = caller[m.req]
    BY <1>7 DEF WakeCaller, Mail, MessageOf, Holder
  <2>2. m.req \in Nested => ~Active(m.req)
    BY <1>7, <2>1, MailRequested DEF WakeCaller, Waiting
  <2>3. /\ UNCHANGED <<pc, waits, sent>>
        /\ available' = available \union {m.req} /\ handlers' \subseteq handlers
    BY <1>7 DEF WakeCaller
  <2> QED
    BY <1>0, <2>2, <2>3 DEF NestedOf, Active, Requested
<1>8. ASSUME NEW p \in Procs, Stop(p)
      PROVE  NestedOf(r)'
  <2>1. UNCHANGED <<pc, waits, sent, available>> /\ handlers' \subseteq handlers
    BY <1>8 DEF Stop, ansVars
  <2> QED
    BY <1>0, <2>1 DEF NestedOf, Active, Requested
<1>9. ASSUME NEW m \in msgs,
             \/ Receive(m) \/ StartCallback(m) \/ ReturnFromCallback(m)
             \/ Reply(m) \/ NotifyResult(m)
      PROVE  NestedOf(r)'
  BY <1>1, <1>9 DEF Receive, StartCallback, ReturnFromCallback, Reply, NotifyResult,
                    callVars, ansVars
<1>10. ASSUME NEW p \in Procs, NEW q \in Procs, TakeBatch(p) \/ Break(p, q)
       PROVE  NestedOf(r)'
  BY <1>1, <1>10 DEF TakeBatch, Break, callVars, ansVars
<1>11. CASE Elsewhere
  BY <1>1, <1>11, ElsewhereQuiet DEF callVars, ansVars
<1>12. CASE UNCHANGED vars
  BY <1>1, <1>12 DEF vars, callVars, ansVars
<1> QED
  BY <1>3, <1>4, <1>5, <1>6, <1>7, <1>8, <1>9, <1>10, <1>11, <1>12, NextCases
     DEF RequestThread, Handling

-----------------------------------------------------------------------------
(* What only grows, and what only ends.                                     *)

Grows ==
    /\ caller' = caller /\ up' \subseteq up
    /\ sent \subseteq sent' /\ available \subseteq available'
    /\ \A p, q \in Procs : route'[p][q] >= route[p][q]
    /\ \A s \in Services : /\ Announced(s) => Announced(s)'
                           /\ offer[s] \in {"removing", "withdrawn"} =>
                                 offer'[s] \in {"removing", "withdrawn"}

LEMMA StepGrows ==
    ASSUME TypeOK, TypeOK', [Next]_vars
    PROVE  Grows
<1>0. \A p, q \in Procs : route[p][q] \in Nat
  BY DEF TypeOK
<1>1. CASE UNCHANGED <<caller, up, sent, available, route, offer>>
  BY <1>0, <1>1 DEF Grows, Announced
<1>2. CASE /\ UNCHANGED <<caller, up, available, route, offer>>
           /\ sent \subseteq sent'
  BY <1>0, <1>2 DEF Grows, Announced
<1>3. ASSUME NEW p \in Procs, NEW s \in Services, OnServiceConnected(p, s)
      PROVE  Grows
  BY <1>2, <1>3, ConnectIssuing DEF OnServiceConnected, Issuing, Issue, ansVars
<1>4. ASSUME NEW r \in Requests, SendRequest(r)
      PROVE  Grows
  BY <1>2, <1>4, SendIssuing DEF SendRequest, Issuing, Issue, ansVars
<1>5. CASE Elsewhere
  <2>1. UNCHANGED <<caller, up, route, sent, available>>
    BY <1>5, ElsewhereQuiet DEF callVars, ansVars
  <2>2. ASSUME NEW s \in Services
        PROVE  /\ Announced(s) => Announced(s)'
               /\ offer[s] \in {"removing", "withdrawn"} =>
                     offer'[s] \in {"removing", "withdrawn"}
    <3>1. ASSUME NEW t \in Services,
                 AddService(t) \/ AnnounceService(t) \/ RemoveService(t) \/ WithdrawService(t)
          PROVE  /\ Announced(s) => Announced(s)'
                 /\ offer[s] \in {"removing", "withdrawn"} =>
                       offer'[s] \in {"removing", "withdrawn"}
      BY <3>1 DEF AddService, AnnounceService, RemoveService, WithdrawService, Announced, TypeOK
    <3>2. CASE UNCHANGED offer
      BY <3>2 DEF Announced
    <3> QED
      BY <1>5, <3>1, <3>2 DEF Elsewhere, Learn, Unlearn, Expire, Establish
  <2> QED
    BY <1>0, <2>1, <2>2 DEF Grows
<1>6. ASSUME NEW p \in Procs, NEW q \in Procs, Break(p, q)
      PROVE  Grows
  <2>1. /\ route \in [Procs -> [Procs -> Nat]]
        /\ route' = [route EXCEPT ![p][q] = @ + 1]
    BY <1>6 DEF Break, TypeOK
  <2>2. ASSUME NEW a \in Procs, NEW b \in Procs
        PROVE  route'[a][b] >= route[a][b]
    BY ONLY <2>1
  <2> QED
    BY <1>6, <2>2 DEF Break, Grows, Announced, callVars, ansVars
<1>7. ASSUME NEW p \in Procs, Stop(p)
      PROVE  Grows
  BY <1>0, <1>7 DEF Stop, Grows, Announced, ansVars
<1>8. ASSUME NEW m \in msgs, WakeCaller(m)
      PROVE  Grows
  BY <1>0, <1>8 DEF WakeCaller, Grows, Announced, netVars
<1>9. ASSUME NEW m \in msgs,
             \/ Receive(m) \/ StartCallback(m) \/ ReturnFromCallback(m)
             \/ Reply(m) \/ NotifyResult(m)
      PROVE  Grows
  BY <1>1, <1>9 DEF Receive, StartCallback, ReturnFromCallback, Reply, NotifyResult,
                    netVars, callVars, ansVars
<1>10. ASSUME NEW p \in Procs, TakeBatch(p)
       PROVE  Grows
  BY <1>1, <1>10 DEF TakeBatch, netVars, callVars, ansVars
<1>11. ASSUME NEW r \in Requests,
              \/ RequestLocally(r) \/ RequestRemote(r) \/ RefuseRequest(r)
              \/ AddHandler(r) \/ PickResponder(r) \/ ReadResult(r) \/ TimeOut(r)
       PROVE  Grows
  BY <1>1, <1>11 DEF RequestLocally, RequestRemote, RefuseRequest, AddHandler,
                     PickResponder, ReadResult, TimeOut, netVars, ansVars
<1>12. CASE UNCHANGED vars
  BY <1>1, <1>12 DEF vars, netVars, callVars, ansVars
<1> QED
  BY <1>3, <1>4, <1>5, <1>6, <1>7, <1>8, <1>9, <1>10, <1>11, <1>12, NextCases
     DEF RequestThread, Handling

LEMMA HinderedGrows ==
    ASSUME TypeOK, TypeOK', Grows, NEW r \in Requests, Hindered(r)
    PROVE  Hindered(r)'
<1>1. PICK x \in sent : /\ x.req = r
                        /\ \/ {caller[r], x.to} \ up # {}
                           \/ route[caller[r]][x.to] > 0
                           \/ \E s \in Services : /\ s.proc = x.to /\ Matches(s, Want[r])
                                                  /\ offer[s] \in {"removing", "withdrawn"}
  BY DEF Hindered
<1>2. x \in sent' /\ caller[r] \in Procs /\ x.to \in Procs
  BY <1>1 DEF Grows, TypeOK
<1>3. /\ route[caller[r]][x.to] \in Nat /\ route'[caller[r]][x.to] \in Nat
      /\ route'[caller[r]][x.to] >= route[caller[r]][x.to]
  <2>1. route \in [Procs -> [Procs -> Nat]] /\ route' \in [Procs -> [Procs -> Nat]]
    BY DEF TypeOK
  <2>2. \A p, q \in Procs : route'[p][q] >= route[p][q]
    BY DEF Grows
  <2> QED
    BY <1>2, <2>1, <2>2
<1>4. \/ {caller'[r], x.to} \ up' # {}
      \/ route'[caller'[r]][x.to] > 0
      \/ \E s \in Services : /\ s.proc = x.to /\ Matches(s, Want[r])
                             /\ offer'[s] \in {"removing", "withdrawn"}
  BY <1>1, <1>3 DEF Grows
<1> QED
  BY <1>1, <1>2, <1>4 DEF Hindered, Matches
-----------------------------------------------------------------------------
(* Where requests are sent to.                                              *)

\* Someone at q announced what r is made for.
Served(q, r) == \E s \in Services : s.proc = q /\ Matches(s, Want[r]) /\ Announced(s)

LEMMA ServedStays ==
    ASSUME Grows, NEW q, NEW r, Served(q, r)
    PROVE  Served(q, r)'
BY DEF Served, Grows, Matches

LEMMA OfferedServed == Offered => \A x \in picked \union sent : Served(x.to, x.req)
BY DEF Offered, Served

LEMMA InitOffered == Init => Offered
<1> SUFFICES ASSUME Init PROVE Offered
  OBVIOUS
<1>1. \A s \in Standing : Announced(s)
  BY RequestsAssumption DEF Init, Announced
<1>2. \A p \in Procs : known[p] = Standing
  BY DEF Init
<1>3. picked \union sent = {}
  BY DEF Init
<1> QED
  BY <1>1, <1>2, <1>3 DEF Offered

LEMMA StepOffered ==
    ASSUME TypeOK, TypeOK', Calls, Offered, [Next]_vars
    PROVE  Offered'
<1>0. Grows
  BY StepGrows
<1>k. \A p \in Procs : known[p] \subseteq Services
  BY DEF TypeOK
<1>t. known \in [Procs -> SUBSET Services]
  BY DEF TypeOK
<1>1. ASSUME \A p \in Procs : \A s \in known'[p] : s \in known[p] \/ Announced(s)',
             \A x \in picked' \union sent' : x \in picked \union sent \/ Served(x.to, x.req)
      PROVE  Offered'
  <2>1. ASSUME NEW p \in Procs, NEW s \in known'[p]
        PROVE  Announced(s)'
    <3>1. CASE s \in known[p]
      BY <1>0, <1>k, <3>1 DEF Offered, Grows
    <3> QED
      BY <1>1, <3>1
  <2>2. ASSUME NEW x \in picked' \union sent'
        PROVE  Served(x.to, x.req)'
    <3>1. Served(x.to, x.req)
      BY <1>1, OfferedServed
    <3> QED
      BY <1>0, <3>1, ServedStays
  <2> QED
    BY <2>1, <2>2 DEF Offered, Served
<1>2. CASE UNCHANGED <<known, picked, sent>>
  BY <1>1, <1>2
<1>3. ASSUME NEW p \in Procs, NEW s \in Services, OnServiceConnected(p, s)
      PROVE  Offered'
  <2>1. UNCHANGED <<known, picked>>
    BY <1>3 DEF OnServiceConnected
  <2>2. CASE \E q : Issue(p, q, s, {})
    <3>1. sent' = sent
      BY <2>2 DEF Issue
    <3> QED
      BY <1>1, <2>1, <3>1
  <2>3. CASE \E x \in Responders(p, s) : \E due : Issue(p, x.proc, s, due)
    <3>1. PICK t \in Responders(p, s) : \E due : Issue(p, t.proc, s, due)
      BY <2>3
    <3>2. PICK due : Issue(p, t.proc, s, due)
      BY <3>1
    <3>3. t \in Services /\ Matches(t, s) /\ Announced(t)
      BY <1>k DEF Responders, Offered
    <3>4. \A r \in due : Matches(Want[r], s)
      BY <3>2, DueFacts
    <3>5. \A r \in due : Served(t.proc, r)
      BY <3>3, <3>4 DEF Served, Matches
    <3>6. \A x \in sent' : x \in sent \/ Served(x.to, x.req)
      BY <3>2, <3>5 DEF Issue
    <3> QED
      BY <1>1, <2>1, <3>6
  <2> QED
    BY <1>3, <2>2, <2>3, ConnectIssuing
<1>4. ASSUME NEW r \in Requests, SendRequest(r)
      PROVE  Offered'
  <2>1. UNCHANGED known /\ picked' \subseteq picked
    BY <1>4 DEF SendRequest
  <2>2. PICK x \in picked : x.req = r /\ \E due : Issue(caller[r], x.to, Want[r], due)
    BY <1>4, SendIssuing
  <2>3. PICK due : Issue(caller[r], x.to, Want[r], due)
    BY <2>2
  <2>4. \A q \in due : Matches(Want[q], Want[r])
    BY <2>3, DueFacts
  <2>5. Served(x.to, r)
    BY <2>2, OfferedServed
  <2>6. \A q \in due : Served(x.to, q)
    BY <2>4, <2>5 DEF Served, Matches
  <2>7. \A y \in sent' : y \in sent \/ Served(y.to, y.req)
    BY <2>3, <2>6 DEF Issue
  <2> QED
    BY <1>1, <2>1, <2>7
<1>5. ASSUME NEW r \in Requests, PickResponder(r)
      PROVE  Offered'
  <2>1. UNCHANGED <<known, sent>>
    BY <1>5 DEF PickResponder, netVars
  <2>2. CASE UNCHANGED picked
    BY <1>1, <2>1, <2>2
  <2>3. ASSUME NEW s \in Responders(caller[r], Want[r]),
               picked' = picked \union {[req |-> r, to |-> s.proc]}
        PROVE  Offered'
    <3>1. s \in Services /\ Matches(s, Want[r]) /\ Announced(s)
      BY <1>k DEF Responders, Offered, TypeOK
    <3>2. Served(s.proc, r)
      BY <3>1 DEF Served
    <3> QED
      BY <1>1, <2>1, <2>3, <3>2
  <2> QED
    BY <1>5, <2>2, <2>3 DEF PickResponder
<1>6. ASSUME NEW s \in Services,
             AddService(s) \/ AnnounceService(s) \/ RemoveService(s) \/ WithdrawService(s)
      PROVE  Offered'
  <2>1. UNCHANGED <<picked, sent>>
    BY <1>6 DEF AddService, AnnounceService, RemoveService, WithdrawService, callVars
  <2>2. CASE AnnounceService(s)
    <3>1. Announced(s)'
      BY <2>2 DEF AnnounceService, Announced, TypeOK
    <3>2. \A p \in Procs : known'[p] \subseteq known[p] \union {s}
      BY <2>2 DEF AnnounceService, TypeOK
    <3> QED
      BY <1>1, <2>1, <3>1, <3>2
  <2>3. CASE AddService(s) \/ RemoveService(s) \/ WithdrawService(s)
    <3>1. \A p \in Procs : known'[p] \subseteq known[p]
      <4>1. CASE UNCHANGED known
        BY <4>1
      <4>2. CASE known' = [known EXCEPT ![s.proc] = @ \ {s}]
        BY <4>2, <1>t
      <4> QED
        BY <2>3, <4>1, <4>2 DEF AddService, RemoveService, WithdrawService
    <3> QED
      BY <1>1, <2>1, <3>1
  <2> QED
    BY <1>6, <2>2, <2>3
<1>7. ASSUME NEW p \in Procs, NEW s \in Services, Learn(p, s) \/ Unlearn(p, s)
      PROVE  Offered'
  <2>1. UNCHANGED <<picked, sent>>
    BY <1>7 DEF Learn, Unlearn, callVars
  <2>2. CASE Learn(p, s)
    <3>1. Announced(s)'
      BY <2>2 DEF Learn, Announced
    <3>2. \A q \in Procs : known'[q] \subseteq known[q] \union {s}
      BY <2>2 DEF Learn, TypeOK
    <3> QED
      BY <1>1, <2>1, <3>1, <3>2
  <2>3. CASE Unlearn(p, s)
    <3>1. \A q \in Procs : known'[q] \subseteq known[q]
      BY <2>3 DEF Unlearn, TypeOK
    <3> QED
      BY <1>1, <2>1, <3>1
  <2> QED
    BY <1>7, <2>2, <2>3
<1>8. ASSUME NEW p \in Procs, NEW q \in Procs,
             Expire(p, q) \/ Establish(p, q) \/ Break(p, q) \/ Stop(p) \/ TakeBatch(p)
      PROVE  Offered'
  <2>1. UNCHANGED sent /\ picked' \subseteq picked
    BY <1>8 DEF Expire, Establish, Break, Stop, TakeBatch, callVars
  <2>2. \A a \in Procs : known'[a] \subseteq known[a]
    <3>1. CASE UNCHANGED known
      BY <3>1
    <3>2. CASE \E some \in SUBSET known[p] : known' = [known EXCEPT ![p] = some]
      BY <3>2, <1>t
    <3>3. CASE Expire(p, q)
      <4>1. known' = [known EXCEPT ![p] = {s \in @ : s.proc # q}]
        BY <3>3 DEF Expire
      <4>2. known' = [known EXCEPT ![p] = {s \in known[p] : s.proc # q}]
        BY <4>1, <1>t
      <4> QED
        BY <3>2, <4>2
    <3>4. CASE Stop(p)
      BY <3>2, <3>4 DEF Stop
    <3> QED
      BY <1>8, <3>1, <3>3, <3>4 DEF Establish, Break, TakeBatch, netVars
  <2> QED
    BY <1>1, <2>1, <2>2
<1>9. ASSUME NEW m \in msgs, Handling(m)
      PROVE  Offered'
  BY <1>2, <1>9 DEF Handling, Receive, StartCallback, ReturnFromCallback, Reply,
                    NotifyResult, WakeCaller, netVars, callVars
<1>10. ASSUME NEW r \in Requests,
              \/ RequestLocally(r) \/ RequestRemote(r) \/ RefuseRequest(r)
              \/ AddHandler(r) \/ ReadResult(r) \/ TimeOut(r)
       PROVE  Offered'
  BY <1>2, <1>10 DEF RequestLocally, RequestRemote, RefuseRequest, AddHandler,
                     ReadResult, TimeOut, netVars
<1>11. CASE UNCHANGED vars
  BY <1>2, <1>11 DEF vars, netVars, callVars
<1> QED
  BY <1>3, <1>4, <1>5, <1>6, <1>7, <1>8, <1>9, <1>10, <1>11, NextCases
     DEF Elsewhere, RequestThread

LEMMA InitConnected == Init => Connected
BY DEF Init, Connected

\* The connection a request went through, in one step.
StillConnected(x) ==
    \/ link[caller[x.req]][x.to] = "up"
    \/ route[caller[x.req]][x.to] > 0
    \/ {caller[x.req], x.to} \ up # {}

LEMMA StepConnected ==
    ASSUME TypeOK, TypeOK', Calls, Connected, [Next]_vars
    PROVE  Connected'
<1>0. Grows
  BY StepGrows
<1>t. /\ route \in [Procs -> [Procs -> Nat]] /\ route' \in [Procs -> [Procs -> Nat]]
      /\ \A x \in sent' : caller[x.req] \in Procs /\ x.to \in Procs
      /\ caller' = caller
  BY <1>0 DEF TypeOK, Grows
<1>1. ASSUME \A a, b \in Procs : \/ link[a][b] = "up" => link'[a][b] = "up"
                                 \/ route'[a][b] > 0
                                 \/ {a, b} \ up' # {},
             \A x \in sent' : x \in sent \/ link'[caller[x.req]][x.to] = "up"
      PROVE  Connected'
  <2>1. ASSUME NEW x \in sent'
        PROVE  StillConnected(x)'
    <3>1. CASE x \in sent
      <4>1. StillConnected(x)
        BY <3>1 DEF Connected, StillConnected
      <4>2. caller[x.req] \in Procs /\ x.to \in Procs
        BY <1>t
      <4>3. route'[caller[x.req]][x.to] >= route[caller[x.req]][x.to] /\ up' \subseteq up
        BY <1>0, <4>2 DEF Grows
      <4>4. /\ route[caller[x.req]][x.to] \in Nat
            /\ route'[caller[x.req]][x.to] \in Nat
        BY <1>t, <4>2
      <4> QED
        BY <1>1, <1>t, <4>1, <4>2, <4>3, <4>4 DEF StillConnected
    <3>2. CASE link'[caller[x.req]][x.to] = "up"
      BY <1>t, <3>2 DEF StillConnected
    <3> QED
      BY <1>1, <3>1, <3>2
  <2> QED
    BY <2>1 DEF Connected, StillConnected
<1>2. CASE UNCHANGED <<link, sent>>
  BY <1>1, <1>2
<1>3. ASSUME NEW p \in Procs, NEW s \in Services, OnServiceConnected(p, s)
      PROVE  Connected'
  <2>1. PICK q, k, due : Issue(p, q, k, due)
    BY <1>3, ConnectIssuing
  <2>2. \A x \in sent' : x \in sent \/ link'[caller[x.req]][x.to] = "up"
    <3>1. \A r \in due : caller[r] = p
      BY <2>1, DueFacts
    <3> QED
      BY <2>1, <3>1 DEF Issue
  <2> QED
    BY <1>1, <1>3, <2>2, ConnectIssuing
<1>4. ASSUME NEW r \in Requests, SendRequest(r)
      PROVE  Connected'
  <2>1. PICK q, due : Issue(caller[r], q, Want[r], due)
    BY <1>4, SendIssuing
  <2>2. \A x \in sent' : x \in sent \/ link'[caller[x.req]][x.to] = "up"
    <3>1. \A d \in due : caller[d] = caller[r]
      BY <2>1, DueFacts
    <3> QED
      BY <2>1, <3>1 DEF Issue
  <2> QED
    BY <1>1, <1>4, <2>2, SendIssuing
<1>5. ASSUME NEW p \in Procs, NEW q \in Procs, Establish(p, q)
      PROVE  Connected'
  <2>1. \A a, b \in Procs : link[a][b] = "up" => link'[a][b] = "up"
    BY <1>5 DEF Establish, TypeOK
  <2> QED
    BY <1>1, <1>5, <2>1 DEF Establish, callVars
<1>6. ASSUME NEW p \in Procs, NEW q \in Procs, Break(p, q)
      PROVE  Connected'
  <2>1. link \in [Procs -> [Procs -> {"none", "dialing", "up"}]]
    BY DEF TypeOK
  <2>2. /\ link' = [link EXCEPT ![p][q] = "dialing"]
        /\ route' = [route EXCEPT ![p][q] = @ + 1]
    BY <1>6 DEF Break
  <2>3. route'[p][q] > 0
    BY <1>t, <2>2
  <2>4. \A a, b \in Procs : (link[a][b] = "up" => link'[a][b] = "up") \/ route'[a][b] > 0
    BY <2>1, <2>2, <2>3
  <2> QED
    BY <1>1, <1>6, <2>4 DEF Break, callVars
<1>7. ASSUME NEW p \in Procs, Stop(p)
      PROVE  Connected'
  <2>1. \A a, b \in Procs : a # p /\ b # p => link'[a][b] = link[a][b]
    BY <1>7 DEF Stop, TypeOK
  <2>2. p \notin up'
    BY <1>7 DEF Stop
  <2>3. \A a, b \in Procs : link'[a][b] = link[a][b] \/ {a, b} \ up' # {}
    BY <2>1, <2>2
  <2> QED
    BY <1>1, <1>7, <2>3 DEF Stop
<1>8. CASE Elsewhere /\ UNCHANGED link
  BY <1>2, <1>8, ElsewhereQuiet DEF callVars
<1>9. ASSUME NEW m \in msgs, Handling(m)
      PROVE  Connected'
  BY <1>2, <1>9 DEF Handling, Receive, StartCallback, ReturnFromCallback, Reply,
                    NotifyResult, WakeCaller, netVars, callVars
<1>10. ASSUME NEW r \in Requests,
              \/ RequestLocally(r) \/ RequestRemote(r) \/ RefuseRequest(r)
              \/ AddHandler(r) \/ PickResponder(r) \/ ReadResult(r) \/ TimeOut(r)
       PROVE  Connected'
  BY <1>2, <1>10 DEF RequestLocally, RequestRemote, RefuseRequest, AddHandler,
                     PickResponder, ReadResult, TimeOut, netVars
<1>11. ASSUME NEW p \in Procs, TakeBatch(p)
       PROVE  Connected'
  BY <1>2, <1>11 DEF TakeBatch, netVars, callVars
<1>12. CASE UNCHANGED vars
  BY <1>2, <1>12 DEF vars, netVars, callVars
<1>13. CASE Elsewhere
  BY <1>5, <1>8, <1>13 DEF Elsewhere, AddService, AnnounceService, RemoveService,
                           WithdrawService, Learn, Unlearn, Expire
<1> QED
  BY <1>3, <1>4, <1>6, <1>7, <1>9, <1>10, <1>11, <1>12, <1>13, NextCases
     DEF RequestThread
-----------------------------------------------------------------------------
(* No request is lost without a cause.                                      *)

Conserved(r) == r \in available \/ Hindered(r) \/ \E m \in msgs : m.req = r

LEMMA InitConserved == Init => RequestConserved
BY DEF Init, RequestConserved, Requested

LEMMA StepConserved ==
    ASSUME TypeOK, TypeOK', Calls, Calls', Mail, Offered, Connected, RequestConserved, [Next]_vars
    PROVE  RequestConserved'
<1>0. Grows
  BY StepGrows
<1>c. caller' = caller /\ available \subseteq available'
  BY <1>0 DEF Grows
<1>q. /\ Requested \subseteq Requests /\ Requested' \subseteq Requests
      /\ \A r \in Requested : Conserved(r)
  <2>1. sent \subseteq [req : Requests, to : Procs] /\ sent' \subseteq [req : Requests, to : Procs]
    BY DEF TypeOK
  <2> QED
    BY <2>1 DEF Requested, RequestConserved, Conserved
<1>1. ASSUME \A r \in Requested' : r \in Requested \/ \E m \in msgs' : m.req = r,
             \A m \in msgs : Conserved(m.req)'
      PROVE  RequestConserved'
  <2>1. ASSUME NEW r \in Requested'
        PROVE  Conserved(r)'
    <3>1. CASE r \in available
      BY <1>c, <3>1 DEF Conserved
    <3>2. CASE Hindered(r)
      BY <1>0, <1>q, <3>2, HinderedGrows DEF Conserved
    <3>3. CASE \E m \in msgs : m.req = r
      BY <1>1, <3>3
    <3>4. CASE \E m \in msgs' : m.req = r
      BY <3>4 DEF Conserved
    <3> QED
      BY <1>1, <1>q, <3>1, <3>2, <3>3, <3>4 DEF Conserved
  <2> QED
    BY <2>1 DEF RequestConserved, Conserved
<1>2. ASSUME msgs \subseteq msgs',
             \A r \in Requested' : r \in Requested \/ \E m \in msgs' : m.req = r
      PROVE  RequestConserved'
  BY <1>1, <1>2 DEF Conserved
<1>3. CASE UNCHANGED <<msgs, sent>>
  BY <1>2, <1>3 DEF Requested
<1>4. ASSUME Issuing
      PROVE  RequestConserved'
  <2>1. PICK p, q, k, due : Issue(p, q, k, due)
    BY <1>4 DEF Issuing
  <2>2. Requested' = Requested \union due
    BY <2>1, DueFacts
  <2>3. \A r \in due : RequestMsg(r, q) \in msgs' /\ RequestMsg(r, q).req = r
    BY <2>1 DEF Issue, RequestMsg
  <2> QED
    BY <1>2, <2>1, <2>2, <2>3 DEF Issue
<1>5. ASSUME NEW m \in msgs, UNCHANGED sent, msgs \ {m} \subseteq msgs', Conserved(m.req)'
      PROVE  RequestConserved'
  <2>1. \A x \in msgs : x \in msgs' \/ x = m
    BY <1>5
  <2> QED
    BY <1>1, <1>5, <2>1 DEF Conserved, Requested
<1>6. ASSUME NEW m \in msgs, NEW n, UNCHANGED sent,
             msgs' = (msgs \ {m}) \union {n}, n.req = m.req
      PROVE  RequestConserved'
  BY <1>5, <1>6 DEF Conserved
\* Where a message came from or went to, and what that says if it is lost.
<1>7. ASSUME NEW m \in msgs, UNCHANGED sent,
             \/ {caller[m.req], m.server} \ up' # {}
             \/ route'[caller[m.req]][m.server] > 0
             \/ \E s \in Services : /\ s.proc = m.server /\ Matches(s, Want[m.req])
                                    /\ offer'[s] \in {"removing", "withdrawn"}
      PROVE  Conserved(m.req)'
  <2>1. PICK x \in sent' : x = [req |-> m.req, to |-> m.server]
    BY <1>7 DEF Mail, MessageOf
  <2>2. x.req = m.req /\ x.to = m.server
    BY <2>1
  <2>3. Hindered(m.req)'
    BY <1>7, <1>c, <2>1, <2>2 DEF Hindered, Matches
  <2> QED
    BY <2>3 DEF Conserved
<1>8. ASSUME NEW m \in msgs, Receive(m)
      PROVE  RequestConserved'
  <2>1. m \in Message
    BY DEF TypeOK
  <2>2. [m EXCEPT !.at = "queue"].req = m.req
    BY <2>1 DEF Message
  <2> QED
    BY <1>6, <1>8, <2>2 DEF Receive, Move, Moved, callVars
<1>9. ASSUME NEW m \in msgs, StartCallback(m)
      PROVE  RequestConserved'
  <2>1. m \in Message
    BY DEF TypeOK
  <2>2. [m EXCEPT !.at = "calling"].req = m.req
    BY <2>1 DEF Message
  <2>3. CASE Serving(m.server, Want[m.req]) # {} /\ Move(m, "batch", "calling")
    BY <1>6, <1>9, <2>2, <2>3 DEF StartCallback, Move, Moved, callVars
  <2>4. CASE Serving(m.server, Want[m.req]) = {} /\ msgs' = msgs \ {m}
    <3>1. [req |-> m.req, to |-> m.server] \in sent
      BY DEF Mail, MessageOf
    <3>2. Served(m.server, m.req)
      BY <3>1, OfferedServed
    <3>3. PICK s \in Services : s.proc = m.server /\ Matches(s, Want[m.req]) /\ Announced(s)
      BY <3>2 DEF Served
    <3>4. offer[s] \notin {"adding", "on"}
      BY <2>4, <3>3 DEF Serving
    <3>5. offer[s] \in {"removing", "withdrawn"} /\ UNCHANGED <<offer, sent>>
      BY <1>9, <3>3, <3>4 DEF Announced, TypeOK, StartCallback, netVars, callVars
    <3>6. Conserved(m.req)'
      BY <1>7, <3>3, <3>5
    <3> QED
      BY <1>5, <2>4, <3>5, <3>6
  <2> QED
    BY <1>9, <2>3, <2>4 DEF StartCallback
<1>10. ASSUME NEW m \in msgs, ReturnFromCallback(m)
       PROVE  RequestConserved'
  <2>1. m \in Message
    BY DEF TypeOK
  <2>2. PICK res : msgs' = (msgs \ {m}) \union {[m EXCEPT !.at = "ran", !.res = res]}
    BY <1>10 DEF ReturnFromCallback
  <2>3. [m EXCEPT !.at = "ran", !.res = res].req = m.req
    BY <2>1 DEF Message
  <2> QED
    BY <1>6, <1>10, <2>2, <2>3 DEF ReturnFromCallback, callVars
<1>11. ASSUME NEW m \in msgs, Reply(m)
       PROVE  RequestConserved'
  <2>1. m \in Message /\ UNCHANGED <<up, link, route, sent>>
    BY <1>11 DEF TypeOK, Reply, netVars, callVars
  <2>2. [m EXCEPT !.kind = "response", !.at = "wire"].req = m.req
    BY <2>1 DEF Message
  <2>3. CASE CanReply(m)
    BY <1>6, <1>11, <2>1, <2>2, <2>3 DEF Reply
  <2>4. CASE ~CanReply(m)
    <3>1. m.req \in Requests /\ m.server \in Procs /\ caller[m.req] \in Procs
      BY MailRequested DEF TypeOK
    <3>2. PICK x \in sent : x = [req |-> m.req, to |-> m.server]
      BY DEF Mail, MessageOf
    <3>3. \/ link[caller[m.req]][m.server] = "up"
          \/ route[caller[m.req]][m.server] > 0
          \/ {caller[m.req], m.server} \ up # {}
      BY <3>2 DEF Connected
    <3>4. route[caller[m.req]][m.server] # m.route => route[caller[m.req]][m.server] > 0
      <4>0. route \in [Procs -> [Procs -> Nat]]
        BY DEF TypeOK
      <4>1. route[caller[m.req]][m.server] \in Nat
        BY <3>1, <4>0
      <4>2. m.route \in Nat
        BY <2>1 DEF Message
      <4>3. m.route <= route[caller[m.req]][m.server]
        BY DEF Mail, MessageOf
      <4> QED
        BY <4>1, <4>2, <4>3
    <3>5. \/ route[caller[m.req]][m.server] > 0
          \/ {caller[m.req], m.server} \ up # {}
      BY <2>4, <3>3, <3>4 DEF CanReply
    <3>6. Conserved(m.req)'
      BY <1>7, <2>1, <3>5
    <3>7. msgs \ {m} \subseteq msgs'
      BY <1>11 DEF Reply
    <3> QED
      BY <1>5, <2>1, <3>6, <3>7
  <2> QED
    BY <2>3, <2>4
<1>12. ASSUME NEW m \in msgs, NotifyResult(m)
       PROVE  RequestConserved'
  <2>1. m \in Message /\ UNCHANGED <<up, sent>>
    BY <1>12 DEF TypeOK, NotifyResult, netVars, callVars
  <2>2. [m EXCEPT !.at = "noted"].req = m.req
    BY <2>1 DEF Message
  <2>3. CASE m.req \in handlers
    BY <1>6, <1>12, <2>1, <2>2, <2>3 DEF NotifyResult, Moved
  <2>4. CASE m.req \notin handlers
    <3>1. CallOf(m.req) /\ m.req \in Requested
      BY MailRequested DEF Calls
    <3>2. m.req \in available \/ caller[m.req] \notin up
      BY <2>4, <3>1 DEF CallOf
    <3>3. caller[m.req] \notin up => {caller[m.req], m.server} \ up # {}
      OBVIOUS
    <3>4. Conserved(m.req)'
      BY <1>7, <1>c, <2>1, <3>2, <3>3 DEF Conserved
    <3>5. msgs' = msgs \ {m}
      BY <1>12, <2>4 DEF NotifyResult
    <3> QED
      BY <1>5, <2>1, <3>4, <3>5
  <2> QED
    BY <2>3, <2>4
<1>13. ASSUME NEW m \in msgs, WakeCaller(m)
       PROVE  RequestConserved'
  BY <1>5, <1>13 DEF WakeCaller, Conserved
<1>14. ASSUME NEW p \in Procs, TakeBatch(p)
       PROVE  RequestConserved'
  <2> DEFINE In(m) == [m EXCEPT !.at = "batch"]
  <2>1. msgs' = (msgs \ {m \in msgs : Holder(m) = p /\ m.at = "queue"})
                   \union {In(m) : m \in {m \in msgs : Holder(m) = p /\ m.at = "queue"}}
    BY <1>14 DEF TakeBatch
  <2>2. ASSUME NEW m \in msgs
        PROVE  In(m).req = m.req
    <3>1. m \in Message
      BY DEF TypeOK
    <3> QED
      BY <3>1 DEF Message
  <2> HIDE DEF In
  <2>3. \A m \in msgs : m \in msgs' \/ In(m) \in msgs'
    BY <2>1
  <2>4. \A m \in msgs : Conserved(m.req)'
    BY <2>2, <2>3 DEF Conserved
  <2> QED
    BY <1>1, <1>14, <2>4 DEF TakeBatch, callVars, Requested
<1>15. ASSUME NEW p \in Procs, Stop(p)
       PROVE  RequestConserved'
  <2>1. UNCHANGED sent /\ up' = up \ {p}
    BY <1>15 DEF Stop
  <2>2. PICK lost \in SUBSET {m \in msgs : m.at = "wire"} :
          /\ \A m \in lost : m.server = p \/ caller[m.req] = p
          /\ msgs' = {m \in msgs \ lost : Holder(m) # p}
    BY <1>15 DEF Stop
  <2>3. ASSUME NEW m \in msgs
        PROVE  Conserved(m.req)'
    <3>1. CASE m \in msgs'
      BY <3>1 DEF Conserved
    <3>2. CASE m.server = p \/ caller[m.req] = p
      BY <1>7, <2>1, <3>2
    <3> QED
      BY <2>2, <3>1, <3>2 DEF Holder
  <2> QED
    BY <1>1, <2>1, <2>3 DEF Requested
<1>16. ASSUME NEW p \in Procs, NEW q \in Procs, Break(p, q)
       PROVE  RequestConserved'
  <2>1. UNCHANGED sent /\ route' = [route EXCEPT ![p][q] = @ + 1]
    BY <1>16 DEF Break, callVars
  <2>2. route'[p][q] > 0
    <3>1. route \in [Procs -> [Procs -> Nat]]
      BY DEF TypeOK
    <3> QED
      BY <2>1, <3>1
  <2>3. ASSUME NEW m \in msgs
        PROVE  Conserved(m.req)'
    <3>1. CASE m \in msgs'
      BY <3>1 DEF Conserved
    <3>2. CASE m \in OnWire(p, q)
      BY <1>7, <2>1, <2>2, <3>2 DEF OnWire
    <3> QED
      BY <1>16, <3>1, <3>2 DEF Break
  <2> QED
    BY <1>1, <2>1, <2>3 DEF Requested
<1>17. ASSUME NEW r \in Requests,
              \/ RequestLocally(r) \/ RequestRemote(r) \/ RefuseRequest(r)
              \/ AddHandler(r) \/ PickResponder(r) \/ ReadResult(r) \/ TimeOut(r)
       PROVE  RequestConserved'
  BY <1>3, <1>17 DEF RequestLocally, RequestRemote, RefuseRequest, AddHandler,
                     PickResponder, ReadResult, TimeOut
<1>18. CASE Elsewhere \/ UNCHANGED vars
  BY <1>3, <1>18, ElsewhereQuiet DEF vars, callVars
<1>19. ASSUME NEW p \in Procs, NEW s \in Services, OnServiceConnected(p, s)
       PROVE  RequestConserved'
  BY <1>4, <1>19, ConnectIssuing
<1>20. ASSUME NEW r \in Requests, SendRequest(r)
       PROVE  RequestConserved'
  BY <1>4, <1>20, SendIssuing
<1> QED
  BY <1>8, <1>9, <1>10, <1>11, <1>12, <1>13, <1>14, <1>15, <1>16, <1>17, <1>18,
     <1>19, <1>20, NextCases
     DEF RequestThread, Handling
-----------------------------------------------------------------------------
(* No responder is missed.                                                  *)

Expected(p, s, r) ==
    \/ pc[r] \in {"added", "sending"} \/ r \in unsent
    \/ s \in work[p]

LEMMA InitNotMissed == Init => NoMissedResponder
BY DEF Init, NoMissedResponder, Pending

LEMMA StepNotMissed ==
    ASSUME TypeOK, TypeOK', NoMissedResponder, [Next]_vars
    PROVE  NoMissedResponder'
<1>t. /\ known \in [Procs -> SUBSET Services] /\ work \in [Procs -> SUBSET Services]
      /\ pc \in [Requests -> {"idle", "remote", "added", "sending", "issued", "returned"}]
      /\ handlers \subseteq Requests /\ handlers' \subseteq Requests
  BY DEF TypeOK
<1>1. ASSUME NEW p \in up, NEW s \in known[p], NEW r \in Pending(p, s)
      PROVE  Expected(p, s, r)
  BY <1>1 DEF NoMissedResponder, Expected
<1>2. ASSUME \A p \in up', s \in Services : \A r \in Requests :
                s \in known'[p] /\ r \in Pending(p, s)' => Expected(p, s, r)'
      PROVE  NoMissedResponder'
  <2>1. ASSUME NEW p \in up', NEW s \in known'[p], NEW r \in Pending(p, s)'
        PROVE  Expected(p, s, r)'
    <3>1. s \in Services /\ r \in Requests
      BY <1>t DEF TypeOK, Pending
    <3> QED
      BY <1>2, <2>1, <3>1
  <2> QED
    BY <2>1 DEF NoMissedResponder, Expected
\* What is known and pending was so before, and nothing it waits for is gone.
<1>3. ASSUME up' \subseteq up, caller' = caller, unsent \subseteq unsent',
             handlers' \subseteq handlers, Requested \subseteq Requested',
             \A p \in up' : known'[p] \subseteq known[p] /\ work[p] \subseteq work'[p],
             \A r \in Requests : pc[r] \in {"added", "sending"} =>
                                 pc'[r] \in {"added", "sending"}
      PROVE  NoMissedResponder'
  <2>1. ASSUME NEW p \in up', NEW s \in known'[p], NEW r \in Pending(p, s)'
        PROVE  Expected(p, s, r)'
    <3>1. r \in Pending(p, s) /\ s \in known[p] /\ p \in up /\ r \in Requests
      BY <1>3, <1>t DEF Pending, Matches
    <3>2. Expected(p, s, r)
      BY <1>1, <3>1
    <3> QED
      BY <1>3, <3>1, <3>2 DEF Expected
  <2> QED
    BY <2>1 DEF NoMissedResponder, Expected
<1>4. CASE UNCHANGED <<up, caller, unsent, handlers, sent, known, work, pc>>
  <2>1. Requested' = Requested
    BY <1>4 DEF Requested
  <2> QED
    BY <1>3, <1>4, <2>1
<1>5. CASE Elsewhere
  <2>1. UNCHANGED <<caller, up, callVars>> /\ Requested' = Requested
    BY <1>5, ElsewhereQuiet DEF callVars, Requested
  <2>2. ASSUME NEW t \in Services, NEW q \in Procs,
               \/ known' = [known EXCEPT ![q] = @ \union {t}]
               \/ \E some \in SUBSET known[q] : known' = [known EXCEPT ![q] = some]
               \/ UNCHANGED known,
               known' = [known EXCEPT ![q] = @ \union {t}] =>
                  work' = [work EXCEPT ![q] = @ \union {t}],
               \A p \in Procs : work[p] \subseteq work'[p]
        PROVE  NoMissedResponder'
    <3>1. ASSUME NEW p \in up', NEW s \in known'[p], NEW r \in Pending(p, s)'
          PROVE  Expected(p, s, r)'
      <4>1. r \in Pending(p, s) /\ p \in up /\ p \in Procs
        BY <2>1 DEF Pending, Matches, callVars, TypeOK
      <4>2. s \in known[p] \/ s \in work'[p]
        BY <1>t, <2>2, <4>1
      <4>3. CASE s \in known[p]
        BY <1>1, <2>1, <2>2, <4>1, <4>3 DEF Expected, callVars
      <4> QED
        BY <4>2, <4>3 DEF Expected
    <3> QED
      BY <3>1 DEF NoMissedResponder, Expected
  <2>3. ASSUME NEW t \in Services, NEW q \in Procs, Learn(q, t)
        PROVE  NoMissedResponder'
    <3>1. \A p \in Procs : work[p] \subseteq work'[p]
      BY <1>t, <2>3 DEF Learn
    <3> QED
      BY <2>2, <2>3, <3>1 DEF Learn
  <2>4. ASSUME NEW t \in Services, AnnounceService(t)
        PROVE  NoMissedResponder'
    <3>1. t.proc \in Procs
      BY RequestsAssumption
    <3>2. \A p \in Procs : work[p] \subseteq work'[p]
      BY <1>t, <2>4, <3>1 DEF AnnounceService
    <3> QED
      BY <2>2, <2>4, <3>1, <3>2 DEF AnnounceService
  <2>5. ASSUME UNCHANGED work, \A p \in Procs : known'[p] \subseteq known[p]
        PROVE  NoMissedResponder'
    <3>1. up \subseteq Procs
      BY DEF TypeOK
    <3> QED
      BY <1>3, <2>1, <2>5, <3>1 DEF callVars
  <2>6. ASSUME NEW t \in Services, WithdrawService(t) \/ AddService(t) \/ RemoveService(t)
        PROVE  NoMissedResponder'
    <3>1. CASE WithdrawService(t)
      <4>1. \A p \in Procs : known'[p] \subseteq known[p]
        BY <1>t, <3>1 DEF WithdrawService
      <4> QED
        BY <2>5, <3>1, <4>1 DEF WithdrawService
    <3>2. CASE AddService(t) \/ RemoveService(t)
      BY <2>5, <3>2 DEF AddService, RemoveService
    <3> QED
      BY <2>6, <3>1, <3>2
  <2>7. ASSUME NEW t \in Services, NEW q \in Procs, Unlearn(q, t)
        PROVE  NoMissedResponder'
    <3>1. \A p \in Procs : known'[p] \subseteq known[p]
      BY <1>t, <2>7 DEF Unlearn
    <3> QED
      BY <2>5, <2>7, <3>1 DEF Unlearn
  <2>8. ASSUME NEW p \in Procs, NEW q \in Procs, Expire(p, q) \/ Establish(p, q)
        PROVE  NoMissedResponder'
    <3>1. CASE Expire(p, q)
      <4>1. known' = [known EXCEPT ![p] = {s \in @ : s.proc # q}]
        BY <3>1 DEF Expire
      <4>2. known' = [known EXCEPT ![p] = {s \in known[p] : s.proc # q}]
        BY <4>1, <1>t
      <4>3. \A a \in Procs : known'[a] \subseteq known[a]
        BY <4>2, <1>t
      <4> QED
        BY <2>5, <3>1, <4>3 DEF Expire
    <3>2. CASE Establish(p, q)
      BY <2>5, <3>2 DEF Establish
    <3> QED
      BY <2>8, <3>1, <3>2
  <2> QED
    BY <1>5, <2>3, <2>4, <2>6, <2>7, <2>8 DEF Elsewhere
\* The service that is connected to leaves the queue; its requests are sent, or
\* refused by the socket.
<1>6. ASSUME NEW q \in Procs, NEW t \in Services, OnServiceConnected(q, t)
      PROVE  NoMissedResponder'
  <2>1. /\ UNCHANGED <<up, caller, known, pc, handlers>>
        /\ work' = [work EXCEPT ![q] = @ \ {t}] /\ unsent \subseteq unsent'
    BY <1>6, ConnectIssuing DEF OnServiceConnected
  <2>2. sent \subseteq sent' /\ Requested \subseteq Requested'
    BY <1>6, ConnectIssuing DEF Issuing, Issue, Requested
  <2>3. ASSUME NEW p \in up', NEW s \in known'[p], NEW r \in Pending(p, s)'
        PROVE  Expected(p, s, r)'
    <3>1. r \in Pending(p, s) /\ p \in up /\ p \in Procs /\ s \in known[p]
      BY <2>1, <2>2 DEF Pending, Matches, TypeOK
    <3>2. Expected(p, s, r)
      BY <1>1, <3>1
    <3>3. CASE ~(p = q /\ s = t)
      BY <1>t, <2>1, <3>1, <3>2, <3>3 DEF Expected
    <3>4. CASE p = q /\ s = t
      <4>1. s \in Responders(p, s) /\ r \in handlers /\ caller[r] = p /\ Matches(Want[r], s)
        BY <3>1 DEF Responders, Pending, Matches
      <4>2. PICK x \in Responders(p, s) : SendPending(p, x.proc, s)
        BY <1>6, <3>4, <4>1 DEF OnServiceConnected
      <4>3. r \in unsent' \/ [req |-> r, to |-> x.proc] \in sent'
        BY <3>1, <4>2, SendIssues
      <4>4. r \notin Requested'
        BY <2>3 DEF Pending
      <4>5. r \in unsent'
        BY <4>3, <4>4 DEF Requested
      <4> QED
        BY <4>5 DEF Expected
    <3> QED
      BY <3>3, <3>4
  <2> QED
    BY <2>3 DEF NoMissedResponder, Expected
\* The thread of request q does the same; when it finds no responder there is none.
<1>7. ASSUME NEW q \in Requests, pc'[q] = "issued",
             \A r \in Requests \ {q} : pc'[r] = pc[r],
             UNCHANGED <<up, caller, known, work, handlers>>,
             unsent \subseteq unsent', Requested \subseteq Requested',
             Responders(caller[q], Want[q]) = {} \/ q \in unsent' \/ q \in Requested' \/ q \notin handlers
      PROVE  NoMissedResponder'
  <2>1. ASSUME NEW p \in up', NEW s \in known'[p], NEW r \in Pending(p, s)'
        PROVE  Expected(p, s, r)'
    <3>1. /\ r \in Pending(p, s) /\ p \in up /\ s \in known[p] /\ r \in Requests
          /\ r \notin Requested'
      BY <1>7, <1>t DEF Pending, Matches
    <3>2. Expected(p, s, r)
      BY <1>1, <3>1
    <3>3. CASE r # q
      BY <1>7, <3>1, <3>2, <3>3 DEF Expected
    <3>4. CASE r = q
      <4>1. s \in Responders(caller[q], Want[q]) /\ q \in handlers
        BY <3>1, <3>4 DEF Pending, Responders, Matches
      <4>2. q \in unsent'
        BY <1>7, <3>1, <3>4, <4>1
      <4> QED
        BY <3>4, <4>2 DEF Expected
    <3> QED
      BY <3>3, <3>4
  <2> QED
    BY <2>1 DEF NoMissedResponder, Expected
<1>8. ASSUME NEW q \in Requests, SendRequest(q)
      PROVE  NoMissedResponder'
  <2>1. PICK x \in picked : /\ x.req = q /\ SendPending(caller[q], x.to, Want[q])
    BY <1>8 DEF SendRequest
  <2>2. /\ unsent \subseteq unsent' /\ sent \subseteq sent'
        /\ \A r \in Pending(caller[q], Want[q]) :
              r \in unsent' \/ [req |-> r, to |-> x.to] \in sent'
    BY <2>1, SendIssues DEF Issue
  <2>3. Requested \subseteq Requested'
    BY <2>2 DEF Requested
  <2>4. q \in unsent' \/ q \in Requested' \/ q \notin handlers
    <3>1. CASE q \in Pending(caller[q], Want[q])
      <4>1. [req |-> q, to |-> x.to].req = q
        OBVIOUS
      <4> QED
        BY <2>2, <3>1, <4>1 DEF Requested
    <3>2. CASE q \notin Pending(caller[q], Want[q])
      BY <2>3, <3>2 DEF Pending, Matches
    <3> QED
      BY <3>1, <3>2
  <2>5. pc'[q] = "issued" /\ \A r \in Requests \ {q} : pc'[r] = pc[r]
    BY <1>8, <1>t DEF SendRequest, Step
  <2> QED
    BY <1>7, <1>8, <2>2, <2>3, <2>4, <2>5 DEF SendRequest
<1>9. ASSUME NEW q \in Requests, PickResponder(q)
      PROVE  NoMissedResponder'
  <2>1. UNCHANGED <<up, caller, known, work, handlers, unsent, sent>>
    BY <1>9 DEF PickResponder, netVars
  <2>2. Requested' = Requested
    BY <2>1 DEF Requested
  <2>3. CASE Step(q, "added", "issued") /\ Responders(caller[q], Want[q]) = {}
    BY <1>7, <1>t, <2>1, <2>2, <2>3 DEF Step
  <2>4. CASE Step(q, "added", "sending")
    <3>1. \A r \in Requests : pc[r] \in {"added", "sending"} => pc'[r] \in {"added", "sending"}
      BY <1>t, <2>4 DEF Step
    <3> QED
      BY <1>3, <2>1, <2>2, <3>1
  <2> QED
    BY <1>9, <2>3, <2>4 DEF PickResponder
<1>10. ASSUME NEW q \in Requests, AddHandler(q)
       PROVE  NoMissedResponder'
  <2>1. UNCHANGED <<up, caller, known, work, unsent, sent>> /\ handlers' = handlers \union {q}
    BY <1>10 DEF AddHandler, netVars
  <2>2. Requested' = Requested
    BY <2>1 DEF Requested
  <2>3. pc'[q] = "added" /\ \A r \in Requests \ {q} : pc'[r] = pc[r]
    BY <1>10, <1>t DEF AddHandler, Step
  <2>4. ASSUME NEW p \in up', NEW s \in known'[p], NEW r \in Pending(p, s)'
        PROVE  Expected(p, s, r)'
    <3>1. CASE r = q
      BY <2>3, <3>1 DEF Expected
    <3>2. CASE r # q
      <4>1. r \in Pending(p, s) /\ p \in up /\ s \in known[p] /\ r \in Requests
        BY <1>t, <2>1, <2>2, <3>2 DEF Pending, Matches
      <4> QED
        BY <1>1, <2>1, <2>3, <3>2, <4>1 DEF Expected
    <3> QED
      BY <3>1, <3>2
  <2> QED
    BY <2>4 DEF NoMissedResponder, Expected
<1>11. ASSUME NEW q \in Requests, NEW from \in {"idle", "remote", "issued"},
              NEW to \in {"remote", "returned"}, Step(q, from, to),
              UNCHANGED <<up, caller, known, work, handlers, unsent, sent>>
       PROVE  NoMissedResponder'
  <2>1. \A r \in Requests : pc[r] \in {"added", "sending"} => pc'[r] \in {"added", "sending"}
    BY <1>11, <1>t DEF Step
  <2>2. Requested' = Requested
    BY <1>11 DEF Requested
  <2> QED
    BY <1>3, <1>11, <2>1, <2>2
<1>12. ASSUME NEW r \in Requests,
              \/ RequestLocally(r) \/ RequestRemote(r) \/ RefuseRequest(r)
              \/ ReadResult(r) \/ TimeOut(r)
       PROVE  NoMissedResponder'
  BY <1>11, <1>12 DEF RequestLocally, RequestRemote, RefuseRequest, ReadResult, TimeOut, netVars
<1>13. ASSUME NEW m \in msgs, WakeCaller(m)
       PROVE  NoMissedResponder'
  BY <1>3, <1>13 DEF WakeCaller, netVars, Requested
<1>14. ASSUME NEW m \in msgs,
              \/ Receive(m) \/ StartCallback(m) \/ ReturnFromCallback(m)
              \/ Reply(m) \/ NotifyResult(m)
       PROVE  NoMissedResponder'
  BY <1>4, <1>14 DEF Receive, StartCallback, ReturnFromCallback, Reply, NotifyResult,
                     netVars, callVars
<1>15. ASSUME NEW p \in Procs, NEW q \in Procs, TakeBatch(p) \/ Break(p, q)
       PROVE  NoMissedResponder'
  BY <1>4, <1>15 DEF TakeBatch, Break, netVars, callVars
<1>16. ASSUME NEW p \in Procs, Stop(p)
       PROVE  NoMissedResponder'
  <2>1. /\ UNCHANGED <<caller, pc, unsent, sent>> /\ up' = up \ {p}
        /\ handlers' \subseteq handlers
    BY <1>16 DEF Stop
  <2>2. \A a \in up' : a # p /\ a \in Procs
    BY <2>1 DEF TypeOK
  <2>3. \A a \in up' : known'[a] = known[a] /\ work'[a] = work[a]
    BY <1>16, <1>t, <2>2 DEF Stop
  <2>4. Requested' = Requested
    BY <2>1 DEF Requested
  <2> QED
    BY <1>3, <2>1, <2>3, <2>4
<1>17. CASE UNCHANGED vars
  BY <1>4, <1>17 DEF vars, netVars, callVars
<1> QED
  BY <1>5, <1>6, <1>8, <1>9, <1>10, <1>12, <1>13, <1>14, <1>15, <1>16, <1>17, NextCases
     DEF RequestThread, Handling
-----------------------------------------------------------------------------
(* Nested requests, and the promise of a request.                           *)

LEMMA InitUntold == Init => Untold
BY DEF Init, Untold, UntoldOf

LEMMA StepUntold ==
    ASSUME TypeOK, TypeOK', Calls, Calls', Mail, Nestings, Nestings', Untold, [Next]_vars
    PROVE  Untold'
<1> SUFFICES ASSUME NEW r \in Requests, r \in Nested, r \in (handlers \union Requested)'
             PROVE  outcome'[r] \in {"none", "timeout"}
  BY DEF Untold, UntoldOf
<1>2. CallOf(r) /\ CallOf(r)' /\ NestedOf(r) /\ NestedOf(r)' /\ UntoldOf(r)
  BY DEF Calls, Nestings, Untold
<1>3. r \in waits'
  BY <1>2 DEF NestedOf
<1>4. ASSUME outcome[r] \in {"none", "timeout"}, outcome'[r] # outcome[r]
      PROVE  outcome'[r] \in {"none", "timeout"}
  <2>1. ASSUME NEW q \in Requests, RequestLocally(q) \/ RefuseRequest(q)
        PROVE  FALSE
    <3>1. pc[q] \in {"idle", "remote"} /\ UNCHANGED <<handlers, sent>>
      BY <2>1 DEF RequestLocally, RefuseRequest, Step
    <3>2. q = r
      <4>1. CASE RequestLocally(q)
        BY <1>4, <4>1 DEF RequestLocally, TypeOK
      <4>2. CASE RefuseRequest(q)
        BY <1>4, <4>2 DEF RefuseRequest, TypeOK
      <4> QED
        BY <2>1, <4>1, <4>2
    <3>3. r \in handlers \union Requested
      BY <3>1 DEF Requested
    <3> QED
      BY <1>2, <3>1, <3>2, <3>3 DEF CallOf
  <2>2. ASSUME NEW q \in Requests, ReadResult(q)
        PROVE  FALSE
    <3>1. q = r
      BY <1>4, <2>2 DEF ReadResult, TypeOK
    <3>2. r \in available /\ Active(r)
      BY <2>2, <3>1 DEF ReadResult, Step, Active
    <3> QED
      BY <1>2, <3>2 DEF NestedOf
  <2>3. ASSUME NEW q \in Requests, TimeOut(q)
        PROVE  outcome'[r] = "timeout"
    BY <1>4, <2>3 DEF TimeOut, TypeOK
  <2>4. ASSUME NEW m \in msgs, NotifyResult(m)
        PROVE  FALSE
    <3>1. m.req = r /\ m.req \notin waits
      BY <1>4, <2>4 DEF NotifyResult, TypeOK
    <3>2. UNCHANGED waits
      BY <2>4 DEF NotifyResult, callVars
    <3> QED
      BY <1>3, <3>1, <3>2
  <2>5. \/ \E q \in Requests : \/ RequestLocally(q) \/ RefuseRequest(q)
                              \/ ReadResult(q) \/ TimeOut(q)
        \/ \E m \in msgs : NotifyResult(m)
        \/ UNCHANGED outcome
    <3>1. CASE Elsewhere \/ UNCHANGED vars
      BY <3>1, ElsewhereQuiet DEF vars, ansVars
    <3>2. CASE \E p \in Procs, s \in Services : OnServiceConnected(p, s)
      BY <3>2 DEF OnServiceConnected, ansVars
    <3>3. CASE \E q \in Requests : RequestRemote(q) \/ AddHandler(q) \/ PickResponder(q) \/ SendRequest(q)
      BY <3>3 DEF RequestRemote, AddHandler, PickResponder, SendRequest, ansVars
    <3>4. CASE \E m \in msgs : \/ Receive(m) \/ StartCallback(m) \/ ReturnFromCallback(m)
                               \/ Reply(m) \/ WakeCaller(m)
      BY <3>4 DEF Receive, StartCallback, ReturnFromCallback, Reply, WakeCaller, ansVars
    <3>5. CASE \E p, q \in Procs : TakeBatch(p) \/ Stop(p) \/ Break(p, q)
      BY <3>5 DEF TakeBatch, Stop, Break, ansVars
    <3> QED
      BY <3>1, <3>2, <3>3, <3>4, <3>5, NextCases DEF RequestThread, Handling
  <2> QED
    BY <1>4, <2>1, <2>2, <2>3, <2>4, <2>5
<1>5. CASE r \in handlers \union Requested
  BY <1>2, <1>4, <1>5 DEF UntoldOf
<1>6. CASE r \notin handlers \union Requested
  <2>1. ASSUME handlers' \subseteq handlers, UNCHANGED sent
        PROVE  FALSE
    BY <1>6, <2>1 DEF Requested
  <2>2. ASSUME Issuing, UNCHANGED handlers
        PROVE  FALSE
    <3>1. PICK p, q, k, due : Issue(p, q, k, due)
      BY <2>2 DEF Issuing
    <3>2. Requested' = Requested \union due /\ due \subseteq handlers
      BY <3>1, DueFacts
    <3> QED
      BY <1>6, <2>2, <3>2
  <2>3. ASSUME NEW q \in Requests, AddHandler(q)
        PROVE  outcome'[r] \in {"none", "timeout"}
    <3>1. handlers' = handlers \union {q} /\ UNCHANGED <<sent, outcome>> /\ pc[q] = "remote"
      BY <2>3 DEF AddHandler, Step, ansVars
    <3>2. r = q
      BY <1>6, <3>1 DEF Requested
    <3> QED
      BY <1>2, <3>1, <3>2 DEF CallOf
  <2>4. CASE Elsewhere \/ UNCHANGED vars
    BY <2>1, <2>4, ElsewhereQuiet DEF vars, callVars
  <2>5. ASSUME NEW p \in Procs, NEW s \in Services, OnServiceConnected(p, s)
        PROVE  FALSE
    BY <2>2, <2>5, ConnectIssuing DEF OnServiceConnected
  <2>6. ASSUME NEW q \in Requests, SendRequest(q)
        PROVE  FALSE
    BY <2>2, <2>6, SendIssuing DEF SendRequest
  <2>7. ASSUME NEW q \in Requests,
               \/ RequestLocally(q) \/ RequestRemote(q) \/ RefuseRequest(q)
               \/ PickResponder(q) \/ ReadResult(q) \/ TimeOut(q)
        PROVE  FALSE
    BY <2>1, <2>7 DEF RequestLocally, RequestRemote, RefuseRequest, PickResponder,
                      ReadResult, TimeOut
  <2>8. ASSUME NEW m \in msgs, Handling(m)
        PROVE  FALSE
    BY <2>1, <2>8 DEF Handling, Receive, StartCallback, ReturnFromCallback, Reply,
                      NotifyResult, WakeCaller, callVars
  <2>9. ASSUME NEW p \in Procs, NEW q \in Procs, TakeBatch(p) \/ Stop(p) \/ Break(p, q)
        PROVE  FALSE
    BY <2>1, <2>9 DEF TakeBatch, Stop, Break, callVars
  <2> QED
    BY <2>3, <2>4, <2>5, <2>6, <2>7, <2>8, <2>9, NextCases DEF RequestThread
<1> QED
  BY <1>5, <1>6

LEMMA UntoldTimesOut ==
    ASSUME TypeOK, Untold
    PROVE  NestedTimesOut
<1> SUFFICES ASSUME NEW x \in sent, x.req \in Nested
             PROVE  outcome[x.req] \in {"none", "timeout"}
  BY DEF NestedTimesOut
<1>1. x.req \in Requests /\ x.req \in Requested
  BY DEF TypeOK, Requested
<1> QED
  BY <1>1 DEF Untold, UntoldOf

-----------------------------------------------------------------------------
(* Theorems.                                                                *)

IInv == /\ TypeOK /\ Calls /\ Nestings /\ Untold /\ Mail /\ Offered /\ Connected
        /\ RequestConserved /\ NoMissedResponder

LEMMA Invariant == Spec => []IInv
<1>1. Init => IInv
  BY InitTypes, InitCalls, InitNestings, InitUntold, InitMail, InitOffered,
     InitConnected, InitConserved, InitNotMissed DEF IInv
<1>2. IInv /\ [Next]_vars => IInv'
  <2> SUFFICES ASSUME IInv, [Next]_vars
               PROVE  IInv'
    OBVIOUS
  <2>1. /\ TypeOK /\ Calls /\ Nestings /\ Untold /\ Mail /\ Offered /\ Connected
        /\ RequestConserved /\ NoMissedResponder
    BY DEF IInv
  <2>2. TypeOK'
    BY <2>1, StepTypes
  <2>3. Calls'
    BY <2>1, <2>2, StepCalls
  <2>4. Nestings'
    BY <2>1, StepNestings
  <2>5. Mail' /\ Offered' /\ Connected'
    BY <2>1, <2>2, StepMail, StepOffered, StepConnected
  <2>6. Untold'
    BY <2>1, <2>2, <2>3, <2>4, StepUntold
  <2>7. RequestConserved' /\ NoMissedResponder'
    BY <2>1, <2>2, <2>3, StepConserved, StepNotMissed
  <2> QED
    BY <2>2, <2>3, <2>4, <2>5, <2>6, <2>7 DEF IInv
<1> QED
  BY <1>1, <1>2, PTL DEF Spec

\* No order of discovering, connecting and requesting leaves a request and a
\* known responder of it with no one to bring them together.
THEOREM NoResponderMissed == Spec => []NoMissedResponder
<1>1. IInv => NoMissedResponder
  BY DEF IInv
<1> QED
  BY <1>1, Invariant, PTL

\* A request that was sent has been answered, is somewhere, or was lost to the
\* stop of a process, a broken connection or the end of the service.
THEOREM RequestsAreConserved == Spec => []RequestConserved
<1>1. IInv => RequestConserved
  BY DEF IInv
<1> QED
  BY <1>1, Invariant, PTL

\* A synchronous request a callback makes over the network is never told more
\* than that its time is over.
THEOREM NestedRequestsTimeOut == Spec => []NestedTimesOut
<1>1. IInv => NestedTimesOut
  BY UntoldTimesOut DEF IInv
<1> QED
  BY <1>1, Invariant, PTL

LEMMA InitRemoteCall == Init => Call!Init
BY DEF Init, Call!Init

LEMMA StepRemoteCall ==
    ASSUME TypeOK, Calls, Mail, [Next]_vars
    PROVE  [Call!Next]_<<runs, outcome>>
<1>0. \A r \in Requests : CallOf(r)
  BY DEF Calls
<1>1. ASSUME NEW r \in Requests, RequestLocally(r)
      PROVE  Call!RunLocally(r)
  <2>1. runs[r] = << >> /\ outcome[r] = "none"
    BY <1>0, <1>1 DEF CallOf, RequestLocally, Step
  <2>2. PICK res \in Results : /\ runs' = [runs EXCEPT ![r] = Append(@, res)]
                               /\ outcome' = [outcome EXCEPT ![r] = res]
    BY <1>1 DEF RequestLocally
  <2>3. Append(<< >>, res) = <<res>>
    OBVIOUS
  <2>4. runs' = [runs EXCEPT ![r] = <<res>>]
    BY <2>1, <2>2, <2>3 DEF TypeOK
  <2> QED
    BY <2>1, <2>2, <2>4 DEF Call!RunLocally, Call!Results, Results
<1>2. ASSUME NEW r \in Requests, RefuseRequest(r)
      PROVE  Call!Refuse(r)
  BY <1>0, <1>2 DEF CallOf, RefuseRequest, Step, Call!Refuse
<1>3. ASSUME NEW r \in Requests, ReadResult(r)
      PROVE  Call!Answer(r)
  <2>1. outcome[r] = "none" /\ runs[r] = <<result[r]>>
    BY <1>0, <1>3 DEF CallOf, ReadResult, Step
  <2>2. Head(<<result[r]>>) = result[r] /\ <<result[r]>> # << >>
    OBVIOUS
  <2> QED
    BY <1>3, <2>1, <2>2 DEF ReadResult, Call!Answer
<1>4. ASSUME NEW r \in Requests, TimeOut(r)
      PROVE  Call!TimeOut(r)
  BY <1>0, <1>4 DEF CallOf, TimeOut, Step, Call!TimeOut
<1>5. ASSUME NEW m \in msgs, ReturnFromCallback(m)
      PROVE  Call!Run(m.req)
  <2>1. m.req \in Requests /\ m.req \in Requested
    BY MailRequested
  <2>2. runs[m.req] = << >> /\ outcome[m.req] # "refused"
    BY <1>0, <1>5, <2>1 DEF CallOf, Mail, MessageOf, ReturnFromCallback
  <2>3. PICK res \in Results : runs' = [runs EXCEPT ![m.req] = Append(@, res)]
    BY <1>5 DEF ReturnFromCallback
  <2>4. Append(<< >>, res) = <<res>>
    OBVIOUS
  <2>5. runs' = [runs EXCEPT ![m.req] = <<res>>]
    BY <2>1, <2>2, <2>3, <2>4 DEF TypeOK
  <2> QED
    BY <1>5, <2>2, <2>5 DEF ReturnFromCallback, Call!Run, Call!Results, Results
<1>6. ASSUME NEW m \in msgs, NotifyResult(m)
      PROVE  Call!Answer(m.req) \/ UNCHANGED <<runs, outcome>>
  <2>1. CASE m.req \in handlers \ waits
    <3>1. outcome[m.req] = "none" /\ runs[m.req] = <<m.res>>
      BY <1>6, <2>1 DEF Mail, MessageOf, NotifyResult
    <3>2. Head(<<m.res>>) = m.res /\ <<m.res>> # << >>
      OBVIOUS
    <3> QED
      BY <1>6, <2>1, <3>1, <3>2 DEF NotifyResult, Call!Answer
  <2>2. CASE m.req \notin handlers \ waits
    BY <1>6, <2>2 DEF NotifyResult
  <2> QED
    BY <2>1, <2>2
<1>7. CASE Elsewhere \/ UNCHANGED vars
  BY <1>7, ElsewhereQuiet DEF vars, ansVars
<1>8. CASE \E p \in Procs, s \in Services : OnServiceConnected(p, s)
  BY <1>8 DEF OnServiceConnected, ansVars
<1>9. CASE \E r \in Requests : \/ RequestRemote(r) \/ AddHandler(r)
                               \/ PickResponder(r) \/ SendRequest(r)
  BY <1>9 DEF RequestRemote, AddHandler, PickResponder, SendRequest, ansVars
<1>10. CASE \E m \in msgs : Receive(m) \/ StartCallback(m) \/ Reply(m) \/ WakeCaller(m)
  BY <1>10 DEF Receive, StartCallback, Reply, WakeCaller, ansVars
<1>11. CASE \E p, q \in Procs : TakeBatch(p) \/ Stop(p) \/ Break(p, q)
  BY <1>11 DEF TakeBatch, Stop, Break, ansVars
<1>12. \A m \in msgs : m.req \in Requests
  BY MailRequested
<1> QED
  BY <1>1, <1>2, <1>3, <1>4, <1>5, <1>6, <1>7, <1>8, <1>9, <1>10, <1>11, <1>12, NextCases
     DEF RequestThread, Handling, Call!Next

\* Every behaviour of the service runtime is one of RemoteCall: a request runs
\* at most once, and what its requester is told is the result of that run, that
\* there is no service, or that it waited too long.
THEOREM CallsAreRemoteCalls == Spec => ImplementsRemoteCall
<1>1. Init => Call!Init
  BY InitRemoteCall
<1>2. IInv /\ [Next]_vars => [Call!Next]_<<runs, outcome>>
  BY StepRemoteCall DEF IInv
<1> QED
  BY <1>1, <1>2, Invariant, PTL DEF Spec, ImplementsRemoteCall, Call!Spec
=============================================================================
