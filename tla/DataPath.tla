------------------------------ MODULE DataPath ------------------------------
(***************************************************************************)
(* The data plane of message_runtime.cc for one topic: threads of one      *)
(* process publish, a subscriber of that process and one of another        *)
(* process on the same host listen.  A remote message is a descriptor of   *)
(* a slot of a shared-memory ring, or, without a ring for it, the payload  *)
(* itself; both go through the publisher socket.  The ring is made by the  *)
(* first message that needs it and dropped by unadvertise; the subscriber  *)
(* opens it by name, once.                                                 *)
(*                                                                         *)
(* Writing a slot and reading one are single steps here: ShmRing.tla has   *)
(* them interleaved.  A critical section of a mutex is one step.           *)
(***************************************************************************)
EXTENDS Naturals, Sequences, FiniteSets

CONSTANTS Threads,       \* threads that publish
          UseShm,        \* the useShm options of the publishers
          Sizes,         \* sizes of messages, in units of kShmGranularity
          Slots,         \* slots of a ring, kShmRingSlotCount
          QueueLimit,    \* kMsgQueueLimit
          Listeners,     \* bound: the sets of processes that may subscribe
          MaxMessages,   \* bound: messages published
          MaxRemoved,    \* bound: rings removed by unadvertise
          MaxLost        \* bound: messages the socket drops or refuses

ASSUME ThreadsAssumption == IsFiniteSet(Threads)
ASSUME InputsAssumption  == /\ UseShm \subseteq BOOLEAN /\ Sizes \subseteq Nat
                            /\ Listeners \subseteq SUBSET {"local", "remote"}
ASSUME BoundsAssumption  == /\ Slots \in Nat \ {0} /\ QueueLimit \in Nat \ {0}
                            /\ MaxMessages \in Nat /\ MaxRemoved \in Nat /\ MaxLost \in Nat

VARIABLES pc, job,      \* where each publishing thread is, and with what
          made,         \* messages published, the number of the next
          rings,        \* every ring ever made: slot size, cursor, slots
          writerRing,   \* the ring in writer_rings_, or 0
          named,        \* the ring the shared-memory name stands for, or 0
          readerRing,   \* the ring in reader_rings_, or 0
          crossed,      \* rings made while a thread still held an older one
          removed, lost,
          refused,      \* descriptors the socket refused
          wire,         \* between the sockets
          sent,         \* messages sent on the wire
          queue, batch, \* remote_message_queue_, and what was taken from it
          subs,         \* which of the two processes have a handler
          registered,   \* the publishing process knows of the other's
          received,     \* messages received
          heard,        \* the last remote message delivered
          dropped,      \* the last one dropped, and why
          localQueue, localBatch, \* local_publish_queue_, and what was taken
          pushed, localHeard      \* local messages pushed, and the last one run

ringVars   == <<rings, writerRing, named, crossed, removed>>
remoteVars == <<queue, batch, received, heard, dropped, readerRing>>
localVars  == <<localQueue, localBatch, pushed, localHeard>>
subVars    == <<subs, registered>>
vars       == <<pc, job, made, ringVars, wire, sent, lost, refused,
                remoteVars, localVars, subVars>>

NoJob    == [msg |-> 0, size |-> 0, locals |-> {}, ring |-> 0, slot |-> 0, seq |-> 0]
NoDrop   == [why |-> "none", num |-> 0, ring |-> 0, seq |-> 0]
NoHeard  == [num |-> 0, msg |-> 0, got |-> 0, ring |-> 0]

Init ==
    /\ pc = [t \in Threads |-> "idle"] /\ job = [t \in Threads |-> NoJob]
    /\ made = 0
    /\ rings = << >> /\ writerRing = 0 /\ named = 0 /\ readerRing = 0 /\ crossed = {}
    /\ removed = 0 /\ lost = 0 /\ refused = 0
    /\ wire = << >> /\ sent = 0 /\ queue = << >> /\ batch = << >>
    /\ subs \in Listeners /\ registered = ("remote" \in subs)
    /\ received = 0 /\ heard = NoHeard /\ dropped = NoDrop
    /\ localQueue = << >> /\ localBatch = << >> /\ pushed = 0 /\ localHeard = 0

Step(t, from, to) == pc[t] = from /\ pc' = [pc EXCEPT ![t] = to]

-----------------------------------------------------------------------------
(* Publishing.  publish looks at the subscribers once, before anything     *)
(* else.                                                                   *)

Publish(t) ==
    /\ made < MaxMessages /\ made' = made + 1
    /\ \E size \in Sizes :
          job' = [job EXCEPT ![t] = [NoJob EXCEPT !.msg = made', !.size = size,
                                                  !.locals = subs \ {"remote"}]]
    /\ \/ ~registered /\ Step(t, "idle", "local")
       \/ registered /\ TRUE \in UseShm /\ Step(t, "idle", "ring")
       \/ registered /\ FALSE \in UseShm /\ Step(t, "idle", "send")
    /\ UNCHANGED <<ringVars, wire, sent, lost, refused, remoteVars, localVars, subVars>>

\* The rings threads other than t hold a reference to.
HeldBut(t) == {job[u].ring : u \in Threads \ {t}} \ {0}

Ring(size) == [size |-> size, cursor |-> 0,
               slots |-> [i \in 0..(Slots - 1) |-> [seq |-> 0, msg |-> 0]]]

\* writerRingFor: the ring of the topic, if the message fits its slots; else the
\* regular transport.  The first message makes the ring, with slots its size.
UseRing(t) ==
    /\ Step(t, "ring", "write")
    /\ writerRing # 0 /\ job[t].size <= rings[writerRing].size
    /\ job' = [job EXCEPT ![t].ring = writerRing]
    /\ UNCHANGED <<made, ringVars, wire, sent, lost, refused, remoteVars, localVars, subVars>>

MakeRing(t) ==
    /\ Step(t, "ring", "write") /\ writerRing = 0
    /\ rings' = Append(rings, Ring(job[t].size))
    /\ writerRing' = Len(rings') /\ named' = writerRing'
    /\ crossed' = IF HeldBut(t) = {} THEN crossed ELSE crossed \union {writerRing'}
    /\ job' = [job EXCEPT ![t].ring = writerRing']
    /\ UNCHANGED <<made, removed, wire, sent, lost, refused, remoteVars, localVars, subVars>>

\* createAsWriter fails, after it removed what the name stood for.
FailToMakeRing(t) ==
    /\ Step(t, "ring", "send") /\ writerRing = 0
    /\ named' = 0
    /\ UNCHANGED <<job, made, rings, writerRing, crossed, removed, wire, sent, lost, refused>>
    /\ UNCHANGED <<remoteVars, localVars, subVars>>

\* Mutant: a message that does not fit is taken for sent.
FallBackToNothing(t) ==
    /\ Step(t, "ring", "local")
    /\ writerRing # 0 /\ job[t].size > rings[writerRing].size
    /\ UNCHANGED <<job, made, ringVars, wire, sent, lost, refused, remoteVars, localVars, subVars>>

FallBack(t) ==
    /\ Step(t, "ring", "send")
    /\ writerRing # 0 /\ job[t].size > rings[writerRing].size
    /\ UNCHANGED <<job, made, ringVars, wire, sent, lost, refused, remoteVars, localVars, subVars>>

\* reserveWrite, the serialisation, commitWrite.
\* Mutant: the cursor may fall on the place after the last slot.
SlotBeyond(ring) == ring.cursor % (Slots + 1)

SlotOf(ring) == ring.cursor % Slots
SeqOf(ring)  == 2 * ring.cursor + 2

Written(ring, msg) ==
    [ring EXCEPT !.slots[SlotOf(ring)] = [seq |-> SeqOf(ring), msg |-> msg],
                 !.cursor = @ + 1]

\* Mutant: the descriptor has the number of the slot while it was written.
WriteSlotReserved(t) ==
    /\ Step(t, "write", "send")
    /\ LET r == job[t].ring IN
       /\ rings' = [rings EXCEPT ![r] = Written(@, job[t].msg)]
       /\ job' = [job EXCEPT ![t].slot = SlotOf(rings[r]), ![t].seq = SeqOf(rings[r]) - 1]
    /\ UNCHANGED <<made, writerRing, named, crossed, removed, wire, sent, lost, refused>>
    /\ UNCHANGED <<remoteVars, localVars, subVars>>

WriteSlot(t) ==
    /\ Step(t, "write", "send")
    /\ LET r == job[t].ring IN
       /\ rings' = [rings EXCEPT ![r] = Written(@, job[t].msg)]
       /\ job' = [job EXCEPT ![t].slot = SlotOf(rings[r]), ![t].seq = SeqOf(rings[r])]
    /\ UNCHANGED <<made, writerRing, named, crossed, removed, wire, sent, lost, refused>>
    /\ UNCHANGED <<remoteVars, localVars, subVars>>

\* The last reference to a ring goes: its destructor removes the name, whatever
\* ring the name stands for by now.
\* Mutant: whoever lets go of a ring removes the name.
UnlinksAlways(ring, holders) == ring # 0

Unlinks(ring, holders) == ring # 0 /\ ring \notin holders

\* Thread t lets go of its ring.
NamedAfter(t) ==
    IF Unlinks(job[t].ring, HeldBut(t) \union {writerRing}) THEN 0 ELSE named

MayFail == lost + refused < MaxLost

\* publishRemote, publishRemoteShm: under publisher_mutex_.  The socket drops
\* what does not fit its queue, and says nothing.
Send(t) ==
    /\ Step(t, "send", "local")
    /\ \/ /\ sent' = sent + 1 /\ UNCHANGED lost
          /\ wire' = Append(wire, [num |-> sent', msg |-> job[t].msg, size |-> job[t].size,
                                   ring |-> job[t].ring, slot |-> job[t].slot,
                                   seq |-> job[t].seq])
       \/ /\ MayFail /\ lost' = lost + 1
          /\ UNCHANGED <<sent, wire>>
    /\ UNCHANGED <<job, made, refused, ringVars, remoteVars, localVars, subVars>>

\* The socket refuses the descriptor: publishRemoteShm lets go of the ring, the
\* slot is given up and the message goes as a payload.
SendShmFails(t) ==
    /\ pc[t] = "send" /\ job[t].ring # 0
    /\ MayFail /\ refused' = refused + 1
    /\ job' = [job EXCEPT ![t] = [@ EXCEPT !.ring = 0, !.slot = 0, !.seq = 0]]
    /\ named' = NamedAfter(t)
    /\ UNCHANGED <<pc, made, rings, writerRing, crossed, removed, wire, sent, lost>>
    /\ UNCHANGED <<remoteVars, localVars, subVars>>

\* It refuses the payload: publish gives up, before the local handlers.
SendFails(t) ==
    /\ Step(t, "send", "idle") /\ job[t].ring = 0
    /\ MayFail /\ lost' = lost + 1
    /\ job' = [job EXCEPT ![t] = NoJob]
    /\ UNCHANGED <<made, ringVars, wire, sent, refused, remoteVars, localVars, subVars>>

\* publishRemoteShm returns; the local handlers get the message.
PublishLocal(t) ==
    /\ Step(t, "local", "idle")
    /\ job' = [job EXCEPT ![t] = NoJob]
    /\ named' = NamedAfter(t)
    /\ \/ /\ job[t].locals # {}
          /\ pushed' = pushed + 1
          /\ localQueue' = Append(localQueue, [num |-> pushed', msg |-> job[t].msg])
       \/ job[t].locals = {} /\ UNCHANGED <<pushed, localQueue>>
    /\ UNCHANGED <<made, rings, writerRing, crossed, removed, wire, sent, lost, refused>>
    /\ UNCHANGED <<remoteVars, localBatch, localHeard, subVars>>

\* Node::unadvertise, by whichever node of the process: removeWriterRing.
Unadvertise ==
    /\ removed < MaxRemoved /\ removed' = removed + 1
    /\ writerRing' = 0
    /\ named' = IF Unlinks(writerRing, {job[u].ring : u \in Threads}) THEN 0 ELSE named
    /\ UNCHANGED <<pc, job, made, rings, crossed, wire, sent, lost, refused>>
    /\ UNCHANGED <<remoteVars, localVars, subVars>>

-----------------------------------------------------------------------------
(* localDispatchLoop.                                                      *)

\* Mutant: the queue is copied, not swapped.
TakeLocalCopy ==
    /\ localBatch = << >> /\ localQueue # << >>
    /\ localBatch' = localQueue
    /\ UNCHANGED <<pc, job, made, ringVars, wire, sent, lost, refused, remoteVars, subVars>>
    /\ UNCHANGED <<localQueue, pushed, localHeard>>

TakeLocal ==
    /\ localBatch = << >> /\ localQueue # << >>
    /\ localBatch' = localQueue /\ localQueue' = << >>
    /\ UNCHANGED <<pc, job, made, ringVars, wire, sent, lost, refused, remoteVars, subVars>>
    /\ UNCHANGED <<pushed, localHeard>>

RunLocal ==
    /\ localBatch # << >>
    /\ localHeard' = Head(localBatch).num
    /\ localBatch' = Tail(localBatch)
    /\ UNCHANGED <<pc, job, made, ringVars, wire, sent, lost, refused, remoteVars, subVars>>
    /\ UNCHANGED <<localQueue, pushed>>

LocalThread == TakeLocal \/ RunLocal

-----------------------------------------------------------------------------
(* The subscriber: receiveMessage, and remoteDispatchLoop.                 *)

\* A message too many drops the oldest.
\* Mutant: it drops the newest.
ReceiveDropNewest ==
    /\ wire # << >>
    /\ wire' = Tail(wire) /\ received' = Head(wire).num
    /\ IF Len(queue) = QueueLimit
       THEN /\ UNCHANGED queue
            /\ dropped' = [why |-> "queue", num |-> Head(wire).num,
                           ring |-> Head(wire).ring, seq |-> Head(wire).seq]
       ELSE queue' = Append(queue, Head(wire)) /\ UNCHANGED dropped
    /\ UNCHANGED <<pc, job, made, ringVars, sent, lost, refused, localVars, subVars>>
    /\ UNCHANGED <<batch, heard, readerRing>>

\* Mutant: it is put where the next one is taken.
ReceiveInFront ==
    /\ wire # << >>
    /\ wire' = Tail(wire) /\ received' = Head(wire).num
    /\ queue' = <<Head(wire)>> \o queue
    /\ UNCHANGED <<pc, job, made, ringVars, sent, lost, refused, localVars, subVars>>
    /\ UNCHANGED <<batch, heard, dropped, readerRing>>

ReceiveMessage ==
    /\ wire # << >>
    /\ wire' = Tail(wire) /\ received' = Head(wire).num
    /\ LET all == Append(queue, Head(wire)) IN
       IF Len(all) > QueueLimit
       THEN /\ queue' = Tail(all)
            /\ dropped' = [why |-> "queue", num |-> Head(all).num,
                           ring |-> Head(all).ring, seq |-> Head(all).seq]
       ELSE queue' = all /\ UNCHANGED dropped
    /\ UNCHANGED <<pc, job, made, ringVars, sent, lost, refused, localVars, subVars>>
    /\ UNCHANGED <<batch, heard, readerRing>>

TakeBatch ==
    /\ batch = << >> /\ queue # << >>
    /\ batch' = queue /\ queue' = << >>
    /\ UNCHANGED <<pc, job, made, ringVars, wire, sent, lost, refused, localVars, subVars>>
    /\ UNCHANGED <<received, heard, dropped, readerRing>>

Drop(m, why) == dropped' = [why |-> why, num |-> m.num, ring |-> m.ring, seq |-> m.seq]

DropUnwanted(m) ==
    /\ "remote" \notin subs
    /\ Drop(m, "unwanted")
    /\ UNCHANGED <<heard, readerRing>>

DeliverPayload(m) ==
    /\ "remote" \in subs /\ m.ring = 0
    /\ heard' = [num |-> m.num, msg |-> m.msg, got |-> m.msg, ring |-> 0]
    /\ UNCHANGED <<dropped, readerRing>>

\* A ring once opened is kept for its name.
ReaderRingFor == IF readerRing # 0 THEN readerRing ELSE named

\* The name stands for nothing, or for a later ring that is still being made.
FailToOpen(m) ==
    /\ "remote" \in subs /\ m.ring # 0
    /\ readerRing = 0 /\ named # m.ring
    /\ Drop(m, "unnamed")
    /\ UNCHANGED <<heard, readerRing>>

\* Mutant: a slot written since will do.
ReadSlotNewer(m) ==
    /\ "remote" \in subs /\ m.ring # 0
    /\ readerRing' = ReaderRingFor /\ readerRing' # 0
    /\ LET slot == rings[readerRing'].slots[m.slot] IN
       /\ slot.seq >= m.seq
       /\ heard' = [num |-> m.num, msg |-> m.msg, got |-> slot.msg, ring |-> m.ring]
    /\ UNCHANGED dropped

\* beginRead and finishRead: what counts is the sequence number in the slot.
\* When the slots of the ring the reader has are smaller than the message it
\* reads beyond, and what it gets is anything (0).
ReadSlot(m) ==
    /\ "remote" \in subs /\ m.ring # 0
    /\ readerRing' = ReaderRingFor /\ readerRing' # 0
    /\ LET slot == rings[readerRing'].slots[m.slot] IN
       IF slot.seq # m.seq
       THEN Drop(m, "overwritten") /\ UNCHANGED heard
       ELSE /\ \E got \in {slot.msg} \union
                     (IF m.size > rings[readerRing'].size THEN {0} ELSE {}) :
                  heard' = [num |-> m.num, msg |-> m.msg, got |-> got, ring |-> m.ring]
            /\ UNCHANGED dropped

Dispatch ==
    /\ batch # << >> /\ batch' = Tail(batch)
    /\ LET m == Head(batch) IN
       DropUnwanted(m) \/ DeliverPayload(m) \/ FailToOpen(m) \/ ReadSlot(m)
    /\ UNCHANGED <<pc, job, made, ringVars, wire, sent, lost, refused, localVars, subVars>>
    /\ UNCHANGED <<queue, received>>

DispatchThread == TakeBatch \/ Dispatch

-----------------------------------------------------------------------------
(* Subscribing, and the registration that follows it.                      *)

Unsubscribe(where) ==
    /\ where \in subs /\ subs' = subs \ {where}
    /\ UNCHANGED <<pc, job, made, ringVars, wire, sent, lost, refused>>
    /\ UNCHANGED <<remoteVars, localVars, registered>>

Unregister ==
    /\ registered /\ "remote" \notin subs
    /\ registered' = FALSE
    /\ UNCHANGED <<pc, job, made, ringVars, wire, sent, lost, refused>>
    /\ UNCHANGED <<remoteVars, localVars, subs>>

Next ==
    \/ \E t \in Threads : \/ Publish(t) \/ UseRing(t) \/ MakeRing(t) \/ FailToMakeRing(t)
                          \/ FallBack(t) \/ WriteSlot(t)
                          \/ Send(t) \/ SendShmFails(t) \/ SendFails(t) \/ PublishLocal(t)
    \/ Unadvertise \/ LocalThread \/ ReceiveMessage \/ DispatchThread
    \/ Unregister \/ \E where \in {"local", "remote"} : Unsubscribe(where)

Spec == Init /\ [][Next]_vars

-----------------------------------------------------------------------------
Job     == [msg : Nat, size : Nat, locals : SUBSET {"local"}, ring : Nat, slot : 0..(Slots - 1), seq : Nat]
LocalMessage == [num : Nat, msg : Nat]
Message == [num : Nat, msg : Nat, size : Nat, ring : Nat, slot : 0..(Slots - 1), seq : Nat]
RingOf  == [size : Nat, cursor : Nat, slots : [0..(Slots - 1) -> [seq : Nat, msg : Nat]]]

Heard   == [num : Nat, msg : Nat, got : Nat, ring : Nat]
Dropped == [why : {"none", "queue", "unwanted", "unnamed", "overwritten"},
            num : Nat, ring : Nat, seq : Nat]

TypeOK ==
    /\ pc \in [Threads -> {"idle", "ring", "write", "send", "local"}]
    /\ job \in [Threads -> Job]
    /\ made \in Nat
    /\ rings \in Seq(RingOf)
    /\ writerRing \in 0..Len(rings) /\ named \in 0..Len(rings)
    /\ readerRing \in 0..Len(rings)
    /\ crossed \subseteq 1..Len(rings)
    /\ removed \in Nat /\ lost \in Nat /\ refused \in Nat /\ sent \in Nat /\ received \in Nat
    /\ wire \in Seq(Message) /\ queue \in Seq(Message) /\ batch \in Seq(Message)
    /\ subs \subseteq {"local", "remote"} /\ registered \in BOOLEAN
    /\ heard \in Heard /\ dropped \in Dropped
    /\ localQueue \in Seq(LocalMessage)
    /\ localBatch \in Seq(LocalMessage)
    /\ pushed \in Nat /\ localHeard \in Nat

-----------------------------------------------------------------------------
\* A message a subscriber of the other process is given is the one announced:
\* a slot that does not hold it fails the check of its sequence number, and the
\* parse stays within the slot (architecture.md:103, README.md:215).
Genuine == heard.got = heard.msg

\* It is not when the subscriber has a ring of the same name open that is not
\* the one written to, and that only after unadvertise removed a ring.
MappedAnother(ring) == removed > 0 /\ readerRing # ring
GenuineUnlessStale == Genuine \/ MappedAnother(heard.ring)

\* A message that left the socket is dropped only for a cause.  Before the first
\* unadvertise: QueueLimit later ones came before it was looked at, its handler
\* is gone, or its ring was lapped.  Later also: its name does not lead to its
\* ring, which was removed or made while an older one was still held; or the
\* subscriber has another ring of that name open.
DropExplained ==
    \/ dropped.why = "none"
    \/ dropped.why = "queue"    /\ received >= dropped.num + QueueLimit
    \/ dropped.why = "unwanted" /\ "remote" \notin subs
    \/ /\ dropped.why = "unnamed" /\ removed > 0
       /\ dropped.ring # writerRing \/ dropped.ring \in crossed
    \/ /\ dropped.why = "overwritten"
       /\ \/ MappedAnother(dropped.ring)
          \/ 2 * rings[dropped.ring].cursor >= dropped.seq + 2 * Slots

\* The name leads to the ring that is written to: the destructor of an older ring
\* that a publishing thread still held does not take it away, unless the new
\* one was made meanwhile.
WriterRingNamed == writerRing # 0 /\ writerRing \notin crossed => named = writerRing

\* Whatever the ring does, a message with a remote subscriber goes through the
\* socket, once: one too large for the slots is sent as a payload.
Sending == {t \in Threads : pc[t] \in {"ring", "write", "send"}}
NothingSwallowed == registered => made = sent + lost + Cardinality(Sending)

Remote == INSTANCE Channel WITH MayLose <- TRUE, entered <- sent, left <- heard.num
\* The other process is given messages in the order they were sent in, on either
\* transport, each at most once.
RemoteInOrder == Remote!Spec

Local == INSTANCE Channel WITH MayLose <- FALSE, entered <- pushed, left <- localHeard
\* The own process is given every message once, in the order they were pushed.
LocalInOrder == Local!Spec

-----------------------------------------------------------------------------
(* What the properties rest on, proved in DataPathProofs.                   *)

\* A descriptor made from h: its slot still holds the message, or its ring has
\* been lapped since.
InRing(h, all) ==
    h.ring # 0 =>
        /\ h.ring \in 1..Len(all) /\ h.size <= all[h.ring].size
        /\ \E c \in 0..(all[h.ring].cursor - 1) : h.slot = c % Slots /\ h.seq = 2 * c + 2
        /\ \/ all[h.ring].slots[h.slot] = [seq |-> h.seq, msg |-> h.msg]
           \/ /\ all[h.ring].slots[h.slot].seq # h.seq
              /\ 2 * all[h.ring].cursor >= h.seq + 2 * Slots

AllInRing ==
    /\ \A t \in Threads : pc[t] = "send" => InRing(job[t], rings)
    /\ \A i \in 1..Len(wire) : InRing(wire[i], rings)
    /\ \A i \in 1..Len(queue) : InRing(queue[i], rings)
    /\ \A i \in 1..Len(batch) : InRing(batch[i], rings)

JobsInRing ==
    \A t \in Threads :
        /\ job[t].ring \in 0..Len(rings)
        /\ pc[t] \in {"idle", "ring"} => job[t].ring = 0
        /\ pc[t] = "write" => job[t].ring # 0 /\ job[t].size <= rings[job[t].ring].size

NumberedFrom(s, n) == \A i \in 1..Len(s) : s[i].num = n + i

Numbered ==
    /\ sent = received + Len(wire) /\ NumberedFrom(wire, received)
    /\ Len(queue) <= QueueLimit /\ NumberedFrom(queue, received - Len(queue))
    /\ heard.num <= received - Len(queue)
    /\ \A i \in 1..Len(batch) : /\ heard.num < batch[i].num
                                /\ batch[i].num <= received - Len(queue)
    /\ \A i, j \in 1..Len(batch) : i < j => batch[i].num < batch[j].num

LocalNumbered ==
    /\ pushed = localHeard + Len(localBatch) + Len(localQueue)
    /\ NumberedFrom(localBatch, localHeard)
    /\ NumberedFrom(localQueue, localHeard + Len(localBatch))

HeldRings ==
    writerRing # 0 /\ writerRing \notin crossed =>
        /\ named = writerRing
        /\ \A t \in Threads : job[t].ring \in {0, writerRing}

\* Until unadvertise removes it there is one ring.
FirstRing ==
    removed = 0 => crossed = {} /\ Len(rings) <= 1 /\ writerRing = Len(rings)

HeardFrom ==
    /\ heard.ring = 0 => heard.got = heard.msg
    /\ heard.ring # 0 => readerRing # 0

DroppedFrom ==
    /\ dropped.why = "unnamed" => dropped.ring \in 1..Len(rings)
    /\ dropped.why = "overwritten" => dropped.ring \in 1..Len(rings) /\ readerRing # 0
=============================================================================
