--------------------------- MODULE DataPathProofs ---------------------------
(***************************************************************************)
(* Proofs about DataPath for any number of threads, slots, messages, rings *)
(* and any queue limit.                                                    *)
(***************************************************************************)
EXTENDS DataPath, FiniteSetTheorems, TLAPS

SlotNumbers == 0..(Slots - 1)

LEMMA SlotInRange == \A c \in Nat : c % Slots \in SlotNumbers
  BY BoundsAssumption DEF SlotNumbers

\* Two messages of a ring in one slot are a whole turn apart.
LEMMA WholeTurn ==
  ASSUME NEW a \in Nat, NEW b \in Nat, a % Slots = b % Slots, a < b
  PROVE  b >= a + Slots
<1> DEFINE qa == a \div Slots
           qb == b \div Slots
<1>1. Slots \in Nat /\ Slots > 0 /\ qa \in Int /\ qb \in Int
  BY BoundsAssumption
<1>2. a = Slots * qa + (a % Slots) /\ b = Slots * qb + (b % Slots)
  BY <1>1
<1>3. b - a = Slots * (qb - qa)
  BY <1>1, <1>2
<1>4. qb - qa >= 1
  <2>1. SUFFICES ASSUME qb - qa <= 0 PROVE FALSE
    BY <1>1
  <2>2. Slots * (qb - qa) <= 0
    BY <1>1, <2>1
  <2>3. QED
    BY <1>3, <2>2
<1>5. Slots * (qb - qa) >= Slots
  BY <1>1, <1>4
<1>6. QED
  BY <1>1, <1>3, <1>5

-----------------------------------------------------------------------------
(* Type correctness. *)

\* Facts about sequences, with no other definitions around.
LEMMA HeadTail ==
  ASSUME NEW S, NEW s \in Seq(S), s # << >>
  PROVE  /\ Head(s) \in S /\ Head(s) = s[1] /\ Len(s) \in Nat /\ Len(s) >= 1
         /\ Tail(s) \in Seq(S) /\ Len(Tail(s)) = Len(s) - 1
         /\ \A i \in 1..(Len(s) - 1) : Tail(s)[i] = s[i + 1]
  OBVIOUS

LEMMA Appended ==
  ASSUME NEW S, NEW s \in Seq(S), NEW e \in S
  PROVE  /\ Append(s, e) \in Seq(S) /\ Append(s, e) # << >>
         /\ Len(s) \in Nat /\ Len(Append(s, e)) = Len(s) + 1
         /\ \A i \in 1..Len(s) : Append(s, e)[i] = s[i]
         /\ Append(s, e)[Len(s) + 1] = e
  OBVIOUS

\* A ring stays a ring when a message is written to it.
LEMMA RingTypes ==
  ASSUME NEW ring \in RingOf, NEW msg \in Nat
  PROVE  /\ ring.cursor \in Nat /\ ring.size \in Nat
         /\ SlotOf(ring) \in SlotNumbers /\ SeqOf(ring) \in Nat
         /\ Written(ring, msg) \in RingOf
<1>1. /\ ring.cursor \in Nat /\ ring.size \in Nat
      /\ ring.slots \in [SlotNumbers -> [seq : Nat, msg : Nat]]
  BY DEF RingOf, SlotNumbers
<1>2. SlotOf(ring) \in SlotNumbers /\ SeqOf(ring) \in Nat
  BY <1>1, SlotInRange DEF SlotOf, SeqOf
<1>3. [ring.slots EXCEPT ![SlotOf(ring)] = [seq |-> SeqOf(ring), msg |-> msg]]
        \in [SlotNumbers -> [seq : Nat, msg : Nat]]
  BY <1>1, <1>2
<1>4. Written(ring, msg) \in RingOf
  <2> DEFINE slots == [ring.slots EXCEPT ![SlotOf(ring)] = [seq |-> SeqOf(ring), msg |-> msg]]
  <2>1. Written(ring, msg) = [ring EXCEPT !.slots = slots, !.cursor = ring.cursor + 1]
    BY DEF Written, RingOf
  <2>2. ring.cursor + 1 \in Nat
    BY <1>1
  <2> HIDE DEF slots
  <2>3. slots \in [SlotNumbers -> [seq : Nat, msg : Nat]]
    BY <1>3 DEF slots
  <2>4. [ring EXCEPT !.slots = slots, !.cursor = ring.cursor + 1] \in RingOf
    BY ONLY ring \in RingOf, <2>2, <2>3 DEF RingOf, SlotNumbers
  <2>5. QED
    BY <2>1, <2>4
<1>5. QED
  BY <1>1, <1>2, <1>4

LEMMA TypeInit == Init => TypeOK
<1> SUFFICES ASSUME Init PROVE TypeOK
  OBVIOUS
<1>1. 0 \in SlotNumbers
  BY BoundsAssumption DEF SlotNumbers
<1>2. NoJob \in Job /\ NoHeard \in Heard /\ NoDrop \in Dropped
  BY <1>1 DEF NoJob, Job, SlotNumbers, NoHeard, Heard, NoDrop, Dropped
<1>3. subs \subseteq {"local", "remote"} /\ registered \in BOOLEAN
  BY InputsAssumption DEF Init
<1>4. QED
  BY <1>2, <1>3 DEF Init, TypeOK

LEMMA TypeStep == TypeOK /\ JobsInRing /\ [Next]_vars => TypeOK'
<1> SUFFICES ASSUME TypeOK, JobsInRing, [Next]_vars PROVE TypeOK'
  OBVIOUS
<1> USE DEF TypeOK
<1>0. 0 \in SlotNumbers /\ NoJob \in Job
  BY BoundsAssumption DEF SlotNumbers, NoJob, Job
<1>a. Len(rings) \in Nat /\ writerRing \in Nat /\ named \in Nat
  OBVIOUS
<1>b. \A j \in Job, r \in Nat : [j EXCEPT !.ring = r] \in Job
  BY DEF Job
<1>1. ASSUME NEW t \in Threads, Publish(t) PROVE TypeOK'
  <2>0. \/ pc' = [pc EXCEPT ![t] = "local"] \/ pc' = [pc EXCEPT ![t] = "ring"]
        \/ pc' = [pc EXCEPT ![t] = "send"]
    BY <1>1 DEF Publish, Step
  <2>1. made' \in Nat /\ pc' \in [Threads -> {"idle", "ring", "write", "send", "local"}]
    <3>1. pc \in [Threads -> {"idle", "ring", "write", "send", "local"}]
      OBVIOUS
    <3>2. made' \in Nat
      BY SMTT(30), <1>1 DEF Publish
    <3>3. QED
      BY ONLY <2>0, <3>1, <3>2
  <2>2. PICK size \in Sizes :
          job' = [job EXCEPT ![t] = [NoJob EXCEPT !.msg = made', !.size = size,
                                                  !.locals = subs \ {"remote"}]]
    BY <1>1 DEF Publish
  <2>3. [NoJob EXCEPT !.msg = made', !.size = size, !.locals = subs \ {"remote"}] \in Job
    BY <1>0, <2>1, InputsAssumption DEF Job, NoJob, SlotNumbers
  <2>4. job' \in [Threads -> Job]
    BY <2>2, <2>3
  <2>5. QED
    BY <1>1, <2>1, <2>4 DEF Publish, ringVars, remoteVars, localVars, subVars
<1>2. ASSUME NEW t \in Threads, UseRing(t) PROVE TypeOK'
  <2>1. [job[t] EXCEPT !.ring = writerRing] \in Job
    BY <1>a, <1>b
  <2>2. job' \in [Threads -> Job]
    BY <1>2, <2>1 DEF UseRing
  <2>3. QED
    BY <1>2, <2>2 DEF UseRing, Step, ringVars, remoteVars, localVars, subVars
<1>3. ASSUME NEW t \in Threads, MakeRing(t) PROVE TypeOK'
  <2>1. job[t].size \in Nat
    BY DEF Job
  <2>2. Ring(job[t].size) \in RingOf
    BY <2>1 DEF Ring, RingOf
  <2>3. /\ rings' \in Seq(RingOf) /\ Len(rings') = Len(rings) + 1
        /\ writerRing' = Len(rings) + 1 /\ named' = Len(rings) + 1
    BY <1>3, <2>2, Appended DEF MakeRing
  <2>4. [job[t] EXCEPT !.ring = writerRing'] \in Job
    <3>1. job[t] \in Job /\ writerRing' \in Nat
      BY <1>a, <2>3
    <3>2. QED
      BY ONLY <3>1, <1>b
  <2>5. job' \in [Threads -> Job]
    BY <1>3, <2>4 DEF MakeRing
  <2>6. readerRing' \in 0..Len(rings') /\ writerRing' \in 0..Len(rings') /\ named' \in 0..Len(rings')
    BY SMTT(30), <1>3, <1>a, <2>3 DEF MakeRing, remoteVars
  <2>7. crossed' \subseteq 1..Len(rings')
    BY SMTT(30), <1>3, <1>a, <2>3 DEF MakeRing
  <2>8. QED
    BY <1>3, <2>3, <2>5, <2>6, <2>7 DEF MakeRing, Step, remoteVars, localVars, subVars
<1>4. ASSUME NEW t \in Threads, FailToMakeRing(t) PROVE TypeOK'
  BY <1>4, <1>a DEF FailToMakeRing, Step, remoteVars, localVars, subVars
<1>5. ASSUME NEW t \in Threads, FallBack(t) PROVE TypeOK'
  BY <1>5 DEF FallBack, Step, ringVars, remoteVars, localVars, subVars
<1>6. ASSUME NEW t \in Threads, WriteSlot(t) PROVE TypeOK'
  <2> DEFINE r == job[t].ring
  <2>1. job[t] \in Job /\ job[t].msg \in Nat /\ r \in 1..Len(rings)
    <3>1. pc[t] = "write"
      BY <1>6 DEF WriteSlot, Step
    <3>2. QED
      BY <3>1, <1>a DEF Job, JobsInRing
  <2>2. rings[r] \in RingOf
    BY <2>1
  <2>3. SlotOf(rings[r]) \in SlotNumbers /\ SeqOf(rings[r]) \in Nat
    BY <2>2, RingTypes
  <2>4. rings' \in Seq(RingOf) /\ Len(rings') = Len(rings)
    <3>1. rings \in Seq(RingOf) /\ Written(rings[r], job[t].msg) \in RingOf
      BY <2>1, <2>2, RingTypes
    <3>2. rings' = [rings EXCEPT ![r] = Written(rings[r], job[t].msg)]
      BY <1>6 DEF WriteSlot
    <3>3. QED
      BY ONLY <2>1, <3>1, <3>2
  <2>5. [job[t] EXCEPT !.slot = SlotOf(rings[r]), !.seq = SeqOf(rings[r])] \in Job
    BY ONLY <2>1, <2>3 DEF Job, SlotNumbers
  <2>6. job' \in [Threads -> Job]
    <3>1. job' = [job EXCEPT ![t] = [job[t] EXCEPT !.slot = SlotOf(rings[r]),
                                                   !.seq = SeqOf(rings[r])]]
      BY <1>6 DEF WriteSlot
    <3>2. QED
      BY <2>5, <3>1
  <2>7. pc' \in [Threads -> {"idle", "ring", "write", "send", "local"}]
    BY <1>6 DEF WriteSlot, Step
  <2>8. QED
    BY <1>6, <2>4, <2>6, <2>7 DEF WriteSlot, remoteVars, localVars, subVars
<1>7. ASSUME NEW t \in Threads, Send(t) PROVE TypeOK'
  <2> DEFINE m == [num |-> sent', msg |-> job[t].msg, size |-> job[t].size,
                   ring |-> job[t].ring, slot |-> job[t].slot, seq |-> job[t].seq]
  <2>1. sent' \in Nat /\ lost' \in Nat
    BY SMTT(30), <1>7 DEF Send
  <2>2. m \in Message
    BY <2>1 DEF Job, Message
  <2>3. wire' = wire \/ wire' = Append(wire, m)
    BY <1>7 DEF Send
  <2>4. wire' \in Seq(Message)
    <3> HIDE DEF m
    <3>1. wire \in Seq(Message)
      OBVIOUS
    <3>2. QED
      BY ONLY <2>2, <2>3, <3>1, Appended
  <2>5. QED
    BY <1>7, <2>1, <2>4 DEF Send, Step, ringVars, remoteVars, localVars, subVars
<1>8. ASSUME NEW t \in Threads, PublishLocal(t) PROVE TypeOK'
  <2>1. job' \in [Threads -> Job]
    BY <1>0, <1>8 DEF PublishLocal
  <2>2. pushed' \in Nat
    BY <1>8 DEF PublishLocal
  <2> DEFINE m == [num |-> pushed', msg |-> job[t].msg]
  <2>3. m \in LocalMessage
    BY <2>2 DEF Job, LocalMessage
  <2>4. localQueue' \in Seq(LocalMessage)
    <3>1. localQueue' = localQueue \/ localQueue' = Append(localQueue, m)
      BY <1>8 DEF PublishLocal
    <3>2. localQueue \in Seq(LocalMessage)
      OBVIOUS
    <3> HIDE DEF m
    <3>3. QED
      BY ONLY <2>3, <3>1, <3>2, Appended
  <2>5. named' \in 0..Len(rings)
    BY <1>8 DEF PublishLocal, NamedAfter
  <2>6. QED
    BY <1>8, <2>1, <2>2, <2>4, <2>5 DEF PublishLocal, Step, remoteVars, subVars
<1>8a. ASSUME NEW t \in Threads, SendShmFails(t) PROVE TypeOK'
  <2>1. [job[t] EXCEPT !.ring = 0, !.slot = 0, !.seq = 0] \in Job
    BY <1>0 DEF Job, SlotNumbers
  <2>2. job' \in [Threads -> Job]
    BY <1>8a, <2>1 DEF SendShmFails
  <2>3. named' \in 0..Len(rings)
    BY <1>8a DEF SendShmFails, NamedAfter
  <2>3a. refused' \in Nat
    BY <1>8a DEF SendShmFails
  <2>4. QED
    BY <1>8a, <2>2, <2>3, <2>3a DEF SendShmFails, remoteVars, localVars, subVars
<1>8b. ASSUME NEW t \in Threads, SendFails(t) PROVE TypeOK'
  <2>1. job' \in [Threads -> Job] /\ lost' \in Nat
    BY <1>0, <1>8b DEF SendFails
  <2>2. QED
    BY <1>8b, <2>1 DEF SendFails, Step, ringVars, remoteVars, localVars, subVars
<1>9. ASSUME Unadvertise PROVE TypeOK'
  <2>1. named' \in 0..Len(rings) /\ writerRing' \in 0..Len(rings)
    BY <1>9, <1>a DEF Unadvertise
  <2>2. QED
    BY <1>9, <2>1 DEF Unadvertise, remoteVars, localVars, subVars
<1>10. ASSUME TakeLocal PROVE TypeOK'
  BY <1>10 DEF TakeLocal, ringVars, remoteVars, subVars
<1>11. ASSUME RunLocal PROVE TypeOK'
  <2>1. Head(localBatch) \in LocalMessage /\ localBatch' \in Seq(LocalMessage)
    BY <1>11, HeadTail DEF RunLocal
  <2>2. localHeard' \in Nat
    BY <1>11, <2>1 DEF RunLocal, LocalMessage
  <2>3. QED
    BY <1>11, <2>1, <2>2 DEF RunLocal, ringVars, remoteVars, subVars
<1>12. ASSUME ReceiveMessage PROVE TypeOK'
  <2> DEFINE all == Append(queue, Head(wire))
  <2>1. Head(wire) \in Message /\ wire' \in Seq(Message)
    BY <1>12, HeadTail DEF ReceiveMessage
  <2>2. received' \in Nat
    BY <1>12, <2>1 DEF ReceiveMessage, Message
  <2>3. all \in Seq(Message) /\ all # << >>
    <3>1. queue \in Seq(Message)
      OBVIOUS
    <3>2. QED
      BY ONLY <2>1, <3>1, Appended
  <2>4. Head(all) \in Message /\ Tail(all) \in Seq(Message)
    BY <2>3, HeadTail
  <2>5. queue' \in Seq(Message)
    BY <1>12, <2>3, <2>4 DEF ReceiveMessage
  <2>6. [why |-> "queue", num |-> Head(all).num, ring |-> Head(all).ring, seq |-> Head(all).seq]
          \in Dropped
    BY <2>4 DEF Message, Dropped
  <2>7. dropped' \in Dropped
    BY <1>12, <2>6 DEF ReceiveMessage
  <2>8. QED
    BY <1>12, <2>1, <2>2, <2>5, <2>7 DEF ReceiveMessage, ringVars, localVars, subVars
<1>13. ASSUME TakeBatch PROVE TypeOK'
  BY <1>13 DEF TakeBatch, ringVars, localVars, subVars
<1>14. ASSUME Dispatch PROVE TypeOK'
  <2> DEFINE m == Head(batch)
  <2>1. m \in Message /\ batch' \in Seq(Message)
    BY <1>14, HeadTail DEF Dispatch
  <2>2. ASSUME NEW why \in {"unwanted", "unnamed", "overwritten"}, Drop(m, why)
        PROVE  dropped' \in Dropped
    BY <2>1, <2>2 DEF Drop, Message, Dropped
  <2>3. CASE DropUnwanted(m)
    BY <1>14, <2>1, <2>2, <2>3 DEF Dispatch, DropUnwanted, ringVars, localVars, subVars
  <2>4. CASE DeliverPayload(m)
    <3>1. heard' \in Heard
      BY <2>1, <2>4 DEF DeliverPayload, Message, Heard
    <3>2. QED
      BY <1>14, <2>1, <2>4, <3>1 DEF Dispatch, DeliverPayload, ringVars, localVars, subVars
  <2>5. CASE FailToOpen(m)
    BY <1>14, <2>1, <2>2, <2>5 DEF Dispatch, FailToOpen, ringVars, localVars, subVars
  <2>6. CASE ReadSlot(m)
    <3>1. readerRing' \in 1..Len(rings)
      BY <2>6, <1>a DEF ReadSlot, ReaderRingFor
    <3>2. rings[readerRing'] \in RingOf /\ m.slot \in SlotNumbers
      <4>1. rings \in Seq(RingOf)
        OBVIOUS
      <4>2. rings[readerRing'] \in RingOf
        BY ONLY <3>1, <4>1
      <4>3. m.slot \in SlotNumbers
        BY <2>1 DEF Message, SlotNumbers
      <4>4. QED
        BY <4>2, <4>3
    <3>3. rings[readerRing'].slots[m.slot].msg \in Nat
      BY ONLY <3>2 DEF RingOf, SlotNumbers
    <3>4. heard' \in Heard
      <4>1. CASE UNCHANGED heard
        BY <4>1
      <4>2. ASSUME NEW got \in Nat,
                   heard' = [num |-> m.num, msg |-> m.msg, got |-> got, ring |-> m.ring]
            PROVE  heard' \in Heard
        BY <2>1, <4>2 DEF Heard, Message
      <4>3. QED
        BY <2>6, <3>3, <4>1, <4>2 DEF ReadSlot, ReaderRingFor
    <3>5. dropped' \in Dropped
      BY <2>2, <2>6 DEF ReadSlot, ReaderRingFor
    <3>6. readerRing' \in 0..Len(rings')
      BY <1>14, <3>1 DEF Dispatch, ringVars
    <3>7. QED
      BY <1>14, <2>1, <3>4, <3>5, <3>6 DEF Dispatch, ringVars, localVars, subVars
  <2>7. QED
    BY <1>14, <2>3, <2>4, <2>5, <2>6 DEF Dispatch
<1>15. ASSUME Unregister PROVE TypeOK'
  BY <1>15 DEF Unregister, ringVars, remoteVars, localVars
<1>16. ASSUME NEW where \in {"local", "remote"}, Unsubscribe(where) PROVE TypeOK'
  BY <1>16 DEF Unsubscribe, ringVars, remoteVars, localVars
<1>17. ASSUME UNCHANGED vars PROVE TypeOK'
  BY <1>17 DEF vars, ringVars, remoteVars, localVars, subVars
<1>18. QED
  BY <1>1, <1>2, <1>3, <1>4, <1>5, <1>6, <1>7, <1>8, <1>8a, <1>8b, <1>9, <1>10, <1>11,
     <1>12, <1>13, <1>14, <1>15, <1>16, <1>17 DEF Next, LocalThread, DispatchThread

-----------------------------------------------------------------------------
(* The rings, and what is in flight. *)

LEMMA WrittenSize ==
  \A ring \in RingOf, msg \in Nat :
      Written(ring, msg).size = ring.size /\ Written(ring, msg).cursor = ring.cursor + 1
  BY RingTypes DEF Written, RingOf

LEMMA WrittenSlots ==
  \A ring \in RingOf, msg \in Nat :
      /\ Written(ring, msg).slots[SlotOf(ring)] = [seq |-> SeqOf(ring), msg |-> msg]
      /\ \A i \in SlotNumbers : i # SlotOf(ring) =>
            Written(ring, msg).slots[i] = ring.slots[i]
  BY RingTypes DEF Written, RingOf, SlotNumbers

\* No ring ever goes, and one changes only by a message written to it.
LEMMA RingsGrow ==
  ASSUME TypeOK, JobsInRing, [Next]_vars
  PROVE  /\ Len(rings) \in Nat /\ Len(rings') \in Nat /\ Len(rings') >= Len(rings)
         /\ \A r \in 1..Len(rings) :
               \/ rings'[r] = rings[r]
               \/ \E msg \in Nat : rings'[r] = Written(rings[r], msg)
<1>0. rings \in Seq(RingOf) /\ Len(rings) \in Nat
  BY DEF TypeOK
<1>1. CASE rings' = rings
  BY <1>0, <1>1
<1>2. ASSUME NEW t \in Threads, MakeRing(t)
      PROVE  /\ Len(rings') = Len(rings) + 1
             /\ \A r \in 1..Len(rings) : rings'[r] = rings[r]
  <2>1. job[t].size \in Nat
    BY DEF TypeOK, Job
  <2>2. Ring(job[t].size) \in RingOf
    BY <2>1 DEF Ring, RingOf
  <2>3. rings' = Append(rings, Ring(job[t].size))
    BY <1>2 DEF MakeRing
  <2>4. QED
    BY ONLY <1>0, <2>2, <2>3, Appended
<1>3. ASSUME NEW t \in Threads, WriteSlot(t)
      PROVE  /\ Len(rings') = Len(rings)
             /\ \A r \in 1..Len(rings) :
                   \/ rings'[r] = rings[r]
                   \/ \E msg \in Nat : rings'[r] = Written(rings[r], msg)
  <2>1. job[t].msg \in Nat
    BY DEF TypeOK, Job
  <2>2. rings' = [rings EXCEPT ![job[t].ring] = Written(rings[job[t].ring], job[t].msg)]
    BY <1>3 DEF WriteSlot
  <2>3. QED
    BY ONLY <1>0, <2>1, <2>2
<1>4. \/ rings' = rings \/ \E t \in Threads : MakeRing(t) \/ WriteSlot(t)
  BY DEF Next, vars, ringVars, Publish, UseRing, FailToMakeRing, FallBack, Send,
         SendShmFails, SendFails, PublishLocal, Unadvertise, LocalThread, TakeLocal, RunLocal, ReceiveMessage,
         DispatchThread, TakeBatch, Dispatch, Unregister, Unsubscribe
<1>5. QED
  BY <1>0, <1>1, <1>2, <1>3, <1>4

LEMMA RingKept ==
  ASSUME TypeOK, JobsInRing, [Next]_vars, NEW r \in 1..Len(rings)
  PROVE  /\ r \in 1..Len(rings')
         /\ rings[r].size \in Nat /\ rings'[r].size = rings[r].size
         /\ rings[r].cursor \in Nat /\ rings'[r].cursor \in Nat
         /\ rings'[r].cursor >= rings[r].cursor
<1>1. rings[r] \in RingOf
  BY DEF TypeOK
<1>2. \/ rings'[r] = rings[r]
      \/ \E msg \in Nat : rings'[r] = Written(rings[r], msg)
  BY RingsGrow
<1>3. rings[r].cursor \in Nat /\ rings[r].size \in Nat
  BY <1>1, RingTypes
<1>4. CASE rings'[r] = rings[r]
  BY <1>3, <1>4, RingsGrow
<1>5. ASSUME NEW msg \in Nat, rings'[r] = Written(rings[r], msg)
      PROVE  rings'[r].size = rings[r].size /\ rings'[r].cursor = rings[r].cursor + 1
  <2>1. rings'[r] = Written(rings[r], msg)
    BY <1>5
  <2>2. Written(rings[r], msg).size = rings[r].size /\ Written(rings[r], msg).cursor = rings[r].cursor + 1
    BY <1>1, WrittenSize
  <2>3. QED
    BY ONLY <2>1, <2>2
<1>6. CASE \E msg \in Nat : rings'[r] = Written(rings[r], msg)
  BY <1>3, <1>5, <1>6, RingsGrow
<1>7. QED
  BY <1>2, <1>4, <1>6

\* What was put in a slot is there until the ring has been lapped.
LEMMA InRingKept ==
  ASSUME TypeOK, JobsInRing, [Next]_vars,
         NEW h, h.slot \in SlotNumbers, h.seq \in Nat, InRing(h, rings)
  PROVE  InRing(h, rings')
<1> SUFFICES ASSUME h.ring # 0
             PROVE  /\ h.ring \in 1..Len(rings') /\ h.size <= rings'[h.ring].size
                    /\ \E c \in 0..(rings'[h.ring].cursor - 1) :
                          h.slot = c % Slots /\ h.seq = 2 * c + 2
                    /\ \/ rings'[h.ring].slots[h.slot] = [seq |-> h.seq, msg |-> h.msg]
                       \/ /\ rings'[h.ring].slots[h.slot].seq # h.seq
                          /\ 2 * rings'[h.ring].cursor >= h.seq + 2 * Slots
  BY DEF InRing
<1> DEFINE r == h.ring
<1>1. /\ r \in 1..Len(rings) /\ h.size <= rings[r].size
      /\ \/ rings[r].slots[h.slot] = [seq |-> h.seq, msg |-> h.msg]
         \/ /\ rings[r].slots[h.slot].seq # h.seq
            /\ 2 * rings[r].cursor >= h.seq + 2 * Slots
  BY DEF InRing
<1>2. PICK c \in 0..(rings[r].cursor - 1) : h.slot = c % Slots /\ h.seq = 2 * c + 2
  BY DEF InRing
<1>3. /\ r \in 1..Len(rings') /\ rings'[r].size = rings[r].size
      /\ rings[r].cursor \in Nat /\ rings'[r].cursor \in Nat
      /\ rings'[r].cursor >= rings[r].cursor
  BY <1>1, RingKept
<1>4. c \in 0..(rings'[r].cursor - 1) /\ c \in Nat
  BY <1>2, <1>3
<1>5. CASE rings'[r] = rings[r]
  BY <1>1, <1>2, <1>3, <1>5
<1>6. ASSUME NEW msg \in Nat, rings'[r] = Written(rings[r], msg)
      PROVE  \/ rings'[r].slots[h.slot] = [seq |-> h.seq, msg |-> h.msg]
             \/ /\ rings'[r].slots[h.slot].seq # h.seq
                /\ 2 * rings'[r].cursor >= h.seq + 2 * Slots
  <2>1. rings[r] \in RingOf
    BY <1>1 DEF TypeOK
  <2>a. rings'[r] = Written(rings[r], msg)
    BY <1>6
  <2>2. rings'[r].cursor = rings[r].cursor + 1
    <3>1. Written(rings[r], msg).cursor = rings[r].cursor + 1
      BY <2>1, WrittenSize
    <3>2. QED
      BY ONLY <2>a, <3>1
  <2>3. CASE h.slot # SlotOf(rings[r])
    <3>1. rings'[r].slots[h.slot] = rings[r].slots[h.slot]
      <4>1. \A i \in SlotNumbers : i # SlotOf(rings[r]) => rings'[r].slots[i] = rings[r].slots[i]
        <5>1. \A i \in SlotNumbers : i # SlotOf(rings[r]) =>
                 Written(rings[r], msg).slots[i] = rings[r].slots[i]
          BY <2>1, WrittenSlots
        <5>2. QED
          BY ONLY <2>a, <5>1
      <4>2. QED
        BY <2>3, <4>1
    <3>2. CASE rings[r].slots[h.slot] = [seq |-> h.seq, msg |-> h.msg]
      BY <3>1, <3>2
    <3>3. CASE /\ rings[r].slots[h.slot].seq # h.seq
               /\ 2 * rings[r].cursor >= h.seq + 2 * Slots
      <4>1. Slots \in Nat /\ h.seq \in Nat
        BY BoundsAssumption
      <4>2. 2 * rings'[r].cursor >= h.seq + 2 * Slots
        <5> DEFINE a == rings[r].cursor
                   b == rings'[r].cursor
                   q == h.seq
        <5>1. a \in Nat /\ b = a + 1 /\ q \in Nat /\ 2 * a >= q + 2 * Slots
          BY <1>3, <2>2, <3>3
        <5> HIDE DEF a, b, q
        <5>2. 2 * b >= q + 2 * Slots
          BY ONLY <4>1, <5>1
        <5>3. QED
          BY <5>2 DEF b, q
      <4>3. QED
        BY <3>1, <3>3, <4>2
    <3>4. QED
      BY <1>1, <3>2, <3>3
  <2>4. CASE h.slot = SlotOf(rings[r])
    <3>1. rings'[r].slots[h.slot] = [seq |-> SeqOf(rings[r]), msg |-> msg]
      <4>1. rings'[r].slots[SlotOf(rings[r])] = [seq |-> SeqOf(rings[r]), msg |-> msg]
        <5>1. Written(rings[r], msg).slots[SlotOf(rings[r])] = [seq |-> SeqOf(rings[r]), msg |-> msg]
          BY <2>1, WrittenSlots
        <5>2. QED
          BY ONLY <2>a, <5>1
      <4>2. QED
        BY <2>4, <4>1
    <3>2. rings'[r].slots[h.slot].seq = 2 * rings[r].cursor + 2
      BY <3>1 DEF SeqOf
    <3>3. c < rings[r].cursor /\ c % Slots = rings[r].cursor % Slots
      BY <1>2, <1>3, <2>4 DEF SlotOf
    <3>4. rings[r].cursor >= c + Slots
      BY <1>3, <1>4, <3>3, WholeTurn
    <3>5. rings'[r].slots[h.slot].seq # h.seq /\ 2 * rings'[r].cursor >= h.seq + 2 * Slots
      <4> DEFINE a == rings[r].cursor
                 b == rings'[r].cursor
                 q == h.seq
                 s == rings'[r].slots[h.slot].seq
      <4>1. a \in Nat /\ b = a + 1 /\ c \in Nat /\ q = 2 * c + 2 /\ s = 2 * a + 2 /\ c < a /\ a >= c + Slots
        BY <1>2, <1>3, <1>4, <2>2, <3>2, <3>3, <3>4
      <4>2. Slots \in Nat
        BY BoundsAssumption
      <4> HIDE DEF a, b, q, s
      <4>3. s # q /\ 2 * b >= q + 2 * Slots
        BY ONLY <4>1, <4>2
      <4>4. QED
        BY <4>3 DEF b, q, s
    <3>6. QED
      BY <3>5
  <2>5. QED
    BY <2>3, <2>4
<1>7. \/ rings'[r] = rings[r]
      \/ \E msg \in Nat : rings'[r] = Written(rings[r], msg)
  BY <1>1, RingsGrow
<1>8. QED
  BY <1>1, <1>2, <1>3, <1>4, <1>5, <1>6, <1>7

LEMMA JobsInit == Init => JobsInRing
  BY DEF Init, JobsInRing, NoJob

\* What a thread's action does to the threads' jobs.
LEMMA OtherThreads ==
  ASSUME TypeOK, NEW t \in Threads, NEW u \in Threads \ {t},
         \/ Publish(t) \/ UseRing(t) \/ MakeRing(t) \/ FailToMakeRing(t)
         \/ FallBack(t) \/ WriteSlot(t) \/ Send(t) \/ SendShmFails(t) \/ SendFails(t) \/ PublishLocal(t)
  PROVE  pc'[u] = pc[u] /\ job'[u] = job[u]
  BY DEF TypeOK, Publish, UseRing, MakeRing, FailToMakeRing, FallBack, WriteSlot,
         Send, SendShmFails, SendFails, PublishLocal, Step

LEMMA JobsStep == TypeOK /\ JobsInRing /\ [Next]_vars => JobsInRing'
<1> SUFFICES ASSUME TypeOK, JobsInRing, [Next]_vars, NEW u \in Threads
             PROVE  /\ job'[u].ring \in 0..Len(rings')
                    /\ pc'[u] \in {"idle", "ring"} => job'[u].ring = 0
                    /\ pc'[u] = "write" => /\ job'[u].ring # 0
                                           /\ job'[u].size <= rings'[job'[u].ring].size
  BY DEF JobsInRing
<1>a. /\ Len(rings) \in Nat /\ Len(rings') \in Nat /\ Len(rings') >= Len(rings)
      /\ job[u] \in Job /\ job[u].ring \in 0..Len(rings) /\ job[u].size \in Nat
      /\ pc[u] \in {"idle", "ring"} => job[u].ring = 0
      /\ pc[u] = "write" => job[u].ring # 0 /\ job[u].size <= rings[job[u].ring].size
  BY RingsGrow DEF TypeOK, JobsInRing, Job
<1>b. 0 \in 0..Len(rings') /\ job[u].ring \in 0..Len(rings')
  BY ONLY <1>a
<1>1. CASE pc'[u] = pc[u] /\ job'[u] = job[u]
  <2>1. CASE job[u].ring = 0
    BY <1>1, <1>a, <1>b, <2>1
  <2>2. CASE job[u].ring # 0
    <3>1. job[u].ring \in 1..Len(rings)
      BY <1>a, <2>2
    <3>2. rings'[job[u].ring].size = rings[job[u].ring].size
      BY <3>1, RingKept
    <3>3. QED
      BY <1>1, <1>a, <1>b, <3>2
  <2>3. QED
    BY <2>1, <2>2
<1>2. CASE Publish(u)
  <2>1. job'[u].ring = 0 /\ pc'[u] # "write"
    BY <1>2 DEF Publish, Step, NoJob, TypeOK
  <2>2. QED
    BY <1>b, <2>1
<1>3. CASE UseRing(u)
  <2>1. /\ job'[u] = [job[u] EXCEPT !.ring = writerRing] /\ pc'[u] = "write" /\ rings' = rings
        /\ writerRing # 0 /\ writerRing \in 0..Len(rings) /\ job[u].size <= rings[writerRing].size
    BY <1>3 DEF UseRing, Step, TypeOK, ringVars
  <2>2. job'[u].ring = writerRing /\ job'[u].size = job[u].size
    BY <1>a, <2>1 DEF Job
  <2>3. QED
    BY <2>1, <2>2
<1>4. CASE MakeRing(u)
  <2>1. Ring(job[u].size) \in RingOf
    BY <1>a DEF Ring, RingOf
  <2>2. /\ rings' = Append(rings, Ring(job[u].size)) /\ pc'[u] = "write"
        /\ writerRing' = Len(rings') /\ job'[u] = [job[u] EXCEPT !.ring = writerRing']
    BY <1>4 DEF MakeRing, Step, TypeOK
  <2>3. Len(rings') = Len(rings) + 1 /\ rings'[Len(rings) + 1] = Ring(job[u].size)
    BY <2>1, <2>2, Appended DEF TypeOK
  <2>4. job'[u].ring = writerRing' /\ job'[u].size = job[u].size
    BY <1>a, <2>2 DEF Job
  <2>5. rings'[writerRing'].size = job[u].size
    BY <2>2, <2>3 DEF Ring
  <2>6. writerRing' \in 0..Len(rings') /\ writerRing' # 0
    BY <1>a, <2>2, <2>3
  <2>7. QED
    BY <1>a, <2>2, <2>4, <2>5, <2>6
<1>5. CASE FailToMakeRing(u) \/ FallBack(u) \/ Send(u)
  <2>1. job'[u] = job[u] /\ pc'[u] \in {"send", "local"}
    BY <1>5 DEF FailToMakeRing, FallBack, Send, Step, TypeOK
  <2>2. QED
    BY <1>b, <2>1
<1>6. CASE WriteSlot(u)
  <2>1. /\ pc'[u] = "send"
        /\ job'[u] = [job[u] EXCEPT !.slot = SlotOf(rings[job[u].ring]), !.seq = SeqOf(rings[job[u].ring])]
    BY <1>6 DEF WriteSlot, Step, TypeOK
  <2>2. job'[u].ring = job[u].ring
    BY <1>a, <2>1 DEF Job
  <2>3. QED
    BY <1>b, <2>1, <2>2
<1>7. CASE SendFails(u) \/ PublishLocal(u)
  <2>1. job'[u] = NoJob /\ pc'[u] = "idle"
    BY <1>7 DEF SendFails, PublishLocal, Step, TypeOK
  <2>2. QED
    BY <1>b, <2>1 DEF NoJob
<1>7a. CASE SendShmFails(u)
  <2>1. job'[u].ring = 0 /\ pc'[u] = "send"
    BY <1>7a, <1>a DEF SendShmFails, TypeOK, Job
  <2>2. QED
    BY <1>b, <2>1
<1>8. ASSUME NEW t \in Threads,
             \/ Publish(t) \/ UseRing(t) \/ MakeRing(t) \/ FailToMakeRing(t)
             \/ FallBack(t) \/ WriteSlot(t) \/ Send(t) \/ SendShmFails(t) \/ SendFails(t) \/ PublishLocal(t)
      PROVE  u = t \/ (pc'[u] = pc[u] /\ job'[u] = job[u])
  BY <1>8, OtherThreads
<1>9. \/ pc' = pc /\ job' = job
      \/ \E t \in Threads :
            \/ Publish(t) \/ UseRing(t) \/ MakeRing(t) \/ FailToMakeRing(t)
            \/ FallBack(t) \/ WriteSlot(t) \/ Send(t) \/ SendShmFails(t) \/ SendFails(t) \/ PublishLocal(t)
  BY DEF Next, vars, Unadvertise, LocalThread, TakeLocal, RunLocal, ReceiveMessage,
         DispatchThread, TakeBatch, Dispatch, Unregister, Unsubscribe
<1>10. QED
  BY <1>1, <1>2, <1>3, <1>4, <1>5, <1>6, <1>7, <1>7a, <1>8, <1>9

\* Type correctness, and where the threads' rings are.
THEOREM TypeCorrect == Spec => [](TypeOK /\ JobsInRing)
<1>1. Init => TypeOK /\ JobsInRing
  BY TypeInit, JobsInit
<1>2. TypeOK /\ JobsInRing /\ [Next]_vars => (TypeOK /\ JobsInRing)'
  BY TypeStep, JobsStep
<1>3. QED
  BY <1>1, <1>2, PTL DEF Spec

-----------------------------------------------------------------------------
(* Order. *)

LEMMA NumberedAppend ==
  ASSUME NEW S, NEW s \in Seq(S), NEW e \in S, NEW n \in Int,
         NumberedFrom(s, n), e.num = n + Len(s) + 1
  PROVE  NumberedFrom(Append(s, e), n)
  BY Appended DEF NumberedFrom

LEMMA NumberedTail ==
  ASSUME NEW S, NEW s \in Seq(S), s # << >>, NEW n \in Int, NumberedFrom(s, n)
  PROVE  Head(s).num = n + 1 /\ NumberedFrom(Tail(s), n + 1)
<1>1. /\ Head(s) = s[1] /\ Len(s) \in Nat /\ Len(s) >= 1 /\ Len(Tail(s)) = Len(s) - 1
      /\ \A i \in 1..(Len(s) - 1) : Tail(s)[i] = s[i + 1]
  BY HeadTail
<1>2. Head(s).num = n + 1
  BY <1>1 DEF NumberedFrom
<1>3. ASSUME NEW i \in 1..(Len(s) - 1) PROVE Tail(s)[i].num = n + 1 + i
  <2>1. s[i + 1].num = n + (i + 1)
    BY <1>1 DEF NumberedFrom
  <2>2. QED
    BY <1>1, <2>1
<1>4. QED
  BY <1>1, <1>2, <1>3 DEF NumberedFrom

\* Local messages are numbered without a gap from the queue to the handler.
LEMMA LocalStep ==
  TypeOK /\ LocalNumbered /\ [Next]_vars =>
      LocalNumbered' /\ [Local!Enter \/ Local!Leave]_<<pushed, localHeard>>
<1> SUFFICES ASSUME TypeOK, LocalNumbered, [Next]_vars
             PROVE  LocalNumbered' /\ [Local!Enter \/ Local!Leave]_<<pushed, localHeard>>
  OBVIOUS
<1>a. /\ localQueue \in Seq(LocalMessage) /\ localBatch \in Seq(LocalMessage)
      /\ pushed \in Nat /\ localHeard \in Nat
      /\ Len(localQueue) \in Nat /\ Len(localBatch) \in Nat
  BY DEF TypeOK
<1>b. /\ pushed = localHeard + Len(localBatch) + Len(localQueue)
      /\ NumberedFrom(localBatch, localHeard)
      /\ NumberedFrom(localQueue, localHeard + Len(localBatch))
  BY DEF LocalNumbered
<1>1. CASE UNCHANGED localVars
  BY <1>1 DEF LocalNumbered, localVars, NumberedFrom
<1>2. ASSUME NEW t \in Threads, PublishLocal(t)
      PROVE  LocalNumbered' /\ [Local!Enter \/ Local!Leave]_<<pushed, localHeard>>
  <2>1. CASE UNCHANGED <<pushed, localQueue>>
    BY <1>2, <2>1 DEF PublishLocal, LocalNumbered, NumberedFrom
  <2> DEFINE m == [num |-> pushed', msg |-> job[t].msg]
  <2>2. CASE pushed' = pushed + 1 /\ localQueue' = Append(localQueue, m)
    <3>1. m \in LocalMessage /\ m.num = pushed + 1
      BY <1>a, <2>2 DEF TypeOK, Job, LocalMessage
    <3> HIDE DEF m
    <3>2. /\ NumberedFrom(localQueue', localHeard + Len(localBatch))
          /\ Len(localQueue') = Len(localQueue) + 1
      <4>1. localHeard + Len(localBatch) \in Int
        BY <1>a
      <4>2. m.num = localHeard + Len(localBatch) + Len(localQueue) + 1
        BY <1>a, <1>b, <3>1
      <4>3. localQueue' = Append(localQueue, m)
        BY <2>2
      <4>4. NumberedFrom(Append(localQueue, m), localHeard + Len(localBatch))
        BY ONLY <1>a, <1>b, <3>1, <4>1, <4>2, NumberedAppend
      <4>5. Len(Append(localQueue, m)) = Len(localQueue) + 1
        BY ONLY <1>a, <3>1, Appended
      <4>6. QED
        BY <4>3, <4>4, <4>5
    <3>3. UNCHANGED <<localBatch, localHeard>>
      BY <1>2 DEF PublishLocal
    <3>4. LocalNumbered'
      BY <1>a, <1>b, <2>2, <3>2, <3>3 DEF LocalNumbered, NumberedFrom
    <3>5. QED
      BY <2>2, <3>3, <3>4 DEF Local!Enter
  <2>3. QED
    BY <1>2, <2>1, <2>2 DEF PublishLocal
<1>3. CASE TakeLocal
  <2>1. /\ localBatch' = localQueue /\ localQueue' = << >> /\ Len(localBatch) = 0
        /\ UNCHANGED <<pushed, localHeard>>
    BY <1>3, <1>a DEF TakeLocal
  <2>2. NumberedFrom(localQueue, localHeard)
    BY <1>a, <1>b, <2>1
  <2>3. LocalNumbered'
    BY <1>a, <1>b, <2>1, <2>2 DEF LocalNumbered, NumberedFrom
  <2>4. QED
    BY <2>1, <2>3
<1>4. CASE RunLocal
  <2>1. /\ localBatch # << >> /\ localHeard' = Head(localBatch).num
        /\ localBatch' = Tail(localBatch) /\ UNCHANGED <<pushed, localQueue>>
    BY <1>4 DEF RunLocal
  <2>2. /\ Head(localBatch).num = localHeard + 1 /\ NumberedFrom(Tail(localBatch), localHeard + 1)
        /\ Len(Tail(localBatch)) = Len(localBatch) - 1 /\ Len(localBatch) >= 1
    BY <1>a, <1>b, <2>1, NumberedTail, HeadTail
  <2>3. LocalNumbered'
    <3>1. localHeard' + Len(localBatch') = localHeard + Len(localBatch)
      BY <1>a, <2>1, <2>2
    <3>2. QED
      BY <1>a, <1>b, <2>1, <2>2, <3>1 DEF LocalNumbered, NumberedFrom
  <2>4. localHeard' \in (localHeard + 1)..pushed /\ localHeard' = localHeard + 1
    BY <1>a, <1>b, <2>1, <2>2
  <2>5. QED
    BY <2>1, <2>3, <2>4 DEF Local!Leave
<1>5. QED
  BY <1>1, <1>2, <1>3, <1>4
     DEF Next, vars, Publish, UseRing, MakeRing, FailToMakeRing, FallBack, WriteSlot, Send,
         SendShmFails, SendFails, Unadvertise, LocalThread, ReceiveMessage, DispatchThread, TakeBatch, Dispatch,
         Unregister, Unsubscribe

\* Remote messages are numbered as they are sent, and no later step changes
\* their order.
LEMMA RemoteStep ==
  TypeOK /\ Numbered /\ [Next]_vars =>
      Numbered' /\ [Remote!Enter \/ Remote!Leave]_<<sent, heard.num>>
<1> SUFFICES ASSUME TypeOK, Numbered, [Next]_vars
             PROVE  Numbered' /\ [Remote!Enter \/ Remote!Leave]_<<sent, heard.num>>
  OBVIOUS
<1>a. /\ wire \in Seq(Message) /\ queue \in Seq(Message) /\ batch \in Seq(Message)
      /\ sent \in Nat /\ received \in Nat /\ heard.num \in Nat
      /\ Len(wire) \in Nat /\ Len(queue) \in Nat /\ Len(batch) \in Nat
      /\ QueueLimit \in Nat /\ QueueLimit > 0
  BY BoundsAssumption DEF TypeOK, Heard
<1>b. /\ sent = received + Len(wire) /\ NumberedFrom(wire, received)
      /\ Len(queue) <= QueueLimit /\ NumberedFrom(queue, received - Len(queue))
      /\ heard.num <= received - Len(queue)
      /\ \A i \in 1..Len(batch) : /\ heard.num < batch[i].num
                                  /\ batch[i].num <= received - Len(queue)
      /\ \A i, j \in 1..Len(batch) : i < j => batch[i].num < batch[j].num
  BY DEF Numbered
<1>c. \A i \in 1..Len(batch) : batch[i].num \in Nat
  <2>1. \A i \in 1..Len(batch) : batch[i] \in Message
    BY <1>a
  <2>2. QED
    BY <2>1 DEF Message
<1>1. CASE UNCHANGED <<sent, wire, queue, batch, received, heard>>
  BY <1>1 DEF Numbered, NumberedFrom
<1>2. ASSUME NEW t \in Threads, Send(t)
      PROVE  Numbered' /\ [Remote!Enter \/ Remote!Leave]_<<sent, heard.num>>
  <2> DEFINE m == [num |-> sent', msg |-> job[t].msg, size |-> job[t].size,
                   ring |-> job[t].ring, slot |-> job[t].slot, seq |-> job[t].seq]
  <2>0. UNCHANGED <<queue, batch, received, heard>>
    BY <1>2 DEF Send, remoteVars
  <2>1. CASE UNCHANGED <<sent, wire>>
    BY <1>1, <2>0, <2>1
  <2>2. CASE sent' = sent + 1 /\ wire' = Append(wire, m)
    <3>1. m \in Message /\ m.num = sent + 1
      BY SMTT(30), <1>a, <2>2 DEF TypeOK, Job, Message
    <3> HIDE DEF m
    <3>2. m.num = received + Len(wire) + 1 /\ received \in Int
      BY <1>a, <1>b, <3>1
    <3>3. NumberedFrom(Append(wire, m), received) /\ Len(Append(wire, m)) = Len(wire) + 1
      BY ONLY <1>a, <1>b, <3>1, <3>2, NumberedAppend, Appended
    <3>4. NumberedFrom(wire', received) /\ Len(wire') = Len(wire) + 1
      BY <2>2, <3>3
    <3>5. Numbered'
      BY <1>a, <1>b, <2>0, <2>2, <3>4 DEF Numbered, NumberedFrom
    <3>6. QED
      BY <2>0, <2>2, <3>5 DEF Remote!Enter
  <2>3. QED
    BY <1>2, <2>1, <2>2 DEF Send
<1>3. CASE ReceiveMessage
  <2> DEFINE all == Append(queue, Head(wire))
             n   == received - Len(queue)
  <2>1. /\ wire # << >> /\ wire' = Tail(wire) /\ received' = Head(wire).num
        /\ UNCHANGED <<sent, batch, heard>>
        /\ queue' = IF Len(all) > QueueLimit THEN Tail(all) ELSE all
    BY <1>3 DEF ReceiveMessage
  <2>2. /\ Head(wire) \in Message /\ Head(wire).num = received + 1
        /\ NumberedFrom(Tail(wire), received + 1) /\ Len(Tail(wire)) = Len(wire) - 1
    BY <1>a, <1>b, <2>1, NumberedTail, HeadTail
  <2>3. n \in Int /\ Head(wire).num = n + Len(queue) + 1 /\ received' = received + 1
    BY <1>a, <2>1, <2>2
  <2>4. /\ all \in Seq(Message) /\ all # << >> /\ Len(all) = Len(queue) + 1
        /\ NumberedFrom(all, n)
    <3> HIDE DEF n
    <3>1. NumberedFrom(queue, n)
      BY <1>b DEF n
    <3>2. QED
      BY ONLY <1>a, <2>2, <2>3, <3>1, NumberedAppend, Appended
  <2>5. /\ Len(queue') <= QueueLimit /\ Len(queue') \in Nat
        /\ NumberedFrom(queue', received' - Len(queue')) /\ received' - Len(queue') >= n
    <3> HIDE DEF all
    <3>1. CASE Len(all) > QueueLimit
      <4>1. queue' = Tail(all)
        BY <2>1, <3>1
      <4>2. Len(Tail(all)) = Len(queue) /\ NumberedFrom(Tail(all), n + 1)
        BY <1>a, <2>3, <2>4, HeadTail, NumberedTail
      <4>3. received' - Len(queue') = n + 1
        <5>1. Len(queue') = Len(queue)
          BY ONLY <4>1, <4>2
        <5>2. QED
          BY ONLY <1>a, <2>3, <5>1
      <4>4. Len(queue') = Len(queue) /\ NumberedFrom(queue', n + 1)
        BY <4>1, <4>2
      <4>5. NumberedFrom(queue', received' - Len(queue'))
        BY ONLY <4>3, <4>4
      <4>6. QED
        BY <1>a, <1>b, <2>3, <4>3, <4>4, <4>5
    <3>2. CASE ~(Len(all) > QueueLimit)
      <4>1. queue' = all /\ received' - Len(queue') = n
        <5>1. queue' = all
          BY <2>1, <3>2
        <5>2. Len(queue') = Len(queue) + 1
          BY ONLY <2>4, <5>1
        <5>3. received' - Len(queue') = n
          BY ONLY <1>a, <2>3, <5>2
        <5>4. QED
          BY <5>1, <5>3
      <4>2. QED
        BY <1>a, <2>3, <2>4, <3>2, <4>1
    <3>3. QED
      BY <3>1, <3>2
  <2>6. Numbered'
    <3>1. sent' = received' + Len(wire') /\ NumberedFrom(wire', received')
      BY <1>a, <1>b, <2>1, <2>2
    <3>2. heard'.num <= received' - Len(queue')
      BY SMTT(30), <1>a, <1>b, <2>1, <2>2, <2>5
    <3>3. \A i \in 1..Len(batch') : /\ heard'.num < batch'[i].num
                                    /\ batch'[i].num <= received' - Len(queue')
      BY SMTT(30), <1>a, <1>b, <1>c, <2>1, <2>2, <2>5
    <3>4. QED
      BY <1>b, <2>1, <2>5, <3>1, <3>2, <3>3 DEF Numbered, NumberedFrom
  <2>7. QED
    BY <2>1, <2>6
<1>4. CASE TakeBatch
  <2>1. /\ queue' = << >> /\ batch' = queue /\ UNCHANGED <<sent, wire, received, heard>>
    BY <1>4 DEF TakeBatch
  <2>2. /\ \A i \in 1..Len(queue) : queue[i].num = received - Len(queue) + i
    BY <1>b DEF NumberedFrom
  <2>3. \A i \in 1..Len(queue) : heard.num < queue[i].num /\ queue[i].num <= received
    BY <1>a, <1>b, <2>2
  <2>4. \A i, j \in 1..Len(queue) : i < j => queue[i].num < queue[j].num
    BY <1>a, <2>2
  <2>5. Numbered'
    BY <1>a, <1>b, <2>1, <2>3, <2>4 DEF Numbered, NumberedFrom
  <2>6. QED
    BY <2>1, <2>5
<1>5. CASE Dispatch
  <2> DEFINE m == Head(batch)
  <2>1. /\ batch # << >> /\ batch' = Tail(batch) /\ UNCHANGED <<sent, wire, queue, received>>
        /\ \/ heard' = heard
           \/ \E got \in {m.msg, rings[readerRing'].slots[m.slot].msg, 0} :
                 heard' = [num |-> m.num, msg |-> m.msg, got |-> got, ring |-> heard'.ring]
    BY SMTT(30), <1>5 DEF Dispatch, DropUnwanted, DeliverPayload, FailToOpen, ReadSlot, ReaderRingFor
  <2>2. heard' = heard \/ heard'.num = m.num
    BY <2>1
  <2>3. /\ m = batch[1] /\ Len(batch) >= 1 /\ Len(batch') = Len(batch) - 1
        /\ \A i \in 1..(Len(batch) - 1) : batch'[i] = batch[i + 1]
    BY <1>a, <2>1, HeadTail
  <2>4. heard'.num = heard.num \/ heard'.num = batch[1].num
    BY <2>2, <2>3
  <2> HIDE DEF m
  <2>5. /\ heard'.num >= heard.num /\ heard'.num <= batch[1].num
        /\ heard'.num <= received - Len(queue) /\ batch[1].num \in Nat
    BY <1>a, <1>b, <1>c, <2>3, <2>4
  <2>6. ASSUME NEW i \in 1..Len(batch')
        PROVE  batch[1].num < batch'[i].num /\ batch'[i].num <= received - Len(queue)
    <3>1. batch'[i] = batch[i + 1] /\ i + 1 \in 1..Len(batch) /\ 1 \in 1..Len(batch) /\ 1 < i + 1
      BY <1>a, <2>3
    <3>2. QED
      BY <1>b, <3>1
  <2>7. ASSUME NEW i \in 1..Len(batch') PROVE heard'.num < batch'[i].num
    <3>1. batch'[i] = batch[i + 1] /\ i + 1 \in 1..Len(batch)
      BY <1>a, <2>3
    <3>2. batch'[i].num \in Nat /\ heard'.num \in Nat
      BY <1>a, <1>c, <2>3, <2>4, <3>1
    <3>3. QED
      BY <2>5, <2>6, <3>2
  <2>8. ASSUME NEW i \in 1..Len(batch'), NEW j \in 1..Len(batch'), i < j
        PROVE  batch'[i].num < batch'[j].num
    <3>1. /\ batch'[i] = batch[i + 1] /\ i + 1 \in 1..Len(batch)
          /\ batch'[j] = batch[j + 1] /\ j + 1 \in 1..Len(batch) /\ i + 1 < j + 1
      BY SMTT(30), <1>a, <2>3, <2>8
    <3>2. QED
      BY <1>b, <3>1
  <2>9. Numbered'
    BY <1>b, <2>1, <2>5, <2>6, <2>7, <2>8 DEF Numbered, NumberedFrom
  <2>10. [Remote!Enter \/ Remote!Leave]_<<sent, heard.num>>
    <3>1. CASE heard'.num = heard.num
      BY <2>1, <3>1
    <3>2. CASE heard'.num = batch[1].num
      <4>1. heard'.num \in (heard.num + 1)..sent
        BY <1>a, <1>b, <1>c, <2>3, <3>2
      <4>2. QED
        BY <2>1, <4>1 DEF Remote!Leave
    <3>3. QED
      BY <2>4, <3>1, <3>2
  <2>11. QED
    BY <2>9, <2>10
<1>6. QED
  BY <1>1, <1>2, <1>3, <1>4, <1>5
     DEF Next, vars, remoteVars, Publish, UseRing, MakeRing, FailToMakeRing, FallBack, WriteSlot,
         SendShmFails, SendFails, PublishLocal, Unadvertise, LocalThread, TakeLocal, RunLocal, DispatchThread,
         Unregister, Unsubscribe

LEMMA OrderInit == Init => Numbered /\ LocalNumbered /\ Remote!Init /\ Local!Init
  BY BoundsAssumption DEF Init, Numbered, LocalNumbered, NumberedFrom, NoHeard, Remote!Init, Local!Init

\* Whatever ring a message is in, whatever is dropped before and after it, the
\* other process is never given an older message after a newer one, nor a
\* message twice.
THEOREM RemoteOrder == Spec => RemoteInOrder
<1>1. Init => Numbered
  BY OrderInit
<1>2. TypeOK /\ Numbered /\ [Next]_vars => Numbered'
  BY RemoteStep
<1>3. TypeOK /\ Numbered /\ [Next]_vars => [Remote!Enter \/ Remote!Leave]_<<sent, heard.num>>
  BY RemoteStep
<1>4. Init => Remote!Init
  BY OrderInit
<1>5. Spec => [](TypeOK /\ Numbered)
  BY <1>1, <1>2, TypeCorrect, PTL DEF Spec
<1>6. Spec => Remote!Spec
  BY <1>3, <1>4, <1>5, PTL DEF Spec, Remote!Spec
<1>7. QED
  BY <1>6 DEF RemoteInOrder

\* The own process is given every message pushed, once, in order.
THEOREM LocalOrder == Spec => LocalInOrder
<1>1. Init => LocalNumbered
  BY OrderInit
<1>2. TypeOK /\ LocalNumbered /\ [Next]_vars => LocalNumbered'
  BY LocalStep
<1>3. TypeOK /\ LocalNumbered /\ [Next]_vars =>
          [Local!Enter \/ Local!Leave]_<<pushed, localHeard>>
  BY LocalStep
<1>4. Init => Local!Init
  BY OrderInit
<1>5. Spec => [](TypeOK /\ LocalNumbered)
  BY <1>1, <1>2, TypeCorrect, PTL DEF Spec
<1>6. Spec => Local!Spec
  BY <1>3, <1>4, <1>5, PTL DEF Spec, Local!Spec
<1>7. QED
  BY <1>6 DEF LocalInOrder

-----------------------------------------------------------------------------
(* The name of the ring. *)

LEMMA HeldInit == Init => HeldRings
  BY DEF Init, HeldRings

LEMMA HeldStep == TypeOK /\ HeldRings /\ [Next]_vars => HeldRings'
<1> SUFFICES ASSUME TypeOK, HeldRings, [Next]_vars,
                    writerRing' # 0, writerRing' \notin crossed'
             PROVE  /\ named' = writerRing'
                    /\ \A u \in Threads : job'[u].ring \in {0, writerRing'}
  BY DEF HeldRings
<1>a. writerRing # 0 /\ writerRing \notin crossed =>
          /\ named = writerRing
          /\ \A u \in Threads : job[u].ring \in {0, writerRing}
  BY DEF HeldRings
<1>b. job \in [Threads -> Job]
  BY DEF TypeOK
<1>1. CASE UNCHANGED <<job, writerRing, named, crossed>>
  BY <1>a, <1>1
<1>2. ASSUME NEW t \in Threads, Publish(t)
      PROVE  /\ named' = writerRing'
             /\ \A u \in Threads : job'[u].ring \in {0, writerRing'}
  <2>1. /\ UNCHANGED <<writerRing, named, crossed>>
        /\ \A u \in Threads : job'[u].ring \in {0, job[u].ring}
    BY <1>2, <1>b DEF Publish, ringVars, NoJob
  <2>2. QED
    BY <1>a, <2>1
<1>3. ASSUME NEW t \in Threads, UseRing(t)
      PROVE  /\ named' = writerRing'
             /\ \A u \in Threads : job'[u].ring \in {0, writerRing'}
  <2>1. UNCHANGED <<writerRing, named, crossed>>
    BY <1>3 DEF UseRing, ringVars
  <2>2. job' = [job EXCEPT ![t] = [job[t] EXCEPT !.ring = writerRing]]
    BY <1>3 DEF UseRing
  <2>3. ASSUME NEW u \in Threads PROVE job'[u].ring \in {writerRing, job[u].ring}
    BY <1>b, <2>2 DEF Job
  <2>4. QED
    BY <1>a, <2>1, <2>3
<1>4. ASSUME NEW t \in Threads, MakeRing(t)
      PROVE  /\ named' = writerRing'
             /\ \A u \in Threads : job'[u].ring \in {0, writerRing'}
  <2>1. /\ named' = writerRing' /\ HeldBut(t) = {}
        /\ job' = [job EXCEPT ![t] = [job[t] EXCEPT !.ring = writerRing']]
    BY <1>4 DEF MakeRing
  <2>2. job'[t].ring = writerRing'
    BY <1>b, <2>1 DEF Job
  <2>3. ASSUME NEW u \in Threads \ {t} PROVE job'[u].ring = 0
    BY <1>b, <2>1 DEF HeldBut
  <2>4. QED
    BY <2>1, <2>2, <2>3
<1>5. ASSUME NEW t \in Threads, FailToMakeRing(t) PROVE FALSE
  BY <1>5 DEF FailToMakeRing
<1>6. ASSUME NEW t \in Threads, WriteSlot(t)
      PROVE  /\ named' = writerRing'
             /\ \A u \in Threads : job'[u].ring \in {0, writerRing'}
  <2>1. /\ UNCHANGED <<writerRing, named, crossed>>
        /\ job' = [job EXCEPT ![t] = [job[t] EXCEPT !.slot = SlotOf(rings[job[t].ring]),
                                                    !.seq = SeqOf(rings[job[t].ring])]]
    BY <1>6 DEF WriteSlot
  <2>2. ASSUME NEW u \in Threads PROVE job'[u].ring = job[u].ring
    BY <1>b, <2>1 DEF Job
  <2>3. QED
    BY <1>a, <2>1, <2>2
<1>7. ASSUME NEW t \in Threads, PublishLocal(t)
      PROVE  /\ named' = writerRing'
             /\ \A u \in Threads : job'[u].ring \in {0, writerRing'}
  <2>1. /\ UNCHANGED <<writerRing, crossed>> /\ job' = [job EXCEPT ![t] = NoJob]
        /\ named' = NamedAfter(t)
    BY <1>7 DEF PublishLocal
  <2>2. job[t].ring \in {0, writerRing}
    BY <1>a, <2>1
  <2>3. named' = named
    BY <2>1, <2>2 DEF NamedAfter, Unlinks
  <2>4. ASSUME NEW u \in Threads PROVE job'[u].ring \in {0, job[u].ring}
    BY <1>b, <2>1 DEF NoJob
  <2>5. QED
    BY <1>a, <2>1, <2>3, <2>4
<1>7a. ASSUME NEW t \in Threads, SendShmFails(t)
       PROVE  /\ named' = writerRing'
              /\ \A u \in Threads : job'[u].ring \in {0, writerRing'}
  <2>1. /\ UNCHANGED <<writerRing, crossed>> /\ named' = NamedAfter(t)
        /\ job' = [job EXCEPT ![t] = [job[t] EXCEPT !.ring = 0, !.slot = 0, !.seq = 0]]
    BY <1>7a DEF SendShmFails
  <2>2. job[t].ring \in {0, writerRing}
    BY <1>a, <2>1
  <2>3. named' = named
    BY <2>1, <2>2 DEF NamedAfter, Unlinks
  <2>4. ASSUME NEW u \in Threads PROVE job'[u].ring \in {0, job[u].ring}
    BY <1>b, <2>1 DEF Job
  <2>5. QED
    BY <1>a, <2>1, <2>3, <2>4
<1>7b. ASSUME NEW t \in Threads, SendFails(t)
       PROVE  /\ named' = writerRing'
              /\ \A u \in Threads : job'[u].ring \in {0, writerRing'}
  <2>1. UNCHANGED <<writerRing, named, crossed>> /\ job' = [job EXCEPT ![t] = NoJob]
    BY <1>7b DEF SendFails, ringVars
  <2>2. ASSUME NEW u \in Threads PROVE job'[u].ring \in {0, job[u].ring}
    BY <1>b, <2>1 DEF NoJob
  <2>3. QED
    BY <1>a, <2>1, <2>2
<1>8. ASSUME Unadvertise PROVE FALSE
  BY <1>8 DEF Unadvertise
<1>9. QED
  BY <1>1, <1>2, <1>3, <1>4, <1>5, <1>6, <1>7, <1>7a, <1>7b, <1>8
     DEF Next, vars, ringVars, FallBack, Send, LocalThread, TakeLocal, RunLocal,
         ReceiveMessage, DispatchThread, TakeBatch, Dispatch, Unregister, Unsubscribe

\* The name leads to the ring in use, unless that ring was made while a thread
\* still held an older one.
THEOREM WriterRingIsNamed == Spec => []WriterRingNamed
<1>1. HeldRings => WriterRingNamed
  BY DEF HeldRings, WriterRingNamed
<1>2. QED
  BY <1>1, HeldInit, HeldStep, TypeCorrect, PTL DEF Spec

-----------------------------------------------------------------------------
(* Messages, and the slots they are in. *)

\* A message just written is in its slot.
LEMMA WrittenInRing ==
  ASSUME TypeOK, JobsInRing, NEW t \in Threads, WriteSlot(t)
  PROVE  InRing(job'[t], rings')
<1> DEFINE r    == job[t].ring
           ring == rings[r]
           new  == Written(ring, job[t].msg)
<1>1. /\ job[t] \in Job /\ r \in 1..Len(rings) /\ job[t].size <= ring.size
  <2>1. pc[t] = "write"
    BY DEF WriteSlot, Step
  <2>2. QED
    BY <2>1 DEF JobsInRing, TypeOK
<1>2. ring \in RingOf /\ job[t].msg \in Nat
  BY SMTT(30), <1>1 DEF TypeOK, Job
<1>3. /\ rings' = [rings EXCEPT ![r] = new]
      /\ job'[t] = [job[t] EXCEPT !.slot = SlotOf(ring), !.seq = SeqOf(ring)]
  BY DEF WriteSlot, TypeOK
<1>4. /\ job'[t].ring = r /\ job'[t].size = job[t].size /\ job'[t].msg = job[t].msg
      /\ job'[t].slot = SlotOf(ring) /\ job'[t].seq = SeqOf(ring)
  BY ONLY <1>1, <1>3 DEF Job
<1>5. Len(rings') = Len(rings) /\ rings'[r] = new
  <2>1. rings \in Seq(RingOf) /\ r \in 1..Len(rings) /\ rings' = [rings EXCEPT ![r] = new]
    BY <1>1, <1>3 DEF TypeOK
  <2> HIDE DEF new
  <2>2. QED
    BY ONLY <2>1
<1>6. /\ new.size = ring.size /\ new.cursor = ring.cursor + 1 /\ ring.cursor \in Nat
      /\ new.slots[SlotOf(ring)] = [seq |-> SeqOf(ring), msg |-> job[t].msg]
  BY <1>2, WrittenSize, WrittenSlots, RingTypes
<1> HIDE DEF new, ring
<1>7. ring.cursor \in 0..(new.cursor - 1) /\ SlotOf(ring) = ring.cursor % Slots
      /\ SeqOf(ring) = 2 * ring.cursor + 2
  BY <1>6 DEF SlotOf, SeqOf
<1>8. QED
  BY <1>1, <1>4, <1>5, <1>6, <1>7 DEF InRing

\* Whatever is in flight stays as it was put there.
LEMMA SeqKept ==
  ASSUME TypeOK, JobsInRing, [Next]_vars, NEW s \in Seq(Message),
         \A i \in 1..Len(s) : InRing(s[i], rings)
  PROVE  \A i \in 1..Len(s) : InRing(s[i], rings')
<1> SUFFICES ASSUME NEW i \in 1..Len(s) PROVE InRing(s[i], rings')
  OBVIOUS
<1>1. s[i] \in Message
  OBVIOUS
<1>2. s[i].slot \in SlotNumbers /\ s[i].seq \in Nat
  BY <1>1 DEF Message, SlotNumbers
<1>3. QED
  BY <1>2, InRingKept

LEMMA AllInit == Init => AllInRing
  BY DEF Init, AllInRing

LEMMA AllStep == TypeOK /\ JobsInRing /\ AllInRing /\ [Next]_vars => AllInRing'
<1> SUFFICES ASSUME TypeOK, JobsInRing, AllInRing, [Next]_vars PROVE AllInRing'
  OBVIOUS
<1>a. wire \in Seq(Message) /\ queue \in Seq(Message) /\ batch \in Seq(Message)
  BY DEF TypeOK
<1>b. /\ \A i \in 1..Len(wire) : InRing(wire[i], rings')
      /\ \A i \in 1..Len(queue) : InRing(queue[i], rings')
      /\ \A i \in 1..Len(batch) : InRing(batch[i], rings')
  BY <1>a, SeqKept DEF AllInRing
<1>c. ASSUME NEW u \in Threads, pc[u] = "send" PROVE InRing(job[u], rings')
  <2>1. job[u].slot \in SlotNumbers /\ job[u].seq \in Nat
    BY DEF TypeOK, Job, SlotNumbers
  <2>2. InRing(job[u], rings)
    BY <1>c DEF AllInRing
  <2>3. QED
    BY <2>1, <2>2, InRingKept
<1>1. ASSUME NEW u \in Threads, pc'[u] = "send" PROVE InRing(job'[u], rings')
  <2>1. CASE pc'[u] = pc[u] /\ job'[u] = job[u]
    BY <1>1, <1>c, <2>1
  <2>2. CASE job'[u].ring = 0
    BY <2>2 DEF InRing
  <2>3. CASE Publish(u)
    BY <2>2, <2>3 DEF Publish, NoJob, TypeOK
  <2>4. CASE FailToMakeRing(u) \/ FallBack(u)
    BY <2>2, <2>4 DEF FailToMakeRing, FallBack, Step, JobsInRing
  <2>5. CASE WriteSlot(u)
    BY <2>5, WrittenInRing
  <2>6. CASE UseRing(u) \/ MakeRing(u) \/ Send(u) \/ SendFails(u) \/ PublishLocal(u)
    BY <1>1, <2>6 DEF UseRing, MakeRing, Send, SendFails, PublishLocal, Step, TypeOK
  <2>6a. CASE SendShmFails(u)
    BY <2>2, <2>6a DEF SendShmFails, TypeOK, Job
  <2>7. ASSUME NEW t \in Threads,
               \/ Publish(t) \/ UseRing(t) \/ MakeRing(t) \/ FailToMakeRing(t)
               \/ FallBack(t) \/ WriteSlot(t) \/ Send(t) \/ SendShmFails(t) \/ SendFails(t) \/ PublishLocal(t)
        PROVE  u = t \/ (pc'[u] = pc[u] /\ job'[u] = job[u])
    BY <2>7, OtherThreads
  <2>8. \/ pc' = pc /\ job' = job
        \/ \E t \in Threads :
              \/ Publish(t) \/ UseRing(t) \/ MakeRing(t) \/ FailToMakeRing(t)
              \/ FallBack(t) \/ WriteSlot(t) \/ Send(t) \/ SendShmFails(t) \/ SendFails(t) \/ PublishLocal(t)
    BY DEF Next, vars, Unadvertise, LocalThread, TakeLocal, RunLocal, ReceiveMessage,
           DispatchThread, TakeBatch, Dispatch, Unregister, Unsubscribe
  <2>9. QED
    BY <2>1, <2>3, <2>4, <2>5, <2>6, <2>6a, <2>7, <2>8
<1>2. CASE UNCHANGED <<wire, queue, batch>>
  BY <1>b, <1>1, <1>2 DEF AllInRing
<1>3. ASSUME NEW t \in Threads, Send(t) PROVE AllInRing'
  <2> DEFINE m == [num |-> sent', msg |-> job[t].msg, size |-> job[t].size,
                   ring |-> job[t].ring, slot |-> job[t].slot, seq |-> job[t].seq]
  <2>1. UNCHANGED <<queue, batch, rings>> /\ (wire' = wire \/ (sent' \in Nat /\ wire' = Append(wire, m)))
    BY <1>3 DEF Send, remoteVars, ringVars, TypeOK
  <2>2. pc[t] = "send" /\ InRing(job[t], rings')
    BY <1>3, <1>c DEF Send, Step
  <2>3. InRing(m, rings')
    BY <2>2 DEF InRing
  <2>4. CASE wire' = wire
    BY <1>2, <2>1, <2>4
  <2>5. CASE sent' \in Nat /\ wire' = Append(wire, m)
    <3>1. m \in Message
      BY <2>5 DEF TypeOK, Job, Message
    <3> HIDE DEF m
    <3>2. /\ Len(Append(wire, m)) = Len(wire) + 1 /\ Len(wire) \in Nat
          /\ \A i \in 1..Len(wire) : Append(wire, m)[i] = wire[i]
          /\ Append(wire, m)[Len(wire) + 1] = m
      BY ONLY <1>a, <3>1, Appended
    <3>3. \A i \in 1..Len(Append(wire, m)) : InRing(Append(wire, m)[i], rings')
      BY <1>b, <2>3, <3>2
    <3>4. \A i \in 1..Len(wire') : InRing(wire'[i], rings')
      BY <2>5, <3>3
    <3>5. QED
      BY <1>b, <1>1, <2>1, <3>4 DEF AllInRing
  <2>6. QED
    BY <2>1, <2>4, <2>5
<1>4. CASE ReceiveMessage
  <2> DEFINE all == Append(queue, Head(wire))
  <2>1. /\ wire # << >> /\ wire' = Tail(wire) /\ batch' = batch
        /\ queue' = all \/ queue' = Tail(all)
    BY <1>4 DEF ReceiveMessage
  <2>2. /\ Head(wire) = wire[1] /\ Head(wire) \in Message /\ Len(wire) \in Nat /\ Len(wire) >= 1
        /\ Len(Tail(wire)) = Len(wire) - 1
        /\ \A i \in 1..(Len(wire) - 1) : Tail(wire)[i] = wire[i + 1]
    BY <1>a, <2>1, HeadTail
  <2>3. InRing(Head(wire), rings') /\ \A i \in 1..Len(Tail(wire)) : InRing(Tail(wire)[i], rings')
    BY <1>b, <2>2
  <2>4. /\ all \in Seq(Message) /\ all # << >> /\ Len(all) = Len(queue) + 1 /\ Len(queue) \in Nat
        /\ \A i \in 1..Len(queue) : all[i] = queue[i]
        /\ all[Len(queue) + 1] = Head(wire)
    BY ONLY <1>a, <2>2, Appended
  <2> HIDE DEF all
  <2>5. \A i \in 1..Len(all) : InRing(all[i], rings')
    BY <1>b, <2>3, <2>4
  <2>6. /\ Len(Tail(all)) = Len(all) - 1 /\ Len(all) \in Nat
        /\ \A i \in 1..(Len(all) - 1) : Tail(all)[i] = all[i + 1]
    BY <2>4, HeadTail
  <2>7. \A i \in 1..Len(Tail(all)) : InRing(Tail(all)[i], rings')
    BY <2>5, <2>6
  <2>8. \A i \in 1..Len(queue') : InRing(queue'[i], rings')
    BY <2>1, <2>5, <2>7
  <2>9. \A i \in 1..Len(wire') : InRing(wire'[i], rings')
    BY <2>1, <2>3
  <2>10. QED
    BY <1>b, <1>1, <2>1, <2>8, <2>9 DEF AllInRing
<1>5. CASE TakeBatch
  <2>1. queue' = << >> /\ batch' = queue /\ wire' = wire
    BY <1>5 DEF TakeBatch
  <2>2. \A i \in 1..Len(queue') : InRing(queue'[i], rings')
    BY <2>1
  <2>3. QED
    BY <1>b, <1>1, <2>1, <2>2 DEF AllInRing
<1>6. CASE Dispatch
  <2>1. batch # << >> /\ batch' = Tail(batch) /\ UNCHANGED <<wire, queue>>
    BY <1>6 DEF Dispatch
  <2>2. /\ Len(batch) \in Nat /\ Len(batch') = Len(batch) - 1
        /\ \A i \in 1..(Len(batch) - 1) : batch'[i] = batch[i + 1]
    BY <1>a, <2>1, HeadTail
  <2>3. \A i \in 1..Len(batch') : InRing(batch'[i], rings')
    BY <1>b, <2>2
  <2>4. QED
    BY <1>b, <1>1, <2>1, <2>3 DEF AllInRing
<1>7. QED
  BY <1>2, <1>3, <1>4, <1>5, <1>6
     DEF Next, vars, remoteVars, Publish, UseRing, MakeRing, FailToMakeRing, FallBack, WriteSlot,
         SendShmFails, SendFails, PublishLocal, Unadvertise, LocalThread, TakeLocal, RunLocal, DispatchThread,
         Unregister, Unsubscribe

\* What the dispatching thread does with a message.
LEMMA Dispatched ==
  ASSUME TypeOK, AllInRing, Dispatch
  PROVE  \E m \in Message :
            /\ m = batch[1] /\ m = Head(batch) /\ 1 \in 1..Len(batch) /\ InRing(m, rings)
            /\ DropUnwanted(m) \/ DeliverPayload(m) \/ FailToOpen(m) \/ ReadSlot(m)
<1>1. /\ Head(batch) \in Message /\ Head(batch) = batch[1] /\ Len(batch) \in Nat /\ Len(batch) >= 1
  BY HeadTail DEF TypeOK, Dispatch
<1>2. QED
  BY <1>1 DEF Dispatch, AllInRing

LEMMA FirstInit == Init => FirstRing
  BY DEF Init, FirstRing

\* A second ring is made only after unadvertise took the first.
LEMMA FirstStep ==
  TypeOK /\ JobsInRing /\ FirstRing /\ [Next]_vars =>
      FirstRing' /\ (removed > 0 => removed' > 0)
<1> SUFFICES ASSUME TypeOK, JobsInRing, FirstRing, [Next]_vars
             PROVE  FirstRing' /\ (removed > 0 => removed' > 0)
  OBVIOUS
<1>a. removed \in Nat /\ rings \in Seq(RingOf) /\ Len(rings) \in Nat
  BY DEF TypeOK
<1>1. ASSUME NEW t \in Threads, MakeRing(t)
      PROVE  FirstRing' /\ (removed > 0 => removed' > 0)
  <2>1. /\ writerRing = 0 /\ removed' = removed
        /\ rings' = Append(rings, Ring(job[t].size)) /\ writerRing' = Len(rings')
        /\ HeldBut(t) = {} => crossed' = crossed
    BY <1>1 DEF MakeRing
  <2>2. SUFFICES ASSUME removed = 0
                 PROVE  crossed' = {} /\ Len(rings') <= 1 /\ writerRing' = Len(rings')
    BY <2>1 DEF FirstRing
  <2>3. Len(rings) = 0 /\ crossed = {}
    BY <2>1, <2>2 DEF FirstRing
  <2>4. \A u \in Threads : job[u].ring = 0
    BY <2>3 DEF JobsInRing
  <2>5. HeldBut(t) = {}
    BY <2>4 DEF HeldBut
  <2>6. Ring(job[t].size) \in RingOf
    <3>1. job[t].size \in Nat
      BY DEF TypeOK, Job
    <3>2. QED
      BY <3>1 DEF Ring, RingOf
  <2>7. Len(rings') = Len(rings) + 1
    BY ONLY <1>a, <2>1, <2>6, Appended
  <2>8. QED
    BY <2>1, <2>3, <2>5, <2>7
<1>2. ASSUME NEW t \in Threads, WriteSlot(t)
      PROVE  FirstRing' /\ (removed > 0 => removed' > 0)
  <2>1. UNCHANGED <<writerRing, crossed, removed>> /\ Len(rings') = Len(rings)
    BY <1>2, <1>a DEF WriteSlot
  <2>2. QED
    BY <2>1 DEF FirstRing
<1>3. CASE Unadvertise
  BY <1>3, <1>a DEF Unadvertise, FirstRing
<1>4. CASE UNCHANGED <<rings, writerRing, crossed, removed>>
  BY <1>4 DEF FirstRing
<1>5. QED
  BY <1>1, <1>2, <1>3, <1>4
     DEF Next, vars, ringVars, Publish, UseRing, FailToMakeRing, FallBack, Send, SendShmFails,
         SendFails, PublishLocal, LocalThread, TakeLocal, RunLocal, ReceiveMessage,
         DispatchThread, TakeBatch, Dispatch, Unregister, Unsubscribe

\* Until unadvertise the ring the subscriber opens is the one written to.
LEMMA OpenedRing ==
  ASSUME TypeOK, FirstRing, NEW m \in Message, InRing(m, rings), ReadSlot(m),
         UNCHANGED removed
  PROVE  /\ readerRing' # 0 /\ m.ring # 0 /\ m.ring \in 1..Len(rings)
         /\ readerRing' = m.ring \/ MappedAnother(m.ring)'
<1>1. /\ m.ring # 0 /\ readerRing' # 0 /\ readerRing' \in {readerRing, named}
      /\ readerRing \in 0..Len(rings) /\ named \in 0..Len(rings)
      /\ Len(rings) \in Nat /\ removed \in Nat
  BY DEF ReadSlot, ReaderRingFor, TypeOK
<1>2. m.ring \in 1..Len(rings)
  BY <1>1 DEF InRing
<1>3. CASE removed = 0
  <2>1. Len(rings) <= 1
    BY <1>3 DEF FirstRing
  <2>2. readerRing' = 1 /\ m.ring = 1
    BY <1>1, <1>2, <2>1
  <2>3. QED
    BY <1>1, <1>2, <2>2
<1>4. CASE removed > 0
  BY <1>1, <1>2, <1>4 DEF MappedAnother
<1>5. QED
  BY <1>1, <1>3, <1>4

LEMMA GenuineInit == Init => GenuineUnlessStale /\ HeardFrom
  BY DEF Init, Genuine, GenuineUnlessStale, HeardFrom, NoHeard

LEMMA GenuineStep ==
  TypeOK /\ JobsInRing /\ FirstRing /\ AllInRing /\ HeardFrom /\ GenuineUnlessStale
    /\ [Next]_vars => HeardFrom' /\ GenuineUnlessStale'
<1> SUFFICES ASSUME TypeOK, JobsInRing, FirstRing, AllInRing, HeardFrom, GenuineUnlessStale,
                    [Next]_vars
             PROVE  HeardFrom' /\ GenuineUnlessStale'
  OBVIOUS
<1>a. removed > 0 => removed' > 0
  BY FirstStep
<1>1. CASE UNCHANGED heard /\ (UNCHANGED readerRing \/ readerRing = 0)
  <2>1. CASE UNCHANGED readerRing
    BY <1>1, <1>a, <2>1 DEF HeardFrom, Genuine, GenuineUnlessStale, MappedAnother
  <2>2. CASE readerRing = 0
    BY <1>1, <2>2 DEF HeardFrom, Genuine, GenuineUnlessStale
  <2>3. QED
    BY <1>1, <2>1, <2>2
<1>2. CASE Dispatch
  <2>1. PICK m \in Message :
           /\ InRing(m, rings)
           /\ DropUnwanted(m) \/ DeliverPayload(m) \/ FailToOpen(m) \/ ReadSlot(m)
    BY <1>2, Dispatched
  <2>2. CASE DropUnwanted(m) \/ FailToOpen(m)
    BY <1>1, <2>2 DEF DropUnwanted, FailToOpen
  <2>3. CASE DeliverPayload(m)
    <3>1. heard'.ring = 0 /\ heard'.got = heard'.msg
      BY <2>3 DEF DeliverPayload
    <3>2. QED
      BY <3>1 DEF HeardFrom, Genuine, GenuineUnlessStale
  <2>4. CASE ReadSlot(m)
    <3> DEFINE slot == rings[readerRing'].slots[m.slot]
    <3>0. UNCHANGED readerRing \/ readerRing = 0
      BY <2>4 DEF ReadSlot, ReaderRingFor
    <3>1. CASE slot.seq # m.seq
      BY <1>1, <2>4, <3>0, <3>1 DEF ReadSlot, ReaderRingFor
    <3>2. CASE slot.seq = m.seq
      <4>1. PICK got \in {slot.msg} \union (IF m.size > rings[readerRing'].size THEN {0} ELSE {}) :
               heard' = [num |-> m.num, msg |-> m.msg, got |-> got, ring |-> m.ring]
        BY <2>4, <3>2 DEF ReadSlot, ReaderRingFor
      <4>2. m.ring # 0 /\ readerRing' # 0 /\ (readerRing' = m.ring \/ MappedAnother(m.ring)')
        <5>1. UNCHANGED removed
          BY <1>2 DEF Dispatch, ringVars
        <5>2. QED
          BY <2>1, <2>4, <5>1, OpenedRing
      <4>3. heard'.ring = m.ring /\ heard'.msg = m.msg /\ heard'.got = got
        BY <4>1
      <4>4. ASSUME readerRing' = m.ring PROVE got = m.msg
        <5>1. /\ m.ring \in 1..Len(rings) /\ m.size <= rings[m.ring].size
              /\ \/ rings[m.ring].slots[m.slot] = [seq |-> m.seq, msg |-> m.msg]
                 \/ rings[m.ring].slots[m.slot].seq # m.seq
          BY <2>1, <4>2 DEF InRing
        <5>2. slot = [seq |-> m.seq, msg |-> m.msg]
          BY <3>2, <4>4, <5>1
        <5>3. m.size \in Nat /\ rings[m.ring].size \in Nat
          <6>1. rings[m.ring] \in RingOf
            BY <5>1 DEF TypeOK
          <6>2. QED
            BY <6>1, RingTypes DEF Message
        <5>4. ~(m.size > rings[m.ring].size)
          BY <5>1, <5>3
        <5>5. got = slot.msg
          BY <4>1, <4>4, <5>4
        <5>6. QED
          BY <5>2, <5>5
      <4>5. QED
        BY <4>2, <4>3, <4>4 DEF HeardFrom, Genuine, GenuineUnlessStale, MappedAnother
    <3>3. QED
      BY <3>1, <3>2
  <2>5. QED
    BY <2>1, <2>2, <2>3, <2>4
<1>3. QED
  BY <1>1, <1>2
     DEF Next, vars, remoteVars, Publish, UseRing, MakeRing, FailToMakeRing, FallBack, WriteSlot,
         Send, SendShmFails, SendFails, PublishLocal, Unadvertise, LocalThread, TakeLocal, RunLocal, ReceiveMessage,
         DispatchThread, TakeBatch, Unregister, Unsubscribe

\* Until the first unadvertise a subscriber is given what was published, whatever
\* laps the ring meanwhile; after it too, unless it has another ring of that name
\* open than the one the message was written to.
THEOREM MessagesAreGenuine == Spec => []GenuineUnlessStale
<1>1. TypeOK /\ JobsInRing /\ FirstRing /\ AllInRing /\ HeardFrom /\ GenuineUnlessStale
        /\ [Next]_vars => FirstRing' /\ AllInRing' /\ HeardFrom' /\ GenuineUnlessStale'
  BY FirstStep, AllStep, GenuineStep
<1>2. QED
  BY <1>1, FirstInit, AllInit, GenuineInit, TypeCorrect, PTL DEF Spec

LEMMA DropInit == Init => DropExplained /\ DroppedFrom
  BY DEF Init, DropExplained, DroppedFrom, NoDrop

\* A reason for a drop remains one.
LEMMA DropKept ==
  ASSUME TypeOK, JobsInRing, FirstRing, Numbered, DropExplained, DroppedFrom, [Next]_vars,
         dropped' = dropped
  PROVE  DropExplained' /\ DroppedFrom'
<1>0. /\ dropped \in Dropped /\ dropped.num \in Nat /\ dropped.seq \in Nat
      /\ QueueLimit \in Nat /\ Slots \in Nat /\ received \in Nat
      /\ Len(rings) \in Nat /\ Len(rings') \in Nat /\ Len(rings') >= Len(rings)
  BY BoundsAssumption, RingsGrow DEF TypeOK, Dropped
<1>1. dropped.why \in {"unnamed", "overwritten"} =>
          dropped.ring \in 1..Len(rings) /\ dropped.ring \in 1..Len(rings')
  BY <1>0 DEF DroppedFrom
<1>2. received' \in Nat /\ received' >= received
  <2>1. CASE ReceiveMessage
    <3>1. received' = received + 1
      BY <1>0, <2>1, NumberedTail DEF ReceiveMessage, Numbered, TypeOK
    <3>2. QED
      BY <1>0, <3>1
  <2>2. CASE received' = received
    BY <1>0, <2>2
  <2>3. QED
    BY <2>1, <2>2
       DEF Next, vars, remoteVars, Publish, UseRing, MakeRing, FailToMakeRing, FallBack,
           WriteSlot, Send, SendShmFails, SendFails, PublishLocal, Unadvertise, LocalThread, TakeLocal, RunLocal,
           DispatchThread, TakeBatch, Dispatch, Unregister, Unsubscribe
<1>3. "remote" \notin subs => "remote" \notin subs'
  BY DEF Next, vars, subVars, Publish, UseRing, MakeRing, FailToMakeRing, FallBack,
         WriteSlot, Send, SendShmFails, SendFails, PublishLocal, Unadvertise, LocalThread, TakeLocal, RunLocal,
         ReceiveMessage, DispatchThread, TakeBatch, Dispatch, Unregister, Unsubscribe
<1>4. writerRing' \in {0, writerRing, Len(rings) + 1} /\ crossed \subseteq crossed'
  <2>1. ASSUME NEW t \in Threads, MakeRing(t)
        PROVE  writerRing' = Len(rings) + 1 /\ crossed \subseteq crossed'
    <3>1. job[t].size \in Nat
      BY DEF TypeOK, Job
    <3>2. Ring(job[t].size) \in RingOf /\ rings \in Seq(RingOf)
      BY <3>1 DEF Ring, RingOf, TypeOK
    <3>3. rings' = Append(rings, Ring(job[t].size)) /\ writerRing' = Len(rings')
      BY <2>1 DEF MakeRing
    <3>4. Len(rings') = Len(rings) + 1
      BY ONLY <3>2, <3>3, Appended
    <3>5. QED
      BY <2>1, <3>3, <3>4 DEF MakeRing
  <2>2. QED
    BY <2>1 DEF Next, vars, ringVars, Publish, UseRing, FailToMakeRing, FallBack,
         WriteSlot, Send, SendShmFails, SendFails, PublishLocal, Unadvertise, LocalThread, TakeLocal, RunLocal,
         ReceiveMessage, DispatchThread, TakeBatch, Dispatch, Unregister, Unsubscribe
<1>5. readerRing # 0 => readerRing' = readerRing
  BY DEF Next, vars, remoteVars, Publish, UseRing, MakeRing, FailToMakeRing, FallBack,
         WriteSlot, Send, SendShmFails, SendFails, PublishLocal, Unadvertise, LocalThread, TakeLocal, RunLocal,
         ReceiveMessage, DispatchThread, TakeBatch, Dispatch, DropUnwanted, DeliverPayload,
         FailToOpen, ReadSlot, ReaderRingFor, Unregister, Unsubscribe
<1>6. DroppedFrom'
  BY <1>1, <1>5 DEF DroppedFrom
<1>6a. removed > 0 => removed' > 0
  BY FirstStep
<1>7. CASE dropped.why = "none"
  BY <1>6, <1>7 DEF DropExplained
<1>8. CASE dropped.why = "queue"
  <2>1. received >= dropped.num + QueueLimit
    BY <1>8 DEF DropExplained
  <2>2. received' >= dropped.num + QueueLimit
    BY ONLY <1>0, <1>2, <2>1
  <2>3. QED
    BY <1>6, <1>8, <2>2 DEF DropExplained
<1>9. CASE dropped.why = "unwanted"
  BY <1>3, <1>6, <1>9 DEF DropExplained
<1>10. CASE dropped.why = "unnamed"
  <2>1. removed > 0 /\ (dropped.ring # writerRing \/ dropped.ring \in crossed)
    BY <1>10 DEF DropExplained
  <2>2. dropped.ring # 0 /\ dropped.ring # Len(rings) + 1
    BY <1>0, <1>1, <1>10
  <2>3. dropped.ring # writerRing' \/ dropped.ring \in crossed'
    BY <1>4, <2>1, <2>2
  <2>4. QED
    BY <1>6, <1>6a, <1>10, <2>1, <2>3 DEF DropExplained
<1>11. CASE dropped.why = "overwritten"
  <2>1. \/ MappedAnother(dropped.ring)'
        \/ 2 * rings[dropped.ring].cursor >= dropped.seq + 2 * Slots
    BY <1>5, <1>6a, <1>11 DEF DropExplained, DroppedFrom, MappedAnother
  <2>2. /\ rings[dropped.ring].cursor \in Nat /\ rings'[dropped.ring].cursor \in Nat
        /\ rings'[dropped.ring].cursor >= rings[dropped.ring].cursor
    BY <1>1, <1>11, RingKept
  <2> DEFINE a == rings[dropped.ring].cursor
             b == rings'[dropped.ring].cursor
             q == dropped.seq
  <2>3. CASE 2 * a >= q + 2 * Slots
    <3>1. a \in Nat /\ b \in Nat /\ b >= a /\ q \in Nat /\ Slots \in Nat
      BY <1>0, <2>2
    <3> HIDE DEF a, b, q
    <3>2. 2 * b >= q + 2 * Slots
      BY ONLY <2>3, <3>1
    <3>3. QED
      BY <1>6, <1>11, <3>2 DEF DropExplained, b, q
  <2>4. CASE MappedAnother(dropped.ring)'
    BY <1>6, <1>11, <2>4 DEF DropExplained, MappedAnother
  <2>5. QED
    BY <2>1, <2>3, <2>4
<1>12. QED
  BY <1>0, <1>7, <1>8, <1>9, <1>10, <1>11 DEF Dropped

LEMMA DropStep ==
  TypeOK /\ JobsInRing /\ FirstRing /\ Numbered /\ HeldRings /\ AllInRing
    /\ DropExplained /\ DroppedFrom /\ [Next]_vars => DropExplained' /\ DroppedFrom'
<1> SUFFICES ASSUME TypeOK, JobsInRing, FirstRing, Numbered, HeldRings, AllInRing,
                    DropExplained, DroppedFrom, [Next]_vars
             PROVE  DropExplained' /\ DroppedFrom'
  OBVIOUS
<1>1. CASE dropped' = dropped
  BY <1>1, DropKept
<1>2. CASE ReceiveMessage
  <2> DEFINE all == Append(queue, Head(wire))
  <2>1. CASE Len(all) > QueueLimit
    <3>1. /\ dropped' = [why |-> "queue", num |-> Head(all).num, ring |-> Head(all).ring,
                         seq |-> Head(all).seq]
          /\ received' = Head(wire).num /\ wire # << >>
      BY <1>2, <2>1 DEF ReceiveMessage
    <3>2. /\ wire \in Seq(Message) /\ queue \in Seq(Message) /\ received \in Int
          /\ Len(queue) \in Nat /\ QueueLimit \in Nat /\ QueueLimit > 0
          /\ NumberedFrom(wire, received) /\ NumberedFrom(queue, received - Len(queue))
          /\ Len(queue) <= QueueLimit
      BY BoundsAssumption DEF TypeOK, Numbered
    <3>3. Head(wire) \in Message /\ Head(wire).num = received + 1
      BY <3>1, <3>2, NumberedTail, HeadTail
    <3> DEFINE n == received - Len(queue)
    <3>4. n \in Int /\ Head(wire).num = n + Len(queue) + 1
      BY <3>2, <3>3
    <3>5. all \in Seq(Message) /\ all # << >> /\ Len(all) = Len(queue) + 1 /\ NumberedFrom(all, n)
      <4> HIDE DEF n
      <4>1. NumberedFrom(queue, n)
        BY <3>2 DEF n
      <4>2. QED
        BY ONLY <3>2, <3>3, <3>4, <4>1, NumberedAppend, Appended
    <3> HIDE DEF all
    <3>6. Head(all).num = n + 1
      BY <3>4, <3>5, NumberedTail
    <3>7. dropped'.why = "queue" /\ dropped'.num = n + 1
      BY <3>1, <3>6
    <3>8. received' = received + 1 /\ Len(queue) = QueueLimit
      BY <2>1, <3>1, <3>2, <3>3, <3>5
    <3>9. received' >= dropped'.num + QueueLimit
      BY ONLY <3>2, <3>7, <3>8
    <3>10. QED
      BY <3>7, <3>9 DEF DropExplained, DroppedFrom
  <2>2. CASE ~(Len(all) > QueueLimit)
    BY <1>1, <1>2, <2>2 DEF ReceiveMessage
  <2>3. QED
    BY <2>1, <2>2
<1>3. CASE Dispatch
  <2>1. PICK m \in Message :
           /\ InRing(m, rings)
           /\ DropUnwanted(m) \/ DeliverPayload(m) \/ FailToOpen(m) \/ ReadSlot(m)
    BY <1>3, Dispatched
  <2>2. UNCHANGED <<ringVars, subs>>
    BY <1>3 DEF Dispatch, subVars
  <2>3. CASE DropUnwanted(m)
    <3>1. dropped'.why = "unwanted" /\ "remote" \notin subs'
      BY <2>2, <2>3 DEF DropUnwanted, Drop
    <3>2. QED
      BY <3>1 DEF DropExplained, DroppedFrom
  <2>4. CASE DeliverPayload(m)
    BY <1>1, <2>4 DEF DeliverPayload
  <2>5. CASE FailToOpen(m)
    <3>1. /\ dropped'.why = "unnamed" /\ dropped'.ring = m.ring /\ m.ring # 0
          /\ named # m.ring
      BY <2>5 DEF FailToOpen, Drop
    <3>2. m.ring \in 1..Len(rings)
      BY <2>1, <3>1 DEF InRing
    <3>3. m.ring # writerRing \/ m.ring \in crossed
      BY <3>1 DEF HeldRings
    <3>4. removed > 0
      <4>1. ASSUME removed = 0 PROVE FALSE
        <5>1. Len(rings) \in Nat /\ Len(rings) <= 1 /\ writerRing = Len(rings) /\ crossed = {}
          BY <4>1 DEF FirstRing, TypeOK
        <5>2. m.ring = writerRing
          BY <3>2, <5>1
        <5>3. QED
          BY <3>3, <5>1, <5>2
      <4>2. QED
        BY <4>1 DEF TypeOK
    <3>5. QED
      BY <2>2, <3>1, <3>2, <3>3, <3>4 DEF DropExplained, DroppedFrom, ringVars
  <2>6. CASE ReadSlot(m)
    <3> DEFINE slot == rings[readerRing'].slots[m.slot]
    <3>1. CASE slot.seq = m.seq
      BY <1>1, <2>6, <3>1 DEF ReadSlot, ReaderRingFor
    <3>2. CASE slot.seq # m.seq
      <4>1. /\ dropped'.why = "overwritten" /\ dropped'.ring = m.ring /\ dropped'.seq = m.seq
            /\ m.ring # 0 /\ readerRing' # 0
        BY <2>6, <3>2 DEF ReadSlot, ReaderRingFor, Drop
      <4>1a. readerRing' = m.ring \/ MappedAnother(m.ring)'
        <5>1. UNCHANGED removed
          BY <2>2 DEF ringVars
        <5>2. QED
          BY <2>1, <2>6, <5>1, OpenedRing
      <4>2. /\ m.ring \in 1..Len(rings)
            /\ \/ rings[m.ring].slots[m.slot] = [seq |-> m.seq, msg |-> m.msg]
               \/ 2 * rings[m.ring].cursor >= m.seq + 2 * Slots
        BY <2>1, <4>1 DEF InRing
      <4>3. MappedAnother(m.ring)' \/ 2 * rings[m.ring].cursor >= m.seq + 2 * Slots
        BY <3>2, <4>1a, <4>2
      <4>4. QED
        BY <2>2, <4>1, <4>2, <4>3 DEF DropExplained, DroppedFrom, MappedAnother, ringVars
    <3>3. QED
      BY <3>1, <3>2
  <2>7. QED
    BY <2>1, <2>3, <2>4, <2>5, <2>6
<1>4. QED
  BY <1>1, <1>2, <1>3
     DEF Next, vars, remoteVars, Publish, UseRing, MakeRing, FailToMakeRing, FallBack, WriteSlot,
         Send, SendShmFails, SendFails, PublishLocal, Unadvertise, LocalThread, TakeLocal, RunLocal,
         DispatchThread, TakeBatch, Unregister, Unsubscribe

\* A message that left the publisher's socket is dropped by the subscriber only for a
\* cause: until the first unadvertise a full queue, no handler or a lapped slot;
\* later also a name that does not lead to its ring, or another ring of that name
\* that the subscriber has open.
THEOREM DropsAreExplained == Spec => []DropExplained
<1>1. Init => Numbered
  BY OrderInit
<1>2. TypeOK /\ Numbered /\ [Next]_vars => Numbered'
  BY RemoteStep
<1>3. TypeOK /\ JobsInRing /\ FirstRing /\ Numbered /\ HeldRings /\ AllInRing
        /\ DropExplained /\ DroppedFrom /\ [Next]_vars =>
            /\ FirstRing' /\ Numbered' /\ HeldRings' /\ AllInRing'
            /\ DropExplained' /\ DroppedFrom'
  BY <1>2, FirstStep, HeldStep, AllStep, DropStep
<1>4. QED
  BY <1>1, <1>3, FirstInit, HeldInit, AllInit, DropInit, TypeCorrect, PTL DEF Spec

-----------------------------------------------------------------------------
(* Every message goes through the socket. *)

LEMMA SwallowedInit == Init => NothingSwallowed
<1> SUFFICES ASSUME Init PROVE NothingSwallowed
  OBVIOUS
<1>1. Sending = {}
  BY DEF Init, Sending
<1>2. QED
  BY <1>1, FS_EmptySet DEF Init, NothingSwallowed

LEMMA SwallowedStep == TypeOK /\ NothingSwallowed /\ [Next]_vars => NothingSwallowed'
<1> SUFFICES ASSUME TypeOK, NothingSwallowed, [Next]_vars, registered'
             PROVE  made' = sent' + lost' + Cardinality(Sending')
  BY DEF NothingSwallowed
<1>a. /\ pc \in [Threads -> {"idle", "ring", "write", "send", "local"}]
      /\ made \in Nat /\ sent \in Nat /\ lost \in Nat
  BY DEF TypeOK
<1>b. registered
  BY DEF Next, vars, subVars, Publish, UseRing, MakeRing, FailToMakeRing, FallBack,
         WriteSlot, Send, SendShmFails, SendFails, PublishLocal, Unadvertise, LocalThread, TakeLocal, RunLocal,
         ReceiveMessage, DispatchThread, TakeBatch, Dispatch, Unregister, Unsubscribe
<1>c. made = sent + lost + Cardinality(Sending)
  BY <1>b DEF NothingSwallowed
<1>d. IsFiniteSet(Sending) /\ Cardinality(Sending) \in Nat
  BY ThreadsAssumption, FS_Subset, FS_CardinalityType DEF Sending
<1>1. CASE UNCHANGED <<made, sent, lost>> /\ Sending' = Sending
  BY <1>c, <1>1
<1>2. ASSUME NEW t \in Threads, Publish(t)
      PROVE  made' = sent' + lost' + Cardinality(Sending')
  <2>1. Sending' = Sending \union {t} /\ t \notin Sending
    BY <1>2, <1>a, <1>b DEF Publish, Step, Sending
  <2>2. Cardinality(Sending') = Cardinality(Sending) + 1
    BY <1>d, <2>1, FS_AddElement
  <2>3. made' = made + 1 /\ UNCHANGED <<sent, lost>>
    BY <1>2 DEF Publish
  <2>4. QED
    BY <1>a, <1>c, <1>d, <2>2, <2>3
<1>3. ASSUME NEW t \in Threads, UseRing(t) \/ MakeRing(t) \/ FailToMakeRing(t) \/ FallBack(t)
                                 \/ WriteSlot(t) \/ SendShmFails(t) \/ PublishLocal(t)
      PROVE  UNCHANGED <<made, sent, lost>> /\ Sending' = Sending
  <2>1. UNCHANGED <<made, sent, lost>>
    BY <1>3 DEF UseRing, MakeRing, FailToMakeRing, FallBack, WriteSlot, SendShmFails, PublishLocal
  <2>2. \/ pc[t] \in {"ring", "write"} /\ \E to \in {"write", "send"} : pc' = [pc EXCEPT ![t] = to]
        \/ pc[t] = "local" /\ pc' = [pc EXCEPT ![t] = "idle"]
        \/ pc' = pc
    BY <1>3 DEF UseRing, MakeRing, FailToMakeRing, FallBack, WriteSlot, SendShmFails,
                PublishLocal, Step
  <2>3. QED
    BY <1>a, <2>1, <2>2 DEF Sending
<1>4. ASSUME NEW t \in Threads, Send(t) \/ SendFails(t)
      PROVE  made' = sent' + lost' + Cardinality(Sending')
  <2>1. Sending' = Sending \ {t} /\ t \in Sending
    BY <1>4, <1>a DEF Send, SendFails, Step, Sending
  <2>2. Cardinality(Sending') = Cardinality(Sending) - 1
    BY <1>d, <2>1, FS_RemoveElement
  <2>3. made' = made /\ sent' + lost' = sent + lost + 1
    BY <1>4, <1>a DEF Send, SendFails
  <2> DEFINE before == Cardinality(Sending)
             after  == Cardinality(Sending')
             gone   == sent + lost
             gone2  == sent' + lost'
  <2>4. /\ before \in Nat /\ after = before - 1 /\ gone \in Nat /\ gone2 = gone + 1
        /\ made = gone + before /\ made' = made
    BY <1>a, <1>c, <1>d, <2>2, <2>3
  <2> HIDE DEF before, after, gone, gone2
  <2>5. made' = gone2 + after
    BY ONLY <2>4
  <2>6. QED
    BY <2>5 DEF gone2, after
<1>5. CASE UNCHANGED <<pc, made, sent, lost>>
  BY <1>1, <1>5 DEF Sending
<1>6. QED
  BY <1>1, <1>2, <1>3, <1>4, <1>5
     DEF Next, vars, Unadvertise, LocalThread, TakeLocal, RunLocal, ReceiveMessage,
         DispatchThread, TakeBatch, Dispatch, Unregister, Unsubscribe

\* With a remote subscriber registered, every message published is handed to
\* the socket, whether it fits the ring or not.
THEOREM NothingIsSwallowed == Spec => []NothingSwallowed
  BY SwallowedInit, SwallowedStep, TypeCorrect, PTL DEF Spec

\* Type correctness alone.
THEOREM TypesAreCorrect == Spec => []TypeOK
  BY TypeCorrect, PTL
=============================================================================
