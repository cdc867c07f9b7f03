--------------------------- MODULE ShmRingProofs ---------------------------
(***************************************************************************)
(* Proofs about ShmRing for any number of threads, readers, slots, words   *)
(* and writes.                                                             *)
(***************************************************************************)
EXTENDS ShmRing, TLAPS

\* The facts about cursors and slots the rest relies on: a cursor falls in a
\* slot, and two cursors of the same slot are a whole turn apart.
LEMMA IndexInSlots == \A c \in Nat : Index(c) \in Slots
  BY SlotCountAssumption DEF Index, Slots

LEMMA SameSlotWholeTurn ==
  ASSUME NEW a \in Nat, NEW b \in Nat, Index(a) = Index(b), a < b
  PROVE  b >= a + SlotCount
<1> DEFINE N  == SlotCount
           qa == a \div N
           qb == b \div N
<1>1. N \in Nat /\ N > 0
  BY SlotCountAssumption
<1>2. qa \in Int /\ qb \in Int
  BY <1>1
<1>3. a = N * qa + (a % N) /\ b = N * qb + (b % N)
  BY <1>1
<1>4. b - a = N * (qb - qa)
  BY <1>1, <1>2, <1>3 DEF Index
<1>5. qb - qa >= 1
  <2>1. SUFFICES ASSUME qb - qa <= 0 PROVE FALSE
    BY <1>2
  <2>2. N * (qb - qa) <= 0
    BY <1>1, <1>2, <2>1
  <2>3. QED
    BY <1>4, <2>2
<1>6. N * (qb - qa) >= N
  BY <1>1, <1>2, <1>5
<1>7. QED
  BY <1>1, <1>4, <1>6

-----------------------------------------------------------------------------
(* Type correctness. *)

LEMMA TypeInit == Init => TypeOK
  BY DEF Init, TypeOK, Slots, Payload, Stamp, Blank, Handle

LEMMA TypeStep == TypeOK /\ [Next]_vars => TypeOK'
<1> SUFFICES ASSUME TypeOK, [Next]_vars PROVE TypeOK'
  OBVIOUS
<1> USE DEF TypeOK
<1>1. ASSUME NEW t \in Writers, Claim(t) PROVE TypeOK'
  BY <1>1 DEF Claim, readerVars
<1>2. ASSUME NEW t \in Writers, MarkOdd(t) PROVE TypeOK'
  <2>1. wcur[t] \in Nat /\ BeginSeq(wcur[t]) \in Nat
    BY DEF BeginSeq
  <2>2. seq' \in [Slots -> Nat]
    BY <1>2, <2>1 DEF MarkOdd
  <2>3. QED
    BY <1>2, <2>2 DEF MarkOdd, readerVars
<1>3. ASSUME NEW t \in Writers, NEW w \in Words, WriteWord(t, w) PROVE TypeOK'
  <2>1. Index(wcur[t]) \in Slots /\ wcur[t] \in Stamp
    BY IndexInSlots DEF Stamp
  <2>2. data' \in [Slots -> Payload]
    BY <1>3, <2>1 DEF WriteWord, Payload
  <2>3. wleft' \in [Writers -> SUBSET Words]
    BY <1>3 DEF WriteWord
  <2>4. QED
    BY <1>3, <2>2, <2>3 DEF WriteWord, readerVars
<1>4. ASSUME NEW t \in Writers, Abandon(t) \/ SendFails(t) PROVE TypeOK'
  BY <1>4 DEF Abandon, SendFails, readerVars
<1>5. ASSUME NEW t \in Writers, Commit(t) PROVE TypeOK'
  <2>1. wcur[t] \in Nat /\ EndSeq(wcur[t]) \in Nat
    BY DEF BeginSeq, EndSeq
  <2>2. seq' \in [Slots -> Nat]
    BY <1>5, <2>1 DEF Commit
  <2>3. QED
    BY <1>5, <2>2 DEF Commit, readerVars
<1>6. ASSUME NEW t \in Writers, Send(t) PROVE TypeOK'
  <2>1. HandleOf(wcur[t]) \in Handle
    BY IndexInSlots DEF HandleOf, Handle, EndSeq, BeginSeq
  <2>2. sent' \in Seq(Handle) /\ Len(sent') = Len(sent) + 1
    BY <1>6, <2>1 DEF Send
  <2>3. QED
    BY <1>6, <2>2 DEF Send, readerVars
<1>7. ASSUME NEW r \in Readers, Skip(r) PROVE TypeOK'
  BY <1>7 DEF Skip, writerVars
<1>8. ASSUME NEW r \in Readers, BeginRead(r) PROVE TypeOK'
  <2>1. rpos[r] + 1 \in 1 .. Len(sent) /\ sent[rpos[r] + 1] \in Handle
    BY <1>8 DEF BeginRead
  <2>2. [w \in Words |-> Blank] \in Payload
    BY DEF Payload, Stamp
  <2>3. rgot' \in [Readers -> Payload] /\ dropped' \in SUBSET Handle
    BY <1>8, <2>1, <2>2 DEF BeginRead
  <2>4. /\ rpc' \in [Readers -> {"idle", "parsing"}]
        /\ rpos' \in [Readers -> Nat]
        /\ \A q \in Readers : rpos'[q] <= Len(sent)
        /\ \A q \in Readers : rpc'[q] = "parsing" => rpos'[q] >= 1
    BY <1>8 DEF BeginRead
  <2>5. QED
    BY <1>8, <2>3, <2>4 DEF BeginRead, writerVars
<1>9. ASSUME NEW r \in Readers, NEW w \in Words, ReadWord(r, w) PROVE TypeOK'
  <2>1. Current(r).slot \in Slots
    <3>1. rpos[r] \in 1 .. Len(sent)
      BY <1>9 DEF ReadWord
    <3>2. Current(r) \in Handle
      BY <3>1 DEF Current
    <3>3. QED
      BY <3>2 DEF Handle
  <2>2. data[Current(r).slot][w] \in Stamp
    BY <2>1 DEF Payload
  <2>3. rgot' \in [Readers -> Payload]
    BY <1>9, <2>2 DEF ReadWord, Payload
  <2>4. QED
    BY <1>9, <2>3 DEF ReadWord, writerVars
<1>10. ASSUME NEW r \in Readers, FinishRead(r) PROVE TypeOK'
  <2>1. Current(r) \in Handle
    BY <1>10 DEF FinishRead, Current
  <2>2. [reader |-> r, id |-> Current(r).id, msg |-> rgot[r]]
          \in [reader : Readers, id : Nat, msg : Payload]
    BY <2>1 DEF Handle
  <2>3. QED
    BY <1>10, <2>1, <2>2 DEF FinishRead, writerVars
<1>11. ASSUME NEW r \in Readers, GiveUp(r) PROVE TypeOK'
  BY <1>11 DEF GiveUp, writerVars
<1>12. CASE UNCHANGED vars
  BY <1>12 DEF vars
<1>13. QED
  BY <1>1, <1>2, <1>3, <1>4, <1>5, <1>6, <1>7, <1>8, <1>9, <1>10, <1>11, <1>12
     DEF Next, WriterStep, ReaderStep

\* Type correctness of the ring, however many threads write to it.
THEOREM TypeCorrect == Spec => []TypeOK
<1>1. QED
  BY TypeInit, TypeStep, PTL DEF Spec

-----------------------------------------------------------------------------
(* The inductive invariant, when no thread laps another.                   *)

LEMMA InvInit == Init => IInv
<1> SUFFICES ASSUME Init PROVE IInv
  OBVIOUS
<1>1. TypeOK
  BY TypeInit
<1>2. LapFree /\ WriterOwns
  BY DEF Init, LapFree, InFlight, WriterOwns
<1>3. cursor <= MaxWrites /\ SlotSeq
  BY MaxWritesAssumption DEF Init, SlotSeq
<1>4. Settled
  BY DEF Init, Settled, EndSeq, BeginSeq, Blank
<1>5. SentHandles /\ Parsing /\ DroppedStale /\ IntactDelivery
  BY DEF Init, SentHandles, Parsing, DroppedStale, IntactDelivery
<1>6. QED
  BY <1>1, <1>2, <1>3, <1>4, <1>5 DEF IInv

\* Only the owner of a slot moves its seq, and it moves it up.
LEMMA SeqGrows ==
  ASSUME TypeOK, WriterOwns, [Next]_vars
  PROVE  \A s \in Slots : seq'[s] >= seq[s]
<1> USE DEF TypeOK
<1>1. ASSUME NEW t \in Writers, MarkOdd(t) PROVE \A s \in Slots : seq'[s] >= seq[s]
  <2>1. wcur[t] \in Nat /\ BeginSeq(wcur[t]) >= seq[Index(wcur[t])]
    BY <1>1, IndexInSlots DEF MarkOdd, WriterOwns, BeginSeq
  <2>2. QED
    BY <1>1, <2>1 DEF MarkOdd
<1>2. ASSUME NEW t \in Writers, Commit(t) PROVE \A s \in Slots : seq'[s] >= seq[s]
  <2>1. wcur[t] \in Nat /\ EndSeq(wcur[t]) >= seq[Index(wcur[t])]
    BY <1>2, IndexInSlots DEF Commit, WriterOwns, BeginSeq, EndSeq
  <2>2. QED
    BY <1>2, <2>1 DEF Commit
<1>3. CASE seq' = seq
  BY <1>3
<1>4. QED
  BY <1>1, <1>2, <1>3
     DEF Next, WriterStep, ReaderStep, Claim, WriteWord, Abandon, Send, SendFails, Skip,
         BeginRead, ReadWord, GiveUp, FinishRead, writerVars, readerVars, vars

\* What a growing seq alone keeps true, as long as the queues stand still.
LEMMA GrowthKeeps ==
  ASSUME IInv, \A s \in Slots : seq'[s] >= seq[s], TypeOK',
         UNCHANGED <<sent, dropped, delivered, rpos, rpc, rgot>>, cursor' >= cursor
  PROVE  SentHandles' /\ Parsing' /\ DroppedStale' /\ IntactDelivery'
<1> USE DEF IInv, TypeOK
<1>1. \A h \in Handle : h.slot \in Slots /\ h.seq \in Nat /\ h.id \in Nat
  BY DEF Handle
<1>2. \A i \in 1 .. Len(sent) : sent[i] \in Handle
  OBVIOUS
<1>3. SentHandles'
  BY <1>1, <1>2 DEF SentHandles
<1>4. Parsing'
  <2> SUFFICES ASSUME NEW r \in Readers, rpc[r] = "parsing", NEW w \in Words
               PROVE  \/ rgot[r][w] \in {Blank, Current(r).id}
                      \/ seq'[Current(r).slot] > Current(r).seq
    BY DEF Parsing, Current
  <2>1. Current(r) \in Handle
    BY <1>2 DEF Current
  <2>2. QED
    BY <1>1, <2>1 DEF Parsing
<1>5. DroppedStale'
  BY <1>1 DEF DroppedStale
<1>6. QED
  BY <1>3, <1>4, <1>5 DEF IntactDelivery

\* Every step of a publishing thread that keeps the threads apart.
LEMMA WriterKeepsInv ==
  ASSUME IInv, NEW t \in Writers, WriterStep(t), LapFree'
  PROVE  IInv'
<1> USE DEF IInv, TypeOK
<1>1. WriterStep(t) => [Next]_vars
  BY DEF Next
<1>2. TypeOK'
  BY <1>1, TypeStep
<1>3. \A s \in Slots : seq'[s] >= seq[s]
  BY <1>1, SeqGrows
<1>4. \A u \in Writers : Index(wcur[u]) \in Slots /\ wcur[u] \in Nat
  BY IndexInSlots
<1>5. CASE Claim(t)
  <2>1. SentHandles' /\ Parsing' /\ DroppedStale' /\ IntactDelivery'
    BY <1>2, <1>3, <1>5, GrowthKeeps DEF Claim, readerVars
  <2>2. cursor' <= MaxWrites /\ SlotSeq' /\ Settled'
    BY <1>5, MaxWritesAssumption DEF Claim, SlotSeq, Settled
  <2>3. seq[Index(cursor)] < BeginSeq(cursor)
    <3>1. Index(cursor) \in Slots
      BY IndexInSlots
    <3>2. \A c \in 0 .. cursor - 1 :
             BeginSeq(c) < BeginSeq(cursor) /\ EndSeq(c) < BeginSeq(cursor)
      BY DEF BeginSeq, EndSeq
    <3>3. 0 < BeginSeq(cursor)
      BY DEF BeginSeq
    <3>4. QED
      BY <3>1, <3>2, <3>3 DEF SlotSeq
  <2>4. WriterOwns'
    BY <1>4, <1>5, <2>3 DEF Claim, WriterOwns
  <2>5. QED
    BY <1>2, <2>1, <2>2, <2>4
<1>6. CASE MarkOdd(t)
  <2>1. SentHandles' /\ Parsing' /\ DroppedStale' /\ IntactDelivery'
    BY SMTT(30), <1>2, <1>3, <1>6, GrowthKeeps DEF MarkOdd, readerVars
  <2>2. SlotSeq'
    <3>1. wcur[t] \in 0 .. cursor - 1
      <4>1. wpc[t] # "idle" /\ wcur[t] < cursor
        BY <1>6 DEF MarkOdd, WriterOwns
      <4>2. QED
        BY <1>4, <4>1
    <3>2. \A s \in Slots : s # Index(wcur[t]) => seq'[s] = seq[s]
      BY <1>4, <1>6 DEF MarkOdd
    <3>3. seq'[Index(wcur[t])] = BeginSeq(wcur[t]) /\ cursor' = cursor
      BY <1>4, <1>6 DEF MarkOdd
    <3>4. QED
      BY <3>1, <3>2, <3>3 DEF SlotSeq
  <2>3. Settled'
    <3>1. BeginSeq(wcur[t]) % 2 # 0
      BY <1>4 DEF BeginSeq
    <3>2. QED
      BY <1>4, <1>6, <3>1 DEF MarkOdd, Settled
  <2>4. WriterOwns'
    <3> SUFFICES ASSUME NEW u \in Writers PROVE
              /\ wpc'[u] # "idle" => wcur[u] < cursor
              /\ wpc'[u] = "claimed" => seq'[Index(wcur[u])] < BeginSeq(wcur[u])
              /\ wpc'[u] = "writing" =>
                    /\ seq'[Index(wcur[u])] = BeginSeq(wcur[u])
                    /\ \A w \in Words \ wleft'[u] :
                          data[Index(wcur[u])][w] = wcur[u]
              /\ wpc'[u] = "committed" => seq'[Index(wcur[u])] >= EndSeq(wcur[u])
      BY <1>6 DEF MarkOdd, WriterOwns
    <3>1. CASE u = t
      BY <1>4, <1>6, <3>1 DEF MarkOdd, WriterOwns
    <3>2. CASE u # t /\ InFlight(u)
      <4>1. Index(wcur[u]) # Index(wcur[t])
        BY <1>6, <3>2 DEF MarkOdd, LapFree, InFlight
      <4>2. QED
        BY <1>4, <1>6, <3>2, <4>1 DEF MarkOdd, WriterOwns, InFlight
    <3>3. CASE u # t /\ ~InFlight(u)
      <4>1. wpc'[u] = wpc[u] /\ seq'[Index(wcur[u])] >= seq[Index(wcur[u])]
        BY <1>3, <1>4, <1>6, <3>3 DEF MarkOdd
      <4>2. QED
        BY SMTT(30), <1>2, <1>4, <3>3, <4>1 DEF WriterOwns, InFlight, EndSeq, BeginSeq
    <3>4. QED
      BY <3>1, <3>2, <3>3
  <2>5. QED
    BY <1>2, <1>6, <2>1, <2>2, <2>3, <2>4 DEF MarkOdd
<1>7. CASE \E w \in Words : WriteWord(t, w)
  <2> PICK w \in Words : WriteWord(t, w)
    BY <1>7
  <2>1. SentHandles' /\ Parsing' /\ DroppedStale' /\ IntactDelivery'
    BY <1>2, <1>3, GrowthKeeps DEF WriteWord, readerVars
  <2>2. Settled'
    <3>1. BeginSeq(wcur[t]) % 2 # 0 /\ seq[Index(wcur[t])] = BeginSeq(wcur[t])
      BY <1>4 DEF BeginSeq, WriteWord, WriterOwns
    <3>2. \A s \in Slots : s # Index(wcur[t]) => data'[s] = data[s]
      BY <1>4 DEF WriteWord
    <3>3. QED
      BY <1>4, <3>1, <3>2 DEF WriteWord, Settled
  <2>3. WriterOwns'
    <3>1. ASSUME NEW u \in Writers, u # t, wpc[u] = "writing"
          PROVE  data'[Index(wcur[u])] = data[Index(wcur[u])]
      <4>1. Index(wcur[u]) # Index(wcur[t])
        BY <3>1 DEF WriteWord, LapFree, InFlight
      <4>2. QED
        BY <1>4, <4>1 DEF WriteWord
    <3>2. \A v \in Words \ wleft'[t] : data'[Index(wcur[t])][v] = wcur[t]
      BY <1>4 DEF WriteWord, WriterOwns, Payload
    <3>3. QED
      BY <1>4, <3>1, <3>2 DEF WriteWord, WriterOwns
  <2>4. QED
    BY <1>2, <2>1, <2>2, <2>3 DEF WriteWord, SlotSeq
<1>8. CASE Abandon(t) \/ SendFails(t)
  <2>1. SentHandles' /\ Parsing' /\ DroppedStale' /\ IntactDelivery'
    BY <1>2, <1>3, <1>8, GrowthKeeps DEF Abandon, SendFails, readerVars
  <2>2. /\ wpc' = [wpc EXCEPT ![t] = "idle"]
        /\ UNCHANGED <<cursor, seq, data, wcur, wleft, sent>>
    BY <1>8 DEF Abandon, SendFails
  <2>3. QED
    BY <1>2, <2>1, <2>2 DEF SlotSeq, Settled, WriterOwns
<1>9. CASE Commit(t)
  <2>1. SentHandles' /\ Parsing' /\ DroppedStale' /\ IntactDelivery'
    BY SMTT(30), <1>2, <1>3, <1>9, GrowthKeeps DEF Commit, readerVars
  <2>2. SlotSeq'
    <3>1. wcur[t] \in 0 .. cursor - 1
      <4>1. wpc[t] # "idle" /\ wcur[t] < cursor
        BY <1>9 DEF Commit, WriterOwns
      <4>2. QED
        BY <1>4, <4>1
    <3>2. \A s \in Slots : s # Index(wcur[t]) => seq'[s] = seq[s]
      BY <1>4, <1>9 DEF Commit
    <3>3. seq'[Index(wcur[t])] = EndSeq(wcur[t]) /\ cursor' = cursor
      BY <1>4, <1>9 DEF Commit
    <3>4. QED
      BY <3>1, <3>2, <3>3 DEF SlotSeq
  <2>3. Settled'
    <3>1. \A w \in Words : data[Index(wcur[t])][w] = wcur[t]
      BY <1>9 DEF Commit, WriterOwns
    <3>2. QED
      BY <1>4, <1>9, <3>1 DEF Commit, Settled
  <2>4. WriterOwns'
    <3>1. ASSUME NEW u \in Writers, u # t, InFlight(u)
          PROVE  seq'[Index(wcur[u])] = seq[Index(wcur[u])]
      <4>1. Index(wcur[u]) # Index(wcur[t])
        BY <1>9, <3>1 DEF Commit, LapFree, InFlight
      <4>2. QED
        BY <1>4, <1>9, <4>1 DEF Commit
    <3>2. ASSUME NEW u \in Writers, u # t, wpc[u] = "committed"
          PROVE  seq'[Index(wcur[u])] >= EndSeq(wcur[u])
      BY SMTT(30), <1>2, <1>3, <1>4, <3>2 DEF WriterOwns, EndSeq, BeginSeq
    <3>3. seq'[Index(wcur[t])] >= EndSeq(wcur[t])
      BY <1>4, <1>9 DEF Commit, EndSeq, BeginSeq
    <3>4. QED
      BY <1>9, <3>1, <3>2, <3>3 DEF Commit, WriterOwns, InFlight
  <2>5. QED
    BY <1>2, <1>9, <2>1, <2>2, <2>3, <2>4 DEF Commit
<1>10. CASE Send(t)
  <2> DEFINE h == HandleOf(wcur[t])
  <2>1. sent' = Append(sent, h) /\ h.id = wcur[t] /\ h = HandleOf(h.id)
    BY <1>10 DEF Send, HandleOf
  <2>2. /\ Len(sent') = Len(sent) + 1
        /\ sent'[Len(sent) + 1] = h
        /\ \A i \in 1 .. Len(sent) : sent'[i] = sent[i]
    BY <2>1
  <2>3. h.id < cursor /\ seq[h.slot] >= h.seq
    BY <1>10 DEF Send, WriterOwns, HandleOf
  <2>4. SentHandles'
    BY <1>10, <2>1, <2>2, <2>3 DEF Send, SentHandles
  <2>5. Parsing'
    <3>1. \A r \in Readers : rpc[r] = "parsing" => sent'[rpos[r]] = sent[rpos[r]]
      BY <2>2
    <3>2. QED
      BY <1>10, <3>1 DEF Send, readerVars, Parsing, Current
  <2>6. QED
    BY <1>2, <1>10, <2>4, <2>5
       DEF Send, readerVars, SlotSeq, Settled, WriterOwns, DroppedStale, IntactDelivery
<1>11. QED
  BY <1>5, <1>6, <1>7, <1>8, <1>9, <1>10 DEF WriterStep

\* Every step of a dispatch thread.
LEMMA ReaderKeepsInv ==
  ASSUME IInv, NEW r \in Readers, ReaderStep(r)
  PROVE  IInv'
<1> USE DEF IInv, TypeOK
<1>1. TypeOK'
  BY TypeStep DEF Next
<1>2. /\ UNCHANGED <<seq, data, cursor, wpc, wcur, wleft, sent>>
      /\ cursor' <= MaxWrites /\ LapFree' /\ SlotSeq' /\ Settled' /\ WriterOwns'
      /\ SentHandles'
  BY DEF ReaderStep, Skip, BeginRead, ReadWord, GiveUp, FinishRead, writerVars,
         LapFree, InFlight, SlotSeq, Settled, WriterOwns, SentHandles
<1>3. \A i \in 1 .. Len(sent) :
         /\ sent[i] \in Handle
         /\ sent[i] = HandleOf(sent[i].id)
         /\ seq[sent[i].slot] >= sent[i].seq
  BY DEF SentHandles
<1>4. \A h \in Handle : h.slot \in Slots /\ h.seq \in Nat /\ h.id \in Nat
  BY DEF Handle
<1>5. \A c \in Nat : EndSeq(c) % 2 = 0
  BY DEF EndSeq, BeginSeq
<1>6. CASE Skip(r)
  <2>1. Parsing'
    BY <1>2, <1>6 DEF Skip, Parsing, Current
  <2>2. QED
    BY <1>1, <1>2, <1>6, <2>1 DEF Skip, DroppedStale, IntactDelivery
<1>7. CASE BeginRead(r)
  <2> DEFINE h == sent[rpos[r] + 1]
  <2>1. rpos[r] + 1 \in 1 .. Len(sent) /\ h \in Handle
    BY <1>7 DEF BeginRead
  <2>2. h = HandleOf(h.id) /\ seq[h.slot] >= h.seq
    BY <1>3, <2>1
  <2>3. Parsing'
    <3>1. \A q \in Readers : q # r => rpos'[q] = rpos[q] /\ rpc'[q] = rpc[q]
                                      /\ rgot'[q] = rgot[q]
      BY <1>7 DEF BeginRead
    <3>2. rpc'[r] = "parsing" => \A w \in Words : rgot'[r][w] = Blank
      BY <1>7 DEF BeginRead
    <3>3. QED
      BY <1>2, <3>1, <3>2 DEF Parsing, Current
  <2>4. DroppedStale'
    <3>1. CASE Readable(h)
      BY <1>2, <1>7, <3>1 DEF BeginRead, DroppedStale
    <3>2. CASE ~Readable(h)
      <4>1. seq[h.slot] > h.seq
        <5>1. h.seq = EndSeq(h.id) /\ h.id \in Nat
          BY <1>4, <2>1, <2>2 DEF HandleOf
        <5>2. h.seq % 2 = 0
          BY <1>5, <5>1
        <5>3. seq[h.slot] # h.seq
          BY <3>2, <5>2 DEF Readable
        <5>4. QED
          BY <1>4, <2>1, <2>2, <5>3
      <4>2. QED
        BY <1>2, <1>7, <2>2, <3>2, <4>1 DEF BeginRead, DroppedStale
    <3>3. QED
      BY <3>1, <3>2
  <2>5. QED
    BY <1>1, <1>2, <1>7, <2>3, <2>4 DEF BeginRead, IntactDelivery
<1>8. CASE \E w \in Words : ReadWord(r, w)
  <2> PICK w \in Words : ReadWord(r, w)
    BY <1>8
  <2> DEFINE h == Current(r)
  <2>1. rpos[r] \in 1 .. Len(sent) /\ h \in Handle
    BY DEF ReadWord, Current
  <2>2. h = HandleOf(h.id) /\ seq[h.slot] >= h.seq /\ h.seq = EndSeq(h.id)
    BY <1>3, <2>1 DEF Current, HandleOf
  <2>3. data[h.slot][w] = h.id \/ seq[h.slot] > h.seq
    <3>1. CASE seq[h.slot] = h.seq
      <4>1. h.slot \in Slots /\ h.id \in Nat /\ seq[h.slot] % 2 = 0
        BY <1>4, <1>5, <2>1, <2>2, <3>1
      <4>2. EndSeq(data[h.slot][w]) = EndSeq(h.id)
        BY <2>2, <3>1, <4>1 DEF Settled
      <4>3. data[h.slot][w] \in Int
        BY <4>1 DEF Payload, Stamp, Blank
      <4>4. QED
        BY SMTT(30), <4>1, <4>2, <4>3 DEF EndSeq, BeginSeq
    <3>2. QED
      BY <1>4, <2>1, <2>2, <3>1
  <2>4. Parsing'
    <3>1. \A q \in Readers : q # r => rgot'[q] = rgot[q]
      BY DEF ReadWord
    <3>2. \A v \in Words : rgot'[r][v] = IF v = w THEN data[h.slot][w] ELSE rgot[r][v]
      BY DEF ReadWord, Payload
    <3>3. rpc' = rpc /\ rpos' = rpos /\ sent' = sent /\ seq' = seq
      BY DEF ReadWord, writerVars
    <3>4. ASSUME NEW v \in Words
          PROVE  rgot'[r][v] \in {Blank, h.id} \/ seq[h.slot] > h.seq
      <4>1. rpc[r] = "parsing"
        BY DEF ReadWord
      <4>2. CASE v = w
        BY <2>3, <3>2, <4>2
      <4>3. CASE v # w
        BY <3>2, <4>1, <4>3 DEF Parsing
      <4>4. QED
        BY <4>2, <4>3
    <3>5. QED
      BY <3>1, <3>3, <3>4 DEF Parsing, Current
  <2>5. QED
    BY <1>1, <1>2, <2>4 DEF ReadWord, DroppedStale, IntactDelivery
<1>9. CASE FinishRead(r)
  <2> DEFINE h == Current(r)
  <2>1. rpos[r] \in 1 .. Len(sent) /\ h \in Handle
    BY <1>9 DEF FinishRead, Current
  <2>2. h = HandleOf(h.id) /\ seq[h.slot] >= h.seq
    BY <1>3, <2>1 DEF Current
  <2>3. Parsing'
    BY <1>2, <1>9 DEF FinishRead, Parsing, Current
  <2>4. CASE seq[h.slot] = h.seq
    <3>1. \A w \in Words : rgot[r][w] = h.id
      BY <1>4, <1>9, <2>1, <2>4 DEF FinishRead, Parsing
    <3>2. IntactDelivery'
      <4> DEFINE d0 == [reader |-> r, id |-> h.id, msg |-> rgot[r]]
      <4>1. delivered' = delivered \union {d0}
        BY <1>9, <2>4 DEF FinishRead
      <4>2. \A w \in Words : d0.msg[w] = d0.id
        BY <3>1
      <4>3. QED
        BY <4>1, <4>2 DEF IntactDelivery
    <3>3. QED
      BY <1>1, <1>2, <1>9, <2>3, <2>4, <3>2 DEF FinishRead, DroppedStale
  <2>5. CASE seq[h.slot] # h.seq
    <3>1. DroppedStale'
      BY <1>2, <1>4, <1>9, <2>1, <2>2, <2>5 DEF FinishRead, DroppedStale
    <3>2. QED
      BY <1>1, <1>2, <1>9, <2>3, <2>5, <3>1 DEF FinishRead, IntactDelivery
  <2>6. QED
    BY <2>4, <2>5
<1>10. CASE GiveUp(r)
  <2>1. Parsing'
    BY <1>2, <1>10 DEF GiveUp, Parsing, Current
  <2>2. QED
    BY <1>1, <1>2, <1>10, <2>1 DEF GiveUp, DroppedStale, IntactDelivery
<1>11. QED
  BY <1>6, <1>7, <1>8, <1>9, <1>10 DEF ReaderStep

LEMMA InvStep ==
  ASSUME IInv, [Next /\ LapFree']_vars
  PROVE  IInv'
<1>1. ASSUME NEW t \in Writers, WriterStep(t), LapFree' PROVE IInv'
  BY <1>1, WriterKeepsInv
<1>2. ASSUME NEW r \in Readers, ReaderStep(r) PROVE IInv'
  BY <1>2, ReaderKeepsInv
<1>3. CASE UNCHANGED vars
  <2>1. TypeOK'
    BY <1>3, TypeStep DEF IInv
  <2>2. QED
    BY <1>3, <2>1 DEF IInv, vars, LapFree, InFlight, SlotSeq, Settled, WriterOwns,
          SentHandles, Parsing, Current, DroppedStale, IntactDelivery
<1>4. QED
  BY <1>1, <1>2, <1>3 DEF Next

-----------------------------------------------------------------------------
(* The theorems.                                                           *)

\* As long as no thread reserves a slot another one still owns, the
\* inductive invariant holds.
THEOREM LapFreeInvariant == LapFreeSpec => []IInv
<1>1. QED
  BY InvInit, InvStep, PTL DEF LapFreeSpec

\* ... so no callback is given a torn payload or another message's payload:
\* the seqlock of beginRead and finishRead is sound.
THEOREM LapFreeIntact == LapFreeSpec => []IntactDelivery
<1>1. IInv => IntactDelivery
  BY DEF IInv
<1>2. QED
  BY <1>1, LapFreeInvariant, PTL

\* ... and a reader is refused a slot only after the ring went all the way
\* round: a message survives SlotCount - 1 later writes.
THEOREM LapFreeDrops == LapFreeSpec => []DropsOnlyWrapped
<1>1. IInv => DropsOnlyWrapped
  <2> SUFFICES ASSUME IInv, NEW h \in dropped PROVE cursor > h.id + SlotCount
    BY DEF DropsOnlyWrapped
  <2> USE DEF IInv, TypeOK
  <2>1. h \in Handle /\ h.slot \in Slots /\ h.seq \in Nat /\ h.id \in Nat
    BY DEF Handle
  <2>2. h.slot = Index(h.id) /\ h.seq = EndSeq(h.id) /\ seq[h.slot] > h.seq
    BY DEF DroppedStale, HandleOf
  <2>3. PICK c \in 0 .. cursor - 1 :
           Index(c) = h.slot /\ seq[h.slot] \in {BeginSeq(c), EndSeq(c)}
    <3>1. h.slot \in Slots /\ seq[h.slot] # 0
      BY <2>1, <2>2
    <3>2. QED
      BY <3>1 DEF SlotSeq
  <2>4. c > h.id
    BY <2>1, <2>2, <2>3 DEF BeginSeq, EndSeq
  <2>5. c >= h.id + SlotCount
    BY <2>1, <2>2, <2>3, <2>4, SameSlotWholeTurn
  <2>6. QED
    BY <2>1, <2>3, <2>5, SlotCountAssumption
<1>2. QED
  BY <1>1, LapFreeInvariant, PTL

\* ... and the sequence number of a slot never goes back.
THEOREM LapFreeSeqGrows == LapFreeSpec => SeqNeverGoesBack
<1>1. IInv /\ [Next /\ LapFree']_vars => [\A s \in Slots : seq'[s] >= seq[s]]_vars
  BY SeqGrows DEF IInv
<1>2. QED
  BY <1>1, LapFreeInvariant, PTL DEF LapFreeSpec, SeqNeverGoesBack

\* ... and the ring implements the mailbox: each descriptor sent posts a
\* message, each accepted read delivers a posted message whole, and no other
\* step is visible to the callbacks.
THEOREM LapFreeMailbox == LapFreeSpec => ImplementsMailbox
<1> DEFINE Posted(q) == {q[i].id : i \in 1 .. Len(q)}
           Seen(d) == [reader |-> d.reader, msg |-> d.msg]
<1>1. Init => Atomic!Init
  BY DEF Init, Atomic!Init
<1>2. ASSUME IInv, IInv', [Next /\ LapFree']_vars
      PROVE  [Atomic!Next]_(Atomic!vars)
  <2>0. IInv /\ IntactDelivery'
    BY <1>2 DEF IInv
  <2> USE <2>0 DEF IInv, TypeOK
  <2>1. ASSUME NEW t \in Writers, Send(t) PROVE Atomic!Next
    <3> DEFINE h == HandleOf(wcur[t])
    <3>1. sent' = Append(sent, h) /\ h.id = wcur[t] /\ delivered' = delivered
      BY <2>1 DEF Send, HandleOf, readerVars
    <3>2. Posted(sent') = Posted(sent) \union {wcur[t]}
      <4>1. /\ Len(sent') = Len(sent) + 1
            /\ sent'[Len(sent) + 1] = h
            /\ \A i \in 1 .. Len(sent) : sent'[i] = sent[i]
        BY <3>1
      <4>2. 1 .. Len(sent') = (1 .. Len(sent)) \union {Len(sent) + 1}
        BY <4>1
      <4>3. QED
        BY <3>1, <4>1, <4>2
    <3>3. wcur[t] \in 0 .. MaxWrites - 1
      <4>1. wpc[t] # "idle" /\ wcur[t] < cursor
        BY <2>1 DEF Send, WriterOwns
      <4>2. QED
        BY <4>1, MaxWritesAssumption
    <3>4. QED
      BY <3>1, <3>2, <3>3 DEF Atomic!Next, Atomic!Post
  <2>2. ASSUME NEW r \in Readers, FinishRead(r) PROVE [Atomic!Next]_(Atomic!vars)
    <3> DEFINE h == Current(r)
    <3>1. rpos[r] \in 1 .. Len(sent) /\ sent' = sent
      BY <2>2 DEF FinishRead, writerVars
    <3>2. CASE seq[h.slot] = h.seq
      <4> DEFINE d0 == [reader |-> r, id |-> h.id, msg |-> rgot[r]]
      <4>1. delivered' = delivered \union {d0}
        BY <2>2, <3>2 DEF FinishRead
      <4>2. rgot[r] = Atomic!Whole(h.id)
        <5>1. \A w \in Words : rgot[r][w] = h.id
          <6>1. d0 \in delivered' /\ d0.msg = rgot[r] /\ d0.id = h.id
            BY <4>1
          <6>2. \A w \in Words : d0.msg[w] = d0.id
            BY <6>1 DEF IntactDelivery
          <6>3. QED
            BY <6>1, <6>2
        <5>2. rgot[r] = [w \in Words |-> rgot[r][w]]
          BY DEF Payload
        <5>3. QED
          BY <5>1, <5>2 DEF Atomic!Whole
      <4>3. Seen(d0) = [reader |-> r, msg |-> Atomic!Whole(h.id)]
        BY <4>2
      <4>4. {Seen(d) : d \in delivered'} = {Seen(d) : d \in delivered} \union {Seen(d0)}
        BY <4>1
      <4>5. h.id \in Posted(sent)
        BY <3>1 DEF Current
      <4>6. h.id \in 0 .. MaxWrites - 1
        <5>1. h \in Handle /\ h.id < cursor
          BY <3>1 DEF Current, SentHandles
        <5>2. QED
          BY <5>1, MaxWritesAssumption DEF Handle
      <4>7. QED
        BY <3>1, <4>3, <4>4, <4>5, <4>6 DEF Atomic!Next, Atomic!Deliver
    <3>3. CASE seq[h.slot] # h.seq
      BY <2>2, <3>1, <3>3 DEF FinishRead, Atomic!vars
    <3>4. QED
      BY <3>2, <3>3
  <2>3. CASE sent' = sent /\ delivered' = delivered
    BY <2>3 DEF Atomic!vars
  <2>4. QED
    BY <1>2, <2>1, <2>2, <2>3
       DEF Next, WriterStep, ReaderStep, Claim, MarkOdd, WriteWord, Abandon, Commit,
           SendFails, Skip, BeginRead, ReadWord, GiveUp, writerVars, readerVars, vars
<1>3. QED
  BY <1>1, <1>2, LapFreeInvariant, PTL DEF LapFreeSpec, ImplementsMailbox, Atomic!Spec

\* One publishing thread cannot lap itself: the guarantees above are those of
\* a topic that a single thread publishes on.
THEOREM SingleWriterLapFree ==
  ASSUME NEW t, Writers = {t}
  PROVE  Spec => LapFreeSpec
<1>1. LapFree'
  BY DEF LapFree
<1>2. [Next]_vars => [Next /\ LapFree']_vars
  BY <1>1
<1>3. QED
  BY <1>2, PTL DEF Spec, LapFreeSpec
=============================================================================
