------------------------------ MODULE ShmRing ------------------------------
(***************************************************************************)
(* The fixed-slot ring of src/src/shm_ring.cc as its two users drive it:   *)
(* MessageRuntime::publishRemoteShm on the publishing threads and the shm  *)
(* branch of MessageRuntime::remoteDispatchLoop on the dispatch thread of  *)
(* each subscribing process.                                               *)
(*                                                                         *)
(* A message is identified by the write cursor it was given; the payload   *)
(* of a slot is a function from Words to the message each word was last    *)
(* written for, so a torn read is one whose words name different messages. *)
(* A slot copy takes one step per word.  Steps are sequentially consistent:*)
(* the accesses to seq are seq_cst, and on x86-64, the platform README.md  *)
(* measures on (line 176), such a store is a full fence.                   *)
(***************************************************************************)
EXTENDS Integers, Sequences

CONSTANTS Writers,    \* threads that publish on the topic
          Readers,    \* subscribing processes (one dispatch thread each)
          SlotCount,  \* ShmRing::slot_count_
          Words,      \* pieces a payload is copied in
          MaxWrites   \* bound: how many times the ring is written

ASSUME SlotCountAssumption == SlotCount \in Nat \ {0}
ASSUME MaxWritesAssumption == MaxWrites \in Nat

VARIABLES cursor,     \* write_cursor_
          seq,        \* SlotHeader::seq of each slot
          data,       \* payload of each slot
          wpc,        \* where a publishing thread is
          wcur,       \* the cursor it was given
          wleft,      \* the words it has still to copy
          sent,       \* descriptors sent on the control channel, in order
          rpos,       \* how many of them a reader has taken
          rpc,        \* where a dispatch thread is
          rgot,       \* the words it has parsed so far
          dropped,    \* descriptors a reader found overwritten
          delivered   \* messages handed to callbacks

writerVars == <<cursor, wpc, wcur, wleft, sent>>
readerVars == <<rpos, rpc, rgot, dropped, delivered>>
vars == <<cursor, seq, data, wpc, wcur, wleft, sent,
          rpos, rpc, rgot, dropped, delivered>>

Slots   == 0 .. SlotCount - 1
Blank   == -1                      \* content of a fresh, zero-filled segment
Stamp   == Nat \union {Blank}
Payload == [Words -> Stamp]

\* Mutant: the cursor is not reduced modulo the number of slots.
IndexUnwrapped(c) == c

\* The slot a cursor falls in, and the two values its seq takes.
Index(c)    == c % SlotCount
BeginSeq(c) == 2 * c + 1
EndSeq(c)   == BeginSeq(c) + 1

\* ShmDescriptor; id is the message the publisher means, which the real
\* descriptor does not carry.
Handle == [slot : Slots, seq : Nat, id : Nat]
\* Mutant: the descriptor carries the sequence number of the reservation.
HandleOfReserved(c) == [slot |-> Index(c), seq |-> BeginSeq(c), id |-> c]

HandleOf(c) == [slot |-> Index(c), seq |-> EndSeq(c), id |-> c]

Init ==
    /\ cursor = 0
    /\ seq  = [s \in Slots |-> 0]
    /\ data = [s \in Slots |-> [w \in Words |-> Blank]]
    /\ wpc   = [t \in Writers |-> "idle"]
    /\ wcur  = [t \in Writers |-> 0]
    /\ wleft = [t \in Writers |-> {}]
    /\ sent = << >>
    /\ rpos = [r \in Readers |-> 0]
    /\ rpc  = [r \in Readers |-> "idle"]
    /\ rgot = [r \in Readers |-> [w \in Words |-> Blank]]
    /\ dropped = {}
    /\ delivered = {}

-----------------------------------------------------------------------------
(* Publishing threads: reserveWrite in two steps (fetch_add, then the odd  *)
(* store), the serialization word by word, commitWrite, and the send of    *)
(* the descriptor under publisher_mutex_.                                  *)

Claim(t) ==
    /\ wpc[t] = "idle"
    /\ cursor < MaxWrites
    /\ wcur' = [wcur EXCEPT ![t] = cursor]
    /\ cursor' = cursor + 1
    /\ wpc' = [wpc EXCEPT ![t] = "claimed"]
    /\ UNCHANGED <<seq, data, wleft, sent>>
    /\ UNCHANGED readerVars

\* Mutant: the slot is not marked odd before it is overwritten.
MarkOddForgotten(t) ==
    /\ wpc[t] = "claimed"
    /\ wleft' = [wleft EXCEPT ![t] = Words]
    /\ wpc' = [wpc EXCEPT ![t] = "writing"]
    /\ UNCHANGED <<cursor, seq, data, wcur, sent>>
    /\ UNCHANGED readerVars

MarkOdd(t) ==
    /\ wpc[t] = "claimed"
    /\ seq' = [seq EXCEPT ![Index(wcur[t])] = BeginSeq(wcur[t])]
    /\ wleft' = [wleft EXCEPT ![t] = Words]
    /\ wpc' = [wpc EXCEPT ![t] = "writing"]
    /\ UNCHANGED <<cursor, data, wcur, sent>>
    /\ UNCHANGED readerVars

WriteWord(t, w) ==
    /\ wpc[t] = "writing"
    /\ w \in wleft[t]
    /\ data' = [data EXCEPT ![Index(wcur[t])][w] = wcur[t]]
    /\ wleft' = [wleft EXCEPT ![t] = @ \ {w}]
    /\ UNCHANGED <<cursor, seq, wpc, wcur, sent>>
    /\ UNCHANGED readerVars

\* SerializeToArray fails: the reservation is abandoned and the slot keeps
\* its odd seq (the message goes over TCP instead).
Abandon(t) ==
    /\ wpc[t] = "writing"
    /\ wpc' = [wpc EXCEPT ![t] = "idle"]
    /\ UNCHANGED <<cursor, seq, data, wcur, wleft, sent>>
    /\ UNCHANGED readerVars

\* Mutant: the commit stores begin_seq - 1, the even value below.
CommitBelow(t) ==
    /\ wpc[t] = "writing"
    /\ wleft[t] = {}
    /\ seq' = [seq EXCEPT ![Index(wcur[t])] = BeginSeq(wcur[t]) - 1]
    /\ wpc' = [wpc EXCEPT ![t] = "committed"]
    /\ UNCHANGED <<cursor, data, wcur, wleft, sent>>
    /\ UNCHANGED readerVars

Commit(t) ==
    /\ wpc[t] = "writing"
    /\ wleft[t] = {}
    /\ seq' = [seq EXCEPT ![Index(wcur[t])] = EndSeq(wcur[t])]
    /\ wpc' = [wpc EXCEPT ![t] = "committed"]
    /\ UNCHANGED <<cursor, data, wcur, wleft, sent>>
    /\ UNCHANGED readerVars

Send(t) ==
    /\ wpc[t] = "committed"
    /\ sent' = Append(sent, HandleOf(wcur[t]))
    /\ wpc' = [wpc EXCEPT ![t] = "idle"]
    /\ UNCHANGED <<cursor, seq, data, wcur, wleft>>
    /\ UNCHANGED readerVars

\* The socket refuses the descriptor: the slot is published, but nobody hears
\* of it (the message goes over TCP instead).
SendFails(t) ==
    /\ wpc[t] = "committed"
    /\ wpc' = [wpc EXCEPT ![t] = "idle"]
    /\ UNCHANGED <<cursor, seq, data, wcur, wleft, sent>>
    /\ UNCHANGED readerVars

-----------------------------------------------------------------------------
(* Dispatch threads: beginRead, the speculative parse, finishRead.         *)

\* The descriptor a reader is working on.
Current(r) == sent[rpos[r]]

\* A descriptor lost before the dispatch thread saw it: the high-water mark
\* of the socket or the limit of remote_message_queue_.
Skip(r) ==
    /\ rpc[r] = "idle"
    /\ rpos[r] < Len(sent)
    /\ rpos' = [rpos EXCEPT ![r] = @ + 1]
    /\ UNCHANGED <<seq, data, rpc, rgot, dropped, delivered>>
    /\ UNCHANGED writerVars

\* beginRead accepts the slot: an even seq, equal to the descriptor's.
Readable(h) == seq[h.slot] = h.seq /\ seq[h.slot] % 2 = 0

BeginRead(r) ==
    /\ rpc[r] = "idle"
    /\ rpos[r] < Len(sent)
    /\ rpos' = [rpos EXCEPT ![r] = @ + 1]
    /\ LET h == sent[rpos[r] + 1] IN
       IF Readable(h)
       THEN /\ rpc' = [rpc EXCEPT ![r] = "parsing"]
            /\ rgot' = [rgot EXCEPT ![r] = [w \in Words |-> Blank]]
            /\ UNCHANGED dropped
       ELSE /\ dropped' = dropped \union {h}
            /\ UNCHANGED <<rpc, rgot>>
    /\ UNCHANGED <<seq, data, delivered>>
    /\ UNCHANGED writerVars

ReadWord(r, w) ==
    /\ rpc[r] = "parsing"
    /\ rgot[r][w] = Blank
    /\ rgot' = [rgot EXCEPT ![r][w] = data[Current(r).slot][w]]
    /\ UNCHANGED <<seq, data, rpos, rpc, dropped, delivered>>
    /\ UNCHANGED writerVars

\* createMsg fails on what it reads, or no handler takes the message type: the
\* message is dropped without finishRead.
GiveUp(r) ==
    /\ rpc[r] = "parsing"
    /\ rpc' = [rpc EXCEPT ![r] = "idle"]
    /\ UNCHANGED <<seq, data, rpos, rgot, dropped, delivered>>
    /\ UNCHANGED writerVars

\* Mutant: the sequence number is not compared again after the parse.
FinishReadUnchecked(r) ==
    /\ rpc[r] = "parsing"
    /\ \A w \in Words : rgot[r][w] # Blank
    /\ rpc' = [rpc EXCEPT ![r] = "idle"]
    /\ delivered' = delivered \union
           {[reader |-> r, id |-> Current(r).id, msg |-> rgot[r]]}
    /\ UNCHANGED <<seq, data, rpos, rgot, dropped>>
    /\ UNCHANGED writerVars

FinishRead(r) ==
    /\ rpc[r] = "parsing"
    /\ \A w \in Words : rgot[r][w] # Blank
    /\ rpc' = [rpc EXCEPT ![r] = "idle"]
    /\ IF seq[Current(r).slot] = Current(r).seq
       THEN /\ delivered' = delivered \union
                   {[reader |-> r, id |-> Current(r).id, msg |-> rgot[r]]}
            /\ UNCHANGED dropped
       ELSE /\ dropped' = dropped \union {Current(r)}
            /\ UNCHANGED delivered
    /\ UNCHANGED <<seq, data, rpos, rgot>>
    /\ UNCHANGED writerVars

-----------------------------------------------------------------------------
WriterStep(t) ==
    \/ Claim(t)
    \/ MarkOdd(t)
    \/ \E w \in Words : WriteWord(t, w)
    \/ Abandon(t)
    \/ Commit(t)
    \/ Send(t)
    \/ SendFails(t)

ReaderStep(r) ==
    \/ Skip(r)
    \/ BeginRead(r)
    \/ \E w \in Words : ReadWord(r, w)
    \/ GiveUp(r)
    \/ FinishRead(r)

Next ==
    \/ \E t \in Writers : WriterStep(t)
    \/ \E r \in Readers : ReaderStep(r)

Spec == Init /\ [][Next]_vars

\* A thread owns its slot from reserveWrite to the end of commitWrite.
InFlight(t) == wpc[t] \in {"claimed", "writing"}

\* No thread reserves the slot another one still owns.  Nothing in the code
\* ensures it when several threads publish: it is what the ring relies on.
LapFree ==
    \A t, u \in Writers :
        InFlight(t) /\ InFlight(u) /\ t # u => Index(wcur[t]) # Index(wcur[u])

LapFreeSpec == Init /\ [][Next /\ LapFree']_vars

-----------------------------------------------------------------------------
TypeOK ==
    /\ cursor \in Nat
    /\ seq \in [Slots -> Nat]
    /\ data \in [Slots -> Payload]
    /\ wpc \in [Writers -> {"idle", "claimed", "writing", "committed"}]
    /\ wcur \in [Writers -> Nat]
    /\ wleft \in [Writers -> SUBSET Words]
    /\ sent \in Seq(Handle)
    /\ rpos \in [Readers -> Nat]
    /\ rpc \in [Readers -> {"idle", "parsing"}]
    /\ \A r \in Readers : /\ rpos[r] <= Len(sent)
                          /\ rpc[r] = "parsing" => rpos[r] >= 1
    /\ rgot \in [Readers -> Payload]
    /\ dropped \in SUBSET Handle
    /\ delivered \in SUBSET [reader : Readers, id : Nat, msg : Payload]

\* A callback never sees a torn payload, nor the payload of another message
\* than the descriptor announced: what finishRead accepted is, word for word,
\* what the publisher serialized for that descriptor (shm_ring.hpp:51-56 and
\* 132-139, architecture.md:103).
IntactDelivery ==
    \A d \in delivered : \A w \in Words : d.msg[w] = d.id

\* A message is lost to the ring only when it wrapped: a slot that a reader
\* finds overwritten was reserved again by a later write, one full turn of
\* the ring or more after the message (shm_ring.hpp:54-56).
DropsOnlyWrapped ==
    \A h \in dropped : cursor > h.id + SlotCount

\* The sequence number of a slot never goes back, so a reader that sees the
\* value of its descriptor twice saw no write in between (the premise of
\* finishRead).
SeqNeverGoesBack == [][\A s \in Slots : seq'[s] >= seq[s]]_vars

\* The inductive invariant behind IntactDelivery and DropsOnlyWrapped.

\* seq of a slot is 0 or belongs to the last cursor that marked it.
SlotSeq ==
    \A s \in Slots :
        \/ seq[s] = 0
        \/ \E c \in 0 .. cursor - 1 :
              Index(c) = s /\ seq[s] \in {BeginSeq(c), EndSeq(c)}

\* An even slot is settled: all its words are of one message, named by seq.
Settled ==
    \A s \in Slots :
        seq[s] % 2 = 0 => \A w \in Words : EndSeq(data[s][w]) = seq[s]

\* What a thread may rely on between reserveWrite and the send.
WriterOwns ==
    \A t \in Writers :
        /\ wpc[t] # "idle" => wcur[t] < cursor
        /\ wpc[t] = "claimed" => seq[Index(wcur[t])] < BeginSeq(wcur[t])
        /\ wpc[t] = "writing" =>
              /\ seq[Index(wcur[t])] = BeginSeq(wcur[t])
              /\ \A w \in Words \ wleft[t] : data[Index(wcur[t])][w] = wcur[t]
        /\ wpc[t] = "committed" => seq[Index(wcur[t])] >= EndSeq(wcur[t])

\* A descriptor names its message, and its slot holds it or a later one.
SentHandles ==
    \A i \in 1 .. Len(sent) :
        /\ sent[i] = HandleOf(sent[i].id)
        /\ sent[i].id < cursor
        /\ seq[sent[i].slot] >= sent[i].seq

\* A word parsed so far is of the announced message, or the slot moved on.
Parsing ==
    \A r \in Readers : rpc[r] = "parsing" =>
        \A w \in Words :
            \/ rgot[r][w] \in {Blank, Current(r).id}
            \/ seq[Current(r).slot] > Current(r).seq

\* A descriptor that was refused belongs to a slot that has moved on.
DroppedStale ==
    \A h \in dropped : h = HandleOf(h.id) /\ seq[h.slot] > h.seq

IInv ==
    /\ TypeOK
    /\ cursor <= MaxWrites
    /\ LapFree
    /\ SlotSeq
    /\ Settled
    /\ WriterOwns
    /\ SentHandles
    /\ Parsing
    /\ DroppedStale
    /\ IntactDelivery

\* What the callbacks see is what an atomic mailbox would show them.
Atomic == INSTANCE Mailbox WITH
    Message   <- 0 .. MaxWrites - 1,
    posted    <- {sent[i].id : i \in 1 .. Len(sent)},
    delivered <- {[reader |-> d.reader, msg |-> d.msg] : d \in delivered}

\* The ring implements the mailbox: every step is a post, a delivery of a
\* whole message that was posted, or invisible.
ImplementsMailbox == Atomic!Spec
=============================================================================
