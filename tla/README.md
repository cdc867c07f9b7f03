# rf-trans: a verification project

TLA+ models of rf-trans, a publish/subscribe and service library (C++17, ZeroMQ,
UDP multicast discovery, POSIX shared memory), the TLC runs that check them on
small instances, and TLAPS proofs for every value of the constants. The models
are translated from the code; where the code and the documents differ, the model
follows the code and the difference is a run that expects a violation.

## 1. The system

Each process has one `NodeShared`, shared by its `Node`s. It owns two
`Discovery` objects (messages and services), a `MessageRuntime` and a
`ServiceRuntime`.

| part | state | operations | what is hard |
|---|---|---|---|
| Discovery (`discovery.hpp`) | `known_publishers_`, `last_seen_by_process_`, two timers, a UDP socket | `advertise`, `unadvertise`, `discover`, `registerNode`, `unRegisterNode`; the discovery thread's `recvDiscoveryMsg`, `updateHeartbeat`, `updateActivity`; BYE in the destructor | application threads and the discovery thread release `mutex_` before they send or call back; datagrams are lost, late, repeated; processes crash, or are only taken for dead |
| Topic table (`topic_storage.hpp`) | topic to process to list of publishers | add (unless the key is there), delete by node or by process, look up | three tables of this type must stay in step |
| Message runtime, control (`message_runtime.cc`) | handlers, `remote_publishers_`, `remote_subscribers_`, `subscriber_commands_`, the SUB socket's connections and filters | `subscribe`, `unsubscribe`, four callbacks of Discovery, `applySubscriberCommands` | four kinds of threads; decisions made in one critical section and acted on in another |
| Message runtime, data | local and remote queues, dispatch threads | `publish`, `localDispatchLoop`, `receiveMessage`, `remoteDispatchLoop` | bounded queue that drops, handlers that change while a batch is dispatched |
| Shared-memory ring (`shm_ring.cc`) | write cursor; per slot a sequence number and a payload | `reserveWrite`, `commitWrite`, `beginRead`, `finishRead` | no lock: a sequence lock across processes, a ring that wraps under slow readers and slow writers |
| Shared-memory transport | `writer_rings_`, a cache of reader rings, segment names | `writerRingFor`, `readerRingFor`, `removeWriterRing`, the destructor's unlink | names that are reused while old mappings live |
| Service runtime (`service_runtime.cc`) | responders, pending requests, connections to responders | `request`, `sendPendingRequests`, `handleRequests`, `handleResponses` | late answers, timeouts, responders that leave |
| Handler storage | topic to node to handler | add, find, remove | empty entries left behind |
| Node, publisher, tools | subscribed and advertised topics, throttling | destructors, `waitForService`, printing | shutdown order |

Interactions. A publisher's `advertise` multicasts ADVERTISE; a subscriber's
discovery thread adds it and calls `onPublisherConnected`, which queues Connect
and Subscribe commands; the receive thread applies them to the SUB socket and
multicasts NEW_CONNECTION; the publisher's discovery thread adds the subscriber to
`remote_subscribers_`, and only then does publishing send anything. Data goes as a
ZeroMQ message, or, for `use_shm`, as a descriptor of a slot of a ring.

What makes each part correct:

* ring: a callback never sees a torn or a wrong payload; only wrapped messages are lost;
* discovery: every known publisher belongs to a process that would expire; scopes
  are respected; own publishers change only by own calls; offered publishers are found
  by everyone, withdrawn and dead ones are forgotten;
* runtime control: whoever has a handler and knows a publisher is connected and
  registered; subscribers that left are not sent to;
* data plane and transport: messages reach a subscriber in the order they were sent and each at most once; what
  it is given is what was sent (the code keeps this only until a ring is removed: `data_stale`); what it is
  not given was dropped for a cause that can be named; the shared-memory name leads to the ring that is
  written to; no choice of transport swallows a message;
* services: a request runs at most once, and what its requester is told is the result of
  that run, a timeout or a refusal; no responder is missed; a request that was sent is answered
  unless a process, the connection or the service went away.

`PROJECT.json` lists each component with its status, and each hazard with its line.

## 2. Modules

| module | models | builds on |
|---|---|---|
| `Mailbox` | what the shared-memory transport promises: whole messages or none | |
| `ShmRing` | `shm_ring.cc` as `publishRemoteShm` and `remoteDispatchLoop` drive it | refines `Mailbox` |
| `ShmRingProofs` | theorems about `ShmRing` | |
| `TopicStorage` | `topic_storage.hpp`: a table is the set of its entries | |
| `TopicTable` | what a table promises, as a state machine | `TopicStorage` |
| `TopicMaps` | `topic_storage.hpp`: the nested maps | `Maps`, refines `TopicTable` |
| `TopicMapsProofs` | theorems about `TopicMaps` | |
| `HandlerTable` | what a handler storage promises | |
| `HandlerMaps` | `handler_storage.hpp`, `handler_wrapper.cc`: the nested maps | `Maps`, refines `HandlerTable` |
| `HandlerMapsProofs` | theorems about `HandlerMaps` | |
| `Discovery` | `Discovery<MessagePublisherInfo>`, the network, crashes | `TopicStorage` |
| `DiscoveryProofs` | theorems about `Discovery` | |
| `MessageRuntime` | the control plane of `message_runtime.cc`, composed with `Discovery` | `Discovery` |
| `RuntimeProofs`, `RegistrationProofs` | theorems about `MessageRuntime` | |
| `Channel` | what a path between publishers and subscribers promises: order, no duplicates, losses only where allowed | |
| `DataPath` | `publish` to the handlers: queues, dispatch threads, choice of transport, and in `message_runtime.cc` and `shm_ring.cc` the tables and names of rings | refines `Channel`, twice |
| `DataPathProofs` | theorems about `DataPath` | |
| `RemoteCall` | what a service request promises: one run at most, its result or none | |
| `ServiceRuntime` | `service_runtime.cc` and `Node::request` | refines `RemoteCall` |
| `ServiceProofs` | theorems about `ServiceRuntime` | |
| `MC*` | constants for TLC | |

Operators whose comment starts with "Mutant" are not part of a model: they are
wrong forms of the definition that follows, and substituting one must break a property.

### ShmRing

`cursor`, `seq` and `data` are `write_cursor_`, `SlotHeader::seq` and the payloads.
A message is named by its cursor; a slot's payload maps each of the `Words` it is
copied in to the message the word was last written for, so that a torn read is
one that mixes names. `reserveWrite` is `Claim` (the `fetch_add`) and `MarkOdd` (the odd
store); the serialization is one `WriteWord` per word, in any order; `Abandon` is its
failure. `Commit` and `Send` follow; `SendFails` is a socket that refuses the descriptor, after which the slot is
given up. A reader's `BeginRead`, `ReadWord` and
`FinishRead` are the two loads of the sequence number around the speculative parse;
`Skip` loses a descriptor before it is read (high-water mark, full queue) and
`GiveUp` a message that cannot be parsed. Each reader takes the descriptors in the order sent,
as its one SUB socket and one dispatch thread do.

Memory model: steps are sequentially consistent. The accesses to `seq` are
`seq_cst`; the payload accesses are plain, so by the C++ standard the speculative
parse races with a writer. The models are of x86-64 (the platform of the repository's measurements, README.md:176), where a `seq_cst` store is a full
fence and loads are not reordered with loads, and there the outcomes are the
interleavings of the model, with one simplification: a word is copied in one piece. `slot->size`
is not a variable: the reader takes the size from its descriptor.
Sequence numbers are 64 bits wide and are taken as unbounded.

### TopicMaps and HandlerMaps

The models of the runtimes treat a `TopicStorage` as a set of publishers and a `HandlerStorage` as a set of
handlers. These two modules are the classes as they are built, maps of maps (`Maps` is `std::map`), with every
operation and every query, and they are shown to be those sets: each operation changes
the set and answers as the operation of that name on the set does (`ImplementsTopicTable`, `ImplementsHandlerTable`), and
each query agrees with the set (`QueriesAgree`, `HandlerQueriesAgree`). What the equivalence rests on is that no key is left behind without
entries. In `HandlerStorage` one is: `removeHandler` erases the topic from the inner map, where the outer one is
meant (handler_storage.hpp:184), and `hasTopic` and `getHandlers` go on finding the topic. `HollowOnlyBySingleRemoval` says
that nothing else does that. Only requests are removed so, and nobody asks for their topics; subscriptions and responders go by
`removeHandlersForNode`, so `have_local` and `hasService` are exact.

`addPublisher` compares address and node below the right topic and process; two publishers of one process in one table
have one address (`AddrOf`), so the key is topic, process and node, as `SameKey` has it. A vector is the set of its
elements: `addPublisher` never appends an equal one, and no query depends on their order, since `getPublisher` has one to find.

### Discovery

`status` is off, on (`enabled_`) or gone. `known` and `seen` are the two tables (activity
stamps are reduced to the set of processes that have one). A critical section of
`mutex_` is one step; what the thread does after releasing it is a queue of work
(`dwork`, `awork`) done one datagram or callback per step, in which steps of the other threads
interleave. One loop round of the discovery thread polls, beats, expires (`turn`).
`Multicast` lets any of the copies be lost, delayed or duplicated, within `MaxFaults`.
`Expire(p, quiet)` needs no clock: any set of peers may be quiet, but quiet peers
that still run are counted by `MaxSilence`, since a running process beats every second and is dropped
after three. `MaxFaults` and `MaxSilence` bound each kind of trouble, `MaxTrouble` both together.

One timing assumption is made: `Spaced`. It is no guard of the code and has no lines in the map. When the heartbeat comes due, what the
same process sent before is no longer in a socket (it may still be delayed by the network
as a fault). The heartbeat interval is 1 s and a datagram is read within a round of the
loop; without this, TLC would fill the sockets with heartbeats.
Application threads are unrestricted. The model does not bound how long a thread may
sit between its critical section and its sends.

What is left out: addresses (the address of a message endpoint is that of its process),
message types, the printing of the state, malformed datagrams, several network
interfaces. The service side uses the same template with another publisher type.

### MessageRuntime

`handlers` is `local_subscribers_`, by topic and node; `remotePubs`, `remoteSubs`, `commands` are
the members of those names; `connected` and `filter` are what the SUB socket was told
(ZeroMQ counts the filters it is given). `registering` is the rest of a Subscribe
command being applied: the handlers are tested first and the datagrams sent
afterwards, as in the code. Actions of Discovery are reused with the runtime's part conjoined;
`Unsubscribe` is new, in two steps (handlers and command, then the lookup).
A callback is one step; the handlers it reads and the queue it fills have
separate locks, but whatever it enqueues is tested again when it is applied.
The handlers of one node for one topic are one; handlers for a different message type
are left out.

### DataPath

One topic, a publishing process whose `Threads` publish at once, a subscriber in it and one in
another process on the same host. `pc` and `job` are where a publishing thread is and
with what: `Publish` is `MessageRuntime::publish` up to the test of the remote subscribers (the local handlers
are copied there, before anything is sent), then `UseRing`, `MakeRing`, `FailToMakeRing` and `FallBack` are the
outcomes of `writerRingFor`, `WriteSlot` the ring, `Send` the socket and `PublishLocal`
the return from `publishRemoteShm` and the push to the local queue. The error paths of the socket are `SendShmFails`
(the descriptor is refused, `publishRemoteShm` returns false and the message goes as a payload) and `SendFails`
(the payload is refused and `publish` returns false before the local handlers); a message that fails is taken to leave none
of its frames behind. `refused` counts descriptors and `lost` messages, and `MaxLost` bounds both together. `queue` and `batch`,
`localQueue` and `localBatch` are the two queues and what the dispatch threads swapped out of them.

Rings are numbered as they are made and never forgotten; `writerRing` is the entry of
`writer_rings_`, `named` the ring the shared-memory name stands for, `readerRing` the entry of
the subscriber's cache. A `shared_ptr` is modelled by who holds it: `HeldBut(t)` are the rings the
other threads hold, and the last holder's release is the destructor, which unlinks the *name*.
`crossed` is a history variable: the rings made while a publishing thread still held an older one.

`createAsWriter` is one step, although the subscriber holds none of the writer's locks and may open the name while the segment
is made. What it then finds is nothing, or a segment without its magic number; either way the message is dropped, and
`FailToOpen` allows that from the moment the name stands for another ring than the message's. A descriptor of the
ring itself exists only once the ring is whole. Left out is that reading a segment before `ftruncate` is a fault of the
operating system (SIGBUS) and not a failure the code handles.

Writing and reading a slot are single steps: their interleavings are what `ShmRing` is for, and
the two are joined by the descriptor (slot and sequence number). Sizes are in units of the
granularity the code rounds to. A reader whose mapping has smaller slots than the
descriptor says reads beyond its slot; the outcome is taken as anything (0). Registration of the
remote subscriber only ends here; how it comes about is `MessageRuntime`.

Left out: throttling (a clock), payloads that cannot be serialized or parsed, several topics in one
queue (a limit shared with other topics only drops more), remote subscribers on other hosts,
and what two subscribing processes share.

### ServiceRuntime

One variable per member: `connections`, `handlers` (`request_handlers_`), `sent` (handlers
with `requested_` set, and where they went), `result` and `available`. `pc`, `picked` and `waits` are the
thread of each request: `Node::request` finds a local responder (`RequestLocally`), else
`RefuseRequest` or `AddHandler`, `PickResponder`, `SendRequest`, and `ReadResult` or `TimeOut`. The places of a
message (`msgs`, field `at`) follow it through the socket, the receive thread, the queue, the batch of
the handle thread and the callback, and back. The order of messages in one queue is not kept, except
that a batch runs its requests before its responses.

Discovery is seen from the services' side only: `Learn`, `Unlearn`, `Expire`. A process taken
for dead reaches `onServiceDisconnected` without an address, so nothing is erased from
`connections`. `mutex_` is recursive and `onServiceConnected` holds it throughout, so it is one step.
`Unlearn` is the removal from the table of discovery and the callback in one step, where the code releases discovery's
mutex in between (discovery.hpp:603-612). The callback forgets a connection and nothing else: a send between the two goes over a
connection that a send after both makes again.
`link` and `route` stand for the ROUTER sockets: a message to a peer that is not connected is
refused with EHOSTUNREACH, and a reply to a routing identity of a connection that was
replaced is lost. `Nested` requests are those a callback makes from the handle thread.
`waits` are the synchronous requests; the others have a callback.
`MaxFaults` is one budget for services withdrawn, connections broken, leases lost, late datagrams
and processes stopped.

Left out: the payloads and the two ways to fail to parse one (both answer with a
failed result, as a failing callback does), `waitForService`.

## 3. Runs

| run | asks | bounds | result |
|---|---|---|---|
| `ring_lapfree` | two publishing threads that never own one slot together: intact delivery, losses only by wrapping, monotone sequence numbers, the inductive invariant, refinement of `Mailbox` | 2 slots, 4 writes, 2 words, 1 reader | holds, 0.3 M states |
| `ring_lapped` | two publishing threads, unrestricted: intact delivery | 4 slots, 5 writes | **violated** |
| `discovery_live` | leases; offered becomes known, gone is forgotten | 2 processes, 2 calls, 1 fault or false expiry, 1 exit or crash | holds, 0.1 M states |
| `discovery_withdraw` | withdrawn is forgotten | 2 calls, no faults | **violated** |
| `runtime_reliable` | registrations are conserved, subscribers end up registered | 1 publisher, 1 subscriber, 3 calls in any order, no faults | holds, 0.1 M states |
| `runtime_faulty` | no publisher is missed, subscribers have leases; registrations are conserved until the first fault; scopes, ownership | 2 hosts, 3 scopes, 2 calls, 1 fault or false expiry, 1 process that starts during the run, 1 exit or crash | holds, 2.2 M states |
| `runtime_silence` | reconnection after a false expiry | 2 calls, 1 false expiry | **violated** |
| `data_path` | order, genuine messages unless the mapping is stale, explained drops, the name of the ring | 2 threads, 3 messages of 2 sizes, 2 slots, queues of 2, 1 unadvertise, 1 message dropped or refused by the socket | holds, 3.8 M states |
| `data_stale` | genuine messages | 1 thread, 2 messages, 1 unadvertise, no loss | **violated** |
| `service_calls` | refinement of `RemoteCall`, no missed responder, requests conserved and answered | 2 processes, 2 services, 2 requests, 1 of them from a callback, 1 fault | holds, 0.2 M states |
| `storage` | the nested maps of publishers and of handlers are sets | 2 topics, 2 processes, 2 nodes, 2 types, 2 handlers, any number of operations | holds, 14 k states |
| `runtime_unlisted` | an unsubscribed node is no longer registered | 3 calls, no faults | **violated** |

Why the bounds are enough to be interesting: with 2 slots and 4 writes the ring wraps
twice and a slot is reused while its old descriptor is unread, being read, and
between the two loads of the sequence number. One reader is enough: readers share nothing, and no
property relates two. A single publishing thread is a special case of `ring_lapfree` (`SingleWriterLapFree`, section 5). Two calls let a topic be advertised and
withdrawn, or advertised while it is being subscribed to, at every point of the other
threads' work; three let a subscriber leave and come back, but only while nobody advertises: with a publisher to
come back to it takes four calls, which TLC does not finish, and what `RegistrationConserved` says of an END_CONNECTION
that is still under way then rests on the theorem (section 5). One fault or false expiry is enough for
each loss and each overtaking of a datagram on its own, with a crash on top of it; that they together do no more harm to
safety is what the theorems say, which have no bound.

`Discovery` alone is checked in `discovery_live`, on one host, leases and both liveness properties. Its
other safety properties are checked in `runtime_faulty`, over the same actions composed with the runtime, with two
hosts, every scope, faults, false expiries and an exit. `ring_lapfree` checks the inductive invariant of its proofs because it says
something of the code that no other property does; that of `DiscoveryProofs` is the properties checked anyway and a typing.

In `data_path` two slots and three messages lap the ring under an unread descriptor;
the second size makes a message that does not fit the ring the first one made, which may be of slots of size zero; one unadvertise with
two threads gives an old ring that is held while a new one is made, and a reader left with
the old mapping; a queue of two overflows with the third message. In `service_calls` the
service `sum` is advertised during the run, so a request can come before, between and after the steps of
its discovery; the second request may be made by an application thread or inside the callback of the
first; one fault is each of the five kinds at every point.

`storage` needs no bound on the number of operations; with two of each key, each removal can be the last
of its list, of its topic, or neither. The two tables share nothing, so the run (`MCStorage`) explores the sequences of operations on
each and not their product.

Symmetry is used in `ring_lapped` and in `data_path`, of the publishing threads. `data_path` checks two
refinements, but of specifications without fairness: safety, for which permuting the threads is
sound since `Channel` does not mention them. Deadlock checking is on in `storage` and off in all other
runs: API calls and faults are bounded, so behaviours end.

What the violations show:

* `ring_lapped`: thread A reserves slot 0 and stalls; thread B writes one full turn and
  reserves slot 0 again; A and B write into one slot and the commit of one of them makes a
  mixed payload readable. `publishRemoteShm` reserves and serializes outside
  `publisher_mutex_`. It takes two threads publishing on one topic and a stall of a whole turn of the ring: 4
  messages, since the run has the 4 slots of `kDefaultSlotCount`.
* `data_stale`: message 1 is written to a ring and its descriptor sent; `unadvertise` removes the ring; message 2
  makes another ring under the same name and is written to the same slot under the same sequence number; only
  then the subscriber looks at message 1's descriptor, opens the name, and is given the content of message 2 (twice, with
  message 2's own descriptor). If it had opened the first ring before, that mapping is kept for its name for good (message_runtime.cc:267)
  and message 2 is read in it: message 1 is delivered again, or it is dropped as overwritten, or, when the
  old slots are smaller, bytes beyond the slot are parsed. The sequence check that is to catch a slot that no longer
  belongs to a descriptor compares numbers that start anew with each ring. `GenuineUnlessStale` and `DropExplained`, which hold,
  say that it takes a removed ring and a reader with another ring of that name open.
* `discovery_withdraw`: the heartbeat copies the own publishers, then another thread
  withdraws one and sends UNADVERTISE, then the heartbeat sends its ADVERTISE. The peer
  keeps the publisher as long as the process beats. The answer to a SUBSCRIBE has the same shape.
* `runtime_silence`: NEW_CONNECTION is sent when a publisher becomes known, and never
  again while it stays known. If only the publisher drops the subscriber, heartbeats do
  not repair it.
* `runtime_unlisted`: the receive thread has found a handler and is about to send the
  registration when another thread unsubscribes and sends END_CONNECTION first.

## 4. Fairness

`LiveSpec` and `LiveRuntime` assume weak fairness of work that was started: a thread that has left a
critical section goes on; a non-empty socket is read; delayed datagrams arrive; the
receive thread returns to its commands every 250 ms. Strong fairness of
`Beat` and of the expiry of gone processes stands for the two timers, which come due again
and again and are looked at in every round of the loop, so a busy socket cannot keep them
from their turn. In the runtime the same holds of `Receive`, disabled while callbacks of the
same thread run. `LiveSpec` of `ServiceRuntime` assumes weak fairness of each handle thread, of the thread of
each request once it has entered `request`, and of receiving what is on the wire; nothing of
discovery, of connections being made, or of calls. That suffices because `SentIsAnswered` speaks of
requests that a socket took. It takes for granted that service callbacks return. No fairness is assumed of API calls, starts, exits, crashes, faults
or false expiries.

## 5. Proofs

`ShmRingProofs`, for any number of threads, readers, slots, words and writes:

* `TypeCorrect`: `Spec => []TypeOK`.
* `LapFreeInvariant`: `LapFreeSpec => []IInv`. `IntactDelivery` is not inductive: that the second
  load of `seq` suffices depends on what the writers did in between. `IInv` adds: a slot's
  sequence number is that of a cursor of this slot (`SlotSeq`); an even slot holds one message
  (`Settled`); a writer in flight owns its slot (`WriterOwns`); a slot named by a descriptor holds its message
  or a later one (`SentHandles`); a word parsed so far is the announced one or the slot has moved
  on (`Parsing`). The arithmetic fact below it is `SameSlotWholeTurn`: two cursors of one
  slot are a whole turn apart.
* `LapFreeIntact`, `LapFreeDrops`, `LapFreeSeqGrows`: the three safety properties of `ring_lapfree`.
* `LapFreeMailbox`: the ring implements `Mailbox`, from the same invariant.
* `SingleWriterLapFree`: with at most one publishing thread, every behaviour of `Spec` is one of
  `LapFreeSpec`, so the theorems above hold of the code without assumption.

`LapFree` is an assumption on the threads, not a property of the code: `ring_lapped` shows
it fail. The theorems say that it is the only thing missing.

`DiscoveryProofs`, for any finite set of processes, any hosts, nodes, topics and any
number of calls, faults, false expiries and exits:

* `Invariant`: `Spec => []IInv`, where `IInv` adds `Traffic` to the properties: a datagram in a
  socket or in the network is another process's, and a thread sends only datagrams of its own
  process. Without it an expiry of oneself or a foreign UNADVERTISE of one's own publisher could not be
  excluded.
* `TypeCorrect`, `EntriesHaveLeases`, `NoLeaseOnItself`, `ScopesHold`: its parts.
* `OwnerDecides`: the action property `OwnOnlyByApi`.

`RuntimeProofs`, for any processes, nodes, topics, calls, faults, exits and crashes: the three
invariants of `runtime_faulty` (`RuntimeTypesCorrect`, `LeasedSubscribers`, `NoPublisherMissed`), from the inductive
`RuntimeInv` (`RuntimeInvariant`). It contains `IInv` of Discovery: a behaviour of the runtime is not one of `Discovery`,
which has no unsubscribing, no registering by the receive thread and no END_CONNECTION, so
`IInv` is proved again over the runtime's steps, from the lemmas of `DiscoveryProofs`. It adds:

* `RegistersOwn`: the receive thread sends only registrations of its own process, as `Traffic` demands.
* `RegistersSeen`: a registration waiting for its callback is of a process with a lease. The
  discovery thread gives the lease and makes the callback, and never drops leases in between.
* `PublishersConnected`: a process with an entry in `remote_publishers_` is connected or its Connect
  command is queued, although only the first of its publishers enqueues one. `NoMissedPublisher`
  is not inductive without it: a second publisher would have no command of its own.

`RegistrationProofs`, under the same assumptions: `RegistrationsConserved`. While no datagram has
been lost, delayed or duplicated and nobody has been taken for dead (`Undisturbed`, a condition on the
state, not on the constants), a subscriber that knows a running publisher and is done connecting it is
`Registered` there: it is entered and no END_CONNECTION of an earlier subscription is behind that, or the last
word on its way, as a command, a registration of the receive thread or a datagram, is a NEW_CONNECTION. The
inductive invariant is `RuntimeInv /\ ReliableInv`. `ReliableInv` adds:

* `delayed = {}`: an undisturbed multicast puts one copy into each socket at once (`MulticastWhole`), so
  two datagrams to one process arrive in the order they were sent.
* `Started`: who is known or heard of has been started, and a process that is not running knows nobody. Without
  it a publisher could be known that was not there to receive the registration.
* `Farewells`: only processes that are gone say BYE or are dropped, so that no running publisher drops a subscriber.
* `Sending`: an END_CONNECTION is made by the thread of the node that unsubscribed, and while that thread has it to
  send (or has yet to look up whom to send it to) the node has no handler for the topic. Subscribing again puts the handler
  back, and the same thread can do so only after its datagram is in the socket; the NEW_CONNECTION of the new subscription
  then comes later, by whichever thread.

A step is argued about by what it does to the places a registration can be in: datagrams only appended
(`NetworkStep`), one read (`MailStep`), work of the discovery thread done (`DworkStep`), commands queued or applied
(`CommandsStep`), and, last, entries that newly become due (`DueStep`) or whose publisher
changes (`RegisteredStep`). What `ring_lapped` is to `LapFree`, `runtime_silence` and `runtime_unlisted` are to these theorems:
a false expiry loses a registration, and the other direction (unsubscribed, so unlisted) fails without any fault.

`DataPathProofs`, for any finite set of threads, any sizes, slots, limits, and any number of
messages, removals and losses: all seven properties of `data_path` (`TypesAreCorrect`, `RemoteOrder`,
`LocalOrder`, `WriterRingIsNamed`, `MessagesAreGenuine`, `DropsAreExplained`, `NothingIsSwallowed`). `Genuine` itself is no
theorem: `data_stale` refutes it. Its theorem and that of the drops say that until the first
`unadvertise` every message is genuine and every drop is one of a full queue, a missing handler or a lapped slot, and
afterwards only a subscriber with another ring of that name open makes an exception.
The invariant adds to them:

* `InRing`: the slot a descriptor names still holds its message, or the ring was lapped
  since, and then holds a later sequence number. This is what makes equal sequence numbers mean equal
  messages, and a different one a lapped ring. It has to hold of threads about to send and of every descriptor in
  the socket, the queue and the batch (`AllInRing`), and needs `WholeTurn`: cursors of one slot are
  whole turns apart.
* `JobsInRing`: a thread that writes has a ring its message fits; others have none.
* `HeldRings`: while the ring in use was not made over a held one, all who hold a
  ring hold that one. Without it a release could unlink the name in use.
* `Numbered` and `LocalNumbered`: wire, queue and batch hold consecutive parts of what was
  sent, the oldest in front; both refinements and the queue's share of `DropExplained` follow.
* `FirstRing`: until a ring is removed there is at most one, it is the one in use, and no thread held an older one
  when it was made. With `HeldRings` this is why the reader then can have no other.
* `HeardFrom` and `DroppedFrom`: what was delivered or dropped last came by a ring, and then the reader has one.

`ServiceProofs`, for any processes, services, requests and callers, any number of faults: every safety
property of `service_calls` (`TypeCorrect`, `NoResponderMissed`, `RequestsAreConserved`,
`NestedRequestsTimeOut`, and `CallsAreRemoteCalls`, the refinement of `RemoteCall`). `NoMissedResponder` is
inductive; the others need:

* `Calls`: what the place of a requesting thread says of its request (before it added a handler nothing was
  sent, run or told; a handler not yet sent has not run; a result that is stored is that of the run).
* `Mail`: there is one message of a request, and its place says whether the service has run
  and whether the requester can have been told. At most one run and one answer follow, which neither
  the requester nor the service tests for.
* `Nestings` and `Untold`: while a callback waits for a nested request, the answer is not available, since
  only the waiting thread could make it so.
* `Offered` and `Connected`: a request was sent to someone who had announced the service, over a
  connection that stands or has been broken since. They turn a dropped request or reply into a cause.

`TopicMapsProofs` and `HandlerMapsProofs`, for any topics, processes, nodes, handlers, types and addresses: every property
of `storage`. `WellFormed` and `HandlersWellFormed` are inductive by themselves. The proofs for publishers go by what `Stands` where in the maps:
each operation is characterised once by what it adds to that or takes from it, and the set of entries, the shape and the queries
follow from the characterisation.

Assumptions: the named ASSUMEs of the modules (`SlotCountAssumption`, `GenericAssumption`, `HandlersAssumption`,
`MaxWritesAssumption`, `ProcessesAssumption`, `ThreadsAssumption`, `InputsAssumption`, `BoundsAssumption`), which TLC evaluates in the runs.

Only model-checked: everything temporal beyond `[]` and the refinements: the liveness properties
`OfferedBecomesKnown`, `GoneIsForgotten`, `Reconnects` and `SentIsAnswered` (liveness under fairness and ENABLED are
out of the prover's reach). Every safety property of a passing run is the
statement of a theorem. `OwnOnlyByApi` is proved of the specification of `Discovery` and model-checked over that of the runtime.

## 6. Not modelled

* The vendored logging library, `net_utils.hpp`, printing, argument parsing (`rf_trans.cc`) and
  generated protobuf code hold no state of the protocol.
* `topic_sniffer` and `discovery_observer` observe the protocol only. The sniffer shares one SUB socket between
  the discovery callback and its receiving loop, which is undefined behaviour of ZeroMQ; a model would have
  to invent what the library then does. It is listed as a hazard.
* Throttling in `publisher.cc`: a clock that decides whether `publish` is called at all.
* Payloads that fail to serialize or to parse, in the data path and in services: they end like a
  dropped message and like a failed result.
* `waitForService`: polls the discovery table in a loop; it changes nothing.
* The order in which `NodeShared` builds and stops its parts: `Exit` models its outcome
  (threads joined, then BYE), not the constructors.
* Discovery of services is the template proved in `DiscoveryProofs` with another type of publisher;
  `ServiceRuntime` sees it from its callbacks and is not composed with it.

## 7. Plan

Written: everything in section 2. What is left, in order of worth:

1. The composition of `MessageRuntime` and `DataPath`: registration that comes and goes while threads
   publish, several topics in one queue.
2. The order in which `NodeShared` starts and stops its threads.
