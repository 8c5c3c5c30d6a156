# A TLA+ model of the peer-to-peer key-value store

The program is a Chord-like distributed hash table in C: every process
(`src/src/peer.c`) knows its id, one next and one previous peer, and keeps the
keys whose 16-bit hash lies between the previous peer's id and its own.  Clients
(`src/src/client.c`) connect to any peer.  A peer answers a request itself, or
passes it to its next peer and the answer back, or (by design, not in effect)
looks the responsible peer up around the ring.

Paths below are relative to `src/src/`.

## Inventory

| part | source | state | operations |
|---|---|---|---|
| peer process | `peer.c` | `peer_info` (this, next, prev, join), where its one thread is | start, join, the accept loop, `receive_handler`: finger, fack, join, notify, stabilize, reply, lookup, client request |
| network layer | `generic/network.c` | listening socket, its backlog, open connections | `setup_as_server`, `setup_as_client`, `get_new_connection`, `receive`, `direct_receive`, `redirect`, `direct_send`; `join`, `notify`, `stabilize`, `buildfinger` build and send messages |
| peer protocol | `generic/data_helper.c` | none | encode, decode, `send_found_lookup`, `id_is_between` |
| client protocol | `generic/data_helper.c` | none | encode, decode |
| id arithmetic | `helper/max/extended_math.h` | none | `in_range` |
| hash table | `generic/hash_helper.c` on `libraries/uthash.h` | one table per process | `set`, `get`, `delete_element`, `get_hash_value` |
| request queue | `helper/wulkanat/queue.h` | two queues in `peer.c` | append, pop, peek, is_empty |
| client | `client.c` | one request | connect, send, wait for one answer |
| finger table | `data_helper.c`, `network.c` | `raw_fingers`, `next_finger` | `buildfinger`, `check_chord_rules` (not called) |
| stabilizer | `helper/max/concurrent_task.c` | a control block | a thread `main` no longer starts (`peer.c:297`) |
| old server | `server.c` | | not built, does not compile |
| tests | `../test/sr.py`, `../test/services/` | | sends prepared messages to one real peer and compares what comes back |

How they interact: peers send each other one message per TCP connection and
never look at whether it arrived; a client's request and its answers share one
connection; a peer that relays opens a connection of its own to the next peer
and blocks in `redirect` until something comes back.  There are no threads
inside a process: everything hard comes from processes interleaving, from what
waits in backlogs meanwhile, and from processes that die.

What is hard, with its lines, is the list `hazards` of `PROJECT.json`.  What
makes each part correct:

* **peer process**: never dereferences a neighbour it does not have; neighbours
  of different peers agree when joining is over; blocked peers never wait for
  each other in a circle; a request is relayed at most once.
* **network layer**: the accept loop can accept again; a caller of
  `direct_receive` gets what was sent, in order and complete; a relaying peer
  is not kept waiting by a client that has gone.
* **protocols**: what is decoded is what was encoded; a peer's message is never
  taken for a request; the id of a key depends on all of the key and on nothing
  else.
* **id arithmetic**: covers the Chord interval, and the intervals of different
  peers do not overlap.
* **hash table**: a table, also when a key is missing and while the messages
  its keys lie in come and go.
* **the system**: on a settled ring clients see one table, and requests in reach
  are answered.

## Modules

| module | what it models |
|---|---|
| `IdRange` | `in_range` and the Chord interval it stands for |
| `PeerProtocol` | messages as the handler tells them apart: the set of flags, the hashId, the peer named; the precedence of the flags; the fields left unassigned by `join`, `notify` and `stabilize`, as a choice |
| `HashTable` | `hash_helper.c` as a function from keys to values; `Deletable` says where `delete_element` has a result |
| `HashHelper` | `hash_helper.c` on what it uses of `uthash.h`: buckets, chains, the list, expansion, freeing |
| `Peer` | the processes: all of `peer.c`, the sockets of `network.c`, the clients |
| `PeerRing` | what a ring without faults of the protocol's own is (`RingAssumption`), and the state it settles in |
| `KeyValueService` | the abstract service: one table, each request applied in one step, at most once |
| `ClientCodec` | the client protocol in bytes: header bits, lengths and their widths, `client.c`'s command line |
| `Exchange` | one request and its answer over byte streams: `direct_receive` with its nested calls, `receive`, `redirect`, the request handler, `client.c` |
| `HashJen` | `HASH_JEN` of `uthash.h`, on words of 32 bits; the operator `^` on halves of a word is the constant `Xor16` |
| `PeerCodec` | one message of peers at a time, in bytes, on a settled ring: encode, decode, redirect, the answer to a lookup |
| `Resources` | what one process takes: descriptors, blocks of messages, those that a moved `realloc` frees, and the key pointers of the hash table into all of them |
| `PeerMC`, `PeerRingMC`, `HashHelperMC`, `ExchangeMC`, `PeerCodecMC` | constants for TLC |
| `PeerProofs`, `RingProofs`, `ServiceProofs`, `IdRangeProofs`, `HashHelperProofs`, `ExchangeProofs`, `PeerCodecProofs`, `ResourcesProofs` | theorems and proofs |

`Peer` EXTENDS `PeerProtocol` (which EXTENDS `IdRange`) and `HashTable`, and
instantiates `KeyValueService` for the refinement.  `HashHelper` EXTENDS
`HashTable`, whose operators are what its actions must amount to.  `Exchange`
EXTENDS `ClientCodec`.  `PeerCodec` EXTENDS `HashJen` and `IdRange` and instantiates
`PeerProtocol`, so that the bytes are compared with the very records `Peer`
moves.

`Peer` is the whole: every process, every message, every order.  The other
state machines each look into one thing `Peer` takes as a whole: `Exchange`
into one connection and its relay, `PeerCodec` into one message, `HashHelper`
and `Resources` into one process.

### Peer: state

`proc[p]` is where the thread is: *down*, *starting* (listening, before the
loop), *accept* (in `get_new_connection`), *recv* (in `direct_receive` or the
handler), *relay* (in `redirect`), *crashed*.  `listening` and `backlog` are the
listening socket, `serving` the accepted connection, `next` and `prev` the
pointers of `peer_info` (`NULL` when not yet calloc'ed), `store` the table.  A
connection carries either one message of a peer or the request of a requester,
a client or a relaying peer; `asked`, `inbound` and `reset` describe the
requester's end: the request sent, the answers that have arrived, and whether
the other side has gone.  `cstate` is the client process.

A handler is one action: between `recv` and the return to `accept` a process
touches only its own memory and sends.  `redirect` is the one place where it
waits, and there the handler is cut in two (`RelayRequest`, then `RelayAnswer`
or `RelayReset`).  Accepting is separate from receiving, because the client may
send late or not at all.

| code | action |
|---|---|
| `setup_as_server` in a fresh process | `Listen` (also after a crash, for the peers in `Restartable`) |
| `main` up to the loop | `Enter` |
| `get_new_connection` | `get_new_connection` |
| `direct_receive` returning 0 bytes | `ReceiveEOF` |
| finger, fack, no flag | `HandleIgnored` |
| join, `peer.c:135` and `:149-162` | `HandleFirstJoin`, `HandleJoin` |
| notify, stabilize, lookup | `HandleNotify`, `HandleStabilize`, `HandleLookup` |
| reply, and every NULL dereference on a message | `HandleMessageFault` |
| request, `peer.c:228-231` | `respond_as_responsible_peer`, `HandleRequestFault`, `HandleBrokenPipe` |
| request, `peer.c:232-240` | `RelayRequest`, `RelayUnreachable`, then `RelayAnswer`, `RelayReset` |
| request, `peer.c:241-254` | `HandleUnknownResponsible` |
| `client.c` | `ClientConnect`, `ClientSend`, `ClientAbort` |
| other implementations, `sr.py` | `Inject` |

A crash closes what the process had: its backlog is dropped and the requesters
of the queued and the served connections see `reset`.

### Exchange: state

A *receiver* is one call of `direct_receive`: the one of the asked peer's
`receive`, of the next peer's, of the asked peer's `redirect` and of the
client.  `stream` holds the bytes on their way to it, `held` what is in the full
buffers of the calls that are waiting for a nested one, outermost first (`Depth`
is their number, as each holds `BUFFER_SIZE` bytes), `moved` which of the calls
had their block moved by `realloc`, `given` the bytes its caller found in the end.
`state` says whether it is receiving, has *called* its caller back, or is lost:
*crashed*; *reset*, when `recv` returned -1, which the caller is given as a
length; *strayed*, when the request was forgotten, or has the control bit or the
bits of several operations, which no client sends but freed bytes may show.

`Receive` is one `recv`: a full buffer nests, a shorter one unwinds all calls
at once (`Unwind`) and then does what the caller does.  Any of the growing
`realloc`s may move its block, as its result is not assigned.  The callers still
copy from and hand on the freed one, so that from the first freed block on the
caller finds what is there by then (`Found`): the old bytes, some of them, or
others; the bytes before are `Intact`.  It may also die of it, by freeing a block
twice or reading beyond it.  The caller then works with what it found: a peer
hashes `key_length` bytes, stores `value_length` of them, a client prints
that many, and where the message is shorter each may die of reading
beyond it (`OverReads`, `ClientFaults`) or go on with what lies there.
`ReceiveClosed` and `ReceiveReset` are `recv`'s 0 and -1.

### PeerCodec: state

`wire` is the message under way, `at` the peer it is for, `data` the decoded
struct while it is handled; `origin` remembers what the message was built for,
to compare with.  An integer is the sequence of its bytes in the memory of a
little-endian host; the header byte, and a flag member that is combined into it,
is the set of its bits.  Lookups come from outside (`Lookup`), with the id of a key
computed by `HashJen`: no code that runs sends one.

### Resources: state

`fds` are the open descriptors with what they are for.  `heap` says what key lies
in each block that has held a message, `live` which of them are allocated, `rec`
is the block of the message at hand.  A message shorter than `BUFFER_SIZE` stays in
the block it was received in; the block of a longer one is freed when `realloc`
moves it (`network.c:191`), and the handler reads it all the same.  A block that is
free and pointed to may get other contents with any allocation (`Overwrites`).
`elements` is the hash table: the key an element was hashed by, the block `hh.key`
points into, and, for the properties, whether that block was allocated when the
element was made (`held`).

### The listening socket

`get_new_connection` closes the listening socket after every accept
(`network.c:175`), so the loop of `main` can serve a single connection.
`CloseListener` chooses between the code as it is (`TRUE`) and the same code
without that one call (`FALSE`).  Everything about rings and relays needs the
second, or it would be about a program that cannot get there; the runs
`accept_again` and `notify_joiner` are about the first, and two theorems on what it
leaves of the system: no client is answered (`AsBuiltNothingAnswered`), no peer
has two different neighbours (`AsBuiltOneNeighbour`).  The theorems about messages, relaying and types
hold for both.

## Runs

| run | specification | shows |
|---|---|---|
| `formation` | `Spec`, three peers, each told to join the next | `RingFormed`: once every peer has handled a join and no message is left, `next` and `prev` of all peers agree, whatever two clients ask meanwhile |
| `protocol` | `Spec`, two peers, one restarted after crashes, two foreign messages of any kind, dirty leftovers | `TypeOK`; `LinkedPeerSurvives`: with a next peer, only a reply message kills the handler through a missing neighbour |
| `service` | `FairSettledSpec`, three peers, two clients, keys at home, next door, on an id and past the largest | `ServesOneTable`: refinement of `KeyValueService`; `NearRequestAnswered`: requests within one hop are answered; `NoWaitCycle`, `SingleHop` |
| `hash_helper` | `HashHelper`'s `Spec`, eight keys, at most six stored | `ActsOnTable`: every step does to what `get` returns what `HashTable` does; `Consistent`: what uthash's own debugging check asserts; `ChainsBounded`: what its comment on `expand_mult` promises |
| `exchange` | one request of each of 18 command lines, to a peer that answers, relays or forgets it | `GivenAsSent`: a caller gets no more than was sent, and finds what was sent in every block still allocated; `BlocksAtMultiple`: only a message that fills its buffers exactly leaves a receive waiting; `HarmlessSurvives`: a request that fits into a buffer with its answer kills nobody; `Understood`: the table changes and the answer reads as the command line asks; `ExchangeEnds`, `PeerFreed`: the client gets its answer, and a dead client frees the peer, its receive and its redirect |
| `peer_codec` | every message of three peers; lookups for boundary ids and 51 keys of 0 to 25 bytes | `ReadsAsSent`, `FoundLookup`: messages read as the records of `PeerProtocol`; `TakenForPeer`; `InteriorOnly`: which ids an interval has; `ReadsKeyOnly`, `EveryByteCounts`: what the id of a key depends on; `TestedBytes`: the bytes the full-cycle test expects; `LookupAnswered`, `StraysCirculate`: what becomes of lookups |
| `resources` | one process, two keys, seven descriptors | `KeysStable`: a key that came in an allocated block keeps its bytes; `HeldOnce`: such a key has one such element; `GoesDeaf`: in the end nothing more is accepted |
| `accept_again` | violation | the loop's second accept waits on a closed socket, against `network.h:75-81` |
| `notify_joiner` | violation | a notify kills the joiner it is sent to, against `peer.c:156` and `:165` |
| `full_cycle` | violation | a request two hops away is forgotten, against `test/services/peer_client_full_cycle.service` |
| `delete_absent` | violation | DELETE of an absent key kills the peer, against `hash_helper.h:38` |
| `full_retrieval` | violation | a message that arrives in two parts is handed on in part, against `network.h:70` |

### Bounds, and why they are enough

* **Three peers** are the smallest ring in which next, previous and "unknown"
  peer differ.  `protocol` uses two: the handler's branches depend on which of
  its two neighbours are set and whether an id matches, and two peers with
  injected messages reach all combinations.
* **Ids** 10, 20, 30; **hashes** 15 and 25 (inside the two intervals that do not
  wrap), 20 (on an id) and 40 (past the largest id).  Only comparisons with ids
  matter, so these stand for all positions; `IdRangeProofs` covers the numbers.
* **Two clients** with one request each: enough for a read or a second write
  between the two halves of a relayed one.
* **One value** in the runs, and `NULL` for none: `GET` tells apart only present
  and absent keys there.
* `MaxInject` bounds the foreign messages (2), `Backlog` the connections queued
  per peer, for which the code asks the kernel for 10.  The runs on a ring without
  faults have 7: one for each of the five requesters (three peers that may relay,
  two clients), one for a join and one for a notify, which is what `RingForms`
  assumes and uses.  With 2 a notify can be lost, and then `RingFormed` fails, as
  the code has no retry.
* `StackFlags` and `StackIds` are the leftovers in unassigned fields: none in
  the runs about rings, a reply flag or a finger with a lookup flag in
  `protocol`.  `formation` is run without leftovers: with a
  random flag in it, a join or notify may be dispatched as something else, and
  no ring needs to come about.
* The backlog of `protocol` is 2, so that messages are refused and lost there.
* `exchange`: `Radix` 2 and buffers of 10 bytes stand for 256 and 65535, so that
  a header of 7 bytes with a short key fits one buffer, fills it, or takes two or
  three with its value, and a key of four bytes or more overflows its 16-bit length.
  What lies behind a message, and in a freed block that was used again, is one
  unknown byte, repeated; of a freed block the first buffer may be left as it was.
  `StackAbove` (11) stands for the bytes between the `Response` of `receive` and
  the end of the stack, shorter and longer than a forgotten request.  `Splits`
  chooses whether `recv` may return less than has arrived; the properties that
  need it to return all of it say so (`~ split`).
* `formation`: `JoinAt` is a bijection, so that every peer handles one join, its
  first, and no join is forwarded or moves a `prev`.  Those branches are in
  `protocol`, with joins from outside.
* `peer_codec`: ids and ports of the tests, whose bytes all differ;
  `BoundaryIds` are the ends of the 16-bit range and of an interval; keys of
  every length up to `MaxLength`, two blocks of `HASH_JEN` and a byte; `Behind`,
  three contents of the memory behind a key.  The ring is constant: how rings
  change is `Peer`'s part.
* `resources`: `Limit` 7 leaves four descriptors besides the standard ones,
  one of which listens: three messages and so three blocks, as many as it takes to
  set a key from a freed block, use that block again, and set the key once more;
  one of two keys in each.
* `hash_helper` starts with 1 bucket where the code has 32 and expands at chains
  of 2 where it has 10, so that six elements reach what takes the code hundreds:
  three expansions, multiplied thresholds, chains that an expansion splits and
  chains that it cannot, and two ineffective expansions in a row, after which
  there are none.  Adding, deleting and adding again may double the buckets
  without end while expansion is effective; `MaxBuckets` cuts that off.
  `MaxElements` bounds the table.

No symmetry is used in the runs of `Peer`: ids order the peers.  `hash_helper`
uses it, among keys with the same hash: it has no liveness property, and its
definitions choose no key.  The others have no sets of equal values.  Deadlock is not checked (`CHECK_DEADLOCK
FALSE`) in the runs of `Peer`: when all clients have had their request and all
messages have been handled, every process rightly sits in accept for ever.
The run of `HashHelper` ends when `delete_element` has crashed, that of
`Exchange` when the client has exited, that of `Resources` when the peer is
deaf.

`SettledSpec` (`PeerRing`) starts in the state `RingFormed` describes, so that
runs about requests need not explore the joining as well; `FairSettledSpec` adds
the fairness below.

### Fairness

`Fairness` is weak fairness of each peer's own thread (`PeerStep`) and of each
connected client's send.  A thread that can go on is scheduled, and a TCP
segment that was sent arrives; nothing in the code starts, connects, restarts
or kills a process, so those actions have none.  Weak fairness is enough because
a thread's enabled step stays enabled: only the thread itself takes it, except
that a crash of another process can turn one step of it into another one.

`Exchange` assumes of each receiver that `recv` returns when there are bytes or
the connection is closed; the client's death has no fairness.  `PeerCodec`
assumes that a peer handles the message it was sent, and nothing of senders.
`Resources` assumes that something happens as long as it can (weak fairness of
`Next`): connections and messages keep coming, which is what `GoesDeaf` is
about.

### What the byte-level runs say of the code

* A message that arrives in two segments is handed to the callback in part
  (`network.c:186`), against "upon full data retreival" (`network.h:70`): the run
  `full_retrieval`.  What holds of it is `GivenAsSent`, a beginning of what was
  sent.
* A message that takes more than one buffer is joined by a `realloc` whose result
  is lost (`network.c:191`): when it moves the block, and with the nested buffer
  right behind it must nearly always, the callback is called with a freed
  block.  With `Splits = {FALSE}`, where every send arrives whole, this is what violates
  `FullRetrieval`.  `GivenAsSent` says which of the bytes are still those that were
  sent, and `Understood` speaks of longer messages only where all of them are.
* In the table, the key of such a request points into the freed block, and its next
  SET may add a second element, against "Does not create duplicate elements"
  (`hash_helper.h:17`).  `KeysStable` and `HeldOnce` say that nothing else does it.
* A message that fills `BUFFER_SIZE`, or a multiple of it, is not handed on
  until the connection closes (`network.c:190`, next to the comment of line
  197).  `BlocksAtMultiple` says that it is the only such case, and
  `ExchangeEnds` leaves it out.  When it is an answer that is relayed, the asked
  peer waits in `redirect` for good, whether or not its client is still there;
  `PeerFreed` leaves out that, and a next peer that never answers (`NextSilent`).
* `encode_peerProtocol` stores the port as four bytes at offset 9 of 11
  (`data_helper.c:57`): two zeros go behind the block.  They are not sent, and
  what is read there instead (`beyond`) does not change the port (`ReadsAsSent`).

### The refinement

`ServesOneTable` maps the network to `KeyValueService`: `kv` is the table of
whoever holds a key, `pending` what each client has sent, `answer` the first
answer on its way to it, which while the request is relayed is still at the
relaying peer.  A relayed SET takes effect when the next peer handles it, not
when its answer reaches the client, and the mapping shows that this moment is
a single one.  Garbage answers (`RelayUnreachable`, `RelayReset`) are not
answers of the service.

## Proofs

The theorems of `PeerProofs` are about `Spec` of `Peer`, for every number of peers, clients and keys, any
ids and hashes, any leftovers and foreign messages, both values of
`CloseListener`, and with crashes and restarts.  They rest on
`ProtocolAssumption`, `PeerAssumption` and `TableAssumption`, which only type
the constants; TLC evaluates them in the runs of `PeerMC`.

* `TypeCorrect`.  `TypeOK` is not inductive: a handler reads
  `serving[p].msg`, so the invariant `TypeInv` adds that a thread in recv or
  relay has a connection (of a requester, if it relays).
* `LinkedPeersSurvive`.  The invariant is that a peer with a next peer has a
  previous one, and the argument is `NeighboursChange`, which lists how a step
  can change a peer's two neighbours.  Flags other than reply are told apart
  from reply by their place in `Precedence`.
* `NoWaitCycles`.  A peer relays only to a next peer with a larger id
  (`RelayAscends`), because the hash lies strictly between the two ids, and its
  neighbours do not change while it is blocked.  In any set of peers the one
  with the largest id waits for nobody in it; ids are bounded, so infinite sets
  have such a peer too (`HighestId`, with the well-founded order on naturals).
* `RelayedOnce`.  `SingleHop` needs to know where a relayed request is.
  `RelayedTravels` says: at the peer it was relayed to, only there and only
  once, with a hash below that peer's id, and its sender still in redirect,
  neither answered nor reset.  The proof has a lemma per kind of step
  (`QuietTravels` ... `RedirectTravels`).
* `AsBuiltNothingAnswered`, `AsBuiltOneNeighbour`.  The invariant `OneShot`:
  with the listening socket closed by accept, a thread that serves a connection
  has no neighbours, so every request is a NULL dereference and a first join is
  the only message that changes anything.
* `InRangeCoversInterior` (`IdRangeProofs`).  `in_range` is the interior of a
  Chord interval that does not wrap.
* `KeysAreStable`, `HeldKeysAreUnique` (`ResourcesProofs`), about `Spec` of
  `Resources`, for any keys and any limit.  `KeysAssumption` says that no key is
  the mark for a block without one.  `Inv` is `KeysStable` and `HeldOnce`
  together: `set` looks for an element by comparing the bytes its pointer shows, so
  that it finds the one that is there only as long as those bytes have stayed; and
  in a block that is allocated they stay, because no step frees it or writes to it
  (`LiveKept`), while `ReceiveMoved` frees only the block of the message at hand,
  before an element points into it.

### A ring without faults

`RingForms`, `SettledRingSafe` (`RingProofs`) and
`RingServesOneTable` (`ServiceProofs`) are about `Spec`, from the first process
on, and about `SettledSpec`, under `RingAssumption`: `JoinAt` is a bijection, ids
differ and none lies between a peer's and that of the one it joins; the requesters
are finitely many and the backlog has room for all of them, a join and a notify;
`StackFlags` adds no flag to a message, nobody restarts or injects messages, and
the listener stays open.  Peers still crash when the code makes them (a DELETE of
an absent key, a broken pipe) and clients come and go.  TLC evaluates the
assumption in the runs of `PeerRingMC`.

`SettledRingSafe` is `LinkedPeerSurvives`, `SingleHop` and `NoWaitCycle` from the
settled ring on: `SettledSpec` has another initial state and the same steps, so
that what is needed of the steps (`RelayAscendsStep` and its like) is proved once
and used for both.

The inductive invariant is `TypeInv`, `RelayedTravels`, `SingleHop` and `RingInv`,
whose parts are:

* `OwnMessages`: the only messages of peers are joins at the peer the sender was
  told to join, and the notifies that answer them; so no join is ever forwarded.
* `QueuedOnce`: a requester has one connection, and a join or a notify is at a
  peer once.  With it a backlog holds at most one connection of each requester,
  a join and a notify, so that there is room when a notify is sent
  (`RoomForNotify`, by the library's theorems on finite sets): none is lost.
* `JoinProgress`: how far a peer's join has come.  Before it is handled, the peer
  joined has neither neighbour and sends no notify; afterwards it has the joiner
  as `prev`, and the joiner has it as `next`, a notify under way, or crashed.
* `Running`, and `StoresOwn`: a table holds only keys of its peer's interval,
  which under this assumption a join sets once and nothing moves.  The refinement
  needs it, with intervals of different peers being disjoint (`CoveredOnce`).

`RingServesOneTable` proves the refinement of `KeyValueService` with its safety
part `Init /\ [][Next]_vars`, for any peers, clients, keys and values, if each
request has one operation (`SingleOperations`, as `client.c` sends them and as the
abstract service takes them).  `ServiceInv` adds that a client's connection is at
one peer once with nothing sent on it yet (`Exclusive`, `Unsent`), that at most one
answer is on its way (`OneAnswer`), and that a relaying peer asks what its client
has asked (`Relaying`).  Each step of the network is then a step of the service or
a stutter: the table, pending request and answer that the mapping reads off change
when and only when a responsible peer handles a request; relaying, cutting off,
crashing and joining are stutters.

### One connection

`GivesAsSent`, `BlocksOnFullBuffers`, `RequestUnderstood` and
`HarmlessRequestsSurvive` (`ExchangeProofs`) are about `Spec` of `Exchange`, for any
radix, buffer size, requests, owners, tables and cuts; `ExchangeAssumption` and
`CodecAssumption` type the constants.  None of the properties is inductive.
`ExchangeInv` adds: while a receiver waits, what was sent to it is
`held \o stream`, and `held` is a multiple of the buffer size (`Waiting`); what has
not been sent to is untouched, and a receiver that is done has sent at most once,
in turn (`InTurn`), which is what keeps a second send from being appended to a
finished one.  What a caller finds is as long as what was collected, and agrees
with it where no block was moved (`Unwinds`); what it then does sends only in turn,
so that what was given before stays as it was (`StaysAsSent`).

`RequestUnderstood` rests on the client protocol reading back what it writes:
numbers of two and four bytes (`TwoBytesRead`, `FourBytesRead`), the header's bits
(`BitsRead`) and the fields behind it (`ReadBack`), with any byte behind the
message.  Then a peer that is given the request whole serves the key that
`key_length` kept, the client is told what was served (`Serves`), and
nothing that was handed on whole is anything but the request or such an answer
(`Meant`, inductive next to `ExchangeInv`): what the asked peer relays is read by
the next one as what it is, neither takes it for a third one's, and one table
changes, once.  A key longer than its field is covered: it is cut, and `KeyAsked` is
the key that is left.  A value longer than its field is not: `LengthAssumption`
says that there is none, neither on a command line (which the system bounds) nor
in a table (where each came with its length in four bytes).

`HarmlessRequestsSurvive` rests on both.  `Unhurt`, for a request that is `Harmless`
and sends that are whole: nobody has crashed or was reset, no call has nested, and
what is on the way, the request or its answer, is shorter than a buffer
(`RequestFits`, `AnswerFits`).  Then `recv` returns all of it, no `realloc` grows a
block, and what is decoded is what `Meant` says, with lengths that lie within the
message; so no guard of a fault holds, and as nobody dies no receiver sees a
connection close but by the client's end.

### The hash table

Under `HashHelperAssumption` and `TableAssumption`, which type the constants, the
theorems of `HashHelperProofs` are about `Spec` of `HashHelper`, for any keys,
hashes, number of initial buckets, threshold and bounds: `HashHelperConsistent`,
`HashHelperChainsBounded` and `HashHelperActsOnTable`, that `set`, `get` and
`delete_element` on buckets and lists are the operators of `HashTable`, which `Peer`
takes for them.  `Inv` is that the variables have their types, the chain of a
bucket holds, once each, the elements whose hash is its (`Linked`), chains keep
within their multiples (`Bounded`), and a key has a value just when it is in the
list.

The hard step is an expansion.  A chain is moved by a loop, `Pushed`, and the
multiples are counted by another, `Multiple`: functions defined by recursion on a
length.  That such a function satisfies its equations, and what it yields, is
proved by induction on a set of naturals (`NaturalsInSet`): the theorems on
induction that take an operator are not available, but the set of the lengths
at which a statement holds is a set.  `Recursion` and `RecursionUnique` are stated
for functions and used for both loops.  `PushedChain` then says that what is
pushed to bucket `b` of `2n` are the elements of bucket `b % n` with that hash,
once each, and `MultipleSuffices` that a multiple counted with its
elements is large enough for them.

### One message

The theorems of `PeerCodecProofs` are about `Spec` of `PeerCodec`, for any peers
and ring, leftovers, ids, keys and bytes behind them, and any operator for `^`.
`NodesAssumption` and `BytesAssumption` type the constants; `HashAssumption` says
that the hash of a key, as computed, is 16 bits wide, which for the real `^` is
arithmetic of `HASH_JEN_MIX`, a fold.  `CodecInv` is: the eleven bytes on the way are those
of a header that has the control bit and the bit of the flag (`Carried`), the id
of a key that is looked up is the hash of that key with something behind it
(`Hashed`), and the struct at hand is what those bytes are read as (`Decoded`).

* `Encodes` and `Decodes`: each field lands at its offset and is read back, with
  the bytes swapped twice; the four bytes read for the port have it in the two
  that `htons` keeps.  From them, `DecodesWhatWasSent`, `PeersAreNotClients`,
  `DecodedIdsInterior` (with `InRangeCoversInterior`).
* `AnswersAreFoundLookups`: the bits of different flags are disjoint
  (`BitsApart`), so that what is combined is read back flag by flag.
* `StraysAreNotTaken`: a lookup has the header `{0, 7}` and no other branch of
  the handler takes it.
* `LookedUpByKey`: a word of `HASH_JEN` is read within its size (`WordReads`),
  and all offsets and sizes lie within the key (`HashReadsKey`).

### Only model-checked

* Liveness: `NearRequestAnswered`, `ExchangeEnds`, `PeerFreed`, `LookupAnswered`,
  `GoesDeaf`.
* `EveryByteCounts` and `TestedBytes`: about the values of particular hashes, which
  are computed by folds over the real `^`.

Every other property of a passing run is stated by a theorem.

## Not modelled

* What a process does after `recv` has failed (*reset*), with bytes that have the
  control bit or several operations (*strayed*), and a request that the peer after
  the next one gets.
* Of a block that `realloc` moved, the new one: nothing points to it, and it is
  never freed.  What lies behind a message or in a freed block is one byte,
  repeated; in `Resources`, one key or none.
* In `Peer`, the copy of a forgotten request from the stack (`peer.c:245-247`,
  `HandleUnknownResponsible`) always succeeds; that it may end the process is in
  `Exchange` (`Overruns`).
* `get_new_connection` has `inet_ntop` write a client's address through a pointer
  that was never set (`network.c:162`, `:171-173`), which the `sizeof` of that
  pointer prevents only for addresses of eight characters and more, so not for
  `::1`.
* Joins that move a boundary, in the runs about tables.  Keys below a new `prev`
  stay where they are (`peer.c:151-153`): if P(30) is joined by C(12), stores a
  key with hash 15, and is then joined by B(20), whose message has a `hashId`
  between 12 and 30 and whose own `prev` is A(10), both may come to hold the key.
  `Peer` has the step (`HandleJoin`); that two peers then hold a key contradicts no
  doc, and no property says otherwise.
* Address and port strings: a message names a peer, or is its bytes.  (The six
  bytes a five-digit port needs do not fit `int_port_to_str`'s buffer.)
* The request queue as intended: its macros never run their bodies, so what
  `next_job_in_queue` would do from a filled queue, and the branch of a reply
  after `queue_pop`, have no reachable state.  `make_peerProtocol` is
  called from there and from the stabilizer only.
* `buildfinger`'s and `check_chord_rules`' use of a finger table: none is ever
  built.
* Of uthash (vendored), what `hash_helper.c` does not use; running out of memory.
* `smart_pointer.h`, `friendly_heap.h`, which no file of the build includes.
* The stabilizer thread (never started), `server.c` (not
  built), logging, argument parsing.
* Connections that fail because ports run out, hosts that vanish without
  closing their connections.
* A client that closes while its request waits or is served, with one answer to
  come: the answer is lost without further effect.

## Plan

Done, in this order: `IdRange`, `PeerProtocol`, `HashTable`, `Peer`, the runs,
`KeyValueService` and its refinement, the theorems about `Peer`, `HashHelper`,
`ClientCodec`, `Exchange`, `HashJen`, `PeerCodec`, `Resources` and its theorems.

`PeerRing` and its theorems, the refinement proved, the theorems about `Exchange`
and `PeerCodec`.

The hash table's theorems, by induction on sets of naturals; `Understood`; and
`NoWaitCycle` from the settled ring.

`Resources` and `Exchange` with the blocks that `realloc` moves and the reads beyond
short messages, and their theorems anew.

Left: liveness and the values of hashes, which stay with TLC.
