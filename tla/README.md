# TLA+ verification of ConcurrentComputing

The repository is a collection of concurrent programs: a bank with bucket locks,
cuckoo hash sets, a parallel k-means, and two key-value stores that run over
sockets and over RDMA. This directory models their concurrent cores in TLA+,
checks them with TLC on small instances, and proves the most important properties
with TLAPS for every number of threads, keys, nodes, accounts or points.

`PROJECT.json` has the exact correspondence between definitions and source lines,
the runs, the mutants each property is tested with, the hazards and the findings.
To check a run: `tlc -config X.cfg M`; to check proofs: `tlapm M.tla`.

## Inventory

| component | state | operations | who else touches the state |
|---|---|---|---|
| Lazy list, `DistributedKeyValueStore/Persistence/KeyValueStore/ConcurrentList.cpp` | nodes: key, next, marked, lock | `contains` (no lock), `add`, `remove` (two try-locks, validation, retry or abort), `size` | all handler threads of a server |
| Hash map, `ConcurrentHashMap.cpp` | an array of 100 lazy lists | `contains`, `add`, `remove`, `size` by key % 100 | as above |
| Server, `Persistence/Server.cpp` | connections, the map, the barrier of the master | accept, `connection_handler`, `handleMessage`, `send_initialization` | clients over TCP |
| Client and remote, `App/Client.cpp`, `App/Remote.cpp` | a connection to every server per thread, flag `stop`, local barrier | connect, `awaitMaster`, `get`, `insert`, end | servers; the threads of the process |
| Wire protocol, `Common/` | input and output of a connection | `stream_data`, `socket_get_line`, `Message::verify`, `deserialize` | |
| Barrier, `Common/locks.hpp` and three copies | counter, mutex, condition | `barrier_init`, `barrier_cross` | all threads of a program; handlers of the master |
| Bank, `Banker/bankers-map/src` | a map of accounts, a read-write lock per bucket | `deposit`, `balance`, the final audit and the run without threads | worker threads |
| Cuckoo set, `CuckooHash/Cuckoo.hpp` | two tables of buckets, a lock per bucket index, a global read-write lock | `insert` (search, displacement, resize), `remove`, `contains`, `size` | worker threads |
| Transactional cuckoo set, `CuckooHash/TMCuckoo.hpp` (a copy in the replicated store) | two tables, the global read-write lock, no bucket locks | as above; check, displacement, `remove` and `contains` are transactions | worker threads |
| Parallel k-means, `K-Means/kmeans475-paralell.cpp` | the cluster of each point, the points and center of each cluster, a lock per cluster, flag `done` | the assignment of a point, new centers | TBB tasks |
| Serial k-means, `K-Means/kmeans475-serial.cpp`, `solution.cpp` | clusters with centers of doubles | one pass after the other | nobody |
| Replicated store, clients: `ReplicatedKeyValueStoreRDMA/App` | connections to all servers, remote memory of every map, counters | connect, `awaitMaster`, `insert` (lock by compare-and-swap, send, unlock), `get` (one-sided reads) | servers and other clients through RDMA |
| Replicated store, servers: `Persistence/Server.cpp` | connections, receive buffers, lock words, the map | accept, start messages of the master, worker threads that apply messages | clients |
| Cuckoo map of a replica, `Persistence/KeyValueStore/Cuckoo.hpp` | ONE table of elements, a spin lock per bucket | `insert` (search, displacement), `remove`, `contains`, `size` | workers; remote readers |
| RDMA library, `ReplicatedKeyValueStoreRDMA/infinity` | queue pairs, completion queues, the shared receive queue, request tokens, region tokens | connect and accept, nine kinds of requests, polling, receiving | all threads of a process |
| Drivers, tests, `RDMA-Tutorial` | | benchmarks, unit tests, a tutorial by others | |

What is hard, and what makes each part correct:

* **Lazy list.** Walks read nodes that others unlink at the same time; what they
  found is checked again under two locks; `contains` never locks. Correct if it is a
  linearizable set: each call takes effect at one moment between its call and its
  return, the list stays sorted and complete, no thread writes a node without its
  lock, every call returns and gives back its locks, an abort changes nothing.
* **Bank.** A deposit writes two accounts, an audit reads them all. Correct if money
  is conserved at every moment, each audit returns the exact total, nothing
  changes while it adds up, and the lock order rules out deadlock.
* **Barrier.** It is reused at once by fast threads while slow ones have not left.
* **Cuckoo set.** The path of displacements is found without locks, so anything on it
  may have changed; a displacement writes the value twice for a moment; resize
  replaces everything. Correct if no value is lost, doubled or misplaced.
* **Service.** Connections, the start signal, requests and the end of clients and
  servers interleave freely. Correct if clients start together, reads are never
  stale, a key is inserted once, every request is answered, everybody ends.
* **k-means.** Points move between clusters that other tasks change, and doubles are cut to ints
  that overflow. Correct if no point is lost, and the run stops only at a fixed point or at its
  bound. It should compute what the serial program computes, however its tasks are scheduled.
* **Transactional cuckoo set.** `insert` fills its slot after the transaction that chose it
  has ended. Correct if nothing else can lose or misplace a value.
* **Cuckoo map of a replica.** Readers, local or remote, take no locks while elements move.
  Correct if no element is lost, a key has the one value that was put last, the locks form no
  cycle, and a reader does not miss a key that is there all the time.
* **RDMA library.** Threads of a process poll one completion queue and take each other's
  completions; workers share receive buffers; a connection can break with requests in
  flight; a client may send before the server knows its queue pair. Correct if every
  wait ends with the right answer, no buffer is lost, every sender is known.
* **Replicated store.** A put owns a lock word at every replica, and aborts if it meets a
  taken one; replicas receive puts from several clients over different connections and
  apply them in several threads. Correct if lock words are never left taken or freed
  under somebody, replicas agree, also when one of them finds no room for an element, the
  counters of the clients say what was stored, nobody works before all are connected, and
  everything settles.

## Modules

    LinSet                what a linearizable set promises
    LazyList              the list, one action per access to shared memory
      LazyListHistory     history variables, refinement mapping to LinSet
      LazyListProofs      safety of the list; that it implements LinSet
    Bank                  deposits, audits, bucket locks
    Barrier               barrier_cross and the pthread condition variable
    KMeans                the loop of KMeans::run and its tasks
      KMeansSerial        the serial program as a function, compared with KMeans
    SharedMemoryProofs    safety of the bank, the barrier and k-means
    CuckooTables          what the two cuckoo sets have in common
      Cuckoo              insert, displacement, resize, remove, contains
      TMCuckoo            the same with transactions
      CuckooProofs        safety of both sets
    KVService             clients and servers of the distributed store
      KVServiceProofs     start, answers and inserts of the service
    CuckooMap             the map of a replica and its remote reader
      SecondaryHash       the second hash functions of the map and of its remote readers
      CuckooMapProofs     locks, elements, values, readers without locks
    Infinity              connections, requests, completions, receive buffers
      InfinityProofs      answers, receive buffers, senders
    ReplicatedStore       clients and servers of the replicated store
      ReplicatedStoreProofs  start, lock words, replicas, counters
    FiniteSetFacts        lemmas of the proofs: finite sets, minima, sums
    MC*                   instances for TLC

`KVService` composes the others by what they promise: an operation of a server's
store is one step because `LazyListProofs` proves the list behind it to be
linearizable, and a barrier is a guard because `SharedMemoryProofs` proves that nobody leaves
early. `ReplicatedStore` rests on two modules in the same way: a request and the wait for its
completion are one step because `InfinityProofs` proves that a successful token means the
request has taken effect, and the map of a server is a function from keys to values
because `CuckooMapProofs` proves HoldsWhatWasPut: a key has exactly the value that was put last, in
one cell, as long as no two inserts of it run together. Where two do (`raced`), nothing is claimed of the key.

**LazyList.** The variables are the fields of the nodes and the locals of each
thread. `add` and `remove` share their walk (`Start`, `Walk`), locks (`TryLockPred`,
`TryLockCurr`, `Abort`, `GiveUp`), `Validate`, and differ in `Link`, `Mark`/`Unlink` and
`ApplyNothing`; `contains` is `SearchStep` and `SearchEnd`. One step reads or writes one
node. A freed node is never reused (the code never frees), so `Nodes` bounds the number of
adds. Memory is sequentially consistent and keys lie strictly between those of the
sentinels (`ListAssumption`). `size` is not modelled: only the unit test calls it,
after its threads are joined.

**LinSet.** A call is invoked, takes effect once, and returns. An `add` or `remove`
may answer ABORT without effect. In `LazyListHistory`, `seen[t]` records whether the
argument of t's call was in or out of the set at some moment of the call and
`alive[t]` the nodes that were in the list at some moment of it; the mapping takes
the abstract set to be the keys of unmarked nodes. A `contains` that answers FALSE is
the hard case: the moment it refers to may be long past and due to another thread.

**Bank.** A balance is read in one step and written in another. `WRITE_LOCK` and
`ReadLock` wait for the lock; `Low` and `High` are the buckets in the order
`acquireWriteLocks` takes them; the audit takes all read locks in ascending order.
`Main` joins the threads, checks the assertion of tests.cc:48 and then runs the workload
alone without locks. Amounts are integers. The map is a function: its chains are
built before the threads start.

**Barrier.** `barrier_init` is its initial state and `barrier_cross(t)` a step of thread t: `TakeMutex`, `CrossAndWait`, `CrossAndRelease`, `Leave`. A waiter wakes with a
broadcast; under `PosixSpec` also by itself (`SpuriousWakeup`, external).

**CuckooTables.** The tables of the two sets, their cells and hash functions, the paths a search can find, and
`Scanned` and `Rebuilt`, the loops of resize, which visit half of the old buckets and lose what finds no slot. The
two files differ in their locks, not in these.

**Cuckoo.** `search` reads without locks and its result is validated later, so the
model lets it return any path of cells up to `MaxDepth`. Within a critical section
each bucket access is a step. `want` is the set of bucket locks a thread still has to
take, in ascending order as `lock_two` and `lock_three` do. `MaxBuckets` bounds the
resizes. `Begin` is the loop of the benchmark, `execute_local_txs`: any call, any value.

**TMCuckoo.** The lock macros of the file are empty. The check of `insert` (`TMCheck`), a
displacement (`TMMove`, `TMPlace`), `remove` and `contains` are transactions and one step each; the
write of the value (`TMWrite`) is a step of its own, on the slot `TMCheck` or `TMPlace` has chosen. The global
lock is still there: `inside` are its readers, `resize` its writer, and the capacity is
read before it is taken (`TMReadCapacity`).

**CuckooMap.** As `Cuckoo`, with one table, no resize, and elements of a key and a value; an
`insert` of a present key overwrites its value. `contains` reads one slot per step; `get` is the
remote reader of `App/Remote.cpp`, which fetches a bucket per step. `net` counts the calls that
answered TRUE, as the benchmark does; the observer `steady` tells whose key was in the table
all through its call, and `stored` what each key should hold, or `Raced` once two inserts of it have run together.
The map and the remote reader each have a second hash function, the constants `Secondary` and `RemoteSecondary`,
because they are not the same function in the code. `MCCuckooMap` tabulates both for its keys and has TLC compute
them from `SecondaryHash` (assumption `TabulatedHashes`). Displacements always
validate with the second hash function (`Cuckoo.hpp:475`), so elements only move from first
to second buckets: that is why readers, which look into the first bucket first, miss nothing.
Two exceptions are part of the property: an element displaced to another slot of its
own bucket, in front of a reader that goes slot by slot (`Shuffled`), and a remote reader for whose key the two
hash functions differ, which looks into a wrong second bucket.

**SecondaryHash.** `secondary_hash` with its real constants, for a word of 32 bits as two halves of 16. The map
hashes an int, whose `>>` copies the sign, the client an unsigned, whose `>>` shifts in zeros. For TLC only.

**Infinity.** As the store uses the library: a client process with one queue pair per
thread in one context, hence one send completion queue for all, and a server that accepts them
in one context, hence one receive queue for all workers. `Dial`, `Connect`, `Accept`, `activate` and
`registerQueuePair` are the two sides of the handshake in the order of `QueuePairFactory`; the
requests (`send` to `fetchAndAdd`) differ in whether they need a receive buffer, touch the
region, or have a token; `pollSendCompletionQueue` marks the token of whichever thread the
completion is for. `receive` posts the buffer of a write with immediate again itself, that
of a message comes back with `postReceiveBuffer`. The network adapter is external: `Execute` takes the
first request of a queue pair, `Fail` breaks the queue pair and fails all its
requests. The remaining size of a region is an unsigned difference of `Width` bits.

**ReplicatedStore.** `Connect`, `Ready`, `awaitMaster` and `Start` are the start of clients and master;
`prepareMessage` takes one lock word per step, beginning at any server and aborting at a taken one;
`insert` sends to one server per step and needs a receive buffer there; `release` frees
one word per step, after success or abort. `receive` and `handle` are the worker threads. The insert into the map
either stores its element (`Stored`) or, if the key is not there, may give up (`GivenUp`, ABORT_FAILURE); the worker
ignores which. An insert of an absent key may also retry for ever: `handle` is not fair for it. `stats`
are the counters of `execute_remote_txs`, with its threefold count of every second success; `applied`, `dropped` (what a server
has given up) and `raced` (keys of which two workers of a server had messages in hand) are history variables.

**KMeansSerial.** One pass of the serial program as an operator on its state, with exact rational
means (sum and count), iterated by a recursive function. `solution.cpp` is the same program with
vectorised sums. Both programs draw the same `seed`. `SameAsSerial` compares them; it is refuted, see below.

**KMeans.** One task per point. `push_back` and `erase` read the vector (`Take`, with
the lock) and write it back (`Put`), so that two of them without a lock would lose an update.
Coordinates are doubles: multiples of 1/`Unit`. `Cut` turns one into an int of `Width` bits (the smallest int if it
does not fit, as the conversion instruction does), squares wrap around (`Wrap`), and the squares of distances stand for the
distances, a negative one for not-a-number. `Totals` are all the sums `parallel_reduce` can return, because each
addition truncates and the splits are arbitrary. `PerfectClusters` is about the assignment that this arithmetic
gives, ties and not-a-numbers included: the first nearest center wins, as in `getIDNearestCenter`.

**KVService.** `link[c][s]` is a TCP connection: open, closed by one side, or reset.
A write to a closed connection is lost and resets it, a write to a reset one raises
SIGPIPE and ends the process; a side that closes with unread input resets at once.
A line is one message. `Accept`, `SendBegin`, `Read`, `Apply`, `Respond` are the handler of one
connection, `Connect`, `AwaitMaster`, `CrossLocal`, `Send`, `AwaitResponse`, `Quit` a client thread,
`Stop` the main thread of a client process. A put may answer ABORT while another put
is at work at the same server, which is when its try-lock can fail. `known`, `base` and `wins` are
history variables for the properties.

## Runs

| run | instance | properties | result |
|---|---|---|---|
| `lazy_list` | 2 threads, 2 keys, 3 nodes besides the sentinels, taken in order | TypeOK, ListIntact, Hindsight, RemovedIsFrozen, WritesUnderLock, Linearizable, EveryCallReturns | pass |
| `bank` | 2 threads, 3 accounts in 2 buckets, 4 iterations | TypeOK, MoneyConserved, AuditsAreExact, FrozenDuringAudit, EverybodyFinishes | pass |
| `barrier` | 4 threads, 3 crossings | NobodyLeavesEarly, EverybodyCrosses | pass |
| `cuckoo` | 2 threads, 3 values, width 1, 2 to 4 buckets, paths up to 2 | HomeUntilResize, SizeUntilResize, NotMovedBehind, ResizeIsAlone | pass |
| `tm_cuckoo` | the same | MisplacedOnlyWhenStale, LostOnlyByClash | pass |
| `cuckoo_map` | 2 threads, the keys 1, 4 and 11, 2 values, 3 buckets of width 1, paths up to 2, symmetric | SizeIsExact, HoldsWhatWasPut, NoCircularWait, NoFalseNegative | pass |
| `infinity` | 2 connections, 1 worker, 1 buffer per connection, 2 requests each, a region of 2 units, offsets of 3 bits | SuccessMeansDone, BuffersConserved, SenderIsKnown, WaitsEnd | pass |
| `replicated_store` | 2 servers, 2 clients of 1 thread, 2 workers, 1 buffer per client, 3 puts, empty maps | LockWordsOwned, ReplicasAgree, CountersMatch, StartsComplete, Settles | pass |
| `replicated_start` | the same with 2 threads per client and no puts | EveryClientStarts | violated |
| `kmeans` | 4 points in the plane, in halves, ints of 6 bits, 2 clusters, 3 iterations, any seeds | Partition, PerfectClusters, Terminates | pass |
| `kmeans_serial` | the same with ints of 12 bits | SameAsSerial | violated |
| `kv_service` | 2 clients, 2 servers, 1 key, 2 requests each | StartTogether, NoStaleAnswer, InsertedOnce, EverybodyEnds | pass |

*Why the bounds suffice.* In `lazy_list` two threads can stand on a node while it is removed
and its key is added again in a new node, next to another removal; three nodes are what that takes. Which free
node an `add` gets makes no difference, so they are taken in order (`FirstFree`); thread symmetry would not be sound
for EveryCallReturns.
In `bank` the three accounts make deposits within one account pair, one bucket and across
buckets, and the four iterations are two per thread. In `cuckoo` the three values collide in
both tables, so inserts displace, retry, fail and resize. In `kmeans` every difference
of coordinates may be cut, squares overflow ints of six bits (some sums of squares are negative), some choices of seeds need two
rounds of moves and others stop at the bound; in `kmeans_serial` the ints are wide enough that only truncation is left. In `kv_service` one
client may be done, and a server dead, while the other is still connecting, waiting
for BEGIN, or sending; two requests are needed to write twice to a dead server. In `tm_cuckoo`
two inserts can choose one slot, and an insert can keep its buckets across a resize. In
`cuckoo_map` two keys share their first bucket and two their second, under the second hash of the code, so inserts displace,
fail and meet, and a reader can stand between the two buckets of a moving key; for two keys a remote reader computes
another second bucket. In `infinity` there are
fewer buffers than messages, so senders wait for buffers to come back, and some offsets lie
behind the region. In `replicated_store` all puts are of one key with two values, stored or given up at each server, and the buffers
run out while locks are held; three puts are needed for one to abort at the lock of another and a third
to find the bucket free again. With one worker in `infinity` and one bucket slot in the
cuckoo runs, races of two workers for one completion and displacements inside a bucket do not
happen there; `replicated_store` has two workers. Every passing run fires all its actions.

*Fairness.* All liveness runs assume weak fairness of each thread (task, handler): the
operating system schedules it, and a lock that stays free is granted. Nothing is
assumed about who gets a contended lock; in the bank the bounded number of iterations
keeps a waiting thread from being overtaken for ever, in the list the locks are
try-locks, and calls of other threads end because nodes are finite. Nobody has to start a call of the list. In
`kv_service` main stops every process some day (it sleeps for a fixed time). In `infinity` threads that poll keep
polling, and the adapter carries out or fails what was posted; in `replicated_store` processes run and
the network delivers. In both nobody has to begin a request or a put. The insert of a key that a server does not have may
retry for ever (`Cuckoo.hpp:473`), so it is given no fairness; Settles says that everything else comes to rest if, from
some time on, each server has a worker and a buffer that such inserts do not keep.

## Findings

*Start of the replicated store* (run `replicated_start`). The server numbers its connections in the order in
which they arrive and sends the start messages on `connections[i][0]`, which the comment at
`Persistence/Server.cpp:98` calls "symmetrical to client knowledge". With two threads per client the
connections of two processes can arrive alternately; one client then gets both messages and the
other waits in `awaitMaster` for ever. With one thread per client (`replicated_store`, Settles) all start.

*Arithmetic of the parallel k-means* (run `kmeans_serial`). `instructions.txt:140` asks to "Implement a parallel version of the
given serial k-means solution". The parallel program keeps the differences and sums of coordinates in ints
(`kmeans475-paralell.cpp:175`, 187 and 269 to 271), and from the same seeds assigns points with fractions to other
clusters than the serial one.

Defects the modules state as properties that are not among the runs; the instance is that of the run of the module
unless a cfg is named, and each gives a counterexample:

1. *Remote reads* (`App/Remote.cpp:61`): the client computes another second bucket than the replica for most keys of which an
   intermediate value is negative, and a `get` misses an element that rests there (`CuckooMap!RemoteFindsKey`,
   `MCCuckooMapRemote.cfg`).
2. *Replicas* (`Persistence/Server.cpp:39`): the remote locks are released when the messages are delivered, not when
   they are applied. If two workers of a server have puts of a key in hand, replicas can differ for ever
   (`ReplicatedStore!ReplicasSame`, `MCReplicatedRace.cfg`).
3. *Replicas* (`Persistence/Server.cpp:46`): the RESULT of `insert` is ignored, so one replica may drop what the other keeps and
   the client has counted (the same property, `MCReplicatedDrop.cfg`, where each server has one worker).
4. *Barrier* (`locks.hpp:30`): `pthread_cond_wait` is called once, under an `if`; a spurious wake-up lets a thread
   through alone (`NobodyLeavesEarly` under `Barrier!PosixSpec`, `MCBarrierPosix.cfg`).
5. *Cuckoo* (`Cuckoo.hpp:551`): resize copies half of the old buckets (`Cuckoo!ExpectedSize`, `MCCuckooResize.cfg`).
6. *Cuckoo* (`Cuckoo.hpp:128`): an insert that resized goes on with bucket numbers of the old size
   (`Cuckoo!HomeBuckets`).
7. *Cuckoo* (`Cuckoo.hpp:466`): the check for a duplicate is not repeated after the search: two
   inserts of one value both succeed (`Cuckoo!NoDuplicates`). The map of a replica has the same defect; a key then has two
   cells, which SizeIsExact counts as right and HoldsWhatWasPut leaves out.
8. *Server* (`Server.cpp:71`): a handler goes on answering a client that has closed its connection, and
   SIGPIPE ends the server (`KVService!ServersStayUp`).

Because of 5 and 6 the positive properties of `Cuckoo` are stated up to the first resize, and hold there;
`TMCuckoo`, which has both and a write outside its transactions besides, is described by action
properties that name the one step which may go wrong. Because of 2 and 3 ReplicasAgree and CountersMatch say what
remains: a replica differs only in keys its workers raced for or by lacking what it gave up, and every counted
put was stored or given up once at every server. Further observations without a property:

* a displacement back to a first bucket always fails its validation, so an insert into the map
  of a replica can retry for ever (`Cuckoo.hpp:473`); what still ends then is Settles;
* no client looks at the status of a compare-and-swap or a send (`App/Remote.cpp:191`);
* the README of the replicated store, line 4, says that "Both put and get operations are implemented through
  one-sided primitives"; a put ends in a two-sided send;
* `p1.cc:22` documents `-i` as iterations per thread, `tests.cc:35` divides it among the threads.

## Proofs

All proofs are for arbitrary constants under the assumptions named in the modules (`ListAssumption`,
`BankAssumption`, `ServiceAssumption` and so on: at least one server or bucket, keys that are numbers, a model value
for "nobody" that is no thread). Numbers of threads, clients, points and accounts are arbitrary, finite where
the program counts them. Each proof has the same plan: an invariant that contains the property, was checked with TLC,
and is preserved by each action; one lemma per action, and lemmas for what the actions have in common. The
inductive invariants are defined at the end of the modules they are about.

* **FiniteSetFacts** has what the others need about finite sets. Induction is written as a minimal
  counterexample (`MinimalSet`): the family of subsets for which a claim fails has a minimal member. From it follow the
  extrema of finite sets of integers and how a sum changes with one value of its function
  (`SumUpdate`), which is what money and counters rest on.
* **LazyListProofs** proves `Spec => []IInv` and from it TypeOK, ListIntact, WritesUnderLock and
  RemovedIsFrozen. `ListIntact` alone is not inductive: that a new or removed link keeps
  the order depends on what the writer knows. `IInv` adds `ControlOK` (which call a
  program counter belongs to), `LocksOK` (which locks it holds), `ShapeOK` (links lead from smaller
  to larger keys, also out of removed nodes), `WalksOK` (pred and curr enclose the
  argument) and `ValidatedOK` (what validation found stays true under the two locks:
  the heart of the argument). With the history variables `HInv`
  adds `HistoryOK` and Hindsight: as long as the argument of a call has been in the set
  all through the call, the nodes alive during the call lead to it and its node is
  unmarked, so a `contains` cannot miss it. Each step is then shown to be a step of
  `LinSet` or a stutter (Linearizable); the two linearization points are the write of `Link` and of `Mark`.
* **SharedMemoryProofs** has the three programs that share memory and nothing else.
  *Bank*: TypeOK, FrozenDuringAudit, MoneyConserved and AuditsAreExact. `IInv` says which locks each program
  counter holds (`WriteLocksOK`, `ReadLocksOK`), that readers exclude a writer (`Exclusion`), and
  that `Main` works alone (`MainAlone`); an audit that adds up holds all the locks, so nobody
  can be at a write. `MoneyInv` adds that a balance that was looked up is still the balance when it is written back
  (`LookupsOK`) and that an audit under way has the sum of the accounts it has passed (`TotalsOK`).
  *Barrier*: NobodyLeavesEarly, without spurious wake-ups. In `BarrierInv` all threads are in the same crossing
  (`Generation`) and the counter is the number of waiting threads; when the last one arrives all
  others wait (`AllButOneWait`), so the release lets everybody into the next generation together.
  *k-means*: Partition. In `ClusterInv`, where a task is tells which clusters hold its
  point (`MembersOK`), and its copy of a vector is fresh while it holds the lock (`CopiesOK`). For PerfectClusters
  `CenterInv` adds that, unless a task has recorded or will record a change, the centers are those of the
  members (`Centered`: one of the sums the truncated additions can give, divided) and the finished points have the nearest one. Both hold
  for every `Unit` and `Width`, overflow and not-a-numbers included.
* **CuckooProofs** proves HomeUntilResize, SizeUntilResize, NotMovedBehind and ResizeIsAlone of the set with
  locks. `IInv` says what a thread's call consists of at each program counter (`CallOK`), which locks it holds and still
  wants (`LockOK`), and what it has read and may rely on (`Knows`). A step changes its own call, its own
  locks and cells under them, and nothing else unless it is a resize (`GoodStep`), so that `Knows` is stable for
  everybody else. A resize starts when nobody is inside the global lock; then every thread is outside its
  critical sections and no lock is held, which is ResizeIsAlone and the reason why a resize disturbs no one's
  knowledge. The size counts settled values only: a displaced value is settled in one of its two cells (`Settled`).
  For the transactional set it proves MisplacedOnlyWhenStale and LostOnlyByClash. The invariant is
  small (`TMInv`: a call works on a path from one of its buckets to a slot in one of them, `RequestOK`); the argument is that every step leaves the
  tables alone, stores one value, erases one, displaces one or rebuilds all (`TMStepIs`), and that among these only a store into
  a slot that is no longer free, or a rebuild, loses anything.
* **KVServiceProofs** proves StartTogether, NoStaleAnswer and InsertedOnce with clients and servers that die.
  `ServiceInv` says that a connection is open exactly while both sides live (`LinkOK`), that a conversation has one message
  under way and only where the client waits for it (`TalkOK`), that BEGIN follows the last connection (`BeginOK`), that
  every answer on its way is true (`AnswerOK`), and that a put that will be answered TRUE is the only one
  of its key (`WinsOK`). A client that is gone is bound by `LinkOK` alone: its handler goes on with whatever
  it has read.
* **CuckooMapProofs** proves NoCircularWait, SizeIsExact, HoldsWhatWasPut and NoFalseNegative. Every step changes only
  its own call, its own locks and cells under them (`GoodStep`), so what a thread knows of its cells stays true (`Knows`).
  A thread waits for a lock above all that it holds (`LockOK`), so the one that waits for the highest lock of a circle waits for
  nobody. A displacement leaves the number of settled elements as it is, because the copy is not counted before the original
  is cleared. The key of a reader is always in a cell that it has still to visit
  (`SeenInv`): elements move only from first to second buckets. The two exceptions of NoFalseNegative are named above. For
  HoldsWhatWasPut, `FreshInv` says that an insert which found its key absent may rely on that
  until it writes, as long as no other insert of the key runs, whatever is displaced meanwhile.
* **ReplicatedStoreProofs** proves StartsComplete, LockWordsOwned, ReplicasAgree and CountersMatch. A put goes round the
  servers in order (`GoesRound`), which tells which words it owns; a word is 1 exactly when it has a holder, and
  it has one at most (`LockInv`). What a server will hold of a key once it has applied its messages
  (`Due`), with what it gave up, is the same everywhere but where the put in progress has been (`AgreeInv`). The messages of a
  server that were stored or given up are counted by a sum over the threads (`CountInv`).

* **InfinityProofs** proves SuccessMeansDone, BuffersConserved and SenderIsKnown, with connections that break at
  any moment. `IInv` has three parts. `SetupOK`: a connection is registered after its queue pair is active, and the
  workers start after all are registered, so they know every sender. `TokenOK`: a thread that does not wait, or
  whose token is marked, has nothing with a token under way; one that waits for an unmarked token has its last
  request in its queue (`Signaled`) and no completion, or an empty queue and exactly one completion, whoever
  will poll it (`Unanswered`, `Answered`). `BuffersOK`: the posted buffers, those of arrived messages and those in a worker's
  hands are distinct and are together the buffers of the connections accepted so far (`Block`).

Only model-checked: liveness (EveryCallReturns, EverybodyFinishes, EverybodyCrosses, EverybodyEnds, WaitsEnd, Settles,
Terminates), which is out of the prover's reach. Every other property of a passing run is a theorem.

## Not modelled

* `RDMA-Tutorial`: a tutorial by others that no program of the store uses.
* `infinity`: the bytes of requests, memory registration, loopback connections, destructors.
* `Remote::insert` of a vector in the replicated store: never called.
* Broken connections in the replicated store: `Infinity` has them, but a put ignores every status, so
  nothing it promises would survive one.
* Transactions that abort: a hardware or software transaction is atomic or repeated by the library.
* Benchmark drivers beyond their loops of calls, unit tests, option and configuration parsing, statistics
  other than the counters named above, printing.
* Weak memory (the list and the map read non-atomic fields without locks), float rounding in the bank and in
  serial k-means, keys equal to a sentinel.

## Plan

Done, in this order: LinSet and LazyList with their proofs, Bank, Barrier, Cuckoo, KMeans, KVService; then
TMCuckoo, CuckooMap, Infinity, ReplicatedStore, KMeansSerial, SecondaryHash.

Then the proofs of the bank's sums, the barrier, the clusters, the replicated store, its map and the service; last
those of the two cuckoo sets and of the RDMA library.

Left is what these proofs cannot reach: liveness for every instance, and spurious wake-ups, for which the
barrier would first have to wait in a loop.
