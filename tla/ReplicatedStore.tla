--------------------------- MODULE ReplicatedStore --------------------------
(***************************************************************************)
(* The replicated store of ReplicatedKeyValueStoreRDMA: N servers that     *)
(* keep copies of one map, and N client processes of C threads each.  A    *)
(* put locks its bucket at every server with remote compare-and-swaps,     *)
(* sends the element to every server and unlocks; worker threads of the    *)
(* servers take the messages and store the elements, unless the insert     *)
(* into the map gives up, of which nobody is told.                         *)
(*                                                                         *)
(* A request and the wait for its completion are one step, in which the    *)
(* request takes effect (module Infinity); a send waits for a receive      *)
(* buffer.  The map of a server is a function, which is right for keys     *)
(* that no two workers insert at a time (HoldsWhatWasPut of CuckooMap);    *)
(* of the others, which are in raced, nothing is claimed.                  *)
(***************************************************************************)
EXTENDS Integers, Sequences, FiniteSets, Functions, SequencesExt

CONSTANTS N,            \* the servers, and the client processes
          C,            \* clientsPerServer: the threads of a client process
          Workers,      \* WORKER_THREAD_COUNT of a server
          PerClient,    \* BUFFERS_PER_CLIENT
          Keys, Vals, NoVal,
          Elements,     \* what is put: a key and a value
          SIZE,         \* the buckets
          Populated,    \* what populate_store puts into every map
          MaxOps        \* bounds the puts of all threads together

ASSUME ReplicatedStoreAssumption ==
    /\ {N, C, PerClient, Workers, SIZE} \subseteq Nat \ {0}
    /\ Keys \subseteq Nat \ {0} /\ Elements \subseteq Keys \X Vals /\ NoVal \notin Vals
    /\ Populated \in [Keys -> Vals \cup {NoVal}] /\ MaxOps \in Nat

Servers == 0 .. N - 1
Master == N - 1
Processes == 0 .. N - 1
Threads == Processes \X (0 .. C - 1)

VARIABLES
    opened,      \* the connections each client process has opened
    arrivals,    \* whose connections the master accepted, in order
    phase,       \* what each client process does: "connect", "await", "run"
    buffer,      \* the free receive buffers of a client process
    mail,        \* the start messages it has not taken yet
    started,     \* the start messages the master has sent
    word,        \* word[s][x]: the lock word of bucket x
    srq, inbox,  \* the free receive buffers and the messages of a server
    working,     \* working[s]: the messages the workers of s have in their hands
    store,       \* store[s]: the map of server s
    call,        \* call[t]: the put a thread is in
    stats,       \* the counters of a thread
    applied,     \* how many elements a server has stored
    dropped,     \* the keys of the elements whose insert gave up at a server
    raced,       \* the keys of which two workers of a server had messages at a time
    ops          \* the puts begun

boot == <<opened, arrivals, phase, buffer, mail, started>>
data == <<word, srq, inbox, working, store, call, stats, applied, dropped, raced, ops>>
vars == <<boot, data>>

NoMsg == [key |-> 0, val |-> NoVal]
Idle == [pc |-> "idle", msg |-> NoMsg, first |-> 0, own |-> << >>, i |-> 1]

Init ==
    /\ opened = [p \in Processes |-> 0] /\ arrivals = << >>
    /\ phase = [p \in Processes |-> "connect"]
    /\ buffer = [p \in Processes |-> 0] /\ mail = [p \in Processes |-> 0]
    /\ started = 0
    /\ word = [s \in Servers |-> [x \in 0 .. SIZE - 1 |-> 0]]
    /\ srq = [s \in Servers |-> 0] /\ inbox = [s \in Servers |-> << >>]
    /\ working = [s \in Servers |-> << >>]
    /\ store = [s \in Servers |-> Populated]
    /\ call = [t \in Threads |-> Idle]
    /\ stats = [t \in Threads |-> [last |-> FALSE, added |-> 0, removed |-> 0]]
    /\ applied = [s \in Servers |-> 0] /\ dropped = [s \in Servers |-> << >>]
    /\ raced = {} /\ ops = 0

-----------------------------------------------------------------------------
\* Starting.  A client process opens C connections to each server, one server
\* after the other; a server posts its receive buffers and accepts, N * C times.
Connect(p) ==
    LET s == opened[p] \div C IN
    /\ opened[p] < N * C
    /\ opened' = [opened EXCEPT ![p] = @ + 1]
    /\ srq' = [srq EXCEPT ![s] = @ + PerClient]
    /\ arrivals' = IF s = Master THEN Append(arrivals, p) ELSE arrivals
    /\ UNCHANGED <<phase, buffer, mail, started, word, inbox, working, store, call, stats,
                   applied, dropped, raced, ops>>

\* Server s has all its connections.
Complete(s) == \A p \in Processes : opened[p] >= (s + 1) * C

\* Mutant: the first start message goes out when the first client is there.
Start_Early ==
    LET p == arrivals[started * C + 1] IN
    /\ started < N /\ Len(arrivals) > started * C
    /\ buffer[p] > 0
    /\ buffer' = [buffer EXCEPT ![p] = @ - 1]
    /\ mail' = [mail EXCEPT ![p] = @ + 1]
    /\ started' = started + 1
    /\ UNCHANGED <<opened, arrivals, phase, data>>

\* The master, having accepted everybody, tells the owner of connections[i][0]
\* for each i to start.  The send completes when that client has a buffer.
Start ==
    LET p == arrivals[started * C + 1] IN
    /\ started < N /\ Complete(Master)
    /\ buffer[p] > 0
    /\ buffer' = [buffer EXCEPT ![p] = @ - 1]
    /\ mail' = [mail EXCEPT ![p] = @ + 1]
    /\ started' = started + 1
    /\ UNCHANGED <<opened, arrivals, phase, data>>

\* The constructor of Remote is through; awaitMaster posts a buffer.
Ready(p) ==
    /\ phase[p] = "connect" /\ opened[p] = N * C
    /\ phase' = [phase EXCEPT ![p] = "await"]
    /\ buffer' = [buffer EXCEPT ![p] = @ + 1]
    /\ UNCHANGED <<opened, arrivals, mail, started, data>>

\* awaitMaster receives and posts the buffer again; run opens the barrier.
awaitMaster(p) ==
    /\ phase[p] = "await" /\ mail[p] > 0
    /\ phase' = [phase EXCEPT ![p] = "run"]
    /\ mail' = [mail EXCEPT ![p] = @ - 1]
    /\ buffer' = [buffer EXCEPT ![p] = @ + 1]
    /\ UNCHANGED <<opened, arrivals, started, data>>

-----------------------------------------------------------------------------
hash(key) == key % SIZE

Become(t, r) == call' = [call EXCEPT ![t] = r]

\* execute_remote_txs begins a put.
Call(t, m, s) ==
    /\ phase[t[1]] = "run" /\ call[t].pc = "idle" /\ ops < MaxOps
    /\ Become(t, [Idle EXCEPT !.pc = "lock", !.msg = m, !.first = s])
    /\ ops' = ops + 1
    /\ UNCHANGED <<boot, word, srq, inbox, working, store, stats, applied, dropped, raced>>

\* execute_remote_txs counts the put: every second put that succeeds is taken
\* for the removal of three elements.
Counted(st, ok) ==
    IF ~ok THEN st
    ELSE IF st.last THEN [st EXCEPT !.removed = @ + 3, !.last = FALSE]
    ELSE [st EXCEPT !.added = @ + 1, !.last = TRUE]

Return(t, ok) == Become(t, Idle) /\ stats' = [stats EXCEPT ![t] = Counted(@, ok)]

\* Mutant: what was locked stays locked when a server refuses.
prepareMessage_Keep(t) ==
    LET m == call[t]
        s == (m.first + Len(m.own)) % N
        x == hash(m.msg.key)
    IN  /\ m.pc = "lock"
        /\ word' = [word EXCEPT ![s][x] = 1]
        /\ \/ word[s][x] = 1 /\ Return(t, FALSE)
           \/ /\ word[s][x] = 0
              /\ Become(t, [m EXCEPT !.own = Append(@, s), !.pc = IF Len(m.own) = N - 1 THEN "send" ELSE @])
              /\ UNCHANGED stats
        /\ UNCHANGED <<boot, srq, inbox, working, store, applied, dropped, raced, ops>>

\* Mutant: the old value of the word is not looked at.
prepareMessage_Blind(t) ==
    LET m == call[t]
        s == (m.first + Len(m.own)) % N
    IN  /\ m.pc = "lock"
        /\ word' = [word EXCEPT ![s][hash(m.msg.key)] = 1]
        /\ Become(t, [m EXCEPT !.own = Append(@, s),
                               !.pc = IF Len(m.own) = N - 1 THEN "send" ELSE @])
        /\ UNCHANGED <<boot, srq, inbox, working, store, stats, applied, dropped, raced, ops>>

\* One compare-and-swap of prepareMessage: the next server gives its lock, or
\* the locks taken so far are released and the put aborts.
prepareMessage(t) ==
    LET m == call[t]
        s == (m.first + Len(m.own)) % N
        x == hash(m.msg.key)
    IN  /\ m.pc = "lock"
        /\ word' = [word EXCEPT ![s][x] = 1]
        /\ \/ word[s][x] = 1 /\ m.own = << >> /\ Return(t, FALSE)
           \/ /\ word[s][x] = 1 /\ m.own # << >>
              /\ Become(t, [m EXCEPT !.pc = "abort"])
              /\ UNCHANGED stats
           \/ /\ word[s][x] = 0
              /\ Become(t, [m EXCEPT !.own = Append(@, s),
                                     !.pc = IF Len(m.own) = N - 1 THEN "send" ELSE @])
              /\ UNCHANGED stats
        /\ UNCHANGED <<boot, srq, inbox, working, store, applied, dropped, raced, ops>>

\* Mutant: the loop of insert stops one server early.
insert_Short(t) ==
    LET m == call[t]
        s == m.own[m.i]
    IN  /\ m.pc = "send" /\ srq[s] > 0
        /\ srq' = [srq EXCEPT ![s] = @ - 1]
        /\ inbox' = [inbox EXCEPT ![s] = Append(@, m.msg)]
        /\ Become(t, IF m.i = N - 1 THEN [m EXCEPT !.pc = "release", !.i = 1]
                     ELSE [m EXCEPT !.i = @ + 1])
        /\ UNCHANGED <<boot, word, working, store, stats, applied, dropped, raced, ops>>

\* One send of insert.
insert(t) ==
    LET m == call[t]
        s == m.own[m.i]
    IN  /\ m.pc = "send" /\ srq[s] > 0
        /\ srq' = [srq EXCEPT ![s] = @ - 1]
        /\ inbox' = [inbox EXCEPT ![s] = Append(@, m.msg)]
        /\ Become(t, IF m.i = N THEN [m EXCEPT !.pc = "release", !.i = 1]
                     ELSE [m EXCEPT !.i = @ + 1])
        /\ UNCHANGED <<boot, word, working, store, stats, applied, dropped, raced, ops>>

\* One compare-and-swap of release, which sets the word to 0 if it is 1.
release(t) ==
    LET m == call[t]
        s == m.own[m.i]
    IN  /\ m.pc \in {"abort", "release"}
        /\ word' = [word EXCEPT ![s][hash(m.msg.key)] = 0]
        /\ IF m.i = Len(m.own)
           THEN Return(t, m.pc = "release")
           ELSE Become(t, [m EXCEPT !.i = @ + 1]) /\ UNCHANGED stats
        /\ UNCHANGED <<boot, srq, inbox, working, store, applied, dropped, raced, ops>>

-----------------------------------------------------------------------------
\* connection_handler: a free worker takes the next message ...
receive(s) ==
    LET m == Head(inbox[s]) IN
    /\ Complete(s) /\ Len(working[s]) < Workers /\ inbox[s] # << >>
    /\ working' = [working EXCEPT ![s] = Append(@, m)]
    /\ inbox' = [inbox EXCEPT ![s] = Tail(@)]
    /\ raced' = raced \cup {k \in {m.key} : \E j \in DOMAIN working[s] : working[s][j].key = k}
    /\ UNCHANGED <<boot, word, srq, store, call, stats, applied, dropped, ops>>

\* ... and inserts the element.  A key that is there is overwritten.
Stored(s, m) ==
    /\ store' = [store EXCEPT ![s][m.key] = m.val]
    /\ applied' = [applied EXCEPT ![s] = @ + 1]
    /\ UNCHANGED dropped

\* A key that is not there, or was not when the insert looked for it, may find no
\* room: the insert gives up, and its RESULT is ignored.
GivenUp(s, m) ==
    /\ store[s][m.key] = NoVal \/ m.key \in raced
    /\ dropped' = [dropped EXCEPT ![s] = Append(@, m.key)]
    /\ UNCHANGED <<store, applied>>

\* Mutant: the buffer is not posted again.
handle_NoPost(s, j) ==
    /\ Stored(s, working[s][j]) \/ GivenUp(s, working[s][j])
    /\ working' = [working EXCEPT ![s] = RemoveAt(@, j)]
    /\ UNCHANGED <<boot, word, srq, inbox, call, stats, raced, ops>>

\* Either way the buffer is posted again.
handle(s, j) ==
    /\ Stored(s, working[s][j]) \/ GivenUp(s, working[s][j])
    /\ working' = [working EXCEPT ![s] = RemoveAt(@, j)]
    /\ srq' = [srq EXCEPT ![s] = @ + 1]
    /\ UNCHANGED <<boot, word, inbox, call, stats, raced, ops>>

-----------------------------------------------------------------------------
Put(t) == prepareMessage(t) \/ insert(t) \/ release(t)
Boot(p) == Connect(p) \/ Ready(p) \/ awaitMaster(p)
Work(s) == receive(s) \/ \E j \in DOMAIN working[s] : handle(s, j)
Begin(t) == \E e \in Elements, s \in Servers : Call(t, [key |-> e[1], val |-> e[2]], s)

Quiet ==
    /\ \A t \in Threads : call[t].pc = "idle"
    /\ \A s \in Servers : inbox[s] = << >> /\ working[s] = << >>

Finished == Quiet /\ ops = MaxOps

Next ==
    \/ Start
    \/ \E p \in Processes : Boot(p)
    \/ \E t \in Threads : Begin(t) \/ Put(t)
    \/ \E s \in Servers : Work(s)
    \/ Finished /\ UNCHANGED vars

Spec == Init /\ [][Next]_vars

\* The inserts of a server that find their key and overwrite its value.
Known(s) == {j \in DOMAIN working[s] : store[s][working[s][j].key] # NoVal}

\* The processes run, the network delivers; nobody has to begin a put.  An insert
\* of a key that is not in the map may be told to retry for ever.
FairSpec ==
    /\ Spec
    /\ WF_vars(Start \/ \E p \in Processes : Boot(p))
    /\ \A t \in Threads : WF_vars(Put(t))
    /\ \A s \in Servers : WF_vars(receive(s)) /\ WF_vars(\E j \in Known(s) : handle(s, j))

-----------------------------------------------------------------------------
\* The servers at which t has the lock of its bucket, and who has the lock of
\* bucket x at server s.
Owns(t) ==
    LET m == call[t]
    IN  {m.own[j] : j \in (IF m.pc = "send" THEN 1 ELSE m.i) .. Len(m.own)}

Holders(s, x) == {t \in Threads : s \in Owns(t) /\ hash(call[t].msg.key) = x}

(* A lock word is 1 exactly while one put, and no second, owns the bucket: *)
(* no abort leaves a bucket locked for ever, none frees that of another    *)
(* (prepareMessage and release, lines 155 to 200).                         *)
LockWordsOwned ==
    \A s \in Servers, x \in 0 .. SIZE - 1 :
        Cardinality(Holders(s, x)) = word[s][x]

GaveUp(s, k) == \E j \in 1 .. Len(dropped[s]) : dropped[s][j] = k

(* When nothing is on its way the servers have the same value for every    *)
(* key, but for servers that do not have the key at all since their insert *)
(* of it gave up (Server.cpp, line 46), and for keys of which two workers  *)
(* had messages in their hands at the same time: the locks order the       *)
(* messages, not the workers.                                              *)
ReplicasAgree ==
    Quiet => \A k \in Keys \ raced : \E v \in Vals \cup {NoVal} : \A s \in Servers :
                 store[s][k] = v \/ (store[s][k] = NoVal /\ GaveUp(s, k))

(* The store is a "Replicated Hash Table" (README.md, line 1): when        *)
(* nothing is on its way, all servers have the same value for every key.   *)
(* They need not: two workers of a server can finish in another order than *)
(* those of another server, and one server can give up what another keeps. *)
ReplicasSame ==
    Quiet => \A k \in Keys, s \in Servers : store[s][k] = store[Master][k]

(* When nothing is on its way, every put that a client has counted has     *)
(* been stored or given up once by every server, and no put that aborted   *)
(* has (insert and prepareMessage of Remote.cpp, Server.cpp lines 43 to    *)
(* 48).  The "removed" are puts, counted threefold (Client.cpp, line 73).  *)
puts(t) == stats[t].added + stats[t].removed \div 3

CountersMatch ==
    Quiet => \A s \in Servers :
        applied[s] + Len(dropped[s]) = SumFunction([t \in Threads |-> puts(t)])

(* No client works before every server has all its connections, since the  *)
(* master is the server every client connects to last.                     *)
StartsComplete ==
    \A p \in Processes : phase[p] = "run" => \A s \in Servers : Complete(s)

(* The start message reaches every client (Server.cpp, lines 95 to 106).   *)
EveryClientStarts == \A p \in Processes : <>(phase[p] = "run")

(* With one thread per client all clients start and every put comes to its *)
(* end, although it waits for receive buffers while it holds locks, and    *)
(* every message is taken; what remains are inserts that retry.  This      *)
(* needs, at every server, a worker and a buffer that such inserts do not  *)
(* keep for ever.                                                          *)
Retrying(s) == Cardinality(DOMAIN working[s] \ Known(s))

Settles ==
    <>[](\A s \in Servers : Retrying(s) < Workers /\ Retrying(s) < N * C * PerClient)
    => []<>(/\ \A p \in Processes : phase[p] = "run"
            /\ \A t \in Threads : call[t].pc = "idle"
            /\ \A s \in Servers : inbox[s] = << >> /\ Known(s) = {})

-----------------------------------------------------------------------------
(* The inductive invariants behind the safety properties.                  *)
Messages == [key : Keys, val : Vals]

Calls ==
    [pc : {"idle", "lock", "send", "abort", "release"}, msg : Messages \cup {NoMsg},
     first : Servers, own : Seq(Servers), i : Nat]

TypeOK ==
    /\ opened \in [Processes -> Nat] /\ mail \in [Processes -> Nat]
    /\ phase \in [Processes -> {"connect", "await", "run"}]
    /\ word \in [Servers -> [0 .. SIZE - 1 -> {0, 1}]]
    /\ inbox \in [Servers -> Seq(Messages)] /\ working \in [Servers -> Seq(Messages)]
    /\ store \in [Servers -> [Keys -> Vals \cup {NoVal}]]
    /\ call \in [Threads -> Calls]
    /\ stats \in [Threads -> [last : BOOLEAN, added : Nat, removed : Nat]]
    /\ applied \in [Servers -> Nat] /\ dropped \in [Servers -> Seq(Keys)]

(* The start messages follow the last connection of the master.            *)
BootInv == \A p \in Processes : (phase[p] = "run" \/ mail[p] > 0) => Complete(Master)

(* A put goes round the servers from its first; it sends when it has been  *)
(* at all of them.                                                         *)
GoesRound(m) ==
    /\ Len(m.own) <= N /\ \A j \in 1 .. Len(m.own) : m.own[j] = (m.first + (j - 1)) % N
    /\ m.pc = "idle" => m.own = << >>
    /\ m.pc # "idle" => m.msg \in Messages
    /\ m.pc \in {"idle", "lock"} => m.i = 1
    /\ m.pc = "lock" => Len(m.own) < N
    /\ m.pc \in {"send", "release"} => Len(m.own) = N
    /\ m.pc \in {"send", "abort", "release"} => m.i \in 1 .. Len(m.own)

CallInv == \A t \in Threads : GoesRound(call[t])

LockInv ==
    \A s \in Servers, x \in 0 .. SIZE - 1 :
        /\ \A t, u \in Holders(s, x) : t = u
        /\ word[s][x] = IF Holders(s, x) = {} THEN 0 ELSE 1

(* Once its messages are handled, server s has v for key k, or does not    *)
(* have k since it gave up.                                                *)
Due(s, k, v) ==
    /\ \A j \in 1 .. Len(inbox[s]) :
          /\ inbox[s][j].key = k
          /\ \A l \in 1 .. Len(inbox[s]) : l > j => inbox[s][l].key # k
          => inbox[s][j].val = v
    /\ (\A l \in 1 .. Len(inbox[s]) : inbox[s][l].key # k) =>
          /\ \A j \in 1 .. Len(working[s]) : working[s][j].key = k => working[s][j].val = v
          /\ (\A j \in 1 .. Len(working[s]) : working[s][j].key # k) =>
                 store[s][k] = v \/ (store[s][k] = NoVal /\ GaveUp(s, k))

(* The put of t has sent its message to s.                                 *)
Reached(t, s) == \E j \in 1 .. call[t].i - 1 : call[t].own[j] = s

Sends(t, k, s) == call[t].pc = "send" /\ call[t].msg.key = k /\ Reached(t, s)

(* All servers come to the same value for k, but for those that the put in *)
(* progress has reached: these come to its value.                          *)
Agreement(k, v) ==
    \A s \in Servers :
        /\ \A t \in Threads : Sends(t, k, s) => Due(s, k, call[t].msg.val)
        /\ (\A t \in Threads : ~Sends(t, k, s)) => Due(s, k, v)

AgreeInv ==
    \A k \in Keys \ raced :
        /\ \A s \in Servers : \A i, j \in 1 .. Len(working[s]) :
              working[s][i].key = k /\ working[s][j].key = k => i = j
        /\ \E v \in Vals \cup {NoVal} : Agreement(k, v)

(* The messages of s are those of the finished puts and of the ones in     *)
(* progress that have reached it.                                          *)
weight(t, s) ==
    puts(t) + IF call[t].pc = "release" \/ (call[t].pc = "send" /\ Reached(t, s)) THEN 1 ELSE 0

CountInv ==
    /\ \A t \in Threads : stats[t].removed % 3 = 0
    /\ \A s \in Servers :
          applied[s] + Len(dropped[s]) + Len(inbox[s]) + Len(working[s])
              = SumFunction([t \in Threads |-> weight(t, s)])
=============================================================================
