----------------------------- MODULE CuckooMap ------------------------------
(***************************************************************************)
(* The key-value map of the replicated store,                              *)
(* ReplicatedKeyValueStoreRDMA/Persistence/KeyValueStore/Cuckoo.hpp: ONE   *)
(* table; a key lives in one of the two buckets it hashes to; a spin lock  *)
(* per bucket; no resize.  insert of a key that is present overwrites its  *)
(* value.  contains looks at the slots one after the other without a lock; *)
(* get is the remote reader (App/Remote.cpp), which knows no locks either  *)
(* and computes the buckets with a hash function of its own.               *)
(*                                                                         *)
(* search reads the buckets without a lock and everything it found is      *)
(* validated later under locks, so its path may be any path here.  What a  *)
(* thread does to buckets it has locked is one step per write, because     *)
(* unlocked readers see every write; an element is written as a whole.     *)
(***************************************************************************)
EXTENDS Integers, Sequences, FiniteSets, FiniteSetsExt

CONSTANTS Threads, NoThread,
          Keys, Vals,        \* EMPTY, the key 0, is not a key of a caller
          Buckets, WIDTH,    \* ENTRY_WIDTH slots in a bucket
          Secondary,         \* secondary_hash of the map, a mixing of the bits of the key
          RemoteSecondary,   \* secondary_hash of the remote clients
          Nothing, Raced,    \* see stored
          MaxDepth           \* the most displacements one insert tries

ASSUME CuckooMapAssumption ==
    /\ NoThread \notin Threads
    /\ Keys \subseteq Nat \ {0}
    /\ WIDTH \in Nat \ {0} /\ Buckets \in Nat \ {0} /\ MaxDepth \in Nat
    /\ Secondary \in [Keys \cup {0} -> Nat] /\ RemoteSecondary \in [Keys \cup {0} -> Nat]
    /\ Nothing # Raced /\ Nothing \notin Vals /\ Raced \notin Vals

EMPTY == 0
Node == [key : Keys, val : Vals]
Vacant == [key |-> EMPTY, val |-> EMPTY]     \* the value of a free slot is never read
Indices == 0 .. Buckets - 1
Cells == Indices \X (0 .. WIDTH - 1)         \* <<index, slot>>

VARIABLES table,      \* the contents of the cells
          lock,       \* the owner of each bucket lock
          call,       \* call[t]: the call thread t is in, see Idle
          net,        \* inserts minus removes that answered TRUE
          steady,     \* the readers whose key was in the table ever since they began
                      \* and did not move inside a bucket
          stored      \* stored[k]: the value the last insert or remove of k left, if any;
                      \* Raced once two inserts of k have been under way together

vars == <<table, lock, call, net, steady, stored>>

\* pc and op; the element; the locks still to take and what follows them; the
\* path; the cell to fill and whether it is new; the next cell to read.
Idle == [pc |-> "idle", op |-> "none", node |-> Vacant, want |-> {}, goal |-> "idle",
         path |-> << >>, to |-> <<0, 0>>, new |-> FALSE, pos |-> 0]

Init ==
    /\ table = [c \in Cells |-> Vacant]
    /\ lock = [i \in Indices |-> NoThread]
    /\ call = [t \in Threads |-> Idle]
    /\ net = 0
    /\ steady = {}
    /\ stored = [k \in Keys |-> Nothing]

-----------------------------------------------------------------------------
hash(k, f) == IF f = 1 THEN k % Buckets ELSE Secondary[k] % Buckets

Homes(k) == {hash(k, 1), hash(k, 2)}

\* Remote::hash.
remoteHash(k, f) == IF f = 1 THEN k % Buckets ELSE RemoteSecondary[k] % Buckets

\* find, findSlot and isAvailable: the first slot of bucket i that holds k.
SlotsWith(i, k) == {s \in 0 .. WIDTH - 1 : table[<<i, s>>].key = k}
FirstSlot(i, k) == <<i, Min(SlotsWith(i, k))>>
Present(k) == \E c \in Cells : table[c].key = k

Become(t, r) == call' = [call EXCEPT ![t] = r]
Held(t) == {i \in Indices : lock[i] = t}
Release(S) == lock' = [i \in Indices |-> IF i \in S THEN NoThread ELSE lock[i]]
Return(t) == Release(Held(t)) /\ Become(t, Idle)

\* lock_two and lock_three: the locks of S, then l.
Locking(t, S, l) == [call[t] EXCEPT !.pc = "lock", !.want = S, !.goal = l]

\* Mutant: lock_two and lock_three take the locks in descending order when
\* the thread inserts.
Acquire_Unordered(t) ==
    LET i == IF call[t].op = "insert" THEN Max(call[t].want) ELSE Min(call[t].want) IN
    /\ call[t].pc = "lock"
    /\ lock[i] = NoThread
    /\ lock' = [lock EXCEPT ![i] = t]
    /\ Become(t, [call[t] EXCEPT !.want = @ \ {i},
                                 !.pc = IF call[t].want = {i} THEN call[t].goal ELSE @])
    /\ UNCHANGED <<table, net>>

\* One pthread_spin_lock; the order is ascending.
Acquire(t) ==
    LET i == Min(call[t].want) IN
    /\ call[t].pc = "lock"
    /\ lock[i] = NoThread
    /\ lock' = [lock EXCEPT ![i] = t]
    /\ Become(t, [call[t] EXCEPT !.want = @ \ {i},
                                 !.pc = IF call[t].want = {i} THEN call[t].goal ELSE @])
    /\ UNCHANGED <<table, net>>

Call(t, o, n) ==
    LET r == [Idle EXCEPT !.op = o, !.node = n] IN
    /\ call[t].pc = "idle"
    /\ Become(t, IF o \in {"contains", "get"} THEN [r EXCEPT !.pc = o]
                 ELSE [r EXCEPT !.pc = "lock", !.want = Homes(n.key),
                                !.goal = IF o = "insert" THEN "check" ELSE "erase"])
    /\ UNCHANGED <<table, lock, net>>

-----------------------------------------------------------------------------
\* The cell contains reads next, bucket hash 1 before bucket hash 2.
NextRead(t) ==
    LET p == call[t].pos
    IN  <<hash(call[t].node.key, IF p < WIDTH THEN 1 ELSE 2), p % WIDTH>>
Found(t) == table[NextRead(t)].key = call[t].node.key
LastRead(t) == call[t].pos = 2 * WIDTH - 1

contains(t) ==
    /\ call[t].pc = "contains"
    /\ Become(t, IF Found(t) \/ LastRead(t) THEN Idle ELSE [call[t] EXCEPT !.pos = @ + 1])
    /\ UNCHANGED <<table, lock, net>>

\* A remote client fetches the first bucket, which is one line of the cache, at
\* once, and then the second.
Fetched(t) == SlotsWith(remoteHash(call[t].node.key, call[t].pos + 1), call[t].node.key) # {}

get(t) ==
    /\ call[t].pc = "get"
    /\ Become(t, IF Fetched(t) \/ call[t].pos = 1 THEN Idle ELSE [call[t] EXCEPT !.pos = @ + 1])
    /\ UNCHANGED <<table, lock, net>>

\* remove, with both buckets locked.
remove(t) ==
    LET k == call[t].node.key
        homes == {f \in {1, 2} : SlotsWith(hash(k, f), k) # {}}
    IN  /\ call[t].pc = "erase"
        /\ IF homes = {}
           THEN UNCHANGED <<table, net>>
           ELSE /\ table' = [table EXCEPT ![FirstSlot(hash(k, Min(homes)), k)] = Vacant]
                /\ net' = net - 1
        /\ Return(t)

-----------------------------------------------------------------------------
Fill(t, c, new) ==
    /\ Become(t, [call[t] EXCEPT !.pc = "write", !.to = c, !.new = new])
    /\ UNCHANGED lock

\* Mutant: only the first bucket is searched for the key.
Check_FirstBucket(t) ==
    LET k == call[t].node.key
        dups == {f \in {1} : SlotsWith(hash(k, f), k) # {}}
        free == {f \in {1, 2} : SlotsWith(hash(k, f), EMPTY) # {}}
    IN  /\ call[t].pc = "check"
        /\ \/ dups # {} /\ Fill(t, FirstSlot(hash(k, Min(dups)), k), FALSE)
           \/ dups = {} /\ free # {} /\ Fill(t, FirstSlot(hash(k, Min(free)), EMPTY), TRUE)
           \/ /\ dups = {} /\ free = {}
              /\ Release(Held(t))
              /\ Become(t, [call[t] EXCEPT !.pc = "search"])
        /\ UNCHANGED <<table, net>>

\* The inner insert under the first two locks: DUPLICATE, SUCCESS, or a search.
Check(t) ==
    LET k == call[t].node.key
        dups == {f \in {1, 2} : SlotsWith(hash(k, f), k) # {}}
        free == {f \in {1, 2} : SlotsWith(hash(k, f), EMPTY) # {}}
    IN  /\ call[t].pc = "check"
        /\ \/ dups # {} /\ Fill(t, FirstSlot(hash(k, Min(dups)), k), FALSE)
           \/ dups = {} /\ free # {} /\ Fill(t, FirstSlot(hash(k, Min(free)), EMPTY), TRUE)
           \/ /\ dups = {} /\ free = {}
              /\ Release(Held(t))
              /\ Become(t, [call[t] EXCEPT !.pc = "search"])
        /\ UNCHANGED <<table, net>>

\* The element goes into its slot; the answer is DUP or TRUE.
Write(t) ==
    /\ call[t].pc = "write"
    /\ table' = [table EXCEPT ![call[t].to] = call[t].node]
    /\ net' = IF call[t].new THEN net + 1 ELSE net
    /\ Return(t)

\* The paths from a home bucket: the buckets alternate between the hash
\* functions, each one being that of some key, or of EMPTY.
Paths(t) ==
    LET Alternating(first) ==
            {p \in UNION {[1 .. n -> Cells] : n \in 1 .. MaxDepth + 1} :
                \A n \in DOMAIN p :
                   \E k \in IF n = 1 THEN {call[t].node.key} ELSE Keys \cup {EMPTY} :
                      p[n][1] = hash(k, IF n % 2 = 1 THEN first ELSE 3 - first)}
    IN  Alternating(1) \cup Alternating(2)

\* The locks for the displacement of p[n - 1] into p[n]: the last displacement
\* keeps the home buckets for the write.
LocksFor(t, p, n) ==
    LET home == Homes(call[t].node.key) IN
    IF n = 1 THEN home
    ELSE IF n = 2 THEN home \cup {p[2][1]}
    ELSE {p[n][1], p[n - 1][1]}

\* search, the decoding of its path, and the call of lock_two or lock_three.
SearchFinds(t) ==
    /\ call[t].pc = "search"
    /\ \E p \in Paths(t) :
          LET r == Locking(t, LocksFor(t, p, Len(p)), IF Len(p) = 1 THEN "place" ELSE "move")
          IN  Become(t, [r EXCEPT !.path = p])
    /\ UNCHANGED <<table, lock, net>>

\* RESIZE: the search met a key twice or found no room; ABORT_FAILURE.
SearchFails(t) ==
    /\ call[t].pc = "search"
    /\ Return(t)
    /\ UNCHANGED <<table, net>>

\* RETRY: the locks are released and the loop of insert goes round again.
Retry(t) ==
    /\ Release(Held(t))
    /\ Become(t, [Locking(t, Homes(call[t].node.key), "check") EXCEPT !.path = << >>])

\* Mutant: the free cell the search met is taken without a second look.
Place_Unchecked(t) ==
    /\ call[t].pc = "place"
    /\ Fill(t, call[t].path[1], TRUE)
    /\ UNCHANGED <<table, net>>

\* A path of one cell: take it if it is still free.
Place(t) ==
    LET c == call[t].path[1] IN
    /\ call[t].pc = "place"
    /\ \/ table[c] = Vacant /\ Fill(t, c, TRUE)
       \/ table[c] # Vacant /\ Retry(t)
    /\ UNCHANGED <<table, net>>

From(t) == call[t].path[Len(call[t].path) - 1]
Dest(t) == call[t].path[Len(call[t].path)]

\* Copy the last cell but one of the path into the last one, or RETRY.
Displace(t, valid) ==
    /\ call[t].pc = "move"
    /\ \/ /\ table[Dest(t)] = Vacant /\ table[From(t)] # Vacant /\ valid
          /\ table' = [table EXCEPT ![Dest(t)] = table[From(t)]]
          /\ Become(t, [call[t] EXCEPT !.pc = "clear"])
          /\ UNCHANGED lock
       \/ /\ ~(table[Dest(t)] = Vacant /\ table[From(t)] # Vacant /\ valid)
          /\ Retry(t)
          /\ UNCHANGED table
    /\ UNCHANGED net

\* Mutant: the displaced key is hashed by either function.
Move_EitherHash(t) == Displace(t, Dest(t)[1] \in Homes(table[From(t)].key))

\* The bucket must still be the one of the key's second hash, whichever hash
\* function the path used.
Move(t) == Displace(t, hash(table[From(t)].key, 2) = Dest(t)[1])

\* Free the cell the element left; then the displacement before it, or the write.
Clear(t) ==
    LET n == Len(call[t].path)
        p == SubSeq(call[t].path, 1, n - 1)
    IN  /\ call[t].pc = "clear"
        /\ table' = [table EXCEPT ![p[n - 1]] = Vacant]
        /\ \/ /\ n = 2
              /\ Release(Held(t) \ Homes(call[t].node.key))
              /\ Become(t, [call[t] EXCEPT !.pc = "write", !.path = << >>, !.to = p[1],
                                           !.new = TRUE])
           \/ /\ n > 2
              /\ Release(Held(t))
              /\ Become(t, [Locking(t, LocksFor(t, p, n - 1), "move") EXCEPT !.path = p])
        /\ UNCHANGED net

-----------------------------------------------------------------------------
Step(t) ==
    \/ Acquire(t) \/ contains(t) \/ get(t) \/ remove(t) \/ Check(t) \/ Write(t)
    \/ SearchFinds(t) \/ SearchFails(t) \/ Place(t) \/ Move(t) \/ Clear(t)

\* The loop of the benchmark, execute_local_txs, and of the remote clients: any
\* call with any element.
Begin(t) ==
    \/ \E n \in Node : Call(t, "insert", n)
    \/ \E o \in {"remove", "contains", "get"}, k \in Keys : Call(t, o, [Vacant EXCEPT !.key = k])

SeesKey(t) == Present(call[t].node.key)

\* Key k gets into a slot of a bucket where another slot holds it already.
Shuffled(k) ==
    \E c \in Cells, s \in 0 .. WIDTH - 1 :
        /\ table[c].key = k /\ table[<<c[1], s>>].key # k
        /\ table'[<<c[1], s>>].key = k

\* The observer: whose key was in the table all the time, and not moved inside
\* a bucket.
Observe ==
    steady' = {t \in Threads : /\ call'[t].pc \in {"contains", "get"} /\ SeesKey(t)'
                               /\ \/ call[t].pc = "idle"
                                  \/ t \in steady /\ ~Shuffled(call[t].node.key)}

Inserting(k) == {t \in Threads : call[t].op = "insert" /\ call[t].node.key = k}

\* What the step of t leaves as the value of each key.  The second of two inserts
\* that are under way together need not see the first (the search is not followed
\* by a second look for the key), so nothing is said of the key from then on.
Record(t) ==
    stored' = [k \in Keys |->
        IF stored[k] = Raced \/ \E u, v \in Inserting(k)' : u # v THEN Raced
        ELSE IF call[t].node.key = k /\ call[t].pc = "write" THEN call[t].node.val
        ELSE IF call[t].node.key = k /\ call[t].pc = "erase" THEN Nothing
        ELSE stored[k]]

Next == (\E t \in Threads : (Begin(t) \/ Step(t)) /\ Record(t)) /\ Observe

Spec == Init /\ [][Next]_vars

-----------------------------------------------------------------------------
Occupied == {c \in Cells : table[c] # Vacant}

\* A key that moves is in two cells for a moment; this is the one it leaves.
Moving ==
    {call[t].path[Len(call[t].path) - 1] : t \in {u \in Threads : call[u].pc = "clear"}}

(* No insert, remove or displacement overwrites or drops an element in     *)
(* another one's cell, and no displacement doubles one: as many cells are  *)
(* taken as inserts answered TRUE minus removes that did (insert, lines    *)
(* 391 to 509).  Two inserts of one key that are under way together can    *)
(* both answer TRUE, and then take a cell each.                            *)
SizeIsExact == Cardinality(Occupied \ Moving) = net

(* As long as no two inserts of a key have been under way together, the    *)
(* map is a function from keys to values: the key is in at most one cell,  *)
(* with the value of the last insert of it that stored one, and in none    *)
(* after a remove (insert, lines 131 to 145 and 391 to 509; remove).  An   *)
(* insert of the key that is under way may have searched, displaced, been  *)
(* told to retry or given up.                                              *)
HoldsWhatWasPut ==
    \A k \in Keys :
        LET at == {c \in Cells \ Moving : table[c].key = k} IN
        /\ stored[k] = Nothing => at = {}
        /\ stored[k] \in Vals => \E c \in Cells : at = {c} /\ table[c].val = stored[k]

Misses(t) ==
    /\ call'[t].pc = "idle"
    /\ \/ call[t].pc = "contains" /\ ~Found(t)
       \/ call[t].pc = "get" /\ ~Fetched(t)

(* A reader that looks into the first and then into the second bucket of a *)
(* key without a lock finds it if it was in the table all the time,        *)
(* displaced under its eyes or not: elements only move from first to       *)
(* second buckets (insert, line 475).  There are two exceptions: an        *)
(* element that is displaced inside a bucket, and a remote reader for      *)
(* which the second bucket is another one than for the map.                *)
NoFalseNegative ==
    [][\A t \in Threads : Misses(t) /\ t \in steady =>
          LET k == call[t].node.key IN call[t].pc = "get" /\ remoteHash(k, 2) # hash(k, 2)]_vars

(* A remote reader reads "remotely offset by location of key" (Remote.cpp, *)
(* lines 99 and 104): it finds a key that was in the table all the time.   *)
(* It does not, as its secondary_hash is not that of the map.              *)
RemoteFindsKey ==
    [][\A t \in Threads : Misses(t) /\ call[t].pc = "get" => t \notin steady]_vars

(* No set of threads waits for locks that only its own members hold, and   *)
(* nobody waits for its own (lock_two, lock_three and the unlocks).        *)
NoCircularWait ==
    \A S \in (SUBSET Threads) \ {{}} :
        \E t \in S : call[t].pc = "lock" => lock[Min(call[t].want)] \notin S

-----------------------------------------------------------------------------
(* The inductive invariant behind them.                                    *)
Calls ==
    [pc : {"idle", "lock", "contains", "get", "erase", "check", "write", "search", "place",
           "move", "clear"},
     op : {"none", "insert", "remove", "contains", "get"},
     node : [key : Keys \cup {EMPTY}, val : Vals \cup {EMPTY}], want : SUBSET Indices,
     goal : {"idle", "check", "erase", "place", "move"}, path : Seq(Cells), to : Cells,
     new : BOOLEAN, pos : 0 .. 2 * WIDTH - 1]

TypeOK ==
    /\ table \in [Cells -> Node \cup {Vacant}]
    /\ lock \in [Indices -> Threads \cup {NoThread}]
    /\ call \in [Threads -> Calls]
    /\ net \in Int /\ steady \subseteq Threads
    /\ stored \in [Keys -> Vals \cup {Nothing, Raced}]

\* What a thread does, or will do once it has its locks.
Aim(m) == IF m.pc = "lock" THEN m.goal ELSE m.pc

CallOK(m) ==
    /\ m.pc # "idle" => m.node.key \in Keys
    /\ m.pc = "lock" => m.want # {} /\ m.goal # "idle"
    /\ m.pc = "get" => m.pos \in {0, 1}
    /\ Aim(m) \in {"check", "write", "search", "place", "move", "clear"} => m.node \in Node
    /\ Aim(m) \in {"place", "move", "clear"} =>
          m.path # << >> /\ m.path[1][1] \in Homes(m.node.key)
    /\ Aim(m) \in {"move", "clear"} => Len(m.path) >= 2
    /\ m.pc = "write" => m.to[1] \in Homes(m.node.key)

CallInv == \A t \in Threads : CallOK(call[t])

(* The buckets a thread relies on, and that it locks them in ascending     *)
(* order, holding none between two rounds.                                 *)
Needs(m) ==
    LET n == Len(m.path) IN
    IF Aim(m) \in {"check", "erase"} THEN Homes(m.node.key)
    ELSE IF Aim(m) = "place" THEN {m.path[1][1]}
    ELSE IF Aim(m) \in {"move", "clear"} THEN {m.path[n - 1][1], m.path[n][1]}
    ELSE IF Aim(m) = "write" THEN {m.to[1]} ELSE {}

LockOK(m, held) ==
    /\ m.pc \in {"idle", "search", "contains", "get"} => held = {}
    /\ m.pc # "lock" => Needs(m) \subseteq held
    /\ m.pc = "lock" => /\ Needs(m) \subseteq held \cup m.want
                        /\ \A i \in held, j \in m.want : i < j

LockInv == \A t \in Threads : LockOK(call[t], Held(t))

(* What a thread knows of the cells whose buckets it has locked.           *)
Knows(m, cells) ==
    LET from == m.path[Len(m.path) - 1]
        dest == m.path[Len(m.path)]
    IN  /\ m.pc = "write" => IF m.new THEN cells[m.to] = Vacant ELSE cells[m.to].key = m.node.key
        /\ m.pc = "clear" => /\ cells[from] # Vacant /\ cells[dest] = cells[from] /\ from # dest
                             /\ hash(cells[from].key, 2) = dest[1]

CellInv == \A t \in Threads : Knows(call[t], table)

HomeInv == \A c \in Cells : table[c] # Vacant => c[1] \in Homes(table[c].key)

(* Behind HoldsWhatWasPut: one insert of the key at a time, and no cell    *)
(* has the key from the time the insert looked for it in vain to its end.  *)
InsertPCs == {"check", "write", "search", "place", "move", "clear"}

Unseen(m) == Aim(m) \in {"search", "place", "move", "clear"} \/ m.new

FreshInv ==
    /\ \A t \in Threads : Aim(call[t]) \in InsertPCs => call[t].op = "insert"
    /\ \A k \in Keys : stored[k] # Raced =>
          /\ \A t, u \in Inserting(k) : t = u
          /\ \A t \in Inserting(k) : Unseen(call[t]) => ~Present(k)

(* Cell c is one the reader has still to look at.                          *)
Ahead(m, c) ==
    LET k == m.node.key IN
    \/ /\ m.pc = "contains"
       /\ \/ c[1] = hash(k, 1) /\ c[2] >= m.pos
          \/ c[1] = hash(k, 2) /\ WIDTH + c[2] >= m.pos
    \/ m.pc = "get" /\ (m.pos = 0 \/ c[1] = hash(k, 2))

(* The key of a steady reader is in a cell that it has still to look at    *)
(* and that is not about to be cleared.                                    *)
SeenInv ==
    \A t \in steady :
        \E c \in Cells \ Moving : table[c].key = call[t].node.key /\ Ahead(call[t], c)
=============================================================================
