------------------------------- MODULE Cuckoo -------------------------------
(***************************************************************************)
(* The concurrent cuckoo hash set of CuckooHash/Cuckoo.hpp: lock i covers  *)
(* bucket i of both tables.                                                *)
(*                                                                         *)
(* search reads the buckets without a lock and everything it found is      *)
(* validated later under locks, so its path may be any path here.  Inside  *)
(* a critical section one step is one read or write of a bucket; locks are *)
(* released in one step.                                                   *)
(***************************************************************************)
EXTENDS CuckooTables

CONSTANT NoThread

ASSUME CuckooAssumption == NoThread \notin Threads

VARIABLES lock,                  \* the owner of each bucket lock
          pc, op, val,           \* where each thread is, in which call
          idx,                   \* idx[t][f]: its bucket of table f, as it computed it
          want, goal,            \* the locks it still has to take, and what follows
          path, to,              \* insert: cells to displace along, cell to fill
          cap,                   \* resize: old_capacity
          net                    \* inserts minus removes that answered true

callVars == <<op, val>>
vars == <<buckets, cell, lock, inside, pc, op, val, idx, want, goal, path, to, cap, net>>

PCs == {"idle", "enter", "lock", "check", "write", "search", "place", "move", "clear",
        "find1", "find2", "capacity", "resize"}

TypeOK ==
    /\ buckets \in 1 .. MaxBuckets
    /\ cell \in [Cells -> Values \cup {EMPTY}]
    /\ lock \in [Indices -> Threads \cup {NoThread}]
    /\ inside \subseteq Threads
    /\ pc \in [Threads -> PCs] /\ goal \in [Threads -> PCs]
    /\ op \in [Threads -> {"none", "insert", "remove", "contains"}]
    /\ val \in [Threads -> Values \cup {EMPTY}]
    /\ idx \in [Threads -> [Tables -> Indices]]
    /\ want \in [Threads -> SUBSET Indices]
    /\ path \in [Threads -> Seq(Cells)] /\ \A t \in Threads : Len(path[t]) <= MaxDepth + 1
    /\ to \in [Threads -> Cells]
    /\ cap \in [Threads -> 0 .. MaxBuckets]
    /\ net \in Int

Init ==
    /\ buckets = Initial
    /\ cell = [c \in Cells |-> EMPTY]
    /\ lock = [i \in Indices |-> NoThread]
    /\ inside = {}
    /\ pc = [t \in Threads |-> "idle"] /\ goal = [t \in Threads |-> "idle"]
    /\ op = [t \in Threads |-> "none"] /\ val = [t \in Threads |-> EMPTY]
    /\ idx = [t \in Threads |-> [f \in Tables |-> 0]]
    /\ want = [t \in Threads |-> {}]
    /\ path = [t \in Threads |-> <<>>]
    /\ to = [t \in Threads |-> NoCell]
    /\ cap = [t \in Threads |-> 0]
    /\ net = 0

-----------------------------------------------------------------------------
Goto(t, l) == pc' = [pc EXCEPT ![t] = l]
Release(S) == lock' = [i \in Indices |-> IF i \in S THEN NoThread ELSE lock[i]]
Held(t) == {i \in Indices : lock[i] = t}

\* lock_two and lock_three take their locks in ascending order.
TakeLocks(t, S, l) ==
    /\ want' = [want EXCEPT ![t] = S]
    /\ goal' = [goal EXCEPT ![t] = l]
    /\ Goto(t, "lock")

\* Mutant: a lock is taken without waiting for its owner.
Acquire_NoWait(t) ==
    /\ pc[t] = "lock"
    /\ LET i == Min(want[t]) IN
          /\ lock' = [lock EXCEPT ![i] = t]
          /\ want' = [want EXCEPT ![t] = @ \ {i}]
          /\ Goto(t, IF want[t] = {i} THEN goal[t] ELSE "lock")
    /\ UNCHANGED <<buckets, cell, inside, callVars, idx, goal, path, to, cap, net>>

Acquire(t) ==
    /\ pc[t] = "lock"
    /\ LET i == Min(want[t]) IN
          /\ lock[i] = NoThread
          /\ lock' = [lock EXCEPT ![i] = t]
          /\ want' = [want EXCEPT ![t] = @ \ {i}]
          /\ Goto(t, IF want[t] = {i} THEN goal[t] ELSE "lock")
    /\ UNCHANGED <<buckets, cell, inside, callVars, idx, goal, path, to, cap, net>>

\* All locks go, then the call returns; its locals are forgotten.
Return(t) ==
    /\ Release(Held(t))
    /\ inside' = inside \ {t}
    /\ Goto(t, "idle")
    /\ op' = [op EXCEPT ![t] = "none"] /\ val' = [val EXCEPT ![t] = EMPTY]
    /\ idx' = [idx EXCEPT ![t] = [f \in Tables |-> 0]]
    /\ goal' = [goal EXCEPT ![t] = "idle"] /\ path' = [path EXCEPT ![t] = <<>>]
    /\ to' = [to EXCEPT ![t] = NoCell] /\ cap' = [cap EXCEPT ![t] = 0]
    /\ UNCHANGED <<buckets, want>>

\* RETRY: everything is released and the loop of insert goes round again.
Retry(t) ==
    /\ Release(Held(t))
    /\ inside' = inside \ {t}
    /\ Goto(t, "enter")
    /\ path' = [path EXCEPT ![t] = <<>>]
    /\ UNCHANGED <<buckets, cell, callVars, idx, want, goal, to, cap, net>>

\* insert computes its buckets once, before it takes the global lock.
Call(t, o, v) ==
    /\ pc[t] = "idle"
    /\ op' = [op EXCEPT ![t] = o] /\ val' = [val EXCEPT ![t] = v]
    /\ idx' = IF o = "insert" THEN [idx EXCEPT ![t] = Hashes(v)] ELSE idx
    /\ Goto(t, "enter")
    /\ UNCHANGED <<buckets, cell, lock, inside, want, goal, path, to, cap, net>>

\* pthread_rwlock_rdlock, after which remove and contains compute their buckets.
Enter(t) ==
    /\ pc[t] = "enter"
    /\ inside' = inside \cup {t}
    /\ idx' = IF op[t] = "insert" THEN idx ELSE [idx EXCEPT ![t] = Hashes(val[t])]
    /\ TakeLocks(t, {idx'[t][1], idx'[t][2]}, IF op[t] = "insert" THEN "check" ELSE "find1")
    /\ UNCHANGED <<buckets, cell, lock, callVars, path, to, cap, net>>

-----------------------------------------------------------------------------
\* contains and remove look into the bucket of table f.
FindIn(t, f) ==
    /\ pc[t] = IF f = 1 THEN "find1" ELSE "find2"
    /\ LET found == SlotsWith(f, idx[t][f], val[t]) # {} IN
          \/ /\ found /\ op[t] = "contains"
             /\ Return(t)
             /\ UNCHANGED <<cell, net>>
          \/ /\ found /\ op[t] = "remove"
             /\ cell' = [cell EXCEPT ![FirstSlot(f, idx[t][f], val[t])] = EMPTY]
             /\ net' = net - 1
             /\ Return(t)
          \/ /\ ~found /\ f = 1
             /\ Goto(t, "find2")
             /\ UNCHANGED <<buckets, cell, lock, inside, callVars, idx, want, goal,
                            path, to, cap, net>>
          \/ /\ ~found /\ f = 2
             /\ Return(t)
             /\ UNCHANGED <<cell, net>>

-----------------------------------------------------------------------------
Fill(t, c) ==
    /\ to' = [to EXCEPT ![t] = c]
    /\ Goto(t, "write")
    /\ UNCHANGED <<buckets, cell, lock, inside, callVars, idx, want, goal, path, cap, net>>

Full(f, i) == SlotsWith(f, i, EMPTY) = {}

\* insert(val, idx1, idx2) under the first two locks.
Check(t) ==
    LET b == idx[t]
        present == \E f \in Tables : SlotsWith(f, b[f], val[t]) # {}
    IN  /\ pc[t] = "check"
        /\ \/ present /\ Return(t) /\ UNCHANGED <<cell, net>>
           \/ ~present /\ ~Full(1, b[1]) /\ Fill(t, FirstSlot(1, b[1], EMPTY))
           \/ ~present /\ Full(1, b[1]) /\ ~Full(2, b[2]) /\ Fill(t, FirstSlot(2, b[2], EMPTY))
           \/ /\ ~present /\ Full(1, b[1]) /\ Full(2, b[2])
              /\ Release(Held(t))
              /\ Goto(t, "search")
              /\ UNCHANGED <<buckets, cell, inside, callVars, idx, want, goal, path, to, cap, net>>

\* SUCCESS: the value goes into the cell and the call returns true.
Write(t) ==
    /\ pc[t] = "write"
    /\ cell' = [cell EXCEPT ![to[t]] = val[t]]
    /\ net' = net + 1
    /\ Return(t)

\* The locks for the displacement of p[n - 1] into p[n]: the last displacement
\* keeps the home buckets for the write.
LocksFor(t, p, n) ==
    LET home == {idx[t][1], idx[t][2]} IN
    CASE n = 1 -> home
      [] n = 2 -> home \cup {p[2][2]}
      [] n > 2 -> {p[n][2], p[n - 1][2]}

SearchFinds(t) ==
    /\ pc[t] = "search"
    /\ \E p \in Paths(idx[t]) :
          /\ path' = [path EXCEPT ![t] = p]
          /\ TakeLocks(t, LocksFor(t, p, Len(p)), IF Len(p) = 1 THEN "place" ELSE "move")
    /\ UNCHANGED <<buckets, cell, lock, inside, callVars, idx, to, cap, net>>

\* RESIZE: the search gives up at the first value it meets twice, or at its
\* depth limit; what it met may have changed since.
SearchFails(t) ==
    /\ pc[t] = "search"
    /\ 2 * buckets <= MaxBuckets
    /\ inside' = inside \ {t}
    /\ Goto(t, "capacity")
    /\ UNCHANGED <<buckets, cell, lock, callVars, idx, want, goal, path, to, cap, net>>

\* Mutant: the free cell the search met is taken without a second look.
Place_Unchecked(t) == pc[t] = "place" /\ Fill(t, path[t][1])

\* A path of one cell: take it if it is still free.
Place(t) ==
    /\ pc[t] = "place"
    /\ \/ cell[path[t][1]] = EMPTY /\ Fill(t, path[t][1])
       \/ cell[path[t][1]] # EMPTY /\ Retry(t)

\* Mutant: the displaced value is not hashed again.
Move_NoHash(t) ==
    LET n == Len(path[t])
        from == path[t][n - 1]
        dest == path[t][n]
        valid == cell[dest] = EMPTY /\ cell[from] # EMPTY
    IN  /\ pc[t] = "move"
        /\ \/ /\ valid
              /\ cell' = [cell EXCEPT ![dest] = cell[from]]
              /\ Goto(t, "clear")
              /\ UNCHANGED <<buckets, lock, inside, callVars, idx, want, goal, path, to, cap, net>>
           \/ ~valid /\ Retry(t)

\* Displace the last cell but one of the path into the last one.
Move(t) ==
    LET n == Len(path[t])
        from == path[t][n - 1]
        dest == path[t][n]
        valid == /\ cell[dest] = EMPTY /\ cell[from] # EMPTY
                 /\ hash(cell[from], dest[1]) = dest[2]
    IN  /\ pc[t] = "move"
        /\ \/ /\ valid
              /\ cell' = [cell EXCEPT ![dest] = cell[from]]
              /\ Goto(t, "clear")
              /\ UNCHANGED <<buckets, lock, inside, callVars, idx, want, goal, path, to, cap, net>>
           \/ ~valid /\ Retry(t)

Clear(t) ==
    LET n == Len(path[t])
        p == [k \in 1 .. n - 1 |-> path[t][k]]
    IN  /\ pc[t] = "clear"
        /\ cell' = [cell EXCEPT ![path[t][n - 1]] = EMPTY]
        /\ path' = [path EXCEPT ![t] = p]
        /\ \/ /\ n = 2
              /\ Release(Held(t) \ {idx[t][1], idx[t][2]})
              /\ to' = [to EXCEPT ![t] = p[1]]
              /\ Goto(t, "write")
              /\ UNCHANGED <<want, goal>>
           \/ /\ n > 2
              /\ Release(Held(t))
              /\ TakeLocks(t, LocksFor(t, p, n - 1), "move")
              /\ to' = to
        /\ UNCHANGED <<buckets, inside, callVars, idx, cap, net>>

-----------------------------------------------------------------------------
ReadCapacity(t) ==
    /\ pc[t] = "capacity"
    /\ cap' = [cap EXCEPT ![t] = buckets]
    /\ Goto(t, "resize")
    /\ UNCHANGED <<buckets, cell, lock, inside, callVars, idx, want, goal, path, to, net>>

\* Mutant: resize does not wait for the readers of global_lock.
Resize_NoWait(t) ==
    /\ pc[t] = "resize"
    /\ IF cap[t] = buckets /\ 2 * buckets <= MaxBuckets
       THEN buckets' = 2 * buckets /\ cell' = Rebuilt(2 * buckets)
       ELSE UNCHANGED <<buckets, cell>>
    /\ Goto(t, "enter")
    /\ UNCHANGED <<lock, inside, callVars, idx, want, goal, path, to, cap, net>>

\* resize with global_lock held for writing; then insert starts over.
Resize(t) ==
    /\ pc[t] = "resize"
    /\ inside = {}
    /\ IF cap[t] = buckets /\ 2 * buckets <= MaxBuckets
       THEN buckets' = 2 * buckets /\ cell' = Rebuilt(2 * buckets)
       ELSE UNCHANGED <<buckets, cell>>
    /\ Goto(t, "enter")
    /\ UNCHANGED <<lock, inside, callVars, idx, want, goal, path, to, cap, net>>

-----------------------------------------------------------------------------
Step(t) ==
    \/ Enter(t) \/ Acquire(t)
    \/ \E f \in Tables : FindIn(t, f)
    \/ Check(t) \/ Write(t) \/ SearchFinds(t) \/ SearchFails(t)
    \/ Place(t) \/ Move(t) \/ Clear(t)
    \/ ReadCapacity(t) \/ Resize(t)

\* The loop of the benchmark, execute_local_txs: any call with any value.
Begin(t) == \E o \in {"insert", "remove", "contains"}, v \in Values : Call(t, o, v)

Next == \E t \in Threads : Begin(t) \/ Step(t)

Spec == Init /\ [][Next]_vars

-----------------------------------------------------------------------------
Copies(v) == {c \in Cells : cell[c] = v}

\* A value that moves is in two cells for a moment; this is the one it leaves.
Moving == {path[t][Len(path[t]) - 1] : t \in {u \in Threads : pc[u] = "clear"}}

(* Every stored value is in a bucket it hashes to, where contains looks    *)
(* for it: "else if element has changed and hash does not equal"           *)
(* (Cuckoo.hpp:491) takes that for granted.                                *)
HomeBuckets == \A c \in Occupied : hash(cell[c], c[1]) = c[2]

(* The size of the set is the number of inserts minus the number of        *)
(* removes that answered true ("Set size ... expected", test.cpp:198).     *)
ExpectedSize == Cardinality(Occupied \ Moving) = net

(* As long as nobody resizes, displacements leave every value in a bucket  *)
(* it hashes to (insert, lines 480 to 533).                                *)
HomeUntilResize == buckets = Initial => HomeBuckets

(* As long as nobody resizes the table has one cell for every insert, less *)
(* one for every remove, that answered true: stale displacements and       *)
(* removes lose, overwrite and double none (insert, lines 480 to 533).     *)
SizeUntilResize == buckets = Initial => ExpectedSize

(* What an operation did not find in its bucket of table 1 does not get    *)
(* there before it looks into table 2 (contains, remove).                  *)
NotMovedBehind ==
    \A t \in Threads : pc[t] = "find2" => SlotsWith(1, idx[t][1], val[t]) = {}

(* The tables are replaced only when nobody works on them.                 *)
ResizeIsAlone ==
    [][buckets' # buckets => inside = {} /\ \A i \in Indices : lock[i] = NoThread]_vars

(* The set holds a value once: an insert of a value that is there answers  *)
(* DUPLICATE.                                                              *)
NoDuplicates == \A v \in Values : Cardinality(Copies(v) \ Moving) <= 1

-----------------------------------------------------------------------------
\* The inductive invariant.  Where thread t is, or will be with its locks.
Home(t) == {idx[t][1], idx[t][2]}
Aim(t) == IF pc[t] = "lock" THEN goal[t] ELSE pc[t]
Outside == {"idle", "enter", "capacity", "resize"}

\* A call works in the tables exactly while it holds global_lock, on a path from
\* one of its buckets; without a resize they are those of its value.
CallOK(t) ==
    /\ t \in inside <=> pc[t] \notin Outside
    /\ pc[t] # "idle" => val[t] \in Values
    /\ pc[t] = "lock" => goal[t] \in {"check", "place", "move", "find1"} /\ want[t] # {}
    /\ Aim(t) \in {"place", "move", "clear"} =>
        Len(path[t]) >= 1 /\ path[t][1][2] = idx[t][path[t][1][1]]
    /\ Aim(t) \in {"move", "clear"} =>
        Len(path[t]) >= 2 /\ \A k \in 2 .. Len(path[t]) : path[t][k][1] # path[t][k - 1][1]
    /\ pc[t] = "write" => to[t][2] = idx[t][to[t][1]]
    /\ (buckets = Initial /\ (t \in inside \/ op[t] = "insert")) =>
        \A f \in Tables : idx[t][f] = hash(val[t], f)

\* It has the locks of the buckets it is about to read and write.
Needs(t) ==
    IF Aim(t) \in {"move", "clear"} THEN LocksFor(t, path[t], Len(path[t]))
    ELSE IF Aim(t) \in {"check", "place", "write", "find1", "find2"} THEN Home(t)
    ELSE {}

LockOK(t) ==
    /\ pc[t] \in Outside \cup {"search"} => Held(t) = {}
    /\ Needs(t) \subseteq IF pc[t] = "lock" THEN Held(t) \cup want[t] ELSE Held(t)

\* What it found in them is still there.
Knows(t) ==
    LET n == Len(path[t]) IN
    /\ pc[t] = "write" => cell[to[t]] = EMPTY
    /\ pc[t] = "clear" => cell[path[t][n - 1]] # EMPTY /\ cell[path[t][n]] = cell[path[t][n - 1]]
    /\ pc[t] = "find2" => SlotsWith(1, idx[t][1], val[t]) = {}

IInv ==
    /\ TypeOK /\ Initial <= buckets
    /\ \A t \in Threads : CallOK(t) /\ LockOK(t) /\ Knows(t)
    /\ HomeUntilResize
=============================================================================
