---------------------------- MODULE CuckooProofs ----------------------------
(***************************************************************************)
(* The two cuckoo hash sets, with bucket locks and with transactions, for  *)
(* any threads, values, number of buckets, width of a bucket and length of *)
(* a path.                                                                 *)
(*                                                                         *)
(* With locks, as in the map of a replica, a step keeps to its own call,   *)
(* locks and cells (GoodStep), so what a thread knows of locked cells      *)
(* stays true; a resize is alone.  With transactions nobody knows anything *)
(* between two steps, and each step is shown to store, erase, displace or  *)
(* rebuild correctly on its own.                                           *)
(***************************************************************************)
EXTENDS Cuckoo, TMCuckoo, FiniteSetFacts, SequenceTheorems

-----------------------------------------------------------------------------
\* The least element of a set, cells and the hash functions.
LEMMA MinFacts ==
    ASSUME NEW S, IsFiniteSet(S), S # {}, \A x \in S : x \in Int
    PROVE  Min(S) \in S /\ \A x \in S : Min(S) <= x
<1>1. \E x \in S : \A y \in S : x <= y
  BY SmallestExists
<1> QED BY <1>1 DEF Min

LEMMA SomeFinite ==
    /\ Indices \subseteq Nat /\ 0 \in Indices /\ 0 \in Slots
    /\ \A S : S \subseteq Indices => IsFiniteSet(S) /\ \A x \in S : x \in Int
    /\ \A f, i, v : IsFiniteSet(SlotsWith(f, i, v)) /\ \A x \in SlotsWith(f, i, v) : x \in Int
<1>1. IsFiniteSet(Indices) /\ IsFiniteSet(Slots)
  BY TablesAssumption, FS_Interval DEF Indices, Slots
<1>2. Indices \subseteq Nat /\ Slots \subseteq Nat /\ 0 \in Indices /\ 0 \in Slots
  BY TablesAssumption DEF Indices, Slots
<1>3. \A S : S \subseteq Indices => IsFiniteSet(S)
  BY <1>1, FS_Subset
<1>4. \A f, i, v : SlotsWith(f, i, v) \subseteq Slots
  BY DEF SlotsWith
<1>5. \A f, i, v : IsFiniteSet(SlotsWith(f, i, v))
  BY <1>1, <1>4, FS_Subset
<1>6. \A f, i, v : \A x \in SlotsWith(f, i, v) : x \in Int
  BY TablesAssumption DEF SlotsWith, Slots
<1>7. \A S : S \subseteq Indices => \A x \in S : x \in Int
  BY <1>2
<1> QED BY <1>2, <1>3, <1>5, <1>6, <1>7

LEMMA CellFacts ==
    /\ \A f \in Tables, i \in Indices, s \in Slots :
            <<f, i, s>> \in Cells /\ <<f, i, s>>[1] = f /\ <<f, i, s>>[2] = i /\ <<f, i, s>>[3] = s
    /\ \A c \in Cells : /\ c[1] \in Tables /\ c[2] \in Indices /\ c[3] \in Slots
                         /\ c = <<c[1], c[2], c[3]>>
BY DEF Cells

LEMMA NoCellFact == NoCell \in Cells
BY CellFacts, SomeFinite DEF NoCell, Tables

LEMMA CellsFinite == IsFiniteSet(Cells)
<1> DEFINE P == Tables \X (Indices \X Slots)
           f == [x \in P |-> <<x[1], x[2][1], x[2][2]>>]
<1>1. IsFiniteSet(Indices) /\ IsFiniteSet(Slots) /\ IsFiniteSet(Tables)
  <2>1. IsFiniteSet(Indices) /\ IsFiniteSet(Slots)
    BY TablesAssumption, FS_Interval DEF Indices, Slots
  <2>2. IsFiniteSet({1} \cup {2})
    BY FS_Singleton, FS_AddElement
  <2>3. Tables = {1} \cup {2}
    BY DEF Tables
  <2> QED BY <2>1, <2>2, <2>3
<1>2. IsFiniteSet(Indices \X Slots)
  BY <1>1, FS_Product
<1>3. IsFiniteSet(P)
  BY <1>1, <1>2, FS_Product
<1>4. f \in [P -> Cells]
  BY DEF Cells
<1>5. \A c \in Cells : \E x \in P : f[x] = c
  <2> TAKE c \in Cells
  <2>1. c[1] \in Tables /\ c[2] \in Indices /\ c[3] \in Slots /\ c = <<c[1], c[2], c[3]>>
    BY CellFacts
  <2>2. <<c[1], <<c[2], c[3]>>>> \in P
    BY <2>1
  <2> WITNESS <<c[1], <<c[2], c[3]>>>> \in P
  <2> QED BY <2>1, <2>2
<1>6. f \in Surjection(P, Cells)
  BY <1>4, <1>5 DEF Surjection, Range
<1> HIDE DEF P, f
<1> QED BY <1>3, <1>6, FS_Surjection

LEMMA HashRange ==
    ASSUME buckets \in 1 .. MaxBuckets, NEW v \in Values \cup {EMPTY}
    PROVE  \A f \in Tables : hash(v, f) \in Indices
<1>1. v \in Nat /\ buckets \in Nat \ {0} /\ buckets <= MaxBuckets
  BY TablesAssumption DEF EMPTY
<1>2. v % buckets \in 0 .. buckets - 1 /\ (v \div buckets) % buckets \in 0 .. buckets - 1
  BY <1>1
<1>3. 0 .. buckets - 1 \subseteq Indices
  BY <1>1, TablesAssumption DEF Indices
<1> QED BY <1>2, <1>3 DEF hash, HashIn

LEMMA HashFacts ==
    ASSUME TypeOK, NEW v \in Values \cup {EMPTY}
    PROVE  \A f \in Tables : hash(v, f) \in Indices
BY HashRange DEF TypeOK

\* find and findSlot return a cell of the bucket that holds the value.
LEMMA FirstSlotFacts ==
    ASSUME NEW f \in Tables, NEW i \in Indices, NEW v, SlotsWith(f, i, v) # {}
    PROVE  /\ FirstSlot(f, i, v) \in Cells /\ FirstSlot(f, i, v)[1] = f
           /\ FirstSlot(f, i, v)[2] = i /\ cell[FirstSlot(f, i, v)] = v
<1> DEFINE m == Min(SlotsWith(f, i, v))
<1>1. m \in SlotsWith(f, i, v)
  BY SomeFinite, MinFacts
<1>2. FirstSlot(f, i, v) = <<f, i, m>>
  BY DEF FirstSlot
<1> HIDE DEF m
<1> QED BY <1>1, <1>2, CellFacts DEF SlotsWith

-----------------------------------------------------------------------------
\* What a step of thread t does: it keeps to its own call, to its own locks and
\* to cells whose buckets it has locked.
Others(t) ==
    \A u \in Threads : u # t =>
        /\ pc'[u] = pc[u] /\ op'[u] = op[u] /\ val'[u] = val[u] /\ idx'[u] = idx[u]
        /\ want'[u] = want[u] /\ goal'[u] = goal[u] /\ path'[u] = path[u] /\ to'[u] = to[u]
        /\ u \in inside' <=> u \in inside

OwnLocks(t) ==
    /\ lock' \in [Indices -> Threads \cup {NoThread}]
    /\ \A u \in Threads : u # t => Held(u)' = Held(u)

OwnCells(t) ==
    /\ cell' \in [Cells -> Values \cup {EMPTY}]
    /\ \A c \in Cells : cell'[c] # cell[c] => c[2] \in Held(t)

GoodStep(t) ==
    /\ TypeOK' /\ buckets' = buckets /\ Others(t) /\ OwnLocks(t) /\ OwnCells(t)
    /\ CallOK(t)' /\ LockOK(t)' /\ Knows(t)' /\ HomeUntilResize'

LEMMA HeldDisjoint ==
    ASSUME NEW t \in Threads, NEW u \in Threads, u # t
    PROVE  Held(t) \cap Held(u) = {}
BY DEF Held

\* The locks for a displacement cover the two cells it works on.
LEMMA LocksForIs ==
    ASSUME NEW t, NEW p, NEW n \in Nat
    PROVE  /\ n = 1 => LocksFor(t, p, n) = Home(t)
           /\ n = 2 => LocksFor(t, p, n) = Home(t) \cup {p[2][2]}
           /\ n > 2 => LocksFor(t, p, n) = {p[n][2], p[n - 1][2]}
BY DEF LocksFor, Home

LEMMA HomeFacts ==
    ASSUME TypeOK, NEW t \in Threads
    PROVE  /\ Home(t) \subseteq Indices /\ Home(t) # {}
           /\ \A f \in Tables : idx[t][f] \in Home(t) /\ idx[t][f] \in Indices
BY DEF TypeOK, Home, Tables

LEMMA LocksForFacts ==
    ASSUME TypeOK, NEW t \in Threads, NEW p \in Seq(Cells), NEW n \in Nat, n = Len(p), n >= 1,
           p[1][2] \in Home(t)
    PROVE  /\ LocksFor(t, p, n) \subseteq Indices /\ LocksFor(t, p, n) # {}
           /\ p[n][2] \in LocksFor(t, p, n)
           /\ n >= 2 => p[n - 1][2] \in LocksFor(t, p, n)
           /\ n <= 2 => Home(t) \subseteq LocksFor(t, p, n)
<1>1. \A i \in 1 .. n : p[i] \in Cells /\ p[i][2] \in Indices
  BY CellFacts
<1>2. CASE n = 1
  BY <1>2, HomeFacts, LocksForIs
<1>3. CASE n = 2
  BY <1>1, <1>3, HomeFacts, LocksForIs
<1>4. CASE n > 2
  <2>1. LocksFor(t, p, n) = {p[n][2], p[n - 1][2]}
    BY <1>4, LocksForIs
  <2> QED BY <1>1, <1>4, <2>1
<1> QED BY <1>2, <1>3, <1>4

\* The two cells of a displacement.
LEMMA MovingFacts ==
    ASSUME IInv, NEW t \in Threads, pc[t] \in {"move", "clear"}, NEW n, n = Len(path[t])
    PROVE  /\ n \in Nat /\ n >= 2 /\ path[t] \in Seq(Cells)
           /\ path[t][n - 1] \in Cells /\ path[t][n] \in Cells /\ path[t][n - 1] # path[t][n]
           /\ path[t][n - 1][2] \in Held(t) /\ path[t][n][2] \in Held(t)
           /\ path[t][1][1] \in Tables /\ path[t][1][2] = idx[t][path[t][1][1]]
           /\ n = 2 => Home(t) \subseteq Held(t)
<1>1. path[t] \in Seq(Cells) /\ n \in Nat /\ TypeOK
  BY DEF IInv, TypeOK
<1>2. /\ n >= 2 /\ path[t][1][2] = idx[t][path[t][1][1]]
      /\ \A k \in 2 .. n : path[t][k][1] # path[t][k - 1][1]
  BY DEF IInv, CallOK, Aim
<1>3. path[t][n - 1] \in Cells /\ path[t][n] \in Cells /\ path[t][1] \in Cells
  BY <1>1, <1>2
<1>4. path[t][n - 1] # path[t][n]
  BY <1>1, <1>2
<1>5. path[t][1][1] \in Tables /\ path[t][1][2] \in Home(t)
  BY <1>1, <1>2, <1>3, CellFacts, HomeFacts
<1>6. LocksFor(t, path[t], n) \subseteq Held(t)
  BY DEF IInv, LockOK, Needs, Aim
<1>7. n >= 1 /\ (n = 2 => n <= 2)
  BY <1>2, <1>1
<1>8. /\ path[t][n][2] \in LocksFor(t, path[t], n) /\ path[t][n - 1][2] \in LocksFor(t, path[t], n)
      /\ n = 2 => Home(t) \subseteq LocksFor(t, path[t], n)
  BY <1>1, <1>2, <1>5, <1>7, LocksForFacts
<1> QED BY <1>1, <1>2, <1>3, <1>4, <1>5, <1>6, <1>8

\* What thread u knows is out of the reach of the others.
LEMMA KnowsStays ==
    ASSUME IInv, NEW t \in Threads, NEW u \in Threads, u # t, OwnCells(t), Others(t)
    PROVE  Knows(u)'
<1>1. \A c \in Cells : c[2] \in Held(u) => cell'[c] = cell[c]
  BY HeldDisjoint DEF OwnCells
<1>2. /\ CallOK(u) /\ LockOK(u) /\ Knows(u) /\ TypeOK
      /\ pc'[u] = pc[u] /\ val'[u] = val[u] /\ idx'[u] = idx[u] /\ path'[u] = path[u]
      /\ to'[u] = to[u]
  BY DEF IInv, Others
<1>3. CASE pc[u] = "write"
  <2>1. to[u] \in Cells /\ to[u][2] \in Held(u)
    BY <1>2, <1>3, HomeFacts, CellFacts DEF TypeOK, CallOK, LockOK, Needs, Aim
  <2> QED BY <1>1, <1>2, <1>3, <2>1 DEF Knows
<1>4. CASE pc[u] = "clear"
  <2>1. PICK n : n = Len(path[u])
    OBVIOUS
  <2>2. cell'[path[u][n - 1]] = cell[path[u][n - 1]] /\ cell'[path[u][n]] = cell[path[u][n]]
    BY <1>1, <1>4, <2>1, MovingFacts
  <2> QED BY <1>2, <1>4, <2>1, <2>2 DEF Knows
<1>5. CASE pc[u] = "find2"
  <2>1. idx[u][1] \in Held(u) /\ idx[u][1] \in Indices
    BY <1>2, <1>5, HomeFacts DEF LockOK, Needs, Aim, Tables
  <2>2. \A s \in Slots : cell'[<<1, idx[u][1], s>>] = cell[<<1, idx[u][1], s>>]
    BY <1>1, <2>1, CellFacts DEF Tables
  <2> QED BY <1>2, <1>5, <2>2 DEF Knows, SlotsWith
<1> QED BY <1>2, <1>3, <1>4, <1>5 DEF Knows

LEMMA GoodStepInv ==
    ASSUME IInv, NEW t \in Threads, GoodStep(t)
    PROVE  IInv'
<1>1. TypeOK' /\ HomeUntilResize' /\ (Initial <= buckets)'
  BY DEF GoodStep, IInv
<1>2. ASSUME NEW u \in Threads, u # t PROVE CallOK(u)' /\ LockOK(u)' /\ Knows(u)'
  <2>1. CallOK(u) /\ LockOK(u) /\ buckets' = buckets /\ Held(u)' = Held(u)
    BY <1>2 DEF IInv, GoodStep, OwnLocks
  <2>2. /\ pc'[u] = pc[u] /\ op'[u] = op[u] /\ val'[u] = val[u] /\ idx'[u] = idx[u]
        /\ want'[u] = want[u] /\ goal'[u] = goal[u] /\ path'[u] = path[u] /\ to'[u] = to[u]
        /\ u \in inside' <=> u \in inside
    BY <1>2 DEF GoodStep, Others
  <2>3. CallOK(u)'
    BY <2>1, <2>2 DEF CallOK, Aim, hash
  <2>4. Needs(u)' = Needs(u)
    BY <2>2 DEF Needs, Aim, LocksFor, Home
  <2>5. LockOK(u)'
    BY <2>1, <2>2, <2>4 DEF LockOK
  <2> QED BY <2>3, <2>5, <1>2, KnowsStays DEF GoodStep
<1>3. CallOK(t)' /\ LockOK(t)' /\ Knows(t)'
  BY DEF GoodStep
<1> QED BY <1>1, <1>2, <1>3 DEF IInv

-----------------------------------------------------------------------------
\* The pieces a step is made of.
LEMMA SameLocks ==
    ASSUME TypeOK, NEW t \in Threads, lock' = lock
    PROVE  OwnLocks(t) /\ Held(t)' = Held(t)
BY DEF TypeOK, OwnLocks, Held

LEMMA SameCells ==
    ASSUME IInv, NEW t \in Threads, cell' = cell, buckets' = buckets
    PROVE  OwnCells(t) /\ HomeUntilResize'
<1>1. OwnCells(t)
  BY DEF OwnCells, IInv, TypeOK
<1>2. Occupied' = Occupied
  BY DEF Occupied
<1> QED BY <1>1, <1>2 DEF IInv, HomeUntilResize, HomeBuckets, hash

LEMMA ReleaseFacts ==
    ASSUME TypeOK, NEW t \in Threads, NEW S, S \subseteq Held(t), Release(S)
    PROVE  OwnLocks(t) /\ Held(t)' = Held(t) \ S
<1>1. /\ lock' \in [Indices -> Threads \cup {NoThread}]
      /\ \A i \in Indices : lock'[i] = IF i \in S THEN NoThread ELSE lock[i]
  BY DEF Release, TypeOK
<1>2. Held(t)' = Held(t) \ S
  BY <1>1, CuckooAssumption DEF Held
<1>3. \A u \in Threads : u # t => Held(u)' = Held(u)
  BY <1>1, CuckooAssumption DEF Held
<1> QED BY <1>1, <1>2, <1>3 DEF OwnLocks

\* Writing a cell of a bucket that is locked.
LEMMA WriteFacts ==
    ASSUME IInv, NEW t \in Threads, NEW c \in Cells, c[2] \in Held(t), buckets' = buckets,
           NEW v \in Values \cup {EMPTY}, cell' = [cell EXCEPT ![c] = v],
           (v # EMPTY /\ buckets = Initial) => hash(v, c[1]) = c[2]
    PROVE  /\ OwnCells(t) /\ HomeUntilResize' /\ cell'[c] = v
           /\ \A d \in Cells : d # c => cell'[d] = cell[d]
<1>1. /\ cell' \in [Cells -> Values \cup {EMPTY}] /\ cell'[c] = v
      /\ \A d \in Cells : d # c => cell'[d] = cell[d]
  BY DEF IInv, TypeOK
<1>2. HomeUntilResize'
  <2> SUFFICES ASSUME buckets = Initial, NEW d \in Cells, cell'[d] # EMPTY
               PROVE  hash(cell'[d], d[1]) = d[2]
    BY DEF HomeUntilResize, HomeBuckets, Occupied, hash
  <2>1. CASE d = c
    BY <1>1, <2>1
  <2>2. CASE d # c
    BY <1>1, <2>2 DEF IInv, HomeUntilResize, HomeBuckets, Occupied
  <2> QED BY <2>1, <2>2
<1>3. OwnCells(t)
  BY <1>1 DEF OwnCells
<1> QED BY <1>1, <1>2, <1>3

\* A call that returns, goes round again, or is about to fill a cell.
LEMMA ReturnGood ==
    ASSUME IInv, NEW t \in Threads, Return(t), OwnCells(t), HomeUntilResize', net' \in Int
    PROVE  GoodStep(t) /\ pc'[t] = "idle"
<1>1. TypeOK /\ buckets' = buckets /\ want' = want /\ inside' = inside \ {t} /\ Release(Held(t))
  BY DEF IInv, Return
<1>2. /\ pc' = [pc EXCEPT ![t] = "idle"] /\ op' = [op EXCEPT ![t] = "none"]
      /\ val' = [val EXCEPT ![t] = EMPTY] /\ idx' = [idx EXCEPT ![t] = [f \in Tables |-> 0]]
      /\ goal' = [goal EXCEPT ![t] = "idle"] /\ path' = [path EXCEPT ![t] = << >>]
      /\ to' = [to EXCEPT ![t] = NoCell] /\ cap' = [cap EXCEPT ![t] = 0]
  BY DEF Return, Goto
<1>3. OwnLocks(t) /\ Held(t)' = {}
  <2>1. OwnLocks(t) /\ Held(t)' = Held(t) \ Held(t)
    BY <1>1, ReleaseFacts
  <2> QED BY <2>1
<1>4. pc'[t] = "idle" /\ op'[t] = "none"
  BY <1>1, <1>2 DEF TypeOK
<1>5. Others(t)
  BY <1>1, <1>2 DEF TypeOK, Others
<1>6. TypeOK'
  <2>1. << >> \in Seq(Cells) /\ Len(<< >>) <= MaxDepth + 1
    BY TablesAssumption
  <2>2. path' \in [Threads -> Seq(Cells)] /\ \A u \in Threads : Len(path'[u]) <= MaxDepth + 1
    BY <1>1, <1>2, <2>1 DEF TypeOK
  <2>3. to' \in [Threads -> Cells] /\ cap' \in [Threads -> 0 .. MaxBuckets]
    BY <1>1, <1>2, NoCellFact, TablesAssumption DEF TypeOK
  <2>4. idx' \in [Threads -> [Tables -> Indices]]
    BY <1>1, <1>2, SomeFinite DEF TypeOK
  <2>5. /\ pc' \in [Threads -> PCs] /\ goal' \in [Threads -> PCs] /\ inside' \subseteq Threads
        /\ op' \in [Threads -> {"none", "insert", "remove", "contains"}]
        /\ val' \in [Threads -> Values \cup {EMPTY}]
    BY <1>1, <1>2 DEF TypeOK, PCs
  <2> QED BY <1>1, <1>3, <2>2, <2>3, <2>4, <2>5 DEF TypeOK, OwnLocks, OwnCells
<1>7. CallOK(t)' /\ LockOK(t)' /\ Knows(t)'
  BY <1>1, <1>3, <1>4 DEF CallOK, LockOK, Knows, Needs, Aim, Outside
<1> QED BY <1>1, <1>3, <1>4, <1>5, <1>6, <1>7 DEF GoodStep

LEMMA RetryGood ==
    ASSUME IInv, NEW t \in Threads, Retry(t), pc[t] # "idle"
    PROVE  GoodStep(t) /\ pc'[t] = "enter" /\ cell' = cell /\ net' = net
<1>1. /\ TypeOK /\ CallOK(t) /\ Release(Held(t)) /\ inside' = inside \ {t}
      /\ pc' = [pc EXCEPT ![t] = "enter"] /\ path' = [path EXCEPT ![t] = << >>]
      /\ UNCHANGED <<buckets, cell, op, val, idx, want, goal, to, cap, net>>
  BY DEF IInv, Retry, Goto, callVars
<1>2. OwnLocks(t) /\ Held(t)' = {}
  <2>1. OwnLocks(t) /\ Held(t)' = Held(t) \ Held(t)
    BY <1>1, ReleaseFacts
  <2> QED BY <2>1
<1>3. pc'[t] = "enter" /\ Others(t)
  BY <1>1 DEF TypeOK, Others
<1>4. TypeOK'
  <2>1. << >> \in Seq(Cells) /\ Len(<< >>) <= MaxDepth + 1
    BY TablesAssumption
  <2>2. path' \in [Threads -> Seq(Cells)] /\ \A u \in Threads : Len(path'[u]) <= MaxDepth + 1
    BY <1>1, <2>1 DEF TypeOK
  <2>3. pc' \in [Threads -> PCs] /\ inside' \subseteq Threads
    BY <1>1 DEF TypeOK, PCs
  <2> QED BY <1>1, <1>2, <2>2, <2>3 DEF TypeOK, OwnLocks
<1>5. CallOK(t)' /\ LockOK(t)' /\ Knows(t)'
  <2>1. CallOK(t)'
    BY <1>1, <1>3 DEF CallOK, Aim, Outside, hash
  <2> QED BY <2>1, <1>1, <1>2, <1>3 DEF LockOK, Knows, Needs, Aim, Outside
<1>6. OwnCells(t) /\ HomeUntilResize'
  BY <1>1, SameCells
<1> QED BY <1>1, <1>2, <1>3, <1>4, <1>5, <1>6 DEF GoodStep

LEMMA FillGood ==
    ASSUME IInv, NEW t \in Threads, NEW c \in Cells, Fill(t, c), pc[t] \notin Outside,
           cell[c] = EMPTY, c[2] = idx[t][c[1]], Home(t) \subseteq Held(t)
    PROVE  GoodStep(t) /\ pc'[t] = "write" /\ cell' = cell /\ net' = net
<1>1. /\ TypeOK /\ CallOK(t) /\ to' = [to EXCEPT ![t] = c] /\ pc' = [pc EXCEPT ![t] = "write"]
      /\ UNCHANGED <<buckets, cell, lock, inside, op, val, idx, want, goal, path, cap, net>>
  BY DEF IInv, Fill, Goto, callVars
<1>2. OwnLocks(t) /\ Held(t)' = Held(t)
  BY <1>1, SameLocks
<1>3. pc'[t] = "write" /\ to'[t] = c /\ Others(t) /\ pc[t] # "idle"
  BY <1>1 DEF TypeOK, Others, Outside
<1>4. TypeOK'
  BY <1>1 DEF TypeOK, PCs
<1>5. CallOK(t)'
  BY <1>1, <1>3 DEF CallOK, Aim, Outside, hash
<1>6. LockOK(t)'
  BY <1>1, <1>2, <1>3 DEF LockOK, Needs, Aim, Outside, Home
<1>7. Knows(t)'
  BY <1>1, <1>3 DEF Knows
<1>8. OwnCells(t) /\ HomeUntilResize'
  BY <1>1, SameCells
<1> QED BY <1>1, <1>2, <1>3, <1>4, <1>5, <1>6, <1>7, <1>8 DEF GoodStep

-----------------------------------------------------------------------------
\* Every step but a resize is a good one.
LEMMA BeginGood ==
    ASSUME IInv, NEW t \in Threads, Begin(t)
    PROVE  /\ GoodStep(t) /\ pc[t] = "idle" /\ pc'[t] = "enter" /\ cell' = cell /\ net' = net
<1>1. PICK o \in {"insert", "remove", "contains"}, v \in Values : Call(t, o, v)
  BY DEF Begin
<1>2. /\ TypeOK /\ CallOK(t) /\ LockOK(t) /\ pc[t] = "idle" /\ pc' = [pc EXCEPT ![t] = "enter"]
      /\ op' = [op EXCEPT ![t] = o] /\ val' = [val EXCEPT ![t] = v]
      /\ idx' = (IF o = "insert" THEN [idx EXCEPT ![t] = Hashes(v)] ELSE idx)
      /\ UNCHANGED <<buckets, cell, lock, inside, want, goal, path, to, cap, net>>
  BY <1>1 DEF IInv, Call, Goto
<1>3. OwnLocks(t) /\ Held(t)' = Held(t) /\ OwnCells(t) /\ HomeUntilResize'
  BY <1>2, SameLocks, SameCells
<1>4. Hashes(v) \in [Tables -> Indices] /\ \A f \in Tables : Hashes(v)[f] = hash(v, f)
  BY <1>2, HashFacts DEF Hashes
<1>5. pc'[t] = "enter" /\ op'[t] = o /\ val'[t] = v /\ (o = "insert" => idx'[t] = Hashes(v))
  BY <1>2 DEF TypeOK
<1>6. Others(t)
  BY <1>2 DEF TypeOK, Others
<1>7. TypeOK'
  BY <1>2, <1>4 DEF TypeOK, PCs
<1>8. t \notin inside' /\ Held(t) = {}
  BY <1>2 DEF CallOK, LockOK, Outside
<1>9. CallOK(t)'
  BY <1>2, <1>4, <1>5, <1>8 DEF CallOK, Aim, Outside, hash
<1>10. LockOK(t)' /\ Knows(t)'
  BY <1>3, <1>5, <1>8 DEF LockOK, Knows, Needs, Aim, Outside
<1> QED BY <1>2, <1>3, <1>5, <1>6, <1>7, <1>9, <1>10 DEF GoodStep

LEMMA EnterGood ==
    ASSUME IInv, NEW t \in Threads, Enter(t)
    PROVE  /\ GoodStep(t) /\ pc[t] = "enter" /\ pc'[t] = "lock" /\ cell' = cell /\ net' = net
<1> DEFINE h == idx'[t]
           l == IF op[t] = "insert" THEN "check" ELSE "find1"
<1>1. /\ TypeOK /\ CallOK(t) /\ LockOK(t) /\ pc[t] = "enter" /\ inside' = inside \cup {t}
      /\ pc' = [pc EXCEPT ![t] = "lock"]
      /\ idx' = (IF op[t] = "insert" THEN idx ELSE [idx EXCEPT ![t] = Hashes(val[t])])
      /\ want' = [want EXCEPT ![t] = {h[1], h[2]}] /\ goal' = [goal EXCEPT ![t] = l]
      /\ UNCHANGED <<buckets, cell, lock, op, val, path, to, cap, net>>
  BY DEF IInv, Enter, TakeLocks, Goto, callVars
<1>2. OwnLocks(t) /\ Held(t)' = Held(t) /\ OwnCells(t) /\ HomeUntilResize'
  BY <1>1, SameLocks, SameCells
<1>3. val[t] \in Values
  BY <1>1 DEF CallOK
<1>4. /\ Hashes(val[t]) \in [Tables -> Indices]
      /\ \A f \in Tables : Hashes(val[t])[f] = hash(val[t], f)
  BY <1>1, <1>3, HashFacts DEF Hashes
<1>5. idx' \in [Threads -> [Tables -> Indices]] /\ (op[t] # "insert" => h = Hashes(val[t]))
  BY <1>1, <1>4 DEF TypeOK
<1>6. {h[1], h[2]} \subseteq Indices /\ {h[1], h[2]} # {}
  BY <1>5 DEF Tables
<1> HIDE DEF h, l
<1>7. l \in {"check", "find1"}
  BY DEF l
<1>8. pc'[t] = "lock" /\ want'[t] = {h[1], h[2]} /\ goal'[t] = l
  BY <1>1 DEF TypeOK
<1>9. Others(t)
  BY <1>1 DEF TypeOK, Others
<1>10. TypeOK'
  <2>1. goal' \in [Threads -> PCs] /\ want' \in [Threads -> SUBSET Indices] /\ pc' \in [Threads -> PCs]
    BY <1>1, <1>6, <1>7 DEF TypeOK, PCs
  <2> QED BY <2>1, <1>1, <1>5 DEF TypeOK
<1>11. \A f \in Tables : (buckets = Initial) => h[f] = hash(val[t], f)
  BY <1>1, <1>4, <1>5 DEF CallOK, h
<1>12. CallOK(t)'
  BY <1>1, <1>3, <1>6, <1>7, <1>8, <1>11 DEF CallOK, Aim, Outside, hash, h
<1>13. LockOK(t)'
  BY <1>7, <1>8 DEF LockOK, Needs, Aim, Outside, Home, h
<1>14. Knows(t)'
  BY <1>8 DEF Knows
<1> QED BY <1>1, <1>2, <1>8, <1>9, <1>10, <1>12, <1>13, <1>14 DEF GoodStep

LEMMA AcquireGood ==
    ASSUME IInv, NEW t \in Threads, Acquire(t)
    PROVE  /\ GoodStep(t) /\ pc[t] = "lock" /\ pc'[t] \notin {"idle", "clear"}
           /\ cell' = cell /\ net' = net
<1>1. PICK i : i = Min(want[t])
  OBVIOUS
<1>2. /\ TypeOK /\ CallOK(t) /\ LockOK(t) /\ pc[t] = "lock" /\ lock[i] = NoThread
      /\ lock' = [lock EXCEPT ![i] = t] /\ want' = [want EXCEPT ![t] = want[t] \ {i}]
      /\ pc' = [pc EXCEPT ![t] = IF want[t] = {i} THEN goal[t] ELSE "lock"]
      /\ UNCHANGED <<buckets, cell, inside, op, val, idx, goal, path, to, cap, net>>
  BY <1>1 DEF IInv, Acquire, Goto, callVars
<1>3. want[t] \subseteq Indices /\ want[t] # {} /\ goal[t] \in {"check", "place", "move", "find1"}
  BY <1>2 DEF TypeOK, CallOK
<1>4. i \in want[t] /\ i \in Indices
  BY <1>1, <1>3, SomeFinite, MinFacts
<1>5. /\ lock' \in [Indices -> Threads \cup {NoThread}]
      /\ lock'[i] = t /\ \A j \in Indices : j # i => lock'[j] = lock[j]
  BY <1>2, <1>4 DEF TypeOK
<1>6. Held(t)' = Held(t) \cup {i}
  BY <1>4, <1>5 DEF Held
<1>7. OwnLocks(t)
  BY <1>2, <1>4, <1>5, CuckooAssumption DEF OwnLocks, Held
<1>8. OwnCells(t) /\ HomeUntilResize'
  BY <1>2, SameCells
<1>9. pc'[t] = (IF want[t] = {i} THEN goal[t] ELSE "lock") /\ want'[t] = want[t] \ {i}
  BY <1>2 DEF TypeOK
<1>10. Others(t)
  BY <1>2 DEF TypeOK, Others
<1>11. TypeOK'
  <2>1. pc' \in [Threads -> PCs] /\ want' \in [Threads -> SUBSET Indices]
    BY <1>2, <1>3 DEF TypeOK, PCs
  <2> QED BY <2>1, <1>2, <1>5 DEF TypeOK
<1>12. Aim(t) = goal[t] /\ Aim(t)' = goal[t]
  BY <1>2, <1>9 DEF Aim
<1>13. pc'[t] \in {"lock", "check", "place", "move", "find1"} /\ (pc'[t] = "lock" => want'[t] # {})
  BY <1>3, <1>4, <1>9
<1>14. CallOK(t)'
  BY <1>2, <1>3, <1>12, <1>13 DEF CallOK, Outside, hash
<1>15. Needs(t)' = Needs(t)
  BY <1>2, <1>12 DEF Needs, LocksFor, Home
<1>16. Needs(t) \subseteq Held(t) \cup want[t]
  BY <1>2 DEF LockOK
<1>17. LockOK(t)'
  <2>1. CASE pc'[t] = "lock"
    BY <2>1, <1>6, <1>9, <1>15, <1>16 DEF LockOK, Outside
  <2>2. CASE pc'[t] # "lock"
    <3>1. want[t] = {i}
      BY <2>2, <1>9
    <3> QED BY <3>1, <2>2, <1>6, <1>13, <1>15, <1>16 DEF LockOK, Outside
  <2> QED BY <2>1, <2>2
<1>18. Knows(t)'
  BY <1>13 DEF Knows
<1> QED BY <1>2, <1>7, <1>8, <1>10, <1>11, <1>13, <1>14, <1>17, <1>18 DEF GoodStep

\* What contains and remove look through is locked.
LEMMA FindInGood ==
    ASSUME IInv, NEW t \in Threads, NEW f \in Tables, FindIn(t, f)
    PROVE  /\ GoodStep(t) /\ pc[t] # "clear" /\ pc'[t] # "clear"
           /\ \/ cell' = cell /\ net' = net
              \/ \E c \in Cells : /\ c[2] \in Held(t) /\ cell[c] # EMPTY
                                  /\ cell' = [cell EXCEPT ![c] = EMPTY] /\ net' = net - 1
<1>1. PICK i, v : i = idx[t][f] /\ v = val[t]
  OBVIOUS
<1>2. /\ TypeOK /\ CallOK(t) /\ LockOK(t) /\ f \in {1, 2} /\ (f = 1 => pc[t] = "find1")
      /\ (f = 2 => pc[t] = "find2") /\ pc[t] \in {"find1", "find2"}
  BY DEF IInv, FindIn, Tables
<1>3. i \in Indices /\ i \in Held(t) /\ v \in Values
  BY <1>1, <1>2, HomeFacts DEF LockOK, CallOK, Needs, Aim
<1>4. \/ Return(t) /\ cell' = cell /\ net' = net
      \/ /\ SlotsWith(f, i, v) # {} /\ cell' = [cell EXCEPT ![FirstSlot(f, i, v)] = EMPTY]
         /\ net' = net - 1 /\ Return(t)
      \/ /\ SlotsWith(f, i, v) = {} /\ f = 1 /\ Goto(t, "find2")
         /\ UNCHANGED <<buckets, cell, lock, inside, callVars, idx, want, goal, path, to, cap, net>>
  BY <1>1 DEF FindIn
<1>5. CASE Return(t) /\ cell' = cell /\ net' = net
  <2>1. buckets' = buckets /\ net' \in Int
    BY <1>2, <1>5 DEF Return, TypeOK
  <2> QED BY <1>2, <1>5, <2>1, SameCells, ReturnGood
<1>6. CASE /\ SlotsWith(f, i, v) # {} /\ cell' = [cell EXCEPT ![FirstSlot(f, i, v)] = EMPTY]
           /\ net' = net - 1 /\ Return(t)
  <2>1. PICK c \in Cells : c = FirstSlot(f, i, v) /\ c[2] = i /\ cell[c] = v
    BY <1>3, <1>6, FirstSlotFacts
  <2>2. cell[c] # EMPTY
    BY <1>3, <2>1, TablesAssumption DEF EMPTY
  <2>3. buckets' = buckets /\ net' \in Int /\ cell' = [cell EXCEPT ![c] = EMPTY]
    BY <1>2, <1>6, <2>1 DEF Return, TypeOK
  <2>4. OwnCells(t) /\ HomeUntilResize'
    <3>1. PICK w \in Values \cup {EMPTY} : w = EMPTY
      OBVIOUS
    <3> QED BY <1>3, <2>1, <2>3, <3>1, WriteFacts
  <2>5. GoodStep(t) /\ pc'[t] = "idle"
    BY <1>6, <2>3, <2>4, ReturnGood
  <2> QED BY <1>2, <1>3, <1>6, <2>1, <2>2, <2>3, <2>5
<1>7. CASE /\ SlotsWith(f, i, v) = {} /\ f = 1 /\ Goto(t, "find2")
           /\ UNCHANGED <<buckets, cell, lock, inside, callVars, idx, want, goal, path, to, cap, net>>
  <2>1. /\ pc' = [pc EXCEPT ![t] = "find2"]
        /\ UNCHANGED <<buckets, cell, lock, inside, op, val, idx, want, goal, path, to, cap, net>>
    BY <1>7 DEF Goto, callVars
  <2>2. pc'[t] = "find2" /\ Others(t) /\ TypeOK'
    BY <1>2, <2>1 DEF TypeOK, Others, PCs
  <2>3. OwnLocks(t) /\ Held(t)' = Held(t) /\ OwnCells(t) /\ HomeUntilResize'
    BY <1>2, <2>1, SameLocks, SameCells
  <2>4. CallOK(t)'
    BY <1>2, <2>1, <2>2 DEF CallOK, Aim, Outside, hash
  <2>5. LockOK(t)'
    BY <1>2, <2>1, <2>2, <2>3 DEF LockOK, Needs, Aim, Outside, Home
  <2>6. Knows(t)'
    BY <1>1, <1>7, <2>1, <2>2 DEF Knows, SlotsWith
  <2> QED BY <1>2, <2>1, <2>2, <2>3, <2>4, <2>5, <2>6 DEF GoodStep
<1> QED BY <1>4, <1>5, <1>6, <1>7

LEMMA CheckGood ==
    ASSUME IInv, NEW t \in Threads, Check(t)
    PROVE  GoodStep(t) /\ pc[t] = "check" /\ pc'[t] # "clear" /\ cell' = cell /\ net' = net
<1>1. PICK b : b = idx[t]
  OBVIOUS
<1>2. TypeOK /\ CallOK(t) /\ LockOK(t) /\ pc[t] = "check" /\ pc[t] \notin Outside
  BY DEF IInv, Check, Outside
<1>3. Home(t) \subseteq Held(t) /\ b[1] \in Indices /\ b[2] \in Indices
  BY <1>1, <1>2, HomeFacts DEF LockOK, Needs, Aim, Tables
<1>4. \/ Return(t) /\ cell' = cell /\ net' = net
      \/ \E f \in Tables : SlotsWith(f, b[f], EMPTY) # {} /\ Fill(t, FirstSlot(f, b[f], EMPTY))
      \/ /\ Release(Held(t)) /\ Goto(t, "search")
         /\ UNCHANGED <<buckets, cell, inside, callVars, idx, want, goal, path, to, cap, net>>
  BY <1>1 DEF Check, Full, Tables
<1>5. CASE Return(t) /\ cell' = cell /\ net' = net
  <2>1. buckets' = buckets /\ net' \in Int
    BY <1>2, <1>5 DEF Return, TypeOK
  <2> QED BY <1>2, <1>5, <2>1, SameCells, ReturnGood
<1>6. CASE \E f \in Tables : SlotsWith(f, b[f], EMPTY) # {} /\ Fill(t, FirstSlot(f, b[f], EMPTY))
  <2>1. PICK f \in Tables : SlotsWith(f, b[f], EMPTY) # {} /\ Fill(t, FirstSlot(f, b[f], EMPTY))
    BY <1>6
  <2>2. b[f] \in Indices
    BY <1>3 DEF Tables
  <2>3. PICK c \in Cells : c = FirstSlot(f, b[f], EMPTY) /\ c[1] = f /\ c[2] = b[f] /\ cell[c] = EMPTY
    BY <2>1, <2>2, FirstSlotFacts
  <2>4. Fill(t, c) /\ c[2] = idx[t][c[1]]
    BY <1>1, <2>1, <2>3
  <2> QED BY <1>2, <1>3, <2>3, <2>4, FillGood
<1>7. CASE /\ Release(Held(t)) /\ Goto(t, "search")
           /\ UNCHANGED <<buckets, cell, inside, callVars, idx, want, goal, path, to, cap, net>>
  <2>1. /\ pc' = [pc EXCEPT ![t] = "search"]
        /\ UNCHANGED <<buckets, cell, inside, op, val, idx, want, goal, path, to, cap, net>>
    BY <1>7 DEF Goto, callVars
  <2>2. OwnLocks(t) /\ Held(t)' = {}
    <3>1. OwnLocks(t) /\ Held(t)' = Held(t) \ Held(t)
      BY <1>2, <1>7, ReleaseFacts
    <3> QED BY <3>1
  <2>3. pc'[t] = "search" /\ Others(t) /\ TypeOK'
    BY <1>2, <2>1, <2>2 DEF TypeOK, Others, PCs, OwnLocks
  <2>4. OwnCells(t) /\ HomeUntilResize'
    BY <2>1, SameCells
  <2>5. CallOK(t)'
    BY <1>2, <2>1, <2>3 DEF CallOK, Aim, Outside, hash
  <2>6. LockOK(t)' /\ Knows(t)'
    BY <2>2, <2>3 DEF LockOK, Needs, Aim, Knows
  <2> QED BY <1>2, <2>1, <2>2, <2>3, <2>4, <2>5, <2>6 DEF GoodStep
<1> QED BY <1>4, <1>5, <1>6, <1>7

\* The cell an insert fills is free and in a bucket of its value.
LEMMA WriteGood ==
    ASSUME IInv, NEW t \in Threads, Write(t)
    PROVE  /\ GoodStep(t) /\ pc[t] = "write" /\ pc'[t] # "clear" /\ net' = net + 1
           /\ to[t] \in Cells /\ to[t][2] \in Held(t) /\ cell[to[t]] = EMPTY
           /\ val[t] \in Values /\ cell' = [cell EXCEPT ![to[t]] = val[t]]
<1>1. PICK c, v : c = to[t] /\ v = val[t]
  OBVIOUS
<1>2. /\ TypeOK /\ CallOK(t) /\ LockOK(t) /\ Knows(t) /\ pc[t] = "write" /\ Return(t)
      /\ cell' = [cell EXCEPT ![c] = v] /\ net' = net + 1
  BY <1>1 DEF IInv, Write
<1>3. c \in Cells /\ c[1] \in Tables /\ c[2] = idx[t][c[1]] /\ cell[c] = EMPTY /\ v \in Values
  BY <1>1, <1>2, CellFacts DEF TypeOK, CallOK, Knows
<1>4. c[2] \in Held(t)
  BY <1>2, <1>3, HomeFacts DEF LockOK, Needs, Aim
<1>5. buckets = Initial => hash(v, c[1]) = c[2]
  BY <1>1, <1>2, <1>3 DEF CallOK, Outside
<1>6. buckets' = buckets /\ net' \in Int
  BY <1>2 DEF Return, TypeOK
<1>7. OwnCells(t) /\ HomeUntilResize'
  BY <1>2, <1>3, <1>4, <1>5, <1>6, WriteFacts
<1>8. GoodStep(t) /\ pc'[t] = "idle"
  BY <1>2, <1>6, <1>7, ReturnGood
<1> QED BY <1>1, <1>2, <1>3, <1>4, <1>8

\* A path of the search starts in a home bucket and alternates between the tables.
LEMMA PathShape ==
    ASSUME NEW i, NEW p \in Paths(i)
    PROVE  /\ p \in Seq(Cells) /\ Len(p) \in Nat /\ Len(p) >= 1 /\ Len(p) <= MaxDepth + 1
           /\ p[1] \in Cells /\ p[1][2] = i[p[1][1]]
           /\ \A k \in 2 .. Len(p) : p[k][1] # p[k - 1][1]
<1>1. /\ p \in UNION {[1 .. n -> Cells] : n \in 1 .. MaxDepth + 1} /\ p[1][2] = i[p[1][1]]
      /\ \A k \in 2 .. Len(p) : p[k][1] # p[k - 1][1]
  BY DEF Paths
<1>2. PICK n \in 1 .. MaxDepth + 1 : p \in [1 .. n -> Cells]
  BY <1>1
<1>3. n \in Nat /\ n >= 1 /\ n <= MaxDepth + 1
  BY <1>2, TablesAssumption
<1>4. p \in Seq(Cells) /\ Len(p) = n
  BY <1>2, <1>3
<1>5. p[1] \in Cells
  BY <1>2, <1>3
<1> QED BY <1>1, <1>3, <1>4, <1>5

LEMMA PathFacts ==
    ASSUME TypeOK, NEW t \in Threads, NEW p \in Paths(idx[t])
    PROVE  /\ p \in Seq(Cells) /\ Len(p) \in Nat /\ Len(p) >= 1 /\ Len(p) <= MaxDepth + 1
           /\ p[1][2] = idx[t][p[1][1]] /\ p[1][2] \in Home(t)
           /\ \A k \in 2 .. Len(p) : p[k][1] # p[k - 1][1]
<1>1. PICK i : i = idx[t]
  OBVIOUS
<1>2. p[1] \in Cells /\ p[1][2] = idx[t][p[1][1]]
  BY <1>1, PathShape
<1>3. p[1][2] \in Home(t)
  BY <1>2, CellFacts, HomeFacts
<1> QED BY <1>1, <1>2, <1>3, PathShape

LEMMA SearchFindsGood ==
    ASSUME IInv, NEW t \in Threads, SearchFinds(t)
    PROVE  GoodStep(t) /\ pc[t] = "search" /\ pc'[t] = "lock" /\ cell' = cell /\ net' = net
<1>1. PICK p \in Paths(idx[t]) :
          /\ path' = [path EXCEPT ![t] = p]
          /\ TakeLocks(t, LocksFor(t, p, Len(p)), IF Len(p) = 1 THEN "place" ELSE "move")
  BY DEF SearchFinds
<1>2. PICK n, S, l : n = Len(p) /\ S = LocksFor(t, p, n) /\ l = (IF n = 1 THEN "place" ELSE "move")
  OBVIOUS
<1>3. /\ TypeOK /\ CallOK(t) /\ LockOK(t) /\ pc[t] = "search" /\ path' = [path EXCEPT ![t] = p]
      /\ want' = [want EXCEPT ![t] = S] /\ goal' = [goal EXCEPT ![t] = l]
      /\ pc' = [pc EXCEPT ![t] = "lock"]
      /\ UNCHANGED <<buckets, cell, lock, inside, op, val, idx, to, cap, net>>
  BY <1>1, <1>2 DEF IInv, SearchFinds, TakeLocks, Goto, callVars
<1>4. /\ p \in Seq(Cells) /\ n \in Nat /\ n >= 1 /\ n <= MaxDepth + 1
      /\ p[1][2] = idx[t][p[1][1]] /\ p[1][2] \in Home(t)
      /\ \A k \in 2 .. n : p[k][1] # p[k - 1][1]
  BY <1>2, <1>3, PathFacts
<1>5. S \subseteq Indices /\ S # {} /\ (n = 1 => S = Home(t))
  BY <1>2, <1>3, <1>4, LocksForFacts, LocksForIs
<1>6. l \in {"place", "move"} /\ (l = "place" => n = 1) /\ (l = "move" => n >= 2)
  BY <1>2, <1>4
<1>7. pc'[t] = "lock" /\ want'[t] = S /\ goal'[t] = l /\ path'[t] = p /\ Others(t)
  BY <1>3 DEF TypeOK, Others
<1>8. TypeOK'
  <2>1. pc' \in [Threads -> PCs] /\ goal' \in [Threads -> PCs] /\ want' \in [Threads -> SUBSET Indices]
    BY <1>3, <1>5, <1>6 DEF TypeOK, PCs
  <2>2. path' \in [Threads -> Seq(Cells)]
    BY <1>3, <1>4 DEF TypeOK
  <2>3. \A u \in Threads : Len(path'[u]) <= MaxDepth + 1
    BY <1>2, <1>3, <1>4 DEF TypeOK
  <2> QED BY <1>3, <2>1, <2>2, <2>3 DEF TypeOK
<1>9. OwnLocks(t) /\ Held(t)' = Held(t) /\ OwnCells(t) /\ HomeUntilResize'
  BY <1>3, SameLocks, SameCells
<1>10. Aim(t)' = l
  BY <1>7 DEF Aim
<1>11. CallOK(t)'
  BY <1>2, <1>3, <1>4, <1>5, <1>6, <1>7, <1>10 DEF CallOK, Outside, hash
<1>12. Needs(t)' = S
  <2>1. CASE l = "place"
    BY <1>3, <1>5, <1>6, <1>10, <2>1 DEF Needs, Home
  <2>2. CASE l = "move"
    BY <1>2, <1>3, <1>7, <1>10, <2>2 DEF Needs, LocksFor
  <2> QED BY <1>6, <2>1, <2>2
<1>13. LockOK(t)' /\ Knows(t)'
  BY <1>7, <1>12 DEF LockOK, Knows, Outside
<1> QED BY <1>3, <1>7, <1>8, <1>9, <1>11, <1>13 DEF GoodStep

LEMMA SearchFailsGood ==
    ASSUME IInv, NEW t \in Threads, SearchFails(t)
    PROVE  GoodStep(t) /\ pc[t] = "search" /\ pc'[t] = "capacity" /\ cell' = cell /\ net' = net
<1>1. /\ TypeOK /\ CallOK(t) /\ LockOK(t) /\ pc[t] = "search" /\ inside' = inside \ {t}
      /\ pc' = [pc EXCEPT ![t] = "capacity"]
      /\ UNCHANGED <<buckets, cell, lock, op, val, idx, want, goal, path, to, cap, net>>
  BY DEF IInv, SearchFails, Goto, callVars
<1>2. OwnLocks(t) /\ Held(t)' = Held(t) /\ OwnCells(t) /\ HomeUntilResize'
  BY <1>1, SameLocks, SameCells
<1>3. pc'[t] = "capacity" /\ Others(t) /\ TypeOK'
  BY <1>1 DEF TypeOK, Others, PCs
<1>4. CallOK(t)'
  BY <1>1, <1>3 DEF CallOK, Aim, Outside, hash
<1>5. LockOK(t)' /\ Knows(t)'
  BY <1>1, <1>2, <1>3 DEF LockOK, Needs, Aim, Knows, Outside
<1> QED BY <1>1, <1>2, <1>3, <1>4, <1>5 DEF GoodStep

LEMMA PlaceGood ==
    ASSUME IInv, NEW t \in Threads, Place(t)
    PROVE  GoodStep(t) /\ pc[t] = "place" /\ pc'[t] # "clear" /\ cell' = cell /\ net' = net
<1>1. PICK c : c = path[t][1]
  OBVIOUS
<1>2. TypeOK /\ CallOK(t) /\ LockOK(t) /\ pc[t] = "place" /\ pc[t] \notin Outside /\ pc[t] # "idle"
  BY DEF IInv, Place, Outside
<1>3. Home(t) \subseteq Held(t) /\ Len(path[t]) >= 1 /\ c[2] = idx[t][c[1]]
  BY <1>1, <1>2 DEF LockOK, CallOK, Needs, Aim
<1>4. path[t] \in Seq(Cells)
  BY <1>2 DEF TypeOK
<1>5. c \in Cells
  BY <1>1, <1>3, <1>4
<1>6. (cell[c] = EMPTY /\ Fill(t, c)) \/ Retry(t)
  BY <1>1 DEF Place
<1> QED BY <1>2, <1>3, <1>5, <1>6, FillGood, RetryGood

\* The two cells of the displacement of thread t.
From(t) == path[t][Len(path[t]) - 1]
Dest(t) == path[t][Len(path[t])]

LEMMA MoveGood ==
    ASSUME IInv, NEW t \in Threads, Move(t)
    PROVE  /\ GoodStep(t) /\ pc[t] = "move" /\ net' = net
           /\ \/ cell' = cell /\ pc'[t] = "enter"
              \/ /\ From(t) \in Cells /\ Dest(t) \in Cells
                 /\ From(t)[2] \in Held(t) /\ Dest(t)[2] \in Held(t)
                 /\ cell[Dest(t)] = EMPTY /\ cell[From(t)] # EMPTY
                 /\ cell' = [cell EXCEPT ![Dest(t)] = cell[From(t)]]
                 /\ pc'[t] = "clear" /\ path' = path
<1>1. PICK n : n = Len(path[t])
  OBVIOUS
<1>2. PICK from, dest : from = path[t][n - 1] /\ dest = path[t][n]
  OBVIOUS
<1>3. TypeOK /\ CallOK(t) /\ LockOK(t) /\ pc[t] = "move" /\ pc[t] \in {"move", "clear"}
  BY DEF IInv, Move
<1>4. /\ from \in Cells /\ dest \in Cells /\ from # dest
      /\ from[2] \in Held(t) /\ dest[2] \in Held(t)
  BY <1>1, <1>2, <1>3, MovingFacts
<1>5. CASE /\ cell[dest] = EMPTY /\ cell[from] # EMPTY /\ hash(cell[from], dest[1]) = dest[2]
           /\ cell' = [cell EXCEPT ![dest] = cell[from]] /\ Goto(t, "clear")
           /\ UNCHANGED <<buckets, lock, inside, callVars, idx, want, goal, path, to, cap, net>>
  <2>1. /\ pc' = [pc EXCEPT ![t] = "clear"]
        /\ UNCHANGED <<buckets, lock, inside, op, val, idx, want, goal, path, to, cap, net>>
    BY <1>5 DEF Goto, callVars
  <2>2. PICK v \in Values \cup {EMPTY} : v = cell[from]
    BY <1>3, <1>4 DEF TypeOK
  <2>3. PICK c \in Cells : /\ c = dest /\ c[2] \in Held(t) /\ cell' = [cell EXCEPT ![c] = v]
                           /\ (v # EMPTY /\ buckets = Initial) => hash(v, c[1]) = c[2]
                           /\ buckets' = buckets
    BY <1>4, <1>5, <2>2
  <2>4. /\ OwnCells(t) /\ HomeUntilResize' /\ cell'[dest] = v
        /\ \A d \in Cells : d # dest => cell'[d] = cell[d]
    <3>1. /\ c[2] \in Held(t) /\ cell' = [cell EXCEPT ![c] = v] /\ buckets' = buckets
          /\ (v # EMPTY /\ buckets = Initial) => hash(v, c[1]) = c[2]
      BY <2>3
    <3>2. /\ OwnCells(t) /\ HomeUntilResize' /\ cell'[c] = v
          /\ \A d \in Cells : d # c => cell'[d] = cell[d]
      BY <3>1, WriteFacts
    <3> QED BY <2>3, <3>2
  <2>5. pc'[t] = "clear" /\ Others(t) /\ TypeOK'
    BY <1>3, <2>1, <2>4 DEF TypeOK, Others, PCs, OwnCells
  <2>6. OwnLocks(t) /\ Held(t)' = Held(t)
    BY <1>3, <2>1, SameLocks
  <2>7. CallOK(t)'
    BY <1>3, <2>1, <2>5 DEF CallOK, Aim, Outside, hash
  <2>8. LockOK(t)'
    BY <1>3, <2>1, <2>5, <2>6 DEF LockOK, Needs, Aim, Outside, LocksFor, Home
  <2>9. Knows(t)'
    BY <1>1, <1>2, <1>4, <1>5, <2>1, <2>2, <2>4, <2>5 DEF Knows
  <2> QED BY <1>1, <1>2, <1>3, <1>4, <1>5, <2>1, <2>4, <2>5, <2>6, <2>7, <2>8, <2>9
          DEF GoodStep, From, Dest
<1>6. CASE Retry(t)
  BY <1>3, <1>6, RetryGood
<1> QED BY <1>1, <1>2, <1>5, <1>6 DEF Move

LEMMA ClearGood ==
    ASSUME IInv, NEW t \in Threads, Clear(t)
    PROVE  /\ GoodStep(t) /\ pc[t] = "clear" /\ pc'[t] # "clear" /\ net' = net
           /\ From(t) \in Cells /\ From(t)[2] \in Held(t)
           /\ cell' = [cell EXCEPT ![From(t)] = EMPTY]
<1>1. PICK n : n = Len(path[t])
  OBVIOUS
<1>2. PICK from, p : from = path[t][n - 1] /\ p = [k \in 1 .. n - 1 |-> path[t][k]]
  OBVIOUS
<1>3. /\ TypeOK /\ CallOK(t) /\ LockOK(t) /\ pc[t] = "clear" /\ pc[t] \in {"move", "clear"}
      /\ cell' = [cell EXCEPT ![from] = EMPTY] /\ path' = [path EXCEPT ![t] = p]
      /\ UNCHANGED <<buckets, inside, op, val, idx, cap, net>>
  BY <1>1, <1>2 DEF IInv, Clear, callVars
<1>4. /\ n \in Nat /\ n >= 2 /\ path[t] \in Seq(Cells) /\ from \in Cells /\ from[2] \in Held(t)
      /\ path[t][1][1] \in Tables /\ path[t][1][2] = idx[t][path[t][1][1]]
      /\ n = 2 => Home(t) \subseteq Held(t)
  BY <1>1, <1>2, <1>3, MovingFacts
<1>5. /\ p \in Seq(Cells) /\ Len(p) = n - 1 /\ p[1] = path[t][1]
      /\ \A k \in 1 .. n - 1 : p[k] = path[t][k]
  <2>1. n - 1 \in Nat /\ \A k \in 1 .. n - 1 : path[t][k] \in Cells
    BY <1>1, <1>4
  <2>2. p \in Seq(Cells) /\ Len(p) = n - 1
    BY <1>2, <2>1
  <2>3. \A k \in 1 .. n - 1 : p[k] = path[t][k]
    BY <1>2
  <2>4. p[1] = path[t][1]
    BY <1>4, <2>3
  <2> QED BY <2>2, <2>3, <2>4
<1>6. n <= MaxDepth + 1 /\ \A k \in 2 .. n : path[t][k][1] # path[t][k - 1][1]
  BY <1>1, <1>3 DEF TypeOK, CallOK, Aim
<1>7. OwnCells(t) /\ HomeUntilResize' /\ cell'[from] = EMPTY
  <2>1. PICK w \in Values \cup {EMPTY} : w = EMPTY
    OBVIOUS
  <2>2. PICK c \in Cells : c = from /\ c[2] \in Held(t)
    BY <1>4
  <2>3. cell' = [cell EXCEPT ![c] = w] /\ buckets' = buckets
    BY <1>3, <2>1, <2>2
  <2>4. OwnCells(t) /\ HomeUntilResize' /\ cell'[c] = w
    BY <2>1, <2>2, <2>3, WriteFacts
  <2> QED BY <2>1, <2>2, <2>4
<1>8. /\ path' \in [Threads -> Seq(Cells)] /\ path'[t] = p
      /\ \A u \in Threads : Len(path'[u]) <= MaxDepth + 1
  <2>1. Len(p) <= MaxDepth + 1
    BY <1>4, <1>5, <1>6, TablesAssumption
  <2> QED BY <1>3, <1>5, <2>1 DEF TypeOK
<1>9. CASE /\ n = 2 /\ Release(Held(t) \ Home(t)) /\ to' = [to EXCEPT ![t] = p[1]]
           /\ Goto(t, "write") /\ UNCHANGED <<want, goal>>
  <2>1. PICK c \in Cells : c = p[1] /\ c = from
    BY <1>2, <1>4, <1>5, <1>9
  <2>2. to' = [to EXCEPT ![t] = c] /\ pc' = [pc EXCEPT ![t] = "write"] /\ want' = want /\ goal' = goal
    BY <1>9, <2>1 DEF Goto
  <2>3. OwnLocks(t) /\ Held(t)' = Held(t) \ (Held(t) \ Home(t))
    BY <1>3, <1>9, ReleaseFacts
  <2>4. pc'[t] = "write" /\ to'[t] = c /\ Others(t)
    BY <1>3, <2>2 DEF TypeOK, Others
  <2>5. TypeOK'
    <3>1. to' \in [Threads -> Cells] /\ pc' \in [Threads -> PCs]
      BY <1>3, <2>1, <2>2 DEF TypeOK, PCs
    <3> QED BY <1>3, <1>7, <1>8, <2>2, <2>3, <3>1 DEF TypeOK, OwnLocks, OwnCells
  <2>6. c[2] = idx[t][c[1]] /\ Home(t) \subseteq Held(t)'
    BY <1>4, <1>5, <1>9, <2>1, <2>3
  <2>7. CallOK(t)'
    BY <1>3, <2>4, <2>6 DEF CallOK, Aim, Outside, hash
  <2>8. Home(t)' = Home(t)
    BY <1>3 DEF Home
  <2>9. LockOK(t)'
    BY <2>4, <2>6, <2>8 DEF LockOK, Needs, Aim, Outside
  <2>10. Knows(t)'
    BY <1>7, <2>1, <2>4 DEF Knows
  <2> QED BY <1>1, <1>2, <1>3, <1>4, <1>7, <2>3, <2>4, <2>5, <2>7, <2>9, <2>10 DEF GoodStep, From
<1>10. CASE /\ n > 2 /\ Release(Held(t)) /\ TakeLocks(t, LocksFor(t, p, n - 1), "move") /\ to' = to
  <2>1. PICK q : q = n - 1
    OBVIOUS
  <2>2. q \in Nat /\ q >= 1 /\ q >= 2 /\ q = Len(p) /\ p[1][2] = idx[t][p[1][1]] /\ p[1][2] \in Home(t)
    BY <1>3, <1>4, <1>5, <1>10, <2>1, HomeFacts
  <2>3. PICK S : S = LocksFor(t, p, q)
    OBVIOUS
  <2>4. S \subseteq Indices /\ S # {}
    BY <1>3, <1>5, <2>2, <2>3, LocksForFacts
  <2>5. /\ want' = [want EXCEPT ![t] = S] /\ goal' = [goal EXCEPT ![t] = "move"]
        /\ pc' = [pc EXCEPT ![t] = "lock"]
    BY <1>10, <2>1, <2>3 DEF TakeLocks, Goto
  <2>6. OwnLocks(t)
    BY <1>3, <1>10, ReleaseFacts
  <2>7. pc'[t] = "lock" /\ want'[t] = S /\ goal'[t] = "move" /\ Others(t)
    BY <1>3, <1>10, <2>5 DEF TypeOK, Others
  <2>8. TypeOK'
    <3>1. /\ want' \in [Threads -> SUBSET Indices] /\ pc' \in [Threads -> PCs]
          /\ goal' \in [Threads -> PCs]
      BY <1>3, <2>4, <2>5 DEF TypeOK, PCs
    <3> QED BY <1>3, <1>7, <1>8, <1>10, <2>6, <3>1 DEF TypeOK, OwnLocks, OwnCells
  <2>9. \A k \in 2 .. q : p[k][1] # p[k - 1][1]
    <3> TAKE k \in 2 .. q
    <3>1. k \in 2 .. n /\ k \in 1 .. n - 1 /\ k - 1 \in 1 .. n - 1
      BY <1>4, <2>1
    <3> QED BY <1>5, <1>6, <3>1
  <2>10. Aim(t)' = "move"
    BY <2>7 DEF Aim
  <2>11. CallOK(t)'
    BY <1>3, <1>8, <2>2, <2>4, <2>7, <2>9, <2>10 DEF CallOK, Outside, hash
  <2>12. Needs(t)' = S
    BY <1>3, <1>8, <2>2, <2>3, <2>10 DEF Needs, LocksFor
  <2>13. LockOK(t)' /\ Knows(t)'
    BY <2>7, <2>12 DEF LockOK, Knows, Outside
  <2> QED BY <1>1, <1>2, <1>3, <1>4, <1>7, <2>6, <2>7, <2>8, <2>11, <2>13 DEF GoodStep, From
<1> QED BY <1>1, <1>2, <1>9, <1>10 DEF Clear, Home

LEMMA ReadCapacityGood ==
    ASSUME IInv, NEW t \in Threads, ReadCapacity(t)
    PROVE  GoodStep(t) /\ pc[t] = "capacity" /\ pc'[t] = "resize" /\ cell' = cell /\ net' = net
<1>1. /\ TypeOK /\ CallOK(t) /\ LockOK(t) /\ pc[t] = "capacity" /\ cap' = [cap EXCEPT ![t] = buckets]
      /\ pc' = [pc EXCEPT ![t] = "resize"]
      /\ UNCHANGED <<buckets, cell, lock, inside, op, val, idx, want, goal, path, to, net>>
  BY DEF IInv, ReadCapacity, Goto, callVars
<1>2. OwnLocks(t) /\ Held(t)' = Held(t) /\ OwnCells(t) /\ HomeUntilResize'
  BY <1>1, SameLocks, SameCells
<1>3. pc'[t] = "resize" /\ Others(t)
  BY <1>1 DEF TypeOK, Others
<1>4. TypeOK'
  <2>1. buckets \in 0 .. MaxBuckets
    BY <1>1, TablesAssumption DEF TypeOK
  <2> QED BY <1>1, <2>1 DEF TypeOK, PCs
<1>5. CallOK(t)'
  BY <1>1, <1>3 DEF CallOK, Aim, Outside, hash
<1>6. LockOK(t)' /\ Knows(t)'
  BY <1>1, <1>2, <1>3 DEF LockOK, Needs, Aim, Knows, Outside
<1> QED BY <1>1, <1>2, <1>3, <1>4, <1>5, <1>6 DEF GoodStep

\* A cell of a rebuilt table holds what a cell of the old one held and what belongs
\* into its bucket, or nothing.
LEMMA RebuiltFacts ==
    ASSUME buckets \in 1 .. MaxBuckets, cell \in [Cells -> Values \cup {EMPTY}], NEW b
    PROVE  /\ Rebuilt(b) \in [Cells -> Values \cup {EMPTY}]
           /\ \A c \in Cells : \/ Rebuilt(b)[c] = EMPTY
                               \/ HashIn(Rebuilt(b)[c], c[1], b) = c[2]
<1> DEFINE at(c, p) == cell[<<c[1], p[1], p[2]>>]
           mine(c) == {p \in Scanned : at(c, p) # EMPTY /\ HashIn(at(c, p), c[1], b) = c[2]}
           here(c) == {p \in mine(c) : Cardinality({q \in mine(c) : Before(q, p)}) = c[3]}
<1>1. \A c \in Cells, p \in Scanned : at(c, p) \in Values \cup {EMPTY}
  <2> TAKE c \in Cells, p \in Scanned
  <2>1. buckets \in Nat /\ buckets <= MaxBuckets /\ MaxBuckets \in Nat /\ buckets >= 1
    BY TablesAssumption
  <2>2. (2 * buckets) \div 4 - 1 <= MaxBuckets - 1 /\ (2 * buckets) \div 4 \in Int
    BY <2>1
  <2>3. p[1] \in 0 .. (2 * buckets) \div 4 - 1 /\ p[2] \in Slots
    BY DEF Scanned
  <2>4. p[1] \in Indices
    BY <2>1, <2>2, <2>3 DEF Indices
  <2>5. <<c[1], p[1], p[2]>> \in Cells
    BY <2>3, <2>4, CellFacts
  <2> QED BY <2>5
<1>2. \A c \in Cells : \A p \in here(c) : p \in Scanned /\ HashIn(at(c, p), c[1], b) = c[2]
  OBVIOUS
<1>3. Rebuilt(b) = [c \in Cells |-> IF here(c) = {} THEN EMPTY ELSE at(c, CHOOSE p \in here(c) : TRUE)]
  BY DEF Rebuilt
<1> HIDE DEF at, here
<1>4. \A c \in Cells : here(c) # {} => (CHOOSE p \in here(c) : TRUE) \in here(c)
  OBVIOUS
<1> QED BY <1>1, <1>2, <1>3, <1>4

\* When nobody is inside, no bucket is locked.
LEMMA NobodyInside ==
    ASSUME IInv, inside = {}
    PROVE  \A t \in Threads : pc[t] \in Outside /\ Held(t) = {}
BY DEF IInv, CallOK, LockOK

LEMMA AllUnlocked ==
    ASSUME IInv, inside = {}
    PROVE  \A i \in Indices : lock[i] = NoThread
BY NobodyInside DEF IInv, TypeOK, Held

\* A resize that finds the tables already replaced does nothing, any other one
\* leaves the sizes and the buckets of the calls to a reader of the new tables.
LEMMA ResizeIInv ==
    ASSUME IInv, NEW t \in Threads, Resize(t)
    PROVE  /\ IInv' /\ (buckets' # buckets => inside = {})
           /\ \/ GoodStep(t) /\ pc[t] = "resize" /\ pc'[t] = "enter" /\ cell' = cell /\ net' = net
              \/ buckets' # Initial
<1>1. /\ TypeOK /\ CallOK(t) /\ LockOK(t) /\ pc[t] = "resize" /\ inside = {}
      /\ pc' = [pc EXCEPT ![t] = "enter"] /\ Initial <= buckets
      /\ UNCHANGED <<lock, inside, op, val, idx, want, goal, path, to, cap, net>>
  BY DEF IInv, Resize, Goto, callVars
<1>2. pc'[t] = "enter" /\ \A u \in Threads : u # t => pc'[u] = pc[u]
  BY <1>1 DEF TypeOK
<1>3. CASE UNCHANGED <<buckets, cell>>
  <2>1. OwnLocks(t) /\ Held(t)' = Held(t) /\ OwnCells(t) /\ HomeUntilResize'
    BY <1>1, <1>3, SameLocks, SameCells
  <2>2. Others(t) /\ TypeOK'
    BY <1>1, <1>2, <1>3 DEF TypeOK, Others, PCs
  <2>3. CallOK(t)'
    BY <1>1, <1>2, <1>3 DEF CallOK, Aim, Outside, hash
  <2>4. LockOK(t)' /\ Knows(t)'
    BY <1>1, <1>2, <2>1 DEF LockOK, Needs, Aim, Knows, Outside
  <2>5. GoodStep(t)
    BY <1>3, <2>1, <2>2, <2>3, <2>4 DEF GoodStep
  <2> QED BY <1>1, <1>2, <1>3, <2>5, GoodStepInv
<1>4. CASE 2 * buckets <= MaxBuckets /\ buckets' = 2 * buckets /\ cell' = Rebuilt(2 * buckets)
  <2>1. buckets \in Nat /\ buckets >= 1 /\ Initial \in Nat /\ Initial >= 1 /\ MaxBuckets \in Nat
    BY <1>1, TablesAssumption DEF TypeOK
  <2>2. buckets' \in 1 .. MaxBuckets /\ Initial <= buckets' /\ buckets' # Initial
    BY <1>1, <1>4, <2>1
  <2>3. cell' \in [Cells -> Values \cup {EMPTY}]
    BY <1>1, <1>4, RebuiltFacts DEF TypeOK
  <2>4. TypeOK'
    BY <1>1, <2>2, <2>3 DEF TypeOK, PCs
  <2>5. \A u \in Threads : pc[u] \in Outside /\ pc'[u] \in Outside /\ Held(u)' = {}
    BY <1>1, <1>2, NobodyInside DEF Held, Outside
  <2>6. ASSUME NEW u \in Threads PROVE CallOK(u)' /\ LockOK(u)' /\ Knows(u)'
    <3>1. pc'[u] # "idle" => val'[u] \in Values
      <4>1. CallOK(u) /\ (pc'[u] # "idle" => pc[u] # "idle")
        BY <1>1, <1>2 DEF IInv
      <4> QED BY <1>1, <4>1 DEF CallOK
    <3>2. CallOK(u)'
      BY <1>1, <2>2, <2>5, <3>1 DEF CallOK, Aim, Outside
    <3> QED BY <2>5, <3>2 DEF LockOK, Needs, Aim, Knows, Outside
  <2> QED BY <1>1, <2>2, <2>4, <2>6 DEF IInv, HomeUntilResize
<1> QED BY <1>3, <1>4 DEF Resize

-----------------------------------------------------------------------------
\* The inductive invariant holds.
LEMMA StepGood ==
    ASSUME IInv, NEW t \in Threads, Begin(t) \/ Step(t)
    PROVE  IInv' /\ (GoodStep(t) \/ (buckets' # Initial /\ inside = {}))
<1>1. CASE Resize(t)
  <2>1. IInv' /\ (GoodStep(t) \/ buckets' # Initial) /\ inside = {}
    BY <1>1, ResizeIInv DEF Resize
  <2> QED BY <2>1
<1>2. CASE \E f \in Tables : FindIn(t, f)
  BY <1>2, FindInGood, GoodStepInv
<1>3. CASE Begin(t) \/ Enter(t) \/ Acquire(t) \/ Check(t) \/ Write(t)
  BY <1>3, BeginGood, EnterGood, AcquireGood, CheckGood, WriteGood, GoodStepInv
<1>4. CASE \/ SearchFinds(t) \/ SearchFails(t) \/ Place(t) \/ Move(t) \/ Clear(t) \/ ReadCapacity(t)
  BY <1>4, SearchFindsGood, SearchFailsGood, PlaceGood, MoveGood, ClearGood, ReadCapacityGood,
     GoodStepInv
<1> QED BY <1>1, <1>2, <1>3, <1>4 DEF Step

LEMMA InitIInv == Init => IInv
<1> SUFFICES ASSUME Init PROVE IInv
  OBVIOUS
<1>1. TypeOK
  <2>1. << >> \in Seq(Cells) /\ Len(<< >>) <= MaxDepth + 1
    BY TablesAssumption
  <2>2. path \in [Threads -> Seq(Cells)] /\ \A t \in Threads : Len(path[t]) <= MaxDepth + 1
    BY <2>1 DEF Init
  <2>3. /\ buckets \in 1 .. MaxBuckets /\ idx \in [Threads -> [Tables -> Indices]] /\ net \in Int
        /\ cap \in [Threads -> 0 .. MaxBuckets] /\ to \in [Threads -> Cells]
    BY TablesAssumption, SomeFinite, NoCellFact DEF Init
  <2>4. /\ pc \in [Threads -> PCs] /\ goal \in [Threads -> PCs]
        /\ want \in [Threads -> SUBSET Indices]
        /\ op \in [Threads -> {"none", "insert", "remove", "contains"}]
    BY DEF Init, PCs
  <2>5. /\ cell \in [Cells -> Values \cup {EMPTY}] /\ lock \in [Indices -> Threads \cup {NoThread}]
        /\ val \in [Threads -> Values \cup {EMPTY}] /\ inside \subseteq Threads
    BY DEF Init
  <2> QED BY <2>2, <2>3, <2>4, <2>5 DEF TypeOK
<1>2. Initial <= buckets /\ HomeUntilResize
  BY TablesAssumption DEF Init, HomeUntilResize, HomeBuckets, Occupied
<1>3. ASSUME NEW t \in Threads PROVE CallOK(t) /\ LockOK(t) /\ Knows(t)
  <2>1. pc[t] = "idle" /\ op[t] = "none" /\ inside = {} /\ Held(t) = {}
    BY CuckooAssumption DEF Init, Held
  <2> QED BY <2>1 DEF CallOK, LockOK, Knows, Needs, Aim, Outside
<1> QED BY <1>1, <1>2, <1>3 DEF IInv

LEMMA SameIInv ==
    ASSUME IInv, UNCHANGED vars
    PROVE  IInv'
<1>1. UNCHANGED <<buckets, cell, lock, inside, pc, op, val, idx, want, goal, path, to, cap, net>>
  BY DEF vars
<1>2. TypeOK' /\ (Initial <= buckets)'
  BY <1>1 DEF IInv, TypeOK
<1>3. HomeUntilResize'
  BY <1>1 DEF IInv, HomeUntilResize, HomeBuckets, Occupied, hash
<1>4. ASSUME NEW t \in Threads PROVE CallOK(t)' /\ LockOK(t)' /\ Knows(t)'
  <2>1. CallOK(t) /\ LockOK(t) /\ Knows(t)
    BY DEF IInv
  <2>2. CallOK(t)'
    BY <1>1, <2>1 DEF CallOK, Aim, hash
  <2>3. LockOK(t)'
    BY <1>1, <2>1 DEF LockOK, Held, Needs, Aim, LocksFor, Home
  <2>4. Knows(t)'
    BY <1>1, <2>1 DEF Knows, SlotsWith
  <2> QED BY <2>2, <2>3, <2>4
<1> QED BY <1>2, <1>3, <1>4 DEF IInv

LEMMA NextIInv == IInv /\ [Next]_vars => IInv'
BY StepGood, SameIInv DEF Next

LEMMA AlwaysIInv == Spec => []IInv
BY InitIInv, NextIInv, PTL DEF Spec

(* The types of the set: paths stay in the tables and within the depth     *)
(* that insert tries, capacities within the bound.                         *)
THEOREM TypeCorrect == Spec => []TypeOK
<1>1. IInv => TypeOK
  BY DEF IInv
<1> QED BY <1>1, AlwaysIInv, PTL

(* As long as nobody resizes, every stored value is in a bucket it hashes  *)
(* to, whatever inserts, displacements and removes interleave: insert      *)
(* hashes a value again before it moves it.                                *)
THEOREM ValuesAreHome == Spec => []HomeUntilResize
<1>1. IInv => HomeUntilResize
  BY DEF IInv
<1> QED BY <1>1, AlwaysIInv, PTL

(* contains and remove miss no value that moves between the tables behind  *)
(* their back: both buckets stay locked between the two looks.             *)
THEOREM NothingMovesBehind == Spec => []NotMovedBehind
<1>1. IInv => NotMovedBehind
  BY DEF IInv, Knows, NotMovedBehind
<1> QED BY <1>1, AlwaysIInv, PTL

(* resize replaces the tables only when nobody is inside and no bucket is  *)
(* locked, whatever the readers of global_lock do.                         *)
THEOREM ResizeAlone == Spec => ResizeIsAlone
<1>1. IInv /\ [Next]_vars =>
        [buckets' # buckets => inside = {} /\ \A i \in Indices : lock[i] = NoThread]_vars
  <2> SUFFICES ASSUME IInv, NEW t \in Threads, Begin(t) \/ Step(t), buckets' # buckets
               PROVE  inside = {} /\ \A i \in Indices : lock[i] = NoThread
    BY DEF Next
  <2>1. inside = {}
    BY StepGood DEF GoodStep
  <2> QED BY <2>1, AllUnlocked
<1> QED BY <1>1, AlwaysIInv, PTL DEF Spec, ResizeIsAlone

-----------------------------------------------------------------------------
\* The size of the set: what is stored and not on its way out of a cell.
Settled == Occupied \ Moving
Rest(t) == {From(u) : u \in {w \in Threads : w # t /\ pc[w] = "clear"}}

LEMMA SettledFinite == IsFiniteSet(Settled) /\ Cardinality(Settled) \in Nat
<1>1. Settled \subseteq Cells
  BY DEF Settled, Occupied
<1> QED BY <1>1, CellsFinite, FS_Subset, FS_CardinalityType

\* The cells that others empty are none that t has locked.
LEMMA RestFacts ==
    ASSUME IInv, NEW t \in Threads
    PROVE  /\ Moving = IF pc[t] = "clear" THEN Rest(t) \cup {From(t)} ELSE Rest(t)
           /\ \A c : c[2] \in Held(t) => c \notin Rest(t)
<1>1. Moving = IF pc[t] = "clear" THEN Rest(t) \cup {From(t)} ELSE Rest(t)
  BY DEF Moving, Rest, From
<1>2. ASSUME NEW c, c[2] \in Held(t), c \in Rest(t) PROVE FALSE
  <2>1. PICK u \in Threads : u # t /\ pc[u] = "clear" /\ c = From(u)
    BY <1>2 DEF Rest
  <2>2. From(u)[2] \in Held(u)
    BY <2>1, MovingFacts DEF From
  <2> QED BY <1>2, <2>1, <2>2, HeldDisjoint
<1> QED BY <1>1, <1>2

LEMMA MovingStep ==
    ASSUME NEW t \in Threads, Others(t)
    PROVE  Moving' = IF pc'[t] = "clear" THEN Rest(t) \cup {From(t)'} ELSE Rest(t)
<1>1. Rest(t)' = Rest(t)
  BY DEF Others, Rest, From
<1>2. Moving' = IF pc'[t] = "clear" THEN Rest(t)' \cup {From(t)'} ELSE Rest(t)'
  BY DEF Moving, Rest, From
<1> QED BY <1>1, <1>2

LEMMA QuietSettled ==
    ASSUME IInv, NEW t \in Threads, Others(t), pc[t] # "clear", pc'[t] # "clear", cell' = cell
    PROVE  Settled' = Settled
<1>1. Moving' = Moving
  BY MovingStep, RestFacts
<1> QED BY <1>1 DEF Settled, Occupied

\* Writing v into one locked cell, by a thread that displaces nothing.
LEMMA WriteSettled ==
    ASSUME IInv, NEW t \in Threads, Others(t), pc[t] # "clear", pc'[t] # "clear",
           NEW c \in Cells, c[2] \in Held(t), NEW v, cell' = [cell EXCEPT ![c] = v]
    PROVE  /\ (cell[c] = EMPTY /\ v # EMPTY) => Settled' = Settled \cup {c} /\ c \notin Settled
           /\ (cell[c] # EMPTY /\ v = EMPTY) => Settled' = Settled \ {c} /\ c \in Settled
<1>1. Moving' = Moving /\ c \notin Moving
  BY MovingStep, RestFacts
<1>2. cell'[c] = v /\ \A d \in Cells : d # c => cell'[d] = cell[d]
  BY DEF IInv, TypeOK
<1>3. ASSUME cell[c] = EMPTY, v # EMPTY PROVE Settled' = Settled \cup {c} /\ c \notin Settled
  BY <1>1, <1>2, <1>3 DEF Settled, Occupied
<1>4. ASSUME cell[c] # EMPTY, v = EMPTY PROVE Settled' = Settled \ {c} /\ c \in Settled
  BY <1>1, <1>2, <1>4 DEF Settled, Occupied
<1> QED BY <1>3, <1>4

LEMMA MoveSettled ==
    ASSUME IInv, NEW t \in Threads, Move(t), pc'[t] = "clear"
    PROVE  /\ Settled' = (Settled \ {From(t)}) \cup {Dest(t)}
           /\ From(t) \in Settled /\ Dest(t) \notin Settled
<1>1. /\ GoodStep(t) /\ pc[t] = "move" /\ From(t) \in Cells /\ Dest(t) \in Cells
      /\ From(t)[2] \in Held(t) /\ Dest(t)[2] \in Held(t)
      /\ cell[Dest(t)] = EMPTY /\ cell[From(t)] # EMPTY
      /\ cell' = [cell EXCEPT ![Dest(t)] = cell[From(t)]] /\ path' = path
  BY MoveGood
<1>2. PICK a, b : a = From(t) /\ b = Dest(t)
  OBVIOUS
<1>3. From(t)' = a
  BY <1>1, <1>2 DEF From
<1>4. Moving' = Rest(t) \cup {a} /\ Moving = Rest(t) /\ a \notin Rest(t) /\ b \notin Rest(t)
  BY <1>1, <1>2, <1>3, MovingStep, RestFacts DEF GoodStep
<1>5. a \in Cells /\ b \in Cells /\ cell[b] = EMPTY /\ cell[a] # EMPTY /\ a # b
  BY <1>1, <1>2
<1>6. cell'[b] = cell[a] /\ \A d \in Cells : d # b => cell'[d] = cell[d]
  BY <1>1, <1>2 DEF IInv, TypeOK
<1>7. Settled' = (Settled \ {a}) \cup {b} /\ a \in Settled /\ b \notin Settled
  BY <1>4, <1>5, <1>6 DEF Settled, Occupied
<1> QED BY <1>2, <1>7

LEMMA ClearSettled ==
    ASSUME IInv, NEW t \in Threads, Clear(t)
    PROVE  Settled' = Settled
<1>1. /\ GoodStep(t) /\ pc[t] = "clear" /\ pc'[t] # "clear"
      /\ From(t) \in Cells /\ From(t)[2] \in Held(t) /\ cell' = [cell EXCEPT ![From(t)] = EMPTY]
  BY ClearGood
<1>2. PICK a : a = From(t)
  OBVIOUS
<1>3. Moving' = Rest(t) /\ Moving = Rest(t) \cup {a}
  BY <1>1, <1>2, MovingStep, RestFacts DEF GoodStep
<1>4. a \in Cells /\ cell'[a] = EMPTY /\ \A d \in Cells : d # a => cell'[d] = cell[d]
  BY <1>1, <1>2 DEF IInv, TypeOK
<1> QED BY <1>3, <1>4 DEF Settled, Occupied

LEMMA SizeStep ==
    ASSUME IInv, NEW t \in Threads, Begin(t) \/ Step(t), SizeUntilResize
    PROVE  SizeUntilResize'
<1> SUFFICES ASSUME buckets' = Initial PROVE Cardinality(Settled') = net'
  BY DEF SizeUntilResize, ExpectedSize, Settled
<1>1. GoodStep(t) /\ Others(t) /\ buckets = Initial
  BY StepGood DEF GoodStep
<1>2. Cardinality(Settled) = net /\ IsFiniteSet(Settled) /\ net \in Nat
  BY <1>1, SettledFinite DEF SizeUntilResize, ExpectedSize, Settled
<1>3. ASSUME cell' = cell, net' = net, pc[t] # "clear", pc'[t] # "clear"
      PROVE  Cardinality(Settled') = net'
  BY <1>1, <1>2, <1>3, QuietSettled
<1>4. CASE Begin(t) \/ Enter(t) \/ Acquire(t) \/ Check(t)
  BY <1>3, <1>4, BeginGood, EnterGood, AcquireGood, CheckGood
<1>5. CASE SearchFinds(t) \/ SearchFails(t) \/ Place(t) \/ ReadCapacity(t) \/ Resize(t)
  <2>1. CASE Resize(t)
    BY <1>3, <2>1, ResizeIInv
  <2> QED BY <1>3, <1>5, <2>1, SearchFindsGood, SearchFailsGood, PlaceGood, ReadCapacityGood
<1>6. CASE \E f \in Tables : FindIn(t, f)
  <2>1. PICK f \in Tables : FindIn(t, f)
    BY <1>6
  <2>2. CASE cell' = cell /\ net' = net
    BY <1>3, <2>1, <2>2, FindInGood
  <2>3. CASE \E c \in Cells : /\ c[2] \in Held(t) /\ cell[c] # EMPTY
                              /\ cell' = [cell EXCEPT ![c] = EMPTY] /\ net' = net - 1
    <3>1. PICK c \in Cells : /\ c[2] \in Held(t) /\ cell[c] # EMPTY
                             /\ cell' = [cell EXCEPT ![c] = EMPTY] /\ net' = net - 1
      BY <2>3
    <3>2. Settled' = Settled \ {c} /\ c \in Settled
      BY <1>1, <2>1, <3>1, FindInGood, WriteSettled
    <3>3. Cardinality(Settled \ {c}) = Cardinality(Settled) - 1
      BY <1>2, <3>2, FS_RemoveElement
    <3> QED BY <1>2, <3>1, <3>2, <3>3
  <2> QED BY <2>1, <2>2, <2>3, FindInGood
<1>7. CASE Write(t)
  <2>1. PICK c \in Cells, v \in Values :
            /\ c[2] \in Held(t) /\ cell[c] = EMPTY /\ cell' = [cell EXCEPT ![c] = v]
            /\ pc[t] = "write" /\ pc'[t] # "clear" /\ net' = net + 1
    BY <1>7, WriteGood
  <2>2. v # EMPTY /\ pc[t] # "clear"
    BY <2>1, TablesAssumption DEF EMPTY
  <2>3. Settled' = Settled \cup {c} /\ c \notin Settled
    BY <1>1, <2>1, <2>2, WriteSettled
  <2>4. Cardinality(Settled \cup {c}) = Cardinality(Settled) + 1
    BY <1>2, <2>3, FS_AddElement
  <2> QED BY <1>2, <2>1, <2>3, <2>4
<1>8. CASE Move(t)
  <2>1. CASE cell' = cell /\ pc'[t] = "enter"
    BY <1>3, <1>8, <2>1, MoveGood
  <2>2. CASE pc'[t] = "clear"
    <3>1. /\ Settled' = (Settled \ {From(t)}) \cup {Dest(t)} /\ net' = net
          /\ From(t) \in Settled /\ Dest(t) \notin Settled
      BY <1>8, <2>2, MoveSettled, MoveGood
    <3>2. /\ IsFiniteSet(Settled \ {From(t)})
          /\ Cardinality(Settled \ {From(t)}) = Cardinality(Settled) - 1
      BY <1>2, <3>1, FS_RemoveElement
    <3>3. Dest(t) \notin Settled \ {From(t)}
      BY <3>1
    <3>4. Cardinality((Settled \ {From(t)}) \cup {Dest(t)}) = Cardinality(Settled \ {From(t)}) + 1
      BY <3>2, <3>3, FS_AddElement
    <3> QED BY <1>2, <3>1, <3>2, <3>4
  <2> QED BY <1>8, <2>1, <2>2, MoveGood
<1>9. CASE Clear(t)
  BY <1>2, <1>9, ClearSettled, ClearGood
<1> QED BY <1>4, <1>5, <1>6, <1>7, <1>8, <1>9 DEF Step

(* As long as nobody resizes, the set holds as many values as inserts      *)
(* minus removes answered true: no interleaving of displacements, inserts  *)
(* and removes loses, overwrites or doubles a stored value.                *)
THEOREM SizeIsKept == Spec => []SizeUntilResize
<1>1. Init => SizeUntilResize
  <2> SUFFICES ASSUME Init PROVE Cardinality(Settled) = 0 /\ net = 0
    BY DEF SizeUntilResize, ExpectedSize, Settled
  <2>1. Settled = {} /\ net = 0
    BY DEF Init, Settled, Occupied
  <2> QED BY <2>1, FS_EmptySet
<1>2. IInv /\ SizeUntilResize /\ [Next]_vars => SizeUntilResize'
  <2> SUFFICES ASSUME IInv, SizeUntilResize, [Next]_vars PROVE SizeUntilResize'
    OBVIOUS
  <2>1. CASE Next
    BY <2>1, SizeStep DEF Next
  <2>2. CASE UNCHANGED vars
    BY <2>2 DEF vars, SizeUntilResize, ExpectedSize, Occupied, Moving
  <2> QED BY <2>1, <2>2
<1> QED BY <1>1, <1>2, AlwaysIInv, PTL DEF Spec

-----------------------------------------------------------------------------
\* The transactional set.  A step keeps to one call: thread t becomes r, and
\* moves only between the readers of global_lock and the others.
BecomeOK(t, r) ==
    /\ call' = [call EXCEPT ![t] = r]
    /\ r \in Calls /\ Len(r.path) <= MaxDepth + 1 /\ RequestOK(r)
    /\ inside' \subseteq Threads

LEMMA BecomeInv ==
    ASSUME TMInv, NEW t \in Threads, NEW r, BecomeOK(t, r),
           buckets' \in 1 .. MaxBuckets, cell' \in [Cells -> Values \cup {EMPTY}]
    PROVE  TMInv'
<1>1. call \in [Threads -> Calls] /\ call'[t] = r /\ \A u \in Threads : u # t => call'[u] = call[u]
  BY DEF TMInv, TMTypeOK, BecomeOK
<1>2. call' \in [Threads -> Calls]
  BY <1>1 DEF BecomeOK
<1>3. \A u \in Threads : Len(call'[u].path) <= MaxDepth + 1 /\ RequestOK(call'[u])
  BY <1>1 DEF TMInv, TMTypeOK, BecomeOK
<1> QED BY <1>2, <1>3 DEF TMInv, TMTypeOK, BecomeOK, RequestOK

LEMMA CallType ==
    ASSUME TMInv, NEW t \in Threads
    PROVE  /\ call[t] \in Calls /\ Len(call[t].path) <= MaxDepth + 1 /\ RequestOK(call[t])
           /\ inside \subseteq Threads /\ buckets \in 1 .. MaxBuckets
           /\ cell \in [Cells -> Values \cup {EMPTY}]
BY DEF TMInv, TMTypeOK

LEMMA IdleOK == Idle \in Calls /\ Len(Idle.path) = 0 /\ RequestOK(Idle) /\ Idle.pc = "idle"
<1>1. Idle.path = << >> /\ << >> \in Seq(Cells) /\ Len(<< >>) = 0 /\ Idle.pc = "idle"
  BY DEF Idle, NoPath
<1>2. NoCell \in Cells /\ 0 \in 0 .. MaxBuckets /\ [f \in Tables |-> 0] \in [Tables -> Indices]
  BY NoCellFact, SomeFinite, TablesAssumption
<1>3. Idle \in Calls
  BY <1>1, <1>2 DEF Idle, Calls, NoPath
<1> QED BY <1>1, <1>3 DEF RequestOK

LEMMA ReturnBecomes ==
    ASSUME TMInv, NEW t \in Threads, TMReturn(t)
    PROVE  BecomeOK(t, Idle)
BY IdleOK, CallType, TablesAssumption DEF TMReturn, Become, BecomeOK

LEMMA HashesType ==
    ASSUME buckets \in 1 .. MaxBuckets, NEW v \in Values \cup {EMPTY}
    PROVE  Hashes(v) \in [Tables -> Indices]
BY HashRange DEF Hashes

\* What t answers by a step that stores nothing: no insert, and no remove of a
\* value it found.
Quiet(t, r) ==
    /\ BecomeOK(t, r) /\ cell' = cell /\ buckets' = buckets
    /\ r.pc = "idle" => /\ call[t].pc # "write"
                        /\ call[t].op = "remove" => \A f \in Tables : ~Holds(f, call[t].idx[f], call[t].val)

LEMMA TMBeginQuiet ==
    ASSUME TMInv, NEW t \in Threads, TMBegin(t)
    PROVE  \E r : Quiet(t, r)
<1>1. PICK o \in {"insert", "remove", "contains"}, v \in Values : TMCall(t, o, v)
  BY DEF TMBegin
<1>2. PICK i : i = IF o = "insert" THEN Hashes(v) ELSE Idle.idx
  OBVIOUS
<1>3. PICK r : r = [Idle EXCEPT !.pc = "enter", !.op = o, !.val = v, !.idx = i]
  OBVIOUS
<1>4. i \in [Tables -> Indices]
  BY <1>2, IdleOK, HashesType, CallType DEF Calls
<1>5. r \in Calls /\ r.path = Idle.path /\ r.pc = "enter" /\ r.val = v
  BY <1>3, <1>4, IdleOK DEF Calls
<1>6. call' = [call EXCEPT ![t] = r] /\ cell' = cell /\ buckets' = buckets /\ inside' = inside
  BY <1>1, <1>2, <1>3 DEF TMCall, Become
<1>7. RequestOK(r) /\ Len(r.path) <= MaxDepth + 1
  BY <1>5, IdleOK, TablesAssumption DEF RequestOK
<1>8. Quiet(t, r)
  BY <1>5, <1>6, <1>7, CallType DEF Quiet, BecomeOK
<1> QED BY <1>8

LEMMA TMEnterQuiet ==
    ASSUME TMInv, NEW t \in Threads, TMEnter(t)
    PROVE  \E r : Quiet(t, r)
<1>1. PICK k \in Calls : k = call[t] /\ Len(k.path) <= MaxDepth + 1 /\ RequestOK(k) /\ k.pc = "enter"
  BY CallType DEF TMEnter
<1>2. PICK i : i = IF k.op = "insert" THEN k.idx ELSE Hashes(k.val)
  OBVIOUS
<1>3. PICK r : r = [k EXCEPT !.pc = "tx", !.idx = i]
  OBVIOUS
<1>4. i \in [Tables -> Indices]
  BY <1>1, <1>2, HashesType, CallType DEF Calls
<1>5. r \in Calls /\ r.path = k.path /\ r.pc = "tx" /\ r.val = k.val
  BY <1>3, <1>4 DEF Calls
<1>6. call' = [call EXCEPT ![t] = r] /\ cell' = cell /\ buckets' = buckets /\ inside' = inside \cup {t}
  BY <1>1, <1>2, <1>3 DEF TMEnter, Become
<1>7. RequestOK(r)
  BY <1>1, <1>5 DEF RequestOK
<1>8. Quiet(t, r)
  BY <1>1, <1>5, <1>6, <1>7, CallType DEF Quiet, BecomeOK
<1> QED BY <1>8

LEMMA containsQuiet ==
    ASSUME TMInv, NEW t \in Threads, contains(t)
    PROVE  \E r : Quiet(t, r)
<1>1. Quiet(t, Idle)
  BY ReturnBecomes DEF contains, Quiet
<1> QED BY <1>1

\* The first free slot of the buckets i is in one of them.
LEMMA FreeSlot ==
    ASSUME NEW i \in [Tables -> Indices], NEW v, NEW S, S \subseteq Tables, S # {},
           \A f \in S : Holds(f, i[f], v),
           NEW c, c = FirstSlot(Min(S), i[Min(S)], v)
    PROVE  c \in Cells /\ c[2] = i[c[1]] /\ cell[c] = v
<1>1. IsFiniteSet(S) /\ \A x \in S : x \in Int
  <2>1. IsFiniteSet({1} \cup {2}) /\ Tables = {1} \cup {2}
    BY FS_Singleton, FS_AddElement DEF Tables
  <2>2. IsFiniteSet(S)
    BY <2>1, FS_Subset
  <2>3. \A x \in S : x \in Int
    BY DEF Tables
  <2> QED BY <2>2, <2>3
<1>2. PICK m : m = Min(S) /\ m \in S
  BY <1>1, MinFacts
<1>3. m \in Tables /\ i[m] \in Indices /\ SlotsWith(m, i[m], v) # {}
  BY <1>2 DEF Holds
<1>4. PICK j : j = i[m]
  OBVIOUS
<1>5. /\ FirstSlot(m, j, v) \in Cells /\ FirstSlot(m, j, v)[1] = m
      /\ FirstSlot(m, j, v)[2] = j /\ cell[FirstSlot(m, j, v)] = v
  BY <1>3, <1>4, FirstSlotFacts
<1> QED BY <1>2, <1>4, <1>5

LEMMA TMCheckQuiet ==
    ASSUME TMInv, NEW t \in Threads, TMCheck(t)
    PROVE  \E r : Quiet(t, r)
<1>1. PICK k \in Calls : /\ k = call[t] /\ Len(k.path) <= MaxDepth + 1 /\ RequestOK(k)
                         /\ k.pc = "tx" /\ k.op = "insert"
  BY CallType DEF TMCheck
<1>2. PICK free : free = {f \in Tables : Holds(f, k.idx[f], EMPTY)}
  OBVIOUS
<1>3. cell' = cell /\ buckets' = buckets /\ k.val \in Values /\ k.idx \in [Tables -> Indices]
  BY <1>1 DEF TMCheck, RequestOK, Calls
<1>4. CASE TMReturn(t)
  <2>1. Quiet(t, Idle)
    BY <1>1, <1>3, <1>4, ReturnBecomes DEF Quiet
  <2> QED BY <2>1
<1>5. CASE inside' = inside /\ TMGoto(t, "search")
  <2>1. PICK r : r = [k EXCEPT !.pc = "search"]
    OBVIOUS
  <2>2. r \in Calls /\ r.path = k.path /\ r.pc = "search" /\ r.val = k.val /\ r.op = k.op
    BY <2>1 DEF Calls
  <2>3. Quiet(t, r)
    BY <1>1, <1>3, <1>5, <2>1, <2>2, CallType DEF Quiet, BecomeOK, RequestOK, TMGoto, Become
  <2> QED BY <2>3
<1>6. CASE /\ inside' = inside /\ free # {}
           /\ Become(t, [k EXCEPT !.pc = "write", !.to = FirstSlot(Min(free), k.idx[Min(free)], EMPTY)])
  <2>1. PICK c : c = FirstSlot(Min(free), k.idx[Min(free)], EMPTY)
    OBVIOUS
  <2>2. c \in Cells /\ c[2] = k.idx[c[1]]
    <3>1. PICK i \in [Tables -> Indices] : i = k.idx
      BY <1>3
    <3>2. free \subseteq Tables /\ free # {} /\ \A f \in free : Holds(f, i[f], EMPTY)
      BY <1>2, <1>6, <3>1
    <3>3. PICK v : v = EMPTY /\ c = FirstSlot(Min(free), i[Min(free)], v)
      BY <2>1, <3>1
    <3>4. c \in Cells /\ c[2] = i[c[1]] /\ cell[c] = v
      BY <3>2, <3>3, FreeSlot
    <3> QED BY <3>1, <3>4
  <2>3. PICK r : r = [k EXCEPT !.pc = "write", !.to = c]
    OBVIOUS
  <2>4. /\ r \in Calls /\ r.path = k.path /\ r.pc = "write" /\ r.val = k.val /\ r.op = k.op
        /\ r.idx = k.idx /\ r.to = c
    BY <2>2, <2>3 DEF Calls
  <2>5. RequestOK(r)
    BY <1>1, <1>3, <2>2, <2>4 DEF RequestOK
  <2>6. Quiet(t, r)
    BY <1>1, <1>3, <1>6, <2>1, <2>3, <2>4, <2>5, CallType DEF Quiet, BecomeOK, Become
  <2> QED BY <2>6
<1> QED BY <1>1, <1>2, <1>4, <1>5, <1>6 DEF TMCheck

LEMMA TMSearchFindsQuiet ==
    ASSUME TMInv, NEW t \in Threads, TMSearchFinds(t)
    PROVE  \E r : Quiet(t, r)
<1>1. PICK k \in Calls : k = call[t] /\ RequestOK(k) /\ k.pc = "search"
  BY CallType DEF TMSearchFinds
<1>2. PICK i, p : /\ i = k.idx /\ p \in Paths(i)
                  /\ Become(t, [k EXCEPT !.pc = "move", !.path = p])
  BY <1>1 DEF TMSearchFinds
<1>3. p \in Seq(Cells) /\ Len(p) >= 1 /\ Len(p) <= MaxDepth + 1 /\ p[1][2] = i[p[1][1]]
  BY <1>2, PathShape
<1>4. PICK r : r = [k EXCEPT !.pc = "move", !.path = p]
  OBVIOUS
<1>5. /\ r \in Calls /\ r.path = p /\ r.pc = "move" /\ r.val = k.val /\ r.op = k.op
      /\ r.idx = i
  BY <1>2, <1>3, <1>4 DEF Calls
<1>6. RequestOK(r)
  BY <1>1, <1>3, <1>5 DEF RequestOK
<1>7. Quiet(t, r)
  BY <1>1, <1>2, <1>3, <1>4, <1>5, <1>6, CallType DEF Quiet, BecomeOK, Become, TMSearchFinds
<1> QED BY <1>7

LEMMA TMSearchFailsQuiet ==
    ASSUME TMInv, NEW t \in Threads, TMSearchFails(t)
    PROVE  \E r : Quiet(t, r)
<1>1. PICK k \in Calls : k = call[t] /\ Len(k.path) <= MaxDepth + 1 /\ RequestOK(k) /\ k.pc = "search"
  BY CallType DEF TMSearchFails
<1>2. PICK r : r = [k EXCEPT !.pc = "capacity"]
  OBVIOUS
<1>3. r \in Calls /\ r.path = k.path /\ r.pc = "capacity" /\ r.val = k.val /\ r.op = k.op
  BY <1>2 DEF Calls
<1>4. RequestOK(r)
  BY <1>1, <1>3 DEF RequestOK
<1>5. Quiet(t, r)
  BY <1>1, <1>2, <1>3, <1>4, CallType DEF Quiet, BecomeOK, TMGoto, Become, TMSearchFails
<1> QED BY <1>5

LEMMA TMReadCapacityQuiet ==
    ASSUME TMInv, NEW t \in Threads, TMReadCapacity(t)
    PROVE  \E r : Quiet(t, r)
<1>1. PICK k \in Calls : k = call[t] /\ Len(k.path) <= MaxDepth + 1 /\ RequestOK(k) /\ k.pc = "capacity"
  BY CallType DEF TMReadCapacity
<1>2. PICK r : r = [k EXCEPT !.pc = "resize", !.cap = buckets]
  OBVIOUS
<1>3. buckets \in 0 .. MaxBuckets
  BY CallType, TablesAssumption
<1>4. r \in Calls /\ r.path = k.path /\ r.pc = "resize" /\ r.val = k.val /\ r.op = k.op
  BY <1>2, <1>3 DEF Calls
<1>5. RequestOK(r)
  BY <1>1, <1>4 DEF RequestOK
<1>6. Quiet(t, r)
  BY <1>1, <1>2, <1>4, <1>5, CallType DEF Quiet, BecomeOK, Become, TMReadCapacity
<1> QED BY <1>6

LEMMA TMRetryQuiet ==
    ASSUME TMInv, NEW t \in Threads, TMRetry(t), call[t].pc = "move", buckets' = buckets
    PROVE  \E r : Quiet(t, r) /\ r.pc = "enter"
<1>1. PICK k \in Calls : k = call[t] /\ RequestOK(k) /\ k.pc = "move"
  BY CallType
<1>2. PICK r : r = [k EXCEPT !.pc = "enter", !.path = NoPath]
  OBVIOUS
<1>3. NoPath \in Seq(Cells) /\ Len(NoPath) = 0
  BY DEF NoPath
<1>4. r \in Calls /\ r.path = NoPath /\ r.pc = "enter" /\ r.val = k.val /\ r.op = k.op
  BY <1>2, <1>3 DEF Calls
<1>5. RequestOK(r) /\ Len(r.path) <= MaxDepth + 1
  BY <1>1, <1>3, <1>4, TablesAssumption DEF RequestOK
<1>6. Quiet(t, r)
  BY <1>1, <1>2, <1>4, <1>5, CallType DEF Quiet, BecomeOK, Become, TMRetry
<1> QED BY <1>4, <1>6

LEMMA TMPlaceQuiet ==
    ASSUME TMInv, NEW t \in Threads, TMPlace(t)
    PROVE  \E r : Quiet(t, r)
<1>1. PICK k \in Calls : /\ k = call[t] /\ Len(k.path) <= MaxDepth + 1 /\ RequestOK(k) /\ k.pc = "move"
                         /\ Len(k.path) = 1
  BY CallType DEF TMPlace
<1>2. CASE TMRetry(t)
  BY <1>1, <1>2, TMRetryQuiet DEF TMPlace
<1>3. CASE Become(t, [k EXCEPT !.pc = "write", !.to = k.path[1]]) /\ UNCHANGED <<cell, inside>>
  <2>1. PICK c : c = k.path[1]
    OBVIOUS
  <2>2. k.path \in Seq(Cells) /\ k.idx \in [Tables -> Indices]
    BY DEF Calls
  <2>3. c \in Cells /\ c[2] = k.idx[c[1]]
    BY <1>1, <2>1, <2>2 DEF RequestOK
  <2>4. PICK r : r = [k EXCEPT !.pc = "write", !.to = c]
    OBVIOUS
  <2>5. /\ r \in Calls /\ r.path = k.path /\ r.pc = "write" /\ r.val = k.val /\ r.op = k.op
        /\ r.idx = k.idx /\ r.to = c
    BY <2>3, <2>4 DEF Calls
  <2>6. RequestOK(r)
    BY <1>1, <2>3, <2>5 DEF RequestOK
  <2>7. Quiet(t, r)
    BY <1>1, <1>3, <2>1, <2>4, <2>5, <2>6, CallType DEF Quiet, BecomeOK, Become, TMPlace
  <2> QED BY <2>7
<1> QED BY <1>1, <1>2, <1>3 DEF TMPlace

LEMMA removeStep ==
    ASSUME TMInv, NEW t \in Threads, remove(t)
    PROVE  \/ \E r : Quiet(t, r)
           \/ /\ BecomeOK(t, Idle) /\ buckets' = buckets
              /\ call[t].pc = "tx" /\ call[t].op = "remove"
              /\ \E f \in Tables : Holds(f, call[t].idx[f], call[t].val)
              /\ \E c \in Cells : cell[c] # EMPTY /\ cell' = [cell EXCEPT ![c] = EMPTY]
<1>1. PICK k \in Calls : /\ k = call[t] /\ RequestOK(k) /\ k.pc = "tx" /\ k.op = "remove"
  BY CallType DEF remove
<1>2. PICK homes, v, i : /\ homes = {f \in Tables : Holds(f, k.idx[f], v)}
                         /\ v = k.val /\ i = k.idx
  OBVIOUS
<1>3. BecomeOK(t, Idle) /\ buckets' = buckets
  BY ReturnBecomes DEF remove
<1>4. CASE homes = {}
  <2>1. cell' = cell
    BY <1>1, <1>2, <1>4 DEF remove
  <2>2. Quiet(t, Idle)
    BY <1>1, <1>2, <1>3, <1>4, <2>1 DEF Quiet
  <2> QED BY <2>2
<1>5. CASE homes # {}
  <2>1. PICK c : c = FirstSlot(Min(homes), i[Min(homes)], v)
    OBVIOUS
  <2>2. cell' = [cell EXCEPT ![c] = EMPTY]
    BY <1>1, <1>2, <1>5, <2>1 DEF remove
  <2>3. i \in [Tables -> Indices] /\ homes \subseteq Tables /\ \A f \in homes : Holds(f, i[f], v)
    BY <1>2 DEF Calls
  <2>4. c \in Cells /\ cell[c] = v
    BY <1>5, <2>1, <2>3, FreeSlot
  <2>5. v # EMPTY
    BY <1>1, <1>2, TablesAssumption DEF RequestOK, EMPTY
  <2>6. \E f \in Tables : Holds(f, call[t].idx[f], call[t].val)
    BY <1>1, <1>2, <1>5
  <2> QED BY <1>1, <1>3, <2>2, <2>4, <2>5, <2>6
<1> QED BY <1>4, <1>5

LEMMA TMWriteStep ==
    ASSUME TMInv, NEW t \in Threads, TMWrite(t)
    PROVE  /\ BecomeOK(t, Idle) /\ buckets' = buckets
           /\ call[t].pc = "write" /\ call[t].op = "insert"
           /\ call[t].to \in Cells /\ call[t].val \in Values
           /\ call[t].to[2] = call[t].idx[call[t].to[1]]
           /\ cell' = [cell EXCEPT ![call[t].to] = call[t].val]
<1>1. BecomeOK(t, Idle)
  BY ReturnBecomes DEF TMWrite
<1>2. call[t] \in Calls /\ RequestOK(call[t]) /\ call[t].pc = "write"
  BY CallType DEF TMWrite
<1> QED BY <1>1, <1>2 DEF TMWrite, Calls, RequestOK

\* A displacement moves a value into a free cell of its other bucket.
LEMMA TMMoveStep ==
    ASSUME TMInv, NEW t \in Threads, TMMove(t)
    PROVE  \/ \E r : Quiet(t, r)
           \/ /\ buckets' = buckets
              /\ \E r : BecomeOK(t, r) /\ r.pc # "idle"
              /\ \E a, b \in Cells :
                    /\ cell[b] = EMPTY /\ cell[a] # EMPTY /\ hash(cell[a], b[1]) = b[2]
                    /\ cell' = [cell EXCEPT ![b] = cell[a], ![a] = EMPTY]
<1>1. PICK k \in Calls : /\ k = call[t] /\ Len(k.path) <= MaxDepth + 1 /\ RequestOK(k) /\ k.pc = "move"
  BY CallType DEF TMMove, Displace
<1>2. PICK p, n : p = k.path /\ n = Len(p)
  OBVIOUS
<1>3. p \in Seq(Cells) /\ n \in Nat /\ n > 1 /\ buckets' = buckets /\ p[1][2] = k.idx[p[1][1]]
  <2>1. p \in Seq(Cells) /\ n \in Nat
    BY <1>2 DEF Calls
  <2>2. n > 1 /\ buckets' = buckets
    BY <1>1, <1>2 DEF TMMove, Displace
  <2> QED BY <1>1, <1>2, <2>1, <2>2 DEF RequestOK
<1>4. PICK a, b : a = p[n - 1] /\ b = p[n]
  OBVIOUS
<1>5. a \in Cells /\ b \in Cells /\ p[1] \in Cells
  BY <1>2, <1>3, <1>4
<1>6. CASE TMRetry(t)
  BY <1>1, <1>3, <1>6, TMRetryQuiet
<1>7. CASE /\ cell[b] = EMPTY /\ cell[a] # EMPTY /\ hash(cell[a], b[1]) = b[2]
           /\ cell' = [cell EXCEPT ![b] = cell[a], ![a] = EMPTY] /\ inside' = inside
           /\ Become(t, IF n = 2 THEN [k EXCEPT !.pc = "write", !.path = NoPath, !.to = p[1]]
                                 ELSE [k EXCEPT !.path = SubSeq(p, 1, n - 1)])
  <2>1. CASE n = 2
    <3>1. PICK r, c : c = p[1] /\ r = [k EXCEPT !.pc = "write", !.path = NoPath, !.to = c]
      OBVIOUS
    <3>2. NoPath \in Seq(Cells) /\ Len(NoPath) = 0
      BY DEF NoPath
    <3>3. /\ r \in Calls /\ r.path = NoPath /\ r.pc = "write" /\ r.val = k.val /\ r.op = k.op
          /\ r.idx = k.idx /\ r.to = c
      BY <1>5, <3>1, <3>2 DEF Calls
    <3>4. RequestOK(r) /\ Len(r.path) <= MaxDepth + 1
      BY <1>1, <1>3, <3>1, <3>2, <3>3, TablesAssumption DEF RequestOK
    <3>5. call' = [call EXCEPT ![t] = r]
      BY <1>7, <2>1, <3>1 DEF Become
    <3>6. BecomeOK(t, r) /\ r.pc # "idle"
      BY <1>7, <3>3, <3>4, <3>5, CallType DEF BecomeOK
    <3> QED BY <1>3, <1>5, <1>7, <3>6
  <2>2. CASE n > 2
    <3>1. PICK r, q : q = SubSeq(p, 1, n - 1) /\ r = [k EXCEPT !.path = q]
      OBVIOUS
    <3>2. q \in Seq(Cells) /\ Len(q) = n - 1 /\ q[1] = p[1]
      <4>1. n - 1 \in 1 .. n /\ 1 \in 1 .. Len(p) /\ n - 1 \in 1 .. Len(p)
        BY <1>2, <1>3, <2>2
      <4>2. q = [j \in 1 .. n - 1 |-> p[j]]
        BY <1>2, <1>3, <2>2, <3>1
      <4>3. \A j \in 1 .. n - 1 : p[j] \in Cells
        BY <1>2, <1>3
      <4>4. n - 1 \in Nat /\ q \in [1 .. n - 1 -> Cells]
        BY <1>3, <4>2, <4>3
      <4>5. q[1] = p[1]
        BY <1>3, <2>2, <4>2
      <4> QED BY <4>4, <4>5
    <3>3. /\ r \in Calls /\ r.path = q /\ r.pc = k.pc /\ r.val = k.val /\ r.op = k.op /\ r.idx = k.idx
      BY <3>1, <3>2 DEF Calls
    <3>4. Len(r.path) <= MaxDepth + 1 /\ Len(r.path) >= 1
      BY <1>1, <1>2, <1>3, <2>2, <3>2, <3>3, TablesAssumption
    <3>5. RequestOK(r)
      BY <1>1, <1>3, <3>2, <3>3, <3>4 DEF RequestOK
    <3>6. call' = [call EXCEPT ![t] = r]
      <4>1. n # 2
        BY <1>3, <2>2
      <4> QED BY <1>7, <3>1, <4>1 DEF Become
    <3>7. BecomeOK(t, r) /\ r.pc # "idle"
      BY <1>1, <1>7, <3>3, <3>4, <3>5, <3>6, CallType DEF BecomeOK
    <3> QED BY <1>3, <1>5, <1>7, <3>7
  <2> QED BY <1>3, <2>1, <2>2
<1> QED
  <2>1. MoveFrom(t) = a /\ MoveTo(t) = b /\ k = call[t] /\ p = call[t].path /\ n = Len(call[t].path)
    BY <1>1, <1>2, <1>4 DEF MoveFrom, MoveTo
  <2> QED BY <2>1, <1>6, <1>7 DEF TMMove, Displace, Rehashes

LEMMA resizeStep ==
    ASSUME TMInv, NEW t \in Threads, resize(t)
    PROVE  \/ \E r : Quiet(t, r)
           \/ /\ buckets' = 2 * buckets /\ 2 * buckets <= MaxBuckets /\ cell' = Rebuilt(2 * buckets)
              /\ \E r : BecomeOK(t, r)
<1>1. PICK k \in Calls : k = call[t] /\ Len(k.path) <= MaxDepth + 1 /\ RequestOK(k) /\ k.pc = "resize"
  BY CallType DEF resize
<1>2. PICK r : r = [k EXCEPT !.pc = "enter"]
  OBVIOUS
<1>3. r \in Calls /\ r.path = k.path /\ r.pc = "enter" /\ r.val = k.val /\ r.op = k.op
  BY <1>2 DEF Calls
<1>4. RequestOK(r)
  BY <1>1, <1>3 DEF RequestOK
<1>5. BecomeOK(t, r)
  BY <1>1, <1>2, <1>3, <1>4, CallType DEF BecomeOK, TMGoto, Become, resize
<1>6. CASE UNCHANGED <<buckets, cell>>
  <2>1. Quiet(t, r)
    BY <1>3, <1>5, <1>6 DEF Quiet
  <2> QED BY <2>1
<1> QED BY <1>5, <1>6 DEF resize

\* Every step of thread t is one of these.
Stores(t, c) ==
    /\ BecomeOK(t, Idle) /\ buckets' = buckets
    /\ call[t].pc = "write" /\ call[t].op = "insert" /\ c = call[t].to /\ c \in Cells
    /\ call[t].val \in Values /\ c[2] = call[t].idx[c[1]]
    /\ cell' = [cell EXCEPT ![c] = call[t].val]

Erases(t, c) ==
    /\ BecomeOK(t, Idle) /\ buckets' = buckets
    /\ call[t].pc = "tx" /\ call[t].op = "remove"
    /\ \E f \in Tables : Holds(f, call[t].idx[f], call[t].val)
    /\ cell[c] # EMPTY /\ cell' = [cell EXCEPT ![c] = EMPTY]

Displaces(t, a, b) ==
    /\ buckets' = buckets /\ \E r : BecomeOK(t, r) /\ r.pc # "idle"
    /\ cell[b] = EMPTY /\ cell[a] # EMPTY /\ hash(cell[a], b[1]) = b[2]
    /\ cell' = [cell EXCEPT ![b] = cell[a], ![a] = EMPTY]

Rebuilds(t) ==
    /\ buckets' = 2 * buckets /\ 2 * buckets <= MaxBuckets /\ cell' = Rebuilt(2 * buckets)
    /\ \E r : BecomeOK(t, r)

LEMMA TMStepIs ==
    ASSUME TMInv, NEW t \in Threads, TMBegin(t) \/ TMStep(t)
    PROVE  \/ \E r : Quiet(t, r)
           \/ \E c \in Cells : Stores(t, c) \/ Erases(t, c)
           \/ \E a, b \in Cells : Displaces(t, a, b)
           \/ Rebuilds(t)
<1>1. CASE TMBegin(t) \/ TMEnter(t) \/ contains(t) \/ TMCheck(t)
  BY <1>1, TMBeginQuiet, TMEnterQuiet, containsQuiet, TMCheckQuiet
<1>2. CASE TMSearchFinds(t) \/ TMSearchFails(t) \/ TMPlace(t) \/ TMReadCapacity(t)
  BY <1>2, TMSearchFindsQuiet, TMSearchFailsQuiet, TMPlaceQuiet, TMReadCapacityQuiet
<1>3. CASE remove(t)
  BY <1>3, removeStep DEF Erases
<1>4. CASE TMWrite(t)
  BY <1>4, TMWriteStep DEF Stores
<1>5. CASE TMMove(t)
  BY <1>5, TMMoveStep DEF Displaces
<1>6. CASE resize(t)
  BY <1>6, resizeStep DEF Rebuilds
<1> QED BY <1>1, <1>2, <1>3, <1>4, <1>5, <1>6 DEF TMStep

LEMMA TMNextInv == TMInv /\ [TMNext]_tmVars => TMInv'
<1> SUFFICES ASSUME TMInv, [TMNext]_tmVars PROVE TMInv'
  OBVIOUS
<1>1. CASE UNCHANGED tmVars
  BY <1>1 DEF TMInv, TMTypeOK, RequestOK, tmVars
<1>2. ASSUME NEW t \in Threads, TMBegin(t) \/ TMStep(t) PROVE TMInv'
  <2>1. buckets \in 1 .. MaxBuckets /\ cell \in [Cells -> Values \cup {EMPTY}]
    BY DEF TMInv, TMTypeOK
  <2>2. CASE \E r : Quiet(t, r)
    BY <2>1, <2>2, BecomeInv DEF Quiet
  <2>3. ASSUME NEW c \in Cells, Stores(t, c) \/ Erases(t, c) PROVE TMInv'
    <3>1. BecomeOK(t, Idle) /\ buckets' = buckets
      BY <2>3 DEF Stores, Erases
    <3>2. cell' \in [Cells -> Values \cup {EMPTY}]
      BY <2>1, <2>3 DEF Stores, Erases
    <3> QED BY <2>1, <3>1, <3>2, BecomeInv
  <2>4. ASSUME NEW a \in Cells, NEW b \in Cells, Displaces(t, a, b) PROVE TMInv'
    <3>1. cell' \in [Cells -> Values \cup {EMPTY}]
      BY <2>1, <2>4 DEF Displaces
    <3> QED BY <2>1, <2>4, <3>1, BecomeInv DEF Displaces
  <2>5. CASE Rebuilds(t)
    <3>1. cell' \in [Cells -> Values \cup {EMPTY}]
      BY <2>1, <2>5, RebuiltFacts DEF Rebuilds
    <3>2. buckets' \in 1 .. MaxBuckets
      BY <2>1, <2>5, TablesAssumption DEF Rebuilds
    <3> QED BY <2>5, <3>1, <3>2, BecomeInv DEF Rebuilds
  <2> QED BY <1>2, <2>2, <2>3, <2>4, <2>5, TMStepIs
<1> QED BY <1>1, <1>2 DEF TMNext

LEMMA TMInitInv == TMInit => TMInv
<1> SUFFICES ASSUME TMInit PROVE TMInv
  OBVIOUS
<1>1. buckets \in 1 .. MaxBuckets /\ cell \in [Cells -> Values \cup {EMPTY}] /\ inside \subseteq Threads
  BY TablesAssumption DEF TMInit
<1>2. \A t \in Threads : call[t] = Idle
  BY DEF TMInit
<1>3. call \in [Threads -> Calls]
  BY IdleOK DEF TMInit
<1>4. \A t \in Threads : Len(call[t].path) <= MaxDepth + 1 /\ RequestOK(call[t])
  BY <1>2, IdleOK, TablesAssumption
<1> QED BY <1>1, <1>3, <1>4 DEF TMInv, TMTypeOK

LEMMA TMAlways == TMSpec => []TMInv
BY TMInitInv, TMNextInv, PTL DEF TMSpec

(* Every variable of the transactional set keeps its type: a slot that is  *)
(* remembered across transactions and resizes is still one of the tables.  *)
THEOREM TMTypeCorrect == TMSpec => []TMTypeOK
<1>1. TMInv => TMTypeOK
  BY DEF TMInv
<1> QED BY <1>1, TMAlways, PTL

-----------------------------------------------------------------------------
LEMMA MisplacedStep ==
    ASSUME TMInv, NEW t \in Threads, TMBegin(t) \/ TMStep(t), NEW c \in Cells
    PROVE  \/ cell'[c] \in {EMPTY, cell[c]} \/ At(c)'
           \/ /\ call[t].pc = "write" /\ call[t].to = c
              /\ call[t].idx # Hashes(call[t].val)
<1>1. buckets \in 1 .. MaxBuckets /\ cell \in [Cells -> Values \cup {EMPTY}] /\ c[1] \in Tables
  BY CellFacts DEF TMInv, TMTypeOK
<1>2. CASE \E r : Quiet(t, r)
  BY <1>2 DEF Quiet
<1>3. ASSUME NEW d \in Cells, Erases(t, d)
      PROVE  cell'[c] \in {EMPTY, cell[c]}
  BY <1>1, <1>3 DEF Erases
<1>4. ASSUME NEW d \in Cells, Stores(t, d)
      PROVE  \/ cell'[c] \in {EMPTY, cell[c]} \/ At(c)'
             \/ /\ call[t].pc = "write" /\ call[t].to = c
                /\ call[t].idx # Hashes(call[t].val)
  <2>1. CASE c # d
    BY <1>1, <1>4, <2>1 DEF Stores
  <2>2. CASE c = d
    <3>1. PICK v, j : v = call[t].val /\ j = call[t].idx
      OBVIOUS
    <3>2. cell'[c] = v /\ c[2] = j[c[1]] /\ call[t].to = c /\ call[t].pc = "write" /\ buckets' = buckets
      BY <1>1, <1>4, <2>2, <3>1 DEF Stores
    <3>3. CASE j = Hashes(v)
      <4>1. c[2] = hash(v, c[1])
        BY <1>1, <3>2, <3>3 DEF Hashes
      <4>2. hash(v, c[1]) = HashIn(v, c[1], buckets) /\ (At(c)' <=> HashIn(cell'[c], c[1], buckets') = c[2])
        BY DEF hash, At
      <4> QED BY <3>2, <4>1, <4>2
    <3> QED BY <3>1, <3>2, <3>3
  <2> QED BY <2>1, <2>2
<1>5. ASSUME NEW a \in Cells, NEW b \in Cells, Displaces(t, a, b)
      PROVE  cell'[c] \in {EMPTY, cell[c]} \/ At(c)'
  <2>1. CASE c # b
    BY <1>1, <1>5, <2>1 DEF Displaces
  <2>2. CASE c = b
    <3>1. PICK v : v = cell[a]
      OBVIOUS
    <3>2. cell'[c] = v /\ hash(v, c[1]) = c[2] /\ buckets' = buckets
      BY <1>1, <1>5, <2>2, <3>1 DEF Displaces
    <3>3. hash(v, c[1]) = HashIn(v, c[1], buckets) /\ (At(c)' <=> HashIn(cell'[c], c[1], buckets') = c[2])
      BY DEF hash, At
    <3> QED BY <3>2, <3>3
  <2> QED BY <2>1, <2>2
<1>6. CASE Rebuilds(t)
  <2>1. PICK n : n = 2 * buckets
    OBVIOUS
  <2>2. Rebuilt(n)[c] = EMPTY \/ HashIn(Rebuilt(n)[c], c[1], n) = c[2]
    BY <1>1, RebuiltFacts
  <2>3. cell' = Rebuilt(n) /\ buckets' = n
    BY <1>6, <2>1 DEF Rebuilds
  <2>4. At(c)' <=> HashIn(cell'[c], c[1], buckets') = c[2]
    BY DEF hash, At
  <2> QED BY <2>2, <2>3, <2>4
<1> QED BY <1>2, <1>3, <1>4, <1>5, <1>6, TMStepIs

(* Of all the writes to the tables, with any number of threads, only one   *)
(* can put a value where contains does not look for it: that of an insert  *)
(* whose buckets are older than a resize.                                  *)
THEOREM MisplacedIsStale == TMSpec => MisplacedOnlyWhenStale
<1>1. TMInv /\ [TMNext]_tmVars =>
        [\A c \in Cells :
            cell'[c] \in {EMPTY, cell[c]} \/ At(c)'
            \/ \E t \in Threads : /\ call[t].pc = "write" /\ call[t].to = c
                                  /\ call[t].idx # Hashes(call[t].val)]_tmVars
  BY MisplacedStep DEF TMNext
<1> QED BY <1>1, TMAlways, PTL DEF TMSpec, MisplacedOnlyWhenStale

-----------------------------------------------------------------------------
\* The size of the transactional set.
LEMMA OccupiedFinite == IsFiniteSet(Occupied) /\ size \in Nat
<1>1. Occupied \subseteq Cells
  BY DEF Occupied
<1> QED BY <1>1, CellsFinite, FS_Subset, FS_CardinalityType DEF size

\* Only thread t answers in a step of t.
LEMMA OneAnswers ==
    ASSUME TMInv, NEW t \in Threads, NEW r, BecomeOK(t, r)
    PROVE  /\ \A u \in Threads : Answering(u) => u = t
           /\ Answering(t) <=> (call[t].pc # "idle" /\ r.pc = "idle")
BY DEF TMInv, TMTypeOK, BecomeOK, Answering

LEMMA CountNone == Cardinality({}) = 0
BY FS_EmptySet

LEMMA CountOne == \A x : Cardinality({x}) = 1
BY FS_Singleton

LEMMA SizeOfStep ==
    ASSUME TMInv, NEW t \in Threads, TMBegin(t) \/ TMStep(t), ~Clash, buckets' = buckets
    PROVE  size' = size + Cardinality(Inserting) - Cardinality(Removing)
<1>1. buckets \in 1 .. MaxBuckets /\ cell \in [Cells -> Values \cup {EMPTY}]
  BY DEF TMInv, TMTypeOK
<1>2. IsFiniteSet(Occupied) /\ size \in Nat /\ size = Cardinality(Occupied) /\ size' = Cardinality(Occupied')
  BY OccupiedFinite DEF size
<1>3. ASSUME NEW r, Quiet(t, r)
      PROVE  size' = size + Cardinality(Inserting) - Cardinality(Removing)
  <2>1. Inserting = {} /\ Removing = {}
    BY <1>3, OneAnswers DEF Quiet, Inserting, Removing
  <2>2. size' = size
    BY <1>2, <1>3 DEF Quiet, Occupied
  <2> QED BY <1>2, <2>1, <2>2, CountNone
<1>4. ASSUME NEW c \in Cells, Stores(t, c)
      PROVE  size' = size + Cardinality(Inserting) - Cardinality(Removing)
  <2>1. BecomeOK(t, Idle) /\ Idle.pc = "idle" /\ call[t].pc = "write" /\ call[t].op = "insert"
    BY <1>4, IdleOK DEF Stores
  <2>2. Inserting = {t} /\ Removing = {}
    BY <2>1, OneAnswers DEF Inserting, Removing
  <2>3. PICK v \in Values : cell' = [cell EXCEPT ![c] = v] /\ v # EMPTY /\ cell[c] = EMPTY
    BY <1>4, TablesAssumption DEF Stores, Clash, EMPTY
  <2>4. Occupied' = Occupied \cup {c} /\ c \notin Occupied
    BY <1>1, <2>3 DEF Occupied
  <2>5. Cardinality(Occupied \cup {c}) = Cardinality(Occupied) + 1
    BY <1>2, <2>4, FS_AddElement
  <2>6. Cardinality(Inserting) = 1 /\ Cardinality(Removing) = 0
    BY <2>2, CountNone, CountOne
  <2> QED BY <1>2, <2>4, <2>5, <2>6
<1>5. ASSUME NEW c \in Cells, Erases(t, c)
      PROVE  size' = size + Cardinality(Inserting) - Cardinality(Removing)
  <2>1. BecomeOK(t, Idle) /\ Idle.pc = "idle" /\ call[t].pc = "tx" /\ call[t].op = "remove"
    BY <1>5, IdleOK DEF Erases
  <2>2. Inserting = {} /\ Removing = {t}
    BY <1>5, <2>1, OneAnswers DEF Inserting, Removing, Erases
  <2>3. cell' = [cell EXCEPT ![c] = EMPTY] /\ cell[c] # EMPTY
    BY <1>5 DEF Erases
  <2>4. Occupied' = Occupied \ {c} /\ c \in Occupied
    BY <1>1, <2>3 DEF Occupied
  <2>5. Cardinality(Occupied \ {c}) = Cardinality(Occupied) - 1
    BY <1>2, <2>4, FS_RemoveElement
  <2>6. Cardinality(Inserting) = 0 /\ Cardinality(Removing) = 1
    BY <2>2, CountNone, CountOne
  <2> QED BY <1>2, <2>4, <2>5, <2>6
<1>6. ASSUME NEW a \in Cells, NEW b \in Cells, Displaces(t, a, b)
      PROVE  size' = size + Cardinality(Inserting) - Cardinality(Removing)
  <2>1. PICK r : BecomeOK(t, r) /\ r.pc # "idle"
    BY <1>6 DEF Displaces
  <2>2. Inserting = {} /\ Removing = {}
    BY <2>1, OneAnswers DEF Inserting, Removing
  <2>3. cell[b] = EMPTY /\ cell[a] # EMPTY /\ a # b /\ cell' = [cell EXCEPT ![b] = cell[a], ![a] = EMPTY]
    BY <1>6 DEF Displaces
  <2>4. /\ Occupied' = (Occupied \ {a}) \cup {b} /\ a \in Occupied
        /\ b \notin Occupied \ {a}
    BY <1>1, <2>3 DEF Occupied
  <2>5. /\ IsFiniteSet(Occupied \ {a})
        /\ Cardinality(Occupied \ {a}) = Cardinality(Occupied) - 1
    BY <1>2, <2>4, FS_RemoveElement
  <2>6. Cardinality((Occupied \ {a}) \cup {b}) = Cardinality(Occupied \ {a}) + 1
    BY <2>4, <2>5, FS_AddElement
  <2> QED BY <1>2, <2>2, <2>4, <2>5, <2>6, CountNone
<1>7. ~Rebuilds(t)
  BY <1>1 DEF Rebuilds
<1> QED BY <1>3, <1>4, <1>5, <1>6, <1>7, TMStepIs

(* With any number of threads a value is lost without a resize only when   *)
(* two inserts fill one cell: otherwise size() changes exactly as the      *)
(* inserts and removes that answer true say.                               *)
THEOREM LossIsAClash == TMSpec => LostOnlyByClash
<1>1. TMInv /\ [TMNext]_tmVars =>
        [(~Clash /\ buckets' = buckets) =>
            size' = size + Cardinality(Inserting) - Cardinality(Removing)]_tmVars
  BY SizeOfStep DEF TMNext
<1> QED BY <1>1, TMAlways, PTL DEF TMSpec, LostOnlyByClash
=============================================================================
