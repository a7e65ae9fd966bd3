-------------------------- MODULE CuckooMapProofs --------------------------
(***************************************************************************)
(* The map of the replicated store for any threads, keys, hash functions,  *)
(* number of buckets, width of a bucket and length of a path.  Every step  *)
(* keeps to its own call, locks and cells (GoodStep), so what a thread     *)
(* knows of locked cells stays true; from there: the order of the locks,   *)
(* the number of elements, the value of each key, and what the readers     *)
(* without locks find.                                                     *)
(***************************************************************************)
EXTENDS CuckooMap, FiniteSetFacts, SequenceTheorems

-----------------------------------------------------------------------------
\* The least element of a set, and the hash functions.
LEMMA MinFacts ==
    ASSUME NEW S, IsFiniteSet(S), S # {}, \A x \in S : x \in Int
    PROVE  Min(S) \in S /\ \A x \in S : Min(S) <= x
<1>1. \E x \in S : \A y \in S : x <= y
  BY SmallestExists
<1> QED BY <1>1 DEF Min

LEMMA SomeFinite ==
    /\ Indices \subseteq Nat /\ IsFiniteSet(Indices)
    /\ \A S : S \subseteq Indices => IsFiniteSet(S) /\ \A x \in S : x \in Int
    /\ \A i, k : IsFiniteSet(SlotsWith(i, k)) /\ \A x \in SlotsWith(i, k) : x \in Int
    /\ \A S : S \subseteq {1, 2} => IsFiniteSet(S) /\ \A x \in S : x \in Int
<1>1. IsFiniteSet(Indices) /\ IsFiniteSet(0 .. WIDTH - 1)
  BY CuckooMapAssumption, FS_Interval DEF Indices
<1>2. Indices \subseteq Nat
  BY CuckooMapAssumption DEF Indices
<1>3. \A S : S \subseteq Indices => IsFiniteSet(S)
  BY <1>1, FS_Subset
<1>4. \A i, k : SlotsWith(i, k) \subseteq 0 .. WIDTH - 1
  BY DEF SlotsWith
<1>5. \A i, k : IsFiniteSet(SlotsWith(i, k))
  BY <1>1, <1>4, FS_Subset
<1>6. IsFiniteSet({1, 2})
  <2>1. IsFiniteSet({1}) /\ {1} \cup {2} = {1, 2}
    BY FS_Singleton
  <2>2. IsFiniteSet({1} \cup {2})
    BY <2>1, FS_AddElement
  <2> QED BY <2>1, <2>2
<1>7. \A S : S \subseteq {1, 2} => IsFiniteSet(S)
  BY <1>6, FS_Subset
<1>8. \A i, k : \A x \in SlotsWith(i, k) : x \in Int
  BY <1>4, CuckooMapAssumption
<1>9. \A S : S \subseteq {1, 2} => \A x \in S : x \in Int
  OBVIOUS
<1>10. \A S : S \subseteq Indices => \A x \in S : x \in Int
  BY <1>2
<1> QED BY <1>1, <1>2, <1>3, <1>5, <1>7, <1>8, <1>9, <1>10

LEMMA HashFacts ==
    ASSUME NEW k \in Keys \cup {EMPTY}
    PROVE  /\ \A f : hash(k, f) \in Indices
           /\ Homes(k) \subseteq Indices /\ Homes(k) # {}
           /\ \A f \in {1, 2} : hash(k, f) \in Homes(k)
<1>1. k \in Nat /\ Secondary[k] \in Nat /\ Buckets \in Nat \ {0}
  BY CuckooMapAssumption DEF EMPTY
<1>2. k % Buckets \in Indices /\ Secondary[k] % Buckets \in Indices
  BY <1>1 DEF Indices
<1> QED BY <1>2 DEF hash, Homes

LEMMA CellFacts ==
    /\ \A i \in Indices, s \in 0 .. WIDTH - 1 : <<i, s>> \in Cells
    /\ \A c \in Cells : c[1] \in Indices /\ c[2] \in 0 .. WIDTH - 1 /\ c = <<c[1], c[2]>>
BY DEF Cells

\* find and findSlot return a cell of the bucket that holds the key.
LEMMA FirstSlotFacts ==
    ASSUME NEW i \in Indices, NEW k, SlotsWith(i, k) # {}
    PROVE  /\ FirstSlot(i, k) \in Cells /\ FirstSlot(i, k)[1] = i
           /\ table[FirstSlot(i, k)].key = k
           /\ \A s \in 0 .. WIDTH - 1 : table[<<i, s>>].key = k => FirstSlot(i, k)[2] <= s
<1> DEFINE m == Min(SlotsWith(i, k))
<1>1. m \in SlotsWith(i, k) /\ \A x \in SlotsWith(i, k) : m <= x
  BY SomeFinite, MinFacts
<1>2. FirstSlot(i, k) = <<i, m>>
  BY DEF FirstSlot
<1> HIDE DEF m
<1> QED BY <1>1, <1>2, CellFacts DEF SlotsWith

LEMMA FirstHash ==
    ASSUME NEW F, F \subseteq {1, 2}, F # {}
    PROVE  Min(F) \in F /\ \A f \in F : Min(F) <= f
BY SomeFinite, MinFacts

-----------------------------------------------------------------------------
\* What a step of thread t does to the calls, the locks and the cells: it keeps
\* to its own call, to its own locks and to cells whose buckets it has locked.
BaseInv == TypeOK /\ CallInv /\ LockInv /\ CellInv /\ HomeInv

Others(t) == \A u \in Threads : u # t => call'[u] = call[u]
OwnLocks(t) ==
    /\ lock' \in [Indices -> Threads \cup {NoThread}]
    /\ \A u \in Threads : u # t => Held(u)' = Held(u)
OwnCells(t) ==
    /\ table' \in [Cells -> Node \cup {Vacant}]
    /\ \A c \in Cells : table'[c] # table[c] => c[1] \in Held(t)

GoodStep(t) ==
    /\ call' \in [Threads -> Calls] /\ Others(t) /\ OwnLocks(t) /\ OwnCells(t)
    /\ CallOK(call'[t]) /\ LockOK(call'[t], Held(t)') /\ Knows(call'[t], table')
    /\ HomeInv' /\ net' \in Int

LEMMA HeldDisjoint ==
    ASSUME NEW t \in Threads, NEW u \in Threads, u # t
    PROVE  Held(t) \cap Held(u) = {}
BY DEF Held

\* What thread u knows is out of the reach of the others.
LEMMA KnowsStays ==
    ASSUME BaseInv, NEW t \in Threads, NEW u \in Threads, u # t, OwnCells(t)
    PROVE  Knows(call[u], table')
<1> PICK m : m = call[u]
  OBVIOUS
<1> DEFINE n == Len(m.path)
<1>1. m \in Calls /\ CallOK(m) /\ LockOK(m, Held(u)) /\ Knows(m, table)
  BY DEF BaseInv, TypeOK, CallInv, LockInv, CellInv
<1>2. \A c \in Cells : c[1] \in Held(u) => table'[c] = table[c]
  BY HeldDisjoint DEF OwnCells
<1>3. CASE m.pc = "write"
  <2>1. m.to \in Cells /\ m.to[1] \in Held(u)
    BY <1>1, <1>3 DEF Calls, LockOK, Needs, Aim
  <2> QED BY <1>1, <1>2, <1>3, <2>1 DEF Knows
<1>4. CASE m.pc = "clear"
  <2>1. m.path \in Seq(Cells) /\ n >= 2
    BY <1>1, <1>4 DEF Calls, CallOK, Aim
  <2>2. m.path[n - 1] \in Cells /\ m.path[n] \in Cells
    BY <2>1
  <2>3. m.path[n - 1][1] \in Held(u) /\ m.path[n][1] \in Held(u)
    BY <1>1, <1>4 DEF LockOK, Needs, Aim
  <2>4. table'[m.path[n - 1]] = table[m.path[n - 1]] /\ table'[m.path[n]] = table[m.path[n]]
    BY <1>2, <2>2, <2>3
  <2> QED BY <1>1, <1>4, <2>4 DEF Knows
<1>5. CASE m.pc \notin {"write", "clear"}
  BY <1>5 DEF Knows
<1> QED BY <1>3, <1>4, <1>5

LEMMA GoodStepInv ==
    ASSUME BaseInv, NEW t \in Threads, GoodStep(t), Record(t), Observe
    PROVE  BaseInv'
<1>1. TypeOK'
  <2>1. stored' \in [Keys -> Vals \cup {Nothing, Raced}]
    <3>1. call[t].pc = "write" => call[t].node.val \in Vals
      BY DEF BaseInv, CallInv, CallOK, Aim, Node
    <3> QED BY <3>1 DEF Record, BaseInv, TypeOK
  <2> QED BY <2>1 DEF GoodStep, OwnLocks, OwnCells, Observe, TypeOK
<1>2. CallInv'
  BY DEF GoodStep, Others, BaseInv, CallInv
<1>3. LockInv'
  BY DEF GoodStep, Others, OwnLocks, BaseInv, LockInv
<1>4. CellInv'
  <2> SUFFICES ASSUME NEW u \in Threads PROVE Knows(call'[u], table')
    BY DEF CellInv
  <2>1. CASE u = t
    BY <2>1 DEF GoodStep
  <2>2. CASE u # t
    BY <2>2, KnowsStays DEF GoodStep, Others
  <2> QED BY <2>1, <2>2
<1> QED BY <1>1, <1>2, <1>3, <1>4 DEF BaseInv, GoodStep

\* The pieces a step is made of.
LEMMA BecomeFacts ==
    ASSUME TypeOK, NEW t \in Threads, NEW r \in Calls, Become(t, r)
    PROVE  call' \in [Threads -> Calls] /\ Others(t) /\ call'[t] = r
BY DEF TypeOK, Become, Others

LEMMA SameLocks ==
    ASSUME TypeOK, NEW t \in Threads, lock' = lock
    PROVE  OwnLocks(t) /\ Held(t)' = Held(t)
BY DEF TypeOK, OwnLocks, Held

LEMMA SameCells ==
    ASSUME BaseInv, NEW t \in Threads, table' = table
    PROVE  OwnCells(t) /\ HomeInv'
BY DEF BaseInv, TypeOK, OwnCells, HomeInv

LEMMA ReleaseFacts ==
    ASSUME TypeOK, NEW t \in Threads, NEW S, S \subseteq Held(t), Release(S)
    PROVE  OwnLocks(t) /\ Held(t)' = Held(t) \ S
<1>1. /\ lock' \in [Indices -> Threads \cup {NoThread}]
      /\ \A i \in Indices : lock'[i] = IF i \in S THEN NoThread ELSE lock[i]
  BY DEF Release, TypeOK
<1>2. Held(t)' = Held(t) \ S
  BY <1>1, CuckooMapAssumption DEF Held
<1>3. \A u \in Threads : u # t => Held(u)' = Held(u)
  BY <1>1, CuckooMapAssumption DEF Held
<1> QED BY <1>1, <1>2, <1>3 DEF OwnLocks

LEMMA IdleFacts ==
    /\ Idle \in Calls /\ CallOK(Idle) /\ LockOK(Idle, {})
    /\ Idle.pc = "idle" /\ Idle.path = << >> /\ Idle.want = {} /\ Idle.pos = 0
    /\ Idle.to = <<0, 0>> /\ Idle.goal = "idle" /\ Idle.new = FALSE
    /\ \A T : Knows(Idle, T)
<1>1. <<0, 0>> \in Cells /\ 0 \in 0 .. 2 * WIDTH - 1
  BY CuckooMapAssumption DEF Cells, Indices
<1>2. Vacant \in [key : Keys \cup {EMPTY}, val : Vals \cup {EMPTY}]
  BY DEF Vacant
<1>3. /\ Idle.pc = "idle" /\ Idle.path = << >> /\ Idle.want = {} /\ Idle.pos = 0
      /\ Idle.to = <<0, 0>> /\ Idle.goal = "idle" /\ Idle.new = FALSE
  BY DEF Idle
<1>4. << >> \in Seq(Cells)
  OBVIOUS
<1>5. Idle \in Calls
  BY <1>1, <1>2, <1>4 DEF Idle, Calls
<1>6. CallOK(Idle) /\ LockOK(Idle, {})
  BY <1>3 DEF CallOK, LockOK, Needs, Aim
<1>7. \A T : Knows(Idle, T)
  BY <1>3 DEF Knows
<1> QED BY <1>3, <1>5, <1>6, <1>7

LEMMA ReturnFacts ==
    ASSUME TypeOK, NEW t \in Threads, Return(t)
    PROVE  /\ call' \in [Threads -> Calls] /\ Others(t) /\ call'[t] = Idle /\ OwnLocks(t)
           /\ CallOK(call'[t]) /\ LockOK(call'[t], Held(t)') /\ Knows(call'[t], table')
<1>1. call' \in [Threads -> Calls] /\ Others(t) /\ call'[t] = Idle
  BY BecomeFacts, IdleFacts DEF Return
<1>2. OwnLocks(t) /\ Held(t)' = {}
  <2>1. OwnLocks(t) /\ Held(t)' = Held(t) \ Held(t)
    BY ReleaseFacts DEF Return
  <2> QED BY <2>1
<1> QED BY <1>1, <1>2, IdleFacts

\* Writing a cell of a bucket that is locked.
LEMMA WriteFacts ==
    ASSUME BaseInv, NEW t \in Threads, NEW c \in Cells, c[1] \in Held(t),
           NEW v \in Node \cup {Vacant}, v # Vacant => c[1] \in Homes(v.key),
           table' = [table EXCEPT ![c] = v]
    PROVE  /\ OwnCells(t) /\ HomeInv' /\ table'[c] = v
           /\ \A d \in Cells : d # c => table'[d] = table[d]
<1>1. /\ table' \in [Cells -> Node \cup {Vacant}] /\ table'[c] = v
      /\ \A d \in Cells : d # c => table'[d] = table[d]
  BY DEF BaseInv, TypeOK
<1>2. HomeInv'
  BY <1>1 DEF BaseInv, HomeInv
<1>3. OwnCells(t)
  BY <1>1 DEF OwnCells
<1> QED BY <1>1, <1>2, <1>3

-----------------------------------------------------------------------------
\* The calls the steps make out of a call.
LEMMA AtPc ==
    ASSUME NEW m \in Calls,
           NEW l \in {"idle", "lock", "contains", "get", "erase", "check", "write", "search",
                      "place", "move", "clear"},
           NEW r, r = [m EXCEPT !.pc = l]
    PROVE  /\ r \in Calls /\ r.pc = l /\ r.op = m.op /\ r.node = m.node /\ r.want = m.want
           /\ r.goal = m.goal /\ r.path = m.path /\ r.to = m.to /\ r.new = m.new
           /\ r.pos = m.pos
BY DEF Calls

LEMMA Starting ==
    ASSUME NEW t \in Threads, NEW o \in {"insert", "remove", "contains", "get"},
           NEW n \in [key : Keys, val : Vals \cup {EMPTY}], Call(t, o, n), TypeOK
    PROVE  /\ call' \in [Threads -> Calls] /\ Others(t)
           /\ call'[t].node = n /\ call'[t].op = o /\ call'[t].pos = 0 /\ call'[t].path = << >>
           /\ IF o \in {"contains", "get"} THEN call'[t].pc = o
              ELSE /\ call'[t].pc = "lock" /\ call'[t].want = Homes(n.key)
                   /\ call'[t].goal = IF o = "insert" THEN "check" ELSE "erase"
<1>1. PICK r : r = [Idle EXCEPT !.op = o, !.node = n]
  OBVIOUS
<1>2. r \in Calls /\ r.op = o /\ r.node = n /\ r.pos = 0 /\ r.path = << >>
  BY <1>1, IdleFacts DEF Calls
<1>3. CASE o \in {"contains", "get"}
  <2>1. PICK q : q = [r EXCEPT !.pc = o]
    OBVIOUS
  <2>2. q \in Calls /\ q.pc = o /\ q.op = o /\ q.node = n /\ q.pos = 0 /\ q.path = << >>
    BY <1>2, <1>3, <2>1 DEF Calls
  <2>3. Become(t, q)
    BY <1>1, <1>3, <2>1 DEF Call
  <2> QED BY <1>3, <2>2, <2>3, BecomeFacts
<1>4. CASE o \notin {"contains", "get"}
  <2>1. PICK q : q = [r EXCEPT !.pc = "lock", !.want = Homes(n.key),
                               !.goal = IF o = "insert" THEN "check" ELSE "erase"]
    OBVIOUS
  <2>2. Homes(n.key) \subseteq Indices
    BY HashFacts
  <2>3. /\ q \in Calls /\ q.pc = "lock" /\ q.op = o /\ q.node = n /\ q.pos = 0
        /\ q.path = << >> /\ q.want = Homes(n.key)
        /\ q.goal = IF o = "insert" THEN "check" ELSE "erase"
    BY <1>2, <2>1, <2>2 DEF Calls
  <2>4. Become(t, q)
    BY <1>1, <1>4, <2>1 DEF Call
  <2> QED BY <1>4, <2>3, <2>4, BecomeFacts
<1> QED BY <1>3, <1>4

LEMMA ReadingOn ==
    ASSUME NEW m \in Calls, m.pos # 2 * WIDTH - 1, NEW r, r = [m EXCEPT !.pos = @ + 1]
    PROVE  /\ r \in Calls /\ r.pc = m.pc /\ r.op = m.op /\ r.node = m.node /\ r.want = m.want
           /\ r.goal = m.goal /\ r.path = m.path /\ r.pos = m.pos + 1
<1>1. m.pos \in 0 .. 2 * WIDTH - 1
  BY DEF Calls
<1>2. WIDTH \in Nat
  BY CuckooMapAssumption
<1>3. m.pos + 1 \in 0 .. 2 * WIDTH - 1
  BY <1>1, <1>2
<1> QED BY <1>3 DEF Calls

-----------------------------------------------------------------------------
\* Every step is a good one.
LEMMA CallParts ==
    ASSUME BaseInv, NEW t \in Threads
    PROVE  /\ call[t] \in Calls /\ CallOK(call[t]) /\ LockOK(call[t], Held(t))
           /\ Knows(call[t], table)
BY DEF BaseInv, TypeOK, CallInv, LockInv, CellInv

LEMMA BeginGood ==
    ASSUME BaseInv, NEW t \in Threads, Begin(t)
    PROVE  /\ GoodStep(t) /\ table' = table /\ net' = net /\ call[t].pc = "idle"
           /\ call'[t].pc \in {"lock", "contains", "get"} /\ call'[t].pos = 0
<1>1. PICK o \in {"insert", "remove", "contains", "get"},
           n \in [key : Keys, val : Vals \cup {EMPTY}] :
           Call(t, o, n) /\ (o = "insert" => n \in Node)
  BY DEF Begin, Node, Vacant
<1>2. table' = table /\ lock' = lock /\ net' = net /\ call[t].pc = "idle"
  BY <1>1 DEF Call
<1>3. PICK r : r = call'[t]
  OBVIOUS
<1>4. TypeOK /\ Held(t) = {}
  BY <1>2, CallParts DEF BaseInv, LockOK
<1>5. /\ call' \in [Threads -> Calls] /\ Others(t)
      /\ r.node = n /\ r.op = o /\ r.pos = 0
      /\ IF o \in {"contains", "get"} THEN r.pc = o
         ELSE /\ r.pc = "lock" /\ r.want = Homes(n.key)
              /\ r.goal = IF o = "insert" THEN "check" ELSE "erase"
  BY <1>1, <1>3, <1>4, Starting
<1>6. OwnLocks(t) /\ Held(t)' = {} /\ OwnCells(t) /\ HomeInv' /\ net' \in Int
  BY <1>2, <1>4, SameLocks, SameCells DEF TypeOK
<1>7. n.key \in Keys /\ Homes(n.key) # {}
  BY HashFacts
<1>8. CallOK(r)
  BY <1>1, <1>5, <1>7 DEF CallOK, Aim
<1>9. LockOK(r, {}) /\ Knows(r, table')
  BY <1>5 DEF LockOK, Needs, Aim, Knows
<1>10. r.pc \in {"lock", "contains", "get"}
  BY <1>5
<1> QED BY <1>2, <1>3, <1>5, <1>6, <1>8, <1>9, <1>10 DEF GoodStep

LEMMA AcquireGood ==
    ASSUME BaseInv, NEW t \in Threads, Acquire(t)
    PROVE  /\ GoodStep(t) /\ table' = table /\ net' = net
           /\ call[t].pc = "lock" /\ call'[t].pc \notin {"contains", "get", "clear"}
<1>1. PICK m, i : m = call[t] /\ i = Min(m.want)
  OBVIOUS
<1>2. m \in Calls /\ CallOK(m) /\ LockOK(m, Held(t)) /\ m.pc = "lock" /\ TypeOK
  BY <1>1, CallParts DEF Acquire, BaseInv
<1>3. i \in m.want /\ (\A j \in m.want : i <= j) /\ m.want \subseteq Indices
  BY <1>1, <1>2, SomeFinite, MinFacts DEF CallOK, Calls
<1>4. PICK r : r = [m EXCEPT !.want = @ \ {i},
                             !.pc = IF m.want = {i} THEN m.goal ELSE @]
  OBVIOUS
<1>5. /\ r \in Calls /\ r.pc = (IF m.want = {i} THEN m.goal ELSE "lock")
      /\ r.node = m.node /\ r.want = m.want \ {i}
      /\ r.goal = m.goal /\ r.path = m.path /\ r.to = m.to
  <2>1. m.goal # "idle" /\ m.pc = "lock" /\ m \in Calls
    BY <1>2 DEF CallOK
  <2> QED BY <1>4, <2>1 DEF Calls
<1>6. /\ Become(t, r) /\ lock[i] = NoThread /\ lock' = [lock EXCEPT ![i] = t]
      /\ table' = table /\ net' = net
  BY <1>1, <1>4 DEF Acquire
<1>7. call' \in [Threads -> Calls] /\ Others(t) /\ call'[t] = r
  BY <1>2, <1>5, <1>6, BecomeFacts
<1>8. /\ lock' \in [Indices -> Threads \cup {NoThread}]
      /\ lock'[i] = t /\ \A j \in Indices : j # i => lock'[j] = lock[j]
  BY <1>2, <1>3, <1>6 DEF TypeOK
<1>9. Held(t)' = Held(t) \cup {i}
  BY <1>3, <1>8 DEF Held
<1>10. OwnLocks(t)
  BY <1>3, <1>6, <1>8, CuckooMapAssumption DEF OwnLocks, Held
<1>11. OwnCells(t) /\ HomeInv' /\ net' \in Int
  BY <1>2, <1>6, SameCells DEF TypeOK
<1>12. Aim(r) = Aim(m) /\ m.goal \in {"check", "erase", "place", "move"}
  BY <1>2, <1>5 DEF Aim, CallOK, Calls
<1>13. r.pc \in {"lock", "check", "erase", "place", "move"} /\ (r.pc = "lock" => r.want # {})
  BY <1>3, <1>5, <1>12
<1>14. CallOK(r)
  BY <1>2, <1>5, <1>12, <1>13 DEF CallOK
<1>15. Needs(r) = Needs(m)
  BY <1>5, <1>12 DEF Needs
<1>16. Needs(m) \subseteq Held(t) \cup m.want /\ \A a \in Held(t), j \in m.want : a < j
  BY <1>2 DEF LockOK
<1>17. \A a \in Held(t) \cup {i}, j \in m.want \ {i} : a < j
  BY <1>3, <1>16, SomeFinite
<1>18. LockOK(r, Held(t) \cup {i})
  <2>1. CASE r.pc = "lock"
    BY <2>1, <1>5, <1>15, <1>16, <1>17 DEF LockOK
  <2>2. CASE r.pc # "lock"
    BY <2>2, <1>5, <1>13, <1>15, <1>16 DEF LockOK
  <2> QED BY <2>1, <2>2
<1>19. Knows(r, table')
  BY <1>13 DEF Knows
<1> QED BY <1>1, <1>2, <1>6, <1>7, <1>9, <1>10, <1>11, <1>13, <1>14, <1>18, <1>19 DEF GoodStep

\* A reader changes nothing but its place, and holds no lock.
LEMMA ReaderGood ==
    ASSUME BaseInv, NEW t \in Threads, contains(t) \/ get(t)
    PROVE  /\ GoodStep(t) /\ table' = table /\ net' = net /\ lock' = lock
           /\ call[t].pc \in {"contains", "get"}
           /\ \/ call'[t] = Idle
              \/ /\ call'[t].pc = call[t].pc /\ call'[t].node = call[t].node
                 /\ call'[t].pos = call[t].pos + 1
<1>1. PICK m : m = call[t]
  OBVIOUS
<1>2. m \in Calls /\ CallOK(m) /\ LockOK(m, Held(t)) /\ TypeOK
  BY <1>1, CallParts DEF BaseInv
<1>3. table' = table /\ lock' = lock /\ net' = net /\ m.pc \in {"contains", "get"}
  BY <1>1 DEF contains, get
<1>4. OwnLocks(t) /\ Held(t)' = {} /\ OwnCells(t) /\ HomeInv' /\ net' \in Int
  BY <1>2, <1>3, SameLocks, SameCells DEF TypeOK, LockOK
<1>5. \/ Become(t, Idle)
      \/ /\ Become(t, [m EXCEPT !.pos = @ + 1]) /\ m.pos # 2 * WIDTH - 1
         /\ m.pc = "get" => m.pos = 0
  <2>1. WIDTH \in Nat \ {0} /\ (m.pos = 0 => m.pos # 2 * WIDTH - 1)
    BY CuckooMapAssumption
  <2>2. m.pc = "get" => m.pos \in {0, 1}
    BY <1>2 DEF CallOK
  <2> QED BY <1>1, <2>1, <2>2 DEF contains, get, LastRead
<1>6. CASE Become(t, Idle)
  <2>1. call' \in [Threads -> Calls] /\ Others(t) /\ call'[t] = Idle
    BY <1>2, <1>6, BecomeFacts, IdleFacts
  <2> QED BY <1>1, <1>3, <1>4, <2>1, IdleFacts DEF GoodStep
<1>7. CASE /\ Become(t, [m EXCEPT !.pos = @ + 1]) /\ m.pos # 2 * WIDTH - 1
           /\ m.pc = "get" => m.pos = 0
  <2>1. PICK r : r = [m EXCEPT !.pos = @ + 1]
    OBVIOUS
  <2>2. r \in Calls /\ r.pc = m.pc /\ r.node = m.node /\ r.path = m.path /\ r.pos = m.pos + 1
    BY <1>2, <1>7, <2>1, ReadingOn
  <2>3. call' \in [Threads -> Calls] /\ Others(t) /\ call'[t] = r
    BY <1>2, <1>7, <2>1, <2>2, BecomeFacts
  <2>4. CallOK(r) /\ LockOK(r, {}) /\ Knows(r, table')
    BY <1>2, <1>3, <1>7, <2>2 DEF CallOK, LockOK, Knows, Needs, Aim
  <2> QED BY <1>1, <1>3, <1>4, <2>2, <2>3, <2>4 DEF GoodStep
<1> QED BY <1>5, <1>6, <1>7

LEMMA removeGood ==
    ASSUME BaseInv, NEW t \in Threads, remove(t)
    PROVE  /\ GoodStep(t) /\ call[t].pc = "erase" /\ call'[t] = Idle
           /\ \/ table' = table /\ net' = net
              \/ \E c \in Cells :
                    /\ c[1] \in Held(t) /\ table[c].key = call[t].node.key /\ net' = net - 1
                    /\ table' = [table EXCEPT ![c] = Vacant]
                    /\ Homes(table[c].key) \subseteq Held(t)
                    /\ c[1] = hash(table[c].key, 1) \/ SlotsWith(hash(table[c].key, 1), table[c].key) = {}
                    /\ \A s \in 0 .. WIDTH - 1 :
                          table[<<c[1], s>>].key = table[c].key => c[2] <= s
<1>1. PICK m, k : m = call[t] /\ k = m.node.key
  OBVIOUS
<1>2. m \in Calls /\ CallOK(m) /\ LockOK(m, Held(t)) /\ TypeOK /\ m.pc = "erase"
  BY <1>1, CallParts DEF BaseInv, remove
<1>3. k \in Keys /\ Homes(k) \subseteq Held(t)
  BY <1>1, <1>2 DEF CallOK, LockOK, Needs, Aim
<1>4. PICK homes : homes = {f \in {1, 2} : SlotsWith(hash(k, f), k) # {}}
  OBVIOUS
<1>5. /\ call' \in [Threads -> Calls] /\ Others(t) /\ call'[t] = Idle /\ OwnLocks(t)
      /\ CallOK(call'[t]) /\ LockOK(call'[t], Held(t)') /\ Knows(call'[t], table')
  BY <1>2, ReturnFacts DEF remove
<1>6. CASE homes = {}
  <2>1. table' = table /\ net' = net
    BY <1>1, <1>4, <1>6 DEF remove
  <2>2. OwnCells(t) /\ HomeInv' /\ net' \in Int
    BY <1>2, <2>1, SameCells DEF TypeOK
  <2> QED BY <1>1, <1>2, <1>5, <2>1, <2>2 DEF GoodStep
<1>7. CASE homes # {}
  <2>1. PICK f, c : f = Min(homes) /\ c = FirstSlot(hash(k, f), k)
    OBVIOUS
  <2>2. f \in homes /\ f \in {1, 2} /\ \A g \in homes : f <= g
    BY <1>4, <1>7, <2>1, FirstHash
  <2>3. SlotsWith(hash(k, f), k) # {} /\ hash(k, f) \in Homes(k) /\ hash(k, f) \in Indices
    BY <1>3, <1>4, <2>2, HashFacts
  <2>4. /\ c \in Cells /\ c[1] = hash(k, f) /\ table[c].key = k
        /\ \A s \in 0 .. WIDTH - 1 : table[<<hash(k, f), s>>].key = k => c[2] <= s
    BY <2>1, <2>3, FirstSlotFacts
  <2>5. table' = [table EXCEPT ![c] = Vacant] /\ net' = net - 1
    BY <1>1, <1>4, <1>7, <2>1 DEF remove
  <2>6. OwnCells(t) /\ HomeInv'
    BY <1>3, <2>3, <2>4, <2>5, WriteFacts
  <2>7. net' \in Int
    BY <1>2, <2>5 DEF TypeOK
  <2>8. f = 1 \/ SlotsWith(hash(k, 1), k) = {}
    BY <1>4, <2>2
  <2> QED BY <1>1, <1>2, <1>3, <1>5, <2>3, <2>4, <2>5, <2>6, <2>7, <2>8 DEF GoodStep
<1> QED BY <1>6, <1>7

LEMMA VacantKey ==
    ASSUME TypeOK, NEW c \in Cells
    PROVE  table[c] = Vacant <=> table[c].key = EMPTY
BY CuckooMapAssumption DEF TypeOK, Node, Vacant, EMPTY

LEMMA FillGood ==
    ASSUME BaseInv, NEW t \in Threads, NEW c \in Cells, NEW b \in BOOLEAN, Fill(t, c, b),
           table' = table, net' = net, c[1] \in Homes(call[t].node.key), c[1] \in Held(t),
           call[t].pc # "idle", call[t].node \in Node,
           IF b THEN table[c] = Vacant ELSE table[c].key = call[t].node.key
    PROVE  GoodStep(t) /\ call'[t].pc = "write"
<1>1. PICK m : m = call[t]
  OBVIOUS
<1>2. m \in Calls /\ CallOK(m) /\ TypeOK
  BY <1>1, CallParts DEF BaseInv
<1>3. PICK r : r = [m EXCEPT !.pc = "write", !.to = c, !.new = b]
  OBVIOUS
<1>4. r \in Calls /\ r.pc = "write" /\ r.node = m.node /\ r.to = c /\ r.new = b
  BY <1>2, <1>3 DEF Calls
<1>5. Become(t, r) /\ lock' = lock
  BY <1>1, <1>3 DEF Fill
<1>6. call' \in [Threads -> Calls] /\ Others(t) /\ call'[t] = r
  BY <1>2, <1>4, <1>5, BecomeFacts
<1>7. OwnLocks(t) /\ Held(t)' = Held(t) /\ OwnCells(t) /\ HomeInv' /\ net' \in Int
  BY <1>2, <1>5, SameLocks, SameCells DEF TypeOK
<1>8. CallOK(r)
  BY <1>1, <1>2, <1>4 DEF CallOK, Aim
<1>9. LockOK(r, Held(t)) /\ Knows(r, table')
  BY <1>1, <1>4 DEF LockOK, Needs, Aim, Knows
<1> QED BY <1>4, <1>6, <1>7, <1>8, <1>9 DEF GoodStep

LEMMA CheckGood ==
    ASSUME BaseInv, NEW t \in Threads, Check(t)
    PROVE  /\ GoodStep(t) /\ table' = table /\ net' = net /\ call[t].pc = "check"
           /\ call'[t].pc \in {"write", "search"}
<1>1. PICK m, k : m = call[t] /\ k = m.node.key
  OBVIOUS
<1>2. m \in Calls /\ CallOK(m) /\ LockOK(m, Held(t)) /\ TypeOK /\ m.pc = "check"
  BY <1>1, CallParts DEF BaseInv, Check
<1>3. k \in Keys /\ Homes(k) \subseteq Held(t) /\ m.node \in Node
  BY <1>1, <1>2 DEF CallOK, LockOK, Needs, Aim
<1>4. table' = table /\ net' = net
  BY DEF Check
<1>5. ASSUME NEW x \in {k, EMPTY}, NEW F, F = {f \in {1, 2} : SlotsWith(hash(k, f), x) # {}},
             F # {}, NEW c, c = FirstSlot(hash(k, Min(F)), x), Fill(t, c, x = EMPTY)
      PROVE  GoodStep(t) /\ call'[t].pc = "write"
  <2>1. PICK f : f = Min(F)
    OBVIOUS
  <2>2. f \in F /\ f \in {1, 2}
    BY <1>5, <2>1, FirstHash
  <2>3. SlotsWith(hash(k, f), x) # {} /\ hash(k, f) \in Homes(k) /\ hash(k, f) \in Indices
    BY <1>3, <1>5, <2>2, HashFacts
  <2>4. c \in Cells /\ c[1] = hash(k, f) /\ table[c].key = x
    BY <1>5, <2>1, <2>3, FirstSlotFacts
  <2>5. IF x = EMPTY THEN table[c] = Vacant ELSE table[c].key = m.node.key
    BY <1>1, <1>2, <2>4, VacantKey
  <2> QED BY <1>1, <1>2, <1>3, <1>4, <1>5, <2>3, <2>4, <2>5, FillGood
<1>6. CASE /\ Release(Held(t))
           /\ Become(t, [call[t] EXCEPT !.pc = "search"])
  <2>1. PICK r : r = [m EXCEPT !.pc = "search"]
    OBVIOUS
  <2>2. r \in Calls /\ r.pc = "search" /\ r.node = m.node
    BY <1>2, <2>1, AtPc
  <2>3. call' \in [Threads -> Calls] /\ Others(t) /\ call'[t] = r
    BY <1>1, <1>2, <1>6, <2>1, <2>2, BecomeFacts
  <2>4. OwnLocks(t) /\ Held(t)' = Held(t) \ Held(t)
    BY <1>2, <1>6, ReleaseFacts
  <2>5. OwnCells(t) /\ HomeInv' /\ net' \in Int
    BY <1>2, <1>4, SameCells DEF TypeOK
  <2>6. CallOK(r) /\ LockOK(r, {}) /\ Knows(r, table')
    BY <1>1, <1>3, <2>2 DEF CallOK, LockOK, Knows, Needs, Aim
  <2>7. Held(t)' = {}
    BY <2>4
  <2> QED BY <1>1, <1>2, <1>4, <2>2, <2>3, <2>4, <2>5, <2>6, <2>7 DEF GoodStep
<1>7. EMPTY \in {k, EMPTY} /\ k \in {k, EMPTY} /\ k # EMPTY
  BY <1>3, CuckooMapAssumption DEF EMPTY
<1>8. PICK dups, free : /\ dups = {f \in {1, 2} : SlotsWith(hash(k, f), k) # {}}
                        /\ free = {f \in {1, 2} : SlotsWith(hash(k, f), EMPTY) # {}}
  OBVIOUS
<1>9. \/ dups # {} /\ Fill(t, FirstSlot(hash(k, Min(dups)), k), FALSE)
      \/ free # {} /\ Fill(t, FirstSlot(hash(k, Min(free)), EMPTY), TRUE)
      \/ Release(Held(t)) /\ Become(t, [call[t] EXCEPT !.pc = "search"])
  BY <1>1, <1>8 DEF Check
<1>10. CASE dups # {} /\ Fill(t, FirstSlot(hash(k, Min(dups)), k), FALSE)
  <2>1. Fill(t, FirstSlot(hash(k, Min(dups)), k), k = EMPTY)
    BY <1>7, <1>10 DEF Fill
  <2> QED BY <1>1, <1>2, <1>4, <1>5, <1>7, <1>8, <1>10, <2>1
<1>11. CASE free # {} /\ Fill(t, FirstSlot(hash(k, Min(free)), EMPTY), TRUE)
  <2>1. Fill(t, FirstSlot(hash(k, Min(free)), EMPTY), EMPTY = EMPTY)
    BY <1>11 DEF Fill
  <2> QED BY <1>1, <1>2, <1>4, <1>5, <1>7, <1>8, <1>11, <2>1
<1> QED BY <1>6, <1>9, <1>10, <1>11

LEMMA WriteGood ==
    ASSUME BaseInv, NEW t \in Threads, Write(t)
    PROVE  /\ GoodStep(t) /\ call[t].pc = "write" /\ call'[t] = Idle
           /\ table' = [table EXCEPT ![call[t].to] = call[t].node]
           /\ call[t].to \in Cells /\ call[t].node \in Node
           /\ net' = (IF call[t].new THEN net + 1 ELSE net) /\ call[t].new \in BOOLEAN
           /\ IF call[t].new THEN table[call[t].to] = Vacant
              ELSE table[call[t].to].key = call[t].node.key
<1>1. PICK m : m = call[t]
  OBVIOUS
<1>2. /\ m \in Calls /\ CallOK(m) /\ LockOK(m, Held(t)) /\ Knows(m, table) /\ TypeOK
      /\ m.pc = "write"
  BY <1>1, CallParts DEF BaseInv, Write
<1>3. /\ m.to \in Cells /\ m.to[1] \in Held(t) /\ m.node \in Node /\ m.new \in BOOLEAN
      /\ m.to[1] \in Homes(m.node.key)
  BY <1>2 DEF CallOK, LockOK, Needs, Aim, Calls
<1>4. /\ call' \in [Threads -> Calls] /\ Others(t) /\ call'[t] = Idle /\ OwnLocks(t)
      /\ CallOK(call'[t]) /\ LockOK(call'[t], Held(t)') /\ Knows(call'[t], table')
  BY <1>2, ReturnFacts DEF Write
<1>5. /\ table' = [table EXCEPT ![m.to] = m.node]
      /\ net' = IF m.new THEN net + 1 ELSE net
  BY <1>1 DEF Write
<1>6. OwnCells(t) /\ HomeInv'
  BY <1>3, <1>5, WriteFacts
<1>7. net' \in Int
  BY <1>2, <1>5 DEF TypeOK
<1>8. IF m.new THEN table[m.to] = Vacant ELSE table[m.to].key = m.node.key
  BY <1>2 DEF Knows
<1> QED BY <1>1, <1>2, <1>3, <1>4, <1>5, <1>6, <1>7, <1>8 DEF GoodStep

LEMMA RetryGood ==
    ASSUME BaseInv, NEW t \in Threads, Retry(t), table' = table, net' = net,
           call[t].pc # "idle", call[t].node \in Node
    PROVE  GoodStep(t) /\ call'[t].pc = "lock"
<1>1. PICK m, k : m = call[t] /\ k = m.node.key
  OBVIOUS
<1>2. m \in Calls /\ CallOK(m) /\ TypeOK /\ k \in Keys
  BY <1>1, CallParts DEF BaseInv, CallOK
<1>3. PICK e \in Seq(Cells) : e = << >>
  <2>1. << >> \in Seq(Cells)
    OBVIOUS
  <2> QED BY <2>1
<1>4. PICK r : r = [Locking(t, Homes(k), "check") EXCEPT !.path = e]
  OBVIOUS
<1>5. Homes(k) \subseteq Indices /\ Homes(k) # {}
  BY <1>2, HashFacts
<1>6. /\ r \in Calls /\ r.pc = "lock" /\ r.want = Homes(k) /\ r.goal = "check"
      /\ r.node = m.node
  BY <1>1, <1>2, <1>4, <1>5 DEF Calls, Locking
<1>7. call' \in [Threads -> Calls] /\ Others(t) /\ call'[t] = r
  BY <1>1, <1>2, <1>3, <1>4, <1>6, BecomeFacts DEF Retry
<1>8. OwnLocks(t) /\ Held(t)' = Held(t) \ Held(t)
  BY <1>2, ReleaseFacts DEF Retry
<1>9. OwnCells(t) /\ HomeInv' /\ net' \in Int
  BY <1>2, SameCells DEF TypeOK
<1>10. CallOK(r) /\ LockOK(r, {}) /\ Knows(r, table')
  BY <1>1, <1>2, <1>5, <1>6 DEF CallOK, LockOK, Knows, Needs, Aim
<1>11. Held(t)' = {}
  BY <1>8
<1> QED BY <1>6, <1>7, <1>8, <1>9, <1>10, <1>11 DEF GoodStep

\* The locks for a displacement cover the two cells it works on.
LEMMA LocksForFacts ==
    ASSUME NEW t \in Threads, call[t].node.key \in Keys, NEW p \in Seq(Cells),
           NEW n \in Nat, n = Len(p), n >= 1, p[1][1] \in Homes(call[t].node.key)
    PROVE  /\ LocksFor(t, p, n) \subseteq Indices /\ LocksFor(t, p, n) # {}
           /\ p[n][1] \in LocksFor(t, p, n)
           /\ n >= 2 => p[n - 1][1] \in LocksFor(t, p, n)
<1>1. \A i \in 1 .. n : p[i] \in Cells /\ p[i][1] \in Indices
  BY CellFacts
<1>2. Homes(call[t].node.key) \subseteq Indices
  BY HashFacts
<1>3. CASE n = 1
  BY <1>2, <1>3 DEF LocksFor
<1>4. CASE n = 2
  BY <1>1, <1>2, <1>4 DEF LocksFor
<1>5. CASE n > 2
  <2>1. LocksFor(t, p, n) = {p[n][1], p[n - 1][1]}
    BY <1>5 DEF LocksFor
  <2> QED BY <1>1, <1>5, <2>1
<1> QED BY <1>3, <1>4, <1>5

LEMMA PathFacts ==
    ASSUME NEW t \in Threads, NEW p \in Paths(t)
    PROVE  p \in Seq(Cells) /\ Len(p) \in Nat \ {0} /\ p[1][1] \in Homes(call[t].node.key)
<1>1. PICK n \in 1 .. MaxDepth + 1, first \in {1, 2} :
        /\ p \in [1 .. n -> Cells]
        /\ \A i \in DOMAIN p :
              \E k \in IF i = 1 THEN {call[t].node.key} ELSE Keys \cup {EMPTY} :
                 p[i][1] = hash(k, IF i % 2 = 1 THEN first ELSE 3 - first)
  BY DEF Paths
<1>2. n \in Nat \ {0}
  BY CuckooMapAssumption
<1>3. p \in Seq(Cells) /\ Len(p) = n
  BY <1>1, <1>2
<1>4. 1 \in DOMAIN p /\ 1 % 2 = 1
  BY <1>1, <1>2
<1>5. p[1][1] = hash(call[t].node.key, first)
  BY <1>1, <1>4
<1> QED BY <1>1, <1>2, <1>3, <1>5 DEF Homes

LEMMA SearchGood ==
    ASSUME BaseInv, NEW t \in Threads, SearchFinds(t) \/ SearchFails(t)
    PROVE  /\ GoodStep(t) /\ table' = table /\ net' = net /\ call[t].pc = "search"
           /\ call'[t].pc \in {"lock", "idle"}
<1>1. PICK m, k : m = call[t] /\ k = m.node.key
  OBVIOUS
<1>2. /\ m \in Calls /\ CallOK(m) /\ LockOK(m, Held(t)) /\ TypeOK /\ m.pc = "search"
      /\ table' = table /\ net' = net
  BY <1>1, CallParts DEF BaseInv, SearchFinds, SearchFails
<1>3. k \in Keys /\ m.node \in Node /\ Held(t) = {}
  BY <1>1, <1>2 DEF CallOK, LockOK, Aim
<1>4. OwnCells(t) /\ HomeInv' /\ net' \in Int
  BY <1>2, SameCells DEF TypeOK
<1>5. CASE SearchFinds(t)
  <2>1. PICK p \in Paths(t) :
           Become(t, [Locking(t, LocksFor(t, p, Len(p)), IF Len(p) = 1 THEN "place" ELSE "move")
                        EXCEPT !.path = p])
    BY <1>5 DEF SearchFinds
  <2>2. p \in Seq(Cells) /\ Len(p) \in Nat \ {0} /\ p[1][1] \in Homes(k)
    BY <1>1, PathFacts
  <2>3. PICK n, S, l : n = Len(p) /\ S = LocksFor(t, p, n) /\ l = IF n = 1 THEN "place" ELSE "move"
    OBVIOUS
  <2>4. n \in Nat /\ n >= 1 /\ call[t].node.key \in Keys /\ p[1][1] \in Homes(call[t].node.key)
    BY <1>1, <1>3, <2>2, <2>3
  <2>5. S \subseteq Indices /\ S # {} /\ p[n][1] \in S /\ (n >= 2 => p[n - 1][1] \in S)
    BY <2>2, <2>3, <2>4, LocksForFacts
  <2>6. PICK r : r = [Locking(t, S, l) EXCEPT !.path = p]
    OBVIOUS
  <2>7. l \in {"check", "erase", "place", "move"}
    BY <2>3
  <2>8. /\ r \in Calls /\ r.pc = "lock" /\ r.want = S /\ r.goal = l /\ r.path = p
        /\ r.node = m.node
    BY <1>1, <1>2, <2>2, <2>5, <2>6, <2>7 DEF Calls, Locking
  <2>9. call' \in [Threads -> Calls] /\ Others(t) /\ call'[t] = r
    BY <1>2, <2>1, <2>3, <2>6, <2>8, BecomeFacts
  <2>10. OwnLocks(t) /\ Held(t)' = {}
    BY <1>2, <1>3, <1>5, SameLocks DEF SearchFinds
  <2>11. p # << >>
    BY <2>2
  <2>12. CallOK(r)
    BY <1>1, <1>3, <2>2, <2>3, <2>4, <2>5, <2>8, <2>11 DEF CallOK, Aim
  <2>13. LockOK(r, {}) /\ Knows(r, table')
    BY <2>3, <2>4, <2>5, <2>8 DEF LockOK, Knows, Needs, Aim
  <2> QED BY <1>1, <1>2, <1>4, <2>8, <2>9, <2>10, <2>12, <2>13 DEF GoodStep
<1>6. CASE SearchFails(t)
  <2>1. /\ call' \in [Threads -> Calls] /\ Others(t) /\ call'[t] = Idle /\ OwnLocks(t)
        /\ CallOK(call'[t]) /\ LockOK(call'[t], Held(t)') /\ Knows(call'[t], table')
    BY <1>2, <1>6, ReturnFacts DEF SearchFails
  <2> QED BY <1>1, <1>2, <1>4, <2>1, IdleFacts DEF GoodStep
<1> QED BY <1>5, <1>6

LEMMA PlaceGood ==
    ASSUME BaseInv, NEW t \in Threads, Place(t)
    PROVE  /\ GoodStep(t) /\ table' = table /\ net' = net /\ call[t].pc = "place"
           /\ call'[t].pc \in {"lock", "write"}
<1>1. PICK m, c : m = call[t] /\ c = m.path[1]
  OBVIOUS
<1>2. /\ m \in Calls /\ CallOK(m) /\ LockOK(m, Held(t)) /\ TypeOK /\ m.pc = "place"
      /\ table' = table /\ net' = net
  BY <1>1, CallParts DEF BaseInv, Place
<1>3. m.node \in Node /\ m.path # << >> /\ c[1] \in Homes(m.node.key) /\ c[1] \in Held(t)
  BY <1>1, <1>2 DEF CallOK, LockOK, Needs, Aim
<1>4. c \in Cells
  BY <1>1, <1>2, <1>3 DEF Calls
<1>5. CASE table[c] = Vacant /\ Fill(t, c, TRUE)
  BY <1>1, <1>2, <1>3, <1>4, <1>5, FillGood
<1>6. CASE Retry(t)
  BY <1>1, <1>2, <1>3, <1>6, RetryGood
<1> QED BY <1>1, <1>5, <1>6 DEF Place

LEMMA MoveGood ==
    ASSUME BaseInv, NEW t \in Threads, Move(t)
    PROVE  /\ GoodStep(t) /\ call[t].pc = "move" /\ net' = net
           /\ \/ table' = table /\ call'[t].pc = "lock"
              \/ /\ table[Dest(t)] = Vacant /\ table[From(t)] # Vacant
                 /\ hash(table[From(t)].key, 2) = Dest(t)[1]
                 /\ From(t) \in Cells /\ Dest(t) \in Cells
                 /\ From(t)[1] \in Held(t) /\ Dest(t)[1] \in Held(t)
                 /\ table' = [table EXCEPT ![Dest(t)] = table[From(t)]]
                 /\ call'[t].pc = "clear" /\ call'[t].path = call[t].path
<1>1. PICK m, n, from, dest : /\ m = call[t] /\ n = Len(m.path)
                              /\ from = m.path[n - 1] /\ dest = m.path[n]
  OBVIOUS
<1>2. m \in Calls /\ CallOK(m) /\ LockOK(m, Held(t)) /\ TypeOK /\ m.pc = "move" /\ net' = net
  BY <1>1, CallParts DEF BaseInv, Move, Displace
<1>3. /\ m.node \in Node /\ m.path # << >> /\ m.path[1][1] \in Homes(m.node.key)
      /\ n >= 2 /\ from[1] \in Held(t) /\ dest[1] \in Held(t)
  BY <1>1, <1>2 DEF CallOK, LockOK, Needs, Aim
<1>4. m.path \in Seq(Cells) /\ n \in Nat
  BY <1>1, <1>2 DEF Calls
<1>5. from \in Cells /\ dest \in Cells
  BY <1>1, <1>3, <1>4
<1>6. from = From(t) /\ dest = Dest(t)
  BY <1>1 DEF From, Dest
<1>7. CASE /\ table[dest] = Vacant /\ table[from] # Vacant /\ hash(table[from].key, 2) = dest[1]
           /\ table' = [table EXCEPT ![dest] = table[from]]
           /\ Become(t, [m EXCEPT !.pc = "clear"]) /\ lock' = lock
  <2>1. PICK r : r = [m EXCEPT !.pc = "clear"]
    OBVIOUS
  <2>2. /\ r \in Calls /\ r.pc = "clear" /\ r.node = m.node /\ r.path = m.path
    BY <1>2, <2>1, AtPc
  <2>3. call' \in [Threads -> Calls] /\ Others(t) /\ call'[t] = r
    BY <1>2, <1>7, <2>1, <2>2, BecomeFacts
  <2>4. OwnLocks(t) /\ Held(t)' = Held(t) /\ net' \in Int
    BY <1>2, <1>7, SameLocks DEF TypeOK
  <2>5. table[from] \in Node /\ dest[1] \in Homes(table[from].key)
    BY <1>2, <1>5, <1>7 DEF TypeOK, Homes
  <2>6. /\ OwnCells(t) /\ HomeInv' /\ table'[dest] = table[from]
        /\ \A d \in Cells : d # dest => table'[d] = table[d]
    <3>1. PICK v \in Node : v = table[from]
      BY <2>5
    <3>2. table' = [table EXCEPT ![dest] = v] /\ dest[1] \in Homes(v.key)
      BY <1>7, <2>5, <3>1
    <3> QED BY <1>3, <1>5, <3>1, <3>2, WriteFacts
  <2>7. from # dest
    BY <1>7
  <2>8. table'[from] = table[from]
    BY <1>5, <2>6, <2>7
  <2>9. CallOK(r) /\ LockOK(r, Held(t))
    BY <1>1, <1>2, <1>3, <2>2 DEF CallOK, LockOK, Needs, Aim
  <2>10. Knows(r, table')
    BY <1>1, <1>7, <2>2, <2>6, <2>7, <2>8 DEF Knows
  <2> QED BY <1>1, <1>2, <1>3, <1>5, <1>6, <1>7, <2>2, <2>3, <2>4, <2>6, <2>9, <2>10 DEF GoodStep
<1>8. CASE Retry(t) /\ table' = table
  BY <1>1, <1>2, <1>3, <1>8, RetryGood
<1> QED BY <1>1, <1>6, <1>7, <1>8 DEF Move, Displace

LEMMA ClearGood ==
    ASSUME BaseInv, NEW t \in Threads, Clear(t)
    PROVE  /\ GoodStep(t) /\ call[t].pc = "clear" /\ net' = net
           /\ From(t) \in Cells /\ Dest(t) \in Cells /\ From(t) # Dest(t)
           /\ From(t)[1] \in Held(t) /\ Dest(t)[1] \in Held(t)
           /\ table[From(t)] # Vacant /\ table[Dest(t)] = table[From(t)]
           /\ hash(table[From(t)].key, 2) = Dest(t)[1]
           /\ table' = [table EXCEPT ![From(t)] = Vacant]
           /\ call'[t].pc \in {"lock", "write"}
<1>1. PICK m, n, from, dest : /\ m = call[t] /\ n = Len(m.path)
                              /\ from = m.path[n - 1] /\ dest = m.path[n]
  OBVIOUS
<1>2. /\ m \in Calls /\ CallOK(m) /\ LockOK(m, Held(t)) /\ TypeOK /\ m.pc = "clear"
      /\ Knows(m, table) /\ net' = net
  BY <1>1, CallParts DEF BaseInv, Clear
<1>3. /\ m.node \in Node /\ m.path # << >> /\ m.path[1][1] \in Homes(m.node.key)
      /\ n >= 2 /\ from[1] \in Held(t) /\ dest[1] \in Held(t)
  BY <1>1, <1>2 DEF CallOK, LockOK, Needs, Aim
<1>4. m.path \in Seq(Cells) /\ n \in Nat
  BY <1>1, <1>2 DEF Calls
<1>5. from \in Cells /\ dest \in Cells
  BY <1>1, <1>3, <1>4
<1>6. from = From(t) /\ dest = Dest(t)
  BY <1>1 DEF From, Dest
<1>7. /\ table[from] # Vacant /\ table[dest] = table[from] /\ from # dest
      /\ hash(table[from].key, 2) = dest[1]
  BY <1>1, <1>2 DEF Knows
<1>8. PICK p : p = SubSeq(m.path, 1, n - 1)
  OBVIOUS
<1>9. /\ p \in Seq(Cells) /\ Len(p) = n - 1 /\ \A i \in 1 .. n - 1 : p[i] = m.path[i]
  BY <1>1, <1>3, <1>4, <1>8
<1>10. p[n - 1] = from /\ p[1] = m.path[1] /\ p[1] \in Cells
  BY <1>1, <1>3, <1>4, <1>9
<1>11. table' = [table EXCEPT ![from] = Vacant]
  BY <1>1, <1>8, <1>10 DEF Clear
<1>12. OwnCells(t) /\ HomeInv' /\ table'[from] = Vacant /\ net' \in Int
  BY <1>2, <1>3, <1>5, <1>11, WriteFacts DEF TypeOK
<1>13. CASE /\ n = 2 /\ Release(Held(t) \ Homes(m.node.key))
            /\ Become(t, [m EXCEPT !.pc = "write", !.path = << >>, !.to = p[1], !.new = TRUE])
  <2>1. PICK e \in Seq(Cells) : e = << >>
    <3>1. << >> \in Seq(Cells)
      OBVIOUS
    <3> QED BY <3>1
  <2>2. PICK c \in Cells : c = p[1]
    BY <1>10
  <2>3. PICK r : r = [m EXCEPT !.pc = "write", !.path = e, !.to = c, !.new = TRUE]
    OBVIOUS
  <2>4. r \in Calls /\ r.pc = "write" /\ r.node = m.node /\ r.to = c /\ r.new = TRUE
    BY <1>2, <2>3 DEF Calls
  <2>5. call' \in [Threads -> Calls] /\ Others(t) /\ call'[t] = r
    BY <1>2, <1>13, <2>1, <2>2, <2>3, <2>4, BecomeFacts
  <2>6. OwnLocks(t) /\ Held(t)' = Held(t) \ (Held(t) \ Homes(m.node.key))
    BY <1>2, <1>13, ReleaseFacts
  <2>7. c = from /\ c[1] \in Homes(m.node.key)
    BY <1>3, <1>10, <1>13, <2>2
  <2>8. c[1] \in Held(t)'
    BY <1>3, <2>6, <2>7
  <2>9. CallOK(r)
    BY <1>2, <1>3, <2>4, <2>7 DEF CallOK, Aim
  <2>10. LockOK(r, Held(t)')
    BY <2>4, <2>8 DEF LockOK, Needs, Aim
  <2>11. Knows(r, table')
    BY <1>12, <2>4, <2>7 DEF Knows
  <2> QED BY <1>1, <1>2, <1>3, <1>5, <1>6, <1>7, <1>11, <1>12, <2>4, <2>5, <2>6, <2>9, <2>10,
             <2>11 DEF GoodStep
<1>14. CASE /\ n > 2 /\ Release(Held(t))
            /\ Become(t, [Locking(t, LocksFor(t, p, n - 1), "move") EXCEPT !.path = p])
  <2>1. PICK q, S : q = n - 1 /\ S = LocksFor(t, p, q)
    OBVIOUS
  <2>2. /\ q \in Nat /\ q >= 1 /\ q >= 2 /\ q = Len(p) /\ call[t].node.key \in Keys
        /\ p[1][1] \in Homes(call[t].node.key)
    BY <1>1, <1>2, <1>3, <1>4, <1>9, <1>10, <1>14, <2>1 DEF CallOK
  <2>3. S \subseteq Indices /\ S # {} /\ p[q][1] \in S /\ p[q - 1][1] \in S
    BY <1>9, <2>1, <2>2, LocksForFacts
  <2>4. PICK r : r = [Locking(t, S, "move") EXCEPT !.path = p]
    OBVIOUS
  <2>5. /\ r \in Calls /\ r.pc = "lock" /\ r.want = S /\ r.goal = "move" /\ r.path = p
        /\ r.node = m.node
    BY <1>1, <1>2, <1>9, <2>3, <2>4 DEF Calls, Locking
  <2>6. call' \in [Threads -> Calls] /\ Others(t) /\ call'[t] = r
    BY <1>2, <1>14, <2>1, <2>4, <2>5, BecomeFacts
  <2>7. OwnLocks(t) /\ Held(t)' = Held(t) \ Held(t)
    BY <1>2, <1>14, ReleaseFacts
  <2>8. Held(t)' = {} /\ p # << >>
    BY <2>2, <2>7
  <2>9. CallOK(r)
    BY <1>1, <1>3, <2>2, <2>3, <2>5, <2>8 DEF CallOK, Aim
  <2>10. LockOK(r, {}) /\ Knows(r, table')
    BY <2>2, <2>3, <2>5 DEF LockOK, Needs, Aim, Knows
  <2> QED BY <1>1, <1>2, <1>3, <1>5, <1>6, <1>7, <1>11, <1>12, <2>5, <2>6, <2>7, <2>8, <2>9,
             <2>10 DEF GoodStep
<1> QED BY <1>1, <1>8, <1>13, <1>14 DEF Clear

LEMMA StepGood ==
    ASSUME BaseInv, NEW t \in Threads, Begin(t) \/ Step(t)
    PROVE  GoodStep(t)
BY BeginGood, AcquireGood, ReaderGood, removeGood, CheckGood, WriteGood, SearchGood,
   PlaceGood, MoveGood, ClearGood DEF Step

LEMMA InitBase == Init => BaseInv
<1> SUFFICES ASSUME Init PROVE BaseInv
  OBVIOUS
<1>1. TypeOK
  BY IdleFacts DEF Init, TypeOK
<1>2. \A t \in Threads : call[t] = Idle /\ Held(t) = {}
  BY CuckooMapAssumption DEF Init, Held
<1>3. CallInv /\ LockInv /\ CellInv
  BY <1>2, IdleFacts DEF CallInv, LockInv, CellInv
<1>4. HomeInv
  BY DEF Init, HomeInv
<1> QED BY <1>1, <1>3, <1>4 DEF BaseInv

LEMMA NextBase == BaseInv /\ [Next]_vars => BaseInv'
<1> SUFFICES ASSUME BaseInv, [Next]_vars PROVE BaseInv'
  OBVIOUS
<1>1. CASE Next
  BY <1>1, StepGood, GoodStepInv DEF Next
<1>2. CASE UNCHANGED vars
  BY <1>2 DEF vars, BaseInv, TypeOK, CallInv, LockInv, Held, CellInv, HomeInv
<1> QED BY <1>1, <1>2

(* The type invariant of the map, with what a call is sure of in each of   *)
(* its phases: the locks it holds, the cells it has looked at under them,  *)
(* and every element in one of the two buckets of its key.                 *)
THEOREM TypeCorrect == Spec => []BaseInv
BY InitBase, NextBase, PTL DEF Spec

-----------------------------------------------------------------------------
\* The waiting thread whose next lock is the greatest waits for nobody in S:
\* the owner, were it waiting too, would wait for a greater lock.
LEMMA OrderedLocks == BaseInv => NoCircularWait
<1> SUFFICES ASSUME BaseInv, NEW S \in SUBSET Threads, S # {},
                    \A t \in S : call[t].pc = "lock" /\ lock[Min(call[t].want)] \in S
             PROVE  FALSE
  BY DEF NoCircularWait
<1> DEFINE next(t) == Min(call[t].want)
           N == {next(t) : t \in S}
<1>1. \A t \in S : /\ next(t) \in call[t].want /\ next(t) \in Indices
                   /\ \A i \in Held(t) : i < next(t)
  <2> TAKE t \in S
  <2>1. call[t] \in Calls /\ CallOK(call[t]) /\ LockOK(call[t], Held(t)) /\ call[t].pc = "lock"
    BY CallParts
  <2>2. call[t].want # {} /\ call[t].want \subseteq Indices
    BY <2>1 DEF CallOK, Calls
  <2>3. next(t) \in call[t].want
    BY <2>2, SomeFinite, MinFacts
  <2> QED BY <2>1, <2>2, <2>3 DEF LockOK
<1> HIDE DEF next
<1>2. N \subseteq Indices /\ N # {} /\ IsFiniteSet(N)
  BY <1>1, SomeFinite
<1>3. PICK x \in N : \A y \in N : y <= x
  BY <1>2, SomeFinite, LargestExists
<1>4. PICK t \in S : next(t) = x
  BY <1>3
<1>5. PICK u \in S : lock[x] = u
  BY <1>4 DEF next
<1>6. x \in Held(u)
  BY <1>2, <1>5 DEF Held
<1>7. x < next(u) /\ next(u) \in N
  BY <1>1, <1>6
<1>8. next(u) <= x /\ next(u) \in Int /\ x \in Int
  BY <1>2, <1>3, <1>7, SomeFinite
<1> QED BY <1>7, <1>8

(* No deadlock among the spin locks of the buckets, however many threads   *)
(* there are: lock_two and lock_three take them in ascending order, and    *)
(* every later round starts without a lock.                                *)
THEOREM NobodyWaitsInACircle == Spec => []NoCircularWait
BY TypeCorrect, OrderedLocks, PTL

-----------------------------------------------------------------------------
\* The cells that are about to be cleared, and how a step changes them.
LEMMA MovingFacts ==
    ASSUME BaseInv, NEW c \in Moving
    PROVE  \E u \in Threads : /\ call[u].pc = "clear" /\ c = From(u) /\ c \in Cells
                              /\ c[1] \in Held(u) /\ table[c] # Vacant
<1>1. PICK u \in Threads : call[u].pc = "clear" /\ c = From(u)
  BY DEF Moving, From
<1>2. PICK m, n : m = call[u] /\ n = Len(m.path)
  OBVIOUS
<1>3. m \in Calls /\ CallOK(m) /\ LockOK(m, Held(u)) /\ Knows(m, table) /\ m.pc = "clear"
  BY <1>1, <1>2, CallParts
<1>4. m.path \in Seq(Cells) /\ n \in Nat /\ n >= 2 /\ c = m.path[n - 1]
  BY <1>1, <1>2, <1>3 DEF CallOK, Calls, From, Aim
<1>5. c \in Cells
  BY <1>2, <1>4
<1>6. c[1] \in Held(u) /\ table[c] # Vacant
  BY <1>2, <1>3, <1>4 DEF LockOK, Needs, Aim, Knows
<1> QED BY <1>1, <1>5, <1>6

LEMMA OwnNotMoving ==
    ASSUME BaseInv, NEW t \in Threads, NEW c \in Cells, c[1] \in Held(t),
           call[t].pc = "clear" => c # From(t)
    PROVE  c \notin Moving
BY MovingFacts, HeldDisjoint

LEMMA MovingStep ==
    ASSUME BaseInv, NEW t \in Threads, Others(t)
    PROVE  /\ call[t].pc # "clear" /\ call'[t].pc # "clear" => Moving' = Moving
           /\ call[t].pc # "clear" /\ call'[t].pc = "clear" /\ call'[t].path = call[t].path =>
                 Moving' = Moving \cup {From(t)}
           /\ /\ call[t].pc = "clear" /\ call'[t].pc # "clear"
              /\ \A u \in Threads : u # t /\ call[u].pc = "clear" => From(u) # From(t) 
              => Moving' = Moving \ {From(t)}
<1>1. Moving = {From(u) : u \in {v \in Threads : call[v].pc = "clear"}}
  BY DEF Moving, From
<1>2. Moving' = {From(u)' : u \in {v \in Threads : call'[v].pc = "clear"}}
  BY DEF Moving, From
<1>3. \A u \in Threads : u # t => From(u)' = From(u) /\ call'[u].pc = call[u].pc
  BY DEF From, Others
<1>4. call'[t].path = call[t].path => From(t)' = From(t)
  BY DEF From
<1>5. CASE call[t].pc # "clear" /\ call'[t].pc # "clear"
  BY <1>1, <1>2, <1>3, <1>5
<1>6. CASE call[t].pc # "clear" /\ call'[t].pc = "clear" /\ call'[t].path = call[t].path
  BY <1>1, <1>2, <1>3, <1>4, <1>6
<1>7. CASE /\ call[t].pc = "clear" /\ call'[t].pc # "clear"
           /\ \A u \in Threads : u # t /\ call[u].pc = "clear" => From(u) # From(t)
  BY <1>1, <1>2, <1>3, <1>7
<1> QED BY <1>5, <1>6, <1>7

\* The elements of the map, a key on the move counted once.
Settled == Occupied \ Moving

LEMMA SettledFinite == IsFiniteSet(Cells) /\ IsFiniteSet(Settled) /\ Cardinality(Settled) \in Nat
<1>1. IsFiniteSet(Indices) /\ IsFiniteSet(0 .. WIDTH - 1)
  BY SomeFinite, CuckooMapAssumption, FS_Interval
<1>2. IsFiniteSet(Cells)
  BY <1>1, FS_Product DEF Cells
<1>3. Settled \subseteq Cells
  BY DEF Settled, Occupied
<1>4. IsFiniteSet(Settled)
  BY <1>2, <1>3, FS_Subset
<1> QED BY <1>2, <1>4, FS_CardinalityType

\* How each step changes the elements: it adds one, takes one out, moves one,
\* or leaves their cells alone.
LEMMA QuietStep ==
    ASSUME BaseInv, NEW t \in Threads, Others(t), table' = table,
           call[t].pc # "clear", call'[t].pc # "clear"
    PROVE  Settled' = Settled /\ Moving' = Moving
<1>1. Moving' = Moving
  BY MovingStep
<1> QED BY <1>1 DEF Settled, Occupied

LEMMA RemoveSettled ==
    ASSUME BaseInv, NEW t \in Threads, Others(t), call[t].pc # "clear", call'[t].pc # "clear",
           NEW c \in Cells, c[1] \in Held(t), table[c] # Vacant,
           table' = [table EXCEPT ![c] = Vacant]
    PROVE  Settled' = Settled \ {c} /\ c \in Settled /\ Moving' = Moving
<1>1. Moving' = Moving
  BY MovingStep
<1>2. c \notin Moving
  BY OwnNotMoving
<1>3. table'[c] = Vacant /\ \A d \in Cells : d # c => table'[d] = table[d]
  BY DEF BaseInv, TypeOK
<1>4. Occupied' = Occupied \ {c}
  BY <1>3 DEF Occupied
<1> QED BY <1>1, <1>2, <1>4 DEF Settled, Occupied

LEMMA WriteSettled ==
    ASSUME BaseInv, NEW t \in Threads, Write(t)
    PROVE  /\ IF call[t].new THEN Settled' = Settled \cup {call[t].to} /\ call[t].to \notin Settled
              ELSE Settled' = Settled
           /\ Moving' = Moving
<1>1. PICK m : m = call[t]
  OBVIOUS
<1>2. /\ Others(t) /\ m.pc = "write" /\ call'[t] = Idle
      /\ table' = [table EXCEPT ![m.to] = m.node]
      /\ m.to \in Cells /\ m.node \in Node /\ m.new \in BOOLEAN
      /\ IF m.new THEN table[m.to] = Vacant ELSE table[m.to].key = m.node.key
  BY <1>1, WriteGood DEF GoodStep
<1>3. Moving' = Moving
  BY <1>1, <1>2, MovingStep, IdleFacts
<1>4. m.to \notin Moving
  <2>1. m.to[1] \in Held(t)
    BY <1>1, <1>2, CallParts DEF LockOK, Needs, Aim
  <2> QED BY <1>1, <1>2, <2>1, OwnNotMoving
<1>5. m.node # Vacant /\ (~m.new => table[m.to] # Vacant)
  BY <1>2, CuckooMapAssumption DEF Node, Vacant, EMPTY
<1>6. table'[m.to] = m.node /\ \A d \in Cells : d # m.to => table'[d] = table[d]
  BY <1>2 DEF BaseInv, TypeOK
<1>7. Occupied' = Occupied \cup {m.to}
  BY <1>2, <1>5, <1>6 DEF Occupied
<1> QED BY <1>1, <1>2, <1>3, <1>4, <1>5, <1>7 DEF Settled, Occupied

LEMMA MoveSettled ==
    ASSUME BaseInv, NEW t \in Threads, Move(t), table' # table
    PROVE  /\ Settled' = (Settled \ {From(t)}) \cup {Dest(t)}
           /\ From(t) \in Settled /\ Dest(t) \notin Settled
           /\ Moving' = Moving \cup {From(t)} /\ Dest(t) \notin Moving
<1>1. /\ Others(t) /\ call[t].pc = "move" /\ call'[t].pc = "clear"
      /\ call'[t].path = call[t].path
      /\ table[Dest(t)] = Vacant /\ table[From(t)] # Vacant
      /\ From(t) \in Cells /\ Dest(t) \in Cells
      /\ From(t)[1] \in Held(t) /\ Dest(t)[1] \in Held(t)
      /\ table' = [table EXCEPT ![Dest(t)] = table[From(t)]]
  BY MoveGood DEF GoodStep
<1>2. Moving' = Moving \cup {From(t)}
  BY <1>1, MovingStep
<1>3. From(t) \notin Moving /\ Dest(t) \notin Moving
  BY <1>1, OwnNotMoving
<1>4. /\ table'[Dest(t)] = table[From(t)]
      /\ \A d \in Cells : d # Dest(t) => table'[d] = table[d]
  BY <1>1 DEF BaseInv, TypeOK
<1>5. Occupied' = Occupied \cup {Dest(t)}
  BY <1>1, <1>4 DEF Occupied
<1> QED BY <1>1, <1>2, <1>3, <1>5 DEF Settled, Occupied

LEMMA ClearSettled ==
    ASSUME BaseInv, NEW t \in Threads, Clear(t)
    PROVE  Settled' = Settled /\ Moving' = Moving \ {From(t)} /\ Dest(t) \notin Moving
<1>1. /\ Others(t) /\ call[t].pc = "clear" /\ call'[t].pc # "clear"
      /\ From(t) \in Cells /\ From(t)[1] \in Held(t)
      /\ Dest(t) \in Cells /\ Dest(t)[1] \in Held(t) /\ Dest(t) # From(t)
      /\ table' = [table EXCEPT ![From(t)] = Vacant]
  BY ClearGood DEF GoodStep
<1>2. \A u \in Threads : u # t /\ call[u].pc = "clear" => From(u) # From(t)
  <2> SUFFICES ASSUME NEW u \in Threads, u # t, call[u].pc = "clear" PROVE From(u) # From(t)
    OBVIOUS
  <2>1. From(u)[1] \in Held(u)
    BY CallParts DEF LockOK, Needs, Aim, From
  <2> QED BY <1>1, <2>1, HeldDisjoint
<1>3. Moving' = Moving \ {From(t)}
  BY <1>1, <1>2, MovingStep
<1>4. /\ table'[From(t)] = Vacant
      /\ \A d \in Cells : d # From(t) => table'[d] = table[d]
  BY <1>1 DEF BaseInv, TypeOK
<1>5. Occupied' = Occupied \ {From(t)}
  BY <1>4 DEF Occupied
<1>6. Dest(t) \notin Moving
  BY <1>1, OwnNotMoving
<1>7. From(t) \in Moving
  BY <1>1 DEF Moving, From
<1> QED BY <1>3, <1>5, <1>6, <1>7 DEF Settled

LEMMA SizeStep ==
    ASSUME BaseInv, SizeIsExact, NEW t \in Threads, Begin(t) \/ Step(t)
    PROVE  SizeIsExact'
<1>1. Cardinality(Settled) = net /\ IsFiniteSet(Settled) /\ net \in Nat
  BY SettledFinite DEF SizeIsExact, Settled
<1> SUFFICES Cardinality(Settled') = net'
  BY DEF SizeIsExact, Settled
<1>2. ASSUME Settled' = Settled, net' = net PROVE Cardinality(Settled') = net'
  BY <1>1, <1>2
<1>3. CASE Begin(t)
  BY <1>2, <1>3, BeginGood, QuietStep DEF GoodStep
<1>4. CASE Acquire(t)
  BY <1>2, <1>4, AcquireGood, QuietStep DEF GoodStep
<1>5. CASE contains(t) \/ get(t)
  <2>1. /\ Others(t) /\ table' = table /\ net' = net
        /\ call[t].pc # "clear" /\ call'[t].pc # "clear"
    BY <1>5, ReaderGood, IdleFacts DEF GoodStep
  <2> QED BY <1>2, <2>1, QuietStep
<1>6. CASE Check(t)
  BY <1>2, <1>6, CheckGood, QuietStep DEF GoodStep
<1>7. CASE SearchFinds(t) \/ SearchFails(t)
  BY <1>2, <1>7, SearchGood, QuietStep DEF GoodStep
<1>8. CASE Place(t)
  BY <1>2, <1>8, PlaceGood, QuietStep DEF GoodStep
<1>9. CASE remove(t)
  <2>1. Others(t) /\ call[t].pc = "erase" /\ call'[t].pc = "idle"
    BY <1>9, removeGood, IdleFacts DEF GoodStep
  <2>2. CASE table' = table /\ net' = net
    BY <1>2, <2>1, <2>2, QuietStep
  <2>3. CASE ~(table' = table /\ net' = net)
    <3>1. PICK c \in Cells : /\ c[1] \in Held(t) /\ table[c].key = call[t].node.key
                             /\ net' = net - 1 /\ table' = [table EXCEPT ![c] = Vacant]
      BY <1>9, <2>3, removeGood
    <3>2. call[t].node.key \in Keys
      BY <2>1, CallParts DEF CallOK
    <3>3. table[c] # Vacant
      BY <3>1, <3>2, CuckooMapAssumption DEF Vacant, EMPTY
    <3>4. Settled' = Settled \ {c} /\ c \in Settled
      BY <2>1, <3>1, <3>3, RemoveSettled
    <3>5. Cardinality(Settled \ {c}) = Cardinality(Settled) - 1
      BY <1>1, <3>4, FS_RemoveElement
    <3> QED BY <1>1, <3>1, <3>4, <3>5
  <2> QED BY <2>2, <2>3
<1>10. CASE Write(t)
  <2>1. net' = (IF call[t].new THEN net + 1 ELSE net) /\ call[t].new \in BOOLEAN
    BY <1>10, WriteGood
  <2>2. IF call[t].new THEN Settled' = Settled \cup {call[t].to} /\ call[t].to \notin Settled
        ELSE Settled' = Settled
    BY <1>10, WriteSettled
  <2>3. CASE call[t].new
    <3>1. Cardinality(Settled \cup {call[t].to}) = Cardinality(Settled) + 1
      BY <1>1, <2>2, <2>3, FS_AddElement
    <3> QED BY <1>1, <2>1, <2>2, <2>3, <3>1
  <2>4. CASE ~call[t].new
    BY <1>2, <2>1, <2>2, <2>4
  <2> QED BY <2>3, <2>4
<1>11. CASE Move(t)
  <2>1. net' = net
    BY <1>11, MoveGood
  <2>2. CASE table' = table
    <3>1. Others(t) /\ call[t].pc = "move" /\ call'[t].pc # "clear"
      <4>1. Others(t) /\ call[t].pc = "move"
        BY <1>11, MoveGood DEF GoodStep
      <4>2. \/ call'[t].pc = "lock"
            \/ /\ table[Dest(t)] = Vacant /\ table[From(t)] # Vacant /\ Dest(t) \in Cells
               /\ table' = [table EXCEPT ![Dest(t)] = table[From(t)]]
        BY <1>11, MoveGood
      <4> QED BY <2>2, <4>1, <4>2 DEF BaseInv, TypeOK
    <3> QED BY <1>2, <2>1, <2>2, <3>1, QuietStep
  <2>3. CASE table' # table
    <3>1. /\ Settled' = (Settled \ {From(t)}) \cup {Dest(t)}
          /\ From(t) \in Settled /\ Dest(t) \notin Settled
      BY <1>11, <2>3, MoveSettled
    <3>2. /\ IsFiniteSet(Settled \ {From(t)})
          /\ Cardinality(Settled \ {From(t)}) = Cardinality(Settled) - 1
      BY <1>1, <3>1, FS_RemoveElement
    <3>3. Dest(t) \notin Settled \ {From(t)}
      BY <3>1
    <3>4. Cardinality((Settled \ {From(t)}) \cup {Dest(t)}) = Cardinality(Settled \ {From(t)}) + 1
      BY <3>2, <3>3, FS_AddElement
    <3> QED BY <1>1, <2>1, <3>1, <3>2, <3>4
  <2> QED BY <2>2, <2>3
<1>12. CASE Clear(t)
  BY <1>2, <1>12, ClearGood, ClearSettled
<1> QED BY <1>3, <1>4, <1>5, <1>6, <1>7, <1>8, <1>9, <1>10, <1>11, <1>12 DEF Step

LEMMA InitSize == Init => SizeIsExact
<1> SUFFICES ASSUME Init PROVE SizeIsExact
  OBVIOUS
<1>1. Occupied \ Moving = {}
  BY DEF Init, Occupied
<1> QED BY <1>1, FS_EmptySet DEF Init, SizeIsExact

LEMMA NextSize == BaseInv /\ SizeIsExact /\ [Next]_vars => SizeIsExact'
<1> SUFFICES ASSUME BaseInv, SizeIsExact, [Next]_vars PROVE SizeIsExact'
  OBVIOUS
<1>1. CASE Next
  BY <1>1, SizeStep DEF Next
<1>2. CASE UNCHANGED vars
  BY <1>2 DEF vars, SizeIsExact, Occupied, Moving
<1> QED BY <1>1, <1>2

(* No insert, remove or displacement overwrites or drops an element in     *)
(* another one's cell: however many threads displace along whatever paths, *)
(* as many cells are taken as inserts answered TRUE minus removes.         *)
THEOREM NothingIsLost == Spec => []SizeIsExact
<1>1. Init => BaseInv /\ SizeIsExact
  BY InitBase, InitSize
<1>2. (BaseInv /\ SizeIsExact) /\ [Next]_vars => (BaseInv /\ SizeIsExact)'
  BY NextBase, NextSize
<1> QED BY <1>1, <1>2, PTL DEF Spec

-----------------------------------------------------------------------------
LEMMA InHome ==
    ASSUME BaseInv, NEW c \in Cells, table[c].key \in Keys
    PROVE  table[c] # Vacant /\ c[1] \in Homes(table[c].key)
<1>1. table[c] # Vacant
  BY CuckooMapAssumption DEF Vacant, EMPTY
<1> QED BY <1>1 DEF BaseInv, HomeInv

\* What a step does to the call of its thread.
LEMMA CheckedPresent ==
    ASSUME BaseInv, NEW t \in Threads, call[t].pc \in {"check", "erase"},
           {f \in {1, 2} : SlotsWith(hash(call[t].node.key, f), call[t].node.key) # {}} = {}
    PROVE  ~Present(call[t].node.key)
<1> SUFFICES ASSUME NEW c \in Cells, table[c].key = call[t].node.key PROVE FALSE
  BY DEF Present
<1>1. PICK k \in Keys : k = call[t].node.key
  BY CallParts DEF CallOK
<1>2. c[1] \in Homes(k) /\ c = <<c[1], c[2]>> /\ c[2] \in 0 .. WIDTH - 1
  BY <1>1, InHome, CellFacts
<1>3. c[2] \in SlotsWith(c[1], k)
  BY <1>1, <1>2 DEF SlotsWith
<1> QED BY <1>1, <1>2, <1>3 DEF Homes

KeepsCall(t) ==
    /\ call'[t].op = call[t].op /\ call'[t].node = call[t].node
    /\ Aim(call'[t]) \in InsertPCs => Aim(call[t]) \in InsertPCs
    /\ Unseen(call'[t]) => Unseen(call[t]) \/ ~Present(call[t].node.key)

LEMMA FillKeeps ==
    ASSUME BaseInv, NEW t \in Threads, NEW c \in Cells, NEW b \in BOOLEAN, Fill(t, c, b),
           call[t].pc \in {"check", "place"},
           b => Unseen(call[t]) \/ ~Present(call[t].node.key)
    PROVE  KeepsCall(t)
<1>1. PICK m : m = call[t]
  OBVIOUS
<1>2. m \in Calls /\ TypeOK
  BY <1>1, CallParts DEF BaseInv
<1>3. PICK r : r = [m EXCEPT !.pc = "write", !.to = c, !.new = b]
  OBVIOUS
<1>4. r \in Calls /\ r.pc = "write" /\ r.new = b /\ r.op = m.op /\ r.node = m.node
  BY <1>2, <1>3 DEF Calls
<1>5. call'[t] = r
  BY <1>1, <1>2, <1>3 DEF Fill, Become, TypeOK
<1> QED BY <1>1, <1>4, <1>5 DEF KeepsCall, Aim, Unseen, InsertPCs

LEMMA RetryKeeps ==
    ASSUME BaseInv, NEW t \in Threads, Retry(t), call[t].pc \in {"place", "move"}
    PROVE  KeepsCall(t)
<1>1. PICK m : m = call[t]
  OBVIOUS
<1>2. m \in Calls /\ TypeOK
  BY <1>1, CallParts DEF BaseInv
<1>3. PICK r : r = [Locking(t, Homes(m.node.key), "check") EXCEPT !.path = << >>]
  OBVIOUS
<1>4. r.pc = "lock" /\ r.goal = "check" /\ r.new = m.new /\ r.op = m.op /\ r.node = m.node
  BY <1>1, <1>2, <1>3 DEF Calls, Locking
<1>5. call'[t] = r
  BY <1>1, <1>2, <1>3 DEF Retry, Become, TypeOK
<1> QED BY <1>1, <1>4, <1>5 DEF KeepsCall, Aim, Unseen, InsertPCs

LEMMA CallStep ==
    ASSUME BaseInv, NEW t \in Threads, Begin(t) \/ Step(t)
    PROVE  \/ call'[t] = Idle
           \/ /\ Begin(t) /\ ~Unseen(call'[t])
              /\ Aim(call'[t]) \in InsertPCs => call'[t].op = "insert"
           \/ KeepsCall(t)
<1>1. PICK m : m = call[t]
  OBVIOUS
<1>2. m \in Calls /\ CallOK(m) /\ TypeOK
  BY <1>1, CallParts DEF BaseInv
<1>3. CASE Begin(t)
  <2>1. PICK o \in {"insert", "remove", "contains", "get"},
             n \in [key : Keys, val : Vals \cup {EMPTY}] :
             Call(t, o, n) /\ (o = "insert" => n \in Node)
    BY <1>3 DEF Begin, Node, Vacant
  <2>2. PICK r : r = call'[t]
    OBVIOUS
  <2>3. /\ r.op = o /\ r.new = FALSE
        /\ IF o \in {"contains", "get"} THEN r.pc = o
           ELSE /\ r.pc = "lock" /\ r.goal = IF o = "insert" THEN "check" ELSE "erase"
    BY <1>2, <2>1, <2>2 DEF Call, Become, Idle, TypeOK
  <2> QED BY <1>3, <2>2, <2>3 DEF Aim, Unseen, InsertPCs
<1>4. CASE Acquire(t)
  <2>1. PICK i, r : r = [m EXCEPT !.want = @ \ {i}, !.pc = IF m.want = {i} THEN m.goal ELSE @]
                    /\ Become(t, r) /\ m.pc = "lock"
    BY <1>1, <1>4 DEF Acquire
  <2>2. /\ r.op = m.op /\ r.node = m.node /\ r.new = m.new /\ r.goal = m.goal
        /\ r.pc = IF m.want = {i} THEN m.goal ELSE m.pc
    BY <1>2, <2>1 DEF Calls
  <2>3. call'[t] = r /\ m.goal # "lock"
    BY <1>2, <2>1 DEF Become, TypeOK, Calls
  <2>4. Aim(r) = Aim(m)
    BY <2>1, <2>2, <2>3 DEF Aim
  <2> QED BY <1>1, <2>2, <2>3, <2>4 DEF KeepsCall, Unseen
<1>5. CASE contains(t) \/ get(t)
  <2>1. \/ call'[t] = Idle
        \/ call'[t] = [m EXCEPT !.pos = @ + 1]
    BY <1>1, <1>2, <1>5 DEF contains, get, Become, TypeOK
  <2>2. PICK r : r = [m EXCEPT !.pos = @ + 1]
    OBVIOUS
  <2>3. r.op = m.op /\ r.node = m.node /\ r.new = m.new /\ r.goal = m.goal /\ r.pc = m.pc
    BY <1>2, <2>2 DEF Calls
  <2> QED BY <1>1, <2>1, <2>2, <2>3 DEF KeepsCall, Unseen, Aim
<1>6. CASE Check(t)
  <2>1. PICK k, dups, free : /\ k = m.node.key
                             /\ dups = {f \in {1, 2} : SlotsWith(hash(k, f), k) # {}}
                             /\ free = {f \in {1, 2} : SlotsWith(hash(k, f), EMPTY) # {}}
    OBVIOUS
  <2>2. /\ m.pc = "check"
        /\ \/ dups # {} /\ Fill(t, FirstSlot(hash(k, Min(dups)), k), FALSE)
           \/ dups = {} /\ free # {} /\ Fill(t, FirstSlot(hash(k, Min(free)), EMPTY), TRUE)
           \/ dups = {} /\ Become(t, [call[t] EXCEPT !.pc = "search"])
    BY <1>1, <1>6, <2>1 DEF Check
  <2>3. k \in Keys \cup {EMPTY}
    BY <1>2, <2>1, <2>2 DEF CallOK
  <2>4. \A F, x : F # {} /\ F = {f \in {1, 2} : SlotsWith(hash(k, f), x) # {}} =>
            FirstSlot(hash(k, Min(F)), x) \in Cells
    <3> SUFFICES ASSUME NEW F, NEW x, F # {}, F = {f \in {1, 2} : SlotsWith(hash(k, f), x) # {}}
                 PROVE  FirstSlot(hash(k, Min(F)), x) \in Cells
      OBVIOUS
    <3>1. PICK f : f = Min(F)
      OBVIOUS
    <3>2. f \in F
      BY <3>1, FirstHash
    <3>3. SlotsWith(hash(k, f), x) # {} /\ hash(k, f) \in Indices
      BY <2>3, <3>2, HashFacts
    <3> QED BY <3>1, <3>3, FirstSlotFacts
  <2>5. CASE dups # {} /\ Fill(t, FirstSlot(hash(k, Min(dups)), k), FALSE)
    BY <1>1, <2>1, <2>2, <2>4, <2>5, FillKeeps
  <2>6. dups = {} => ~Present(k)
    BY <1>1, <2>1, <2>2, CheckedPresent
  <2>7. CASE dups = {} /\ free # {} /\ Fill(t, FirstSlot(hash(k, Min(free)), EMPTY), TRUE)
    BY <1>1, <2>1, <2>2, <2>4, <2>6, <2>7, FillKeeps
  <2>8. CASE dups = {} /\ Become(t, [call[t] EXCEPT !.pc = "search"])
    <3>1. PICK r : r = [m EXCEPT !.pc = "search"]
      OBVIOUS
    <3>2. r.pc = "search" /\ r.op = m.op /\ r.node = m.node
      BY <1>2, <3>1 DEF Calls
    <3>3. call'[t] = r
      BY <1>1, <1>2, <2>8, <3>1 DEF Become, TypeOK
    <3> QED BY <1>1, <2>1, <2>2, <2>6, <2>8, <3>2, <3>3 DEF KeepsCall, Aim, InsertPCs
  <2> QED BY <2>2, <2>5, <2>7, <2>8
<1>7. CASE Write(t) \/ remove(t)
  BY <1>7, WriteGood, removeGood
<1>8. CASE SearchFails(t)
  BY <1>2, <1>8 DEF SearchFails, Return, Become, TypeOK
<1>9. CASE SearchFinds(t)
  <2>1. PICK p, S, l : /\ l \in {"place", "move"} /\ m.pc = "search"
                       /\ Become(t, [Locking(t, S, l) EXCEPT !.path = p])
    BY <1>1, <1>9, Zenon DEF SearchFinds
  <2>2. PICK r : r = [Locking(t, S, l) EXCEPT !.path = p]
    OBVIOUS
  <2>3. r.pc = "lock" /\ r.goal = l /\ r.op = m.op /\ r.node = m.node
    BY <1>1, <1>2, <2>2 DEF Calls, Locking
  <2>4. call'[t] = r
    BY <1>2, <2>1, <2>2 DEF Become, TypeOK
  <2> QED BY <1>1, <2>1, <2>3, <2>4 DEF KeepsCall, Aim, Unseen, InsertPCs
<1>10. CASE Place(t)
  <2>1. m.pc = "place" /\ (Fill(t, m.path[1], TRUE) \/ Retry(t))
    BY <1>1, <1>10 DEF Place
  <2>2. m.path[1] \in Cells
    BY <1>2, <2>1 DEF CallOK, Calls, Aim
  <2>3. Unseen(m)
    BY <2>1 DEF Unseen, Aim
  <2> QED BY <1>1, <2>1, <2>2, <2>3, FillKeeps, RetryKeeps
<1>11. CASE Move(t)
  <2>1. m.pc = "move" /\ (Become(t, [m EXCEPT !.pc = "clear"]) \/ Retry(t))
    BY <1>1, <1>11 DEF Move, Displace
  <2>2. CASE Become(t, [m EXCEPT !.pc = "clear"])
    <3>1. PICK r : r = [m EXCEPT !.pc = "clear"]
      OBVIOUS
    <3>2. r.pc = "clear" /\ r.op = m.op /\ r.node = m.node
      BY <1>2, <3>1 DEF Calls
    <3>3. call'[t] = r
      BY <1>2, <2>2, <3>1 DEF Become, TypeOK
    <3> QED BY <1>1, <2>1, <3>2, <3>3 DEF KeepsCall, Aim, Unseen, InsertPCs
  <2> QED BY <1>1, <2>1, <2>2, RetryKeeps
<1>12. CASE Clear(t)
  <2>1. m.pc = "clear"
    BY <1>1, <1>12 DEF Clear
  <2>2. PICK p, n : /\ p = SubSeq(m.path, 1, n - 1)
                    /\ \/ Become(t, [m EXCEPT !.pc = "write", !.path = << >>, !.to = p[1],
                                              !.new = TRUE])
                       \/ Become(t, [Locking(t, LocksFor(t, p, n - 1), "move") EXCEPT !.path = p])
    BY <1>1, <1>12 DEF Clear
  <2>3. call'[t].op = m.op /\ call'[t].node = m.node
    <3>1. PICK r, q : /\ r = [m EXCEPT !.pc = "write", !.path = << >>, !.to = p[1], !.new = TRUE]
                      /\ q = [Locking(t, LocksFor(t, p, n - 1), "move") EXCEPT !.path = p]
      OBVIOUS
    <3>2. call'[t] = r \/ call'[t] = q
      BY <1>2, <2>2, <3>1 DEF Become, TypeOK
    <3>3. r.op = m.op /\ r.node = m.node
      BY <1>2, <3>1 DEF Calls
    <3>4. q.op = m.op /\ q.node = m.node
      BY <1>1, <1>2, <3>1 DEF Calls, Locking
    <3> QED BY <3>2, <3>3, <3>4
  <2> QED BY <1>1, <2>1, <2>3 DEF KeepsCall, Aim, Unseen, InsertPCs
<1> QED BY <1>3, <1>4, <1>5, <1>6, <1>7, <1>8, <1>9, <1>10, <1>11, <1>12 DEF Step

\* A key gets into the table by the write of an insert of it.
LEMMA KeyArrives ==
    ASSUME BaseInv, NEW t \in Threads, Begin(t) \/ Step(t), NEW k \in Keys,
           ~Present(k), Present(k)'
    PROVE  Write(t) /\ call[t].node.key = k
<1>1. PICK c \in Cells : table'[c].key = k /\ table[c].key # k
  BY DEF Present
<1>2. table' # table
  BY <1>1
<1>3. CASE remove(t)
  <2>1. PICK d \in Cells : table' = [table EXCEPT ![d] = Vacant]
    BY <1>2, <1>3, removeGood
  <2>2. Vacant.key # k
    BY CuckooMapAssumption DEF Vacant, EMPTY
  <2> QED BY <1>1, <2>1, <2>2 DEF BaseInv, TypeOK
<1>4. CASE Write(t)
  BY <1>1, <1>4, WriteGood DEF BaseInv, TypeOK
<1>5. CASE Move(t)
  <2>1. From(t) \in Cells /\ Dest(t) \in Cells
        /\ table' = [table EXCEPT ![Dest(t)] = table[From(t)]]
    BY <1>2, <1>5, MoveGood
  <2>2. table[From(t)].key = k
    BY <1>1, <2>1 DEF BaseInv, TypeOK
  <2> QED BY <2>1, <2>2 DEF Present
<1>6. CASE Clear(t)
  <2>1. From(t) \in Cells /\ table' = [table EXCEPT ![From(t)] = Vacant]
    BY <1>6, ClearGood
  <2>2. Vacant.key # k
    BY CuckooMapAssumption DEF Vacant, EMPTY
  <2> QED BY <1>1, <2>1, <2>2 DEF BaseInv, TypeOK
<1> QED BY <1>2, <1>3, <1>4, <1>5, <1>6, BeginGood, AcquireGood, ReaderGood, CheckGood,
           SearchGood, PlaceGood DEF Step

LEMMA FreshStep ==
    ASSUME BaseInv, FreshInv, NEW t \in Threads, Begin(t) \/ Step(t), Record(t)
    PROVE  FreshInv'
<1>1. Others(t)
  BY StepGood DEF GoodStep
<1>2. \/ call'[t] = Idle
      \/ ~Unseen(call'[t]) /\ (Aim(call'[t]) \in InsertPCs => call'[t].op = "insert")
      \/ KeepsCall(t)
  BY CallStep
<1>3. Aim(Idle) \notin InsertPCs /\ Idle.op = "none"
  BY DEF Idle, Aim, InsertPCs
<1>4. \A u \in Threads : Aim(call'[u]) \in InsertPCs => call'[u].op = "insert"
  BY <1>1, <1>2, <1>3 DEF FreshInv, KeepsCall, Others
<1>5. ASSUME NEW k \in Keys, stored'[k] # Raced, NEW u \in Inserting(k)', Unseen(call'[u])
      PROVE  ~Present(k)'
  <2>1. stored[k] # Raced
    BY <1>5 DEF Record
  <2>2. u \in Threads /\ call'[u].op = "insert" /\ call'[u].node.key = k
    BY <1>5 DEF Inserting
  <2>3. u # t => u \in Inserting(k) /\ Unseen(call[u])
    BY <1>1, <1>5, <2>2 DEF Others, Inserting
  <2>4. u = t => KeepsCall(t) /\ u \in Inserting(k)
    BY <1>2, <1>3, <1>5, <2>2 DEF KeepsCall, Inserting
  <2>5. ~Present(k)
    <3>1. \A v \in Inserting(k) : Unseen(call[v]) => ~Present(k)
      BY <2>1 DEF FreshInv
    <3> QED BY <1>5, <2>2, <2>3, <2>4, <3>1 DEF KeepsCall
  <2>6. ~(Write(t) /\ call[t].node.key = k)
    <3> SUFFICES ASSUME Write(t), call[t].node.key = k PROVE FALSE
      OBVIOUS
    <3>1. call[t].pc = "write" /\ call'[t] = Idle
      BY WriteGood
    <3>2. t \in Inserting(k)
      BY <3>1 DEF FreshInv, Inserting, Aim, InsertPCs
    <3>3. u # t
      BY <1>3, <2>2, <3>1
    <3> QED BY <2>1, <2>3, <3>2, <3>3 DEF FreshInv
  <2> QED BY <2>5, <2>6, KeyArrives
<1>6. ASSUME NEW k \in Keys, stored'[k] # Raced PROVE \A u, v \in Inserting(k)' : u = v
  BY <1>6 DEF Record
<1> QED BY <1>4, <1>5, <1>6 DEF FreshInv

\* The cells that hold a key, one on the move counted once.
Holders(k) == {c \in Settled : table[c].key = k}

LEMMA HoldersFacts ==
    ASSUME NEW k \in Keys
    PROVE  /\ Holders(k) = {c \in Cells \ Moving : table[c].key = k}
           /\ Holders(k)' = {c \in Cells \ Moving' : table'[c].key = k}
           /\ \A c : c \in Holders(k) <=> c \in Settled /\ table[c].key = k
           /\ \A c : c \in Holders(k)' <=> c \in Settled' /\ table'[c].key = k
<1>1. Vacant.key # k
  BY CuckooMapAssumption DEF Vacant, EMPTY
<1> QED BY <1>1 DEF Holders, Settled, Occupied

\* A step that writes or removes no element of key k leaves k and its value alone.
LEMMA HoldersStay ==
    ASSUME BaseInv, NEW t \in Threads, Begin(t) \/ Step(t), NEW k \in Keys,
           call[t].pc \in {"write", "erase"} => call[t].node.key # k
    PROVE  \/ Holders(k)' = Holders(k) /\ \A c \in Holders(k) : table'[c] = table[c]
           \/ \E c \in Holders(k), d \in Cells :
                 /\ Holders(k)' = (Holders(k) \ {c}) \cup {d} /\ table'[d] = table[c]
                 /\ \A e \in Holders(k) \ {c} : table'[e] = table[e]
<1>1. ASSUME table' = table, Settled' = Settled
      PROVE  Holders(k)' = Holders(k) /\ \A c \in Holders(k) : table'[c] = table[c]
  BY <1>1 DEF Holders
<1>2. CASE Begin(t)
  BY <1>1, <1>2, BeginGood, QuietStep DEF GoodStep
<1>3. CASE Acquire(t)
  BY <1>1, <1>3, AcquireGood, QuietStep DEF GoodStep
<1>4. CASE contains(t) \/ get(t)
  <2>1. Others(t) /\ table' = table /\ call[t].pc # "clear" /\ call'[t].pc # "clear"
    BY <1>4, ReaderGood, IdleFacts DEF GoodStep
  <2> QED BY <1>1, <2>1, QuietStep
<1>5. CASE Check(t)
  BY <1>1, <1>5, CheckGood, QuietStep DEF GoodStep
<1>6. CASE SearchFinds(t) \/ SearchFails(t)
  BY <1>1, <1>6, SearchGood, QuietStep DEF GoodStep
<1>7. CASE Place(t)
  BY <1>1, <1>7, PlaceGood, QuietStep DEF GoodStep
<1>8. CASE remove(t)
  <2>1. Others(t) /\ call[t].pc = "erase" /\ call'[t].pc = "idle" /\ call[t].node.key # k
    BY <1>8, removeGood, IdleFacts DEF GoodStep
  <2>2. CASE table' = table
    BY <1>1, <2>1, <2>2, QuietStep
  <2>3. CASE table' # table
    <3>1. PICK c \in Cells : /\ c[1] \in Held(t) /\ table[c].key = call[t].node.key
                             /\ table' = [table EXCEPT ![c] = Vacant]
      BY <1>8, <2>3, removeGood
    <3>2. call[t].node.key \in Keys
      BY <2>1, CallParts DEF CallOK
    <3>3. table[c] # Vacant
      BY <3>1, <3>2, CuckooMapAssumption DEF Vacant, EMPTY
    <3>4. Settled' = Settled \ {c}
      BY <2>1, <3>1, <3>3, RemoveSettled
    <3>5. \A d \in Cells : d # c => table'[d] = table[d]
      BY <3>1 DEF BaseInv, TypeOK
    <3>6. Settled \subseteq Cells
      BY DEF Settled, Occupied
    <3> QED BY <2>1, <3>1, <3>4, <3>5, <3>6 DEF Holders
  <2> QED BY <2>2, <2>3
<1>9. CASE Write(t)
  <2>1. /\ call[t].pc = "write" /\ call[t].node.key # k /\ call[t].to \in Cells
        /\ table' = [table EXCEPT ![call[t].to] = call[t].node]
        /\ IF call[t].new THEN table[call[t].to] = Vacant
           ELSE table[call[t].to].key = call[t].node.key
    BY <1>9, WriteGood
  <2>2. /\ table'[call[t].to].key # k /\ table[call[t].to].key # k
        /\ \A d \in Cells : d # call[t].to => table'[d] = table[d]
    BY <2>1, CuckooMapAssumption DEF BaseInv, TypeOK, Vacant, EMPTY
  <2>3. Settled' = Settled \cup {call[t].to} \/ Settled' = Settled
    BY <1>9, WriteSettled
  <2>4. Settled \subseteq Cells
    BY DEF Settled, Occupied
  <2> QED BY <2>2, <2>3, <2>4 DEF Holders
<1>10. CASE Move(t)
  <2>1. CASE table' = table
    <3>1. Others(t) /\ call[t].pc = "move" /\ call'[t].pc # "clear"
      <4>1. Others(t) /\ call[t].pc = "move"
        BY <1>10, MoveGood DEF GoodStep
      <4>2. \/ call'[t].pc = "lock"
            \/ /\ table[Dest(t)] = Vacant /\ table[From(t)] # Vacant /\ Dest(t) \in Cells
               /\ table' = [table EXCEPT ![Dest(t)] = table[From(t)]]
        BY <1>10, MoveGood
      <4> QED BY <2>1, <4>1, <4>2 DEF BaseInv, TypeOK
    <3> QED BY <1>1, <2>1, <3>1, QuietStep
  <2>2. CASE table' # table
    <3>1. PICK c, d : c = From(t) /\ d = Dest(t)
      OBVIOUS
    <3>2. Settled' = (Settled \ {c}) \cup {d} /\ c \in Settled /\ d \notin Settled
      BY <1>10, <2>2, <3>1, MoveSettled
    <3>3. /\ c \in Cells /\ d \in Cells /\ table[d] = Vacant
          /\ table' = [table EXCEPT ![d] = table[c]]
      BY <1>10, <2>2, <3>1, MoveGood
    <3>4. table'[d] = table[c] /\ \A e \in Cells : e # d => table'[e] = table[e]
      BY <3>3 DEF BaseInv, TypeOK
    <3>5. Settled \subseteq Cells
      BY DEF Settled, Occupied
    <3>6. CASE table[c].key = k
      <4>1. c \in Holders(k) /\ Holders(k)' = (Holders(k) \ {c}) \cup {d}
        BY <3>2, <3>3, <3>4, <3>5, <3>6, HoldersFacts
      <4>2. \A e \in Holders(k) \ {c} : table'[e] = table[e]
        BY <3>2, <3>4, <3>5 DEF Holders
      <4> QED BY <3>3, <3>4, <4>1, <4>2
    <3>7. CASE table[c].key # k
      <4>1. \A e : e \in Holders(k)' <=> e \in Holders(k)
        BY <3>2, <3>4, <3>5, <3>7, HoldersFacts
      <4>3. Holders(k)' = Holders(k)
        BY <4>1
      <4>4. \A e \in Holders(k) : e # d /\ e \in Cells
        BY <3>2, <3>5, HoldersFacts
      <4> QED BY <3>4, <4>3, <4>4
    <3> QED BY <3>6, <3>7
  <2> QED BY <2>1, <2>2
<1>11. CASE Clear(t)
  <2>1. Settled' = Settled /\ From(t) \in Cells /\ table' = [table EXCEPT ![From(t)] = Vacant]
    BY <1>11, ClearSettled, ClearGood
  <2>2. From(t) \notin Settled
    BY <1>11 DEF Clear, Settled, Moving, From
  <2>3. \A c \in Settled : table'[c] = table[c]
    BY <2>1, <2>2 DEF BaseInv, TypeOK, Settled, Occupied
  <2> QED BY <2>1, <2>3 DEF Holders
<1> QED BY <1>2, <1>3, <1>4, <1>5, <1>6, <1>7, <1>8, <1>9, <1>10, <1>11 DEF Step

PutOK(k) ==
    /\ stored[k] = Nothing => Holders(k) = {}
    /\ stored[k] \in Vals => \E c \in Cells : Holders(k) = {c} /\ table[c].val = stored[k]

LEMMA PutParts == HoldsWhatWasPut <=> \A k \in Keys : PutOK(k)
BY HoldersFacts DEF HoldsWhatWasPut, PutOK

LEMMA PutStep ==
    ASSUME BaseInv, FreshInv, HoldsWhatWasPut, NEW t \in Threads, Begin(t) \/ Step(t), Record(t)
    PROVE  HoldsWhatWasPut'
<1>1. \A k \in Keys : PutOK(k)
  BY PutParts
<1> SUFFICES ASSUME NEW k \in Keys, stored'[k] # Raced PROVE PutOK(k)'
  <2>1. \A x \in Keys : stored'[x] = Raced => PutOK(x)'
    BY CuckooMapAssumption DEF PutOK
  <2>2. \A x \in Keys : PutOK(x)'
    BY <2>1
  <2> QED BY <2>2, HoldersFacts DEF HoldsWhatWasPut, PutOK
<1>2. PutOK(k) /\ stored[k] \in Vals \cup {Nothing} /\ stored[k] # Raced
  BY <1>1 DEF Record, BaseInv, TypeOK
<1>3. CASE call[t].node.key = k /\ call[t].pc = "write"
  <2>1. PICK m : m = call[t]
    OBVIOUS
  <2>2. Write(t)
    BY <1>3, BeginGood, AcquireGood, ReaderGood, removeGood, CheckGood, SearchGood, PlaceGood,
       MoveGood, ClearGood DEF Step
  <2>3. /\ m.to \in Cells /\ m.node \in Node /\ m.new \in BOOLEAN
        /\ table' = [table EXCEPT ![m.to] = m.node]
        /\ IF m.new THEN table[m.to] = Vacant ELSE table[m.to].key = k
    BY <1>3, <2>1, <2>2, WriteGood
  <2>4. stored'[k] = m.node.val /\ m.node.val \in Vals /\ m.node.key = k
    BY <1>2, <1>3, <2>1, <2>3 DEF Record, Node
  <2>5. IF m.new THEN Settled' = Settled \cup {m.to} ELSE Settled' = Settled
    BY <2>1, <2>2, WriteSettled
  <2>6. m.to \notin Moving
    <3>1. m.to[1] \in Held(t)
      BY <1>3, <2>1, CallParts DEF LockOK, Needs, Aim
    <3> QED BY <1>3, <2>1, <2>3, <3>1, OwnNotMoving
  <2>7. table'[m.to] = m.node /\ \A d \in Cells : d # m.to => table'[d] = table[d]
    BY <2>3 DEF BaseInv, TypeOK
  <2>8. Settled \subseteq Cells
    BY DEF Settled, Occupied
  <2>9. Holders(k) \subseteq {m.to} /\ m.to \in Settled'
    <3>1. CASE m.new
      <4>1. t \in Inserting(k)
        BY <1>3 DEF FreshInv, Inserting, Aim, InsertPCs
      <4>2. ~Present(k)
        BY <1>2, <2>1, <3>1, <4>1 DEF FreshInv, Unseen
      <4> QED BY <2>5, <2>8, <3>1, <4>2 DEF Holders, Present
    <3>2. CASE ~m.new
      <4>1. m.to \in Settled /\ table[m.to].key = k
        BY <2>3, <2>6, <3>2, CuckooMapAssumption DEF Settled, Occupied, Vacant, EMPTY
      <4>2. m.to \in Holders(k)
        BY <4>1 DEF Holders
      <4>3. stored[k] # Nothing
        BY <1>2, <4>2 DEF PutOK
      <4>4. \E c \in Cells : Holders(k) = {c}
        BY <1>2, <4>3 DEF PutOK
      <4> QED BY <2>5, <3>2, <4>1, <4>2, <4>4
    <3> QED BY <2>3, <3>1, <3>2
  <2>10. \A c : c \in Holders(k)' <=> c = m.to
    BY <2>3, <2>4, <2>5, <2>7, <2>8, <2>9, HoldersFacts
  <2>11. Holders(k)' = {m.to}
    BY <2>10
  <2> QED BY <2>3, <2>4, <2>7, <2>11, CuckooMapAssumption DEF PutOK
<1>4. CASE call[t].node.key = k /\ call[t].pc = "erase"
  <2>1. remove(t)
    BY <1>4, BeginGood, AcquireGood, ReaderGood, WriteGood, CheckGood, SearchGood, PlaceGood,
       MoveGood, ClearGood DEF Step
  <2>2. stored'[k] = Nothing
    BY <1>2, <1>4 DEF Record
  <2>3. Others(t) /\ call'[t].pc = "idle"
    BY <2>1, removeGood, IdleFacts DEF GoodStep
  <2>4. Holders(k)' = {}
    <3>1. CASE table' = table
      <4>1. PICK homes : homes = {f \in {1, 2} : SlotsWith(hash(k, f), k) # {}}
        OBVIOUS
      <4>2. CASE homes = {}
        <5>1. ~Present(k)
          BY <1>4, <4>1, <4>2, CheckedPresent
        <5> QED BY <3>1, <5>1, HoldersFacts DEF Present
      <4>3. CASE homes # {}
        <5>1. PICK f : f = Min(homes)
          OBVIOUS
        <5>2. f \in homes
          BY <4>1, <4>3, <5>1, FirstHash
        <5>3. SlotsWith(hash(k, f), k) # {} /\ hash(k, f) \in Indices
          BY <4>1, <5>2, HashFacts
        <5>4. FirstSlot(hash(k, f), k) \in Cells /\ table[FirstSlot(hash(k, f), k)].key = k
          BY <5>3, FirstSlotFacts
        <5>5. table' = [table EXCEPT ![FirstSlot(hash(k, f), k)] = Vacant]
          BY <1>4, <2>1, <4>1, <4>3, <5>1 DEF remove
        <5>6. Vacant.key # k
          BY CuckooMapAssumption DEF Vacant, EMPTY
        <5> QED BY <3>1, <5>4, <5>5, <5>6 DEF BaseInv, TypeOK
      <4> QED BY <4>2, <4>3
    <3>2. CASE table' # table
      <4>1. PICK c \in Cells : /\ c[1] \in Held(t) /\ table[c].key = k
                               /\ table' = [table EXCEPT ![c] = Vacant]
        BY <1>4, <2>1, <3>2, removeGood
      <4>2. table[c] # Vacant
        BY <4>1, CuckooMapAssumption DEF Vacant, EMPTY
      <4>3. Settled' = Settled \ {c} /\ c \in Settled
        BY <1>4, <2>3, <4>1, <4>2, RemoveSettled
      <4>4. c \in Holders(k)
        BY <4>1, <4>3 DEF Holders
      <4>5. Holders(k) = {c}
        BY <1>2, <4>4 DEF PutOK
      <4>6. \A d \in Cells : d # c => table'[d] = table[d]
        BY <4>1 DEF BaseInv, TypeOK
      <4>7. Settled \subseteq Cells
        BY DEF Settled, Occupied
      <4>8. \A d : d \notin Holders(k)'
        BY <4>3, <4>5, <4>6, <4>7, HoldersFacts
      <4> QED BY <4>8
    <3> QED BY <3>1, <3>2
  <2> QED BY <2>2, <2>4, CuckooMapAssumption DEF PutOK
<1>5. CASE call[t].pc \in {"write", "erase"} => call[t].node.key # k
  <2>1. stored'[k] = stored[k]
    BY <1>5 DEF Record
  <2>2. CASE Holders(k)' = Holders(k) /\ \A c \in Holders(k) : table'[c] = table[c]
    BY <1>2, <2>1, <2>2 DEF PutOK
  <2>3. ASSUME NEW c \in Holders(k), NEW d \in Cells,
               Holders(k)' = (Holders(k) \ {c}) \cup {d}, table'[d] = table[c]
        PROVE  PutOK(k)'
    <3>1. stored[k] \in Vals
      BY <1>2, <2>3 DEF PutOK
    <3>2. Holders(k) = {c} /\ table[c].val = stored[k]
      BY <1>2, <2>3, <3>1 DEF PutOK
    <3>3. Holders(k)' = {d}
      BY <2>3, <3>2
    <3> QED BY <2>1, <2>3, <3>1, <3>2, <3>3, CuckooMapAssumption DEF PutOK
  <2> QED BY <1>5, <2>2, <2>3, HoldersStay
<1> QED BY <1>3, <1>4, <1>5

(* As long as no two inserts of a key have been under way together, the    *)
(* key is in exactly one cell with the value that was put last, or in none *)
(* after a remove, whatever the other threads insert, displace and remove: *)
(* a search, a path that has to be tried again or an insert that gives up  *)
(* neither loses a key nor stores it twice.                                *)
THEOREM TheMapIsAFunction == Spec => []HoldsWhatWasPut
<1> DEFINE PutInv == BaseInv /\ FreshInv /\ HoldsWhatWasPut
<1>1. Init => PutInv
  <2> SUFFICES ASSUME Init PROVE FreshInv /\ HoldsWhatWasPut
    BY InitBase
  <2>1. \A t \in Threads : call[t] = Idle
    BY DEF Init
  <2>2. Idle.op = "none" /\ Aim(Idle) = "idle"
    BY DEF Idle, Aim
  <2>3. FreshInv
    BY <2>1, <2>2 DEF FreshInv, Inserting, InsertPCs
  <2>4. \A c \in Cells, k \in Keys : table[c].key # k
    BY CuckooMapAssumption DEF Init, Vacant, EMPTY
  <2>5. \A k \in Keys : stored[k] \notin Vals
    BY CuckooMapAssumption DEF Init
  <2> QED BY <2>3, <2>4, <2>5 DEF HoldsWhatWasPut
<1>2. PutInv /\ [Next]_vars => PutInv'
  <2> SUFFICES ASSUME PutInv, [Next]_vars PROVE FreshInv' /\ HoldsWhatWasPut'
    BY NextBase
  <2>1. CASE Next
    BY <2>1, FreshStep, PutStep DEF Next
  <2>2. CASE UNCHANGED vars
    BY <2>2 DEF vars, FreshInv, Inserting, Present, HoldsWhatWasPut, Moving
  <2> QED BY <2>1, <2>2
<1>3. PutInv => HoldsWhatWasPut
  OBVIOUS
<1> QED BY <1>1, <1>2, <1>3, PTL DEF Spec

-----------------------------------------------------------------------------
\* The readers.  Reader m has still to look at a copy of its key in cells that
\* is not one of those about to be cleared, moving.
Sees(m, cells, moving) ==
    \E c \in Cells : c \notin moving /\ cells[c].key = m.node.key /\ Ahead(m, c)

LEMMA WrapAround ==
    \A w \in Nat \ {0} : \A s \in 0 .. w - 1 : s % w = s /\ (w + s) % w = s
<1> SUFFICES ASSUME NEW w \in Nat \ {0}, NEW s \in 0 .. w - 1
             PROVE  s % w = s /\ (w + s) % w = s
  OBVIOUS
<1>1. s % w = s
  OBVIOUS
<1>2. (w + s) % w = s
  OBVIOUS
<1> QED BY <1>1, <1>2

\* The copies ahead of a reader that reads slot by slot.
Unread(k, p, c) ==
    \/ c[1] = hash(k, 1) /\ c[2] >= p
    \/ c[1] = hash(k, 2) /\ WIDTH + c[2] >= p

LEMMA ScansOn ==
    ASSUME NEW k \in Keys, NEW p \in 0 .. 2 * WIDTH - 1, NEW c \in Cells, table[c].key = k,
           Unread(k, p, c),
           table[<<hash(k, IF p < WIDTH THEN 1 ELSE 2), p % WIDTH>>].key # k
    PROVE  Unread(k, p + 1, c)
<1>1. WIDTH \in Nat \ {0} /\ c[2] \in 0 .. WIDTH - 1 /\ c = <<c[1], c[2]>>
  BY CuckooMapAssumption, CellFacts
<1>2. c[2] % WIDTH = c[2] /\ (WIDTH + c[2]) % WIDTH = c[2]
  BY <1>1, WrapAround
<1>3. CASE c[1] = hash(k, 1) /\ c[2] >= p
  <2>1. c[2] # p
    <3> SUFFICES ASSUME c[2] = p PROVE FALSE
      OBVIOUS
    <3>1. p < WIDTH /\ p % WIDTH = c[2]
      BY <1>1, <1>2
    <3> QED BY <1>1, <1>3, <3>1
  <2> QED BY <1>1, <1>3, <2>1 DEF Unread
<1>4. CASE c[1] = hash(k, 2) /\ WIDTH + c[2] >= p
  <2>1. WIDTH + c[2] # p
    <3> SUFFICES ASSUME WIDTH + c[2] = p PROVE FALSE
      OBVIOUS
    <3>1. ~(p < WIDTH) /\ p % WIDTH = c[2]
      BY <1>1, <1>2
    <3> QED BY <1>1, <1>4, <3>1
  <2> QED BY <1>1, <1>4, <2>1 DEF Unread
<1> QED BY <1>3, <1>4 DEF Unread

\* A reader that begins: a copy about to be cleared has a twin that stays.
LEMMA SeesAtStart ==
    ASSUME BaseInv, NEW m, m.node.key \in Keys, m.pc \in {"contains", "get"}, m.pos = 0,
           Present(m.node.key)
    PROVE  Sees(m, table, Moving)
<1>1. PICK k : k = m.node.key
  OBVIOUS
<1>2. PICK c \in Cells : table[c].key = k
  BY <1>1 DEF Present
<1>3. PICK d \in Cells : table[d].key = k /\ d \notin Moving
  <2>1. CASE c \notin Moving
    BY <1>2, <2>1
  <2>2. CASE c \in Moving
    <3>1. PICK u \in Threads : call[u].pc = "clear" /\ c = From(u)
      BY <2>2, MovingFacts
    <3>2. PICK n, q : q = call[u] /\ n = Len(q.path)
      OBVIOUS
    <3>3. q \in Calls /\ CallOK(q) /\ LockOK(q, Held(u)) /\ Knows(q, table) /\ q.pc = "clear"
      BY <3>1, <3>2, CallParts
    <3>4. /\ q.path \in Seq(Cells) /\ n \in Nat /\ n >= 2
          /\ From(u) = q.path[n - 1] /\ Dest(u) = q.path[n]
      BY <3>2, <3>3 DEF CallOK, Calls, From, Dest, Aim
    <3>5. Dest(u) \in Cells
      BY <3>2, <3>4
    <3>6. Dest(u)[1] \in Held(u) /\ table[Dest(u)] = table[From(u)] /\ Dest(u) # From(u)
      BY <3>2, <3>3, <3>4 DEF LockOK, Needs, Aim, Knows
    <3>7. Dest(u) \notin Moving
      BY <3>5, <3>6, OwnNotMoving
    <3> QED BY <1>2, <3>1, <3>5, <3>6, <3>7
  <2> QED BY <2>1, <2>2
<1>4. d[1] \in Homes(k)
  BY <1>1, <1>3, InHome
<1>5. d[2] \in Nat /\ WIDTH \in Nat
  BY CellFacts, CuckooMapAssumption
<1>6. Ahead(m, d)
  BY <1>1, <1>4, <1>5 DEF Ahead, Homes
<1> QED BY <1>1, <1>3, <1>6 DEF Sees

\* A remote reader that looks into the second bucket the map knows.
LooksRight(m) ==
    m.pc = "get" /\ m.pos = 1 => remoteHash(m.node.key, 2) = hash(m.node.key, 2)

\* A reader that goes on has not passed its copy.
LEMMA SeesOn ==
    ASSUME BaseInv, NEW t \in Threads, (contains(t) /\ ~Found(t)) \/ (get(t) /\ ~Fetched(t)),
           Sees(call[t], table, Moving), LooksRight(call[t])
    PROVE  /\ call'[t] # Idle
           /\ Sees(call'[t], table, Moving)
<1>1. PICK m, k : m = call[t] /\ k = m.node.key
  OBVIOUS
<1>2. m \in Calls /\ CallOK(m) /\ m.pc \in {"contains", "get"} /\ k \in Keys
  BY <1>1, CallParts DEF contains, get, CallOK
<1>3. PICK c \in Cells : c \notin Moving /\ table[c].key = k /\ Ahead(m, c)
  BY <1>1 DEF Sees
<1>4. c[1] \in Homes(k) /\ c = <<c[1], c[2]>> /\ c[2] \in 0 .. WIDTH - 1
  BY <1>2, <1>3, InHome, CellFacts
<1>5. \/ call'[t] = Idle
      \/ call'[t].pc = m.pc /\ call'[t].node = m.node /\ call'[t].pos = m.pos + 1
  BY <1>1, ReaderGood
<1>6. call'[t] = Idle => (m.pc = "contains" => LastRead(t)) /\ (m.pc = "get" => m.pos = 1)
  <2> SUFFICES ASSUME call'[t] = Idle
               PROVE  (m.pc = "contains" => LastRead(t)) /\ (m.pc = "get" => m.pos = 1)
    OBVIOUS
  <2>1. TypeOK /\ m.pc # "idle"
    BY <1>2 DEF BaseInv
  <2>2. ASSUME Become(t, [m EXCEPT !.pos = @ + 1]) PROVE FALSE
    <3>1. [m EXCEPT !.pos = @ + 1].pc = m.pc
      BY <1>2 DEF Calls
    <3> QED BY <1>2, <2>1, <2>2, <3>1, IdleFacts DEF Become, TypeOK
  <2> QED BY <1>1, <1>2, <2>2 DEF contains, get
<1>7. CASE m.pc = "contains"
  <2>1. m.pos \in 0 .. 2 * WIDTH - 1 /\ Unread(k, m.pos, c)
    BY <1>1, <1>2, <1>3, <1>7 DEF Calls, Ahead, Unread
  <2>2. table[<<hash(k, IF m.pos < WIDTH THEN 1 ELSE 2), m.pos % WIDTH>>].key # k
    BY <1>1, <1>7 DEF Found, NextRead, contains, get
  <2>3. Unread(k, m.pos + 1, c)
    BY <1>2, <1>3, <2>1, <2>2, ScansOn
  <2>4. ~LastRead(t)
    <3> SUFFICES ASSUME m.pos = 2 * WIDTH - 1 PROVE FALSE
      BY <1>1 DEF LastRead
    <3>1. WIDTH \in Nat \ {0}
      BY CuckooMapAssumption
    <3> QED BY <1>4, <2>3, <3>1 DEF Unread
  <2>5. call'[t].pc = m.pc /\ call'[t].node = m.node /\ call'[t].pos = m.pos + 1
    BY <1>5, <1>6, <1>7, <2>4
  <2>6. Ahead(call'[t], c)
    BY <1>1, <1>7, <2>3, <2>5 DEF Ahead, Unread
  <2> QED BY <1>1, <1>3, <1>6, <1>7, <2>4, <2>5, <2>6 DEF Sees
<1>8. CASE m.pc = "get"
  <2>1. m.pos \in {0, 1} /\ SlotsWith(hash(k, m.pos + 1), k) = {}
    <3>1. m.pos \in {0, 1} /\ SlotsWith(remoteHash(k, m.pos + 1), k) = {}
      BY <1>1, <1>2, <1>8 DEF CallOK, Fetched, contains, get
    <3>2. CASE m.pos = 0
      BY <3>1, <3>2 DEF remoteHash, hash
    <3>3. CASE m.pos = 1
      BY <1>1, <1>8, <3>1, <3>3 DEF LooksRight
    <3> QED BY <3>1, <3>2, <3>3
  <2>2. c[2] \in SlotsWith(c[1], k)
    BY <1>3, <1>4 DEF SlotsWith
  <2>3. c[1] # hash(k, m.pos + 1)
    BY <2>1, <2>2
  <2>4. m.pos = 0 /\ c[1] = hash(k, 2)
    <3>1. m.pos = 0 \/ c[1] = hash(k, 2)
      BY <1>1, <1>3, <1>8 DEF Ahead
    <3>2. CASE m.pos = 1
      BY <2>3, <3>1, <3>2
    <3>3. CASE m.pos = 0
      BY <1>4, <2>3, <3>3 DEF Homes
    <3> QED BY <2>1, <3>2, <3>3
  <2>5. call'[t].pc = m.pc /\ call'[t].node = m.node /\ call'[t] # Idle
    BY <1>2, <1>5, <1>6, <1>8, <2>4, IdleFacts
  <2>6. Ahead(call'[t], c)
    BY <1>1, <1>8, <2>4, <2>5 DEF Ahead
  <2> QED BY <1>1, <1>3, <2>5, <2>6 DEF Sees
<1> QED BY <1>2, <1>7, <1>8

\* What the writers do to a reader m whose copy is in c.
LEMMA SeesRemove ==
    ASSUME BaseInv, NEW t \in Threads, remove(t), table' # table,
           NEW m, m.node.key \in Keys, m.pc \in {"contains", "get"},
           m.pc = "contains" => m.pos \in Nat,
           Sees(m, table, Moving), Present(m.node.key)'
    PROVE  Sees(m, table', Moving')
<1>1. PICK k : k = m.node.key
  OBVIOUS
<1>2. PICK c \in Cells : c \notin Moving /\ table[c].key = k /\ Ahead(m, c)
  BY <1>1 DEF Sees
<1>3. PICK d \in Cells :
         /\ d[1] \in Held(t) /\ table[d].key = call[t].node.key
         /\ table' = [table EXCEPT ![d] = Vacant]
         /\ Homes(table[d].key) \subseteq Held(t)
         /\ d[1] = hash(table[d].key, 1) \/ SlotsWith(hash(table[d].key, 1), table[d].key) = {}
         /\ \A s \in 0 .. WIDTH - 1 : table[<<d[1], s>>].key = table[d].key => d[2] <= s
  BY removeGood
<1>4. Others(t) /\ call[t].pc = "erase" /\ call'[t].pc = "idle" /\ call[t].node.key \in Keys
  BY removeGood, IdleFacts, CallParts DEF GoodStep, CallOK
<1>5. Moving' = Moving
  BY <1>4, MovingStep
<1>6. table'[d] = Vacant /\ \A e \in Cells : e # d => table'[e] = table[e]
  BY <1>3 DEF BaseInv, TypeOK
<1>7. CASE c # d
  BY <1>1, <1>2, <1>5, <1>6, <1>7 DEF Sees
<1>8. CASE c = d
  <2>1. PICK e \in Cells : table'[e].key = k
    BY <1>1 DEF Present
  <2>2. e # d /\ table[e].key = k
    BY <1>1, <1>6, <2>1, CuckooMapAssumption DEF Vacant, EMPTY
  <2>3. e[1] \in Homes(k) /\ d[1] \in Homes(k)
    BY <1>1, <1>2, <1>8, <2>2, InHome
  <2>4. e \notin Moving
    BY <1>2, <1>3, <1>4, <1>8, <2>3, OwnNotMoving
  <2>5. /\ e = <<e[1], e[2]>> /\ e[2] \in 0 .. WIDTH - 1 /\ d[2] \in 0 .. WIDTH - 1
        /\ WIDTH \in Nat \ {0}
    BY CellFacts, CuckooMapAssumption
  <2>6. e[1] = d[1] => d[2] <= e[2]
    BY <1>2, <1>3, <1>8, <2>2, <2>5
  <2>7. d[1] = hash(k, 1) \/ e[1] # hash(k, 1)
    BY <1>2, <1>3, <1>8, <2>2, <2>5 DEF SlotsWith
  <2>8. Ahead(m, e)
    <3>1. CASE e[1] = d[1]
      BY <1>1, <1>2, <1>8, <2>5, <2>6, <3>1 DEF Ahead
    <3>2. CASE e[1] # d[1]
      <4>1. d[1] = hash(k, 1) /\ e[1] = hash(k, 2)
        BY <2>3, <2>7, <3>2 DEF Homes
      <4>2. m.pc = "contains" => d[2] >= m.pos
        BY <1>1, <1>2, <1>8, <3>2, <4>1 DEF Ahead
      <4> QED BY <1>1, <2>5, <4>1, <4>2 DEF Ahead
    <3> QED BY <3>1, <3>2
  <2> QED BY <1>1, <1>5, <2>1, <2>4, <2>8 DEF Sees
<1> QED BY <1>7, <1>8

LEMMA SeesWrite ==
    ASSUME BaseInv, NEW t \in Threads, Write(t), NEW m, m.node.key \in Keys,
           Sees(m, table, Moving)
    PROVE  Sees(m, table', Moving')
<1>1. PICK c \in Cells : c \notin Moving /\ table[c].key = m.node.key /\ Ahead(m, c)
  BY DEF Sees
<1>2. Moving' = Moving
  BY WriteSettled
<1>3. PICK d \in Cells : d = call[t].to
  BY WriteGood
<1>4. /\ table'[d] = call[t].node /\ \A e \in Cells : e # d => table'[e] = table[e]
      /\ IF call[t].new THEN table[d] = Vacant ELSE table[d].key = call[t].node.key
  BY <1>3, WriteGood DEF BaseInv, TypeOK
<1>5. c = d => table'[c].key = m.node.key
  BY <1>1, <1>4, CuckooMapAssumption DEF Vacant, EMPTY
<1> QED BY <1>1, <1>2, <1>4, <1>5 DEF Sees

LEMMA SeesMove ==
    ASSUME BaseInv, NEW t \in Threads, Move(t), table' # table,
           NEW m, m.node.key \in Keys, m.pc \in {"contains", "get"},
           m.pc = "contains" => m.pos \in Nat,
           Sees(m, table, Moving), ~Shuffled(m.node.key)
    PROVE  Sees(m, table', Moving')
<1>1. PICK k, from, dest : k = m.node.key /\ from = From(t) /\ dest = Dest(t)
  OBVIOUS
<1>2. PICK c \in Cells : c \notin Moving /\ table[c].key = k /\ Ahead(m, c)
  BY <1>1 DEF Sees
<1>3. /\ table[dest] = Vacant /\ table[from] # Vacant
      /\ hash(table[from].key, 2) = dest[1]
      /\ from \in Cells /\ dest \in Cells
      /\ table' = [table EXCEPT ![dest] = table[from]]
  BY <1>1, MoveGood
<1>4. Moving' = Moving \cup {from} /\ dest \notin Moving
  BY <1>1, MoveSettled
<1>5. table'[dest] = table[from] /\ \A e \in Cells : e # dest => table'[e] = table[e]
  BY <1>3 DEF BaseInv, TypeOK
<1>6. c # dest /\ from # dest /\ table[dest].key # k
  BY <1>1, <1>2, <1>3, CuckooMapAssumption DEF Vacant, EMPTY
<1>7. CASE c # from
  BY <1>1, <1>2, <1>4, <1>5, <1>6, <1>7 DEF Sees
<1>8. CASE c = from
  <2>1. table'[dest].key = k /\ dest[1] = hash(k, 2) /\ c[1] \in Homes(k)
    BY <1>1, <1>2, <1>3, <1>5, <1>8, InHome
  <2>2. /\ dest = <<dest[1], dest[2]>> /\ dest[2] \in 0 .. WIDTH - 1
        /\ c[2] \in 0 .. WIDTH - 1 /\ WIDTH \in Nat \ {0}
    BY <1>3, CellFacts, CuckooMapAssumption
  <2>3. c[1] # dest[1]
    <3> SUFFICES ASSUME c[1] = dest[1] PROVE FALSE
      OBVIOUS
    <3>1. table[<<c[1], dest[2]>>].key # k /\ table'[<<c[1], dest[2]>>].key = k
      BY <1>6, <2>1, <2>2
    <3>2. Shuffled(k)
      BY <1>2, <2>2, <3>1 DEF Shuffled
    <3> QED BY <1>1, <3>2
  <2>4. c[1] = hash(k, 1)
    BY <2>1, <2>3 DEF Homes
  <2>5. m.pc = "contains" => c[2] >= m.pos
    BY <1>1, <1>2, <2>1, <2>3 DEF Ahead
  <2>6. Ahead(m, dest)
    BY <1>1, <2>1, <2>2, <2>5 DEF Ahead
  <2>7. dest \notin Moving'
    BY <1>4, <1>6
  <2> QED BY <1>1, <1>3, <2>1, <2>6, <2>7 DEF Sees
<1> QED BY <1>7, <1>8

LEMMA SeesClear ==
    ASSUME BaseInv, NEW t \in Threads, Clear(t), NEW m, Sees(m, table, Moving)
    PROVE  Sees(m, table', Moving')
<1>1. PICK c \in Cells : c \notin Moving /\ table[c].key = m.node.key /\ Ahead(m, c)
  BY DEF Sees
<1>2. Moving' = Moving \ {From(t)}
  BY ClearSettled
<1>3. From(t) \in Moving
  BY ClearGood DEF Moving, From
<1>4. table'[c] = table[c]
  BY <1>1, <1>3, ClearGood DEF BaseInv, TypeOK
<1> QED BY <1>1, <1>2, <1>4 DEF Sees

LEMMA SeesOther ==
    ASSUME BaseInv, NEW t \in Threads, Begin(t) \/ Step(t),
           NEW m, m.node.key \in Keys, m.pc \in {"contains", "get"},
           m.pc = "contains" => m.pos \in Nat,
           Sees(m, table, Moving), Present(m.node.key)', ~Shuffled(m.node.key)
    PROVE  Sees(m, table', Moving')
<1>1. ASSUME Others(t), table' = table, call[t].pc # "clear", call'[t].pc # "clear"
      PROVE  Sees(m, table', Moving')
  BY <1>1, QuietStep
<1>2. CASE Begin(t)
  BY <1>1, <1>2, BeginGood DEF GoodStep
<1>3. CASE Acquire(t)
  BY <1>1, <1>3, AcquireGood DEF GoodStep
<1>4. CASE contains(t) \/ get(t)
  BY <1>1, <1>4, ReaderGood, IdleFacts DEF GoodStep
<1>5. CASE Check(t)
  BY <1>1, <1>5, CheckGood DEF GoodStep
<1>6. CASE SearchFinds(t) \/ SearchFails(t)
  BY <1>1, <1>6, SearchGood DEF GoodStep
<1>7. CASE Place(t)
  BY <1>1, <1>7, PlaceGood DEF GoodStep
<1>8. CASE remove(t)
  <2>1. Others(t) /\ call[t].pc = "erase" /\ call'[t].pc = "idle"
    BY <1>8, removeGood, IdleFacts DEF GoodStep
  <2> QED BY <1>1, <1>8, <2>1, SeesRemove
<1>9. CASE Write(t)
  BY <1>9, SeesWrite
<1>10. CASE Move(t)
  <2>1. CASE table' = table
    <3>1. Others(t) /\ call[t].pc = "move"
      BY <1>10, MoveGood DEF GoodStep
    <3>2. \/ call'[t].pc = "lock"
          \/ /\ table[Dest(t)] = Vacant /\ table[From(t)] # Vacant /\ Dest(t) \in Cells
             /\ table' = [table EXCEPT ![Dest(t)] = table[From(t)]]
      BY <1>10, MoveGood
    <3>3. call'[t].pc # "clear"
      BY <2>1, <3>1, <3>2 DEF BaseInv, TypeOK
    <3> QED BY <1>1, <2>1, <3>1, <3>3
  <2>2. CASE table' # table
    BY <1>10, <2>2, SeesMove
  <2> QED BY <2>1, <2>2
<1>11. CASE Clear(t)
  BY <1>11, SeesClear
<1> QED BY <1>2, <1>3, <1>4, <1>5, <1>6, <1>7, <1>8, <1>9, <1>10, <1>11 DEF Step

SightInv == BaseInv /\ SeenInv

\* A steady reader's step is one of another thread or its next read.
LEMMA NextSeen == SightInv /\ [Next]_vars => SightInv'
<1> SUFFICES ASSUME BaseInv, SeenInv, [Next]_vars PROVE SeenInv'
  BY NextBase DEF SightInv
<1>1. CASE UNCHANGED vars
  BY <1>1 DEF vars, SeenInv, Moving
<1>2. CASE Next
  <2>1. PICK t \in Threads : Begin(t) \/ Step(t)
    BY <1>2 DEF Next
  <2>2. Observe /\ BaseInv' /\ Others(t)
    BY <1>2, <2>1, NextBase, StepGood DEF Next, GoodStep
  <2> SUFFICES ASSUME NEW u \in steady' PROVE Sees(call'[u], table', Moving')
    BY DEF SeenInv, Sees
  <2>3. /\ u \in Threads /\ call'[u].pc \in {"contains", "get"} /\ Present(call[u].node.key)'
        /\ \/ call[u].pc = "idle"
           \/ u \in steady /\ ~Shuffled(call[u].node.key)
    BY <2>2 DEF Observe, SeesKey
  <2>4. CallOK(call'[u]) /\ call'[u] \in Calls
    BY <2>2, <2>3 DEF BaseInv, CallInv, TypeOK
  <2>5. PICK m, r, k : m = call[u] /\ r = call'[u] /\ k = r.node.key
    OBVIOUS
  <2>6. k \in Keys /\ Present(k)'
    BY <2>2, <2>3, <2>4, <2>5 DEF CallOK, Observe, SeesKey
  <2>7. CASE m.pc = "idle"
    <3>1. u = t /\ Begin(t)
      <4>1. u = t
        BY <2>2, <2>3, <2>5, <2>7 DEF Others
      <4>2. ~Step(t)
        BY <2>5, <2>7, <4>1, AcquireGood, ReaderGood, removeGood, CheckGood, WriteGood,
           SearchGood, PlaceGood, MoveGood, ClearGood DEF Step
      <4> QED BY <2>1, <4>1, <4>2
    <3>2. /\ table' = table /\ r.pos = 0 /\ call[t].pc = "idle"
          /\ call'[t].pc \in {"contains", "get"}
      BY <2>3, <2>5, <3>1, BeginGood
    <3>3. Moving' = Moving
      BY <2>2, <3>2, QuietStep
    <3>4. Present(k)
      BY <2>6, <3>2 DEF Present
    <3>5. Sees(r, table, Moving)
      BY <2>3, <2>5, <2>6, <3>2, <3>4, SeesAtStart
    <3> QED BY <2>5, <3>2, <3>3, <3>5
  <2>8. CASE m.pc # "idle" /\ u = t
    <3>1. Sees(m, table, Moving) /\ m.pc \in {"contains", "get"}
      BY <2>3, <2>5, <2>8 DEF SeenInv, Sees, Ahead
    <3>2. contains(t) \/ get(t)
      BY <2>1, <2>5, <2>8, <3>1, BeginGood, AcquireGood, removeGood, CheckGood, WriteGood,
         SearchGood, PlaceGood, MoveGood, ClearGood DEF Step
    <3>3. r # Idle /\ table' = table /\ call[t].pc # "clear" /\ call'[t].pc # "clear"
      BY <2>3, <2>5, <2>8, <3>2, ReaderGood, IdleFacts
    <3>4. (contains(t) /\ ~Found(t)) \/ (get(t) /\ ~Fetched(t))
      <4>1. ASSUME Become(t, Idle) PROVE FALSE
        BY <2>5, <2>8, <3>3, <4>1, BecomeFacts, IdleFacts DEF BaseInv
      <4> QED BY <3>2, <4>1 DEF contains, get
    <3>5. Sees(call'[t], table, Moving)
      <4>1. call[t].pc = "get" => call[t].pos # 1
        <5>1. ASSUME Become(t, Idle) PROVE FALSE
          BY <2>5, <2>8, <3>3, <5>1, BecomeFacts, IdleFacts DEF BaseInv
        <5> QED BY <3>2, <5>1 DEF contains, get
      <4> QED BY <2>5, <2>8, <3>1, <3>4, <4>1, SeesOn DEF LooksRight
    <3>6. Moving' = Moving
      BY <2>2, <3>3, QuietStep
    <3> QED BY <2>8, <3>3, <3>5, <3>6
  <2>9. CASE m.pc # "idle" /\ u # t
    <3>1. r = m /\ Sees(m, table, Moving) /\ ~Shuffled(k)
      BY <2>2, <2>3, <2>5, <2>9 DEF Others, SeenInv, Sees
    <3>2. m.pc \in {"contains", "get"} /\ m.pos \in Nat
      BY <2>3, <2>4, <2>5, <3>1 DEF Calls
    <3>3. Sees(m, table', Moving')
      BY <2>1, <2>5, <2>6, <3>1, <3>2, SeesOther
    <3> QED BY <2>5, <3>1, <3>3
  <2> QED BY <2>5, <2>7, <2>8, <2>9
<1> QED BY <1>1, <1>2

LEMMA SeenAnswer ==
    ASSUME SightInv, Next
    PROVE  \A t \in Threads : Misses(t) /\ t \in steady =>
              call[t].pc = "get" /\ remoteHash(call[t].node.key, 2) # hash(call[t].node.key, 2)
<1> SUFFICES ASSUME NEW u \in steady, u \in Threads, Misses(u),
                    call[u].pc = "get" => remoteHash(call[u].node.key, 2) = hash(call[u].node.key, 2)
             PROVE  FALSE
  OBVIOUS
<1>1. PICK t \in Threads : Begin(t) \/ Step(t)
  BY DEF Next
<1>2. BaseInv /\ Sees(call[u], table, Moving)
  BY DEF SightInv, SeenInv, Sees
<1>3. u = t
  BY <1>1, <1>2, StepGood DEF GoodStep, Others, Misses
<1>4. contains(t) \/ get(t)
  BY <1>1, <1>2, <1>3, BeginGood, AcquireGood, removeGood, CheckGood, WriteGood,
     SearchGood, PlaceGood, MoveGood, ClearGood DEF Step, Misses
<1>5. (contains(t) /\ ~Found(t)) \/ (get(t) /\ ~Fetched(t))
  BY <1>3, <1>4 DEF contains, get, Misses
<1>6. call'[t] # Idle
  BY <1>2, <1>3, <1>5, SeesOn DEF LooksRight
<1>7. call'[t] = Idle \/ call'[t].pc = call[t].pc
  BY <1>2, <1>4, ReaderGood
<1> QED BY <1>3, <1>6, <1>7 DEF Misses

(* contains, which reads slot by slot without a lock, never misses a key   *)
(* that was in the table all the time, whatever is displaced, removed or   *)
(* overwritten meanwhile, unless the key is displaced inside one bucket.   *)
(* get, the remote reader that fetches bucket by bucket, misses none       *)
(* either as long as its second bucket is that of the map.                 *)
THEOREM ReadersMissNothing == Spec => NoFalseNegative
<1>1. Init => SightInv
  BY InitBase DEF Init, SightInv, SeenInv
<1>2. SightInv /\ [Next]_vars =>
        [\A t \in Threads : Misses(t) /\ t \in steady =>
            LET k == call[t].node.key IN call[t].pc = "get" /\ remoteHash(k, 2) # hash(k, 2)]_vars
  BY SeenAnswer
<1> QED BY <1>1, <1>2, NextSeen, PTL DEF Spec, NoFalseNegative
=============================================================================
