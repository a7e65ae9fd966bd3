------------------------- MODULE SharedMemoryProofs -------------------------
(***************************************************************************)
(* The programs whose threads share memory under locks, for any threads,   *)
(* accounts, buckets, points and clusters: the banker, the barrier in      *)
(* front of its workers, and parallel k-means.                             *)
(*                                                                         *)
(* The barrier: BarrierInv says that all threads are in the same crossing; *)
(* the step that has to be argued is the release, where a counter of       *)
(* waiting threads that reaches count means that everybody has arrived.    *)
(*                                                                         *)
(* K-means: the arithmetic of the centers plays no part in Partition, only *)
(* that every task reads and writes a cluster while it holds its lock; for *)
(* PerfectClusters the mean of one point has to be that point.             *)
(***************************************************************************)
EXTENDS Bank, Barrier, KMeans, FiniteSetFacts, TLAPS

-----------------------------------------------------------------------------
\* The banker.

LEMMA HashInside == \A k \in RandomKeys : hash(k) \in Locks
BY BankAssumption DEF RandomKeys, hash, Locks

LEMMA FirstIndices == 0 \in Locks /\ 0 \in Accounts
BY BankAssumption DEF Locks, Accounts

LEMMA NextIndex ==
    /\ \A i \in Locks : i + 1 < Buckets => i + 1 \in Locks
    /\ \A i \in Accounts : i + 1 < KeyMax => i + 1 \in Accounts
BY BankAssumption DEF Locks, Accounts

LEMMA KeysExist ==
    /\ \A k \in RandomKeys : KeyMax > 1 => k \in Accounts
    /\ \A k \in RandomKeys : k \in Accounts => KeyMax > 1
BY BankAssumption DEF RandomKeys, Accounts

LEMMA LowHigh ==
    ASSUME TypeOK, NEW t \in Actors
    PROVE  Low(t) \in Locks /\ High(t) \in Locks
BY HashInside DEF TypeOK, Low, High

LEMMA DepositInv ==
    ASSUME IInv, NEW t \in Actors, NEW s \in RandomKeys, NEW d \in RandomKeys, deposit(t, s, d)
    PROVE  IInv'
<1> USE BankAssumption DEF IInv, deposit, Goto, bankVars, lockVars, auditVars
<1>1. TypeOK'
  BY DEF TypeOK, PCs, IndicesOK, Actors
<1>2. WriteLocksOK'
  BY DEF TypeOK, WriteLocksOK, HoldsLow, HoldsHigh, Low, High, Actors, lockfree, MainAlone
<1>3. ReadLocksOK'
  BY DEF TypeOK, ReadLocksOK, IndicesOK, Locks, Actors, MainAlone, lockfree
<1>4. IndicesOK'
  BY DEF TypeOK, IndicesOK, Locks, Accounts, Actors, RandomKeys, lockfree
<1>5. Exclusion'
  BY DEF TypeOK, Exclusion, Actors
<1>6. MainAlone'
  BY DEF TypeOK, MainAlone, Actors, lockfree
<1> QED  BY <1>1, <1>2, <1>3, <1>4, <1>5, <1>6

LEMMA LockLowInv ==
    ASSUME IInv, NEW t \in Actors, LockLow(t)
    PROVE  IInv'
<1> USE BankAssumption DEF IInv, LockLow, Goto, bankVars, lockVars, auditVars, WRITE_LOCK
<1>1. TypeOK'
  BY LowHigh DEF TypeOK, PCs, IndicesOK, Actors
<1>2. WriteLocksOK'
  BY LowHigh DEF TypeOK, WriteLocksOK, HoldsLow, HoldsHigh, Low, High, Actors, lockfree, MainAlone
<1>3. ReadLocksOK'
  BY LowHigh DEF TypeOK, ReadLocksOK, IndicesOK, Locks, Actors, MainAlone, lockfree
<1>4. IndicesOK'
  BY LowHigh DEF TypeOK, IndicesOK, Locks, Accounts, Actors, RandomKeys, lockfree
<1>5. Exclusion'
  BY LowHigh DEF TypeOK, Exclusion, Actors
<1>6. MainAlone'
  BY LowHigh DEF TypeOK, MainAlone, Actors, lockfree
<1> QED  BY <1>1, <1>2, <1>3, <1>4, <1>5, <1>6

LEMMA LockHighInv ==
    ASSUME IInv, NEW t \in Actors, LockHigh(t)
    PROVE  IInv'
<1> USE BankAssumption DEF IInv, LockHigh, Goto, bankVars, lockVars, auditVars, WRITE_LOCK
<1>1. TypeOK'
  BY LowHigh DEF TypeOK, PCs, IndicesOK, Actors
<1>2. WriteLocksOK'
  BY LowHigh DEF TypeOK, WriteLocksOK, HoldsLow, HoldsHigh, Low, High, Actors, lockfree, MainAlone
<1>3. ReadLocksOK'
  BY LowHigh DEF TypeOK, ReadLocksOK, IndicesOK, Locks, Actors, MainAlone, lockfree
<1>4. IndicesOK'
  BY LowHigh DEF TypeOK, IndicesOK, Locks, Accounts, Actors, RandomKeys, lockfree
<1>5. Exclusion'
  BY LowHigh DEF TypeOK, Exclusion, Actors
<1>6. MainAlone'
  BY LowHigh DEF TypeOK, MainAlone, Actors, lockfree
<1> QED  BY <1>1, <1>2, <1>3, <1>4, <1>5, <1>6

LEMMA ReadSourceInv ==
    ASSUME IInv, NEW t \in Actors, ReadSource(t)
    PROVE  IInv'
<1> USE BankAssumption DEF IInv, ReadSource, exists, lookup, Goto, bankVars, lockVars, auditVars, AfterApply, EndIteration
<1>0. /\ pc'[t] \notin {"readLock", "sum", "readUnlock", "audit"}
      /\ \A u \in Actors \ {t} : pc'[u] = pc[u]
  BY DEF TypeOK, lockfree
<1>1. TypeOK'
  BY DEF TypeOK, PCs, IndicesOK, Actors
<1>2. WriteLocksOK'
  BY DEF TypeOK, WriteLocksOK, HoldsLow, HoldsHigh, Low, High, Actors, lockfree, MainAlone
<1>3. ReadLocksOK'
  BY <1>0 DEF TypeOK, ReadLocksOK, Actors
<1>4. IndicesOK'
  BY KeysExist DEF TypeOK, IndicesOK, lockfree
<1>5. Exclusion'
  BY DEF TypeOK, Exclusion, Actors
<1>6. MainAlone'
  BY DEF TypeOK, MainAlone, Actors, lockfree
<1> QED  BY <1>1, <1>2, <1>3, <1>4, <1>5, <1>6

LEMMA WriteSourceInv ==
    ASSUME IInv, NEW t \in Actors, WriteSource(t)
    PROVE  IInv'
<1> USE BankAssumption DEF IInv, WriteSource, update, Goto, bankVars, lockVars, auditVars
<1>1. TypeOK'
  <2>1. src[t] \in Accounts
    BY KeysExist DEF TypeOK, IndicesOK
  <2> QED  BY <2>1 DEF TypeOK, PCs
<1>2. WriteLocksOK'
  BY DEF TypeOK, WriteLocksOK, HoldsLow, HoldsHigh, Low, High, Actors, lockfree, MainAlone
<1>3. ReadLocksOK'
  BY DEF TypeOK, ReadLocksOK, IndicesOK, Locks, Actors, MainAlone, lockfree
<1>4. IndicesOK'
  BY DEF TypeOK, IndicesOK, Locks, Accounts, Actors, RandomKeys, lockfree
<1>5. Exclusion'
  BY DEF TypeOK, Exclusion, Actors
<1>6. MainAlone'
  BY DEF TypeOK, MainAlone, Actors, lockfree
<1> QED  BY <1>1, <1>2, <1>3, <1>4, <1>5, <1>6

LEMMA ReadTargetInv ==
    ASSUME IInv, NEW t \in Actors, ReadTarget(t)
    PROVE  IInv'
<1> USE BankAssumption DEF IInv, ReadTarget, lookup, Goto, bankVars, lockVars, auditVars
<1>1. TypeOK'
  <2>1. dst[t] \in Accounts
    BY KeysExist DEF TypeOK, IndicesOK
  <2> QED  BY <2>1 DEF TypeOK, PCs
<1>2. WriteLocksOK'
  BY DEF TypeOK, WriteLocksOK, HoldsLow, HoldsHigh, Low, High, Actors, lockfree, MainAlone
<1>3. ReadLocksOK'
  BY DEF TypeOK, ReadLocksOK, IndicesOK, Locks, Actors, MainAlone, lockfree
<1>4. IndicesOK'
  BY DEF TypeOK, IndicesOK, Locks, Accounts, Actors, RandomKeys, lockfree
<1>5. Exclusion'
  BY DEF TypeOK, Exclusion, Actors
<1>6. MainAlone'
  BY DEF TypeOK, MainAlone, Actors, lockfree
<1> QED  BY <1>1, <1>2, <1>3, <1>4, <1>5, <1>6

LEMMA WriteTargetInv ==
    ASSUME IInv, NEW t \in Actors, WriteTarget(t)
    PROVE  IInv'
<1> USE BankAssumption DEF IInv, WriteTarget, update, Goto, bankVars, lockVars, auditVars, AfterApply, EndIteration
<1>0. /\ pc'[t] \notin {"readLock", "sum", "readUnlock", "audit"}
      /\ \A u \in Actors \ {t} : pc'[u] = pc[u]
  BY DEF TypeOK, lockfree
<1>1. TypeOK'
  <2>1. dst[t] \in Accounts
    BY KeysExist DEF TypeOK, IndicesOK
  <2> QED  BY <2>1 DEF TypeOK, PCs
<1>2. WriteLocksOK'
  BY DEF TypeOK, WriteLocksOK, HoldsLow, HoldsHigh, Low, High, Actors, lockfree, MainAlone
<1>3. ReadLocksOK'
  BY <1>0 DEF TypeOK, ReadLocksOK, Actors
<1>4. IndicesOK'
  BY DEF TypeOK, IndicesOK, Locks, Accounts, Actors, RandomKeys, lockfree
<1>5. Exclusion'
  BY DEF TypeOK, Exclusion, Actors
<1>6. MainAlone'
  BY DEF TypeOK, MainAlone, Actors, lockfree
<1> QED  BY <1>1, <1>2, <1>3, <1>4, <1>5, <1>6

LEMMA UnlockLowInv ==
    ASSUME IInv, NEW t \in Actors, UnlockLow(t)
    PROVE  IInv'
<1> USE BankAssumption DEF IInv, UnlockLow, Goto, bankVars, lockVars, auditVars, WRITE_UNLOCK, EndIteration
<1>0. /\ pc'[t] \notin {"readLock", "sum", "readUnlock", "audit"}
      /\ \A u \in Actors \ {t} : pc'[u] = pc[u]
  BY DEF TypeOK, lockfree
<1>1. TypeOK'
  BY LowHigh DEF TypeOK, PCs, IndicesOK, Actors
<1>2. WriteLocksOK'
  BY LowHigh DEF TypeOK, WriteLocksOK, HoldsLow, HoldsHigh, Low, High, Actors, lockfree, MainAlone
<1>3. ReadLocksOK'
  BY <1>0 DEF TypeOK, ReadLocksOK, Actors
<1>4. IndicesOK'
  BY LowHigh DEF TypeOK, IndicesOK, Locks, Accounts, Actors, RandomKeys, lockfree
<1>5. Exclusion'
  BY LowHigh DEF TypeOK, Exclusion, Actors
<1>6. MainAlone'
  BY LowHigh DEF TypeOK, MainAlone, Actors, lockfree
<1> QED  BY <1>1, <1>2, <1>3, <1>4, <1>5, <1>6

LEMMA UnlockHighInv ==
    ASSUME IInv, NEW t \in Actors, UnlockHigh(t)
    PROVE  IInv'
<1> USE BankAssumption DEF IInv, UnlockHigh, Goto, bankVars, lockVars, auditVars, WRITE_UNLOCK, EndIteration
<1>1. TypeOK'
  BY LowHigh DEF TypeOK, PCs, IndicesOK, Actors
<1>2. WriteLocksOK'
  BY LowHigh DEF TypeOK, WriteLocksOK, HoldsLow, HoldsHigh, Low, High, Actors, lockfree, MainAlone
<1>3. ReadLocksOK'
  BY LowHigh DEF TypeOK, ReadLocksOK, IndicesOK, Locks, Actors, MainAlone, lockfree
<1>4. IndicesOK'
  BY LowHigh DEF TypeOK, IndicesOK, Locks, Accounts, Actors, RandomKeys, lockfree
<1>5. Exclusion'
  BY LowHigh DEF TypeOK, Exclusion, Actors
<1>6. MainAlone'
  BY LowHigh DEF TypeOK, MainAlone, Actors, lockfree
<1> QED  BY <1>1, <1>2, <1>3, <1>4, <1>5, <1>6

LEMMA BalanceInv ==
    ASSUME IInv, NEW t \in Actors, balance(t)
    PROVE  IInv'
<1> USE BankAssumption DEF IInv, balance, Goto, bankVars, lockVars, auditVars
<1>1. TypeOK'
  BY DEF TypeOK, PCs, IndicesOK, Actors
<1>2. WriteLocksOK'
  BY DEF TypeOK, WriteLocksOK, HoldsLow, HoldsHigh, Low, High, Actors, lockfree, MainAlone
<1>3. ReadLocksOK'
  BY DEF TypeOK, ReadLocksOK, IndicesOK, Locks, Actors, MainAlone, lockfree
<1>4. IndicesOK'
  BY FirstIndices DEF TypeOK, IndicesOK, lockfree, Actors
<1>5. Exclusion'
  BY DEF TypeOK, Exclusion, Actors
<1>6. MainAlone'
  BY DEF TypeOK, MainAlone, Actors, lockfree
<1> QED  BY <1>1, <1>2, <1>3, <1>4, <1>5, <1>6

LEMMA ReadLockInv ==
    ASSUME IInv, NEW t \in Actors, ReadLock(t)
    PROVE  IInv'
<1> USE BankAssumption DEF IInv, ReadLock, Goto, bankVars, lockVars, auditVars, Advance, More
<1>1. TypeOK'
  BY DEF TypeOK, PCs, IndicesOK, Actors
<1>2. WriteLocksOK'
  BY DEF TypeOK, WriteLocksOK, HoldsLow, HoldsHigh, Low, High, Actors, lockfree, MainAlone
<1>3. ReadLocksOK'
  BY DEF TypeOK, ReadLocksOK, IndicesOK, Locks, Actors, MainAlone, lockfree
<1>4. IndicesOK'
  BY FirstIndices, NextIndex DEF TypeOK, IndicesOK, lockfree
<1>5. Exclusion'
  BY DEF TypeOK, Exclusion, Actors
<1>6. MainAlone'
  BY DEF TypeOK, MainAlone, Actors, lockfree
<1> QED  BY <1>1, <1>2, <1>3, <1>4, <1>5, <1>6

LEMMA SumInv ==
    ASSUME IInv, NEW t \in Actors, Sum(t)
    PROVE  IInv'
<1> USE BankAssumption DEF IInv, Sum, lookup, Goto, bankVars, lockVars, auditVars, Advance, More, EndIteration
<1>1. TypeOK'
  BY DEF TypeOK, PCs, IndicesOK, Actors
<1>2. WriteLocksOK'
  BY DEF TypeOK, WriteLocksOK, HoldsLow, HoldsHigh, Low, High, Actors, lockfree, MainAlone
<1>3. ReadLocksOK'
  BY DEF TypeOK, ReadLocksOK, IndicesOK, Locks, Actors, MainAlone, lockfree
<1>4. IndicesOK'
  BY FirstIndices, NextIndex DEF TypeOK, IndicesOK, lockfree
<1>5. Exclusion'
  BY DEF TypeOK, Exclusion, Actors
<1>6. MainAlone'
  BY DEF TypeOK, MainAlone, Actors, lockfree
<1> QED  BY <1>1, <1>2, <1>3, <1>4, <1>5, <1>6

LEMMA ReadUnlockInv ==
    ASSUME IInv, NEW t \in Actors, ReadUnlock(t)
    PROVE  IInv'
<1> USE BankAssumption DEF IInv, ReadUnlock, Goto, bankVars, lockVars, auditVars, Advance, More, EndIteration
<1>1. TypeOK'
  BY DEF TypeOK, PCs, IndicesOK, Actors
<1>2. WriteLocksOK'
  BY DEF TypeOK, WriteLocksOK, HoldsLow, HoldsHigh, Low, High, Actors, lockfree, MainAlone
<1>3. ReadLocksOK'
  <2>1. /\ \A u \in Actors \ {t} : pc'[u] = pc[u] /\ idx'[u] = idx[u]
        /\ pc'[t] \in {"readUnlock", "work", "done"}
    BY DEF TypeOK
  <2>2. \A b \in Locks : \A u \in Actors : u # t \/ b # idx[t] => (u \in readers[b] => u \in readers'[b])
    BY DEF TypeOK
  <2>3. pc'[t] = "readUnlock" => idx'[t] = idx[t] + 1
    BY DEF TypeOK
  <2>4. idx[t] \in Int /\ \A b \in Locks : b \in Int
    BY DEF TypeOK, Locks
  <2> HIDE DEF ReadUnlock
  <2>5. pc[t] = "readUnlock"
    BY DEF ReadUnlock
  <2> QED  BY <2>1, <2>2, <2>3, <2>4, <2>5 DEF ReadLocksOK, Actors
<1>4. IndicesOK'
  BY FirstIndices, NextIndex DEF TypeOK, IndicesOK, lockfree
<1>5. Exclusion'
  BY DEF TypeOK, Exclusion, Actors
<1>6. MainAlone'
  BY DEF TypeOK, MainAlone, Actors, lockfree
<1> QED  BY <1>1, <1>2, <1>3, <1>4, <1>5, <1>6

LEMMA JoinInv ==
    ASSUME IInv, Join
    PROVE  IInv'
<1> USE BankAssumption DEF IInv, Join, Goto, bankVars, lockVars, auditVars
<1>1. TypeOK'
  BY DEF TypeOK, PCs, IndicesOK, Actors
<1>2. WriteLocksOK'
  BY DEF TypeOK, WriteLocksOK, HoldsLow, HoldsHigh, Low, High, Actors, lockfree, MainAlone
<1>3. ReadLocksOK'
  BY DEF TypeOK, ReadLocksOK, IndicesOK, Locks, Actors, MainAlone, lockfree
<1>4. IndicesOK'
  BY FirstIndices DEF TypeOK, IndicesOK, lockfree, Actors
<1>5. Exclusion'
  BY DEF TypeOK, Exclusion, Actors
<1>6. MainAlone'
  BY DEF TypeOK, MainAlone, Actors, lockfree
<1> QED  BY <1>1, <1>2, <1>3, <1>4, <1>5, <1>6

LEMMA CheckTotalInv ==
    ASSUME IInv, CheckTotal
    PROVE  IInv'
<1> USE BankAssumption DEF IInv, CheckTotal, Goto, bankVars, lockVars, auditVars
<1>1. TypeOK'
  BY DEF TypeOK, PCs, IndicesOK, Actors
<1>2. WriteLocksOK'
  BY DEF TypeOK, WriteLocksOK, HoldsLow, HoldsHigh, Low, High, Actors, lockfree, MainAlone
<1>3. ReadLocksOK'
  BY DEF TypeOK, ReadLocksOK, IndicesOK, Locks, Actors, MainAlone, lockfree
<1>4. IndicesOK'
  BY DEF TypeOK, IndicesOK, Locks, Accounts, Actors, RandomKeys, lockfree
<1>5. Exclusion'
  BY DEF TypeOK, Exclusion, Actors
<1>6. MainAlone'
  BY DEF TypeOK, MainAlone, Actors, lockfree
<1> QED  BY <1>1, <1>2, <1>3, <1>4, <1>5, <1>6

-----------------------------------------------------------------------------
LEMMA InitInv == Init => IInv
<1> SUFFICES ASSUME Init PROVE IInv
  OBVIOUS
<1> USE BankAssumption DEF Init
<1>0. 1 \in RandomKeys
  BY DEF RandomKeys
<1>1. TypeOK
  BY <1>0 DEF TypeOK, PCs
<1>2. WriteLocksOK /\ ReadLocksOK /\ IndicesOK
  BY DEF WriteLocksOK, ReadLocksOK, IndicesOK, HoldsLow, HoldsHigh, lockfree, Actors
<1>3. Exclusion /\ MainAlone
  BY DEF Exclusion, MainAlone, lockfree, Actors
<1> QED  BY <1>1, <1>2, <1>3 DEF IInv

LEMMA NextInv == IInv /\ [Next]_vars => IInv'
<1> SUFFICES ASSUME IInv, [Next]_vars PROVE IInv'
  OBVIOUS
<1>1. CASE UNCHANGED vars
  BY <1>1 DEF vars, IInv, TypeOK, WriteLocksOK, ReadLocksOK, IndicesOK, Exclusion, MainAlone,
              HoldsLow, HoldsHigh, Low, High
<1>2. CASE Join \/ CheckTotal
  BY <1>2, JoinInv, CheckTotalInv
<1>3. ASSUME NEW t \in Actors, Step(t)
      PROVE  IInv'
  BY <1>3, DepositInv, LockLowInv, LockHighInv, ReadSourceInv, WriteSourceInv, ReadTargetInv,
     WriteTargetInv, UnlockLowInv, UnlockHighInv, BalanceInv, ReadLockInv, SumInv,
     ReadUnlockInv DEF Step
<1> QED  BY <1>1, <1>2, <1>3 DEF Next

(* The locks protect what they should in every reachable state: a bucket   *)
(* being written has one writer and no reader, and main works alone.       *)
THEOREM Invariance == Spec => []IInv
BY InitInv, NextInv, PTL DEF Spec

(* Type correctness: in particular the loops of an audit never index past  *)
(* the locks or the accounts.                                              *)
THEOREM TypeCorrect == Spec => []TypeOK
<1>1. IInv => TypeOK
  BY DEF IInv
<1> QED  BY <1>1, Invariance, PTL

(* No deposit changes an account while an audit sums up: an audit reads    *)
(* one consistent state of the bank, whatever the number of threads.       *)
THEOREM AuditsSeeOneState == Spec => FrozenDuringAudit
<1>1. ASSUME IInv, [Next]_vars
      PROVE  [(\E t \in Threads : pc[t] = "sum") => bal' = bal]_vars
  <2> SUFFICES ASSUME Next, NEW t \in Threads, pc[t] = "sum"
               PROVE  bal' = bal
    BY <1>1
  <2> USE <1>1 DEF IInv
  <2>1. \A b \in Locks : writer[b] = NoOne
    BY DEF ReadLocksOK, Exclusion
  <2>2. pc[Main] = "join"
    BY DEF MainAlone
  <2>3. ASSUME NEW u \in Actors, pc[u] \in {"writeSource", "writeTarget"}
        PROVE  FALSE
    <3>1. u \in Threads /\ Low(u) \in Locks /\ u # NoOne
      BY <2>2, <2>3, LowHigh, BankAssumption DEF Actors
    <3> QED  BY <2>1, <2>3, <3>1 DEF WriteLocksOK, HoldsLow
  <2>4. ASSUME NEW u \in Actors, Step(u)
        PROVE  bal' = bal
    BY <2>3, <2>4 DEF Step, deposit, LockLow, LockHigh, ReadSource, WriteSource, ReadTarget,
       WriteTarget, UnlockLow, UnlockHigh, balance, ReadLock, Sum, ReadUnlock, bankVars, update, lookup
  <2> QED  BY <2>4 DEF Next, Join, CheckTotal, bankVars, vars
<1> QED  BY <1>1, Invariance, PTL DEF Spec, FrozenDuringAudit

-----------------------------------------------------------------------------
(* The money. *)

Writing == {"writeSource", "readTarget", "writeTarget"}

LEMMA FiniteParts == IsFiniteSet(Accounts) /\ IsFiniteSet(Actors)
BY BankAssumption, FS_Interval, FS_AddElement DEF Accounts, Actors

LEMMA WholeSum == TypeOK => SumFunction(bal) = SumFunctionOnSet(bal, Accounts)
BY DEF TypeOK, SumFunction

\* Two deposits at work have no account in common: they hold the locks of both.
LEMMA WritersApart ==
    ASSUME IInv, NEW t \in Actors, NEW u \in Actors, t # u,
           pc[t] \in Writing, pc[u] \in Writing
    PROVE  /\ src[t] # src[u] /\ src[t] # dst[u]
           /\ dst[t] # src[u] /\ dst[t] # dst[u]
<1> USE DEF IInv
<1>1. t \in Threads /\ u \in Threads
  BY DEF MainAlone, Actors, Writing
<1>2. \A v \in {t, u} : writer[hash(src[v])] = v /\ writer[hash(dst[v])] = v
  BY <1>1 DEF WriteLocksOK, HoldsLow, HoldsHigh, Low, High, Writing
<1> QED  BY <1>2

\* Nobody adds up accounts while a deposit is at work.
LEMMA WritersStopAudits ==
    ASSUME IInv, NEW t \in Actors, NEW u \in Actors, pc[t] \in Writing
    PROVE  pc[u] \notin {"sum", "audit"}
<1> USE DEF IInv
<1>1. CASE t = Main \/ u = Main
  BY <1>1, BankAssumption DEF MainAlone, Actors, Writing
<1>2. CASE t \in Threads /\ u \in Threads
  <2>1. Low(t) \in Locks /\ writer[Low(t)] = t /\ t # NoOne
    BY <1>2, LowHigh, BankAssumption DEF WriteLocksOK, HoldsLow, Writing
  <2> QED  BY <1>2, <2>1 DEF Exclusion, ReadLocksOK, MainAlone
<1> QED  BY <1>1, <1>2 DEF Actors

\* A step that changes no account and moves nobody into or out of flight.
LEMMA QuietMoney ==
    ASSUME MoneyInv, bal' = bal,
           \A u \in Actors : pc'[u] \in {"readTarget", "writeTarget"}
                                <=> pc[u] \in {"readTarget", "writeTarget"}
    PROVE  MoneyConserved'
<1>1. InFlight' = InFlight
  BY DEF InFlight
<1> QED  BY <1>1 DEF MoneyInv, MoneyConserved

\* What a step of t leaves alone in the locals of the others.
Others(t) ==
    \A u \in Actors \ {t} : /\ pc'[u] = pc[u] /\ src'[u] = src[u] /\ dst'[u] = dst[u]
                            /\ got'[u] = got[u] /\ idx'[u] = idx[u] /\ total'[u] = total[u]

\* A step that changes no account, at the end of which t has looked up nothing
\* to write back and adds nothing up.
LEMMA QuietStep ==
    ASSUME MoneyInv, bal' = bal, NEW t \in Actors, Others(t),
           pc[t] \notin {"readTarget", "writeTarget"},
           pc'[t] \notin {"writeSource", "readTarget", "writeTarget", "readLock", "sum", "audit",
                          "assert"},
           pc'[t] = "readUnlock" => pc[t] = "readUnlock" /\ total'[t] = total[t]
    PROVE  LookupsOK' /\ TotalsOK' /\ MoneyConserved' /\ AuditsAreExact'
<1> USE DEF MoneyInv, Others
<1>1. LookupsOK'
  BY DEF LookupsOK
<1>2. TotalsOK'
  BY DEF TotalsOK
<1>3. MoneyConserved'
  BY QuietMoney
<1>4. AuditsAreExact'
  BY BankAssumption DEF AuditsAreExact, Actors
<1> QED  BY <1>1, <1>2, <1>3, <1>4

LEMMA LockMoney ==
    ASSUME MoneyInv, NEW t \in Actors,
           \/ \E a, d \in RandomKeys : deposit(t, a, d)
           \/ LockLow(t) \/ LockHigh(t) \/ UnlockLow(t) \/ UnlockHigh(t) \/ ReadUnlock(t)
    PROVE  LookupsOK' /\ TotalsOK' /\ MoneyConserved' /\ AuditsAreExact'
<1> USE DEF Goto, EndIteration, bankVars, lockVars, auditVars, MoneyInv, IInv, TypeOK, Others, Advance
<1>1. CASE \E a, d \in RandomKeys : deposit(t, a, d)
  BY <1>1, QuietStep DEF deposit
<1>2. CASE LockLow(t)
  BY <1>2, QuietStep DEF LockLow
<1>3. CASE LockHigh(t)
  BY <1>3, QuietStep DEF LockHigh
<1>4. CASE UnlockLow(t)
  BY <1>4, QuietStep DEF UnlockLow
<1>5. CASE UnlockHigh(t)
  BY <1>5, QuietStep DEF UnlockHigh
<1>6. CASE ReadUnlock(t)
  BY <1>6, QuietStep DEF ReadUnlock
<1> QED  BY <1>1, <1>2, <1>3, <1>4, <1>5, <1>6
\* The audits begin with nothing added up.
LEMMA StartAuditMoney ==
    ASSUME MoneyInv, NEW t \in Actors, balance(t) \/ (t = Main /\ Join)
    PROVE  LookupsOK' /\ TotalsOK' /\ MoneyConserved' /\ AuditsAreExact'
<1>0. /\ Others(t) /\ bal' = bal /\ pc[t] \in {"work", "join"}
      /\ pc'[t] \in {"sum", "readLock", "audit"} /\ idx'[t] = 0 /\ total'[t] = 0
  BY DEF balance, Join, Goto, bankVars, lockVars, auditVars, MoneyInv, IInv, TypeOK, Others
<1> USE DEF MoneyInv, Others
<1>1. LookupsOK'
  BY <1>0 DEF LookupsOK
<1>2. TotalsOK'
  <2>1. 0 .. 0 - 1 = {}
    OBVIOUS
  <2> QED  BY <1>0, <2>1, SumEmpty DEF TotalsOK
<1>3. MoneyConserved'
  BY <1>0, QuietMoney
<1>4. AuditsAreExact'
  BY <1>0, BankAssumption DEF AuditsAreExact, Actors
<1> QED  BY <1>1, <1>2, <1>3, <1>4

\* The last read lock: the loop over the accounts starts at 0.
LEMMA ReadLockMoney ==
    ASSUME MoneyInv, NEW t \in Actors, ReadLock(t)
    PROVE  LookupsOK' /\ TotalsOK' /\ MoneyConserved' /\ AuditsAreExact'
<1>0. /\ Others(t) /\ bal' = bal /\ pc[t] = "readLock" /\ pc'[t] \in {"sum", "readLock"}
      /\ pc'[t] = "sum" => idx'[t] = 0
      /\ total'[t] = 0
  BY DEF ReadLock, Goto, bankVars, lockVars, auditVars, MoneyInv, IInv, TypeOK, Others, Advance,
         TotalsOK
<1> USE DEF MoneyInv, Others
<1>1. LookupsOK'
  BY <1>0 DEF LookupsOK
<1>2. TotalsOK'
  <2>1. 0 .. 0 - 1 = {}
    OBVIOUS
  <2> QED  BY <1>0, <2>1, SumEmpty DEF TotalsOK
<1>3. MoneyConserved'
  BY <1>0, QuietMoney
<1>4. AuditsAreExact'
  BY <1>0, BankAssumption DEF AuditsAreExact, Actors
<1> QED  BY <1>1, <1>2, <1>3, <1>4

\* One account more is added up; after the last one the total is that of the bank.
LEMMA SumMoney ==
    ASSUME MoneyInv, NEW t \in Actors, Sum(t)
    PROVE  LookupsOK' /\ TotalsOK' /\ MoneyConserved' /\ AuditsAreExact'
<1> USE DEF MoneyInv, IInv
<1>0. /\ Others(t) /\ bal' = bal /\ pc[t] \in {"sum", "audit"}
      /\ idx[t] \in Accounts /\ idx[t] \in Nat
      /\ total'[t] = total[t] + bal[idx[t]]
      /\ idx[t] + 1 < KeyMax => pc'[t] = pc[t] /\ idx'[t] = idx[t] + 1
      /\ ~(idx[t] + 1 < KeyMax) => /\ pc'[t] \in {"readUnlock", "assert", "work", "done"}
  BY DEF Sum, lookup, Goto, EndIteration, bankVars, lockVars, auditVars, TypeOK, Others, Advance, More,
         lockfree, IndicesOK
<1>1. LookupsOK'
  BY <1>0 DEF LookupsOK, Others
<1>2. SumFunctionOnSet(bal, 0 .. idx[t]) = total'[t]
  <2> DEFINE S == 0 .. idx[t]
  <2>1. IsFiniteSet(S) /\ idx[t] \in S /\ S \ {idx[t]} = 0 .. idx[t] - 1
    BY <1>0, ShorterInterval
  <2>2. \A x \in S : bal[x] \in Int
    BY <1>0, BankAssumption DEF TypeOK, Accounts
  <2>3. SumFunctionOnSet(bal, S) = bal[idx[t]] + SumFunctionOnSet(bal, 0 .. idx[t] - 1)
    <3> HIDE DEF S
    <3>1. \A x \in S : SumFunctionOnSet(bal, S) = bal[x] + SumFunctionOnSet(bal, S \ {x})
      BY <2>1, <2>2, SumRemove, Zenon
    <3> QED  BY <2>1, <3>1, Zenon
  <2>4. total[t] = SumFunctionOnSet(bal, 0 .. idx[t] - 1)
    BY <1>0 DEF TotalsOK
  <2>5. total[t] \in Int /\ bal[idx[t]] \in Int
    BY <1>0 DEF TypeOK
  <2> QED  BY <1>0, <2>3, <2>4, <2>5
<1>3. TotalsOK'
  <2>1. 0 .. (idx[t] + 1) - 1 = 0 .. idx[t]
    BY <1>0, ShorterInterval
  <2> QED  BY <1>0, <1>2, <2>1, BankAssumption DEF TotalsOK, Others
<1>4. MoneyConserved'
  BY <1>0, QuietMoney DEF Others
<1>5. ~(idx[t] + 1 < KeyMax) => total'[t] = KeyMax * Initial
  <2>1. SUFFICES ASSUME ~(idx[t] + 1 < KeyMax) PROVE total'[t] = KeyMax * Initial
    OBVIOUS
  <2>2. 0 .. idx[t] = Accounts
    BY <1>0, <2>1, BankAssumption DEF Accounts
  <2>3. InFlight = {}
    BY <1>0, WritersStopAudits DEF InFlight, Writing
  <2>4. Cardinality(InFlight) = 0 /\ Amount * 0 = 0
    BY <2>3, FS_EmptySet, BankAssumption
  <2>5. SumFunction(bal) \in Int
    BY WholeSum, SumType, FiniteParts DEF TypeOK
  <2> QED  BY <1>2, <2>2, <2>4, <2>5, WholeSum DEF MoneyConserved
<1>6. AuditsAreExact'
  BY <1>0, <1>5, BankAssumption DEF AuditsAreExact, Others, Actors
<1> QED  BY <1>1, <1>3, <1>4, <1>6
LEMMA ReadMoney ==
    ASSUME MoneyInv, NEW t \in Actors, ReadSource(t) \/ ReadTarget(t)
    PROVE  LookupsOK' /\ TotalsOK' /\ MoneyConserved' /\ AuditsAreExact'
<1>0. /\ Others(t) /\ bal' = bal /\ src'[t] = src[t] /\ dst'[t] = dst[t]
      /\ \/ /\ pc[t] = "readSource"
            /\ \/ pc'[t] = "writeSource" /\ got'[t] = bal[src[t]]
               \/ pc'[t] \in {"unlockLow", "work", "done"}
         \/ pc[t] = "readTarget" /\ pc'[t] = "writeTarget" /\ got'[t] = bal[dst[t]]
  BY DEF ReadSource, ReadTarget, AfterApply, EndIteration, lookup, Goto, bankVars, lockVars, auditVars,
         MoneyInv, IInv, TypeOK, Others
<1> USE DEF MoneyInv, Others
<1>1. LookupsOK'
  BY <1>0 DEF LookupsOK
<1>2. TotalsOK'
  BY <1>0 DEF TotalsOK
<1>3. MoneyConserved'
  BY <1>0, QuietMoney
<1>4. AuditsAreExact'
  BY <1>0, BankAssumption DEF AuditsAreExact, Actors
<1> QED  BY <1>1, <1>2, <1>3, <1>4

\* The money leaves an account, or arrives at one, and the deposit is in flight
\* from now on, or no longer.
LEMMA WriteMoney ==
    ASSUME MoneyInv, NEW t \in Actors, WriteSource(t) \/ WriteTarget(t)
    PROVE  LookupsOK' /\ TotalsOK' /\ MoneyConserved' /\ AuditsAreExact'
<1> USE DEF MoneyInv, IInv
<1>0. /\ Others(t) /\ src'[t] = src[t] /\ dst'[t] = dst[t]
      /\ pc[t] \in Writing
      /\ \/ /\ pc[t] = "writeSource" /\ pc'[t] = "readTarget"
            /\ bal' = [bal EXCEPT ![src[t]] = got[t] - Amount]
         \/ /\ pc[t] = "writeTarget" /\ pc'[t] \in {"unlockLow", "work", "done"}
            /\ bal' = [bal EXCEPT ![dst[t]] = got[t] + Amount]
  BY DEF WriteSource, WriteTarget, AfterApply, EndIteration, update, Goto, bankVars, lockVars, auditVars,
         TypeOK, Others, Writing
<1>1. src[t] \in Accounts /\ dst[t] \in Accounts
  BY <1>0, KeysExist DEF TypeOK, IndicesOK, Writing
<1>2. LookupsOK'
  <2>1. ASSUME NEW u \in Actors, u # t, pc[u] \in Writing
        PROVE  bal'[src[u]] = bal[src[u]] /\ bal'[dst[u]] = bal[dst[u]]
    <3>1. src[u] \in Accounts /\ dst[u] \in Accounts
      BY <2>1, KeysExist DEF TypeOK, IndicesOK, Writing
    <3>2. /\ src[t] # src[u] /\ src[t] # dst[u]
          /\ dst[t] # src[u] /\ dst[t] # dst[u]
      BY <1>0, <2>1, WritersApart
    <3> QED  BY <1>0, <3>1, <3>2 DEF TypeOK
  <2> QED  BY <1>0, <2>1 DEF LookupsOK, Others, Writing
<1>3. TotalsOK'
  <2>1. \A u \in Actors : pc[u] \notin {"sum", "audit"}
    BY <1>0, WritersStopAudits
  <2> QED  BY <1>0, <2>1 DEF TotalsOK, Others
<1>4. MoneyConserved'
  <2> DEFINE n == Cardinality(InFlight)
  <2>0. IsFiniteSet(InFlight) /\ n \in Nat
    <3>1. InFlight \in SUBSET Actors
      BY DEF InFlight
    <3>2. IsFiniteSet(InFlight)
      BY <3>1, FiniteParts, FS_Subset
    <3> QED  BY <3>2, FS_CardinalityType
  <2>1. SumFunction(bal) \in Int /\ Amount \in Int /\ KeyMax * Initial \in Int
    BY WholeSum, SumType, FiniteParts, BankAssumption DEF TypeOK
  <2>2. /\ bal \in [Accounts -> Int] /\ got[t] \in Int
        /\ got[t] - Amount \in Int /\ got[t] + Amount \in Int
    BY <2>1 DEF TypeOK
  <2>3. CASE pc[t] = "writeSource"
    <3>1. bal' = [bal EXCEPT ![src[t]] = got[t] - Amount] /\ got[t] = bal[src[t]]
      BY <1>0, <2>3 DEF LookupsOK
    <3>2. SumFunction(bal') = SumFunction(bal) - bal[src[t]] + (got[t] - Amount)
      BY <1>1, <2>2, <3>1, FiniteParts, SumUpdate
    <3>3. SumFunction(bal') = SumFunction(bal) - Amount
      BY <2>1, <2>2, <3>1, <3>2
    <3>4. InFlight' = InFlight \cup {t} /\ t \notin InFlight
      BY <1>0, <2>3 DEF InFlight, Others
    <3>5. Cardinality(InFlight') = n + 1
      BY <2>0, <3>4, FS_AddElement
    <3>6. Amount * (n + 1) = Amount * n + Amount /\ Amount * n \in Int
      BY <2>0, <2>1
    <3> QED  BY <2>1, <3>3, <3>5, <3>6 DEF MoneyConserved
  <2>4. CASE pc[t] = "writeTarget"
    <3>1. bal' = [bal EXCEPT ![dst[t]] = got[t] + Amount] /\ got[t] = bal[dst[t]]
      BY <1>0, <2>4 DEF LookupsOK
    <3>2. SumFunction(bal') = SumFunction(bal) - bal[dst[t]] + (got[t] + Amount)
      BY <1>1, <2>2, <3>1, FiniteParts, SumUpdate
    <3>3. SumFunction(bal') = SumFunction(bal) + Amount
      BY <2>1, <2>2, <3>1, <3>2
    <3>4. InFlight' = InFlight \ {t} /\ t \in InFlight
      BY <1>0, <2>4 DEF InFlight, Others
    <3>5. Cardinality(InFlight') = n - 1
      BY <2>0, <3>4, FS_RemoveElement
    <3>6. Amount * (n - 1) = Amount * n - Amount /\ Amount * n \in Int
      BY <2>0, <2>1
    <3> QED  BY <2>1, <3>3, <3>5, <3>6 DEF MoneyConserved
  <2> QED  BY <1>0, <2>3, <2>4
<1>5. AuditsAreExact'
  BY <1>0, BankAssumption DEF AuditsAreExact, Others, Actors
<1> QED  BY <1>2, <1>3, <1>4, <1>5

LEMMA CheckTotalMoney ==
    ASSUME MoneyInv, CheckTotal
    PROVE  LookupsOK' /\ TotalsOK' /\ MoneyConserved' /\ AuditsAreExact'
<1>1. Main \in Actors /\ pc[Main] = "assert" /\ pc'[Main] = "work" /\ bal' = bal /\ Others(Main)
  BY DEF Actors, CheckTotal, Goto, bankVars, lockVars, auditVars, MoneyInv, IInv, TypeOK, Others
<1> QED  BY <1>1, QuietStep

-----------------------------------------------------------------------------
LEMMA InitMoney == Init => MoneyInv
<1> SUFFICES ASSUME Init PROVE MoneyInv
  OBVIOUS
<1>1. IInv
  BY InitInv
<1>2. LookupsOK /\ TotalsOK /\ AuditsAreExact
  BY BankAssumption DEF Init, LookupsOK, TotalsOK, AuditsAreExact, lockfree, Actors
<1>3. MoneyConserved
  <2>1. InFlight = {}
    BY BankAssumption DEF Init, InFlight, lockfree, Actors
  <2>2. Cardinality(InFlight) = 0 /\ Amount * 0 = 0 /\ Initial \in Int
    BY <2>1, FS_EmptySet, BankAssumption
  <2>3. SumFunctionOnSet(bal, Accounts) = Cardinality(Accounts) * Initial
    <3>1. \A a \in Accounts : bal[a] = Initial
      BY DEF Init
    <3> QED  BY <2>2, <3>1, FiniteParts, SumConstant
  <2>4. Cardinality(Accounts) = KeyMax
    BY BankAssumption, FS_Interval DEF Accounts
  <2>5. KeyMax * Initial \in Int
    BY BankAssumption
  <2> QED  BY <1>1, <2>2, <2>3, <2>4, <2>5, WholeSum DEF MoneyConserved, IInv
<1> QED  BY <1>1, <1>2, <1>3 DEF MoneyInv

LEMMA NextMoney == MoneyInv /\ [Next]_vars => MoneyInv'
<1> SUFFICES ASSUME MoneyInv, [Next]_vars PROVE MoneyInv'
  OBVIOUS
<1>0. IInv'
  BY NextInv DEF MoneyInv
<1>1. CASE UNCHANGED vars
  <2>1. /\ LookupsOK' /\ TotalsOK' /\ AuditsAreExact'
    BY <1>1 DEF vars, MoneyInv, LookupsOK, TotalsOK, AuditsAreExact
  <2>2. MoneyConserved'
    BY <1>1, QuietMoney DEF vars
  <2> QED  BY <1>0, <2>1, <2>2 DEF MoneyInv
<1>2. CASE Join \/ CheckTotal
  <2>1. Main \in Actors
    BY DEF Actors
  <2> QED  BY <1>0, <1>2, <2>1, StartAuditMoney, CheckTotalMoney DEF MoneyInv
<1>3. ASSUME NEW t \in Actors, Step(t)
      PROVE  MoneyInv'
  BY <1>0, <1>3, LockMoney, StartAuditMoney, ReadLockMoney, SumMoney, ReadMoney, WriteMoney
     DEF Step, MoneyInv
<1> QED  BY <1>1, <1>2, <1>3 DEF Next

LEMMA MoneyInvariance == Spec => []MoneyInv
BY InitMoney, NextMoney, PTL DEF Spec

(* No deposit makes or loses money, whatever the number of threads,        *)
(* accounts and buckets and however the deposits interleave.               *)
THEOREM MoneyIsConserved == Spec => []MoneyConserved
<1>1. MoneyInv => MoneyConserved
  BY DEF MoneyInv
<1> QED  BY <1>1, MoneyInvariance, PTL

(* Every audit, although it reads the accounts one by one, returns the     *)
(* total the bank started with, and the assertion of main never fails.     *)
THEOREM AuditsReturnTheTotal == Spec => []AuditsAreExact
<1>1. MoneyInv => AuditsAreExact
  BY DEF MoneyInv
<1> QED  BY <1>1, MoneyInvariance, PTL

-----------------------------------------------------------------------------
\* The barrier.

\* A counter that is one short of the number of threads: everybody else waits.
LEMMA AllButOneWait ==
    ASSUME NEW S, IsFiniteSet(S), NEW W \in SUBSET S, NEW t \in S, t \notin W,
           Cardinality(W) + 1 >= Cardinality(S)
    PROVE  W \cup {t} = S
<1>1. IsFiniteSet(W) /\ Cardinality(W) \in Nat /\ Cardinality(S) \in Nat
  BY FS_Subset, FS_CardinalityType
<1>2. Cardinality(W \cup {t}) = Cardinality(W) + 1
  BY <1>1, FS_AddElement
<1>3. W \cup {t} \in SUBSET S
  OBVIOUS
<1> QED BY <1>1, <1>2, <1>3, FS_Subset

LEMMA BarrierCount == count \in Nat
BY BarrierAssumption, FS_CardinalityType DEF count

LEMMA InitBarrier == barrier_init => BarrierInv
<1> SUFFICES ASSUME barrier_init PROVE BarrierInv
  OBVIOUS
<1>1. BarrierTypeOK
  BY BarrierCount, BarrierAssumption DEF barrier_init, BarrierTypeOK
<1>2. crossing = Cardinality(Waiters)
  <2>1. Waiters = {}
    BY DEF barrier_init, Waiters
  <2> QED BY <2>1, FS_EmptySet DEF barrier_init
<1>3. 0 \in 0 .. Rounds /\ Generation(0)
  BY BarrierAssumption DEF barrier_init, Generation
<1> QED BY <1>1, <1>2, <1>3, BarrierAssumption DEF BarrierInv, barrier_init

LEMMA ArriveBarrier ==
    ASSUME BarrierInv, NEW t \in Crossers, Arrive(t)
    PROVE  BarrierInv'
<1>1. BarrierTypeOK'
  <2>1. arrived[t] + 1 \in 0 .. Rounds
    BY BarrierAssumption DEF BarrierInv, BarrierTypeOK, Arrive
  <2> QED BY <2>1 DEF BarrierInv, BarrierTypeOK, Arrive
<1>2. Waiters' = Waiters
  BY DEF BarrierInv, BarrierTypeOK, Arrive, Waiters
<1>3. PICK g \in 0 .. Rounds : Generation(g)
  BY DEF BarrierInv
<1>4. Generation(g)'
  BY <1>3, BarrierAssumption DEF Generation, Arrive, BarrierInv, BarrierTypeOK
<1>5. \A u \in Crossers : place'[u] = "outside" => arrived'[u] < Rounds
  BY DEF BarrierInv, BarrierTypeOK, Arrive
<1> QED BY <1>1, <1>2, <1>4, <1>5 DEF BarrierInv, Arrive

LEMMA TakeMutexBarrier ==
    ASSUME BarrierInv, NEW t \in Crossers, TakeMutex(t)
    PROVE  BarrierInv'
<1>1. BarrierTypeOK'
  BY DEF BarrierInv, BarrierTypeOK, TakeMutex
<1>2. Waiters' = Waiters
  BY DEF BarrierInv, BarrierTypeOK, TakeMutex, Waiters
<1>3. PICK g \in 0 .. Rounds : Generation(g)
  BY DEF BarrierInv
<1>4. Generation(g)'
  BY <1>3, BarrierAssumption DEF Generation, TakeMutex, BarrierInv, BarrierTypeOK
<1>5. \A u \in Crossers : place'[u] = "outside" => arrived'[u] < Rounds
  BY DEF BarrierInv, BarrierTypeOK, TakeMutex
<1> QED BY <1>1, <1>2, <1>4, <1>5 DEF BarrierInv, TakeMutex

LEMMA CrossAndWaitBarrier ==
    ASSUME BarrierInv, NEW t \in Crossers, CrossAndWait(t)
    PROVE  BarrierInv'
<1>1. BarrierTypeOK'
  BY BarrierCount DEF BarrierInv, BarrierTypeOK, CrossAndWait
<1>2. crossing' = Cardinality(Waiters')
  <2>1. IsFiniteSet(Waiters) /\ t \notin Waiters
    BY BarrierAssumption, FS_Subset DEF Waiters, CrossAndWait
  <2>2. Waiters' = Waiters \cup {t}
    BY DEF BarrierInv, BarrierTypeOK, CrossAndWait, Waiters
  <2> QED BY <2>1, <2>2, FS_AddElement DEF BarrierInv, CrossAndWait
<1>3. PICK g \in 0 .. Rounds : Generation(g)
  BY DEF BarrierInv
<1>4. Generation(g)'
  BY <1>3, BarrierAssumption DEF Generation, CrossAndWait, BarrierInv, BarrierTypeOK
<1>5. \A u \in Crossers : place'[u] = "outside" => arrived'[u] < Rounds
  BY DEF BarrierInv, BarrierTypeOK, CrossAndWait
<1> QED BY <1>1, <1>2, <1>4, <1>5 DEF BarrierInv

\* The release: every thread has arrived once more, so the next generation begins.
LEMMA CrossAndReleaseBarrier ==
    ASSUME BarrierInv, NEW t \in Crossers, CrossAndRelease(t)
    PROVE  BarrierInv'
<1>1. BarrierTypeOK'
  BY BarrierCount DEF BarrierInv, BarrierTypeOK, CrossAndRelease
<1>2. Waiters \cup {t} = Crossers
  <2>1. t \notin Waiters /\ Waiters \in SUBSET Crossers
    BY DEF Waiters, CrossAndRelease
  <2>2. Cardinality(Waiters) + 1 >= Cardinality(Crossers)
    BY DEF BarrierInv, CrossAndRelease, count
  <2> QED BY <2>1, <2>2, BarrierAssumption, AllButOneWait
<1>3. \A u \in Crossers : place[u] \in {"inside", "waiting"}
  BY <1>2 DEF Waiters, CrossAndRelease
<1>4. \A u \in Crossers : place'[u] \in {"leave", "woken"}
  BY <1>2 DEF Waiters, CrossAndRelease
<1>5. crossing' = Cardinality(Waiters')
  <2>1. Waiters' = {}
    BY <1>4 DEF Waiters
  <2> QED BY <2>1, FS_EmptySet DEF CrossAndRelease
<1>6. PICK g \in 0 .. Rounds : Generation(g)
  BY DEF BarrierInv
<1>7. g + 1 \in 0 .. Rounds
  BY <1>3, <1>6, BarrierAssumption DEF Generation, BarrierInv, BarrierTypeOK
<1>8. Generation(g + 1)'
  BY <1>3, <1>4, <1>6 DEF Generation, CrossAndRelease
<1> QED BY <1>1, <1>4, <1>5, <1>7, <1>8 DEF BarrierInv

LEMMA LeaveBarrier ==
    ASSUME BarrierInv, NEW t \in Crossers, Leave(t)
    PROVE  BarrierInv'
<1>1. PICK g \in 0 .. Rounds : Generation(g)
  BY DEF BarrierInv
<1>2. BarrierTypeOK'
  <2>1. left[t] + 1 \in 0 .. Rounds
    BY <1>1, BarrierAssumption DEF Generation, Leave, BarrierInv, BarrierTypeOK
  <2> QED BY <2>1 DEF BarrierInv, BarrierTypeOK, Leave
<1>3. Waiters' = Waiters
  BY DEF BarrierInv, BarrierTypeOK, Leave, Waiters
<1>4. Generation(g)'
  BY <1>1, BarrierAssumption DEF Generation, Leave, BarrierInv, BarrierTypeOK
<1>5. \A u \in Crossers : place'[u] = "outside" => arrived'[u] < Rounds
  BY DEF BarrierInv, BarrierTypeOK, Leave
<1> QED BY <1>2, <1>3, <1>4, <1>5 DEF BarrierInv, Leave

LEMMA NextBarrier == BarrierInv /\ [BarrierNext]_barrierVars => BarrierInv'
<1> SUFFICES ASSUME BarrierInv, [BarrierNext]_barrierVars PROVE BarrierInv'
  OBVIOUS
<1>1. ASSUME NEW t \in Crossers, barrier_cross(t) PROVE BarrierInv'
  BY <1>1, ArriveBarrier, TakeMutexBarrier, CrossAndWaitBarrier, CrossAndReleaseBarrier, LeaveBarrier
     DEF barrier_cross
<1>2. ASSUME UNCHANGED barrierVars PROVE BarrierInv'
  BY <1>2 DEF BarrierInv, BarrierTypeOK, Generation, Waiters, barrierVars
<1> QED BY <1>1, <1>2 DEF BarrierNext

(***************************************************************************)
(* Every variable keeps its type: the counter never passes count.          *)
(***************************************************************************)
THEOREM BarrierTypeCorrect == BarrierSpec => []BarrierTypeOK
<1>1. BarrierInv => BarrierTypeOK
  BY DEF BarrierInv
<1> QED BY <1>1, InitBarrier, NextBarrier, PTL DEF BarrierSpec

(***************************************************************************)
(* barrier_cross returns for the n-th time in no thread before every       *)
(* thread has called it for the n-th time.                                 *)
(***************************************************************************)
THEOREM NobodyIsEarly == BarrierSpec => []NobodyLeavesEarly
<1>1. BarrierInv => NobodyLeavesEarly
  BY BarrierAssumption DEF BarrierInv, BarrierTypeOK, Generation, NobodyLeavesEarly
<1> QED BY <1>1, InitBarrier, NextBarrier, PTL DEF BarrierSpec

-----------------------------------------------------------------------------
\* Parallel k-means.

LEMMA InitClusters == KMeansInit => ClusterInv
<1> SUFFICES ASSUME KMeansInit PROVE ClusterInv
  OBVIOUS
<1> USE KMeansAssumption DEF KMeansInit
<1>1. PICK seed \in [Clusters -> Points] :
          /\ \A c, d \in Clusters : c # d => seed[c] # seed[d]
          /\ members = [c \in Clusters |-> {seed[c]}]
          /\ \A p \in Points, c \in Clusters : cluster[p] = c <=> p = seed[c]
  BY SMT
<1>2. TasksOK
  BY <1>1 DEF TasksOK, Clusters
<1>3. MembersOK
  BY <1>1 DEF MembersOK
<1>4. CopiesOK
  BY DEF CopiesOK
<1> QED
  BY <1>2, <1>3, <1>4 DEF ClusterInv

LEMMA ExamineClusters ==
    ASSUME ClusterInv, NEW p \in Points, Examine(p)
    PROVE  ClusterInv'
<1> USE DEF ClusterInv, Examine, loopVars
<1>1. TasksOK'
  BY KMeansAssumption DEF TasksOK
<1>2. MembersOK'
  BY KMeansAssumption DEF MembersOK, TasksOK
<1>3. CopiesOK'
  BY DEF CopiesOK, TasksOK
<1> QED
  BY <1>1, <1>2, <1>3

\* Two tasks that hold a lock hold different ones.
LEMMA ExclusiveTasks ==
    ASSUME CopiesOK, NEW p \in Points, NEW q \in Points, p # q,
           task[p] \in {"leaving", "joining"}, task[q] \in {"leaving", "joining"}
    PROVE  cluster[p] # cluster[q]
  BY DEF CopiesOK

LEMMA LeaveClusters ==
    ASSUME ClusterInv, NEW p \in Points, LeaveCluster(p)
    PROVE  ClusterInv'
<1> USE DEF ClusterInv, LeaveCluster, Take, loopVars
<1>1. TasksOK'
  BY DEF TasksOK
<1>2. MembersOK'
  BY DEF MembersOK, TasksOK
<1>3. CopiesOK'
  BY KMeansAssumption DEF CopiesOK, TasksOK
<1> QED
  BY <1>1, <1>2, <1>3

LEMMA LeftClusters ==
    ASSUME ClusterInv, NEW p \in Points, LeftCluster(p)
    PROVE  ClusterInv'
<1> USE DEF ClusterInv, LeftCluster, Put, loopVars
<1>1. TasksOK'
  BY DEF TasksOK
<1>2. MembersOK'
  BY DEF MembersOK, CopiesOK, TasksOK
<1>3. CopiesOK'
  BY ExclusiveTasks DEF CopiesOK, TasksOK
<1> QED
  BY <1>1, <1>2, <1>3

LEMMA JoinClusters ==
    ASSUME ClusterInv, NEW p \in Points, JoinCluster(p)
    PROVE  ClusterInv'
<1> USE DEF ClusterInv, JoinCluster, Take, loopVars
<1>1. TasksOK'
  BY DEF TasksOK
<1>2. MembersOK'
  BY DEF MembersOK, TasksOK
<1>3. CopiesOK'
  BY KMeansAssumption DEF CopiesOK, TasksOK
<1> QED
  BY <1>1, <1>2, <1>3

LEMMA JoinedClusters ==
    ASSUME ClusterInv, NEW p \in Points, JoinedCluster(p)
    PROVE  ClusterInv'
<1> USE DEF ClusterInv, JoinedCluster, Put, loopVars
<1>1. TasksOK'
  BY DEF TasksOK
<1>2. MembersOK'
  BY DEF MembersOK, CopiesOK, TasksOK
<1>3. CopiesOK'
  BY ExclusiveTasks DEF CopiesOK, TasksOK
<1> QED
  BY <1>1, <1>2, <1>3

LEMMA RecenterClusters ==
    ASSUME ClusterInv, Recenter
    PROVE  ClusterInv'
<1> USE DEF ClusterInv, Recenter, AllFinished
<1>1. TasksOK'
  BY DEF TasksOK
<1>2. MembersOK'
  BY DEF MembersOK, TasksOK
<1>3. CopiesOK'
  BY DEF CopiesOK, TasksOK
<1> QED
  BY <1>1, <1>2, <1>3

(* Where the task of a point is tells which clusters hold the point, and   *)
(* copies under a lock are fresh: an invariant of every schedule.          *)
THEOREM ClusterInvariance == KMeansSpec => []ClusterInv
<1>1. KMeansInit => ClusterInv
  BY InitClusters
<1>2. ClusterInv /\ [KMeansNext]_kmeansVars => ClusterInv'
  <2> SUFFICES ASSUME ClusterInv, [KMeansNext]_kmeansVars PROVE ClusterInv'
    OBVIOUS
  <2>1. ASSUME NEW p \in Points, Task(p) PROVE ClusterInv'
    BY <2>1, ExamineClusters, LeaveClusters, LeftClusters, JoinClusters, JoinedClusters DEF Task
  <2>2. CASE Recenter
    BY <2>2, RecenterClusters
  <2>3. CASE UNCHANGED kmeansVars
    BY <2>3 DEF kmeansVars, ClusterInv, TasksOK, MembersOK, CopiesOK
  <2> QED
    BY <2>1, <2>2, <2>3 DEF KMeansNext
<1> QED
  BY <1>1, <1>2, PTL DEF KMeansSpec

(* After the tasks of an iteration every point is in exactly the cluster   *)
(* it was assigned to (safeAddPoint and safeRemovePoint lose no update).   *)
THEOREM PartitionHolds == KMeansSpec => []Partition
<1>1. ClusterInv => Partition
  BY DEF ClusterInv, MembersOK, Partition, AllFinished
<1> QED
  BY <1>1, ClusterInvariance, PTL

-----------------------------------------------------------------------------
LEMMA InitCenters == KMeansInit => CenterInv
<1> SUFFICES ASSUME KMeansInit PROVE CenterInv
  OBVIOUS
<1>1. PICK seed \in [Clusters -> Points] :
          /\ members = [c \in Clusters |-> {seed[c]}]
          /\ center = [c \in Clusters |-> Value[seed[c]]]
  BY DEF KMeansInit
<1>2. \A c \in Clusters : Centered(c)
  <2> TAKE c \in Clusters
  <2>1. seed[c] \in Points /\ members[c] = {seed[c]} /\ center[c] = Value[seed[c]]
    BY <1>1
  <2> QED BY <2>1 DEF Centered
<1>3. CentersOK
  BY <1>2 DEF CentersOK
<1>4. NearestOK
  BY DEF KMeansInit, NearestOK
<1> QED BY <1>3, <1>4 DEF CenterInv

\* What depends on the centers and the members alone.
LEMMA SameCenters ==
    ASSUME center' = center
    PROVE  /\ \A p, c : IDNearestCenter(p, c)' <=> IDNearestCenter(p, c)
           /\ members' = members => \A c : Centered(c)' <=> Centered(c)
<1>1. \A p, c : Distance(p, c)' = Distance(p, c)
  BY Zenon DEF Distance
<1>2. \A p, c : IDNearestCenter(p, c)' <=> IDNearestCenter(p, c)
  BY <1>1 DEF IDNearestCenter
<1>3. members' = members => \A c : Recentered(c)' = Recentered(c)
  <2> DEFINE Mean(j, m) == {Unit * Quotient(sum, Cardinality(m)) : sum \in Totals[j][m]}
             R(m, e) == IF m = {} THEN {e}
                        ELSE {x \in [Coords -> UNION {Mean(j, m) : j \in Coords}] :
                                \A j \in Coords : x[j] \in Mean(j, m)}
  <2>1. /\ \A c : Recentered(c) = R(members[c], center[c])
        /\ \A c : Recentered(c)' = R(members'[c], center'[c])
    BY DEF Recentered
  <2> HIDE DEF R
  <2> QED BY <2>1
<1>4. members' = members => \A c : Centered(c)' <=> Centered(c)
  BY <1>3 DEF Centered
<1> QED BY <1>2, <1>4

LEMMA TaskCenters ==
    ASSUME ClusterInv, CenterInv, NEW p \in Points, Task(p)
    PROVE  CenterInv'
<1>1. center' = center /\ ended' = ended
  BY DEF Task, Examine, LeaveCluster, LeftCluster, JoinCluster, JoinedCluster, loopVars
<1>2. /\ \A q, c : IDNearestCenter(q, c)' <=> IDNearestCenter(q, c)
      /\ members' = members => \A c : Centered(c)' <=> Centered(c)
  BY <1>1, SameCenters
<1>3. TasksOK /\ CentersOK /\ NearestOK
  BY DEF ClusterInv, CenterInv
<1>4. ~ended /\ ~ended'
  <2>1. ~ended
    BY <1>3 DEF NearestOK, AllFinished, Task, Examine, LeaveCluster, LeftCluster, JoinCluster, JoinedCluster
  <2> QED BY <1>1, <2>1
<1>5. CASE Examine(p)
  <2>1. PICK c \in Clusters :
          /\ IDNearestCenter(p, c)
          /\ task' = [task EXCEPT ![p] = IF c = cluster[p] THEN "finished"
                                     ELSE IF cluster[p] = NoCluster THEN "join" ELSE "leave"]
    BY <1>5 DEF Examine
  <2>2. members' = members /\ cluster' = cluster /\ done' = done /\ task[p] = "ready"
    BY <1>5 DEF Examine
  <2>3. CentersOK'
    BY <1>1, <1>2, <1>3, <2>1, <2>2 DEF CentersOK, TasksOK
  <2>4. \A q \in Points : done' /\ task'[q] = "finished" => IDNearestCenter(q, cluster'[q])
    BY <1>3, <1>4, <2>1, <2>2 DEF NearestOK, TasksOK
  <2> QED BY <1>2, <1>4, <2>3, <2>4, <2>2 DEF CenterInv, NearestOK
<1>6. CASE LeaveCluster(p)
  <2>1. members' = members /\ cluster' = cluster /\ done' = done
        /\ task' = [task EXCEPT ![p] = "leaving"]
    BY <1>6 DEF LeaveCluster
  <2>2. CentersOK'
    BY <1>1, <1>2, <1>3, <1>6, <2>1 DEF CentersOK, TasksOK, LeaveCluster
  <2> QED BY <1>2, <1>3, <1>4, <2>1, <2>2 DEF CenterInv, NearestOK, TasksOK
<1>7. CASE LeftCluster(p) \/ JoinCluster(p)
  <2>1. /\ task[p] \in {"leaving", "join"} /\ task'[p] \in {"join", "joining"} /\ done' = done
        /\ \A q \in Points : q # p => task'[q] = task[q] /\ cluster'[q] = cluster[q]
    BY <1>3, <1>7 DEF LeftCluster, JoinCluster, TasksOK
  <2>2. CentersOK'
    BY <2>1 DEF CentersOK
  <2> QED BY <1>2, <1>3, <1>4, <2>1, <2>2 DEF CenterInv, NearestOK
<1>8. CASE JoinedCluster(p)
  BY <1>4, <1>8 DEF CenterInv, CentersOK, NearestOK, JoinedCluster
<1> QED BY <1>5, <1>6, <1>7, <1>8 DEF Task

LEMMA RecenterCenters ==
    ASSUME ClusterInv, CenterInv, Recenter
    PROVE  CenterInv'
<1>1. /\ members' = members /\ AllFinished
      /\ \A c \in Clusters : center'[c] \in Recentered(c)
  BY DEF Recenter
<1>2. \A c \in Clusters : Centered(c)'
  <2> TAKE c \in Clusters
  <2>1. CASE members[c] = {}
    <3>1. Recentered(c)' = {center'[c]}
      BY <1>1, <2>1 DEF Recentered
    <3> QED BY <3>1 DEF Centered
  <2>2. CASE members[c] # {}
    <3> DEFINE Mean(j, m) == {Unit * Quotient(sum, Cardinality(m)) : sum \in Totals[j][m]}
               R(m) == {x \in [Coords -> UNION {Mean(j, m) : j \in Coords}] :
                          \A j \in Coords : x[j] \in Mean(j, m)}
    <3>1. Recentered(c) = R(members[c])
      BY <2>2 DEF Recentered
    <3>2. Recentered(c)' = R(members'[c])
      BY <1>1, <2>2 DEF Recentered
    <3> HIDE DEF R
    <3>3. Recentered(c)' = Recentered(c)
      BY <1>1, <3>1, <3>2
    <3> QED BY <1>1, <3>3 DEF Centered
  <2> QED BY <2>1, <2>2
<1>3. CentersOK'
  BY <1>2 DEF CentersOK
<1>4. CASE done \/ round >= MaxIter
  BY <1>1, <1>3, <1>4 DEF CenterInv, NearestOK, Recenter, AllFinished
<1>5. CASE ~(done \/ round >= MaxIter)
  BY <1>3, <1>5 DEF CenterInv, NearestOK, Recenter
<1> QED BY <1>4, <1>5

(* A run that stops early stops at "perfect clusters": every center comes  *)
(* from the points of its cluster and every point is in the cluster of the *)
(* center the program finds nearest, for any fractional coordinates, any   *)
(* seeds, any width of int and however the tasks and the sums were split.  *)
THEOREM ClustersArePerfect == KMeansSpec => []PerfectClusters
<1>1. KMeansInit => CenterInv
  BY InitCenters
<1>2. ClusterInv /\ CenterInv /\ [KMeansNext]_kmeansVars => CenterInv'
  <2> SUFFICES ASSUME ClusterInv, CenterInv, [KMeansNext]_kmeansVars PROVE CenterInv'
    OBVIOUS
  <2>1. CASE UNCHANGED kmeansVars
    BY <2>1, SameCenters DEF kmeansVars, CenterInv, CentersOK, NearestOK, AllFinished
  <2> QED BY <2>1, TaskCenters, RecenterCenters DEF KMeansNext
<1>3. CenterInv => PerfectClusters
  BY DEF CenterInv, CentersOK, NearestOK, PerfectClusters, AllFinished
<1> QED BY <1>1, <1>2, <1>3, ClusterInvariance, PTL DEF KMeansSpec
=============================================================================
