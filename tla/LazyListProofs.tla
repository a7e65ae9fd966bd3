--------------------------- MODULE LazyListProofs ---------------------------
(* Proofs about the lazy list, for any threads, keys and nodes: the list   *)
(* stays intact, and it implements the linearizable set LinSet.            *)
EXTENDS LazyListHistory, TLAPS

LEMMA KeyBounds == \A k \in Keys : k \in Int /\ MinKey < k /\ k < MaxKey
BY ListAssumption

LEMMA KeysAreInts ==
    ASSUME TypeOK
    PROVE  /\ \A n \in alloc : n \in Nodes /\ key[n] \in Int
           /\ \A n \in InList : n \in alloc
BY ListAssumption DEF TypeOK, InList

\* A node whose key is smaller than a caller's key has a successor.
LEMMA NextInside ==
    ASSUME IInv, NEW t \in Threads, op[t] # "none",
           NEW n \in alloc, key[n] < arg[t]
    PROVE  /\ n # Tail
           /\ next[n] \in alloc
           /\ key[n] < key[next[n]]
<1>1. arg[t] \in Int /\ arg[t] < MaxKey
  BY KeyBounds DEF IInv, ControlOK
<1>2. key[Tail] = MaxKey /\ MaxKey \in Int
  BY ListAssumption DEF IInv, ShapeOK
<1>3. n # Tail
  BY <1>1, <1>2
<1> QED  BY <1>3 DEF IInv, ShapeOK

LEMMA InvokeInv ==
    ASSUME IInv, NEW t \in Threads, NEW o \in Ops, NEW k \in Keys, Invoke(t, o, k)
    PROVE  IInv'
<1> USE ListAssumption DEF IInv, Invoke, nodeVars, callVars
<1>1. TypeOK'
  BY DEF TypeOK, PCs, Ops
<1>2. ControlOK'
  BY DEF TypeOK, ControlOK, Ops
<1>3. LocksOK'
  BY DEF TypeOK, LocksOK, WalksOK, HoldsPred, HoldsCurr
<1>4. ShapeOK'
  BY DEF ShapeOK
<1>5. WalksOK'
  BY DEF TypeOK, WalksOK, ControlOK, HoldsPred, HoldsCurr
<1>6. ValidatedOK'
  BY DEF TypeOK, LocksOK, ValidatedOK, HoldsPred, HoldsCurr, validateLink
<1>7. ListIntact'
  <2>1. InList' = InList
    BY DEF TypeOK, InList
  <2> QED  BY <2>1 DEF ListIntact
<1> QED  BY <1>1, <1>2, <1>3, <1>4, <1>5, <1>6, <1>7

LEMMA SearchStepInv ==
    ASSUME IInv, NEW t \in Threads, SearchStep(t)
    PROVE  IInv'
<1> USE ListAssumption DEF IInv, SearchStep, nodeVars, callVars
<1>0. next[curr[t]] \in alloc
  BY NextInside DEF WalksOK, ControlOK
<1>1. TypeOK'
  BY <1>0 DEF TypeOK
<1>2. ControlOK'
  BY DEF TypeOK, ControlOK, Ops
<1>3. LocksOK'
  BY DEF TypeOK, LocksOK, WalksOK, HoldsPred, HoldsCurr
<1>4. ShapeOK'
  BY DEF ShapeOK
<1>5. WalksOK'
  BY <1>0 DEF TypeOK, WalksOK, HoldsPred, HoldsCurr
<1>6. ValidatedOK'
  BY DEF TypeOK, LocksOK, ValidatedOK, HoldsPred, HoldsCurr, validateLink
<1>7. ListIntact'
  <2>1. InList' = InList
    BY DEF TypeOK, InList
  <2> QED  BY <2>1 DEF ListIntact
<1> QED  BY <1>1, <1>2, <1>3, <1>4, <1>5, <1>6, <1>7

LEMMA SearchEndInv ==
    ASSUME IInv, NEW t \in Threads, SearchEnd(t)
    PROVE  IInv'
<1> USE ListAssumption DEF IInv, SearchEnd, nodeVars, callVars
<1>1. TypeOK'
  BY DEF TypeOK, PCs, Ops
<1>2. ControlOK'
  BY DEF TypeOK, ControlOK, Ops
<1>3. LocksOK'
  BY DEF TypeOK, LocksOK, WalksOK, HoldsPred, HoldsCurr
<1>4. ShapeOK'
  BY DEF ShapeOK
<1>5. WalksOK'
  BY DEF TypeOK, WalksOK, ControlOK, HoldsPred, HoldsCurr
<1>6. ValidatedOK'
  BY DEF TypeOK, LocksOK, ValidatedOK, HoldsPred, HoldsCurr, validateLink
<1>7. ListIntact'
  <2>1. InList' = InList
    BY DEF TypeOK, InList
  <2> QED  BY <2>1 DEF ListIntact
<1> QED  BY <1>1, <1>2, <1>3, <1>4, <1>5, <1>6, <1>7

LEMMA StartInv ==
    ASSUME IInv, NEW t \in Threads, Start(t)
    PROVE  IInv'
<1> USE ListAssumption DEF IInv, Start, nodeVars, callVars
<1>0. next[Head] \in alloc /\ key[Head] < key[next[Head]]
  BY DEF ShapeOK
<1>1. TypeOK'
  BY <1>0 DEF TypeOK, PCs
<1>2. ControlOK'
  BY DEF TypeOK, ControlOK, Ops
<1>3. LocksOK'
  BY DEF TypeOK, LocksOK, WalksOK, HoldsPred, HoldsCurr
<1>4. ShapeOK'
  BY DEF ShapeOK
<1>5. WalksOK'
  BY <1>0, KeyBounds DEF TypeOK, ShapeOK, ControlOK, WalksOK, HoldsPred, HoldsCurr
<1>6. ValidatedOK'
  BY DEF TypeOK, LocksOK, ValidatedOK, HoldsPred, HoldsCurr, validateLink
<1>7. ListIntact'
  <2>1. InList' = InList
    BY DEF TypeOK, InList
  <2> QED  BY <2>1 DEF ListIntact
<1> QED  BY <1>1, <1>2, <1>3, <1>4, <1>5, <1>6, <1>7

LEMMA WalkInv ==
    ASSUME IInv, NEW t \in Threads, Walk(t)
    PROVE  IInv'
<1> USE ListAssumption DEF IInv, Walk, nodeVars, callVars
<1>0. next[curr[t]] \in alloc /\ key[curr[t]] < key[next[curr[t]]]
  BY NextInside DEF WalksOK, ControlOK
<1>1. TypeOK'
  BY <1>0 DEF TypeOK
<1>2. ControlOK'
  BY DEF TypeOK, ControlOK, Ops
<1>3. LocksOK'
  BY DEF TypeOK, LocksOK, WalksOK, HoldsPred, HoldsCurr
<1>4. ShapeOK'
  BY DEF ShapeOK
<1>5. WalksOK'
  BY <1>0 DEF TypeOK, WalksOK, HoldsPred, HoldsCurr
<1>6. ValidatedOK'
  BY DEF TypeOK, LocksOK, ValidatedOK, HoldsPred, HoldsCurr, validateLink
<1>7. ListIntact'
  <2>1. InList' = InList
    BY DEF TypeOK, InList
  <2> QED  BY <2>1 DEF ListIntact
<1> QED  BY <1>1, <1>2, <1>3, <1>4, <1>5, <1>6, <1>7

LEMMA TryLockPredInv ==
    ASSUME IInv, NEW t \in Threads, TryLockPred(t)
    PROVE  IInv'
<1> USE ListAssumption DEF IInv, TryLockPred, nodeVars, callVars
<1>1. TypeOK'
  BY DEF TypeOK, PCs, Abort
<1>2. ControlOK'
  BY DEF TypeOK, ControlOK, Abort
<1>3. LocksOK'
  BY DEF TypeOK, LocksOK, WalksOK, HoldsPred, HoldsCurr
<1>4. ShapeOK'
  BY DEF ShapeOK
<1>5. WalksOK'
  BY DEF TypeOK, WalksOK, ControlOK, HoldsPred, HoldsCurr
<1>6. ValidatedOK'
  BY DEF TypeOK, LocksOK, ValidatedOK, HoldsPred, HoldsCurr, validateLink
<1>7. ListIntact'
  <2>1. InList' = InList
    BY DEF TypeOK, InList
  <2> QED  BY <2>1 DEF ListIntact
<1> QED  BY <1>1, <1>2, <1>3, <1>4, <1>5, <1>6, <1>7

LEMMA TryLockCurrInv ==
    ASSUME IInv, NEW t \in Threads, TryLockCurr(t)
    PROVE  IInv'
<1> USE ListAssumption DEF IInv, TryLockCurr, nodeVars, callVars
<1>1. TypeOK'
  BY DEF TypeOK, PCs, Abort
<1>2. ControlOK'
  BY DEF TypeOK, ControlOK, Abort
<1>3. LocksOK'
  BY DEF TypeOK, LocksOK, WalksOK, HoldsPred, HoldsCurr
<1>4. ShapeOK'
  BY DEF ShapeOK
<1>5. WalksOK'
  BY DEF TypeOK, WalksOK, ControlOK, HoldsPred, HoldsCurr
<1>6. ValidatedOK'
  BY DEF TypeOK, LocksOK, ValidatedOK, HoldsPred, HoldsCurr, validateLink
<1>7. ListIntact'
  <2>1. InList' = InList
    BY DEF TypeOK, InList
  <2> QED  BY <2>1 DEF ListIntact
<1> QED  BY <1>1, <1>2, <1>3, <1>4, <1>5, <1>6, <1>7

LEMMA GiveUpInv ==
    ASSUME IInv, NEW t \in Threads, GiveUp(t)
    PROVE  IInv'
<1> USE ListAssumption DEF IInv, GiveUp, nodeVars, callVars
<1>1. TypeOK'
  BY DEF TypeOK, PCs, Ops
<1>2. ControlOK'
  BY DEF TypeOK, ControlOK, Ops
<1>3. LocksOK'
  BY DEF TypeOK, LocksOK, WalksOK, HoldsPred, HoldsCurr
<1>4. ShapeOK'
  BY DEF ShapeOK
<1>5. WalksOK'
  BY DEF TypeOK, WalksOK, ControlOK, HoldsPred, HoldsCurr
<1>6. ValidatedOK'
  BY DEF TypeOK, LocksOK, ValidatedOK, HoldsPred, HoldsCurr, validateLink
<1>7. ListIntact'
  <2>1. InList' = InList
    BY DEF TypeOK, InList
  <2> QED  BY <2>1 DEF ListIntact
<1> QED  BY <1>1, <1>2, <1>3, <1>4, <1>5, <1>6, <1>7

LEMMA ValidateInv ==
    ASSUME IInv, NEW t \in Threads, Validate(t)
    PROVE  IInv'
<1> USE ListAssumption DEF IInv, Validate, nodeVars, callVars
<1>1. TypeOK'
  BY DEF TypeOK, PCs, Ops
<1>2. ControlOK'
  BY DEF TypeOK, ControlOK, Ops
<1>3. LocksOK'
  BY DEF TypeOK, LocksOK, WalksOK, HoldsPred, HoldsCurr
<1>4. ShapeOK'
  BY DEF ShapeOK
<1>5. WalksOK'
  BY DEF TypeOK, WalksOK, ControlOK, HoldsPred, HoldsCurr
<1>6. ValidatedOK'
  BY DEF TypeOK, LocksOK, ValidatedOK, HoldsPred, HoldsCurr, validateLink
<1>7. ListIntact'
  <2>1. InList' = InList
    BY DEF TypeOK, InList
  <2> QED  BY <2>1 DEF ListIntact
<1> QED  BY <1>1, <1>2, <1>3, <1>4, <1>5, <1>6, <1>7

LEMMA ApplyNothingInv ==
    ASSUME IInv, NEW t \in Threads, ApplyNothing(t)
    PROVE  IInv'
<1> USE ListAssumption DEF IInv, ApplyNothing, nodeVars, callVars
<1>1. TypeOK'
  BY DEF TypeOK, PCs, Ops
<1>2. ControlOK'
  BY DEF TypeOK, ControlOK, Ops
<1>3. LocksOK'
  BY DEF TypeOK, LocksOK, WalksOK, HoldsPred, HoldsCurr
<1>4. ShapeOK'
  BY DEF ShapeOK
<1>5. WalksOK'
  BY DEF TypeOK, WalksOK, ControlOK, HoldsPred, HoldsCurr
<1>6. ValidatedOK'
  BY DEF TypeOK, LocksOK, ValidatedOK, HoldsPred, HoldsCurr, validateLink
<1>7. ListIntact'
  <2>1. InList' = InList
    BY DEF TypeOK, InList
  <2> QED  BY <2>1 DEF ListIntact
<1> QED  BY <1>1, <1>2, <1>3, <1>4, <1>5, <1>6, <1>7

LEMMA UnlockPredInv ==
    ASSUME IInv, NEW t \in Threads, UnlockPred(t)
    PROVE  IInv'
<1> USE ListAssumption DEF IInv, UnlockPred, nodeVars, callVars
<1>1. TypeOK'
  BY DEF TypeOK, PCs, Ops
<1>2. ControlOK'
  BY DEF TypeOK, ControlOK, Ops
<1>3. LocksOK'
  BY DEF TypeOK, LocksOK, WalksOK, HoldsPred, HoldsCurr
<1>4. ShapeOK'
  BY DEF ShapeOK
<1>5. WalksOK'
  BY DEF TypeOK, WalksOK, ControlOK, HoldsPred, HoldsCurr
<1>6. ValidatedOK'
  BY DEF TypeOK, LocksOK, ValidatedOK, HoldsPred, HoldsCurr, validateLink
<1>7. ListIntact'
  <2>1. InList' = InList
    BY DEF TypeOK, InList
  <2> QED  BY <2>1 DEF ListIntact
<1> QED  BY <1>1, <1>2, <1>3, <1>4, <1>5, <1>6, <1>7

LEMMA UnlockCurrInv ==
    ASSUME IInv, NEW t \in Threads, UnlockCurr(t)
    PROVE  IInv'
<1> USE ListAssumption DEF IInv, UnlockCurr, nodeVars, callVars
<1>1. TypeOK'
  BY DEF TypeOK, PCs, Ops
<1>2. ControlOK'
  BY DEF TypeOK, ControlOK, Ops
<1>3. LocksOK'
  BY DEF TypeOK, LocksOK, WalksOK, HoldsPred, HoldsCurr
<1>4. ShapeOK'
  BY DEF ShapeOK
<1>5. WalksOK'
  BY DEF TypeOK, WalksOK, ControlOK, HoldsPred, HoldsCurr
<1>6. ValidatedOK'
  BY DEF TypeOK, LocksOK, ValidatedOK, HoldsPred, HoldsCurr, validateLink
<1>7. ListIntact'
  <2>1. InList' = InList
    BY DEF TypeOK, InList
  <2> QED  BY <2>1 DEF ListIntact
<1> QED  BY <1>1, <1>2, <1>3, <1>4, <1>5, <1>6, <1>7

LEMMA ReturnInv ==
    ASSUME IInv, NEW t \in Threads, Return(t)
    PROVE  IInv'
<1> USE ListAssumption DEF IInv, Return, nodeVars, callVars
<1>1. TypeOK'
  BY DEF TypeOK, PCs, Ops
<1>2. ControlOK'
  BY DEF TypeOK, ControlOK, Ops
<1>3. LocksOK'
  BY DEF TypeOK, LocksOK, WalksOK, HoldsPred, HoldsCurr
<1>4. ShapeOK'
  BY DEF ShapeOK
<1>5. WalksOK'
  BY DEF TypeOK, WalksOK, ShapeOK, ControlOK, HoldsPred, HoldsCurr
<1>6. ValidatedOK'
  BY DEF TypeOK, LocksOK, ValidatedOK, HoldsPred, HoldsCurr, validateLink
<1>7. ListIntact'
  <2>1. InList' = InList
    BY DEF TypeOK, InList
  <2> QED  BY <2>1 DEF ListIntact
<1> QED  BY <1>1, <1>2, <1>3, <1>4, <1>5, <1>6, <1>7

\* The node a validated thread is about to write and its neighbour are in the
\* list, and no node of the list is between them.
LEMMA ValidatedPlace ==
    ASSUME IInv, NEW t \in Threads, pc[t] \in {"apply", "unlink"}
    PROVE  /\ pred[t] \in InList /\ curr[t] \in InList
           /\ pred[t] # Tail
           /\ next[pred[t]] = curr[t]
           /\ key[pred[t]] < arg[t] /\ arg[t] <= key[curr[t]]
           /\ \A n \in InList : key[n] <= key[pred[t]] \/ key[curr[t]] <= key[n]
           /\ arg[t] \in Keys
<1>1. pred[t] \in alloc /\ curr[t] \in alloc /\ key[pred[t]] < arg[t]
      /\ arg[t] <= key[curr[t]] /\ arg[t] \in Keys
  BY KeyBounds DEF IInv, TypeOK, WalksOK, ControlOK, HoldsPred, HoldsCurr
<1>2. pred[t] \in InList /\ curr[t] \in InList /\ next[pred[t]] = curr[t]
  BY <1>1 DEF IInv, ValidatedOK, validateLink, InList
<1>3. pred[t] # Tail
  BY <1>1, NextInside DEF IInv, ControlOK
<1>4. \A n \in InList : key[pred[t]] < key[n] => key[curr[t]] <= key[n]
  BY <1>2, <1>3 DEF IInv, ListIntact
<1> QED  BY <1>1, <1>2, <1>3, <1>4, KeysAreInts DEF IInv

LEMMA LinkInv ==
    ASSUME IInv, NEW t \in Threads, Link(t)
    PROVE  IInv'
<1> USE ListAssumption DEF IInv, callVars
<1> DEFINE p == pred[t]
           c == curr[t]
<1>1. PICK n \in Nodes \ alloc :
          /\ alloc' = alloc \cup {n}
          /\ key' = [key EXCEPT ![n] = arg[t]]
          /\ next' = [next EXCEPT ![n] = c, ![p] = n]
  BY DEF Link
<1>2. /\ p \in InList /\ c \in InList /\ p # Tail /\ next[p] = c
      /\ key[p] < arg[t] /\ arg[t] < key[c] /\ arg[t] \in Keys
      /\ \A m \in InList : key[m] <= key[p] \/ key[c] <= key[m]
  <2>1. arg[t] # key[c]
    BY DEF Link, Writes
  <2>2. arg[t] \in Int /\ key[c] \in Int
    BY ValidatedPlace, KeyBounds, KeysAreInts DEF Link
  <2> QED  BY <2>1, <2>2, ValidatedPlace DEF Link
<1>3. /\ \A m \in alloc : m \in Nodes /\ key[m] \in Int
      /\ \A m \in InList : m \in alloc
      /\ arg[t] \in Int /\ MinKey < arg[t] /\ arg[t] < MaxKey
  BY <1>2, KeyBounds, KeysAreInts
<1>4. /\ marked' = marked /\ lock' = lock /\ pred' = pred /\ curr' = curr
      /\ op' = op /\ arg' = arg
      /\ pc' = [pc EXCEPT ![t] = "unlockPred"] /\ res' = [res EXCEPT ![t] = "TRUE"]
      /\ pc[t] = "apply" /\ op[t] = "add"
  BY DEF Link
<1>5. /\ \A m \in alloc : key'[m] = key[m]
      /\ key'[n] = arg[t] /\ next'[n] = c /\ next'[p] = n /\ n # p
      /\ \A m \in alloc \ {p} : next'[m] = next[m]
  BY <1>1, <1>2, <1>3 DEF TypeOK
<1>6. TypeOK'
  <2>1. arg[t] \in MinKey .. MaxKey
    BY <1>3
  <2> QED  BY <1>1, <1>2, <1>3, <1>4, <2>1 DEF TypeOK, PCs
<1>7. ControlOK'
  BY <1>4 DEF TypeOK, ControlOK
<1>8. LocksOK'
  BY <1>4 DEF TypeOK, LocksOK, HoldsPred, HoldsCurr
<1>9. ShapeOK'
  <2>1. ASSUME NEW m \in alloc' \ {Tail}
        PROVE  next'[m] \in alloc' /\ key'[m] < key'[next'[m]]
    <3>1. CASE m = n
      BY <1>1, <1>2, <1>3, <1>5, <3>1
    <3>2. CASE m = p
      BY <1>1, <1>2, <1>3, <1>5, <3>2
    <3>3. CASE m \in alloc \ {p, Tail}
      <4>1. next[m] \in alloc /\ key[m] < key[next[m]]
        BY <3>3 DEF ShapeOK
      <4>2. next'[m] = next[m] /\ key'[m] = key[m] /\ key'[next[m]] = key[next[m]]
        BY <1>5, <3>3, <4>1
      <4> QED  BY <1>1, <4>1, <4>2
    <3> QED  BY <1>1, <3>1, <3>2, <3>3
  <2> QED  BY <1>1, <1>2, <1>4, <1>5, <2>1 DEF ShapeOK
<1>10. WalksOK'
  BY <1>1, <1>4, <1>5 DEF TypeOK, WalksOK, HoldsPred, HoldsCurr
<1>11. ValidatedOK'
  <2>1. lock[p] = t
    BY <1>4 DEF LocksOK, HoldsPred
  <2>2. \A u \in Threads \ {t} : pc[u] \in {"apply", "unlink"} => pred[u] # p
    BY <2>1 DEF LocksOK, HoldsPred
  <2> QED  BY <1>4, <1>5, <2>2 DEF TypeOK, WalksOK, ValidatedOK, validateLink
<1>12. ListIntact'
  <2>1. InList' = InList \cup {n}
    BY <1>1, <1>4 DEF InList, TypeOK, ShapeOK
  <2>2. \A m \in InList : key[m] # arg[t]
    BY <1>2, <1>3 DEF TypeOK
  <2>3. ASSUME NEW m \in InList' \ {Tail}
        PROVE  next'[m] \in InList' /\ key'[m] < key'[next'[m]]
    <3>1. CASE m = n
      BY <1>2, <1>3, <1>5, <2>1, <3>1
    <3>2. CASE m = p
      BY <1>2, <1>3, <1>5, <2>1, <3>2
    <3>3. CASE m \in InList \ {p, Tail}
      BY <1>3, <1>5, <2>1, <3>3 DEF ListIntact
    <3> QED  BY <2>1, <2>3, <3>1, <3>2, <3>3
  <2>4. ASSUME NEW m \in InList' \ {Tail}, NEW q \in InList', key'[m] < key'[q]
        PROVE  key'[next'[m]] <= key'[q]
    <3>1. arg[t] \in Int /\ key[c] \in Int /\ key[p] \in Int
      BY <1>2, <1>3
    <3>2. CASE m = n
      BY <1>2, <1>3, <1>5, <2>1, <2>4, <3>1, <3>2
    <3>3. CASE m = p
      BY <1>2, <1>3, <1>5, <2>1, <2>4, <3>1, <3>3
    <3>4. CASE m \in InList \ {n, p} /\ q # n
      <4>1. q \in InList /\ key'[q] = key[q] /\ key'[m] = key[m] /\ next'[m] = next[m]
        BY <1>3, <1>5, <2>1, <2>4, <3>4
      <4>2. next[m] \in InList /\ key'[next[m]] = key[next[m]]
        BY <1>3, <1>5, <2>4, <3>4 DEF ListIntact
      <4> QED  BY <2>4, <3>4, <4>1, <4>2 DEF ListIntact
    <3>5. CASE m \in InList \ {n, p} /\ q = n
      <4>1. key[m] \in Int /\ next[m] \in InList /\ key[next[m]] \in Int
        BY <1>3, <2>4, <3>5 DEF ListIntact
      <4>2. key[m] < key[c]
        BY <1>2, <1>3, <1>5, <2>4, <3>1, <3>5, <4>1
      <4>3. key[m] <= key[p] /\ key[m] # key[p]
        BY <1>2, <2>4, <3>1, <3>5, <4>1, <4>2 DEF ListIntact
      <4>4. key[next[m]] <= key[p]
        BY <1>2, <2>4, <3>1, <3>5, <4>1, <4>3 DEF ListIntact
      <4> QED  BY <1>2, <1>3, <1>5, <3>1, <3>5, <4>1, <4>4
    <3> QED  BY <2>1, <3>2, <3>3, <3>4, <3>5
  <2>5. ASSUME NEW m \in InList' \ {Tail}, NEW q \in InList', key'[m] = key'[q]
        PROVE  m = q
    BY <1>3, <1>5, <2>1, <2>2, <2>5 DEF ListIntact
  <2> QED  BY <2>3, <2>4, <2>5 DEF ListIntact
<1> QED  BY <1>6, <1>7, <1>8, <1>9, <1>10, <1>11, <1>12

LEMMA MarkInv ==
    ASSUME IInv, NEW t \in Threads, Mark(t)
    PROVE  IInv'
<1> USE ListAssumption DEF IInv, Mark, callVars
<1> DEFINE c == curr[t]
<1>0. c \in alloc /\ c # Head /\ c # Tail /\ key[c] = arg[t] /\ lock[c] = t
  <2>1. c \in alloc /\ key[c] = arg[t] /\ lock[c] = t
    BY DEF Writes, WalksOK, LocksOK, HoldsCurr
  <2>2. arg[t] \in Keys
    BY DEF ControlOK
  <2> QED  BY <2>1, <2>2, KeyBounds DEF ShapeOK
<1>1. TypeOK'
  BY DEF TypeOK, PCs
<1>2. ControlOK'
  BY DEF TypeOK, ControlOK
<1>3. LocksOK'
  BY DEF TypeOK, LocksOK, HoldsPred, HoldsCurr
<1>4. ShapeOK'
  BY <1>0 DEF TypeOK, ShapeOK
<1>5. WalksOK'
  BY DEF TypeOK, WalksOK, HoldsPred, HoldsCurr
<1>6. ValidatedOK'
  <2>1. \A u \in Threads \ {t} : pc[u] \in {"apply", "unlink"} => pred[u] # c /\ curr[u] # c
    BY <1>0 DEF LocksOK, HoldsPred, HoldsCurr
  <2>2. pred[t] # c
    BY <1>0, KeyBounds DEF WalksOK, ControlOK, TypeOK
  <2> QED  BY <1>0, <2>1, <2>2 DEF TypeOK, WalksOK, ValidatedOK, validateLink
<1>7. ListIntact'
  <2>1. InList' = InList
    BY <1>0 DEF TypeOK, InList, ValidatedOK, validateLink
  <2> QED  BY <2>1 DEF ListIntact
<1> QED  BY <1>1, <1>2, <1>3, <1>4, <1>5, <1>6, <1>7

LEMMA UnlinkInv ==
    ASSUME IInv, NEW t \in Threads, Unlink(t)
    PROVE  IInv'
<1> USE ListAssumption DEF IInv, Unlink, callVars
<1> DEFINE p == pred[t]
           c == curr[t]
<1>0. /\ p \in InList /\ c \in InList /\ p # Tail /\ next[p] = c
      /\ key[p] < key[c] /\ marked[c] /\ c # Tail /\ c # Head
      /\ \A n \in InList : key[n] <= key[p] \/ key[c] <= key[n]
  BY ValidatedPlace DEF ValidatedOK, WalksOK, ShapeOK
<1>1. /\ \A m \in alloc : m \in Nodes /\ key[m] \in Int
      /\ \A m \in InList : m \in alloc
      /\ next[c] \in alloc /\ key[c] < key[next[c]]
  BY <1>0 DEF InList, TypeOK, ShapeOK
<1>2. next'[p] = next[c] /\ \A m \in alloc \ {p} : next'[m] = next[m]
  BY <1>0, <1>1 DEF TypeOK
<1>3. TypeOK'
  BY <1>1 DEF TypeOK, PCs
<1>4. ControlOK'
  BY DEF TypeOK, ControlOK
<1>5. LocksOK'
  BY DEF TypeOK, LocksOK, HoldsPred, HoldsCurr
<1>6. ShapeOK'
  BY <1>0, <1>1, <1>2 DEF TypeOK, ShapeOK
<1>7. WalksOK'
  BY DEF TypeOK, WalksOK, HoldsPred, HoldsCurr
<1>8. ValidatedOK'
  <2>1. \A u \in Threads \ {t} : pc[u] \in {"apply", "unlink"} => pred[u] # p
    BY DEF LocksOK, HoldsPred
  <2> QED  BY <1>2, <2>1 DEF TypeOK, WalksOK, ValidatedOK, validateLink
<1>9. ListIntact'
  <2>1. \A u \in Threads \ {t} : pc[u] = "unlink" => curr[u] # c
    BY DEF LocksOK, HoldsCurr
  <2>2. InList' = InList \ {c}
    BY <1>0, <2>1 DEF TypeOK, InList
  <2>3. \A m \in InList \ {Tail, p} : next[m] # c
    <3> SUFFICES ASSUME NEW m \in InList \ {Tail, p}, next[m] = c
                 PROVE  FALSE
      OBVIOUS
    <3>1. key[m] \in Int /\ key[p] \in Int /\ key[c] \in Int /\ key[m] < key[c]
      BY <1>0, <1>1 DEF ListIntact
    <3>2. key[m] # key[p]
      BY <1>0 DEF ListIntact
    <3>3. key[m] < key[p]
      BY <1>0, <3>1, <3>2
    <3> QED  BY <1>0, <3>1, <3>3 DEF ListIntact
  <2>4. next[c] \in InList \ {c}
    BY <1>0, <1>1 DEF ListIntact
  <2>5. ASSUME NEW m \in InList' \ {Tail}
        PROVE  next'[m] \in InList' /\ key[m] < key[next'[m]]
    BY <1>0, <1>1, <1>2, <2>2, <2>3, <2>4 DEF ListIntact
  <2>6. ASSUME NEW m \in InList' \ {Tail}, NEW q \in InList', key[m] < key[q]
        PROVE  key[next'[m]] <= key[q]
    <3>1. CASE m # p
      BY <1>1, <1>2, <2>2, <2>6, <3>1 DEF ListIntact
    <3>2. CASE m = p
      <4>1. key[c] < key[q]
        BY <1>0, <1>1, <2>2, <2>6, <3>2 DEF ListIntact
      <4> QED  BY <1>0, <1>2, <2>2, <3>2, <4>1 DEF ListIntact
    <3> QED  BY <3>1, <3>2
  <2>7. ASSUME NEW m \in InList' \ {Tail}, NEW q \in InList', key[m] = key[q]
        PROVE  m = q
    BY <2>2, <2>7 DEF ListIntact
  <2> QED  BY <2>5, <2>6, <2>7 DEF ListIntact
<1> QED  BY <1>3, <1>4, <1>5, <1>6, <1>7, <1>8, <1>9

-----------------------------------------------------------------------------
LEMMA InitInv == Init => IInv
<1> SUFFICES ASSUME Init PROVE IInv
  OBVIOUS
<1> USE ListAssumption DEF Init
<1>1. TypeOK
  BY DEF TypeOK, PCs
<1>2. ControlOK /\ LocksOK /\ WalksOK /\ ValidatedOK
  BY DEF ControlOK, LocksOK, WalksOK, ValidatedOK, HoldsPred, HoldsCurr
<1>3. ShapeOK
  BY DEF ShapeOK
<1>4. InList = {Head, Tail}
  BY DEF InList
<1>5. ListIntact
  BY <1>4 DEF ListIntact
<1> QED  BY <1>1, <1>2, <1>3, <1>5 DEF IInv

LEMMA StutterInv ==
    ASSUME IInv, UNCHANGED vars
    PROVE  IInv'
<1> USE DEF IInv, vars
<1>1. InList' = InList
  BY DEF InList
<1>2. ListIntact'
  BY <1>1 DEF ListIntact
<1>3. TypeOK' /\ ControlOK' /\ ShapeOK'
  BY DEF TypeOK, ControlOK, ShapeOK
<1>4. LocksOK' /\ WalksOK' /\ ValidatedOK'
  BY DEF LocksOK, WalksOK, ValidatedOK, HoldsPred, HoldsCurr, validateLink
<1> QED  BY <1>2, <1>3, <1>4

LEMMA NextInv == IInv /\ [Next]_vars => IInv'
<1> SUFFICES ASSUME IInv, [Next]_vars PROVE IInv'
  OBVIOUS
<1>1. CASE UNCHANGED vars
  BY <1>1, StutterInv
<1>2. ASSUME NEW t \in Threads, NEW o \in Ops, NEW k \in Keys, Invoke(t, o, k)
      PROVE  IInv'
  BY <1>2, InvokeInv
<1>3. ASSUME NEW t \in Threads, Step(t)
      PROVE  IInv'
  BY <1>3, SearchStepInv, SearchEndInv, StartInv, WalkInv,
       TryLockPredInv, TryLockCurrInv, GiveUpInv, ValidateInv,
       ApplyNothingInv, LinkInv, MarkInv, UnlinkInv, UnlockPredInv,
       UnlockCurrInv, ReturnInv DEF Step
<1> QED  BY <1>1, <1>2, <1>3 DEF Next

(* The inductive invariant holds in every reachable state, whatever the    *)
(* number of threads, keys and nodes (ConcurrentList.cpp).                 *)
THEOREM Invariance == Spec => []IInv
BY InitInv, NextInv, PTL DEF Spec

(* Type correctness: in particular no walk runs off the end of the list    *)
(* into the null pointer of the tail.                                      *)
THEOREM TypeCorrect == Spec => []TypeOK
<1>1. IInv => TypeOK
  BY DEF IInv
<1> QED  BY <1>1, Invariance, PTL

(* The list stays sorted, free of duplicates and of gaps, and every member *)
(* stays linked in, whatever add and remove do concurrently.               *)
THEOREM ListStaysIntact == Spec => []ListIntact
<1>1. IInv => ListIntact
  BY DEF IInv
<1> QED  BY <1>1, Invariance, PTL

\* The steps that write no node and neither enter nor leave "unlink".
QuietStep(t) ==
    \/ \E o \in Ops, k \in Keys : Invoke(t, o, k)
    \/ SearchStep(t) \/ SearchEnd(t)
    \/ Start(t) \/ Walk(t) \/ TryLockPred(t) \/ TryLockCurr(t) \/ GiveUp(t)
    \/ Validate(t) \/ ApplyNothing(t)
    \/ UnlockPred(t) \/ UnlockCurr(t) \/ Return(t)

LEMMA QuietEffect ==
    ASSUME IInv, NEW t \in Threads, QuietStep(t)
    PROVE  UNCHANGED <<key, next, marked, alloc>> /\ InList' = InList /\ AbsSet' = AbsSet
<1>1. UNCHANGED <<key, next, marked, alloc>>
  BY DEF QuietStep, Invoke, SearchStep, SearchEnd, Start, Walk, TryLockPred, TryLockCurr,
         GiveUp, Validate, ApplyNothing, UnlockPred, UnlockCurr, Return, nodeVars
<1>2. pc[t] # "unlink" /\ pc'[t] # "unlink" /\ \A u \in Threads \ {t} : pc'[u] = pc[u] /\ curr'[u] = curr[u]
  BY DEF IInv, TypeOK, QuietStep, Invoke, SearchStep, SearchEnd, Start, Walk, TryLockPred,
         TryLockCurr, GiveUp, Validate, ApplyNothing, UnlockPred, UnlockCurr, Return
<1> QED  BY <1>1, <1>2 DEF InList, AbsSet, Members

LEMMA NextSplit ==
    ASSUME Next
    PROVE  \E t \in Threads : QuietStep(t) \/ Link(t) \/ Mark(t) \/ Unlink(t)
BY DEF Next, Step, QuietStep

(* Every write to the fields of a node in use is made by a thread that     *)
(* holds the lock of that node.                                            *)
THEOREM WritesStayLocked == Spec => WritesUnderLock
<1>1. ASSUME IInv, [Next]_vars
      PROVE  [\A n \in alloc :
                 (next'[n] # next[n] \/ marked'[n] # marked[n])
                     => \E t \in Threads : lock[n] = t /\ pc'[t] # pc[t]]_vars
  <2> SUFFICES ASSUME Next, NEW n \in alloc, next'[n] # next[n] \/ marked'[n] # marked[n]
               PROVE  \E t \in Threads : lock[n] = t /\ pc'[t] # pc[t]
    BY <1>1
  <2>1. PICK t \in Threads : QuietStep(t) \/ Link(t) \/ Mark(t) \/ Unlink(t)
    BY NextSplit
  <2>2. CASE QuietStep(t)
    BY <1>1, <2>2, QuietEffect
  <2>3. CASE Link(t)
    BY <1>1, <2>3 DEF Link, IInv, TypeOK, LocksOK, HoldsPred
  <2>4. CASE Mark(t)
    BY <1>1, <2>4 DEF Mark, IInv, TypeOK, LocksOK, HoldsCurr
  <2>5. CASE Unlink(t)
    BY <1>1, <2>5 DEF Unlink, IInv, TypeOK, LocksOK, HoldsPred
  <2> QED  BY <2>1, <2>2, <2>3, <2>4, <2>5
<1> QED  BY <1>1, Invariance, PTL DEF Spec, WritesUnderLock

(* A node that was removed and unlinked is never written again.            *)
THEOREM RemovedStaysFrozen == Spec => RemovedIsFrozen
<1>1. ASSUME IInv, [Next]_vars
      PROVE  [\A n \in alloc \ InList : next'[n] = next[n] /\ marked'[n]]_vars
  <2> SUFFICES ASSUME Next, NEW n \in alloc \ InList
               PROVE  next'[n] = next[n] /\ marked'[n]
    BY <1>1
  <2>0. marked[n]
    BY DEF InList
  <2>1. PICK t \in Threads : QuietStep(t) \/ Link(t) \/ Mark(t) \/ Unlink(t)
    BY NextSplit
  <2>2. CASE QuietStep(t)
    BY <1>1, <2>0, <2>2, QuietEffect
  <2>3. CASE Link(t)
    BY <1>1, <2>0, <2>3, ValidatedPlace DEF Link, IInv, TypeOK
  <2>4. CASE Mark(t)
    BY <1>1, <2>0, <2>4 DEF Mark, IInv, TypeOK
  <2>5. CASE Unlink(t)
    BY <1>1, <2>0, <2>5, ValidatedPlace DEF Unlink, IInv, TypeOK
  <2> QED  BY <2>1, <2>2, <2>3, <2>4, <2>5
<1> QED  BY <1>1, Invariance, PTL DEF Spec, RemovedIsFrozen

-----------------------------------------------------------------------------
(* The refinement of LinSet. *)

\* What each kind of step does to the set and to the nodes in the list.
LEMMA LinkEffect ==
    ASSUME IInv, NEW t \in Threads, Link(t)
    PROVE  /\ arg[t] \notin AbsSet
           /\ AbsSet' = AbsSet \cup {arg[t]}
           /\ \E n \in Nodes \ alloc :
                 /\ InList' = InList \cup {n}
                 /\ alloc' = alloc \cup {n}
                 /\ key' = [key EXCEPT ![n] = arg[t]]
                 /\ next' = [next EXCEPT ![n] = curr[t], ![pred[t]] = n]
<1> USE ListAssumption DEF IInv, TypeOK
<1>1. PICK n \in Nodes \ alloc :
          /\ alloc' = alloc \cup {n}
          /\ key' = [key EXCEPT ![n] = arg[t]]
          /\ next' = [next EXCEPT ![n] = curr[t], ![pred[t]] = n]
  BY DEF Link
<1>2. InList' = InList \cup {n}
  BY <1>1 DEF Link, InList, ShapeOK
<1>3. \A m \in InList : key[m] # arg[t]
  <2>1. arg[t] # key[curr[t]] /\ pc[t] = "apply"
    BY DEF Link, Writes
  <2>2. /\ key[pred[t]] < arg[t] /\ arg[t] <= key[curr[t]] /\ arg[t] \in Keys
        /\ pred[t] \in InList /\ curr[t] \in InList
        /\ \A m \in InList : key[m] <= key[pred[t]] \/ key[curr[t]] <= key[m]
    BY <2>1, ValidatedPlace
  <2>3. \A m \in InList : key[m] \in Int
    BY KeysAreInts
  <2>4. arg[t] \in Int
    BY <2>2, KeyBounds
  <2> HIDE DEF IInv, TypeOK
  <2> QED  BY <2>1, <2>2, <2>3, <2>4
<1>4. Members' = Members \cup {n}
  BY <1>1 DEF Link, Members, ShapeOK
<1>5. AbsSet' = AbsSet \cup {arg[t]}
  BY <1>1, <1>4 DEF AbsSet, Members
<1>6. Members \subseteq InList
  BY DEF Members, InList
<1> QED  BY <1>1, <1>2, <1>3, <1>5, <1>6 DEF AbsSet

LEMMA MarkEffect ==
    ASSUME IInv, NEW t \in Threads, Mark(t)
    PROVE  /\ arg[t] \in AbsSet
           /\ AbsSet' = AbsSet \ {arg[t]}
           /\ InList' = InList
           /\ curr[t] \in InList /\ key[curr[t]] = arg[t]
<1> USE ListAssumption DEF IInv
<1>1. /\ key[curr[t]] = arg[t] /\ arg[t] \in Keys /\ curr[t] \in alloc
      /\ ~marked[curr[t]] /\ lock[curr[t]] = t
  BY DEF Mark, Writes, ControlOK, WalksOK, ValidatedOK, validateLink, LocksOK, HoldsCurr
<1>2. curr[t] \in Members
  BY <1>1, KeyBounds DEF Members, ShapeOK
<1>3. Members \subseteq InList \ {Tail}
  BY DEF Members, InList
<1>4. Members' = Members \ {curr[t]}
  BY <1>1 DEF Mark, Members, TypeOK
<1>5. \A m \in Members : key[m] = arg[t] => m = curr[t]
  BY <1>1, <1>2, <1>3 DEF ListIntact
<1>6. InList' = InList
  BY <1>1 DEF Mark, TypeOK, InList
<1>7. key' = key
  BY DEF Mark
<1> QED  BY <1>1, <1>2, <1>3, <1>4, <1>5, <1>6, <1>7 DEF AbsSet

LEMMA UnlinkEffect ==
    ASSUME IInv, NEW t \in Threads, Unlink(t)
    PROVE  AbsSet' = AbsSet /\ InList' = InList \ {curr[t]} /\ next[curr[t]] \in InList'
<1> USE ListAssumption DEF IInv
<1>1. \A u \in Threads \ {t} : pc[u] = "unlink" => curr[u] # curr[t]
  BY DEF Unlink, LocksOK, HoldsCurr
<1>2. marked[curr[t]] /\ curr[t] \in InList
  BY ValidatedPlace DEF Unlink, ValidatedOK
<1>3. InList' = InList \ {curr[t]}
  BY <1>1, <1>2 DEF Unlink, TypeOK, InList
<1>4. AbsSet' = AbsSet
  BY DEF Unlink, AbsSet, Members
<1>5. curr[t] # Tail /\ next[curr[t]] \in InList
  BY <1>2 DEF ShapeOK, ListIntact
<1>6. next[curr[t]] # curr[t]
  BY <1>2, <1>5, KeysAreInts DEF ListIntact
<1> QED  BY <1>3, <1>4, <1>5, <1>6

-----------------------------------------------------------------------------
(* A node outside the new list is the same as before the step: only nodes  *)
(* of the list are written.                                                *)
LEMMA OnlyTheListChanges ==
    ASSUME IInv, [Next]_vars
    PROVE  /\ alloc \subseteq alloc'
           /\ \A n \in alloc : key'[n] = key[n]
           /\ \A n \in alloc \ InList' : next'[n] = next[n] /\ marked'[n] = marked[n]
<1>1. CASE UNCHANGED vars
  BY <1>1 DEF vars
<1>2. ASSUME Next
      PROVE  /\ alloc \subseteq alloc'
             /\ \A n \in alloc : key'[n] = key[n]
             /\ \A n \in alloc \ InList' : next'[n] = next[n] /\ marked'[n] = marked[n]
  <2>1. PICK t \in Threads : QuietStep(t) \/ Link(t) \/ Mark(t) \/ Unlink(t)
    BY <1>2, NextSplit
  <2>2. CASE QuietStep(t)
    BY <2>2, QuietEffect
  <2>3. CASE Link(t)
    <3>1. pred[t] \in InList
      BY <2>3, ValidatedPlace DEF Link
    <3>2. PICK n \in Nodes \ alloc :
              /\ InList' = InList \cup {n}
              /\ alloc' = alloc \cup {n}
              /\ key' = [key EXCEPT ![n] = arg[t]]
              /\ next' = [next EXCEPT ![n] = curr[t], ![pred[t]] = n]
      BY <2>3, LinkEffect
    <3>3. marked' = marked
      BY <2>3 DEF Link
    <3>4. \A m \in alloc : m \in Nodes /\ m # n
      BY <3>2, KeysAreInts DEF IInv
    <3>5. \A m \in alloc : key'[m] = key[m] /\ (m # pred[t] => next'[m] = next[m])
      BY <3>2, <3>4 DEF IInv, TypeOK
    <3> QED  BY <3>1, <3>2, <3>3, <3>5
  <2>4. CASE Mark(t)
    BY <2>4, MarkEffect DEF Mark, IInv, TypeOK
  <2>5. CASE Unlink(t)
    <3>1. pred[t] \in InList /\ pred[t] # curr[t]
      BY <2>5, ValidatedPlace, KeysAreInts, KeyBounds DEF Unlink, IInv, ValidatedOK
    <3>2. InList' = InList \ {curr[t]}
      BY <2>5, UnlinkEffect
    <3>3. /\ next' = [next EXCEPT ![pred[t]] = next[curr[t]]]
          /\ alloc' = alloc /\ key' = key /\ marked' = marked
      BY <2>5 DEF Unlink
    <3>4. \A m \in alloc : m # pred[t] => next'[m] = next[m]
      BY <3>3, KeysAreInts DEF IInv, TypeOK
    <3> QED  BY <3>1, <3>2, <3>3, <3>4
  <2> QED  BY <2>1, <2>2, <2>3, <2>4, <2>5
<1> QED  BY <1>1, <1>2

\* No node of the list links past a key of the set.
ListLeadsToMembers ==
    \A k \in AbsSet, n \in InList :
        /\ key[n] < k => next[n] \in InList /\ key[next[n]] <= k
        /\ key[n] = k => ~marked[n]

LEMMA LeadsToMembers == IInv => ListLeadsToMembers
<1> SUFFICES ASSUME IInv, NEW k \in AbsSet, NEW n \in InList
             PROVE  /\ key[n] < k => next[n] \in InList /\ key[next[n]] <= k
                    /\ key[n] = k => ~marked[n]
  BY DEF ListLeadsToMembers
<1>1. PICK m \in Members : key[m] = k
  BY DEF AbsSet
<1>2. m \in InList /\ m # Tail /\ ~marked[m] /\ m \in alloc \ {Head, Tail}
  BY DEF Members, InList
<1>3. k \in Int /\ k < MaxKey
  BY <1>1, <1>2, KeyBounds DEF IInv, ShapeOK
<1>4. key[n] < k => n # Tail
  BY <1>3, ListAssumption DEF IInv, ShapeOK
<1>5. key[n] = k => n = m
  BY <1>1, <1>2 DEF IInv, ListIntact
<1> QED  BY <1>1, <1>2, <1>4, <1>5 DEF IInv, ListIntact

LEMMA HistoryStep ==
    ASSUME HInv, IInv', Next, Record
    PROVE  HistoryOK'
<1> USE DEF HInv
<1>1. alloc \subseteq alloc' /\ InList' \subseteq alloc'
  BY OnlyTheListChanges DEF InList
<1>2. alive' \in [Threads -> SUBSET alloc']
  BY <1>1 DEF Record, HistoryOK
<1>3. seen' \in [Threads -> SUBSET {"in", "out"}]
  BY DEF Record, HistoryOK, Membership
<1>4. ASSUME NEW t \in Threads
      PROVE  /\ op'[t] = "none" => seen'[t] = {} /\ alive'[t] = {}
             /\ op'[t] # "none" =>
                   Membership(arg'[t], AbsSet') \in seen'[t] /\ InList' \subseteq alive'[t]
  BY DEF Record
<1> QED  BY <1>2, <1>3, <1>4 DEF HistoryOK, Membership

\* The key of a call stays what it was.
LEMMA CallsKeepTheirKey ==
    ASSUME IInv, Next, NEW t \in Threads, op'[t] # "none"
    PROVE  /\ op[t] # "none" => op'[t] = op[t] /\ arg'[t] = arg[t]
           /\ op[t] = "none" => pc'[t] \in {"search", "start"} /\ curr'[t] = Head
<1>1. PICK u \in Threads : (\E o \in Ops, k \in Keys : Invoke(u, o, k)) \/ Step(u)
  BY DEF Next
<1>2. CASE \E o \in Ops, k \in Keys : Invoke(u, o, k)
  BY <1>2 DEF Invoke, IInv, TypeOK, ControlOK
<1>3. CASE Step(u)
  <2>1. op'[t] = op[t] /\ arg'[t] = arg[t]
    BY <1>3 DEF Step, SearchStep, SearchEnd, Start, Walk, TryLockPred, TryLockCurr,
            GiveUp, Validate, ApplyNothing, Link, Mark, Unlink, UnlockPred, UnlockCurr,
            Return, callVars, IInv, TypeOK
  <2>2. op[u] # "none"
    BY <1>3 DEF Step, SearchStep, SearchEnd, Start, Walk, TryLockPred, TryLockCurr,
            GiveUp, Validate, ApplyNothing, Link, Mark, Unlink, UnlockPred, UnlockCurr,
            Return, IInv, ControlOK
  <2> QED  BY <2>1
<1> QED  BY <1>1, <1>2, <1>3

\* What a search stands on after a step.
LEMMA SearchMoves ==
    ASSUME IInv, Next, NEW t \in Threads, pc'[t] = "search"
    PROVE  \/ op[t] = "none" /\ curr'[t] = Head
           \/ pc[t] = "search" /\ curr'[t] = curr[t]
           \/ /\ pc[t] = "search" /\ key[curr[t]] < arg[t]
              /\ curr'[t] = next[curr[t]]
<1>1. PICK u \in Threads : (\E o \in Ops, k \in Keys : Invoke(u, o, k)) \/ Step(u)
  BY DEF Next
<1>2. CASE \E o \in Ops, k \in Keys : Invoke(u, o, k)
  BY <1>2 DEF Invoke, IInv, TypeOK, ControlOK
<1>3. CASE Step(u)
  BY <1>3 DEF Step, SearchStep, SearchEnd, Start, Walk, TryLockPred, TryLockCurr,
          GiveUp, Validate, ApplyNothing, Link, Mark, Unlink, UnlockPred, UnlockCurr,
          Return, IInv, TypeOK
<1> QED  BY <1>1, <1>2, <1>3

LEMMA HindsightStep ==
    ASSUME HInv, IInv', HistoryOK', Next, Record
    PROVE  Hindsight'
<1> SUFFICES ASSUME NEW t \in Threads, op'[t] # "none", "out" \notin seen'[t]
             PROVE  /\ \A n \in alive'[t] :
                          /\ key'[n] < arg'[t] =>
                                next'[n] \in alive'[t] /\ key'[next'[n]] <= arg'[t]
                          /\ key'[n] = arg'[t] => ~marked'[n]
                    /\ pc'[t] = "search" =>
                          curr'[t] \in alive'[t] /\ key'[curr'[t]] <= arg'[t]
  BY DEF Hindsight
<1>1. arg'[t] \in AbsSet' /\ InList' \subseteq alive'[t] /\ alive'[t] = alive[t] \cup InList'
  BY DEF HistoryOK, Membership, Record
<1>2. /\ alloc \subseteq alloc' /\ \A n \in alloc : key'[n] = key[n]
      /\ \A n \in alloc \ InList' : next'[n] = next[n] /\ marked'[n] = marked[n]
  BY OnlyTheListChanges DEF HInv
<1>3. \A n \in InList' :
          /\ key'[n] < arg'[t] => next'[n] \in InList' /\ key'[next'[n]] <= arg'[t]
          /\ key'[n] = arg'[t] => ~marked'[n]
  <2>1. ListLeadsToMembers'
    BY LeadsToMembers, PTL
  <2> QED  BY <1>1, <2>1 DEF ListLeadsToMembers
<1>4. CASE op[t] = "none"
  <2>1. alive'[t] = InList'
    BY <1>1, <1>4 DEF HInv, HistoryOK
  <2>2. pc'[t] = "search" => curr'[t] = Head
    BY <1>4, CallsKeepTheirKey DEF HInv
  <2>3. Head \in InList' /\ key'[Head] <= arg'[t]
    <3>1. Head \in InList' /\ key'[Head] = MinKey
      BY DEF IInv, ShapeOK, InList
    <3>2. arg'[t] \in Keys
      BY DEF IInv, ControlOK
    <3>3. arg'[t] \in Int /\ MinKey < arg'[t] /\ MinKey \in Int
      BY <3>2, KeyBounds, ListAssumption
    <3> QED  BY <3>1, <3>3
  <2> QED  BY <1>3, <2>1, <2>2, <2>3
<1>5. CASE op[t] # "none"
  <2>1. arg'[t] = arg[t] /\ "out" \notin seen[t]
    BY <1>5, CallsKeepTheirKey DEF HInv, Record
  <2>2. /\ \A n \in alive[t] :
              /\ key[n] < arg[t] => next[n] \in alive[t] /\ key[next[n]] <= arg[t]
              /\ key[n] = arg[t] => ~marked[n]
        /\ pc[t] = "search" => curr[t] \in alive[t] /\ key[curr[t]] <= arg[t]
        /\ alive[t] \subseteq alloc
    BY <1>5, <2>1 DEF HInv, Hindsight, HistoryOK
  <2>3. ASSUME NEW n \in alive'[t]
        PROVE  /\ key'[n] < arg'[t] =>
                     next'[n] \in alive'[t] /\ key'[next'[n]] <= arg'[t]
               /\ key'[n] = arg'[t] => ~marked'[n]
    <3>1. CASE n \in InList'
      BY <1>1, <1>3, <3>1
    <3>2. CASE n \in alive[t] \ InList'
      <4>1. n \in alloc /\ key'[n] = key[n] /\ next'[n] = next[n] /\ marked'[n] = marked[n]
        BY <1>2, <2>2, <3>2
      <4>2. key[n] < arg[t] => next[n] \in alive[t] /\ key'[next[n]] = key[next[n]]
        BY <1>2, <2>2, <3>2
      <4> QED  BY <1>1, <2>1, <2>2, <3>2, <4>1, <4>2
    <3> QED  BY <1>1, <2>3, <3>1, <3>2
  <2>4. ASSUME pc'[t] = "search"
        PROVE  curr'[t] \in alive'[t] /\ key'[curr'[t]] <= arg'[t]
    <3>1. \/ pc[t] = "search" /\ curr'[t] = curr[t]
          \/ pc[t] = "search" /\ key[curr[t]] < arg[t] /\ curr'[t] = next[curr[t]]
      BY <1>5, <2>4, SearchMoves DEF HInv
    <3>2. curr'[t] \in alive[t] /\ key[curr'[t]] <= arg[t]
      BY <2>2, <3>1
    <3> QED  BY <1>1, <1>2, <2>1, <2>2, <3>2
  <2> QED  BY <2>3, <2>4
<1> QED  BY <1>4, <1>5

-----------------------------------------------------------------------------
LEMMA HInitInv == HInit => HInv
<1> SUFFICES ASSUME HInit PROVE HInv
  OBVIOUS
<1>1. IInv
  BY InitInv DEF HInit
<1>2. HistoryOK /\ Hindsight
  BY DEF HInit, Init, HistoryOK, Hindsight
<1> QED  BY <1>1, <1>2 DEF HInv

LEMMA HNextInv == HInv /\ [HNext]_hvars => HInv'
<1> SUFFICES ASSUME HInv, [HNext]_hvars PROVE HInv'
  OBVIOUS
<1>1. IInv'
  BY NextInv DEF HInv, HNext, hvars
<1>2. CASE HNext
  BY <1>1, <1>2, HistoryStep, HindsightStep DEF HInv, HNext
<1>3. CASE UNCHANGED hvars
  <2>1. InList' = InList /\ AbsSet' = AbsSet /\ UNCHANGED <<alloc, key, next, marked, op, arg, pc, curr, seen, alive>>
    BY <1>3 DEF hvars, vars, InList, AbsSet, Members
  <2> QED  BY <1>1, <2>1 DEF HInv, HistoryOK, Hindsight, Membership
<1> QED  BY <1>2, <1>3

(* The history invariants hold in every reachable state. *)
THEOREM HistoryInvariance == HSpec => []HInv
BY HInitInv, HNextInv, PTL DEF HSpec

(* A walk without locks for a key that is in the set all the time meets    *)
(* only nodes that lead to it, however many removes unlink them meanwhile. *)
THEOREM WalksFindTheirKey == HSpec => []Hindsight
<1>1. HInv => Hindsight
  BY DEF HInv
<1> QED  BY <1>1, HistoryInvariance, PTL

-----------------------------------------------------------------------------
\* As long as the set and the calls stay, what the calls have seen stays.
LEMMA SeenStays ==
    ASSUME HInv, Record, AbsSet' = AbsSet, op' = op, arg' = arg
    PROVE  seen' = seen
<1>1. ASSUME NEW t \in Threads
      PROVE  seen'[t] = seen[t]
  BY DEF HInv, HistoryOK, Record, Membership
<1> QED  BY <1>1 DEF HInv, HistoryOK, Record

AbsStep == [Abstract!Next]_(Abstract!vars)

\* A step that decides an outcome without writing is a Decide of LinSet.
LEMMA Decides ==
    ASSUME HInv, Record, NEW t \in Threads, NEW r \in {"TRUE", "FALSE", "ABORT"},
           AbsSet' = AbsSet, op' = op, arg' = arg, res[t] = "none",
           res' = [res EXCEPT ![t] = r], Abstract!Admissible(t, r)
    PROVE  Abstract!Next
<1>1. Abstract!Decide(t, r)
  BY SeenStays DEF Abstract!Decide
<1> QED  BY <1>1 DEF Abstract!Next, Abstract!Outcomes

LEMMA InvokeRefines ==
    ASSUME HInv, Record, NEW t \in Threads, NEW o \in Ops, NEW k \in Keys, Invoke(t, o, k)
    PROVE  Abstract!Next
<1>1. AbsSet' = AbsSet
  BY QuietEffect DEF HInv, QuietStep
<1>2. /\ op[t] = "none" /\ op' = [op EXCEPT ![t] = o] /\ arg' = [arg EXCEPT ![t] = k]
      /\ res' = res
  BY DEF Invoke, HInv, IInv, ControlOK
<1>3. seen' = [seen EXCEPT ![t] = {Membership(k, AbsSet)}]
  <2>1. seen'[t] = {Membership(k, AbsSet)}
    BY <1>1, <1>2 DEF Record, HInv, HistoryOK, IInv, TypeOK, Ops
  <2>2. ASSUME NEW u \in Threads \ {t}
        PROVE  seen'[u] = seen[u]
    BY <1>1, <1>2 DEF Record, HInv, HistoryOK, Membership, IInv, TypeOK
  <2> QED  BY <2>1, <2>2 DEF Record, HInv, HistoryOK
<1>4. Abstract!Invoke(t, o, k)
  BY <1>1, <1>2, <1>3 DEF Abstract!Invoke, Abstract!Membership, Membership
<1> QED  BY <1>4 DEF Abstract!Next, Abstract!Ops, Ops

\* The answer of contains was right at some time since its call.
LEMMA SearchEndRefines ==
    ASSUME HInv, Record, NEW t \in Threads, SearchEnd(t)
    PROVE  Abstract!Next
<1> USE DEF HInv
<1>1. /\ op[t] = "contains" /\ res[t] = "none" /\ op' = op /\ arg' = arg
      /\ pc[t] = "search" /\ key[curr[t]] >= arg[t]
      /\ curr[t] \in alloc /\ arg[t] \in Keys /\ key[curr[t]] \in Int
  BY KeysAreInts DEF SearchEnd, callVars, IInv, ControlOK, WalksOK
<1>2. AbsSet' = AbsSet
  BY QuietEffect DEF QuietStep
<1>3. CASE key[curr[t]] = arg[t] /\ ~marked[curr[t]]
  <2>1. curr[t] \in Members
    BY <1>1, <1>3, KeyBounds DEF Members, IInv, ShapeOK
  <2>2. "in" \in seen[t]
    BY <1>1, <1>3, <2>1 DEF AbsSet, HistoryOK, Membership
  <2> QED  BY <1>1, <1>2, <1>3, <2>2, Decides DEF SearchEnd, Abstract!Admissible
<1>4. CASE ~(key[curr[t]] = arg[t] /\ ~marked[curr[t]])
  <2>1. "out" \in seen[t]
    BY <1>1, <1>4, KeyBounds DEF Hindsight
  <2> QED  BY <1>1, <1>2, <1>4, <2>1, Decides DEF SearchEnd, Abstract!Admissible
<1> QED  BY <1>3, <1>4

\* Giving up on a busy lock changes nothing; a free lock is not visible.
LEMMA TryLockRefines ==
    ASSUME HInv, Record, NEW t \in Threads, TryLockPred(t) \/ TryLockCurr(t)
    PROVE  AbsStep
<1> USE DEF HInv
<1>1. /\ op[t] \in {"add", "remove"} /\ res[t] = "none" /\ op' = op /\ arg' = arg
      /\ res' = res \/ res' = [res EXCEPT ![t] = "ABORT"]
  BY DEF TryLockPred, TryLockCurr, Abort, callVars, IInv, ControlOK
<1>2. AbsSet' = AbsSet
  BY QuietEffect DEF QuietStep
<1>3. CASE res' = res
  BY <1>1, <1>2, <1>3, SeenStays DEF AbsStep, Abstract!vars
<1>4. CASE res' = [res EXCEPT ![t] = "ABORT"]
  BY <1>1, <1>2, <1>4, Decides DEF AbsStep, Abstract!Admissible
<1> QED  BY <1>1, <1>3, <1>4

\* add found the key, or remove its absence, under both locks.
LEMMA ApplyNothingRefines ==
    ASSUME HInv, Record, NEW t \in Threads, ApplyNothing(t)
    PROVE  Abstract!Next
<1> USE DEF HInv
<1>1. /\ op[t] \in {"add", "remove"} /\ res[t] = "none" /\ op' = op /\ arg' = arg
      /\ pc[t] = "apply" /\ res' = [res EXCEPT ![t] = "FALSE"]
  BY DEF ApplyNothing, callVars, IInv, ControlOK
<1>2. AbsSet' = AbsSet
  BY QuietEffect DEF QuietStep
<1>3. CASE op[t] = "add"
  <2>1. key[curr[t]] = arg[t] /\ ~marked[curr[t]] /\ curr[t] \in alloc /\ arg[t] \in Keys
    BY <1>1, <1>3 DEF ApplyNothing, Writes, IInv, ValidatedOK, validateLink, WalksOK, ControlOK
  <2>2. curr[t] \in Members
    BY <2>1, KeyBounds DEF Members, IInv, ShapeOK
  <2>3. "in" \in seen[t]
    BY <1>3, <2>1, <2>2 DEF AbsSet, HistoryOK, Membership
  <2> QED  BY <1>1, <1>2, <1>3, <2>3, Decides DEF Abstract!Admissible
<1>4. CASE op[t] = "remove"
  <2>1. key[curr[t]] # arg[t]
    BY <1>4 DEF ApplyNothing, Writes
  <2>2. /\ key[pred[t]] < arg[t] /\ arg[t] <= key[curr[t]] /\ arg[t] \in Int
        /\ pred[t] \in InList /\ curr[t] \in InList
        /\ \A n \in InList : key[n] <= key[pred[t]] \/ key[curr[t]] <= key[n]
    BY <1>1, ValidatedPlace, KeyBounds
  <2>3. \A n \in InList : key[n] \in Int
    BY KeysAreInts DEF IInv
  <2>4. \A n \in InList : key[n] # arg[t]
    BY <2>1, <2>2, <2>3
  <2>5. arg[t] \notin AbsSet
    BY <2>4 DEF AbsSet, Members, InList
  <2>6. "out" \in seen[t]
    BY <1>4, <2>5 DEF HistoryOK, Membership
  <2> QED  BY <1>1, <1>2, <1>4, <2>6, Decides DEF Abstract!Admissible
<1> QED  BY <1>1, <1>3, <1>4

\* What the calls see of a write to key k.
LEMMA WitnessRefines ==
    ASSUME HInv, Record, NEW k, NEW m \in {"in", "out"}, op' = op, arg' = arg,
           Membership(k, AbsSet') = m,
           \A j : j # k => Membership(j, AbsSet') = Membership(j, AbsSet)
    PROVE  Abstract!Witness(k, m)
<1>1. ASSUME NEW u \in Threads
      PROVE  seen'[u] = IF op[u] # "none" /\ arg[u] = k THEN seen[u] \cup {m} ELSE seen[u]
  <2>1. CASE op[u] = "none"
    BY <2>1 DEF Record, HInv, HistoryOK
  <2>2. CASE op[u] # "none" /\ arg[u] = k
    BY <2>2 DEF Record
  <2>3. CASE op[u] # "none" /\ arg[u] # k
    <3>1. Membership(arg[u], AbsSet') \in seen[u]
      BY <2>3 DEF HInv, HistoryOK
    <3> QED  BY <2>3, <3>1 DEF Record
  <2> QED  BY <2>1, <2>2, <2>3
<1> QED  BY <1>1 DEF Record, Abstract!Witness

LEMMA LinkRefines ==
    ASSUME HInv, Record, NEW t \in Threads, Link(t)
    PROVE  Abstract!Next
<1>1. arg[t] \notin AbsSet /\ AbsSet' = AbsSet \cup {arg[t]}
  BY LinkEffect DEF HInv
<1>2. /\ op[t] = "add" /\ res[t] = "none" /\ op' = op /\ arg' = arg
      /\ res' = [res EXCEPT ![t] = "TRUE"]
  BY DEF Link, callVars, HInv, IInv, ControlOK
<1>3. Abstract!Witness(arg[t], "in")
  BY <1>1, <1>2, WitnessRefines DEF Membership
<1>4. Abstract!AddEffect(t)
  BY <1>1, <1>2, <1>3 DEF Abstract!AddEffect
<1> QED  BY <1>4 DEF Abstract!Next

LEMMA MarkRefines ==
    ASSUME HInv, Record, NEW t \in Threads, Mark(t)
    PROVE  Abstract!Next
<1>1. arg[t] \in AbsSet /\ AbsSet' = AbsSet \ {arg[t]}
  BY MarkEffect DEF HInv
<1>2. /\ op[t] = "remove" /\ res[t] = "none" /\ op' = op /\ arg' = arg
      /\ res' = [res EXCEPT ![t] = "TRUE"]
  BY DEF Mark, callVars, HInv, IInv, ControlOK
<1>3. Abstract!Witness(arg[t], "out")
  BY <1>1, <1>2, WitnessRefines DEF Membership
<1>4. Abstract!RemoveEffect(t)
  BY <1>1, <1>2, <1>3 DEF Abstract!RemoveEffect
<1> QED  BY <1>4 DEF Abstract!Next

LEMMA ReturnRefines ==
    ASSUME HInv, Record, NEW t \in Threads, Return(t)
    PROVE  Abstract!Next
<1>1. AbsSet' = AbsSet
  BY QuietEffect DEF HInv, QuietStep
<1>2. /\ op[t] # "none" /\ res[t] # "none" /\ op' = [op EXCEPT ![t] = "none"]
      /\ arg' = [arg EXCEPT ![t] = NoKey] /\ res' = [res EXCEPT ![t] = "none"]
  BY DEF Return, HInv, IInv, ControlOK
<1>3. seen' = [seen EXCEPT ![t] = {}]
  <2>1. seen'[t] = {}
    BY <1>2 DEF Record, HInv, IInv, TypeOK
  <2>2. ASSUME NEW u \in Threads \ {t}
        PROVE  seen'[u] = seen[u]
    BY <1>1, <1>2 DEF Record, HInv, HistoryOK, Membership, IInv, TypeOK
  <2> QED  BY <2>1, <2>2 DEF Record, HInv, HistoryOK
<1>4. Abstract!Return(t)
  BY <1>1, <1>2, <1>3 DEF Abstract!Return
<1> QED  BY <1>4 DEF Abstract!Next

LEMMA SilentRefines ==
    ASSUME HInv, Record, NEW t \in Threads,
           \/ SearchStep(t) \/ Start(t) \/ Walk(t) \/ GiveUp(t) \/ Validate(t)
           \/ Unlink(t) \/ UnlockPred(t) \/ UnlockCurr(t)
    PROVE  AbsStep
<1>1. AbsSet' = AbsSet
  BY QuietEffect, UnlinkEffect DEF HInv, QuietStep
<1>2. op' = op /\ arg' = arg /\ res' = res
  BY DEF SearchStep, Start, Walk, GiveUp, Validate, Unlink, UnlockPred, UnlockCurr, callVars
<1> QED  BY <1>1, <1>2, SeenStays DEF AbsStep, Abstract!vars

LEMMA StepRefines == HInv /\ [HNext]_hvars => AbsStep
<1> SUFFICES ASSUME HInv, [HNext]_hvars PROVE AbsStep
  OBVIOUS
<1>1. CASE UNCHANGED hvars
  <2>1. AbsSet' = AbsSet
    BY <1>1 DEF hvars, vars, AbsSet, Members
  <2> QED  BY <1>1, <2>1 DEF hvars, vars, AbsStep, Abstract!vars
<1>2. ASSUME Record, NEW t \in Threads, NEW o \in Ops, NEW k \in Keys, Invoke(t, o, k)
      PROVE  AbsStep
  BY <1>2, InvokeRefines DEF AbsStep
<1>3. ASSUME Record, NEW t \in Threads, Step(t)
      PROVE  AbsStep
  <2>1. CASE SearchEnd(t) \/ ApplyNothing(t) \/ Link(t) \/ Mark(t) \/ Return(t)
    BY <1>3, <2>1, SearchEndRefines, ApplyNothingRefines, LinkRefines, MarkRefines,
       ReturnRefines DEF AbsStep
  <2>2. CASE TryLockPred(t) \/ TryLockCurr(t)
    BY <1>3, <2>2, TryLockRefines
  <2>3. CASE \/ SearchStep(t) \/ Start(t) \/ Walk(t) \/ GiveUp(t) \/ Validate(t)
             \/ Unlink(t) \/ UnlockPred(t) \/ UnlockCurr(t)
    BY <1>3, <2>3, SilentRefines
  <2> QED  BY <1>3, <2>1, <2>2, <2>3 DEF Step
<1> QED  BY <1>1, <1>2, <1>3 DEF HNext, Next

LEMMA InitRefines == HInit => Abstract!Init
<1> SUFFICES ASSUME HInit PROVE Abstract!Init
  OBVIOUS
<1>1. AbsSet = {}
  BY DEF HInit, Init, AbsSet, Members
<1> QED  BY <1>1 DEF HInit, Init, Abstract!Init

(* The lazy list implements the linearizable set for any number of         *)
(* threads, keys and nodes: contains without locks, add and remove with    *)
(* try-locks and validation (ConcurrentList.cpp).                          *)
THEOREM ListIsLinearizable == HSpec => Linearizable
<1>1. HSpec => [][AbsStep]_(Abstract!vars)
  BY StepRefines, HistoryInvariance, PTL DEF HSpec, AbsStep
<1> QED  BY <1>1, InitRefines, StepRefines, HistoryInvariance, PTL
         DEF HSpec, Linearizable, Abstract!Spec, AbsStep

=============================================================================
