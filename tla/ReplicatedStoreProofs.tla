----------------------- MODULE ReplicatedStoreProofs -----------------------
(***************************************************************************)
(* The safety of the replicated store for any number of servers, clients,  *)
(* threads, workers, buckets and keys.  In this order: the types and how   *)
(* far a put has got on its round of the servers; that a lock word is 1    *)
(* exactly while one put owns it; the value that is due at a server, that  *)
(* is what it holds once it has applied what is under way, and that due    *)
(* values agree; and the counters, as sums over the threads.               *)
(***************************************************************************)
EXTENDS ReplicatedStore, FiniteSetFacts, SequenceTheorems

-----------------------------------------------------------------------------
\* Arithmetic.
LEMMA TimesMonotone ==
    \A a, b, c \in Nat : a <= b => a * c <= b * c
<1> SUFFICES ASSUME NEW a \in Nat, NEW b \in Nat, NEW c \in Nat, a <= b
             PROVE  a * c <= b * c
  OBVIOUS
<1> DEFINE d == b - a
<1>1. d \in Nat /\ b = a + d
  OBVIOUS
<1> HIDE DEF d
<1>2. (a + d) * c = a * c + d * c
  BY <1>1
<1>3. d * c \in Nat /\ a * c \in Nat
  BY <1>1
<1> QED BY <1>1, <1>2, <1>3

LEMMA ModSmall ==
    ASSUME NEW n \in Nat, n # 0, NEW f \in Nat, NEW j \in Nat, f < n, j < n
    PROVE  (f + j) % n = IF f + j < n THEN f + j ELSE f + j - n
<1> DEFINE x == f + j
<1>1. x \in Nat /\ x < 2 * n
  OBVIOUS
<1> HIDE DEF x
<1>2. x % n = IF x < n THEN x ELSE x - n
  BY <1>1
<1> QED BY <1>2 DEF x

LEMMA ModRange == \A n \in Nat \ {0}, a \in Nat : a % n \in 0 .. n - 1
OBVIOUS

\* What is left of a sequence when one element is removed.
LEMMA RemoveAtFacts ==
    ASSUME NEW S, NEW q \in Seq(S), NEW j \in 1 .. Len(q)
    PROVE  /\ RemoveAt(q, j) \in Seq(S)
           /\ Len(RemoveAt(q, j)) = Len(q) - 1
           /\ \A l \in 1 .. Len(q) - 1 :
                 RemoveAt(q, j)[l] = IF l < j THEN q[l] ELSE q[l + 1]
<1> DEFINE a == SubSeq(q, 1, j - 1)
           b == SubSeq(q, j + 1, Len(q))
<1>1. a \in Seq(S) /\ Len(a) = j - 1 /\ \A l \in 1 .. j - 1 : a[l] = q[l]
  OBVIOUS
<1>2. b \in Seq(S) /\ Len(b) = Len(q) - j /\ \A l \in 1 .. Len(q) - j : b[l] = q[j + l]
  OBVIOUS
<1> HIDE DEF a, b
<1>3. /\ a \o b \in Seq(S) /\ Len(a \o b) = Len(q) - 1
      /\ \A l \in 1 .. Len(q) - 1 :
            (a \o b)[l] = IF l < j THEN a[l] ELSE b[l - (j - 1)]
  <2>1. /\ a \o b \in Seq(S) /\ Len(a \o b) = Len(a) + Len(b)
        /\ \A l \in 1 .. Len(a) + Len(b) :
              (a \o b)[l] = IF l <= Len(a) THEN a[l] ELSE b[l - Len(a)]
    BY <1>1, <1>2, ConcatProperties, Zenon
  <2>2. j \in Nat /\ Len(q) \in Nat
    OBVIOUS
  <2> QED BY <1>1, <1>2, <2>1, <2>2
<1>4. RemoveAt(q, j) = a \o b
  BY DEF RemoveAt, a, b
<1> QED BY <1>1, <1>2, <1>3, <1>4

-----------------------------------------------------------------------------
\* The constants.
LEMMA ConstantFacts ==
    /\ N \in Nat \ {0} /\ C \in Nat \ {0} /\ SIZE \in Nat \ {0}
    /\ Master \in Servers /\ 0 \in Servers
    /\ \A k \in Keys : k \in Nat /\ k # 0 /\ hash(k) \in 0 .. SIZE - 1
<1>1. N \in Nat \ {0} /\ C \in Nat \ {0} /\ SIZE \in Nat \ {0}
  BY ReplicatedStoreAssumption
<1>2. \A k \in Keys : k \in Nat /\ k # 0
  BY ReplicatedStoreAssumption
<1>3. \A k \in Keys : hash(k) \in 0 .. SIZE - 1
  BY <1>1, <1>2, ModRange DEF hash
<1> QED BY <1>1, <1>2, <1>3 DEF Master, Servers

LEMMA ThreadsFinite == IsFiniteSet(Threads)
<1>1. IsFiniteSet(Processes) /\ IsFiniteSet(0 .. C - 1)
  BY ConstantFacts, FS_Interval DEF Processes
<1> QED BY <1>1, FS_Product DEF Threads

\* Going round the servers, a put visits each of them once.
LEMMA Round ==
    ASSUME NEW f \in Servers
    PROVE  /\ \A j \in 0 .. N - 1 : (f + j) % N \in Servers
           /\ \A j, l \in 0 .. N - 1 : (f + j) % N = (f + l) % N => j = l
           /\ \A s \in Servers : \E j \in 0 .. N - 1 : (f + j) % N = s
<1> DEFINE at(j) == IF f + j < N THEN f + j ELSE f + j - N
<1>1. ASSUME NEW j \in 0 .. N - 1 PROVE (f + j) % N = at(j)
  <2>1. N \in Nat /\ N # 0 /\ f \in Nat /\ j \in Nat /\ f < N /\ j < N
    BY ConstantFacts DEF Servers
  <2> QED BY <2>1, ModSmall, Zenon
<1>2. \A j \in 0 .. N - 1 : at(j) \in Servers
  BY ConstantFacts DEF Servers
<1>3. \A j, l \in 0 .. N - 1 : at(j) = at(l) => j = l
  BY ConstantFacts DEF Servers
<1>4. ASSUME NEW s \in Servers PROVE \E j \in 0 .. N - 1 : at(j) = s
  <2>1. CASE s >= f
    <3>1. s - f \in 0 .. N - 1 /\ at(s - f) = s
      BY <2>1, ConstantFacts DEF Servers
    <3> QED BY <3>1
  <2>2. CASE s < f
    <3>1. s + N - f \in 0 .. N - 1 /\ at(s + N - f) = s
      BY <2>2, ConstantFacts DEF Servers
    <3> QED BY <3>1
  <2> QED BY <2>1, <2>2, ConstantFacts DEF Servers
<1> HIDE DEF at
<1> QED BY <1>1, <1>2, <1>3, <1>4

LEMMA OwnDistinct ==
    ASSUME NEW m \in Calls, GoesRound(m)
    PROVE  /\ \A j, l \in 1 .. Len(m.own) : m.own[j] = m.own[l] => j = l
           /\ Len(m.own) = N => \A s \in Servers : \E j \in 1 .. N : m.own[j] = s
<1> DEFINE f == m.first
<1>1. f \in Servers /\ m.own \in Seq(Servers) /\ Len(m.own) \in Nat
  BY DEF Calls
<1>2. Len(m.own) <= N /\ \A j \in 1 .. Len(m.own) : m.own[j] = (f + (j - 1)) % N
  BY DEF GoesRound
<1>3. /\ \A j, l \in 0 .. N - 1 : (f + j) % N = (f + l) % N => j = l
      /\ \A s \in Servers : \E j \in 0 .. N - 1 : (f + j) % N = s
  BY <1>1, Round
<1> HIDE DEF f
<1>4. ASSUME NEW j \in 1 .. Len(m.own), NEW l \in 1 .. Len(m.own), m.own[j] = m.own[l]
      PROVE  j = l
  <2>1. j - 1 \in 0 .. N - 1 /\ l - 1 \in 0 .. N - 1
    BY <1>1, <1>2, ConstantFacts
  <2>2. (f + (j - 1)) % N = (f + (l - 1)) % N
    BY <1>2, <1>4
  <2>3. j - 1 = l - 1
    BY <1>3, <2>1, <2>2
  <2> QED BY <1>1, <2>3
<1>5. ASSUME Len(m.own) = N, NEW s \in Servers PROVE \E j \in 1 .. N : m.own[j] = s
  <2>1. PICK j \in 0 .. N - 1 : (f + j) % N = s
    BY <1>3
  <2>2. j + 1 \in 1 .. N /\ (j + 1) - 1 = j
    BY ConstantFacts
  <2>3. m.own[j + 1] = (f + ((j + 1) - 1)) % N
    BY <1>2, <1>5, <2>2
  <2> QED BY <2>1, <2>2, <2>3
<1> QED BY <1>4, <1>5

\* The server a put is about to lock is one it does not have.
LEMMA NextServer ==
    ASSUME NEW m \in Calls, GoesRound(m), Len(m.own) < N
    PROVE  LET s == (m.first + Len(m.own)) % N
           IN  s \in Servers /\ \A j \in 1 .. Len(m.own) : m.own[j] # s
<1> DEFINE f == m.first
           n == Len(m.own)
<1>1. f \in Servers /\ m.own \in Seq(Servers) /\ n \in 0 .. N - 1
  BY ConstantFacts DEF Calls
<1>2. \A j \in 1 .. n : m.own[j] = (f + (j - 1)) % N
  BY DEF GoesRound
<1> HIDE DEF f, n
<1>3. \A j \in 1 .. n : j - 1 \in 0 .. N - 1 /\ j - 1 # n
  BY <1>1, ConstantFacts
<1> QED BY <1>1, <1>2, <1>3, Round DEF f, n

-----------------------------------------------------------------------------
\* Types, and the way of a put around the servers.
TypeInv == TypeOK /\ CallInv

LEMMA IdleFacts ==
    /\ Idle \in Calls /\ GoesRound(Idle)
    /\ Idle.pc = "idle" /\ Idle.own = << >> /\ Idle.i = 1 /\ Idle.msg = NoMsg
BY ConstantFacts DEF Idle, Calls, GoesRound

LEMMA BecomeFacts ==
    ASSUME TypeInv, NEW t \in Threads, NEW r \in Calls, GoesRound(r), Become(t, r)
    PROVE  /\ call' \in [Threads -> Calls] /\ CallInv'
           /\ call'[t] = r /\ \A u \in Threads : u # t => call'[u] = call[u]
<1>1. /\ call' \in [Threads -> Calls]
      /\ call'[t] = r /\ \A u \in Threads : u # t => call'[u] = call[u]
  BY DEF TypeInv, TypeOK, Become
<1>2. \A u \in Threads : GoesRound(call'[u])
  BY <1>1 DEF TypeInv, CallInv
<1> QED BY <1>1, <1>2 DEF CallInv

\* The record of a put after it has locked the next server.
Locked(m) ==
    [m EXCEPT !.own = Append(@, (m.first + Len(m.own)) % N),
              !.pc = IF Len(m.own) = N - 1 THEN "send" ELSE @]

LEMMA LockedFacts ==
    ASSUME NEW m \in Calls, GoesRound(m), m.pc = "lock"
    PROVE  LET s == (m.first + Len(m.own)) % N IN
           /\ Locked(m) \in Calls /\ GoesRound(Locked(m)) /\ s \in Servers
           /\ Locked(m).own = Append(m.own, s) /\ Locked(m).msg = m.msg /\ Locked(m).i = 1
           /\ Locked(m).pc \in {"lock", "send"}
<1> DEFINE s == (m.first + Len(m.own)) % N
           p == IF Len(m.own) = N - 1 THEN "send" ELSE m.pc
<1>1. m.own \in Seq(Servers) /\ Len(m.own) \in Nat /\ Len(m.own) < N /\ m.first \in Servers
  BY DEF Calls, GoesRound
<1>2. s \in Servers
  BY NextServer, <1>1
<1> HIDE DEF s
<1>3. /\ Append(m.own, s) \in Seq(Servers) /\ Len(Append(m.own, s)) = Len(m.own) + 1
      /\ \A j \in 1 .. Len(m.own) : Append(m.own, s)[j] = m.own[j]
      /\ Append(m.own, s)[Len(m.own) + 1] = s
  BY <1>1, <1>2
<1>4. /\ Locked(m) = [m EXCEPT !.own = Append(m.own, s), !.pc = p]
      /\ p \in {"lock", "send"}
  BY DEF Locked, s
<1>5. /\ Locked(m) \in Calls
      /\ Locked(m).own = Append(m.own, s) /\ Locked(m).msg = m.msg /\ Locked(m).i = 1
      /\ Locked(m).pc = p /\ Locked(m).first = m.first
  BY <1>3, <1>4 DEF Calls, GoesRound
<1>6. \A j \in 1 .. Len(m.own) + 1 : Append(m.own, s)[j] = (m.first + (j - 1)) % N
  <2> SUFFICES ASSUME NEW j \in 1 .. Len(m.own) + 1
               PROVE  Append(m.own, s)[j] = (m.first + (j - 1)) % N
    OBVIOUS
  <2>1. CASE j = Len(m.own) + 1
    <3>1. j - 1 = Len(m.own)
      BY <2>1, <1>1
    <3> QED BY <3>1, <2>1, <1>3 DEF s
  <2>2. CASE j # Len(m.own) + 1
    <3>1. j \in 1 .. Len(m.own)
      BY <2>2, <1>1
    <3> QED BY <3>1, <1>3 DEF GoesRound
  <2> QED BY <2>1, <2>2
<1>7. GoesRound(Locked(m))
  <2>1. /\ Len(Locked(m).own) = Len(m.own) + 1 /\ Len(m.own) + 1 <= N
        /\ Locked(m).pc = "lock" => Len(m.own) + 1 < N
        /\ Locked(m).pc = "send" => Len(m.own) + 1 = N
    BY <1>1, <1>3, <1>5, ConstantFacts
  <2> QED BY <2>1, <1>1, <1>5, <1>6, ConstantFacts DEF GoesRound
<1> QED BY <1>2, <1>4, <1>5, <1>7 DEF s

\* The record of a put after one more send.
Sent(m) == IF m.i = N THEN [m EXCEPT !.pc = "release", !.i = 1] ELSE [m EXCEPT !.i = @ + 1]

LEMMA SentFacts ==
    ASSUME NEW m \in Calls, GoesRound(m), m.pc = "send"
    PROVE  /\ m.i \in 1 .. N /\ Len(m.own) = N /\ m.own[m.i] \in Servers /\ m.msg \in Messages
           /\ Sent(m) \in Calls /\ GoesRound(Sent(m)) /\ Sent(m).own = m.own
           /\ Sent(m).msg = m.msg /\ Sent(m).first = m.first
           /\ m.i = N => Sent(m).pc = "release" /\ Sent(m).i = 1
           /\ m.i # N => Sent(m).pc = "send" /\ Sent(m).i = m.i + 1
<1>1. m.i \in 1 .. N /\ Len(m.own) = N /\ m.own \in Seq(Servers) /\ m.msg \in Messages
  BY DEF Calls, GoesRound
<1>2. m.own[m.i] \in Servers
  BY <1>1
<1>3. CASE m.i = N
  <2>1. Sent(m) = [m EXCEPT !.pc = "release", !.i = 1]
    BY <1>3 DEF Sent
  <2>2. /\ Sent(m) \in Calls /\ Sent(m).own = m.own /\ Sent(m).msg = m.msg
        /\ Sent(m).first = m.first /\ Sent(m).pc = "release" /\ Sent(m).i = 1
    <3>1. 1 \in Nat
      OBVIOUS
    <3> QED BY <2>1, <3>1, Zenon DEF Calls
  <2>3. GoesRound(Sent(m))
    BY <2>2, <1>1, ConstantFacts DEF GoesRound
  <2> QED BY <1>1, <1>2, <1>3, <2>2, <2>3
<1>4. CASE m.i # N
  <2>1. Sent(m) = [m EXCEPT !.i = m.i + 1]
    BY <1>4 DEF Sent
  <2>2. /\ Sent(m) \in Calls /\ Sent(m).own = m.own /\ Sent(m).msg = m.msg
        /\ Sent(m).first = m.first /\ Sent(m).pc = "send" /\ Sent(m).i = m.i + 1
    BY <1>1, <2>1 DEF Calls
  <2>3. m.i + 1 \in 1 .. N
    BY <1>1, <1>4, ConstantFacts
  <2>4. GoesRound(Sent(m))
    BY <2>2, <2>3, <1>1, ConstantFacts DEF GoesRound
  <2> QED BY <1>1, <1>2, <1>4, <2>2, <2>4
<1> QED BY <1>3, <1>4

\* The record of a put that has released one server, not the last.
LEMMA ReleasedFacts ==
    ASSUME NEW m \in Calls, GoesRound(m), m.pc \in {"abort", "release"}
    PROVE  /\ m.i \in 1 .. Len(m.own) /\ m.own[m.i] \in Servers /\ m.msg \in Messages
           /\ Len(m.own) \in Nat
           /\ m.i # Len(m.own) =>
                 LET r == [m EXCEPT !.i = @ + 1] IN
                 /\ r \in Calls /\ GoesRound(r) /\ r.own = m.own /\ r.msg = m.msg
                 /\ r.pc = m.pc /\ r.i = m.i + 1
<1>1. m.i \in 1 .. Len(m.own) /\ m.own \in Seq(Servers) /\ m.msg \in Messages
  BY DEF Calls, GoesRound
<1>2. m.own[m.i] \in Servers /\ Len(m.own) \in Nat
  BY <1>1
<1>3. ASSUME m.i # Len(m.own), NEW r, r = [m EXCEPT !.i = m.i + 1]
      PROVE  /\ r \in Calls /\ GoesRound(r) /\ r.own = m.own /\ r.msg = m.msg
             /\ r.pc = m.pc /\ r.i = m.i + 1
  <2>1. /\ r \in Calls /\ r.own = m.own /\ r.msg = m.msg /\ r.first = m.first
        /\ r.pc = m.pc /\ r.i = m.i + 1
    BY <1>1, <1>2, <1>3 DEF Calls
  <2>2. m.i + 1 \in 1 .. Len(m.own)
    BY <1>1, <1>2, <1>3
  <2>3. GoesRound(r)
    BY <2>1, <2>2 DEF GoesRound
  <2> QED BY <2>1, <2>3
<1> QED BY <1>1, <1>2, <1>3

LEMMA AbortFacts ==
    ASSUME NEW m \in Calls, GoesRound(m), m.pc = "lock", m.own # << >>
    PROVE  LET r == [m EXCEPT !.pc = "abort"] IN
           /\ r \in Calls /\ GoesRound(r) /\ r.own = m.own /\ r.msg = m.msg
           /\ r.pc = "abort" /\ r.i = 1
<1>1. m.own \in Seq(Servers) /\ m.i = 1 /\ m.msg \in Messages
  BY DEF Calls, GoesRound
<1>2. 1 \in 1 .. Len(m.own)
  BY <1>1
<1>3. ASSUME NEW r, r = [m EXCEPT !.pc = "abort"]
      PROVE  /\ r \in Calls /\ GoesRound(r) /\ r.own = m.own /\ r.msg = m.msg
             /\ r.pc = "abort" /\ r.i = 1
  <2>1. /\ r \in Calls /\ r.own = m.own /\ r.msg = m.msg /\ r.first = m.first
        /\ r.pc = "abort" /\ r.i = 1
    BY <1>1, <1>3 DEF Calls
  <2>2. GoesRound(r)
    BY <1>1, <1>2, <2>1 DEF GoesRound
  <2> QED BY <2>1, <2>2
<1> QED BY <1>3

\* The counters: a put that succeeds counts once, one that aborts does not.
LEMMA CountedFacts ==
    ASSUME NEW st \in [last : BOOLEAN, added : Nat, removed : Nat], NEW ok \in BOOLEAN
    PROVE  LET c == Counted(st, ok) IN
           /\ c \in [last : BOOLEAN, added : Nat, removed : Nat]
           /\ st.removed % 3 = 0 =>
                 /\ c.removed % 3 = 0
                 /\ c.added + c.removed \div 3
                       = st.added + st.removed \div 3 + IF ok THEN 1 ELSE 0
<1> DEFINE c == Counted(st, ok)
           R == [last : BOOLEAN, added : Nat, removed : Nat]
           Adds(n) == c.added + c.removed \div 3 = st.added + st.removed \div 3 + n
<1>1. st.added \in Nat /\ st.removed \in Nat /\ st.removed \div 3 \in Nat
  OBVIOUS
<1>2. CASE ~ok
  <2>1. c = st
    BY <1>2 DEF Counted
  <2>2. c \in R /\ (st.removed % 3 = 0 => c.removed % 3 = 0 /\ Adds(0))
    BY <1>1, <2>1
  <2> QED BY <1>2, <2>2, Zenon
<1>3. CASE ok /\ st.last
  <2>1. c = [st EXCEPT !.removed = st.removed + 3, !.last = FALSE]
    BY <1>3 DEF Counted
  <2>2. st.removed + 3 \in Nat
    OBVIOUS
  <2>3. c \in R /\ c.added = st.added /\ c.removed = st.removed + 3
    BY <2>1, <2>2, Zenon
  <2> HIDE DEF c
  <2>4. st.removed % 3 = 0 => c.removed % 3 = 0 /\ Adds(1)
    BY <1>1, <2>3
  <2> QED BY <1>3, <2>3, <2>4, Zenon DEF c
<1>4. CASE ok /\ ~st.last
  <2>1. c = [st EXCEPT !.added = st.added + 1, !.last = TRUE]
    BY <1>4 DEF Counted
  <2>2. st.added + 1 \in Nat
    OBVIOUS
  <2>3. c \in R /\ c.added = st.added + 1 /\ c.removed = st.removed
    BY <2>1, <2>2, Zenon
  <2> HIDE DEF c
  <2>4. st.removed % 3 = 0 => c.removed % 3 = 0 /\ Adds(1)
    BY <1>1, <2>3
  <2> QED BY <1>4, <2>3, <2>4, Zenon DEF c
<1> QED BY <1>2, <1>3, <1>4

\* The rest of the calls, when one changes.
Others(t) == \A u \in Threads : u # t => call'[u] = call[u]

LEMMA InitType == Init => TypeInv
<1> SUFFICES ASSUME Init PROVE TypeInv
  OBVIOUS
<1>1. \A t \in Threads : call[t] \in Calls /\ GoesRound(call[t])
  BY IdleFacts DEF Init
<1>2. call \in [Threads -> Calls] /\ CallInv
  BY <1>1 DEF Init, CallInv
<1>3. store \in [Servers -> [Keys -> Vals \cup {NoVal}]]
  BY ReplicatedStoreAssumption DEF Init
<1> QED BY <1>2, <1>3 DEF Init, TypeInv, TypeOK

LEMMA BootType ==
    ASSUME TypeInv, NEW p \in Processes, Boot(p)
    PROVE  /\ TypeInv' /\ \A q \in Processes : opened'[q] >= opened[q]
           /\ UNCHANGED <<word, inbox, working, store, call, stats, applied, dropped, raced>>
<1>1. UNCHANGED <<word, inbox, working, store, call, stats, applied, dropped, raced>>
  BY DEF Boot, Connect, Ready, awaitMaster, data
<1>2. /\ opened' \in [Processes -> Nat] /\ mail' \in [Processes -> Nat]
      /\ phase' \in [Processes -> {"connect", "await", "run"}]
      /\ \A q \in Processes : opened'[q] >= opened[q]
  <2>1. CASE Connect(p)
    BY <2>1 DEF Connect, TypeInv, TypeOK
  <2>2. CASE Ready(p)
    BY <2>2 DEF Ready, TypeInv, TypeOK
  <2>3. CASE awaitMaster(p)
    BY <2>3 DEF awaitMaster, TypeInv, TypeOK
  <2> QED BY <2>1, <2>2, <2>3 DEF Boot
<1> QED BY <1>1, <1>2 DEF TypeInv, TypeOK, CallInv

LEMMA StartType ==
    ASSUME TypeInv, Start
    PROVE  /\ TypeInv' /\ opened' = opened /\ phase' = phase
           /\ UNCHANGED <<word, inbox, working, store, call, stats, applied, dropped, raced>>
<1>1. /\ UNCHANGED <<word, inbox, working, store, call, stats, applied, dropped, raced>>
      /\ opened' = opened /\ phase' = phase
  BY DEF Start, data
<1>2. mail' \in [Processes -> Nat]
  <2> DEFINE p == arrivals[started * C + 1]
  <2>1. mail' = [mail EXCEPT ![p] = mail[p] + 1]
    BY DEF Start
  <2> HIDE DEF p
  <2>2. mail \in [Processes -> Nat]
    BY DEF TypeInv, TypeOK
  <2>3. CASE p \in Processes
    BY <2>1, <2>2, <2>3
  <2>4. CASE p \notin Processes
    <3>1. mail' = mail
      BY <2>1, <2>2, <2>4
    <3> QED BY <2>2, <3>1
  <2> QED BY <2>3, <2>4
<1> QED BY <1>1, <1>2 DEF TypeInv, TypeOK, CallInv

LEMMA CallType ==
    ASSUME TypeInv, NEW t \in Threads, Begin(t)
    PROVE  /\ TypeInv' /\ Others(t) /\ call[t].pc = "idle"
           /\ call'[t].pc = "lock" /\ call'[t].own = << >> /\ call'[t].i = 1
           /\ UNCHANGED <<boot, word, srq, inbox, working, store, stats, applied, dropped, raced>>
<1>1. PICK e \in Elements, s \in Servers : Call(t, [key |-> e[1], val |-> e[2]], s)
  BY DEF Begin
<1> DEFINE m == [key |-> e[1], val |-> e[2]]
           r == [Idle EXCEPT !.pc = "lock", !.msg = m, !.first = s]
<1>2. m \in Messages
  BY ReplicatedStoreAssumption DEF Messages
<1> HIDE DEF m
<1>4. r \in Calls /\ r.pc = "lock" /\ r.own = << >> /\ r.i = 1 /\ r.msg = m
  BY <1>2, IdleFacts, Zenon DEF Calls
<1>5. Become(t, r)
  BY <1>1 DEF Call, m
<1> HIDE DEF r
<1>6. GoesRound(r)
  BY <1>2, <1>4, ConstantFacts DEF GoesRound
<1>7. call' \in [Threads -> Calls] /\ CallInv' /\ call'[t] = r /\ Others(t)
  BY <1>4, <1>5, <1>6, BecomeFacts DEF Others
<1>8. /\ call[t].pc = "idle"
      /\ UNCHANGED <<boot, word, srq, inbox, working, store, stats, applied, dropped, raced>>
  BY <1>1 DEF Call
<1> QED BY <1>4, <1>7, <1>8 DEF TypeInv, TypeOK, boot

\* prepareMessage, insert and release.
LEMMA PrepareType ==
    ASSUME TypeInv, NEW t \in Threads, prepareMessage(t)
    PROVE  LET m == call[t]
               s == (m.first + Len(m.own)) % N
               x == hash(m.msg.key)
           IN  /\ TypeInv' /\ Others(t) /\ m.pc = "lock"
               /\ s \in Servers /\ x \in 0 .. SIZE - 1 /\ word' = [word EXCEPT ![s][x] = 1]
               /\ \/ word[s][x] = 1 /\ m.own = << >> /\ call'[t] = Idle
                  \/ /\ word[s][x] = 1 /\ m.own # << >> /\ call'[t] = [m EXCEPT !.pc = "abort"]
                  \/ word[s][x] = 0 /\ call'[t] = Locked(m)
               /\ \A u \in Threads : stats'[u] = stats[u]
               /\ UNCHANGED <<boot, srq, inbox, working, store, applied, dropped, raced, ops>>
<1> DEFINE m == call[t]
           s == (m.first + Len(m.own)) % N
           x == hash(m.msg.key)
<1>1. m \in Calls /\ GoesRound(m)
  BY DEF TypeInv, TypeOK, CallInv
<1>2. /\ m.pc = "lock" /\ word' = [word EXCEPT ![s][x] = 1]
      /\ UNCHANGED <<boot, srq, inbox, working, store, applied, dropped, raced, ops>>
      /\ \/ word[s][x] = 1 /\ m.own = << >> /\ Return(t, FALSE)
         \/ /\ word[s][x] = 1 /\ m.own # << >>
            /\ Become(t, [m EXCEPT !.pc = "abort"]) /\ UNCHANGED stats
         \/ word[s][x] = 0 /\ Become(t, Locked(m)) /\ UNCHANGED stats
  BY DEF prepareMessage, Locked
<1> HIDE DEF m
<1>3. s \in Servers
  BY <1>1, <1>2, LockedFacts
<1>4. x \in 0 .. SIZE - 1
  BY <1>1, <1>2, ConstantFacts DEF GoesRound, Messages
<1> HIDE DEF s, x
<1>5. word' \in [Servers -> [0 .. SIZE - 1 -> {0, 1}]]
  BY <1>2, <1>3, <1>4 DEF TypeInv, TypeOK
<1>6. /\ call' \in [Threads -> Calls] /\ CallInv' /\ Others(t)
      /\ stats' \in [Threads -> [last : BOOLEAN, added : Nat, removed : Nat]]
      /\ \A u \in Threads : stats'[u] = stats[u]
      /\ \/ word[s][x] = 1 /\ m.own = << >> /\ call'[t] = Idle
         \/ /\ word[s][x] = 1 /\ m.own # << >> /\ call'[t] = [m EXCEPT !.pc = "abort"]
         \/ word[s][x] = 0 /\ call'[t] = Locked(m)
  <2>1. CASE word[s][x] = 1 /\ m.own = << >> /\ Return(t, FALSE)
    <3>1. Become(t, Idle) /\ stats' = [stats EXCEPT ![t] = stats[t]]
      BY <2>1 DEF Return, Counted
    <3>2. stats' = stats
      BY <3>1 DEF TypeInv, TypeOK
    <3> QED BY <2>1, <3>1, <3>2, IdleFacts, BecomeFacts DEF Others, TypeInv, TypeOK
  <2>2. CASE /\ word[s][x] = 1 /\ m.own # << >>
             /\ Become(t, [m EXCEPT !.pc = "abort"]) /\ UNCHANGED stats
    <3> DEFINE r == [m EXCEPT !.pc = "abort"]
    <3>1. r \in Calls /\ GoesRound(r) /\ Become(t, r)
      BY <1>1, <1>2, <2>2, AbortFacts
    <3> HIDE DEF r
    <3>2. call' \in [Threads -> Calls] /\ CallInv' /\ call'[t] = r /\ Others(t)
      BY <3>1, BecomeFacts DEF Others
    <3> QED BY <2>2, <3>2 DEF TypeInv, TypeOK, r
  <2>3. CASE word[s][x] = 0 /\ Become(t, Locked(m)) /\ UNCHANGED stats
    <3>1. Locked(m) \in Calls /\ GoesRound(Locked(m))
      BY <1>1, <1>2, LockedFacts
    <3>2. call' \in [Threads -> Calls] /\ CallInv' /\ call'[t] = Locked(m) /\ Others(t)
      BY <2>3, <3>1, BecomeFacts DEF Others
    <3> QED BY <2>3, <3>2 DEF TypeInv, TypeOK
  <2> QED BY <1>2, <2>1, <2>2, <2>3
<1>7. TypeInv'
  BY <1>2, <1>5, <1>6 DEF TypeInv, TypeOK, boot
<1> QED BY <1>2, <1>3, <1>4, <1>6, <1>7 DEF m, s, x

LEMMA InsertType ==
    ASSUME TypeInv, NEW t \in Threads, insert(t)
    PROVE  LET m == call[t]
               s == m.own[m.i]
           IN  /\ TypeInv' /\ Others(t) /\ m.pc = "send"
               /\ s \in Servers /\ inbox' = [inbox EXCEPT ![s] = Append(@, m.msg)]
               /\ call'[t] = Sent(m)
               /\ UNCHANGED <<boot, word, working, store, stats, applied, dropped, raced, ops>>
<1> DEFINE m == call[t]
           s == m.own[m.i]
<1>1. m \in Calls /\ GoesRound(m)
  BY DEF TypeInv, TypeOK, CallInv
<1>2. /\ m.pc = "send" /\ inbox' = [inbox EXCEPT ![s] = Append(@, m.msg)]
      /\ UNCHANGED <<boot, word, working, store, stats, applied, dropped, raced, ops>>
      /\ Become(t, Sent(m))
  BY DEF insert, Sent
<1> HIDE DEF m
<1>3. s \in Servers /\ m.msg \in Messages /\ Sent(m) \in Calls /\ GoesRound(Sent(m))
  BY <1>1, <1>2, SentFacts
<1> HIDE DEF s
<1>4. call' \in [Threads -> Calls] /\ CallInv' /\ call'[t] = Sent(m) /\ Others(t)
  BY <1>2, <1>3, BecomeFacts DEF Others
<1>5. inbox' \in [Servers -> Seq(Messages)]
  BY <1>2, <1>3 DEF TypeInv, TypeOK
<1>6. TypeInv'
  BY <1>2, <1>4, <1>5 DEF TypeInv, TypeOK, boot
<1> QED BY <1>2, <1>3, <1>4, <1>6 DEF m, s

LEMMA ReleaseType ==
    ASSUME TypeInv, NEW t \in Threads, release(t)
    PROVE  LET m == call[t]
               s == m.own[m.i]
               x == hash(m.msg.key)
           IN  /\ TypeInv' /\ Others(t) /\ m.pc \in {"abort", "release"}
               /\ s \in Servers /\ x \in 0 .. SIZE - 1 /\ word' = [word EXCEPT ![s][x] = 0]
               /\ \/ /\ m.i = Len(m.own) /\ call'[t] = Idle
                     /\ stats' = [stats EXCEPT ![t] = Counted(stats[t], m.pc = "release")]
                  \/ m.i # Len(m.own) /\ call'[t] = [m EXCEPT !.i = @ + 1] /\ stats' = stats
               /\ UNCHANGED <<boot, srq, inbox, working, store, applied, dropped, raced, ops>>
<1> DEFINE m == call[t]
           s == m.own[m.i]
           x == hash(m.msg.key)
<1>1. m \in Calls /\ GoesRound(m)
  BY DEF TypeInv, TypeOK, CallInv
<1>2. /\ m.pc \in {"abort", "release"} /\ word' = [word EXCEPT ![s][x] = 0]
      /\ UNCHANGED <<boot, srq, inbox, working, store, applied, dropped, raced, ops>>
      /\ \/ m.i = Len(m.own) /\ Return(t, m.pc = "release")
         \/ m.i # Len(m.own) /\ Become(t, [m EXCEPT !.i = @ + 1]) /\ UNCHANGED stats
  BY DEF release
<1> HIDE DEF m
<1>3. s \in Servers /\ m.msg \in Messages
  BY <1>1, <1>2, ReleasedFacts
<1>4. x \in 0 .. SIZE - 1
  BY <1>3, ConstantFacts DEF Messages
<1> HIDE DEF s, x
<1>5. word' \in [Servers -> [0 .. SIZE - 1 -> {0, 1}]]
  BY <1>2, <1>3, <1>4 DEF TypeInv, TypeOK
<1>6. /\ call' \in [Threads -> Calls] /\ CallInv' /\ Others(t)
      /\ stats' \in [Threads -> [last : BOOLEAN, added : Nat, removed : Nat]]
      /\ \/ /\ m.i = Len(m.own) /\ call'[t] = Idle
            /\ stats' = [stats EXCEPT ![t] = Counted(stats[t], m.pc = "release")]
         \/ m.i # Len(m.own) /\ call'[t] = [m EXCEPT !.i = @ + 1] /\ stats' = stats
  <2>1. CASE m.i = Len(m.own) /\ Return(t, m.pc = "release")
    <3>1. /\ Become(t, Idle)
          /\ stats' = [stats EXCEPT ![t] = Counted(stats[t], m.pc = "release")]
      BY <2>1 DEF Return
    <3>2. Counted(stats[t], m.pc = "release") \in [last : BOOLEAN, added : Nat, removed : Nat]
      BY CountedFacts DEF TypeInv, TypeOK
    <3>3. stats' \in [Threads -> [last : BOOLEAN, added : Nat, removed : Nat]]
      BY <3>1, <3>2, Zenon DEF TypeInv, TypeOK
    <3>4. call' \in [Threads -> Calls] /\ CallInv' /\ call'[t] = Idle /\ Others(t)
      BY <3>1, IdleFacts, BecomeFacts DEF Others
    <3> QED BY <2>1, <3>1, <3>3, <3>4
  <2>2. CASE m.i # Len(m.own) /\ Become(t, [m EXCEPT !.i = @ + 1]) /\ UNCHANGED stats
    <3> DEFINE r == [m EXCEPT !.i = @ + 1]
    <3>1. r \in Calls /\ GoesRound(r) /\ Become(t, r)
      BY <1>1, <1>2, <2>2, ReleasedFacts
    <3> HIDE DEF r
    <3>2. call' \in [Threads -> Calls] /\ CallInv' /\ call'[t] = r /\ Others(t)
      BY <3>1, BecomeFacts DEF Others
    <3> QED BY <2>2, <3>2 DEF TypeInv, TypeOK, r
  <2> QED BY <1>2, <2>1, <2>2
<1>7. TypeInv'
  BY <1>2, <1>5, <1>6 DEF TypeInv, TypeOK, boot
<1> QED BY <1>2, <1>3, <1>4, <1>6, <1>7 DEF m, s, x

\* The workers.
LEMMA ReceiveType ==
    ASSUME TypeInv, NEW s \in Servers, receive(s)
    PROVE  LET m == Head(inbox[s]) IN
           /\ TypeInv' /\ m \in Messages /\ inbox[s] # << >>
           /\ working' = [working EXCEPT ![s] = Append(@, m)]
           /\ inbox' = [inbox EXCEPT ![s] = Tail(@)]
           /\ raced' = raced \cup {k \in {m.key} : \E j \in DOMAIN working[s] : working[s][j].key = k}
           /\ UNCHANGED <<boot, word, store, call, stats, applied, dropped, ops>>
<1> DEFINE m == Head(inbox[s])
<1>1. inbox[s] \in Seq(Messages) /\ working[s] \in Seq(Messages)
  BY DEF TypeInv, TypeOK
<1>2. /\ inbox[s] # << >>
      /\ working' = [working EXCEPT ![s] = Append(@, m)]
      /\ inbox' = [inbox EXCEPT ![s] = Tail(@)]
      /\ raced' = raced \cup {k \in {m.key} : \E j \in DOMAIN working[s] : working[s][j].key = k}
      /\ UNCHANGED <<boot, word, store, call, stats, applied, dropped, ops>>
  BY DEF receive
<1>3. m \in Messages /\ Tail(inbox[s]) \in Seq(Messages)
  BY <1>1, <1>2
<1> HIDE DEF m
<1>4. working' \in [Servers -> Seq(Messages)] /\ inbox' \in [Servers -> Seq(Messages)]
  BY <1>1, <1>2, <1>3 DEF TypeInv, TypeOK
<1>5. TypeInv'
  BY <1>2, <1>4 DEF TypeInv, TypeOK, CallInv, boot
<1> QED BY <1>2, <1>3, <1>5 DEF m

LEMMA HandleType ==
    ASSUME TypeInv, NEW s \in Servers, NEW j \in DOMAIN working[s], handle(s, j)
    PROVE  LET m == working[s][j] IN
           /\ TypeInv' /\ m \in Messages /\ j \in 1 .. Len(working[s])
           /\ Stored(s, m) \/ GivenUp(s, m)
           /\ working' = [working EXCEPT ![s] = RemoveAt(@, j)]
           /\ UNCHANGED <<boot, word, inbox, call, stats, raced, ops>>
<1> DEFINE m == working[s][j]
<1>1. working[s] \in Seq(Messages)
  BY DEF TypeInv, TypeOK
<1>2. j \in 1 .. Len(working[s]) /\ m \in Messages
  BY <1>1
<1>3. /\ Stored(s, m) \/ GivenUp(s, m)
      /\ working' = [working EXCEPT ![s] = RemoveAt(@, j)]
      /\ UNCHANGED <<boot, word, inbox, call, stats, raced, ops>>
  BY DEF handle
<1>4. RemoveAt(working[s], j) \in Seq(Messages)
  BY <1>1, <1>2, RemoveAtFacts
<1> HIDE DEF m
<1>5. m.key \in Keys /\ m.val \in Vals
  BY <1>2 DEF Messages
<1>6. /\ store' \in [Servers -> [Keys -> Vals \cup {NoVal}]]
      /\ applied' \in [Servers -> Nat] /\ dropped' \in [Servers -> Seq(Keys)]
  <2>1. CASE Stored(s, m)
    BY <1>5, <2>1 DEF TypeInv, TypeOK, Stored
  <2>2. CASE GivenUp(s, m)
    BY <1>5, <2>2 DEF TypeInv, TypeOK, GivenUp
  <2> QED BY <1>3, <2>1, <2>2
<1>7. working' \in [Servers -> Seq(Messages)]
  BY <1>3, <1>4 DEF TypeInv, TypeOK
<1>8. TypeInv'
  BY <1>3, <1>6, <1>7 DEF TypeInv, TypeOK, CallInv, boot
<1> QED BY <1>2, <1>3, <1>8 DEF m

LEMMA StutterType ==
    ASSUME TypeInv, UNCHANGED vars
    PROVE  TypeInv'
BY DEF TypeInv, TypeOK, CallInv, vars, boot, data

LEMMA NextType == TypeInv /\ [Next]_vars => TypeInv'
<1> SUFFICES ASSUME TypeInv, [Next]_vars PROVE TypeInv'
  OBVIOUS
<1>1. CASE Start
  BY <1>1, StartType
<1>2. ASSUME NEW p \in Processes, Boot(p) PROVE TypeInv'
  BY <1>2, BootType
<1>3. ASSUME NEW t \in Threads, Begin(t) PROVE TypeInv'
  BY <1>3, CallType
<1>4. ASSUME NEW t \in Threads, Put(t) PROVE TypeInv'
  BY <1>4, PrepareType, InsertType, ReleaseType DEF Put
<1>5. ASSUME NEW s \in Servers, Work(s) PROVE TypeInv'
  BY <1>5, ReceiveType, HandleType DEF Work
<1>6. CASE UNCHANGED vars
  BY <1>6, StutterType
<1> QED BY <1>1, <1>2, <1>3, <1>4, <1>5, <1>6 DEF Next

-----------------------------------------------------------------------------
\* No client runs before the connections of all servers are there.
LEMMA CompleteStays ==
    ASSUME TypeInv, NEW s \in Servers, Complete(s),
           opened' \in [Processes -> Nat], \A p \in Processes : opened'[p] >= opened[p]
    PROVE  Complete(s)'
<1>1. (s + 1) * C \in Nat
  BY ConstantFacts DEF Servers
<1> QED BY <1>1 DEF Complete, TypeInv, TypeOK

LEMMA NextBoot == TypeInv /\ BootInv /\ [Next]_vars => BootInv'
<1> SUFFICES ASSUME TypeInv, BootInv, [Next]_vars PROVE BootInv'
  OBVIOUS
<1>1. CASE Start
  <2>1. Complete(Master) /\ opened' = opened
    BY <1>1, StartType DEF Start
  <2> QED BY <2>1 DEF BootInv, Complete
<1>2. ASSUME NEW p \in Processes, Boot(p) PROVE BootInv'
  <2>1. opened' \in [Processes -> Nat] /\ \A q \in Processes : opened'[q] >= opened[q]
    BY <1>2, BootType DEF TypeInv, TypeOK
  <2>2. Complete(Master) => Complete(Master)'
    BY <2>1, CompleteStays, ConstantFacts
  <2>3. \A q \in Processes : (phase'[q] = "run" \/ mail'[q] > 0)
                              => (phase[q] = "run" \/ mail[q] > 0)
    BY <1>2 DEF Boot, Connect, Ready, awaitMaster, TypeInv, TypeOK
  <2> QED BY <2>2, <2>3 DEF BootInv
<1>3. ASSUME UNCHANGED boot PROVE BootInv'
  BY <1>3 DEF BootInv, Complete, boot
<1>4. ASSUME NEW t \in Threads, Begin(t) PROVE BootInv'
  BY <1>3, <1>4, CallType
<1>5. ASSUME NEW t \in Threads, Put(t) PROVE BootInv'
  BY <1>3, <1>5 DEF Put, prepareMessage, insert, release
<1>6. ASSUME NEW s \in Servers, Work(s) PROVE BootInv'
  BY <1>3, <1>6 DEF Work, receive, handle
<1>7. CASE UNCHANGED vars
  BY <1>3, <1>7 DEF vars
<1> QED BY <1>1, <1>2, <1>4, <1>5, <1>6, <1>7 DEF Next

(***************************************************************************)
(* The variables keep their types and every put goes round the servers     *)
(* from its first one, once.                                               *)
(***************************************************************************)
THEOREM TypeCorrect == Spec => [](TypeOK /\ CallInv)
<1>1. TypeInv <=> TypeOK /\ CallInv
  BY DEF TypeInv
<1> QED BY <1>1, InitType, NextType, PTL DEF Spec

(***************************************************************************)
(* No client process runs its threads before every server has all of its   *)
(* connections: the master is the server every client connects to last.    *)
(***************************************************************************)
THEOREM StartIsComplete == Spec => []StartsComplete
<1>1. Init => BootInv
  BY DEF Init, BootInv
<1>2. TypeInv /\ BootInv => StartsComplete
  <2> SUFFICES ASSUME TypeInv, Complete(Master), NEW s \in Servers PROVE Complete(s)
    BY DEF BootInv, StartsComplete
  <2>1. (s + 1) * C <= (Master + 1) * C /\ (s + 1) * C \in Nat /\ (Master + 1) * C \in Nat
    <3>1. s + 1 \in Nat /\ Master + 1 \in Nat /\ s + 1 <= Master + 1 /\ C \in Nat
      BY ConstantFacts DEF Servers, Master
    <3> QED BY <3>1, TimesMonotone
  <2> QED BY <2>1 DEF Complete, TypeInv, TypeOK
<1> QED BY <1>1, <1>2, InitType, NextType, NextBoot, PTL DEF Spec

-----------------------------------------------------------------------------
\* The lock words.  A call m has the lock of bucket x at server s.
OwnedBy(m) == {m.own[j] : j \in (IF m.pc = "send" THEN 1 ELSE m.i) .. Len(m.own)}
Mine(m, s, x) == s \in OwnedBy(m) /\ hash(m.msg.key) = x

LEMMA HoldersMine ==
    /\ \A s, x : Holders(s, x) = {t \in Threads : Mine(call[t], s, x)}
    /\ \A s, x : Holders(s, x)' = {t \in Threads : Mine(call'[t], s, x)}
BY DEF Holders, Mine, Owns, OwnedBy

\* A step that changes no lock.
LEMMA LockKeeps ==
    ASSUME LockInv, word' = word,
           \A t \in Threads, s \in Servers, x \in 0 .. SIZE - 1 :
              Mine(call'[t], s, x) <=> Mine(call[t], s, x)
    PROVE  LockInv'
<1>1. \A s \in Servers, x \in 0 .. SIZE - 1 : Holders(s, x)' = Holders(s, x)
  BY HoldersMine
<1> QED BY <1>1 DEF LockInv

\* A step that takes a free lock.
Takes(t, s0, x0) ==
    \A s \in Servers, x \in 0 .. SIZE - 1 :
        Mine(call'[t], s, x) <=> Mine(call[t], s, x) \/ (s = s0 /\ x = x0)

LEMMA LockTaken ==
    ASSUME TypeInv, LockInv, NEW t \in Threads, Others(t),
           NEW s0 \in Servers, NEW x0 \in 0 .. SIZE - 1,
           word[s0][x0] = 0, word' = [word EXCEPT ![s0][x0] = 1], Takes(t, s0, x0)
    PROVE  LockInv'
<1> SUFFICES ASSUME NEW s \in Servers, NEW x \in 0 .. SIZE - 1
             PROVE  /\ \A u, v \in Holders(s, x)' : u = v
                    /\ word'[s][x] = IF Holders(s, x)' = {} THEN 0 ELSE 1
  BY DEF LockInv
<1>1. word[s][x] = IF Holders(s, x) = {} THEN 0 ELSE 1
  BY DEF LockInv
<1>2. CASE s = s0 /\ x = x0
  <2>1. Holders(s, x) = {}
    BY <1>1, <1>2
  <2>2. Holders(s, x)' = {t}
    BY <1>2, <2>1, HoldersMine DEF Others, Takes
  <2>3. word'[s][x] = 1
    BY <1>2 DEF TypeInv, TypeOK
  <2> QED BY <2>2, <2>3
<1>3. CASE ~(s = s0 /\ x = x0)
  <2>1. Holders(s, x)' = Holders(s, x)
    BY <1>3, HoldersMine DEF Others, Takes
  <2>2. word'[s][x] = word[s][x]
    BY <1>3 DEF TypeInv, TypeOK
  <2> QED BY <1>1, <2>1, <2>2 DEF LockInv
<1> QED BY <1>2, <1>3

\* A step that gives back a lock.
LEMMA LockGivenBack ==
    ASSUME TypeInv, LockInv, NEW t \in Threads, Others(t),
           NEW s0 \in Servers, NEW x0 \in 0 .. SIZE - 1,
           Mine(call[t], s0, x0), word' = [word EXCEPT ![s0][x0] = 0],
           \A s \in Servers, x \in 0 .. SIZE - 1 :
              Mine(call'[t], s, x) <=> Mine(call[t], s, x) /\ ~(s = s0 /\ x = x0)
    PROVE  LockInv'
<1> SUFFICES ASSUME NEW s \in Servers, NEW x \in 0 .. SIZE - 1
             PROVE  /\ \A u, v \in Holders(s, x)' : u = v
                    /\ word'[s][x] = IF Holders(s, x)' = {} THEN 0 ELSE 1
  BY DEF LockInv
<1>1. /\ \A u, v \in Holders(s, x) : u = v
      /\ word[s][x] = IF Holders(s, x) = {} THEN 0 ELSE 1
  BY DEF LockInv
<1>2. CASE s = s0 /\ x = x0
  <2>1. Holders(s, x)' = {}
    BY <1>1, <1>2, HoldersMine DEF Others
  <2>2. word'[s][x] = 0
    BY <1>2 DEF TypeInv, TypeOK
  <2> QED BY <2>1, <2>2
<1>3. CASE ~(s = s0 /\ x = x0)
  <2>1. Holders(s, x)' = Holders(s, x)
    BY <1>3, HoldersMine DEF Others
  <2>2. word'[s][x] = word[s][x]
    BY <1>3 DEF TypeInv, TypeOK
  <2> QED BY <1>1, <2>1, <2>2
<1> QED BY <1>2, <1>3

LEMMA PrepareLock ==
    ASSUME TypeInv, LockInv, NEW t \in Threads, prepareMessage(t)
    PROVE  LockInv'
<1> DEFINE m == call[t]
           r == call'[t]
           s0 == (m.first + Len(m.own)) % N
           x0 == hash(m.msg.key)
<1>1. /\ Others(t) /\ m.pc = "lock" /\ m \in Calls /\ GoesRound(m)
      /\ s0 \in Servers /\ x0 \in 0 .. SIZE - 1 /\ word' = [word EXCEPT ![s0][x0] = 1]
      /\ \/ word[s0][x0] = 1 /\ m.own = << >> /\ r = Idle
         \/ word[s0][x0] = 1 /\ m.own # << >> /\ r = [m EXCEPT !.pc = "abort"]
         \/ word[s0][x0] = 0 /\ r = Locked(m)
  BY PrepareType DEF TypeInv, TypeOK, CallInv
<1>2. m.own \in Seq(Servers) /\ m.i = 1
  BY <1>1 DEF Calls, GoesRound
<1>3. word[s0][x0] = 1 => word' = word
  BY <1>1 DEF TypeInv, TypeOK
<1>4. CASE word[s0][x0] = 1 /\ m.own = << >> /\ r = Idle
  <2>1. OwnedBy(m) = {} /\ OwnedBy(r) = {}
    BY <1>4, <1>1, <1>2, IdleFacts DEF OwnedBy
  <2>2. \A u \in Threads, s \in Servers, x \in 0 .. SIZE - 1 :
           Mine(call'[u], s, x) <=> Mine(call[u], s, x)
    BY <1>1, <2>1 DEF Mine, Others
  <2> QED BY <1>3, <1>4, <2>2, LockKeeps
<1>5. CASE word[s0][x0] = 1 /\ m.own # << >> /\ r = [m EXCEPT !.pc = "abort"]
  <2>1. r.own = m.own /\ r.msg = m.msg /\ r.pc = "abort" /\ r.i = 1
    BY <1>1, <1>5, AbortFacts
  <2>2. OwnedBy(m) = OwnedBy(r)
    BY <1>1, <1>2, <2>1 DEF OwnedBy
  <2>3. \A u \in Threads, s \in Servers, x \in 0 .. SIZE - 1 :
           Mine(call'[u], s, x) <=> Mine(call[u], s, x)
    BY <1>1, <2>1, <2>2 DEF Mine, Others
  <2> QED BY <1>3, <1>5, <2>3, LockKeeps
<1>6. CASE word[s0][x0] = 0 /\ r = Locked(m)
  <2>1. r.own = Append(m.own, s0) /\ r.msg = m.msg /\ r.i = 1
    BY <1>1, <1>6, LockedFacts
  <2>2. OwnedBy(m) = {m.own[j] : j \in 1 .. Len(m.own)}
    BY <1>1, <1>2 DEF OwnedBy
  <2>3. OwnedBy(r) = {r.own[j] : j \in 1 .. Len(r.own)}
    BY <2>1 DEF OwnedBy
  <2> HIDE DEF m, r, s0, x0
  <2>4. OwnedBy(r) = OwnedBy(m) \cup {s0}
    BY <1>1, <1>2, <2>1, <2>2, <2>3
  <2>5. \A s \in Servers, x \in 0 .. SIZE - 1 :
           Mine(r, s, x) <=> Mine(m, s, x) \/ (s = s0 /\ x = x0)
    BY <2>1, <2>4 DEF Mine, x0
  <2>6. Takes(t, s0, x0)
    BY <2>5 DEF m, r, Takes
  <2>7. /\ s0 \in Servers /\ x0 \in 0 .. SIZE - 1 /\ Others(t)
        /\ word[s0][x0] = 0 /\ word' = [word EXCEPT ![s0][x0] = 1]
    BY <1>1, <1>6
  <2> QED BY <2>6, <2>7, LockTaken, Zenon
<1> QED BY <1>1, <1>4, <1>5, <1>6

LEMMA InsertLock ==
    ASSUME TypeInv, LockInv, NEW t \in Threads, insert(t)
    PROVE  LockInv'
<1> DEFINE m == call[t]
           r == call'[t]
<1>1. /\ Others(t) /\ m.pc = "send" /\ m \in Calls /\ GoesRound(m) /\ r = Sent(m)
      /\ word' = word
  BY InsertType DEF TypeInv, TypeOK, CallInv
<1>2. r.own = m.own /\ r.msg = m.msg /\ (r.pc = "send" \/ r.i = 1)
  BY <1>1, SentFacts
<1>3. OwnedBy(r) = OwnedBy(m)
  BY <1>1, <1>2 DEF OwnedBy
<1>4. \A u \in Threads, s \in Servers, x \in 0 .. SIZE - 1 :
         Mine(call'[u], s, x) <=> Mine(call[u], s, x)
  BY <1>1, <1>2, <1>3 DEF Mine, Others
<1> QED BY <1>1, <1>4, LockKeeps

LEMMA ReleaseLock ==
    ASSUME TypeInv, LockInv, NEW t \in Threads, release(t)
    PROVE  LockInv'
<1> DEFINE m == call[t]
           r == call'[t]
           s0 == m.own[m.i]
           x0 == hash(m.msg.key)
<1>1. /\ Others(t) /\ m.pc \in {"abort", "release"} /\ m \in Calls /\ GoesRound(m)
      /\ s0 \in Servers /\ x0 \in 0 .. SIZE - 1 /\ word' = [word EXCEPT ![s0][x0] = 0]
      /\ \/ m.i = Len(m.own) /\ r = Idle
         \/ m.i # Len(m.own) /\ r = [m EXCEPT !.i = @ + 1]
  BY ReleaseType DEF TypeInv, TypeOK, CallInv
<1>2. /\ m.i \in 1 .. Len(m.own) /\ Len(m.own) \in Nat
      /\ \A j, l \in 1 .. Len(m.own) : m.own[j] = m.own[l] => j = l
  BY <1>1, ReleasedFacts, OwnDistinct
<1>3. OwnedBy(m) = {m.own[j] : j \in m.i .. Len(m.own)}
  BY <1>1 DEF OwnedBy
<1>4. Mine(m, s0, x0)
  BY <1>2, <1>3 DEF Mine
<1>5. \A s \in Servers, x \in 0 .. SIZE - 1 :
         Mine(r, s, x) <=> Mine(m, s, x) /\ ~(s = s0 /\ x = x0)
  <2>1. CASE m.i = Len(m.own) /\ r = Idle
    <3>1. OwnedBy(r) = {}
      BY <2>1, IdleFacts DEF OwnedBy
    <3>2. OwnedBy(m) = {s0}
      BY <1>2, <1>3, <2>1
    <3> QED BY <3>1, <3>2 DEF Mine
  <2>2. CASE m.i # Len(m.own) /\ r = [m EXCEPT !.i = @ + 1]
    <3>1. r.own = m.own /\ r.msg = m.msg /\ r.pc = m.pc /\ r.i = m.i + 1
      BY <1>1, <2>2, ReleasedFacts
    <3>2. OwnedBy(r) = {m.own[j] : j \in m.i + 1 .. Len(m.own)}
      BY <1>1, <3>1 DEF OwnedBy
    <3> HIDE DEF m, r
    <3>3. OwnedBy(r) = OwnedBy(m) \ {s0}
      BY <1>2, <1>3, <3>2
    <3> QED BY <3>1, <3>3 DEF Mine
  <2> QED BY <1>1, <2>1, <2>2
<1> HIDE DEF s0, x0
<1> QED BY <1>1, <1>4, <1>5, LockGivenBack

LEMMA NextLock == TypeInv /\ LockInv /\ [Next]_vars => LockInv'
<1> SUFFICES ASSUME TypeInv, LockInv, [Next]_vars PROVE LockInv'
  OBVIOUS
<1>1. ASSUME word' = word, call' = call PROVE LockInv'
  BY <1>1, LockKeeps
<1>2. CASE Start
  BY <1>1, <1>2, StartType
<1>3. ASSUME NEW p \in Processes, Boot(p) PROVE LockInv'
  BY <1>1, <1>3, BootType
<1>4. ASSUME NEW t \in Threads, Begin(t) PROVE LockInv'
  <2>1. /\ Others(t) /\ call[t].pc = "idle" /\ call'[t].pc = "lock"
        /\ call'[t].own = << >> /\ call'[t].i = 1 /\ word' = word
    BY <1>4, CallType
  <2>2. call[t].own = << >> /\ call[t].i = 1
    BY <2>1 DEF TypeInv, CallInv, GoesRound
  <2>3. OwnedBy(call[t]) = {} /\ OwnedBy(call'[t]) = {}
    BY <2>1, <2>2 DEF OwnedBy
  <2>4. \A u \in Threads, s \in Servers, x \in 0 .. SIZE - 1 :
           Mine(call'[u], s, x) <=> Mine(call[u], s, x)
    BY <2>1, <2>3 DEF Mine, Others
  <2> QED BY <2>1, <2>4, LockKeeps
<1>5. ASSUME NEW t \in Threads, Put(t) PROVE LockInv'
  BY <1>5, PrepareLock, InsertLock, ReleaseLock DEF Put
<1>6. ASSUME NEW s \in Servers, Work(s) PROVE LockInv'
  BY <1>1, <1>6, ReceiveType, HandleType DEF Work
<1>7. CASE UNCHANGED vars
  BY <1>1, <1>7 DEF vars, data
<1> QED BY <1>2, <1>3, <1>4, <1>5, <1>6, <1>7 DEF Next

LEMMA InitLock == Init => LockInv
<1> SUFFICES ASSUME Init, NEW s \in Servers, NEW x \in 0 .. SIZE - 1
             PROVE  Holders(s, x) = {} /\ word[s][x] = 0
  BY DEF LockInv
<1>1. \A t \in Threads : OwnedBy(call[t]) = {}
  BY IdleFacts DEF Init, OwnedBy
<1> QED BY <1>1, HoldersMine DEF Mine, Init

(***************************************************************************)
(* A lock word is 1 exactly while one put, and no second, owns the bucket  *)
(* at that server: prepareMessage and release neither leak nor steal a     *)
(* lock, whatever servers refuse and wherever a put starts its round.      *)
(***************************************************************************)
THEOREM LocksAreOwned == Spec => []LockWordsOwned
<1>1. LockInv => LockWordsOwned
  <2> SUFFICES ASSUME LockInv, NEW s \in Servers, NEW x \in 0 .. SIZE - 1
               PROVE  Cardinality(Holders(s, x)) = word[s][x]
    BY DEF LockWordsOwned
  <2>1. /\ \A t, u \in Holders(s, x) : t = u
        /\ word[s][x] = IF Holders(s, x) = {} THEN 0 ELSE 1
    BY DEF LockInv
  <2>2. CASE Holders(s, x) = {}
    BY <2>1, <2>2, FS_EmptySet
  <2>3. CASE Holders(s, x) # {}
    <3>1. PICK t : Holders(s, x) = {t}
      BY <2>1, <2>3
    <3>2. Cardinality({t}) = 1
      BY FS_Singleton
    <3> QED BY <2>1, <2>3, <3>1, <3>2
  <2> QED BY <2>2, <2>3
<1> QED BY <1>1, InitType, InitLock, NextType, NextLock, PTL DEF Spec

-----------------------------------------------------------------------------
\* The value a queue q, the messages w in the hands of the workers and the stored
\* value st lead to; g says that the server has given the key up.
NoKey(q, k) == \A l \in 1 .. Len(q) : q[l].key # k
LastIs(q, k, v) ==
    \A j \in 1 .. Len(q) :
        q[j].key = k /\ (\A l \in 1 .. Len(q) : l > j => q[l].key # k) => q[j].val = v
AllAre(w, k, v) == \A j \in 1 .. Len(w) : w[j].key = k => w[j].val = v
Single(w, k) == \A i, j \in 1 .. Len(w) : w[i].key = k /\ w[j].key = k => i = j
Kept(st, g, v) == st = v \/ (st = NoVal /\ g)
DueIn(q, w, st, g, k, v) ==
    LastIs(q, k, v) /\ (NoKey(q, k) => AllAre(w, k, v) /\ (NoKey(w, k) => Kept(st, g, v)))

LEMMA DueIsDueIn ==
    /\ \A s, k, v : Due(s, k, v) <=> DueIn(inbox[s], working[s], store[s][k], GaveUp(s, k), k, v)
    /\ \A s, k, v : Due(s, k, v)' <=> DueIn(inbox'[s], working'[s], store'[s][k], GaveUp(s, k)', k, v)
BY DEF Due, DueIn, LastIs, NoKey, AllAre, Kept

LEMMA SameDropped ==
    ASSUME dropped' = dropped
    PROVE  \A s, k : GaveUp(s, k)' = GaveUp(s, k)
BY DEF GaveUp

LEMMA AppendFacts ==
    ASSUME NEW q \in Seq(Messages), NEW m \in Messages
    PROVE  /\ Len(q) \in Nat /\ Len(Append(q, m)) = Len(q) + 1
           /\ \A l \in 1 .. Len(q) : Append(q, m)[l] = q[l]
           /\ Append(q, m)[Len(q) + 1] = m
OBVIOUS

LEMMA DueAppend ==
    ASSUME NEW q \in Seq(Messages), NEW m \in Messages, NEW w, NEW st, NEW g, NEW k, NEW v
    PROVE  /\ m.key # k /\ DueIn(q, w, st, g, k, v) => DueIn(Append(q, m), w, st, g, k, v)
           /\ m.key = k => DueIn(Append(q, m), w, st, g, k, m.val)
<1> DEFINE p == Append(q, m)
           n == Len(q)
<1>1. /\ n \in Nat /\ Len(p) = n + 1 /\ \A l \in 1 .. n : p[l] = q[l]
      /\ p[n + 1] = m /\ 1 .. n + 1 = (1 .. n) \cup {n + 1}
  BY AppendFacts
<1> HIDE DEF p, n
<1>2. ASSUME m.key # k, DueIn(q, w, st, g, k, v) PROVE DueIn(p, w, st, g, k, v)
  <2>1. NoKey(p, k) => NoKey(q, k)
    BY <1>1 DEF NoKey, n
  <2>2. LastIs(p, k, v)
    BY <1>1, <1>2 DEF LastIs, DueIn, n
  <2> QED BY <1>2, <2>1, <2>2 DEF DueIn
<1>3. ASSUME m.key = k PROVE DueIn(p, w, st, g, k, m.val)
  <2>1. ~NoKey(p, k)
    BY <1>1, <1>3 DEF NoKey
  <2>2. LastIs(p, k, m.val)
    BY <1>1, <1>3 DEF LastIs
  <2> QED BY <2>1, <2>2 DEF DueIn
<1> QED BY <1>2, <1>3 DEF p

LEMMA DueReceive ==
    ASSUME NEW q \in Seq(Messages), q # << >>, NEW w \in Seq(Messages), NEW st, NEW g, NEW k, NEW v,
           Single(w, k), Head(q).key = k => NoKey(w, k)
    PROVE  /\ DueIn(q, w, st, g, k, v) => DueIn(Tail(q), Append(w, Head(q)), st, g, k, v)
           /\ Single(Append(w, Head(q)), k)
<1> DEFINE m == Head(q)
           p == Tail(q)
           x == Append(w, m)
           n == Len(q)
           c == Len(w)
<1>1. /\ n \in Nat \ {0} /\ Len(p) = n - 1 /\ m = q[1] /\ m \in Messages
      /\ \A l \in 1 .. n - 1 : p[l] = q[l + 1]
  OBVIOUS
<1>2. /\ c \in Nat /\ Len(x) = c + 1 /\ \A l \in 1 .. c : x[l] = w[l]
      /\ x[c + 1] = m /\ 1 .. c + 1 = (1 .. c) \cup {c + 1}
  BY <1>1, AppendFacts
<1> HIDE DEF m, p, x, n, c
<1>3. Single(x, k)
  BY <1>2 DEF Single, NoKey, m, c
<1>4. ASSUME DueIn(q, w, st, g, k, v) PROVE DueIn(p, x, st, g, k, v)
  <2>1. \A l \in 2 .. n : l - 1 \in 1 .. n - 1 /\ p[l - 1] = q[l]
    BY <1>1
  <2>2. LastIs(p, k, v)
    <3> SUFFICES ASSUME NEW j \in 1 .. n - 1, p[j].key = k,
                        \A l \in 1 .. n - 1 : l > j => p[l].key # k
                 PROVE  p[j].val = v
      BY <1>1 DEF LastIs
    <3>1. j + 1 \in 1 .. n /\ q[j + 1] = p[j]
      BY <1>1
    <3>2. ASSUME NEW l \in 1 .. n, l > j + 1 PROVE q[l].key # k
      <4>1. l \in 2 .. n /\ l - 1 > j
        BY <1>1, <3>2
      <4> QED BY <2>1, <4>1
    <3> QED BY <1>4, <3>1, <3>2 DEF DueIn, LastIs, n
  <2>3. ASSUME NoKey(p, k) PROVE AllAre(x, k, v) /\ (NoKey(x, k) => Kept(st, g, v))
    <3>1. \A l \in 2 .. n : q[l].key # k
      BY <1>1, <2>1, <2>3 DEF NoKey
    <3>2. CASE m.key = k
      <4>1. 1 \in 1 .. n /\ q[1].key = k /\ \A l \in 1 .. n : l > 1 => q[l].key # k
        BY <1>1, <3>1, <3>2
      <4>2. m.val = v
        BY <1>1, <1>4, <4>1 DEF DueIn, LastIs, n
      <4>3. NoKey(w, k)
        BY <3>2 DEF m
      <4>4. AllAre(x, k, v) /\ ~NoKey(x, k)
        BY <1>2, <3>2, <4>2, <4>3 DEF AllAre, NoKey, c
      <4> QED BY <4>4
    <3>3. CASE m.key # k
      <4>1. NoKey(q, k)
        BY <1>1, <3>1, <3>3 DEF NoKey, n
      <4>2. AllAre(w, k, v) /\ (NoKey(w, k) => Kept(st, g, v))
        BY <1>4, <4>1 DEF DueIn
      <4>3. AllAre(x, k, v) /\ (NoKey(x, k) => NoKey(w, k))
        BY <1>2, <3>3, <4>2 DEF AllAre, NoKey, c
      <4> QED BY <4>2, <4>3
    <3> QED BY <3>2, <3>3
  <2> QED BY <2>2, <2>3 DEF DueIn
<1> QED BY <1>3, <1>4 DEF m, p, x

\* A worker is done: it has stored its value, or the key was not there and it has
\* given up.
LEMMA DueHandle ==
    ASSUME NEW q, NEW w \in Seq(Messages), NEW j \in 1 .. Len(w), NEW st, NEW g, NEW k, NEW v,
           NEW new, NEW h, g => h,
           IF w[j].key = k THEN new = w[j].val \/ (new = NoVal /\ h) ELSE new = st,
           Single(w, k)
    PROVE  /\ DueIn(q, w, st, g, k, v) => DueIn(q, RemoveAt(w, j), new, h, k, v)
           /\ Single(RemoveAt(w, j), k)
<1> DEFINE x == RemoveAt(w, j)
           n == Len(w)
<1>1. /\ n \in Nat /\ j \in 1 .. n /\ Len(x) = n - 1
      /\ \A l \in 1 .. n - 1 : x[l] = IF l < j THEN w[l] ELSE w[l + 1]
  BY RemoveAtFacts
<1> HIDE DEF x, n
<1>2. \A l \in 1 .. n - 1 : \E i \in 1 .. n : i # j /\ x[l] = w[i]
  <2> SUFFICES ASSUME NEW l \in 1 .. n - 1 PROVE \E i \in 1 .. n : i # j /\ x[l] = w[i]
    OBVIOUS
  <2>1. CASE l < j
    BY <1>1, <2>1
  <2>2. CASE ~(l < j)
    <3>1. l + 1 \in 1 .. n /\ l + 1 # j /\ x[l] = w[l + 1]
      BY <1>1, <2>2
    <3> QED BY <3>1
  <2> QED BY <2>1, <2>2
<1>3. \A i \in 1 .. n : i # j => \E l \in 1 .. n - 1 : x[l] = w[i]
  <2> SUFFICES ASSUME NEW i \in 1 .. n, i # j PROVE \E l \in 1 .. n - 1 : x[l] = w[i]
    OBVIOUS
  <2>1. CASE i < j
    BY <1>1, <2>1
  <2>2. CASE i > j
    <3>1. i - 1 \in 1 .. n - 1 /\ ~(i - 1 < j) /\ (i - 1) + 1 = i
      BY <1>1, <2>2
    <3> QED BY <1>1, <3>1
  <2> QED BY <1>1, <2>1, <2>2
<1>4. Single(x, k)
  <2> SUFFICES ASSUME NEW a \in 1 .. n - 1, NEW b \in 1 .. n - 1, x[a].key = k, x[b].key = k
               PROVE  a = b
    BY <1>1 DEF Single
  <2> DEFINE A == IF a < j THEN a ELSE a + 1
             B == IF b < j THEN b ELSE b + 1
  <2>1. A \in 1 .. n /\ B \in 1 .. n /\ x[a] = w[A] /\ x[b] = w[B]
    BY <1>1
  <2>2. A = B
    BY <2>1 DEF Single, n
  <2> QED BY <2>2, <1>1
<1>5. ASSUME DueIn(q, w, st, g, k, v), NoKey(q, k)
      PROVE  AllAre(x, k, v) /\ (NoKey(x, k) => Kept(new, h, v))
  <2>1. AllAre(w, k, v) /\ (NoKey(w, k) => Kept(st, g, v))
    BY <1>5 DEF DueIn
  <2>2. AllAre(x, k, v)
    BY <1>1, <1>2, <2>1 DEF AllAre, n
  <2>3. CASE w[j].key = k
    BY <1>1, <2>1, <2>2, <2>3 DEF AllAre, Kept, n
  <2>4. CASE w[j].key # k
    <3>1. NoKey(x, k) => NoKey(w, k)
      BY <1>1, <1>3, <2>4 DEF NoKey, n
    <3> QED BY <2>1, <2>2, <2>4, <3>1 DEF Kept
  <2> QED BY <2>3, <2>4
<1> QED BY <1>4, <1>5 DEF DueIn, x

\* Only one put of a bucket can be sending: it has the lock of every server.
LEMMA OneSender ==
    ASSUME TypeInv, LockInv, NEW t \in Threads, NEW u \in Threads,
           call[t].pc = "send", call[u].pc = "send", call[t].msg.key = call[u].msg.key
    PROVE  t = u
<1> DEFINE x == hash(call[t].msg.key)
<1>1. ASSUME NEW y \in Threads, call[y].pc = "send" PROVE 0 \in OwnedBy(call[y])
  <2>1. call[y] \in Calls /\ GoesRound(call[y]) /\ Len(call[y].own) = N
    BY <1>1 DEF TypeInv, TypeOK, CallInv, GoesRound
  <2>2. PICK j \in 1 .. N : call[y].own[j] = 0
    BY <2>1, OwnDistinct, ConstantFacts
  <2> QED BY <1>1, <2>1, <2>2 DEF OwnedBy
<1>2. x \in 0 .. SIZE - 1
  BY ConstantFacts DEF TypeInv, CallInv, GoesRound, Messages
<1>3. t \in Holders(0, x) /\ u \in Holders(0, x)
  BY <1>1, HoldersMine DEF Mine
<1> QED BY <1>2, <1>3, ConstantFacts DEF LockInv

\* A step that neither sends nor handles anything.
LEMMA AgreeKeeps ==
    ASSUME AgreeInv, UNCHANGED <<inbox, working, store, dropped, raced>>,
           \A u \in Threads, k \in Keys, s \in Servers :
              /\ Sends(u, k, s)' <=> Sends(u, k, s)
              /\ Sends(u, k, s) => call'[u].msg = call[u].msg
    PROVE  AgreeInv'
<1> SUFFICES ASSUME NEW k \in Keys \ raced
             PROVE  /\ \A s \in Servers : Single(working[s], k)
                    /\ \E v \in Vals \cup {NoVal} : Agreement(k, v)'
  BY DEF AgreeInv, Single
<1>1. \A s \in Servers : Single(working[s], k)
  BY DEF AgreeInv, Single
<1>2. PICK v \in Vals \cup {NoVal} : Agreement(k, v)
  BY DEF AgreeInv
<1>3. \A s, w : Due(s, k, w)' <=> Due(s, k, w)
  BY DueIsDueIn, SameDropped
<1>4. Agreement(k, v)'
  BY <1>2, <1>3 DEF Agreement
<1> QED BY <1>1, <1>4

LEMMA PrepareAgree ==
    ASSUME TypeInv, AgreeInv, NEW t \in Threads, prepareMessage(t)
    PROVE  AgreeInv'
<1>1. /\ Others(t) /\ call[t].pc = "lock" /\ call[t] \in Calls /\ GoesRound(call[t])
      /\ UNCHANGED <<inbox, working, store, dropped, raced>>
      /\ \/ call'[t] = Idle
         \/ call[t].own # << >> /\ call'[t] = [call[t] EXCEPT !.pc = "abort"]
         \/ call'[t] = Locked(call[t])
  BY PrepareType DEF TypeInv, TypeOK, CallInv
<1>2. call'[t].pc # "send" \/ call'[t].i = 1
  BY <1>1, IdleFacts, AbortFacts, LockedFacts
<1>3. \A k, s : ~Sends(t, k, s) /\ ~Sends(t, k, s)'
  BY <1>1, <1>2 DEF Sends, Reached
<1>4. \A u \in Threads, k \in Keys, s \in Servers :
         u # t => (Sends(u, k, s)' <=> Sends(u, k, s)) /\ call'[u].msg = call[u].msg
  BY <1>1 DEF Others, Sends, Reached
<1> QED BY <1>1, <1>3, <1>4, AgreeKeeps

LEMMA ReleaseAgree ==
    ASSUME TypeInv, AgreeInv, NEW t \in Threads, release(t)
    PROVE  AgreeInv'
<1>1. /\ Others(t) /\ call[t].pc \in {"abort", "release"}
      /\ call[t] \in Calls /\ GoesRound(call[t])
      /\ UNCHANGED <<inbox, working, store, dropped, raced>>
      /\ \/ call'[t] = Idle
         \/ call[t].i # Len(call[t].own) /\ call'[t] = [call[t] EXCEPT !.i = @ + 1]
  BY ReleaseType DEF TypeInv, TypeOK, CallInv
<1>2. call'[t].pc # "send"
  BY <1>1, IdleFacts, ReleasedFacts
<1>3. \A k, s : ~Sends(t, k, s) /\ ~Sends(t, k, s)'
  BY <1>1, <1>2 DEF Sends
<1>4. \A u \in Threads, k \in Keys, s \in Servers :
         u # t => (Sends(u, k, s)' <=> Sends(u, k, s)) /\ call'[u].msg = call[u].msg
  BY <1>1 DEF Others, Sends, Reached
<1> QED BY <1>1, <1>3, <1>4, AgreeKeeps

LEMMA InsertAgree ==
    ASSUME TypeInv, LockInv, AgreeInv, NEW t \in Threads, insert(t)
    PROVE  AgreeInv'
<1>0. PICK m, s0, k0 : m = call[t] /\ s0 = m.own[m.i] /\ k0 = m.msg.key
  OBVIOUS
<1>1. /\ Others(t) /\ m.pc = "send" /\ m \in Calls /\ GoesRound(m)
      /\ s0 \in Servers /\ inbox' = [inbox EXCEPT ![s0] = Append(@, m.msg)]
      /\ call'[t] = Sent(m) /\ UNCHANGED <<working, store, dropped, raced>>
  BY <1>0, InsertType DEF TypeInv, TypeOK, CallInv
<1>2. /\ m.i \in 1 .. N /\ m.msg \in Messages /\ Sent(m).own = m.own /\ Sent(m).msg = m.msg
      /\ m.i = N => Sent(m).pc = "release"
      /\ m.i # N => Sent(m).pc = "send" /\ Sent(m).i = m.i + 1
  BY <1>1, SentFacts
<1>3. /\ inbox'[s0] = Append(inbox[s0], m.msg) /\ inbox[s0] \in Seq(Messages)
      /\ \A s \in Servers : s # s0 => inbox'[s] = inbox[s]
  BY <1>1 DEF TypeInv, TypeOK
<1>4. \A s \in Servers : \A k, v : s # s0 /\ Due(s, k, v) => Due(s, k, v)'
  BY <1>1, <1>3, DueIsDueIn, SameDropped
<1>5. \A k, v : k # k0 /\ Due(s0, k, v) => Due(s0, k, v)'
  <2> SUFFICES ASSUME NEW k, NEW v, k # k0, Due(s0, k, v) PROVE Due(s0, k, v)'
    OBVIOUS
  <2>1. DueIn(inbox[s0], working[s0], store[s0][k], GaveUp(s0, k), k, v)
    BY DueIsDueIn
  <2>2. DueIn(Append(inbox[s0], m.msg), working[s0], store[s0][k], GaveUp(s0, k), k, v)
    BY <1>0, <1>2, <1>3, <2>1, DueAppend
  <2> QED BY <2>2, <1>1, <1>3, DueIsDueIn, SameDropped
<1>6. Due(s0, k0, m.msg.val)'
  <2>1. DueIn(Append(inbox[s0], m.msg), working[s0], store[s0][k0], GaveUp(s0, k0), k0, m.msg.val)
    BY <1>0, <1>2, <1>3, DueAppend
  <2> QED BY <2>1, <1>1, <1>3, DueIsDueIn, SameDropped
<1>7. \A u \in Threads : \A k, s :
         u # t => (Sends(u, k, s)' <=> Sends(u, k, s)) /\ call'[u].msg = call[u].msg
  BY <1>1 DEF Others, Sends, Reached
<1>8. \A k, s : k # k0 => ~Sends(t, k, s) /\ ~Sends(t, k, s)'
  BY <1>0, <1>1, <1>2 DEF Sends
<1>9. \A u \in Threads : \A s : u # t => ~Sends(u, k0, s) /\ ~Sends(u, k0, s)'
  <2>1. ASSUME NEW u \in Threads, NEW s, u # t, Sends(u, k0, s) PROVE FALSE
    <3>1. call[u].pc = "send" /\ call[u].msg.key = call[t].msg.key
      BY <1>0, <2>1 DEF Sends
    <3> QED BY <1>0, <1>1, <2>1, <3>1, OneSender
  <2> QED BY <1>7, <2>1
<1>10. call'[t].msg = m.msg
  BY <1>1, <1>2
<1> SUFFICES ASSUME NEW k \in Keys \ raced
             PROVE  /\ \A s \in Servers : Single(working[s], k)
                    /\ \E v \in Vals \cup {NoVal} : Agreement(k, v)'
  BY <1>1 DEF AgreeInv, Single
<1>11. \A s \in Servers : Single(working[s], k)
  BY DEF AgreeInv, Single
<1>12. PICK v \in Vals \cup {NoVal} : Agreement(k, v)
  BY DEF AgreeInv
<1>13. CASE k # k0
  <2>1. Agreement(k, v)'
    BY <1>4, <1>5, <1>7, <1>8, <1>12, <1>13 DEF Agreement
  <2> QED BY <1>11, <2>1
<1>14. CASE k = k0 /\ m.i # N
  <2>1. \A s : Sends(t, k0, s)' <=> Sends(t, k0, s) \/ s = s0
    <3>1. call'[t].pc = "send" /\ call'[t].msg = m.msg /\ call'[t].own = m.own
          /\ call'[t].i = m.i + 1
      BY <1>1, <1>2, <1>14
    <3>2. 1 .. (m.i + 1) - 1 = (1 .. m.i - 1) \cup {m.i}
      BY <1>2
    <3> QED BY <1>0, <1>1, <3>1, <3>2 DEF Sends, Reached
  <2>2. ASSUME NEW s \in Servers, NEW u \in Threads, Sends(u, k0, s)'
        PROVE  Due(s, k0, call[u].msg.val)'
    <3>1. u = t
      BY <1>9, <2>2
    <3>2. s = s0 \/ Due(s, k0, m.msg.val)
      BY <1>0, <1>12, <1>14, <2>1, <2>2, <3>1 DEF Agreement
    <3> QED BY <1>4, <1>6, <1>10, <3>1, <3>2
  <2>3. ASSUME NEW s \in Servers, \A u \in Threads : ~Sends(u, k0, s)' PROVE Due(s, k0, v)'
    <3>1. s # s0 /\ \A u \in Threads : ~Sends(u, k0, s)
      BY <1>9, <2>1, <2>3
    <3> QED BY <1>4, <1>12, <1>14, <3>1 DEF Agreement
  <2>4. Agreement(k, v)'
    BY <1>14, <2>2, <2>3 DEF Agreement
  <2> QED BY <1>11, <2>4
<1>15. CASE k = k0 /\ m.i = N
  <2>1. \A u \in Threads : \A s : ~Sends(u, k0, s)'
    BY <1>1, <1>2, <1>9, <1>15 DEF Sends
  <2>2. ASSUME NEW s \in Servers PROVE Due(s, k0, m.msg.val)'
    <3>1. PICK j \in 1 .. N : m.own[j] = s
      BY <1>1, <1>2, OwnDistinct, SentFacts
    <3>2. CASE j = N
      BY <1>0, <1>6, <1>15, <3>1, <3>2
    <3>3. CASE j # N
      <4>1. j \in 1 .. m.i - 1
        BY <1>2, <1>15, <3>3
      <4>2. Sends(t, k0, s)
        BY <1>0, <1>1, <3>1, <4>1 DEF Sends, Reached
      <4> QED BY <1>0, <1>4, <1>6, <1>12, <1>15, <4>2 DEF Agreement
    <3> QED BY <3>2, <3>3
  <2>3. Agreement(k, m.msg.val)'
    BY <1>15, <2>1, <2>2 DEF Agreement
  <2>4. m.msg.val \in Vals \cup {NoVal}
    BY <1>2 DEF Messages
  <2> QED BY <1>11, <2>3, <2>4
<1> QED BY <1>13, <1>14, <1>15

\* The workers bring about what is due.
LEMMA WorkAgree ==
    ASSUME TypeInv, AgreeInv, raced \subseteq raced', call' = call,
           \A k \in Keys \ raced', s \in Servers :
              /\ Single(working'[s], k)
              /\ \A v : Due(s, k, v) => Due(s, k, v)'
    PROVE  AgreeInv'
<1> SUFFICES ASSUME NEW k \in Keys \ raced'
             PROVE  /\ \A s \in Servers : Single(working'[s], k)
                    /\ \E v \in Vals \cup {NoVal} : Agreement(k, v)'
  BY DEF AgreeInv, Single
<1>1. PICK v \in Vals \cup {NoVal} : Agreement(k, v)
  BY DEF AgreeInv
<1>2. \A u, s : Sends(u, k, s)' <=> Sends(u, k, s)
  BY DEF Sends, Reached
<1>3. Agreement(k, v)'
  BY <1>1, <1>2 DEF Agreement
<1> QED BY <1>3

LEMMA ReceiveAgree ==
    ASSUME TypeInv, AgreeInv, NEW s0 \in Servers, receive(s0)
    PROVE  AgreeInv'
<1>1. PICK m : m = Head(inbox[s0])
  OBVIOUS
<1>2. /\ m \in Messages /\ inbox[s0] # << >>
      /\ working' = [working EXCEPT ![s0] = Append(@, m)]
      /\ inbox' = [inbox EXCEPT ![s0] = Tail(@)]
      /\ raced' = raced \cup {k \in {m.key} : \E j \in DOMAIN working[s0] : working[s0][j].key = k}
      /\ UNCHANGED <<store, dropped, call>>
  BY <1>1, ReceiveType
<1>3. /\ inbox[s0] \in Seq(Messages) /\ working[s0] \in Seq(Messages)
      /\ inbox'[s0] = Tail(inbox[s0]) /\ working'[s0] = Append(working[s0], m)
      /\ \A s \in Servers : s # s0 => inbox'[s] = inbox[s] /\ working'[s] = working[s]
  BY <1>2 DEF TypeInv, TypeOK
<1>4. raced \subseteq raced'
  BY <1>2
<1>5. ASSUME NEW k \in Keys \ raced', NEW s \in Servers
      PROVE  /\ Single(working'[s], k)
             /\ \A v : Due(s, k, v) => Due(s, k, v)'
  <2>1. Single(working[s], k)
    BY <1>4 DEF AgreeInv, Single
  <2>2. CASE s # s0
    BY <1>2, <1>3, <2>1, <2>2, DueIsDueIn, SameDropped
  <2>3. CASE s = s0
    <3>1. m.key = k => NoKey(working[s0], k)
      BY <1>2, <1>3 DEF NoKey
    <3>2. Single(Append(working[s0], m), k)
      BY <1>1, <1>2, <1>3, <2>1, <2>3, <3>1, DueReceive
    <3>3. ASSUME NEW v, Due(s0, k, v) PROVE Due(s0, k, v)'
      <4>1. DueIn(inbox[s0], working[s0], store[s0][k], GaveUp(s0, k), k, v)
        BY <3>3, DueIsDueIn
      <4>2. DueIn(Tail(inbox[s0]), Append(working[s0], m), store[s0][k], GaveUp(s0, k), k, v)
        BY <1>1, <1>2, <1>3, <2>1, <2>3, <3>1, <4>1, DueReceive
      <4> QED BY <1>2, <1>3, <4>2, DueIsDueIn, SameDropped
    <3> QED BY <1>3, <2>3, <3>2, <3>3
  <2> QED BY <2>2, <2>3
<1> QED BY <1>2, <1>4, <1>5, WorkAgree

LEMMA HandleAgree ==
    ASSUME TypeInv, AgreeInv, NEW s0 \in Servers, NEW j \in DOMAIN working[s0], handle(s0, j)
    PROVE  AgreeInv'
<1>1. PICK m : m = working[s0][j]
  OBVIOUS
<1>2. /\ m \in Messages /\ j \in 1 .. Len(working[s0])
      /\ Stored(s0, m) \/ GivenUp(s0, m)
      /\ working' = [working EXCEPT ![s0] = RemoveAt(@, j)]
      /\ UNCHANGED <<inbox, call, raced>>
  BY <1>1, HandleType
<1>3. /\ working[s0] \in Seq(Messages) /\ working'[s0] = RemoveAt(working[s0], j)
      /\ \A s \in Servers : s # s0 => working'[s] = working[s]
  BY <1>2 DEF TypeInv, TypeOK
<1>4. /\ \A s \in Servers, k \in Keys :
            /\ s # s0 \/ k # m.key => store'[s][k] = store[s][k]
            /\ GaveUp(s, k) => GaveUp(s, k)'
            /\ s # s0 => (GaveUp(s, k)' <=> GaveUp(s, k))
      /\ \A k \in Keys \ raced : k = m.key =>
            store'[s0][k] = m.val \/ (store'[s0][k] = NoVal /\ GaveUp(s0, k)')
  <2>1. m.key \in Keys
    BY <1>2 DEF Messages
  <2>2. CASE Stored(s0, m)
    BY <2>1, <2>2 DEF TypeInv, TypeOK, Stored, GaveUp
  <2>3. CASE GivenUp(s0, m)
    <3>1. /\ dropped[s0] \in Seq(Keys) /\ dropped'[s0] = Append(dropped[s0], m.key)
          /\ \A s \in Servers : s # s0 => dropped'[s] = dropped[s]
          /\ store' = store /\ (store[s0][m.key] = NoVal \/ m.key \in raced)
      BY <2>3 DEF TypeInv, TypeOK, GivenUp
    <3>2. PICK n \in Nat : n = Len(dropped[s0])
      BY <3>1
    <3>3. /\ Len(dropped'[s0]) = n + 1 /\ dropped'[s0][n + 1] = m.key
          /\ \A i \in 1 .. n : dropped'[s0][i] = dropped[s0][i]
      BY <2>1, <3>1, <3>2
    <3>4. \A k : (GaveUp(s0, k) => GaveUp(s0, k)') /\ (k = m.key => GaveUp(s0, k)')
      BY <3>2, <3>3 DEF GaveUp
    <3>5. \A s \in Servers : \A k : s # s0 => (GaveUp(s, k)' <=> GaveUp(s, k))
      BY <3>1 DEF GaveUp
    <3> QED BY <3>1, <3>4, <3>5
  <2> QED BY <1>2, <2>2, <2>3
<1>5. ASSUME NEW k \in Keys \ raced', NEW s \in Servers
      PROVE  /\ Single(working'[s], k)
             /\ \A v : Due(s, k, v) => Due(s, k, v)'
  <2>1. Single(working[s], k)
    BY <1>2 DEF AgreeInv, Single
  <2>2. CASE s # s0
    <3>1. /\ inbox'[s] = inbox[s] /\ working'[s] = working[s] /\ store'[s][k] = store[s][k]
          /\ GaveUp(s, k)' <=> GaveUp(s, k)
      BY <1>2, <1>3, <1>4, <2>2
    <3>2. ASSUME NEW v, Due(s, k, v) PROVE Due(s, k, v)'
      <4>1. DueIn(inbox[s], working[s], store[s][k], GaveUp(s, k), k, v)
        BY <3>2, DueIsDueIn
      <4>2. DueIn(inbox'[s], working'[s], store'[s][k], GaveUp(s, k)', k, v)
        BY <3>1, <4>1 DEF DueIn, Kept
      <4> QED BY <4>2, DueIsDueIn
    <3> QED BY <2>1, <3>1, <3>2
  <2>3. CASE s = s0
    <3>1. /\ GaveUp(s0, k) => GaveUp(s0, k)'
          /\ IF working[s0][j].key = k
             THEN store'[s0][k] = working[s0][j].val \/ (store'[s0][k] = NoVal /\ GaveUp(s0, k)')
             ELSE store'[s0][k] = store[s0][k]
      BY <1>1, <1>2, <1>4
    <3>2. /\ Single(RemoveAt(working[s0], j), k)
          /\ \A v : DueIn(inbox[s0], working[s0], store[s0][k], GaveUp(s0, k), k, v) =>
                 DueIn(inbox[s0], RemoveAt(working[s0], j), store'[s0][k], GaveUp(s0, k)', k, v)
      BY <1>2, <1>3, <2>1, <2>3, <3>1, DueHandle
    <3>3. ASSUME NEW v, Due(s0, k, v) PROVE Due(s0, k, v)'
      BY <1>2, <1>3, <3>2, <3>3, DueIsDueIn
    <3> QED BY <1>3, <2>3, <3>2, <3>3
  <2> QED BY <2>2, <2>3
<1> QED BY <1>2, <1>5, WorkAgree

LEMMA NextAgree == TypeInv /\ LockInv /\ AgreeInv /\ [Next]_vars => AgreeInv'
<1> SUFFICES ASSUME TypeInv, LockInv, AgreeInv, [Next]_vars PROVE AgreeInv'
  OBVIOUS
<1>1. ASSUME UNCHANGED <<inbox, working, store, dropped, raced, call>> PROVE AgreeInv'
  BY <1>1, AgreeKeeps DEF Sends, Reached
<1>2. CASE Start
  BY <1>1, <1>2, StartType
<1>3. ASSUME NEW p \in Processes, Boot(p) PROVE AgreeInv'
  BY <1>1, <1>3, BootType
<1>4. ASSUME NEW t \in Threads, Begin(t) PROVE AgreeInv'
  <2>1. /\ Others(t) /\ call[t].pc = "idle" /\ call'[t].pc = "lock"
        /\ UNCHANGED <<inbox, working, store, dropped, raced>>
    BY <1>4, CallType
  <2>2. \A k, s : ~Sends(t, k, s) /\ ~Sends(t, k, s)'
    BY <2>1 DEF Sends
  <2>3. \A u \in Threads, k \in Keys, s \in Servers :
           u # t => (Sends(u, k, s)' <=> Sends(u, k, s)) /\ call'[u].msg = call[u].msg
    BY <2>1 DEF Others, Sends, Reached
  <2> QED BY <2>1, <2>2, <2>3, AgreeKeeps
<1>5. ASSUME NEW t \in Threads, Put(t) PROVE AgreeInv'
  BY <1>5, PrepareAgree, InsertAgree, ReleaseAgree DEF Put
<1>6. ASSUME NEW s \in Servers, Work(s) PROVE AgreeInv'
  BY <1>6, ReceiveAgree, HandleAgree DEF Work
<1>7. CASE UNCHANGED vars
  BY <1>1, <1>7 DEF vars, data
<1> QED BY <1>2, <1>3, <1>4, <1>5, <1>6, <1>7 DEF Next

LEMMA InitAgree == Init => AgreeInv
<1> SUFFICES ASSUME Init, NEW k \in Keys
             PROVE  /\ \A s \in Servers : Single(working[s], k)
                    /\ \E v \in Vals \cup {NoVal} : Agreement(k, v)
  BY DEF AgreeInv, Single
<1>1. \A s \in Servers : working[s] = << >> /\ inbox[s] = << >> /\ store[s][k] = Populated[k]
  BY DEF Init
<1>2. \A s \in Servers : Single(working[s], k)
  BY <1>1 DEF Single
<1>3. \A s \in Servers : Due(s, k, Populated[k])
  BY <1>1 DEF Due
<1>4. \A t \in Threads, s \in Servers : ~Sends(t, k, s)
  BY IdleFacts DEF Init, Sends
<1>5. Agreement(k, Populated[k])
  BY <1>3, <1>4 DEF Agreement
<1>6. Populated[k] \in Vals \cup {NoVal}
  BY ReplicatedStoreAssumption
<1> QED BY <1>2, <1>5, <1>6

(***************************************************************************)
(* When no put is in progress and no message on its way, all servers have  *)
(* the same value for every key of which no two workers of a server had    *)
(* messages at the same time, but for those that lack the key since their  *)
(* insert of it gave up.                                                   *)
(***************************************************************************)
THEOREM ReplicasConverge == Spec => []ReplicasAgree
<1>1. AgreeInv => ReplicasAgree
  <2> SUFFICES ASSUME AgreeInv, Quiet, NEW k \in Keys \ raced
               PROVE  \E v \in Vals \cup {NoVal} : \A s \in Servers :
                         store[s][k] = v \/ (store[s][k] = NoVal /\ GaveUp(s, k))
    BY DEF ReplicasAgree
  <2>1. PICK v \in Vals \cup {NoVal} : Agreement(k, v)
    BY DEF AgreeInv
  <2>2. \A t \in Threads, r \in Servers : ~Sends(t, k, r)
    BY DEF Quiet, Sends
  <2>3. \A r \in Servers : Due(r, k, v)
    BY <2>1, <2>2 DEF Agreement
  <2>4. \A s \in Servers : store[s][k] = v \/ (store[s][k] = NoVal /\ GaveUp(s, k))
    BY <2>3 DEF Quiet, Due
  <2> QED BY <2>4
<1> QED BY <1>1, InitType, InitLock, InitAgree, NextType, NextLock, NextAgree, PTL DEF Spec

-----------------------------------------------------------------------------
\* The counters.  What the call m and the counters st of a thread stand for at s.
Counts(st) == st.added + st.removed \div 3
Pending(m, s) ==
    m.pc = "release" \/ (m.pc = "send" /\ \E j \in 1 .. m.i - 1 : m.own[j] = s)
Weight(m, st, s) == Counts(st) + IF Pending(m, s) THEN 1 ELSE 0
Weights(s) == [t \in Threads |-> Weight(call[t], stats[t], s)]

LEMMA WeightsAre ==
    /\ \A s : SumFunction([t \in Threads |-> weight(t, s)]) = SumFunction(Weights(s))
    /\ \A s : SumFunction([t \in Threads |-> weight(t, s)])' = SumFunction(Weights(s)')
    /\ \A s : Weights(s)' = [t \in Threads |-> Weight(call'[t], stats'[t], s)]
<1>1. \A s : [t \in Threads |-> weight(t, s)] = Weights(s)
  BY DEF weight, puts, Reached, Weight, Pending, Counts, Weights
<1>2. \A s : [t \in Threads |-> weight(t, s)]' = Weights(s)'
  BY DEF weight, puts, Reached, Weight, Pending, Counts, Weights
<1>3. \A s : Weights(s)' = [t \in Threads |-> Weight(call'[t], stats'[t], s)]
  BY DEF Weights
<1> QED BY <1>1, <1>2, <1>3

LEMMA WeightType ==
    ASSUME NEW m, NEW st \in [last : BOOLEAN, added : Nat, removed : Nat], NEW s
    PROVE  Counts(st) \in Int /\ Weight(m, st, s) \in Int
<1>1. st.added \in Nat /\ st.removed \div 3 \in Nat
  OBVIOUS
<1>2. Counts(st) \in Int
  BY <1>1 DEF Counts
<1> QED BY <1>2 DEF Weight

\* One thread's part changes by d.
LEMMA WeightChange ==
    ASSUME TypeInv, TypeInv', NEW t \in Threads, NEW s, NEW d \in Int,
           \A u \in Threads : u # t => call'[u] = call[u] /\ stats'[u] = stats[u],
           Weight(call'[t], stats'[t], s) = Weight(call[t], stats[t], s) + d
    PROVE  /\ SumFunction(Weights(s)) \in Int
           /\ SumFunction(Weights(s)') = SumFunction(Weights(s)) + d
<1>1. \A u \in Threads : Weight(call[u], stats[u], s) \in Int
  BY WeightType DEF TypeInv, TypeOK
<1>2. Weight(call'[t], stats'[t], s) \in Int
  BY WeightType DEF TypeInv, TypeOK
<1> DEFINE f == Weights(s)
           g == Weights(s)'
           w == Weight(call'[t], stats'[t], s)
<1>3. f \in [Threads -> Int] /\ f[t] = Weight(call[t], stats[t], s)
  BY <1>1 DEF Weights
<1>4. g = [f EXCEPT ![t] = w]
  <2>1. g = [u \in Threads |-> Weight(call'[u], stats'[u], s)]
    BY WeightsAre
  <2> QED BY <2>1 DEF Weights
<1> HIDE DEF f, g
<1>5. SumFunction(g) = SumFunction(f) - f[t] + w
  BY <1>2, <1>3, <1>4, SumUpdate, ThreadsFinite
<1>6. SumFunction(f) \in Int
  <2>1. SumFunction(f) = SumFunctionOnSet(f, Threads)
    BY <1>3 DEF SumFunction
  <2> QED BY <1>3, <2>1, SumType, ThreadsFinite
<1>7. w = f[t] + d /\ f[t] \in Int
  BY <1>1, <1>3
<1> QED BY <1>5, <1>6, <1>7 DEF f, g

\* What server s is through with, and all that has been sent to it.
Handled(s) == applied[s] + Len(dropped[s])
Messaged(s) == Handled(s) + Len(inbox[s]) + Len(working[s])

LEMMA MessagedType ==
    ASSUME TypeInv
    PROVE  \A s \in Servers : /\ Handled(s) \in Nat /\ Len(inbox[s]) \in Nat
                              /\ Len(working[s]) \in Nat /\ Messaged(s) \in Nat
<1> SUFFICES ASSUME NEW s \in Servers
             PROVE  /\ Handled(s) \in Nat /\ Len(inbox[s]) \in Nat
                    /\ Len(working[s]) \in Nat /\ Messaged(s) \in Nat
  OBVIOUS
<1>1. /\ applied[s] \in Nat /\ Len(dropped[s]) \in Nat
      /\ Len(inbox[s]) \in Nat /\ Len(working[s]) \in Nat
  BY DEF TypeInv, TypeOK
<1>2. Handled(s) \in Nat
  BY <1>1 DEF Handled
<1> QED BY <1>1, <1>2 DEF Messaged

\* A step of one thread that sends nothing and leaves its weight.
LEMMA CountKeeps ==
    ASSUME TypeInv, TypeInv', CountInv, NEW t \in Threads,
           \A u \in Threads : u # t => call'[u] = call[u] /\ stats'[u] = stats[u],
           UNCHANGED <<applied, dropped, inbox, working>>, stats'[t].removed % 3 = 0,
           \A s \in Servers : Weight(call'[t], stats'[t], s) = Weight(call[t], stats[t], s)
    PROVE  CountInv'
<1>1. \A u \in Threads : stats'[u].removed % 3 = 0
  BY DEF CountInv
<1>2. ASSUME NEW s \in Servers PROVE Messaged(s)' = SumFunction(Weights(s)')
  <2>1. Weight(call[t], stats[t], s) \in Int
    BY WeightType DEF TypeInv, TypeOK
  <2>2. Weight(call'[t], stats'[t], s) = Weight(call[t], stats[t], s) + 0
    BY <2>1
  <2>3. /\ SumFunction(Weights(s)) \in Int
        /\ SumFunction(Weights(s)') = SumFunction(Weights(s)) + 0
    BY <2>2, WeightChange
  <2>4. Messaged(s) = SumFunction(Weights(s))
    BY WeightsAre DEF CountInv, Messaged, Handled
  <2> QED BY <2>3, <2>4 DEF Messaged, Handled
<1> QED BY <1>1, <1>2, WeightsAre DEF CountInv, Messaged, Handled

LEMMA BeginCount ==
    ASSUME TypeInv, CountInv, NEW t \in Threads, Begin(t)
    PROVE  CountInv'
<1>1. /\ TypeInv' /\ Others(t) /\ call[t].pc = "idle" /\ call'[t].pc = "lock"
      /\ UNCHANGED <<stats, applied, dropped, inbox, working>>
  BY CallType
<1>2. \A s : ~Pending(call[t], s) /\ ~Pending(call'[t], s)
  BY <1>1 DEF Pending
<1>3. \A s \in Servers : Weight(call'[t], stats'[t], s) = Weight(call[t], stats[t], s)
  BY <1>1, <1>2 DEF Weight
<1>4. /\ \A u \in Threads : u # t => call'[u] = call[u] /\ stats'[u] = stats[u]
      /\ stats'[t].removed % 3 = 0
  BY <1>1 DEF Others, CountInv
<1> QED BY <1>1, <1>3, <1>4, CountKeeps

LEMMA PrepareCount ==
    ASSUME TypeInv, CountInv, NEW t \in Threads, prepareMessage(t)
    PROVE  CountInv'
<1>1. /\ TypeInv' /\ Others(t) /\ call[t].pc = "lock" /\ call[t] \in Calls
      /\ GoesRound(call[t]) /\ UNCHANGED <<applied, dropped, inbox, working>>
      /\ \A u \in Threads : stats'[u] = stats[u]
      /\ \/ call'[t] = Idle
         \/ call[t].own # << >> /\ call'[t] = [call[t] EXCEPT !.pc = "abort"]
         \/ call'[t] = Locked(call[t])
  BY PrepareType DEF TypeInv, TypeOK, CallInv
<1>2. /\ call'[t].pc \in {"idle", "abort", "lock", "send"}
      /\ call'[t].pc # "send" \/ call'[t].i = 1
  BY <1>1, IdleFacts, AbortFacts, LockedFacts
<1>3. \A s : ~Pending(call[t], s) /\ ~Pending(call'[t], s)
  BY <1>1, <1>2 DEF Pending
<1>4. \A s \in Servers : Weight(call'[t], stats'[t], s) = Weight(call[t], stats[t], s)
  BY <1>1, <1>3 DEF Weight
<1>5. /\ \A u \in Threads : u # t => call'[u] = call[u] /\ stats'[u] = stats[u]
      /\ stats'[t].removed % 3 = 0
  BY <1>1 DEF Others, CountInv
<1> QED BY <1>1, <1>4, <1>5, CountKeeps

LEMMA ReleaseCount ==
    ASSUME TypeInv, CountInv, NEW t \in Threads, release(t)
    PROVE  CountInv'
<1>1. PICK m, c : m = call[t] /\ c = stats[t]
  OBVIOUS
<1>2. /\ TypeInv' /\ Others(t) /\ m.pc \in {"abort", "release"} /\ m \in Calls
      /\ GoesRound(m) /\ UNCHANGED <<applied, dropped, inbox, working>>
      /\ \/ /\ m.i = Len(m.own) /\ call'[t] = Idle
            /\ stats' = [stats EXCEPT ![t] = Counted(c, m.pc = "release")]
         \/ m.i # Len(m.own) /\ call'[t] = [m EXCEPT !.i = @ + 1] /\ stats' = stats
  BY <1>1, ReleaseType DEF TypeInv, TypeOK, CallInv
<1>3. c \in [last : BOOLEAN, added : Nat, removed : Nat] /\ c.removed % 3 = 0
  BY <1>1 DEF TypeInv, TypeOK, CountInv
<1>4. \A u \in Threads : u # t => call'[u] = call[u] /\ stats'[u] = stats[u]
  BY <1>2 DEF Others, TypeInv, TypeOK
<1>5. CASE /\ m.i = Len(m.own) /\ call'[t] = Idle
           /\ stats' = [stats EXCEPT ![t] = Counted(c, m.pc = "release")]
  <2>1. stats'[t] = Counted(c, m.pc = "release")
    BY <1>5 DEF TypeInv, TypeOK
  <2>2. /\ stats'[t].removed % 3 = 0
        /\ Counts(stats'[t]) = Counts(c) + IF m.pc = "release" THEN 1 ELSE 0
    BY <1>3, <2>1, CountedFacts DEF Counts
  <2>3. Counts(c) \in Int
    BY <1>3, WeightType
  <2>4. \A s : (Pending(m, s) <=> m.pc = "release") /\ ~Pending(call'[t], s)
    BY <1>2, <1>5, IdleFacts DEF Pending
  <2>5. \A s \in Servers : Weight(call'[t], stats'[t], s) = Weight(call[t], stats[t], s)
    BY <1>1, <2>2, <2>3, <2>4 DEF Weight
  <2> QED BY <1>2, <1>4, <2>2, <2>5, CountKeeps
<1>6. CASE m.i # Len(m.own) /\ call'[t] = [m EXCEPT !.i = @ + 1] /\ stats' = stats
  <2>1. call'[t].pc = m.pc
    BY <1>2, <1>6, ReleasedFacts
  <2>2. \A s : Pending(m, s) <=> Pending(call'[t], s)
    BY <1>2, <2>1 DEF Pending
  <2>3. \A s \in Servers : Weight(call'[t], stats'[t], s) = Weight(call[t], stats[t], s)
    BY <1>1, <1>6, <2>2 DEF Weight
  <2>4. stats'[t].removed % 3 = 0
    BY <1>1, <1>3, <1>6
  <2> QED BY <1>2, <1>4, <2>3, <2>4, CountKeeps
<1> QED BY <1>2, <1>5, <1>6

LEMMA InsertCount ==
    ASSUME TypeInv, CountInv, NEW t \in Threads, insert(t)
    PROVE  CountInv'
<1>1. PICK m, s0 : m = call[t] /\ s0 = m.own[m.i]
  OBVIOUS
<1>2. /\ TypeInv' /\ Others(t) /\ m.pc = "send" /\ m \in Calls /\ GoesRound(m)
      /\ s0 \in Servers /\ inbox' = [inbox EXCEPT ![s0] = Append(@, m.msg)]
      /\ call'[t] = Sent(m) /\ UNCHANGED <<working, stats, applied, dropped>>
  BY <1>1, InsertType DEF TypeInv, TypeOK, CallInv
<1>3. /\ m.i \in 1 .. N /\ Len(m.own) = N /\ m.msg \in Messages /\ Sent(m).own = m.own
      /\ m.i = N => Sent(m).pc = "release"
      /\ m.i # N => Sent(m).pc = "send" /\ Sent(m).i = m.i + 1
  BY <1>2, SentFacts
<1>4. /\ \A j, l \in 1 .. N : m.own[j] = m.own[l] => j = l
      /\ \A s \in Servers : \E j \in 1 .. N : m.own[j] = s
  BY <1>2, <1>3, OwnDistinct
<1>5. \A s \in Servers : Len(inbox'[s]) = Len(inbox[s]) + IF s = s0 THEN 1 ELSE 0
  <2>1. /\ inbox[s0] \in Seq(Messages) /\ inbox'[s0] = Append(inbox[s0], m.msg)
        /\ \A s \in Servers : s # s0 => inbox'[s] = inbox[s]
    BY <1>2 DEF TypeInv, TypeOK
  <2>2. Len(inbox'[s0]) = Len(inbox[s0]) + 1
    BY <1>3, <2>1, AppendFacts
  <2>3. \A s \in Servers : s # s0 => Len(inbox'[s]) = Len(inbox[s]) + 0
    BY <2>1, MessagedType
  <2> QED BY <2>2, <2>3
<1>6. ~Pending(m, s0)
  BY <1>1, <1>2, <1>3, <1>4 DEF Pending
<1>7. \A s \in Servers : Pending(Sent(m), s) <=> Pending(m, s) \/ s = s0
  <2>1. CASE m.i # N
    <3>1. 1 .. (m.i + 1) - 1 = (1 .. m.i - 1) \cup {m.i}
      BY <1>3
    <3> QED BY <1>1, <1>2, <1>3, <2>1, <3>1 DEF Pending
  <2>2. CASE m.i = N
    <3> SUFFICES ASSUME NEW s \in Servers, s # s0 PROVE Pending(m, s)
      BY <1>3, <2>2 DEF Pending
    <3>1. PICK j \in 1 .. N : m.own[j] = s
      BY <1>4
    <3>2. j \in 1 .. m.i - 1
      BY <1>1, <1>3, <2>2, <3>1
    <3> QED BY <1>2, <3>1, <3>2 DEF Pending
  <2> QED BY <2>1, <2>2
<1>8. \A u \in Threads : u # t => call'[u] = call[u] /\ stats'[u] = stats[u]
  BY <1>2 DEF Others
<1>9. ASSUME NEW s \in Servers PROVE Messaged(s)' = SumFunction(Weights(s)')
  <2>1. PICK d : d = IF s = s0 THEN 1 ELSE 0
    OBVIOUS
  <2>2. Counts(stats[t]) \in Int
    BY WeightType DEF TypeInv, TypeOK
  <2>3. Weight(call'[t], stats'[t], s) = Weight(call[t], stats[t], s) + d
    BY <1>1, <1>2, <1>6, <1>7, <2>1, <2>2 DEF Weight
  <2>4. /\ SumFunction(Weights(s)) \in Int
        /\ SumFunction(Weights(s)') = SumFunction(Weights(s)) + d
    BY <1>2, <1>8, <2>1, <2>3, WeightChange
  <2>5. Messaged(s) = SumFunction(Weights(s))
    BY WeightsAre DEF CountInv, Messaged, Handled
  <2>6. Len(inbox'[s]) = Len(inbox[s]) + d
    BY <1>5, <2>1
  <2>7. Messaged(s)' = Messaged(s) + d
    <3>1. Handled(s) \in Nat /\ Len(inbox[s]) \in Nat /\ Len(working[s]) \in Nat /\ d \in Int
      BY <2>1, MessagedType
    <3>2. Messaged(s)' = Handled(s) + (Len(inbox[s]) + d) + Len(working[s])
      BY <1>2, <2>6 DEF Messaged, Handled
    <3> QED BY <3>1, <3>2 DEF Messaged
  <2> QED BY <2>4, <2>5, <2>7
<1>10. \A u \in Threads : stats'[u].removed % 3 = 0
  BY <1>2 DEF CountInv
<1> QED BY <1>9, <1>10, WeightsAre DEF CountInv, Messaged, Handled

\* The workers only move messages on.
LEMMA WorkCount ==
    ASSUME TypeInv, CountInv, NEW s0 \in Servers, Work(s0)
    PROVE  CountInv'
<1>1. UNCHANGED <<call, stats>>
  BY ReceiveType, HandleType DEF Work
<1>2. ASSUME NEW s \in Servers PROVE Messaged(s)' = Messaged(s)
  <2>1. CASE receive(s0)
    <3>1. /\ Head(inbox[s0]) \in Messages /\ inbox[s0] # << >>
          /\ applied' = applied /\ dropped' = dropped
          /\ inbox[s0] \in Seq(Messages) /\ working[s0] \in Seq(Messages)
          /\ inbox'[s0] = Tail(inbox[s0]) /\ working'[s0] = Append(working[s0], Head(inbox[s0]))
          /\ \A r \in Servers : r # s0 => inbox'[r] = inbox[r] /\ working'[r] = working[r]
      <4>1. /\ Head(inbox[s0]) \in Messages /\ inbox[s0] # << >>
            /\ applied' = applied /\ dropped' = dropped
            /\ working' = [working EXCEPT ![s0] = Append(@, Head(inbox[s0]))]
            /\ inbox' = [inbox EXCEPT ![s0] = Tail(@)]
        BY <2>1, ReceiveType
      <4> QED BY <4>1 DEF TypeInv, TypeOK
    <3>2. Len(working'[s0]) = Len(working[s0]) + 1 /\ Len(inbox'[s0]) = Len(inbox[s0]) - 1
      BY <3>1, AppendFacts
    <3>3. Handled(s)' = Handled(s)
      BY <3>1 DEF Handled
    <3>4. /\ Handled(s) \in Nat /\ Len(inbox[s]) \in Nat /\ Len(working[s]) \in Nat
          /\ Messaged(s)' = Handled(s)' + Len(inbox'[s]) + Len(working'[s])
          /\ Messaged(s) = Handled(s) + Len(inbox[s]) + Len(working[s])
      BY MessagedType DEF Messaged
    <3>5. CASE s = s0
      <4>1. \A a, i, w \in Nat : a + (i - 1) + (w + 1) = a + i + w
        OBVIOUS
      <4>2. Messaged(s)' = Handled(s) + (Len(inbox[s]) - 1) + (Len(working[s]) + 1)
        BY <3>3, <3>2, <3>4, <3>5
      <4> QED BY <3>4, <4>1, <4>2, Zenon
    <3>6. CASE s # s0
      BY <3>3, <3>1, <3>4, <3>6
    <3> QED BY <3>5, <3>6
  <2>2. ASSUME NEW j \in DOMAIN working[s0], handle(s0, j) PROVE Messaged(s)' = Messaged(s)
    <3>1. /\ j \in 1 .. Len(working[s0]) /\ inbox' = inbox
          /\ working[s0] \in Seq(Messages) /\ working'[s0] = RemoveAt(working[s0], j)
          /\ Handled(s0)' = Handled(s0) + 1
          /\ \A r \in Servers : r # s0 => Handled(r)' = Handled(r) /\ working'[r] = working[r]
      <4>1. /\ j \in 1 .. Len(working[s0]) /\ inbox' = inbox
            /\ Stored(s0, working[s0][j]) \/ GivenUp(s0, working[s0][j])
            /\ working' = [working EXCEPT ![s0] = RemoveAt(@, j)] /\ working[s0][j] \in Messages
        BY <2>2, HandleType
      <4>2. /\ working[s0] \in Seq(Messages) /\ working'[s0] = RemoveAt(working[s0], j)
            /\ \A r \in Servers : r # s0 => working'[r] = working[r]
        BY <4>1 DEF TypeInv, TypeOK
      <4>3. /\ working[s0][j].key \in Keys /\ applied[s0] \in Nat /\ dropped[s0] \in Seq(Keys)
            /\ Len(dropped[s0]) \in Nat
        BY <4>1 DEF TypeInv, TypeOK, Messages
      <4>4. CASE Stored(s0, working[s0][j])
        <5>1. /\ dropped' = dropped /\ applied'[s0] = applied[s0] + 1
              /\ \A r \in Servers : r # s0 => applied'[r] = applied[r]
          BY <4>4 DEF Stored, TypeInv, TypeOK
        <5>2. Handled(s0)' = Handled(s0) + 1 /\ \A r \in Servers : r # s0 => Handled(r)' = Handled(r)
          BY <4>3, <5>1 DEF Handled
        <5> QED BY <4>1, <4>2, <5>2
      <4>5. CASE GivenUp(s0, working[s0][j])
        <5>1. /\ applied' = applied /\ dropped'[s0] = Append(dropped[s0], working[s0][j].key)
              /\ \A r \in Servers : r # s0 => dropped'[r] = dropped[r]
          BY <4>5 DEF GivenUp, TypeInv, TypeOK
        <5>2. Len(dropped'[s0]) = Len(dropped[s0]) + 1
          BY <4>3, <5>1
        <5>3. Handled(s0)' = Handled(s0) + 1
          <6>1. Handled(s0)' = applied[s0] + (Len(dropped[s0]) + 1)
            BY <5>1, <5>2 DEF Handled
          <6> QED BY <4>3, <6>1 DEF Handled
        <5>4. \A r \in Servers : r # s0 => Handled(r)' = Handled(r)
          BY <5>1 DEF Handled
        <5> QED BY <4>1, <4>2, <5>3, <5>4
      <4> QED BY <4>1, <4>4, <4>5
    <3>2. /\ Len(working'[s0]) = Len(working[s0]) - 1 /\ Len(inbox'[s0]) = Len(inbox[s0])
          /\ Handled(s0)' = Handled(s0) + 1
      BY <3>1, RemoveAtFacts
    <3>3. /\ Handled(s) \in Nat /\ Len(inbox[s]) \in Nat /\ Len(working[s]) \in Nat
          /\ Messaged(s)' = Handled(s)' + Len(inbox'[s]) + Len(working'[s])
          /\ Messaged(s) = Handled(s) + Len(inbox[s]) + Len(working[s])
      BY MessagedType DEF Messaged
    <3>4. CASE s = s0
      <4>1. \A a, i, w \in Nat : (a + 1) + i + (w - 1) = a + i + w
        OBVIOUS
      <4>2. Messaged(s)' = (Handled(s) + 1) + Len(inbox[s]) + (Len(working[s]) - 1)
        BY <3>2, <3>3, <3>4
      <4> QED BY <3>3, <4>1, <4>2, Zenon
    <3>5. CASE s # s0
      BY <3>1, <3>3, <3>5
    <3> QED BY <3>4, <3>5
  <2> QED BY <2>1, <2>2 DEF Work
<1>3. \A s : SumFunction(Weights(s)') = SumFunction(Weights(s))
  BY <1>1 DEF Weights
<1>4. \A s \in Servers : Messaged(s) = SumFunction(Weights(s))
  BY WeightsAre DEF CountInv, Messaged, Handled
<1>5. \A s \in Servers : Messaged(s)' = SumFunction(Weights(s)')
  BY <1>2, <1>3, <1>4
<1> QED BY <1>1, <1>5, WeightsAre DEF CountInv, Messaged, Handled

LEMMA NextCount == TypeInv /\ CountInv /\ [Next]_vars => CountInv'
<1> SUFFICES ASSUME TypeInv, CountInv, [Next]_vars PROVE CountInv'
  OBVIOUS
<1>1. ASSUME UNCHANGED <<inbox, working, applied, dropped, call, stats>> PROVE CountInv'
  <2>1. \A s : SumFunction(Weights(s)') = SumFunction(Weights(s))
    BY <1>1 DEF Weights
  <2>2. \A s \in Servers : Messaged(s) = SumFunction(Weights(s)) /\ Messaged(s)' = Messaged(s)
    BY <1>1, WeightsAre DEF CountInv, Messaged, Handled
  <2> QED BY <1>1, <2>1, <2>2, WeightsAre DEF CountInv, Messaged, Handled
<1>2. CASE Start
  BY <1>1, <1>2, StartType
<1>3. ASSUME NEW p \in Processes, Boot(p) PROVE CountInv'
  BY <1>1, <1>3, BootType
<1>4. ASSUME NEW t \in Threads, Begin(t) PROVE CountInv'
  BY <1>4, BeginCount
<1>5. ASSUME NEW t \in Threads, Put(t) PROVE CountInv'
  BY <1>5, PrepareCount, InsertCount, ReleaseCount DEF Put
<1>6. ASSUME NEW s \in Servers, Work(s) PROVE CountInv'
  BY <1>6, WorkCount
<1>7. CASE UNCHANGED vars
  BY <1>1, <1>7 DEF vars, data
<1> QED BY <1>2, <1>3, <1>4, <1>5, <1>6, <1>7 DEF Next

LEMMA InitCount == Init => CountInv
<1> SUFFICES ASSUME Init PROVE CountInv
  OBVIOUS
<1>1. \A t \in Threads : /\ call[t] = Idle
                        /\ stats[t].added = 0 /\ stats[t].removed = 0
  BY DEF Init
<1>2. \A t \in Threads : \A s : Weight(call[t], stats[t], s) = 0
  BY <1>1, IdleFacts DEF Weight, Pending, Counts
<1>3. ASSUME NEW s \in Servers PROVE SumFunction(Weights(s)) = 0
  <2> DEFINE f == Weights(s)
  <2>1. DOMAIN f = Threads /\ \A t \in Threads : f[t] = 0
    BY <1>2 DEF Weights
  <2> HIDE DEF f
  <2>2. SumFunctionOnSet(f, Threads) = Cardinality(Threads) * 0
    BY <2>1, SumConstant, ThreadsFinite
  <2>3. Cardinality(Threads) \in Nat
    BY ThreadsFinite, FS_CardinalityType
  <2> QED BY <2>1, <2>2, <2>3 DEF SumFunction, f
<1>4. \A s \in Servers :
         applied[s] + Len(dropped[s]) + Len(inbox[s]) + Len(working[s]) = 0
  BY DEF Init
<1> QED BY <1>1, <1>3, <1>4, WeightsAre DEF CountInv

(***************************************************************************)
(* When no put is in progress and no message on its way, every server has  *)
(* stored or given up exactly as many elements as the clients counted: a   *)
(* put that succeeded once, and none that aborted.                         *)
(***************************************************************************)
THEOREM CountersAreRight == Spec => []CountersMatch
<1>1. TypeInv /\ CountInv => CountersMatch
  <2> SUFFICES ASSUME TypeInv, CountInv, Quiet, NEW s \in Servers
               PROVE  applied[s] + Len(dropped[s]) = SumFunction([t \in Threads |-> puts(t)])
    BY DEF CountersMatch
  <2>1. \A t \in Threads : puts(t) \in Int
    BY WeightType DEF TypeInv, TypeOK, puts, Counts
  <2>2. \A t \in Threads : weight(t, s) = puts(t)
    BY <2>1 DEF Quiet, weight
  <2>3. [t \in Threads |-> weight(t, s)] = [t \in Threads |-> puts(t)]
    BY <2>2
  <2>4. applied[s] + Len(dropped[s]) + Len(inbox[s]) + Len(working[s])
            = applied[s] + Len(dropped[s])
    BY MessagedType DEF Quiet, Handled
  <2> QED BY <2>3, <2>4 DEF CountInv
<1> QED BY <1>1, InitType, InitCount, NextType, NextCount, PTL DEF Spec
=============================================================================
