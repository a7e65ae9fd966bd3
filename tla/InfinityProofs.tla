--------------------------- MODULE InfinityProofs ---------------------------
(***************************************************************************)
(* The RDMA library for any connections, workers, buffers and requests.    *)
(* A thread that waits has exactly one answer on its way: its last request *)
(* in the queue, or one completion of it (TokenOK).  Every buffer of an    *)
(* accepted connection is in one place: the receive queue, the completion  *)
(* queue, or the hands of a worker (BuffersOK).                            *)
(***************************************************************************)
EXTENDS Infinity, SequenceTheorems, FiniteSetTheorems, TLAPS

-----------------------------------------------------------------------------
\* Sequences without repetition.
LEMMA TailDistinct ==
    ASSUME NEW S, NEW s \in Seq(S), s # << >>, Distinct(s)
    PROVE  /\ Distinct(Tail(s)) /\ Head(s) \in Elements(s)
           /\ Elements(Tail(s)) = Elements(s) \ {Head(s)}
<1>1. Len(s) \in Nat \ {0} /\ DOMAIN s = 1 .. Len(s)
  OBVIOUS
<1>2. DOMAIN Tail(s) = 1 .. Len(s) - 1 /\ \A i \in 1 .. Len(s) - 1 : Tail(s)[i] = s[i + 1]
  OBVIOUS
<1>3. Head(s) = s[1]
  OBVIOUS
<1>4. Distinct(Tail(s))
  <2> SUFFICES ASSUME NEW i \in 1 .. Len(s) - 1, NEW j \in 1 .. Len(s) - 1, Tail(s)[i] = Tail(s)[j]
               PROVE  i = j
    BY <1>2 DEF Distinct
  <2>1. i + 1 \in DOMAIN s /\ j + 1 \in DOMAIN s /\ s[i + 1] = s[j + 1]
    BY <1>1, <1>2
  <2> QED BY <2>1, <1>1 DEF Distinct
<1>5. ASSUME NEW x \in Elements(Tail(s)) PROVE x \in Elements(s) \ {Head(s)}
  <2>1. PICK i \in 1 .. Len(s) - 1 : x = s[i + 1]
    BY <1>2 DEF Elements
  <2>2. i + 1 \in DOMAIN s /\ 1 \in DOMAIN s /\ i + 1 # 1
    BY <1>1
  <2> QED BY <2>1, <2>2, <1>3 DEF Elements, Distinct
<1>6. ASSUME NEW x \in Elements(s) \ {Head(s)} PROVE x \in Elements(Tail(s))
  <2>1. PICK i \in DOMAIN s : x = s[i]
    BY DEF Elements
  <2>2. i # 1
    BY <2>1, <1>3
  <2>3. i - 1 \in 1 .. Len(s) - 1 /\ x = Tail(s)[i - 1]
    BY <2>1, <2>2, <1>1, <1>2
  <2> QED BY <2>3, <1>2 DEF Elements
<1>7. Head(s) \in Elements(s)
  BY <1>1, <1>3 DEF Elements
<1>8. Elements(Tail(s)) = Elements(s) \ {Head(s)}
  BY <1>5, <1>6
<1> QED BY <1>4, <1>7, <1>8

LEMMA ConcatDistinct ==
    ASSUME NEW S, NEW s \in Seq(S), NEW r \in Seq(S), Distinct(s), Distinct(r),
           Elements(s) \cap Elements(r) = {}
    PROVE  Distinct(s \o r) /\ Elements(s \o r) = Elements(s) \cup Elements(r)
<1>1. /\ DOMAIN (s \o r) = 1 .. Len(s) + Len(r) /\ DOMAIN s = 1 .. Len(s)
      /\ DOMAIN r = 1 .. Len(r) /\ Len(s) \in Nat /\ Len(r) \in Nat
      /\ \A i \in 1 .. Len(s) + Len(r) : (s \o r)[i] = IF i <= Len(s) THEN s[i] ELSE r[i - Len(s)]
  OBVIOUS
<1>2. \A i \in DOMAIN (s \o r) :
        \/ i \in DOMAIN s /\ (s \o r)[i] = s[i]
        \/ i > Len(s) /\ i - Len(s) \in DOMAIN r /\ (s \o r)[i] = r[i - Len(s)]
  BY <1>1
<1>3. Distinct(s \o r)
  <2> SUFFICES ASSUME NEW i \in DOMAIN (s \o r), NEW j \in DOMAIN (s \o r),
                      (s \o r)[i] = (s \o r)[j]
               PROVE  i = j
    BY DEF Distinct
  <2>1. i \in Int /\ j \in Int
    BY <1>1
  <2>2. CASE i \in DOMAIN s /\ j \in DOMAIN s /\ s[i] = s[j]
    BY <2>2 DEF Distinct
  <2>3. CASE i - Len(s) \in DOMAIN r /\ j - Len(s) \in DOMAIN r /\ r[i - Len(s)] = r[j - Len(s)]
    <3>1. i - Len(s) = j - Len(s)
      BY <2>3 DEF Distinct
    <3> QED BY <3>1, <2>1, <1>1
  <2>4. CASE i \in DOMAIN s /\ j - Len(s) \in DOMAIN r /\ s[i] = r[j - Len(s)]
    BY <2>4 DEF Elements
  <2>5. CASE j \in DOMAIN s /\ i - Len(s) \in DOMAIN r /\ s[j] = r[i - Len(s)]
    BY <2>5 DEF Elements
  <2> QED BY <1>2, <2>2, <2>3, <2>4, <2>5
<1>4. ASSUME NEW x \in Elements(s \o r) PROVE x \in Elements(s) \cup Elements(r)
  BY <1>2 DEF Elements
<1>5. ASSUME NEW x \in Elements(s) PROVE x \in Elements(s \o r)
  <2>1. PICK i \in DOMAIN s : x = s[i]
    BY DEF Elements
  <2>2. i \in DOMAIN (s \o r) /\ (s \o r)[i] = x
    BY <2>1, <1>1
  <2> QED BY <2>2 DEF Elements
<1>6. ASSUME NEW x \in Elements(r) PROVE x \in Elements(s \o r)
  <2>1. PICK i \in DOMAIN r : x = r[i]
    BY DEF Elements
  <2>2. i + Len(s) \in DOMAIN (s \o r) /\ ~(i + Len(s) <= Len(s)) /\ (i + Len(s)) - Len(s) = i
    BY <2>1, <1>1
  <2>3. (s \o r)[i + Len(s)] = x
    BY <2>1, <2>2, <1>1
  <2> QED BY <2>2, <2>3 DEF Elements
<1> QED BY <1>3, <1>4, <1>5, <1>6

LEMMA AppendDistinct ==
    ASSUME NEW S, NEW s \in Seq(S), NEW e \in S, Distinct(s), e \notin Elements(s)
    PROVE  Distinct(Append(s, e)) /\ Elements(Append(s, e)) = Elements(s) \cup {e}
<1>0. <<e>> \in Seq(S)
  OBVIOUS
<1>1. PICK r \in Seq(S) : r = <<e>>
  BY <1>0
<1>2. Distinct(r) /\ Elements(r) = {e}
  BY <1>1 DEF Distinct, Elements
<1>3. Append(s, e) = s \o r
  BY <1>1
<1>4. Distinct(s \o r) /\ Elements(s \o r) = Elements(s) \cup Elements(r)
  BY <1>2, ConcatDistinct
<1> QED BY <1>2, <1>3, <1>4

-----------------------------------------------------------------------------
\* The blocks of buffers the server posts, one per connection.
LEMMA TimesMonotone ==
    ASSUME NEW x \in Int, NEW y \in Int, x <= y
    PROVE  x * PerClient <= y * PerClient
<1> USE InfinityAssumption
<1>1. y - x \in Nat
  OBVIOUS
<1>2. (y - x) * PerClient >= 0
  BY <1>1
<1>3. (y - x) * PerClient = y * PerClient - x * PerClient
  OBVIOUS
<1>4. x * PerClient \in Int /\ y * PerClient \in Int
  OBVIOUS
<1> QED BY <1>2, <1>3, <1>4

LEMMA BlockFacts ==
    ASSUME NEW c \in Conns
    PROVE  /\ Block(c) \subseteq Buffers
           /\ \A d \in Conns : d # c => Block(c) \cap Block(d) = {}
<1> USE InfinityAssumption
<1>1. c \in Int /\ 1 <= c /\ c <= N
  BY DEF Conns
<1>3. Block(c) \subseteq Buffers
  <2>1. 0 * PerClient <= (c - 1) * PerClient /\ c * PerClient <= N * PerClient
    BY <1>1, TimesMonotone
  <2>2. 0 * PerClient = 0 /\ (c - 1) * PerClient \in Int /\ c * PerClient \in Int /\ N * PerClient \in Int
    BY <1>1
  <2> QED BY <2>1, <2>2 DEF Block, Buffers
<1>4. ASSUME NEW d \in Conns, d # c PROVE Block(c) \cap Block(d) = {}
  <2>1. d \in Int
    BY DEF Conns
  <2>2. /\ (c - 1) * PerClient \in Int /\ c * PerClient \in Int
        /\ (d - 1) * PerClient \in Int /\ d * PerClient \in Int
    BY <1>1, <2>1
  <2>3. CASE c <= d - 1
    BY <2>1, <2>2, <2>3, <1>1, TimesMonotone DEF Block
  <2>4. CASE d <= c - 1
    BY <2>1, <2>2, <2>4, <1>1, TimesMonotone DEF Block
  <2> QED BY <2>1, <2>3, <2>4, <1>1, <1>4
<1> QED BY <1>3, <1>4

LEMMA BlockCover == \A b \in Buffers : \E c \in Conns : b \in Block(c)
<1> USE InfinityAssumption
<1> SUFFICES ASSUME NEW b \in Buffers PROVE \E c \in Conns : b \in Block(c)
  OBVIOUS
<1>1. b \in Int /\ 1 <= b /\ b <= N * PerClient
  BY DEF Buffers
<1> DEFINE q == (b - 1) \div PerClient
           r == (b - 1) % PerClient
<1>2. q \in Int /\ r \in 0 .. PerClient - 1 /\ b - 1 = PerClient * q + r
  BY <1>1
<1> HIDE DEF q, r
<1>3. PICK m \in Int : m = q * PerClient
  BY <1>2
<1>4. b = m + r + 1
  BY <1>1, <1>2, <1>3
<1>5. (q + 1) * PerClient = m + PerClient
  BY <1>2, <1>3
<1>6. q >= 0
  <2>1. SUFFICES ASSUME q <= -1 PROVE FALSE
    BY <1>2
  <2>2. m <= -PerClient
    BY <2>1, <1>2, <1>3, TimesMonotone
  <2> QED BY <2>2, <1>1, <1>2, <1>4
<1>7. q + 1 <= N
  <2>1. SUFFICES ASSUME q >= N PROVE FALSE
    BY <1>2
  <2>2. N * PerClient <= m
    BY <2>1, <1>2, <1>3, TimesMonotone
  <2> QED BY <2>2, <1>1, <1>2, <1>3, <1>4
<1>8. b \in Block(q + 1)
  <2>1. (q + 1) - 1 = q
    BY <1>2
  <2> QED BY <2>1, <1>2, <1>3, <1>4, <1>5 DEF Block
<1> QED BY <1>2, <1>6, <1>7, <1>8 DEF Conns

LEMMA BlockSequence ==
    ASSUME NEW c \in Conns, NEW s, s = [i \in 1 .. PerClient |-> (c - 1) * PerClient + i]
    PROVE  s \in Seq(Buffers) /\ Distinct(s) /\ Elements(s) = Block(c)
<1> USE InfinityAssumption
<1>1. PICK m \in Int : m = (c - 1) * PerClient
  BY DEF Conns
<1>2. c * PerClient = m + PerClient
  BY <1>1 DEF Conns
<1>3. s = [i \in 1 .. PerClient |-> m + i] /\ Block(c) = m + 1 .. m + PerClient
  BY <1>1, <1>2 DEF Block
<1>4. Elements(s) = Block(c)
  <2>1. ASSUME NEW b \in Block(c) PROVE b \in Elements(s)
    <3>1. b - m \in 1 .. PerClient /\ m + (b - m) = b
      BY <1>3
    <3> QED BY <3>1, <1>3 DEF Elements
  <2> QED BY <2>1, <1>3 DEF Elements
<1>5. Distinct(s)
  BY <1>3 DEF Distinct
<1>6. \A i \in 1 .. PerClient : s[i] \in Buffers
  BY <1>3, <1>4, BlockFacts DEF Elements
<1> QED BY <1>3, <1>4, <1>5, <1>6

-----------------------------------------------------------------------------
\* The buffers of the arrivals, under the two changes of the receive queue.
LEMMA ArrivedType ==
    ASSUME TypeOK
    PROVE  /\ Arrived \in Seq(Buffers) /\ Len(Arrived) = Len(recvCQ)
           /\ DOMAIN Arrived = 1 .. Len(recvCQ) /\ DOMAIN recvCQ = 1 .. Len(recvCQ)
           /\ Len(recvCQ) \in Nat
           /\ \A i \in 1 .. Len(recvCQ) : Arrived[i] = recvCQ[i].buffer
<1>1. recvCQ \in Seq(Arrival) /\ DOMAIN recvCQ = 1 .. Len(recvCQ) /\ Len(recvCQ) \in Nat
  BY DEF TypeOK
<1>2. \A i \in 1 .. Len(recvCQ) : recvCQ[i] \in Arrival
  BY <1>1
<1>3. \A i \in 1 .. Len(recvCQ) : recvCQ[i].buffer \in Buffers
  BY <1>2 DEF Arrival
<1>4. Arrived = [i \in 1 .. Len(recvCQ) |-> recvCQ[i].buffer]
  BY <1>1 DEF Arrived
<1> QED BY <1>1, <1>3, <1>4

LEMMA ArrivedAppend ==
    ASSUME TypeOK, NEW e \in Arrival, recvCQ' = Append(recvCQ, e)
    PROVE  Arrived' = Append(Arrived, e.buffer)
<1>1. recvCQ \in Seq(Arrival) /\ e.buffer \in Buffers
  BY DEF TypeOK, Arrival
<1>2. Arrived' = [i \in DOMAIN recvCQ' |-> recvCQ'[i].buffer]
  BY DEF Arrived
<1>3. /\ DOMAIN recvCQ' = 1 .. Len(recvCQ) + 1 /\ recvCQ'[Len(recvCQ) + 1] = e
      /\ \A i \in 1 .. Len(recvCQ) : recvCQ'[i] = recvCQ[i]
  BY <1>1
<1>4. /\ DOMAIN Append(Arrived, e.buffer) = 1 .. Len(recvCQ) + 1
      /\ Append(Arrived, e.buffer)[Len(recvCQ) + 1] = e.buffer
      /\ \A i \in 1 .. Len(recvCQ) : Append(Arrived, e.buffer)[i] = Arrived[i]
  BY <1>1, ArrivedType
<1>5. \A i \in 1 .. Len(recvCQ) + 1 : recvCQ'[i].buffer = Append(Arrived, e.buffer)[i]
  BY <1>3, <1>4, ArrivedType
<1>6. Append(Arrived, e.buffer) \in Seq(Buffers)
  BY <1>1, ArrivedType
<1> QED BY <1>2, <1>3, <1>4, <1>5, <1>6

LEMMA ArrivedTail ==
    ASSUME TypeOK, recvCQ # << >>, recvCQ' = Tail(recvCQ)
    PROVE  /\ Arrived # << >> /\ Arrived' = Tail(Arrived)
           /\ Head(recvCQ) \in Arrival /\ Head(Arrived) = Head(recvCQ).buffer
<1>1. recvCQ \in Seq(Arrival) /\ Len(recvCQ) > 0
  BY DEF TypeOK
<1>2. Arrived' = [i \in DOMAIN recvCQ' |-> recvCQ'[i].buffer]
  BY DEF Arrived
<1>3. /\ DOMAIN recvCQ' = 1 .. Len(recvCQ) - 1
      /\ \A i \in 1 .. Len(recvCQ) - 1 : recvCQ'[i] = recvCQ[i + 1]
  BY <1>1
<1>4. Arrived # << >>
  BY <1>1, ArrivedType
<1>5. /\ DOMAIN Tail(Arrived) = 1 .. Len(recvCQ) - 1 /\ Tail(Arrived) \in Seq(Buffers)
      /\ \A i \in 1 .. Len(recvCQ) - 1 : Tail(Arrived)[i] = Arrived[i + 1]
  BY <1>4, ArrivedType
<1>6. \A i \in 1 .. Len(recvCQ) - 1 : i + 1 \in 1 .. Len(recvCQ)
  BY <1>1
<1>7. \A i \in 1 .. Len(recvCQ) - 1 : recvCQ'[i].buffer = Tail(Arrived)[i]
  BY <1>3, <1>5, <1>6, ArrivedType
<1>8. Head(recvCQ) = recvCQ[1] /\ Head(Arrived) = Arrived[1] /\ 1 \in 1 .. Len(recvCQ)
  BY <1>1, <1>4, ArrivedType
<1>9. Head(recvCQ) \in Arrival
  BY <1>1
<1>10. Arrived' = Tail(Arrived)
  <2>1. PICK r \in Seq(Buffers) : r = Tail(Arrived)
    BY <1>5
  <2>a. r = [i \in 1 .. Len(r) |-> r[i]]
    OBVIOUS
  <2>b. Len(r) = Len(recvCQ) - 1
    BY <2>1, <1>1, <1>4, ArrivedType
  <2>2. r = [i \in 1 .. Len(recvCQ) - 1 |-> r[i]]
    BY <2>a, <2>b
  <2> QED BY <2>1, <2>2, <1>2, <1>3, <1>7
<1>11. Head(Arrived) = Head(recvCQ).buffer
  BY <1>8, ArrivedType
<1> QED BY <1>4, <1>9, <1>10, <1>11

-----------------------------------------------------------------------------
LEMMA BuffersFrame ==
    ASSUME IInv, UNCHANGED <<srq, recvCQ, working>>,
           \A c \in Conns : serverQP'[c] = "none" <=> serverQP[c] = "none"
    PROVE  BuffersOK'
<1>1. Arrived' = Arrived /\ Held' = Held /\ Looked' = Looked
  BY DEF Arrived, Held, Looked
<1> QED BY <1>1 DEF BuffersOK, IInv

\* No matter how buffers move, the same ones stay in use.
LEMMA BuffersMove ==
    ASSUME IInv, serverQP' = serverQP,
           Distinct(srq'), Distinct(Arrived'),
           \A v, w \in Held' : working'[v] = working'[w] => v = w,
           Elements(srq') \cap Elements(Arrived') = {},
           (Elements(srq') \cup Elements(Arrived')) \cap Looked' = {},
           Elements(srq') \cup Elements(Arrived') \cup Looked'
               = Elements(srq) \cup Elements(Arrived) \cup Looked
    PROVE  BuffersOK'
BY DEF BuffersOK, IInv

LEMMA AcceptBuffers ==
    ASSUME IInv, NEW c \in Conns, Accept(c)
    PROVE  BuffersOK' /\ srq' \in Seq(Buffers)
<1> DEFINE b == [i \in 1 .. PerClient |-> (c - 1) * PerClient + i]
<1>1. b \in Seq(Buffers) /\ Distinct(b) /\ Elements(b) = Block(c)
  BY BlockSequence
<1>2. srq \in Seq(Buffers) /\ serverQP[c] = "none" /\ srq' = srq \o b
  BY DEF Accept, IInv, TypeOK
<1>3. Arrived' = Arrived /\ Held' = Held /\ Looked' = Looked /\ working' = working
  BY DEF Arrived, Held, Looked, Accept
<1>4. Block(c) \subseteq Buffers /\ \A d \in Conns : d # c => Block(c) \cap Block(d) = {}
  BY BlockFacts
<1>5. Block(c) \cap (Elements(srq) \cup Elements(Arrived) \cup Looked) = {}
  BY <1>2, <1>4 DEF IInv, BuffersOK
<1> HIDE DEF b
<1>6. Distinct(srq') /\ Elements(srq') = Elements(srq) \cup Block(c)
  BY <1>1, <1>2, <1>5, ConcatDistinct DEF IInv, BuffersOK
<1>7. \A d \in Conns : serverQP'[d] # "none" <=> (serverQP[d] # "none" \/ d = c)
  BY DEF Accept, IInv, TypeOK
<1>8. \A x \in Buffers :
        x \in Elements(srq') \cup Elements(Arrived') \cup Looked'
            <=> \E d \in Conns : serverQP'[d] # "none" /\ x \in Block(d)
  BY <1>3, <1>6, <1>7 DEF IInv, BuffersOK
<1>9. /\ Elements(srq') \cap Elements(Arrived') = {}
      /\ (Elements(srq') \cup Elements(Arrived')) \cap Looked' = {}
  BY <1>3, <1>5, <1>6 DEF IInv, BuffersOK
<1>10. Distinct(Arrived') /\ \A v, w \in Held' : working'[v] = working'[w] => v = w
  BY <1>3 DEF IInv, BuffersOK
<1>11. srq' \in Seq(Buffers)
  BY <1>1, <1>2
<1> QED BY <1>6, <1>8, <1>9, <1>10, <1>11 DEF BuffersOK

\* A request that takes a buffer.
LEMMA TakeBuffers ==
    ASSUME IInv, NEW e \in Arrival, srq # << >>, e.buffer = Head(srq), srq' = Tail(srq),
           recvCQ' = Append(recvCQ, e), UNCHANGED <<working, serverQP>>
    PROVE  BuffersOK'
<1>1. srq \in Seq(Buffers) /\ TypeOK /\ Head(srq) \in Buffers
  BY DEF IInv, TypeOK
<1>2. Arrived' = Append(Arrived, Head(srq)) /\ Arrived \in Seq(Buffers)
  BY <1>1, ArrivedAppend, ArrivedType
<1>3. Held' = Held /\ Looked' = Looked
  BY DEF Held, Looked
<1>4. /\ Distinct(srq) /\ Distinct(Arrived) /\ Elements(srq) \cap Elements(Arrived) = {}
      /\ (Elements(srq) \cup Elements(Arrived)) \cap Looked = {}
  BY DEF IInv, BuffersOK
<1>5. /\ Distinct(srq') /\ Head(srq) \in Elements(srq)
      /\ Elements(srq') = Elements(srq) \ {Head(srq)}
  BY <1>1, <1>4, TailDistinct
<1>6. Distinct(Arrived') /\ Elements(Arrived') = Elements(Arrived) \cup {Head(srq)}
  BY <1>1, <1>2, <1>4, <1>5, AppendDistinct
<1>7. \A v, w \in Held' : working'[v] = working'[w] => v = w
  BY <1>3 DEF IInv, BuffersOK
<1>8. Elements(srq') \cap Elements(Arrived') = {}
  BY <1>4, <1>5, <1>6
<1>9. (Elements(srq') \cup Elements(Arrived')) \cap Looked' = {}
  BY <1>3, <1>4, <1>5, <1>6
<1>10. Elements(srq') \cup Elements(Arrived') \cup Looked'
           = Elements(srq) \cup Elements(Arrived) \cup Looked
  BY <1>3, <1>5, <1>6
<1> QED BY <1>5, <1>6, <1>7, <1>8, <1>9, <1>10, BuffersMove

LEMMA ReceiveBuffers ==
    ASSUME IInv, NEW w \in Workers, receive(w)
    PROVE  BuffersOK' /\ srq' \in Seq(Buffers) /\ working' \in [Workers -> Buffers \cup {NoBuffer}]
<1> DEFINE b == Head(recvCQ).buffer
<1>1. srq \in Seq(Buffers) /\ TypeOK /\ Arrived \in Seq(Buffers)
  BY ArrivedType DEF IInv, TypeOK
<1>2. /\ Arrived # << >> /\ Arrived' = Tail(Arrived) /\ b = Head(Arrived) /\ b \in Buffers
  BY <1>1, ArrivedTail DEF receive, Arrival
<1>3. /\ Distinct(srq) /\ Distinct(Arrived) /\ Elements(srq) \cap Elements(Arrived) = {}
      /\ (Elements(srq) \cup Elements(Arrived)) \cap Looked = {}
  BY DEF IInv, BuffersOK
<1>4. Distinct(Arrived') /\ b \in Elements(Arrived) /\ Elements(Arrived') = Elements(Arrived) \ {b}
  BY <1>1, <1>2, <1>3, TailDistinct
<1>5. /\ working[w] = NoBuffer /\ working \in [Workers -> Buffers \cup {NoBuffer}]
      /\ serverQP' = serverQP /\ b # NoBuffer
  BY <1>2, InfinityAssumption DEF receive, IInv, TypeOK, Buffers, NoBuffer
<1>6. CASE working' = [working EXCEPT ![w] = b] /\ srq' = srq
  <2> HIDE DEF b
  <2>1. \A v \in Workers : working'[v] = IF v = w THEN b ELSE working[v]
    BY <1>5, <1>6
  <2>2. Held' = Held \cup {w} /\ w \notin Held
    BY <1>5, <2>1 DEF Held
  <2>3. Looked' = Looked \cup {b}
    BY <2>1, <2>2 DEF Looked, Held
  <2>4. b \notin Looked
    BY <1>3, <1>4
  <2>5. \A v, u \in Held' : working'[v] = working'[u] => v = u
    <3>1. \A v \in Held : working'[v] = working[v] /\ working[v] \in Looked
      BY <2>1, <2>2 DEF Looked, Held
    <3>2. working'[w] = b
      BY <2>1
    <3> QED BY <3>1, <3>2, <2>2, <2>4 DEF IInv, BuffersOK
  <2>6. Elements(srq') \cap Elements(Arrived') = {}
    BY <1>3, <1>4, <1>6
  <2>7. (Elements(srq') \cup Elements(Arrived')) \cap Looked' = {}
    BY <1>3, <1>4, <1>6, <2>3
  <2>8. Elements(srq') \cup Elements(Arrived') \cup Looked'
           = Elements(srq) \cup Elements(Arrived) \cup Looked
    BY <1>4, <1>6, <2>3
  <2>9. working' \in [Workers -> Buffers \cup {NoBuffer}]
    BY <1>2, <1>5, <1>6
  <2>10. BuffersOK'
    BY <1>3, <1>4, <1>5, <1>6, <2>5, <2>6, <2>7, <2>8, BuffersMove
  <2> QED BY <2>9, <2>10, <1>1, <1>6
<1>7. CASE working' = working /\ srq' = Append(srq, b)
  <2> HIDE DEF b
  <2>1. Held' = Held /\ Looked' = Looked
    BY <1>7 DEF Held, Looked
  <2>2. Distinct(srq') /\ Elements(srq') = Elements(srq) \cup {b}
    BY <1>1, <1>2, <1>3, <1>4, <1>7, AppendDistinct
  <2>3. \A v, u \in Held' : working'[v] = working'[u] => v = u
    BY <1>7, <2>1 DEF IInv, BuffersOK
  <2>4. Elements(srq') \cap Elements(Arrived') = {}
    BY <1>3, <1>4, <2>2
  <2>5. (Elements(srq') \cup Elements(Arrived')) \cap Looked' = {}
    BY <1>3, <1>4, <2>1, <2>2
  <2>6. Elements(srq') \cup Elements(Arrived') \cup Looked'
           = Elements(srq) \cup Elements(Arrived) \cup Looked
    BY <1>4, <2>1, <2>2
  <2>7. srq' \in Seq(Buffers)
    BY <1>1, <1>2, <1>7
  <2>8. BuffersOK'
    BY <1>4, <1>5, <2>2, <2>3, <2>4, <2>5, <2>6, BuffersMove
  <2> QED BY <2>7, <2>8, <1>5, <1>7
<1> QED BY <1>6, <1>7 DEF receive

LEMMA PostBuffers ==
    ASSUME IInv, NEW w \in Workers, postReceiveBuffer(w)
    PROVE  BuffersOK' /\ srq' \in Seq(Buffers) /\ working' \in [Workers -> Buffers \cup {NoBuffer}]
<1> DEFINE b == working[w]
<1>1. /\ srq \in Seq(Buffers) /\ working \in [Workers -> Buffers \cup {NoBuffer}]
      /\ b \in Buffers /\ b # NoBuffer /\ serverQP' = serverQP
      /\ srq' = Append(srq, b) /\ working' = [working EXCEPT ![w] = NoBuffer] /\ recvCQ' = recvCQ
  BY DEF postReceiveBuffer, IInv, TypeOK
<1>2. Arrived' = Arrived
  BY <1>1 DEF Arrived
<1>3. /\ Distinct(srq) /\ Distinct(Arrived) /\ Elements(srq) \cap Elements(Arrived) = {}
      /\ (Elements(srq) \cup Elements(Arrived)) \cap Looked = {}
      /\ \A v, u \in Held : working[v] = working[u] => v = u
  BY DEF IInv, BuffersOK
<1>4. w \in Held /\ b \in Looked
  BY <1>1 DEF Held, Looked
<1>5. Held' = Held \ {w} /\ \A v \in Held' : working'[v] = working[v]
  BY <1>1 DEF Held
<1>6. Looked' = Looked \ {b}
  <2>1. Looked' = {working'[v] : v \in Held'}
    BY DEF Looked
  <2>2. Looked' = {working[v] : v \in Held \ {w}}
    BY <2>1, <1>5
  <2> QED BY <2>2, <1>3, <1>4 DEF Looked
<1> HIDE DEF b
<1>7. Distinct(srq') /\ Elements(srq') = Elements(srq) \cup {b}
  BY <1>1, <1>3, <1>4, AppendDistinct
<1>8. \A v, u \in Held' : working'[v] = working'[u] => v = u
  BY <1>3, <1>5
<1>9. Elements(srq') \cap Elements(Arrived') = {}
  BY <1>2, <1>3, <1>4, <1>7
<1>10. (Elements(srq') \cup Elements(Arrived')) \cap Looked' = {}
  BY <1>2, <1>3, <1>6, <1>7
<1>11. Elements(srq') \cup Elements(Arrived') \cup Looked'
          = Elements(srq) \cup Elements(Arrived) \cup Looked
  BY <1>2, <1>4, <1>6, <1>7
<1>12. Distinct(Arrived')
  BY <1>2, <1>3
<1>13. BuffersOK'
  BY <1>1, <1>7, <1>8, <1>9, <1>10, <1>11, <1>12, BuffersMove
<1>14. srq' \in Seq(Buffers) /\ working' \in [Workers -> Buffers \cup {NoBuffer}]
  BY <1>1
<1> QED BY <1>13, <1>14

-----------------------------------------------------------------------------
\* The tokens: a thread whose requests and completions do not change keeps its own.
LEMMA TokenFrame ==
    ASSUME IInv, NEW t \in Conns,
           queue'[t] = queue[t], token'[t] = token[t], t \in waiting' <=> t \in waiting,
           posted'[t] = posted[t], done'[t] = done[t],
           clientQP'[t] # "error" => clientQP[t] # "error",
           Unanswered(t) => Unanswered(t)', Answered(t) => Answered(t)'
    PROVE  TokenOK(t)'
<1>1. TokenOK(t)
  BY DEF IInv
<1>2. Signaled(t)' = Signaled(t)
  BY DEF Signaled
<1> QED BY <1>1, <1>2 DEF TokenOK

LEMMA QueueUnchanged ==
    ASSUME NEW t \in Conns, sendCQ' = sendCQ, posted'[t] = posted[t], done'[t] = done[t]
    PROVE  (Unanswered(t) => Unanswered(t)') /\ (Answered(t) => Answered(t)')
BY DEF Unanswered, Answered

LEMMA QueueAppend ==
    ASSUME IInv, NEW x \in Completion, sendCQ' = Append(sendCQ, x)
    PROVE  /\ \A t \in Conns :
                (t # x.thread /\ posted'[t] = posted[t] /\ done'[t] = done[t]) =>
                    (Unanswered(t) => Unanswered(t)') /\ (Answered(t) => Answered(t)')
           /\ (Unanswered(x.thread) /\ (x.success => done'[x.thread] = posted'[x.thread])) =>
                \E i \in DOMAIN sendCQ' :
                    /\ sendCQ'[i].thread = x.thread
                    /\ sendCQ'[i].success => done'[x.thread] = posted'[x.thread]
                    /\ \A j \in DOMAIN sendCQ' : sendCQ'[j].thread = x.thread => j = i
           /\ sendCQ' \in Seq(Completion)
<1> DEFINE n == Len(sendCQ)
<1>1. sendCQ \in Seq(Completion) /\ n \in Nat
  BY DEF IInv, TypeOK
<1>2. /\ DOMAIN sendCQ = 1 .. n /\ DOMAIN sendCQ' = 1 .. n + 1 /\ sendCQ'[n + 1] = x
      /\ \A i \in 1 .. n : sendCQ'[i] = sendCQ[i]
      /\ sendCQ' \in Seq(Completion)
  BY <1>1
<1> HIDE DEF n
<1>3. ASSUME NEW t \in Conns, t # x.thread, posted'[t] = posted[t], done'[t] = done[t]
      PROVE  (Unanswered(t) => Unanswered(t)') /\ (Answered(t) => Answered(t)')
  <2>1. \A i \in DOMAIN sendCQ' : sendCQ'[i].thread = t => (i \in DOMAIN sendCQ /\ sendCQ'[i] = sendCQ[i])
    BY <1>1, <1>2, <1>3
  <2>2. \A i \in DOMAIN sendCQ : i \in DOMAIN sendCQ' /\ sendCQ'[i] = sendCQ[i]
    BY <1>1, <1>2
  <2>3. Unanswered(t) => Unanswered(t)'
    BY <2>1 DEF Unanswered
  <2>4. Answered(t) => Answered(t)'
    BY <2>1, <2>2, <1>3 DEF Answered
  <2> QED BY <2>3, <2>4
<1>4. ASSUME Unanswered(x.thread), x.success => done'[x.thread] = posted'[x.thread]
      PROVE  \E i \in DOMAIN sendCQ' :
                    /\ sendCQ'[i].thread = x.thread
                    /\ sendCQ'[i].success => done'[x.thread] = posted'[x.thread]
                    /\ \A j \in DOMAIN sendCQ' : sendCQ'[j].thread = x.thread => j = i
  <2>1. \A j \in 1 .. n : sendCQ'[j].thread # x.thread
    BY <1>2, <1>4 DEF Unanswered
  <2>2. \A j \in DOMAIN sendCQ' : sendCQ'[j].thread = x.thread => j = n + 1
    BY <2>1, <1>1, <1>2
  <2>3. n + 1 \in DOMAIN sendCQ'
    BY <1>1, <1>2
  <2> QED BY <2>2, <2>3, <1>2, <1>4
<1> QED BY <1>2, <1>3, <1>4

LEMMA QueueTail ==
    ASSUME IInv, sendCQ # << >>, sendCQ' = Tail(sendCQ), NEW t \in Conns,
           posted'[t] = posted[t], done'[t] = done[t]
    PROVE  /\ Head(sendCQ) \in Completion
           /\ sendCQ' \in Seq(Completion)
           /\ t # Head(sendCQ).thread =>
                (Unanswered(t) => Unanswered(t)') /\ (Answered(t) => Answered(t)')
           /\ t = Head(sendCQ).thread =>
                /\ ~Unanswered(t)
                /\ Answered(t) => (Unanswered(t)' /\ (Head(sendCQ).success => done[t] = posted[t]))
<1> DEFINE n == Len(sendCQ)
           h == Head(sendCQ)
<1>1. sendCQ \in Seq(Completion) /\ n \in Nat \ {0}
  BY DEF IInv, TypeOK
<1>2. /\ DOMAIN sendCQ = 1 .. n /\ DOMAIN sendCQ' = 1 .. n - 1 /\ h = sendCQ[1]
      /\ \A i \in 1 .. n - 1 : sendCQ'[i] = sendCQ[i + 1]
      /\ sendCQ' \in Seq(Completion)
      /\ h \in Completion
  BY <1>1
<1> HIDE DEF n, h
<1>3. \A i \in DOMAIN sendCQ' : i + 1 \in DOMAIN sendCQ /\ sendCQ'[i] = sendCQ[i + 1]
  BY <1>1, <1>2
<1>4. \A i \in DOMAIN sendCQ : i # 1 => (i - 1 \in DOMAIN sendCQ' /\ sendCQ'[i - 1] = sendCQ[i])
  BY <1>1, <1>2
<1>5. 1 \in DOMAIN sendCQ /\ DOMAIN sendCQ \subseteq Int /\ DOMAIN sendCQ' \subseteq Nat \ {0}
  BY <1>1, <1>2
<1>6. Unanswered(t) => Unanswered(t)'
  BY <1>3 DEF Unanswered
<1>7. ASSUME t # h.thread, Answered(t) PROVE Answered(t)'
  <2>1. PICK i \in DOMAIN sendCQ :
            /\ sendCQ[i].thread = t
            /\ sendCQ[i].success => done[t] = posted[t]
            /\ \A j \in DOMAIN sendCQ : sendCQ[j].thread = t => j = i
    BY <1>7 DEF Answered
  <2>2. i - 1 \in DOMAIN sendCQ' /\ sendCQ'[i - 1] = sendCQ[i]
    BY <2>1, <1>2, <1>4, <1>7
  <2>3. ASSUME NEW j \in DOMAIN sendCQ', sendCQ'[j].thread = t PROVE j = i - 1
    <3>1. j + 1 = i
      BY <2>1, <2>3, <1>3
    <3> QED BY <3>1, <1>5
  <2> QED BY <2>1, <2>2, <2>3 DEF Answered
<1>8. ASSUME t = h.thread
      PROVE  /\ ~Unanswered(t)
             /\ Answered(t) => (Unanswered(t)' /\ (h.success => done[t] = posted[t]))
  <2>1. ~Unanswered(t)
    BY <1>2, <1>5, <1>8 DEF Unanswered
  <2>2. ASSUME Answered(t) PROVE Unanswered(t)' /\ (h.success => done[t] = posted[t])
    <3>1. PICK i \in DOMAIN sendCQ :
              /\ sendCQ[i].thread = t
              /\ sendCQ[i].success => done[t] = posted[t]
              /\ \A j \in DOMAIN sendCQ : sendCQ[j].thread = t => j = i
      BY <2>2 DEF Answered
    <3>2. i = 1
      BY <3>1, <1>2, <1>5, <1>8
    <3>3. ASSUME NEW j \in DOMAIN sendCQ' PROVE sendCQ'[j].thread # t
      <4>1. j + 1 \in DOMAIN sendCQ /\ sendCQ'[j] = sendCQ[j + 1] /\ j + 1 # 1
        BY <1>3, <1>5
      <4> QED BY <4>1, <3>1, <3>2
    <3> QED BY <3>1, <3>2, <3>3, <1>2 DEF Unanswered
  <2> QED BY <2>1, <2>2
<1> QED BY <1>2, <1>6, <1>7, <1>8 DEF h

-----------------------------------------------------------------------------
\* One lemma per action.
LEMMA InitIInv == Init => IInv
<1> SUFFICES ASSUME Init PROVE IInv
  OBVIOUS
<1> USE DEF Init
<1>1. TypeOK
  <2>1. Fresh \in [completed : BOOLEAN, success : BOOLEAN]
    BY DEF Fresh
  <2>2. token \in [Conns -> [completed : BOOLEAN, success : BOOLEAN]]
    BY <2>1
  <2>3. srq \in Seq(Buffers) /\ recvCQ \in Seq(Arrival) /\ sendCQ \in Seq(Completion)
    OBVIOUS
  <2>4. queue \in [Conns -> Seq(Request)]
    OBVIOUS
  <2> QED BY <2>2, <2>3, <2>4 DEF TypeOK
<1>2. SetupOK
  BY DEF SetupOK
<1>3. BuffersOK
  <2>1. Elements(srq) = {} /\ Arrived = << >> /\ Elements(Arrived) = {} /\ Held = {} /\ Looked = {}
    BY DEF Elements, Arrived, Held, Looked
  <2>2. Distinct(srq) /\ Distinct(Arrived)
    BY <2>1 DEF Distinct
  <2> QED BY <2>1, <2>2 DEF BuffersOK
<1>4. ASSUME NEW t \in Conns PROVE TokenOK(t)
  <2>1. Signaled(t) = {} /\ Unanswered(t)
    BY DEF Signaled, Unanswered
  <2> QED BY <2>1 DEF TokenOK
<1> QED BY <1>1, <1>2, <1>3, <1>4 DEF IInv

LEMMA SetupTokens ==
    ASSUME IInv, UNCHANGED <<queue, sendCQ, token, waiting, posted, done>>,
           \A t \in Conns : clientQP'[t] # "error" => clientQP[t] # "error"
    PROVE  \A t \in Conns : TokenOK(t)'
<1> SUFFICES ASSUME NEW t \in Conns PROVE TokenOK(t)'
  OBVIOUS
<1>1. (Unanswered(t) => Unanswered(t)') /\ (Answered(t) => Answered(t)')
  BY QueueUnchanged
<1> QED BY <1>1, TokenFrame

LEMMA DialIInv ==
    ASSUME IInv, NEW c \in Conns, Dial(c)
    PROVE  IInv'
<1>1. TypeOK'
  BY DEF IInv, TypeOK, Dial, server
<1>2. SetupOK'
  BY DEF IInv, SetupOK, Dial, server
<1>3. BuffersOK'
  BY BuffersFrame DEF Dial, server
<1>4. \A t \in Conns : TokenOK(t)'
  BY SetupTokens DEF Dial, IInv, TypeOK
<1> QED BY <1>1, <1>2, <1>3, <1>4 DEF IInv

LEMMA ConnectIInv ==
    ASSUME IInv, NEW c \in Conns, Connect(c)
    PROVE  IInv'
<1>1. TypeOK'
  BY DEF IInv, TypeOK, Connect, server, setup
<1>2. SetupOK'
  BY DEF IInv, SetupOK, Connect, server, setup
<1>3. BuffersOK'
  BY BuffersFrame DEF Connect, server
<1>4. \A t \in Conns : TokenOK(t)'
  BY SetupTokens DEF Connect, IInv, TypeOK
<1> QED BY <1>1, <1>2, <1>3, <1>4 DEF IInv

LEMMA AcceptIInv ==
    ASSUME IInv, NEW c \in Conns, Accept(c)
    PROVE  IInv'
<1>1. BuffersOK' /\ srq' \in Seq(Buffers)
  BY AcceptBuffers
<1>2. TypeOK'
  BY <1>1 DEF IInv, TypeOK, Accept
<1>3. SetupOK'
  BY DEF IInv, SetupOK, TypeOK, Accept
<1>4. \A t \in Conns : TokenOK(t)'
  BY SetupTokens DEF Accept
<1> QED BY <1>1, <1>2, <1>3, <1>4 DEF IInv

LEMMA ActivateIInv ==
    ASSUME IInv, NEW c \in Conns, activate(c)
    PROVE  IInv'
<1>1. TypeOK'
  BY DEF IInv, TypeOK, activate, server, setup
<1>2. SetupOK'
  BY DEF IInv, SetupOK, TypeOK, activate, server, setup
<1>3. BuffersOK'
  BY BuffersFrame DEF activate, server, IInv, TypeOK
<1>4. \A t \in Conns : TokenOK(t)'
  BY SetupTokens DEF activate
<1> QED BY <1>1, <1>2, <1>3, <1>4 DEF IInv

LEMMA RegisterIInv ==
    ASSUME IInv, NEW c \in Conns, registerQueuePair(c)
    PROVE  IInv'
<1>1. TypeOK'
  BY DEF IInv, TypeOK, SetupOK, registerQueuePair, server
<1>2. SetupOK'
  BY DEF IInv, SetupOK, TypeOK, registerQueuePair, server
<1>3. BuffersOK'
  BY BuffersFrame DEF registerQueuePair, server
<1>4. \A t \in Conns : TokenOK(t)'
  BY SetupTokens DEF registerQueuePair
<1> QED BY <1>1, <1>2, <1>3, <1>4 DEF IInv

LEMMA ServeIInv ==
    ASSUME IInv, Serve
    PROVE  IInv'
<1>1. TypeOK'
  BY DEF IInv, TypeOK, Serve, server
<1>2. SetupOK'
  BY DEF IInv, SetupOK, Serve, server
<1>3. BuffersOK'
  BY BuffersFrame DEF Serve, server
<1>4. \A t \in Conns : TokenOK(t)'
  BY SetupTokens DEF Serve
<1> QED BY <1>1, <1>2, <1>3, <1>4 DEF IInv

LEMMA PostIInv ==
    ASSUME IInv, NEW t \in Conns, NEW kind \in {"send", "notify", "data", "stray"},
           NEW signaled \in BOOLEAN, Post(t, kind, signaled)
    PROVE  IInv'
<1> DEFINE r == [kind |-> kind, signaled |-> signaled]
           q == queue[t]
<1>1. r \in Request /\ q \in Seq(Request) /\ t \notin waiting
  BY DEF Request, IInv, TypeOK, Post, Ready
<1>2. /\ queue' = [queue EXCEPT ![t] = Append(q, r)] /\ posted' = [posted EXCEPT ![t] = posted[t] + 1]
      /\ UNCHANGED <<setup, clientQP, serverQP, srq, recvCQ, working, threw, sendCQ, done>>
      /\ waiting' = (IF signaled THEN waiting \cup {t} ELSE waiting)
      /\ token' = (IF signaled THEN [token EXCEPT ![t] = Fresh] ELSE token)
  BY DEF Post, server
<1>3. Append(q, r) \in Seq(Request)
  BY <1>1
<1>4. /\ Len(Append(q, r)) = Len(q) + 1 /\ Len(q) \in Nat
      /\ DOMAIN Append(q, r) = 1 .. Len(q) + 1 /\ DOMAIN q = 1 .. Len(q)
      /\ \A i \in 1 .. Len(q) : Append(q, r)[i] = q[i]
      /\ Append(q, r)[Len(q) + 1].signaled <=> signaled
  BY <1>1
<1>5. Fresh \in [completed : BOOLEAN, success : BOOLEAN] /\ ~Fresh.completed /\ ~Fresh.success
  BY DEF Fresh
<1> HIDE DEF r
<1>6. TypeOK'
  <2>1. queue' \in [Conns -> Seq(Request)]
    BY <1>2, <1>3 DEF IInv, TypeOK
  <2>2. token' \in [Conns -> [completed : BOOLEAN, success : BOOLEAN]] /\ waiting' \subseteq Conns
    BY <1>2, <1>5 DEF IInv, TypeOK
  <2>3. posted' \in [Conns -> Nat]
    BY <1>2 DEF IInv, TypeOK
  <2> QED BY <2>1, <2>2, <2>3, <1>2 DEF IInv, TypeOK, setup
<1>7. SetupOK'
  BY <1>2 DEF IInv, SetupOK, setup
<1>8. BuffersOK'
  BY <1>2, BuffersFrame
<1>9. ASSUME NEW u \in Conns, u # t PROVE TokenOK(u)'
  <2>1. /\ queue'[u] = queue[u] /\ token'[u] = token[u] /\ (u \in waiting' <=> u \in waiting)
        /\ posted'[u] = posted[u] /\ done'[u] = done[u] /\ clientQP'[u] = clientQP[u]
    BY <1>2, <1>9 DEF IInv, TypeOK
  <2>2. (Unanswered(u) => Unanswered(u)') /\ (Answered(u) => Answered(u)')
    BY <1>2, <2>1, QueueUnchanged
  <2> QED BY <2>1, <2>2, TokenFrame
<1>10. TokenOK(t)'
  <2>1. TokenOK(t)
    BY DEF IInv
  <2>2. \A i \in 1 .. Len(q) : ~q[i].signaled
    BY <2>1, <1>1, <1>4 DEF TokenOK, Signaled
  <2>3. queue'[t] = Append(q, r) /\ queue'[t] # << >>
    BY <1>2, <1>4 DEF IInv, TypeOK
  <2>4. Signaled(t)' = {i \in 1 .. Len(q) + 1 : Append(q, r)[i].signaled}
    BY <1>4, <2>3 DEF Signaled
  <2>5. Signaled(t)' = IF signaled THEN {Len(q) + 1} ELSE {}
    BY <1>4, <2>2, <2>4
  <2>6. Unanswered(t)'
    BY <2>1, <1>1, <1>2 DEF TokenOK, Unanswered
  <2>7. clientQP'[t] # "error" => posted'[t] = done'[t] + Len(queue'[t])
    BY <2>1, <2>3, <1>2, <1>4 DEF TokenOK, IInv, TypeOK
  <2>8. signaled => (t \in waiting' /\ token'[t] = Fresh)
    BY <1>2 DEF IInv, TypeOK
  <2>9. ~signaled => t \notin waiting'
    BY <1>1, <1>2
  <2> QED BY <2>3, <2>5, <2>6, <2>7, <2>8, <2>9, <1>4, <1>5 DEF TokenOK
<1> QED BY <1>6, <1>7, <1>8, <1>9, <1>10 DEF IInv

LEMMA RequestsIInv ==
    ASSUME IInv, NEW t \in Conns, Requests(t)
    PROVE  IInv'
<1>1. \E k \in {"send", "notify", "data", "stray"}, s \in BOOLEAN : Post(t, k, s)
  BY DEF Requests, send, sendWithImmediate, write, read, writeWithImmediate,
         multiWriteWithImmediate, multiWrite, compareAndSwap, fetchAndAdd, PostAt
<1> QED BY <1>1, PostIInv

LEMMA ExecuteIInv ==
    ASSUME IInv, NEW t \in Conns, Execute(t)
    PROVE  IInv'
<1> DEFINE q == queue[t]
           r == Head(q)
           x == [thread |-> t, success |-> TRUE]
           e == [kind |-> r.kind, buffer |-> Head(srq), conn |-> t]
<1>1. q \in Seq(Request) /\ q # << >> /\ r \in Request /\ r.signaled \in BOOLEAN
  <2>1. q \in Seq(Request) /\ q # << >>
    BY DEF IInv, TypeOK, Execute
  <2>2. r \in Request
    BY <2>1
  <2> QED BY <2>1, <2>2 DEF Request
<1>2. /\ queue' = [queue EXCEPT ![t] = Tail(q)] /\ done' = [done EXCEPT ![t] = done[t] + 1]
      /\ UNCHANGED <<setup, clientQP, serverQP, working, threw, token, waiting, posted>>
      /\ sendCQ' = (IF r.signaled THEN Append(sendCQ, x) ELSE sendCQ)
      /\ clientQP[t] = "active"
  BY DEF Execute
<1>n. PICK n \in Nat \ {0} : n = Len(q)
  BY <1>1
<1>l. Len(Tail(q)) = n - 1 /\ Tail(q) \in Seq(Request)
  BY <1>1, <1>n
<1>d. Tail(q) = << >> <=> Len(Tail(q)) = 0
  <2>1. PICK d \in Seq(Request) : d = Tail(q)
    BY <1>l
  <2>2. d = << >> <=> Len(d) = 0
    OBVIOUS
  <2> QED BY <2>1, <2>2
<1>3. /\ DOMAIN Tail(q) = 1 .. n - 1 /\ DOMAIN q = 1 .. n /\ r = q[1]
      /\ \A i \in 1 .. n - 1 : Tail(q)[i] = q[i + 1]
  BY <1>1, <1>n
<1>4. x \in Completion /\ x.thread = t /\ x.success
  BY DEF Completion
<1>5. BuffersOK' /\ srq' \in Seq(Buffers) /\ recvCQ' \in Seq(Arrival)
  <2>1. CASE r.kind \in {"send", "notify"}
    <3>1. srq # << >> /\ srq' = Tail(srq) /\ recvCQ' = Append(recvCQ, e)
      BY <2>1 DEF Execute
    <3>2. srq \in Seq(Buffers) /\ Head(srq) \in Buffers /\ Tail(srq) \in Seq(Buffers)
      BY <3>1 DEF IInv, TypeOK
    <3>3. e \in Arrival /\ e.buffer = Head(srq)
      BY <2>1, <3>2 DEF Arrival
    <3> HIDE DEF e
    <3>4. BuffersOK'
      BY <3>1, <3>3, <1>2, TakeBuffers
    <3>5. recvCQ' \in Seq(Arrival)
      BY <3>1, <3>3 DEF IInv, TypeOK
    <3> QED BY <3>1, <3>2, <3>4, <3>5
  <2>2. CASE r.kind \notin {"send", "notify"}
    <3>1. UNCHANGED <<srq, recvCQ>>
      BY <2>2 DEF Execute
    <3> QED BY <3>1, <1>2, BuffersFrame DEF IInv, TypeOK
  <2> QED BY <2>1, <2>2
<1> HIDE DEF x, r
<1>6. TypeOK'
  <2>1. queue' \in [Conns -> Seq(Request)] /\ done' \in [Conns -> Nat]
    BY <1>2, <1>l, <1>n, <1>3 DEF IInv, TypeOK
  <2>2. sendCQ' \in Seq(Completion)
    BY <1>1, <1>2, <1>4 DEF IInv, TypeOK
  <2> QED BY <2>1, <2>2, <1>2, <1>5 DEF IInv, TypeOK, setup
<1>7. SetupOK'
  BY <1>2 DEF IInv, SetupOK, setup
<1>8. ASSUME NEW u \in Conns, u # t PROVE TokenOK(u)'
  <2>1. /\ queue'[u] = queue[u] /\ token'[u] = token[u] /\ (u \in waiting' <=> u \in waiting)
        /\ posted'[u] = posted[u] /\ done'[u] = done[u] /\ clientQP'[u] = clientQP[u]
    BY <1>2, <1>8 DEF IInv, TypeOK
  <2>2. CASE r.signaled
    <3>1. (Unanswered(u) => Unanswered(u)') /\ (Answered(u) => Answered(u)')
      BY <2>1, <2>2, <1>2, <1>4, <1>8, QueueAppend
    <3> QED BY <2>1, <3>1, TokenFrame
  <2>3. CASE ~r.signaled
    <3>1. (Unanswered(u) => Unanswered(u)') /\ (Answered(u) => Answered(u)')
      BY <2>1, <2>3, <1>2, QueueUnchanged
    <3> QED BY <2>1, <3>1, TokenFrame
  <2> QED BY <2>2, <2>3
<1>9. TokenOK(t)'
  <2>1. TokenOK(t) /\ queue'[t] = Tail(q) /\ done'[t] = done[t] + 1 /\ posted'[t] = posted[t]
    BY <1>2 DEF IInv, TypeOK
  <2>2. posted[t] = done[t] + n /\ done[t] \in Nat
    BY <2>1, <1>2, <1>n DEF TokenOK, IInv, TypeOK
  <2>3. posted'[t] = done'[t] + Len(queue'[t])
    BY <2>1, <2>2, <1>l
  <2>4. Signaled(t)' = {i \in 1 .. n - 1 : q[i + 1].signaled}
    BY <2>1, <1>l, <1>n, <1>3 DEF Signaled
  <2>5. Signaled(t) = {i \in 1 .. n : q[i].signaled}
    BY <1>l, <1>n, <1>3 DEF Signaled
  <2>6. CASE t \notin waiting \/ token[t].completed
    <3>1. Signaled(t) = {} /\ Unanswered(t)
      BY <2>1, <2>6 DEF TokenOK
    <3>2. ~r.signaled
      BY <3>1, <2>5, <1>l, <1>n, <1>3
    <3>3. Signaled(t)' = {}
      BY <3>1, <2>4, <2>5, <1>l, <1>n, <1>3
    <3>4. Unanswered(t)'
      BY <3>1, <3>2, <1>2 DEF Unanswered
    <3>5. ~(t \in waiting /\ token[t].completed /\ token[t].success)
      BY <2>1, <2>2, <1>l, <1>n, <1>3 DEF TokenOK
    <3> QED BY <2>3, <2>6, <3>3, <3>4, <3>5, <1>2 DEF TokenOK
  <2>7. CASE t \in waiting /\ ~token[t].completed
    <3>1. ~token[t].success /\ Signaled(t) = {n} /\ Unanswered(t)
      BY <2>1, <2>7, <1>1, <1>n DEF TokenOK
    <3>2. CASE n = 1
      <4>1. r.signaled
        BY <3>1, <3>2, <2>5, <1>l, <1>n, <1>3
      <4>2. queue'[t] = << >> /\ done'[t] = posted'[t]
        <5>1. Len(Tail(q)) = 0
          BY <3>2, <1>l
        <5>2. Tail(q) = << >>
          BY <5>1, <1>d
        <5> QED BY <5>1, <5>2, <3>2, <2>1, <2>2
      <4>3. Answered(t)'
        BY <4>1, <4>2, <3>1, <1>2, <1>4, QueueAppend DEF Answered
      <4> QED BY <4>2, <4>3, <3>1, <2>3, <2>7, <1>2 DEF TokenOK
    <3>3. CASE n # 1
      <4>1. ~r.signaled
        <5>1. 1 \in 1 .. n /\ 1 \notin Signaled(t)
          BY <3>1, <3>3
        <5> QED BY <5>1, <2>5, <1>3
      <4>2. Signaled(t)' = {n - 1} /\ queue'[t] # << >> /\ Len(queue'[t]) = n - 1
        <5>1. \A i \in 1 .. n : q[i].signaled <=> i = n
          BY <3>1, <2>5, <1>l, <1>n, <1>3
        <5>2. \A i \in 1 .. n - 1 : q[i + 1].signaled <=> i = n - 1
          BY <5>1, <1>l, <1>n, <1>3
        <5>3. n - 1 \in 1 .. n - 1
          BY <3>3
        <5>4. Signaled(t)' = {n - 1}
          BY <5>2, <5>3, <2>4
        <5>5. Tail(q) # << >>
          <6>1. n - 1 # 0
            BY <5>3
          <6> QED BY <6>1, <1>d, <1>l
        <5> QED BY <5>4, <5>5, <2>1, <1>l
      <4>3. Unanswered(t)'
        BY <3>1, <4>1, <1>2 DEF Unanswered
      <4> QED BY <4>2, <4>3, <3>1, <2>3, <2>7, <1>2 DEF TokenOK
    <3> QED BY <3>2, <3>3
  <2> QED BY <2>6, <2>7
<1> QED BY <1>5, <1>6, <1>7, <1>8, <1>9 DEF IInv

LEMMA FailIInv ==
    ASSUME IInv, NEW t \in Conns, Fail(t)
    PROVE  IInv'
<1> DEFINE x == [thread |-> t, success |-> FALSE]
<1>1. /\ queue' = [queue EXCEPT ![t] = << >>] /\ clientQP' = [clientQP EXCEPT ![t] = "error"]
      /\ UNCHANGED <<setup, serverQP, srq, recvCQ, working, threw, token, waiting, posted, done>>
      /\ sendCQ' = sendCQ \o [i \in 1 .. Cardinality(Signaled(t)) |-> x]
      /\ queue[t] # << >>
  BY DEF Fail, server
<1>2. x \in Completion /\ x.thread = t /\ ~x.success
  BY DEF Completion
<1> HIDE DEF x
<1>3. TokenOK(t) /\ sendCQ \in Seq(Completion)
  BY DEF IInv, TypeOK
<1>4. queue'[t] = << >> /\ clientQP'[t] = "error" /\ Signaled(t)' = {}
  <2>1. queue'[t] = << >> /\ clientQP'[t] = "error"
    BY <1>1 DEF IInv, TypeOK
  <2> QED BY <2>1 DEF Signaled
<1>5. BuffersOK'
  BY <1>1, BuffersFrame
<1>6. SetupOK'
  BY <1>1 DEF IInv, SetupOK, setup
<1>7. ASSUME sendCQ' \in Seq(Completion) PROVE TypeOK'
  <2>1. queue' \in [Conns -> Seq(Request)]
    BY <1>1 DEF IInv, TypeOK
  <2> QED BY <2>1, <1>1, <1>7 DEF IInv, TypeOK, setup
<1>8. \A u \in Conns : u # t =>
        /\ queue'[u] = queue[u] /\ token'[u] = token[u] /\ (u \in waiting' <=> u \in waiting)
        /\ posted'[u] = posted[u] /\ done'[u] = done[u] /\ clientQP'[u] = clientQP[u]
  BY <1>1 DEF IInv, TypeOK
<1>9. CASE t \notin waiting \/ token[t].completed
  <2>1. Signaled(t) = {} /\ Unanswered(t)
    BY <1>3, <1>9 DEF TokenOK
  <2>2. Cardinality(Signaled(t)) = 0
    BY <2>1, FS_EmptySet
  <2>3. sendCQ' = sendCQ
    BY <2>2, <1>1, <1>3
  <2>4. TokenOK(t)'
    BY <2>1, <2>3, <1>1, <1>3, <1>4, <1>9 DEF TokenOK, Unanswered
  <2>5. ASSUME NEW u \in Conns, u # t PROVE TokenOK(u)'
    <3>1. (Unanswered(u) => Unanswered(u)') /\ (Answered(u) => Answered(u)')
      BY <2>3, <2>5, <1>8, QueueUnchanged
    <3> QED BY <3>1, <2>5, <1>8, TokenFrame
  <2> QED BY <2>3, <2>4, <2>5, <1>3, <1>5, <1>6, <1>7 DEF IInv
<1>10. CASE t \in waiting /\ ~token[t].completed
  <2>1. ~token[t].success /\ Signaled(t) = {Len(queue[t])} /\ Unanswered(t)
    BY <1>1, <1>3, <1>10 DEF TokenOK
  <2>2. Cardinality(Signaled(t)) = 1
    BY <2>1, FS_Singleton
  <2>3. [i \in 1 .. 1 |-> x] = <<x>>
    OBVIOUS
  <2>4. sendCQ' = Append(sendCQ, x)
    BY <2>2, <2>3, <1>1, <1>3
  <2>5. Answered(t)' /\ sendCQ' \in Seq(Completion)
    BY <2>1, <2>4, <1>2, QueueAppend DEF Answered
  <2>6. TokenOK(t)'
    BY <2>1, <2>5, <1>1, <1>4, <1>10 DEF TokenOK
  <2>7. ASSUME NEW u \in Conns, u # t PROVE TokenOK(u)'
    <3>1. (Unanswered(u) => Unanswered(u)') /\ (Answered(u) => Answered(u)')
      BY <2>4, <2>7, <1>2, <1>8, QueueAppend
    <3> QED BY <3>1, <2>7, <1>8, TokenFrame
  <2> QED BY <2>5, <2>6, <2>7, <1>5, <1>6, <1>7 DEF IInv
<1> QED BY <1>9, <1>10

LEMMA PollIInv ==
    ASSUME IInv, NEW t \in Conns, pollSendCompletionQueue(t)
    PROVE  IInv'
<1>1. PICK h : h = Head(sendCQ)
  OBVIOUS
<1>2. PICK v : v = h.thread
  OBVIOUS
<1>3. /\ sendCQ # << >> /\ sendCQ' = Tail(sendCQ)
      /\ token' = [token EXCEPT ![v] = [completed |-> TRUE, success |-> h.success]]
      /\ UNCHANGED <<setup, clientQP, serverQP, srq, recvCQ, working, threw, queue, waiting,
                     posted, done>>
  BY <1>1, <1>2 DEF pollSendCompletionQueue, server
<1>4. h \in Completion /\ sendCQ' \in Seq(Completion)
  BY <1>1, <1>3, QueueTail
<1>5. v \in Conns /\ h.success \in BOOLEAN
  BY <1>2, <1>4 DEF Completion
<1>6. TypeOK'
  <2>1. [completed |-> TRUE, success |-> h.success] \in [completed : BOOLEAN, success : BOOLEAN]
    BY <1>5
  <2>2. token' \in [Conns -> [completed : BOOLEAN, success : BOOLEAN]]
    BY <2>1, <1>3 DEF IInv, TypeOK
  <2> QED BY <2>2, <1>3, <1>4 DEF IInv, TypeOK, setup
<1>7. BuffersOK'
  BY <1>3, BuffersFrame
<1>8. SetupOK'
  BY <1>3 DEF IInv, SetupOK, setup
<1>9. ASSUME NEW u \in Conns, u # v PROVE TokenOK(u)'
  <2>1. token'[u] = token[u]
    BY <1>3, <1>9 DEF IInv, TypeOK
  <2>2. (Unanswered(u) => Unanswered(u)') /\ (Answered(u) => Answered(u)')
    BY <1>1, <1>2, <1>3, <1>9, QueueTail
  <2> QED BY <2>1, <2>2, <1>3, TokenFrame
<1>10. TokenOK(v)'
  <2>1. /\ ~Unanswered(v)
        /\ Answered(v) => (Unanswered(v)' /\ (h.success => done[v] = posted[v]))
    BY <1>1, <1>2, <1>3, <1>5, QueueTail
  <2>2. TokenOK(v)
    BY <1>5 DEF IInv
  <2>3. v \in waiting /\ ~token[v].completed /\ queue[v] = << >> /\ Answered(v)
    BY <2>1, <2>2 DEF TokenOK
  <2>4. token'[v].completed /\ (token'[v].success <=> h.success)
    BY <1>3, <1>5 DEF IInv, TypeOK
  <2>5. Signaled(v)' = {}
    BY <2>3, <1>3 DEF Signaled
  <2> QED BY <2>1, <2>2, <2>3, <2>4, <2>5, <1>3 DEF TokenOK
<1> QED BY <1>6, <1>7, <1>8, <1>9, <1>10 DEF IInv

LEMMA CompletedIInv ==
    ASSUME IInv, NEW t \in Conns, Completed(t)
    PROVE  IInv'
<1>1. /\ waiting' = waiting \ {t} /\ t \in waiting /\ token[t].completed
      /\ UNCHANGED <<setup, clientQP, serverQP, srq, recvCQ, working, threw, queue, sendCQ, token,
                     posted, done>>
  BY DEF Completed, server
<1>2. TypeOK'
  BY <1>1 DEF IInv, TypeOK, setup
<1>3. BuffersOK'
  BY <1>1, BuffersFrame
<1>4. SetupOK'
  BY <1>1 DEF IInv, SetupOK, setup
<1>5. ASSUME NEW u \in Conns, u # t PROVE TokenOK(u)'
  <2>1. (Unanswered(u) => Unanswered(u)') /\ (Answered(u) => Answered(u)')
    BY <1>1, QueueUnchanged
  <2> QED BY <2>1, <1>1, <1>5, TokenFrame
<1>6. TokenOK(t)'
  <2>1. TokenOK(t)
    BY DEF IInv
  <2> QED BY <2>1, <1>1 DEF TokenOK, Signaled, Unanswered
<1> QED BY <1>2, <1>3, <1>4, <1>5, <1>6 DEF IInv

LEMMA ReceiveIInv ==
    ASSUME IInv, NEW w \in Workers, receive(w)
    PROVE  IInv'
<1>1. /\ BuffersOK' /\ srq' \in Seq(Buffers)
      /\ working' \in [Workers -> Buffers \cup {NoBuffer}]
  BY ReceiveBuffers
<1>2. /\ recvCQ # << >> /\ recvCQ' = Tail(recvCQ) /\ serving
      /\ threw' = (Head(recvCQ).conn \notin known)
      /\ UNCHANGED <<setup, clientQP, serverQP, queue, sendCQ, token, waiting, posted, done>>
  BY DEF receive
<1>3. Head(recvCQ) \in Arrival /\ recvCQ' \in Seq(Arrival)
  BY <1>2 DEF IInv, TypeOK
<1>4. Head(recvCQ).conn \in known
  BY <1>2, <1>3 DEF IInv, SetupOK, Arrival
<1>5. threw' = FALSE
  BY <1>2, <1>4
<1>6. TypeOK'
  BY <1>1, <1>2, <1>3, <1>5 DEF IInv, TypeOK, setup
<1>7. SetupOK'
  BY <1>2, <1>5 DEF IInv, SetupOK, setup
<1>8. \A t \in Conns : TokenOK(t)'
  BY <1>2, SetupTokens
<1> QED BY <1>1, <1>6, <1>7, <1>8 DEF IInv

LEMMA PostReceiveIInv ==
    ASSUME IInv, NEW w \in Workers, postReceiveBuffer(w)
    PROVE  IInv'
<1>1. /\ BuffersOK' /\ srq' \in Seq(Buffers)
      /\ working' \in [Workers -> Buffers \cup {NoBuffer}]
  BY PostBuffers
<1>2. UNCHANGED <<setup, clientQP, serverQP, recvCQ, threw, queue, sendCQ, token, waiting, posted,
                  done>>
  BY DEF postReceiveBuffer
<1>3. TypeOK'
  BY <1>1, <1>2 DEF IInv, TypeOK, setup
<1>4. SetupOK'
  BY <1>2 DEF IInv, SetupOK, setup
<1>5. \A t \in Conns : TokenOK(t)'
  BY <1>2, SetupTokens
<1> QED BY <1>1, <1>3, <1>4, <1>5 DEF IInv

LEMMA NextIInv == IInv /\ [Next]_vars => IInv'
<1> SUFFICES ASSUME IInv, [Next]_vars PROVE IInv'
  OBVIOUS
<1>1. ASSUME UNCHANGED vars PROVE IInv'
  <2>1. UNCHANGED <<setup, clientQP, serverQP, server, queue, sendCQ, token, waiting, posted, done>>
    BY <1>1 DEF vars
  <2>2. TypeOK'
    BY <2>1 DEF IInv, TypeOK, setup, server
  <2>3. SetupOK'
    BY <2>1 DEF IInv, SetupOK, setup, server
  <2>4. BuffersOK'
    BY <2>1, BuffersFrame DEF server
  <2>5. \A t \in Conns : TokenOK(t)'
    BY <2>1, SetupTokens
  <2> QED BY <2>2, <2>3, <2>4, <2>5 DEF IInv
<1>2. ASSUME NEW c \in Conns, Setup(c) PROVE IInv'
  BY <1>2, DialIInv, ConnectIInv, AcceptIInv, ActivateIInv, RegisterIInv DEF Setup
<1>3. ASSUME NEW c \in Conns, Waiting(c) PROVE IInv'
  BY <1>3, PollIInv, CompletedIInv DEF Waiting
<1>4. ASSUME NEW w \in Workers, Working(w) PROVE IInv'
  BY <1>4, ReceiveIInv, PostReceiveIInv DEF Working
<1> QED BY <1>1, <1>2, <1>3, <1>4, ServeIInv, RequestsIInv, ExecuteIInv, FailIInv DEF Next

-----------------------------------------------------------------------------
\* A sequence without repetition has as many places as elements.
LEMMA DistinctCardinality ==
    ASSUME NEW S, NEW s \in Seq(S), Distinct(s)
    PROVE  IsFiniteSet(Elements(s)) /\ Cardinality(Elements(s)) = Len(s)
<1>1. Len(s) \in Nat /\ DOMAIN s = 1 .. Len(s)
  OBVIOUS
<1>2. IsFiniteSet(1 .. Len(s)) /\ Cardinality(1 .. Len(s)) = Len(s)
  BY <1>1, FS_Interval
<1>3. s \in [1 .. Len(s) -> Elements(s)]
  BY <1>1 DEF Elements
<1>4. s \in Injection(1 .. Len(s), Elements(s))
  BY <1>1, <1>3 DEF Distinct, Injection, IsInjective
<1>5. s \in Surjection(1 .. Len(s), Elements(s))
  BY <1>1, <1>3 DEF Elements, Surjection
<1> QED BY <1>2, <1>4, <1>5, FS_Surjection

LEMMA HeldCardinality ==
    ASSUME IInv
    PROVE  IsFiniteSet(Looked) /\ Cardinality(Looked) = Cardinality(Held)
<1>1. Looked \in SUBSET Buffers
  BY DEF IInv, TypeOK, Looked, Held
<1>2. IsFiniteSet(Buffers)
  BY InfinityAssumption, FS_Interval DEF Buffers
<1>3. IsFiniteSet(Looked)
  BY <1>1, <1>2, FS_Subset
<1> DEFINE f == [w \in Held |-> working[w]]
<1>4. f \in [Held -> Looked]
  BY DEF Looked
<1>5. f \in Injection(Held, Looked)
  BY <1>4 DEF Injection, IsInjective, IInv, BuffersOK
<1>6. f \in Surjection(Held, Looked)
  BY <1>4 DEF Surjection, Looked
<1> QED BY <1>3, <1>5, <1>6, FS_Injection

LEMMA Conserved == IInv => BuffersConserved
<1> SUFFICES ASSUME IInv PROVE BuffersConserved
  OBVIOUS
<1>1. PICK p : p = srq \o Arrived
  OBVIOUS
<1>2. srq \in Seq(Buffers) /\ Arrived \in Seq(Buffers)
  BY ArrivedType DEF IInv, TypeOK
<1>3. p \in Seq(Buffers) /\ Distinct(p) /\ Elements(p) = Elements(srq) \cup Elements(Arrived)
  BY <1>1, <1>2, ConcatDistinct DEF IInv, BuffersOK
<1>4. IsFiniteSet(Elements(p)) /\ Cardinality(Elements(p)) = Len(p) /\ Len(p) \in Nat
  <2>1. Len(p) \in Nat
    BY <1>3
  <2>2. IsFiniteSet(Elements(p)) /\ Cardinality(Elements(p)) = Len(p)
    BY <1>3, DistinctCardinality
  <2> QED BY <2>1, <2>2
<1>5. IsFiniteSet(Looked) /\ Cardinality(Looked) = Cardinality(Held) /\ Cardinality(Looked) \in Nat
  BY HeldCardinality, FS_CardinalityType
<1>6. Elements(p) \cap Looked = {}
  BY <1>3 DEF IInv, BuffersOK
<1>7. Cardinality(Elements(p) \cup Looked) = Len(p) + Cardinality(Held)
  BY <1>4, <1>5, <1>6, FS_Union, FS_EmptySet
<1>8. ASSUME known = Conns PROVE Elements(p) \cup Looked = Buffers
  <2>1. Elements(p) \cup Looked \subseteq Buffers
    <3>1. Elements(p) \subseteq Buffers
      BY <1>3 DEF Elements
    <3>2. Looked \subseteq Buffers
      BY DEF IInv, TypeOK, Looked, Held
    <3> QED BY <3>1, <3>2
  <2>2. ASSUME NEW b \in Buffers PROVE b \in Elements(p) \cup Looked
    <3>1. PICK c \in Conns : b \in Block(c)
      BY BlockCover
    <3>2. serverQP[c] # "none"
      BY <1>8 DEF IInv, SetupOK
    <3> QED BY <3>1, <3>2, <1>3 DEF IInv, BuffersOK
  <2> QED BY <2>1, <2>2
<1>9. p = srq \o [i \in DOMAIN recvCQ |-> recvCQ[i].buffer]
  BY <1>1 DEF Arrived
<1>10. Looked = {working[w] : w \in {v \in Workers : working[v] # NoBuffer}}
  BY DEF Looked, Held
<1>11. Elements(p) = {p[i] : i \in DOMAIN p} /\ Held = {w \in Workers : working[w] # NoBuffer}
  BY DEF Elements, Held
<1> QED BY <1>7, <1>8, <1>9, <1>10, <1>11 DEF BuffersConserved

(***************************************************************************)
(* Every variable keeps its type.                                          *)
(***************************************************************************)
THEOREM TypeCorrect == Spec => []TypeOK
<1>1. IInv => TypeOK
  BY DEF IInv
<1> QED BY <1>1, InitIInv, NextIInv, PTL DEF Spec

(***************************************************************************)
(* What a thread finds when its wait ends (waitUntilCompleted): if its     *)
(* token says success, everything it has posted has taken effect, although *)
(* any thread may have polled the completion.                              *)
(***************************************************************************)
THEOREM SuccessIsDone == Spec => []SuccessMeansDone
<1>1. IInv => SuccessMeansDone
  BY DEF IInv, TokenOK, SuccessMeansDone
<1> QED BY <1>1, InitIInv, NextIInv, PTL DEF Spec

(***************************************************************************)
(* No receive buffer is lost or posted twice, whatever the requests        *)
(* interleave with the workers (receive, postReceiveBuffer).               *)
(***************************************************************************)
THEOREM BuffersStay == Spec => []BuffersConserved
BY Conserved, InitIInv, NextIInv, PTL DEF Spec

(***************************************************************************)
(* queuePairMap.at throws in no worker: all connections are registered     *)
(* before the first worker receives.                                       *)
(***************************************************************************)
THEOREM SendersAreKnown == Spec => []SenderIsKnown
<1>1. IInv => SenderIsKnown
  BY DEF IInv, SetupOK, SenderIsKnown
<1> QED BY <1>1, InitIInv, NextIInv, PTL DEF Spec
=============================================================================
