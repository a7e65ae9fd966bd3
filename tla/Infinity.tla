------------------------------ MODULE Infinity ------------------------------
(***************************************************************************)
(* The RDMA library the replicated store stands on                         *)
(* (ReplicatedKeyValueStoreRDMA/infinity) as the store uses it: a client   *)
(* process opens one queue pair per thread, all in one context, so that    *)
(* its threads share one send completion queue; a server process accepts   *)
(* them, all in one context, so that its workers share one receive queue.  *)
(*                                                                         *)
(* What the network adapter does (Execute, Fail) is external: requests of  *)
(* a queue pair take effect in the order they were posted, or fail         *)
(* together with all requests behind them.  The payload of requests is     *)
(* left out: a request is known by what it needs at the server.            *)
(***************************************************************************)
EXTENDS Integers, Sequences, FiniteSets

CONSTANTS N,             \* the connections, which are numbered in the order of connecting
          Workers,       \* the threads of the server that receive
          PerClient,     \* the receive buffers the server posts per connection
          MaxPosts,      \* bounds the requests of a thread
          RegionSize,    \* the units of memory the server registers
          Width          \* the bits of an offset: 64 in the code

ASSUME InfinityAssumption ==
    /\ N \in Nat \ {0} /\ PerClient \in Nat \ {0} /\ MaxPosts \in Nat
    /\ Width \in Nat /\ RegionSize \in 1 .. 2 ^ Width - 2

Conns == 1 .. N
Buffers == 1 .. N * PerClient
NoBuffer == 0

VARIABLES
    dialed, answered,    \* connections whose client, whose server sent its queue pair
    clientQP, serverQP,  \* the states of the queue pairs
    known,               \* queuePairMap of the server: the connections registered
    serving,             \* the workers are running
    srq, recvCQ,         \* the server's posted buffers and receive completions
    working,             \* working[w]: the buffer worker w looks at, or NoBuffer
    threw,               \* a worker got a completion of an unknown queue pair
    queue,               \* queue[t]: the requests of t that are on their way
    sendCQ,              \* the send completions of the client process
    token,               \* token[t]: the request token of t
    waiting,             \* the threads in waitUntilCompleted
    posted, done         \* requests of t posted, and those that took effect

setup == <<dialed, answered, known, serving>>
server == <<srq, recvCQ, working, threw>>
vars == <<setup, clientQP, serverQP, server, queue, sendCQ, token, waiting, posted, done>>

\* The requests of t on their way that have a token.
Signaled(t) == {i \in DOMAIN queue[t] : queue[t][i].signaled}

Fresh == [completed |-> FALSE, success |-> FALSE]

Init ==
    /\ dialed = {} /\ answered = {} /\ known = {} /\ serving = FALSE
    /\ clientQP = [c \in Conns |-> "none"] /\ serverQP = [c \in Conns |-> "none"]
    /\ srq = << >> /\ recvCQ = << >> /\ threw = FALSE
    /\ working = [w \in Workers |-> NoBuffer]
    /\ queue = [c \in Conns |-> << >>] /\ sendCQ = << >>
    /\ token = [c \in Conns |-> Fresh] /\ waiting = {}
    /\ posted = [c \in Conns |-> 0] /\ done = [c \in Conns |-> 0]

-----------------------------------------------------------------------------
\* connectToRemoteHost: the client creates its queue pair and sends its number,
\* one connection after the other.
Dial(c) ==
    /\ clientQP[c] = "none" /\ \A d \in 1 .. c - 1 : clientQP[d] \notin {"none", "init"}
    /\ clientQP' = [clientQP EXCEPT ![c] = "init"]
    /\ dialed' = dialed \cup {c}
    /\ UNCHANGED <<answered, known, serving, serverQP, server, queue, sendCQ, token, waiting,
                   posted, done>>

\* It gets the number of the server and activates the queue pair.
Connect(c) ==
    /\ clientQP[c] = "init" /\ c \in answered
    /\ clientQP' = [clientQP EXCEPT ![c] = "active"]
    /\ UNCHANGED <<setup, serverQP, server, queue, sendCQ, token, waiting, posted, done>>

\* The server posts receive buffers, then acceptIncomingConnection creates its
\* queue pair and answers BEFORE it activates it.
Accept(c) ==
    /\ c \in dialed /\ serverQP[c] = "none" /\ \A d \in 1 .. c - 1 : d \in known
    /\ srq' = srq \o [i \in 1 .. PerClient |-> (c - 1) * PerClient + i]
    /\ serverQP' = [serverQP EXCEPT ![c] = "init"]
    /\ answered' = answered \cup {c}
    /\ UNCHANGED <<dialed, known, serving, clientQP, recvCQ, working, threw, queue, sendCQ,
                   token, waiting, posted, done>>

activate(c) ==
    /\ serverQP[c] = "init"
    /\ serverQP' = [serverQP EXCEPT ![c] = "active"]
    /\ UNCHANGED <<setup, clientQP, server, queue, sendCQ, token, waiting, posted, done>>

registerQueuePair(c) ==
    /\ serverQP[c] = "active" /\ c \notin known
    /\ known' = known \cup {c}
    /\ UNCHANGED <<dialed, answered, serving, clientQP, serverQP, server, queue, sendCQ, token,
                   waiting, posted, done>>

\* Mutant: the workers start before all connections are registered.
Serve_Early ==
    /\ ~serving /\ answered = Conns
    /\ serving' = TRUE
    /\ UNCHANGED <<dialed, answered, known, clientQP, serverQP, server, queue, sendCQ, token,
                   waiting, posted, done>>

\* The server starts its workers when all connections are there.
Serve ==
    /\ ~serving /\ known = Conns
    /\ serving' = TRUE
    /\ UNCHANGED <<dialed, answered, known, clientQP, serverQP, server, queue, sendCQ, token,
                   waiting, posted, done>>

-----------------------------------------------------------------------------
\* A thread of the client works when its process has all connections.
Ready(t) ==
    /\ \A c \in Conns : clientQP[c] \notin {"none", "init"}
    /\ t \notin waiting /\ posted[t] < MaxPosts

\* ibv_post_send; with a token the request is signaled and the token is reset.
Post(t, kind, signaled) ==
    /\ Ready(t)
    /\ queue' = [queue EXCEPT ![t] = Append(@, [kind |-> kind, signaled |-> signaled])]
    /\ posted' = [posted EXCEPT ![t] = @ + 1]
    /\ token' = IF signaled THEN [token EXCEPT ![t] = Fresh] ELSE token
    /\ waiting' = IF signaled THEN waiting \cup {t} ELSE waiting
    /\ UNCHANGED <<setup, clientQP, serverQP, server, sendCQ, done>>

\* A request for one unit of the region at an offset.  The assertion compares
\* unsigned numbers: with an offset beyond the region the remaining size wraps
\* around and the request goes out as a stray one.
getRemainingSizeInBytes(offset) == (RegionSize - offset) % 2 ^ Width

PostAt(t, kind, signaled) ==
    \E offset \in {0, RegionSize, RegionSize + 1} :
        /\ 1 <= getRemainingSizeInBytes(offset)
        /\ Post(t, IF offset < RegionSize THEN kind ELSE "stray", signaled)

send(t, signaled) == Post(t, "send", signaled)
sendWithImmediate(t, signaled) == Post(t, "send", signaled)
write(t, signaled) == PostAt(t, "data", signaled)
writeWithImmediate(t, signaled) == PostAt(t, "notify", signaled)
multiWrite(t, signaled) == PostAt(t, "data", signaled)
multiWriteWithImmediate(t, signaled) == PostAt(t, "notify", signaled)
read(t, signaled) == PostAt(t, "data", signaled)
compareAndSwap(t, signaled) == Post(t, "data", signaled)
fetchAndAdd(t, signaled) == Post(t, "data", signaled)

-----------------------------------------------------------------------------
\* The adapter: the first request of t takes effect at the server; a message
\* and a write with immediate take a receive buffer.
Execute(t) ==
    LET r == Head(queue[t]) IN
    /\ queue[t] # << >> /\ clientQP[t] = "active" /\ serverQP[t] = "active"
    /\ r.kind # "stray"
    /\ r.kind \in {"send", "notify"} => srq # << >>
    /\ queue' = [queue EXCEPT ![t] = Tail(@)]
    /\ done' = [done EXCEPT ![t] = @ + 1]
    /\ IF r.kind \in {"send", "notify"}
       THEN /\ srq' = Tail(srq)
            /\ recvCQ' = Append(recvCQ, [kind |-> r.kind, buffer |-> Head(srq), conn |-> t])
       ELSE UNCHANGED <<srq, recvCQ>>
    /\ sendCQ' = IF r.signaled THEN Append(sendCQ, [thread |-> t, success |-> TRUE]) ELSE sendCQ
    /\ UNCHANGED <<setup, clientQP, serverQP, working, threw, token, waiting, posted>>

\* The adapter gives up: the queue pair breaks and everything on its way is
\* flushed, with a failed completion for each request that has a token.
Fail(t) ==
    LET lost == Signaled(t) IN
    /\ queue[t] # << >>
    /\ clientQP' = [clientQP EXCEPT ![t] = "error"]
    /\ queue' = [queue EXCEPT ![t] = << >>]
    /\ sendCQ' = sendCQ \o [i \in 1 .. Cardinality(lost) |-> [thread |-> t, success |-> FALSE]]
    /\ UNCHANGED <<setup, serverQP, server, token, waiting, posted, done>>

-----------------------------------------------------------------------------
\* Mutant: the status of a completion is ignored.
pollSendCompletionQueue_Status(t) ==
    /\ t \in waiting /\ ~token[t].completed /\ sendCQ # << >>
    /\ token' = [token EXCEPT ![Head(sendCQ).thread] = [completed |-> TRUE, success |-> TRUE]]
    /\ sendCQ' = Tail(sendCQ)
    /\ UNCHANGED <<setup, clientQP, serverQP, server, queue, waiting, posted, done>>

\* Mutant: a completion that belongs to another thread is dropped.
pollSendCompletionQueue_Own(t) ==
    /\ t \in waiting /\ ~token[t].completed /\ sendCQ # << >>
    /\ token' = IF Head(sendCQ).thread = t
                THEN [token EXCEPT ![t] = [completed |-> TRUE, success |-> Head(sendCQ).success]]
                ELSE token
    /\ sendCQ' = Tail(sendCQ)
    /\ UNCHANGED <<setup, clientQP, serverQP, server, queue, waiting, posted, done>>

\* A waiting thread takes a completion, its own or another's, and marks the
\* token it belongs to.
pollSendCompletionQueue(t) ==
    /\ t \in waiting /\ ~token[t].completed /\ sendCQ # << >>
    /\ token' = [token EXCEPT ![Head(sendCQ).thread] = [completed |-> TRUE,
                                                        success |-> Head(sendCQ).success]]
    /\ sendCQ' = Tail(sendCQ)
    /\ UNCHANGED <<setup, clientQP, serverQP, server, queue, waiting, posted, done>>

\* waitUntilCompleted returns.
Completed(t) ==
    /\ t \in waiting /\ token[t].completed
    /\ waiting' = waiting \ {t}
    /\ UNCHANGED <<setup, clientQP, serverQP, server, queue, sendCQ, token, posted, done>>

\* Mutant: the buffer of a write with immediate is not posted again.
receive_Keep(w) ==
    LET e == Head(recvCQ) IN
    /\ serving /\ ~threw /\ working[w] = NoBuffer /\ recvCQ # << >>
    /\ recvCQ' = Tail(recvCQ)
    /\ threw' = (e.conn \notin known)
    /\ working' = IF e.kind = "send" THEN [working EXCEPT ![w] = e.buffer] ELSE working
    /\ UNCHANGED <<srq, setup, clientQP, serverQP, queue, sendCQ, token, waiting, posted, done>>

\* A worker takes a receive completion.  The buffer of a message is its to
\* look at; that of a write with immediate is posted again at once.  Then the
\* queue pair is looked up.
receive(w) ==
    LET e == Head(recvCQ) IN
    /\ serving /\ ~threw /\ working[w] = NoBuffer /\ recvCQ # << >>
    /\ recvCQ' = Tail(recvCQ)
    /\ threw' = (e.conn \notin known)
    /\ IF e.kind = "send"
       THEN working' = [working EXCEPT ![w] = e.buffer] /\ srq' = srq
       ELSE working' = working /\ srq' = Append(srq, e.buffer)
    /\ UNCHANGED <<setup, clientQP, serverQP, queue, sendCQ, token, waiting, posted, done>>

\* The worker is done with the message.
postReceiveBuffer(w) ==
    /\ working[w] # NoBuffer
    /\ srq' = Append(srq, working[w])
    /\ working' = [working EXCEPT ![w] = NoBuffer]
    /\ UNCHANGED <<setup, clientQP, serverQP, recvCQ, threw, queue, sendCQ, token, waiting,
                   posted, done>>

-----------------------------------------------------------------------------
Requests(t) ==
    \/ \E s \in BOOLEAN : send(t, s) \/ sendWithImmediate(t, s) \/ write(t, s) \/ read(t, s)
    \/ \E s \in BOOLEAN : writeWithImmediate(t, s) \/ multiWriteWithImmediate(t, s)
    \/ \E s \in BOOLEAN : multiWrite(t, s) \/ compareAndSwap(t, s) \/ fetchAndAdd(t, s)

Setup(c) == Dial(c) \/ Connect(c) \/ Accept(c) \/ activate(c) \/ registerQueuePair(c)
Waiting(t) == pollSendCompletionQueue(t) \/ Completed(t)
Working(w) == receive(w) \/ postReceiveBuffer(w)

AllQuiet ==
    /\ \A t \in Conns : posted[t] = MaxPosts /\ queue[t] = << >>
    /\ serving /\ waiting = {} /\ recvCQ = << >> /\ \A w \in Workers : working[w] = NoBuffer

Next ==
    \/ Serve
    \/ \E c \in Conns : Setup(c) \/ Requests(c) \/ Execute(c) \/ Fail(c) \/ Waiting(c)
    \/ \E w \in Workers : Working(w)
    \/ AllQuiet /\ UNCHANGED vars

Spec == Init /\ [][Next]_vars

\* Threads that poll keep polling, and the adapter carries out or fails what
\* was posted; nobody has to post anything.
Fairness ==
    /\ WF_vars(Serve)
    /\ \A c \in Conns : WF_vars(Setup(c)) /\ WF_vars(Execute(c) \/ Fail(c)) /\ WF_vars(Waiting(c))
    /\ \A w \in Workers : WF_vars(Working(w))

FairSpec == Spec /\ Fairness

-----------------------------------------------------------------------------
Request == [kind : {"send", "notify", "data", "stray"}, signaled : BOOLEAN]
Completion == [thread : Conns, success : BOOLEAN]
Arrival == [kind : {"send", "notify"}, buffer : Buffers, conn : Conns]

TypeOK ==
    /\ dialed \subseteq Conns /\ answered \subseteq dialed /\ known \subseteq answered
    /\ serving \in BOOLEAN /\ threw \in BOOLEAN
    /\ clientQP \in [Conns -> {"none", "init", "active", "error"}]
    /\ serverQP \in [Conns -> {"none", "init", "active"}]
    /\ srq \in Seq(Buffers) /\ recvCQ \in Seq(Arrival)
    /\ working \in [Workers -> Buffers \cup {NoBuffer}]
    /\ queue \in [Conns -> Seq(Request)]
    /\ sendCQ \in Seq(Completion)
    /\ token \in [Conns -> [completed : BOOLEAN, success : BOOLEAN]]
    /\ waiting \subseteq Conns
    /\ posted \in [Conns -> Nat] /\ done \in [Conns -> Nat]

(* A thread that has waited for a request and finds it successful may rely *)
(* on that request and on all it posted before, with or without a token:   *)
(* they have taken effect, whichever thread polled the completion          *)
(* (waitUntilCompleted, pollSendCompletionQueue).                          *)
SuccessMeansDone ==
    \A t \in Conns : (t \in waiting /\ token[t].success) => done[t] = posted[t]

(* Every receive buffer is at one place: posted, in a completion, or with  *)
(* a worker; none is lost or posted twice (receive, postReceiveBuffer).    *)
BuffersConserved ==
    LET places == srq \o [i \in DOMAIN recvCQ |-> recvCQ[i].buffer]
        held == {w \in Workers : working[w] # NoBuffer}
        all == {places[i] : i \in DOMAIN places} \cup {working[w] : w \in held}
    IN  /\ Len(places) + Cardinality(held) = Cardinality(all)
        /\ known = Conns => all = Buffers

(* queuePairMap.at finds the sender of every message, although a client    *)
(* may send before the server has registered its queue pair: the workers   *)
(* start late enough (Server.cpp, lines 75 to 94).                         *)
SenderIsKnown == ~threw

(* Threads that share a completion queue do not lose each other's          *)
(* completions: whoever waits for a request gets an answer.                *)
WaitsEnd == \A t \in Conns : (t \in waiting) ~> (t \notin waiting)

-----------------------------------------------------------------------------
\* The inductive invariant.  A connection is registered after its queue pair is
\* active, and the workers start after all are registered.
SetupOK ==
    /\ \A c \in Conns : c \in answered <=> serverQP[c] # "none"
    /\ \A c \in known : serverQP[c] = "active"
    /\ serving => known = Conns
    /\ ~threw

\* A thread that does not wait for an answer has nothing with a token on its
\* way; one that waits has its last request there, or one completion of it.
Unanswered(t) == \A i \in DOMAIN sendCQ : sendCQ[i].thread # t

Answered(t) ==
    \E i \in DOMAIN sendCQ :
        /\ sendCQ[i].thread = t
        /\ sendCQ[i].success => done[t] = posted[t]
        /\ \A j \in DOMAIN sendCQ : sendCQ[j].thread = t => j = i

TokenOK(t) ==
    /\ clientQP[t] # "error" => posted[t] = done[t] + Len(queue[t])
    /\ (t \notin waiting \/ token[t].completed) => (Signaled(t) = {} /\ Unanswered(t))
    /\ (t \in waiting /\ token[t].completed /\ token[t].success) => done[t] = posted[t]
    /\ (t \in waiting /\ ~token[t].completed) =>
        /\ ~token[t].success
        /\ \/ queue[t] # << >> /\ Signaled(t) = {Len(queue[t])} /\ Unanswered(t)
           \/ queue[t] = << >> /\ Answered(t)

\* The buffers of the connections accepted so far are the ones in use, each once.
Elements(s) == {s[i] : i \in DOMAIN s}
Distinct(s) == \A i, j \in DOMAIN s : s[i] = s[j] => i = j
Arrived == [i \in DOMAIN recvCQ |-> recvCQ[i].buffer]
Held == {w \in Workers : working[w] # NoBuffer}
Looked == {working[w] : w \in Held}
Block(c) == (c - 1) * PerClient + 1 .. c * PerClient

BuffersOK ==
    /\ Distinct(srq) /\ Distinct(Arrived)
    /\ \A v, w \in Held : working[v] = working[w] => v = w
    /\ Elements(srq) \cap Elements(Arrived) = {}
    /\ (Elements(srq) \cup Elements(Arrived)) \cap Looked = {}
    /\ \A b \in Buffers :
        b \in Elements(srq) \cup Elements(Arrived) \cup Looked
            <=> \E c \in Conns : serverQP[c] # "none" /\ b \in Block(c)

IInv == TypeOK /\ SetupOK /\ BuffersOK /\ \A t \in Conns : TokenOK(t)
=============================================================================
