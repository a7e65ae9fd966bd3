----------------------------- MODULE KVService -----------------------------
(***************************************************************************)
(* The distributed key-value store end to end (DistributedKeyValueStore):  *)
(* client threads connect to every server, wait for the master's BEGIN and *)
(* for their own process, and then send requests to the server that owns   *)
(* the key; a server runs one handler thread per connection.               *)
(*                                                                         *)
(* The store of a server is a set of keys with atomic operations, which is *)
(* what LazyListProofs proves of the lists behind it; barriers let         *)
(* nobody through before all have arrived (Barrier).  A line is one        *)
(* message: TCP keeps their order and socket_get_line waits for a whole    *)
(* one.  Writing to a connection whose other end is closed succeeds once;  *)
(* the second time SIGPIPE, which nobody handles, ends the process.        *)
(***************************************************************************)
EXTENDS Integers, Sequences, FiniteSets

CONSTANTS Procs,      \* the client processes
          Clients,    \* their threads
          ProcOf,     \* ProcOf[c]: the process of thread c
          Nodes,      \* the number of servers; server 0 is the master
          Keys,
          MaxTx       \* bounds the requests of a thread

Servers == 0 .. Nodes - 1
Master == 0

\* The barrier of the master counts clientsPerServer * nodes: all the clients.
ASSUME ServiceAssumption ==
    /\ Nodes \in Nat \ {0} /\ MaxTx \in Nat
    /\ Keys \subseteq Nat /\ Keys # {}
    /\ ProcOf \in [Clients -> Procs]

VARIABLES up, store,         \* the servers: running? and their keys
          link,              \* link[c][s]: the connection of c to s
          inbox,             \* inbox[c][s]: a request line waits for the server
          lines,             \* lines[c][s]: the lines that wait for the client
          handler, result,   \* where the handler of c at s is, what it answers
          pc, connected,     \* where each thread is, how many connections it has made
          req, tx,           \* its request, and how many it has sent
          stop,              \* the flag of each client process
          known, base,       \* history: keys somebody knows are stored, and what
                             \* was known when the request was sent
          wins               \* history: wins[k]: the puts of k that were answered TRUE

serverVars == <<up, store, handler, result>>
netVars == <<link, inbox, lines>>
historyVars == <<known, base, wins>>
vars == <<up, store, link, inbox, lines, handler, result, pc, connected, req, tx, stop,
          known, base, wins>>

Answers == {"TRUE", "FALSE", "ABORT"}
Requests == [op : {"get", "put"}, key : Keys]
hash(k) == k % Nodes

TypeOK ==
    /\ up \in [Servers -> BOOLEAN] /\ store \in [Servers -> SUBSET Keys]
    /\ link \in [Clients -> [Servers -> {"none", "open", "closed", "reset"}]]
    /\ inbox \in [Clients -> [Servers -> BOOLEAN]]
    /\ lines \in [Clients -> [Servers -> {<< >>} \cup {<<a>> : a \in Answers \cup {"BEGIN"}}]]
    /\ handler \in [Clients -> [Servers -> {"none", "pending", "barrier", "read", "apply", "respond"}]]
    /\ result \in [Clients -> [Servers -> Answers]]
    /\ pc \in [Clients -> {"connect", "await", "local", "work", "wait", "gone"}]
    /\ connected \in [Clients -> 0 .. Nodes]
    /\ req \in [Clients -> Requests] /\ tx \in [Clients -> 0 .. MaxTx]
    /\ stop \in [Procs -> BOOLEAN]
    /\ known \subseteq Keys /\ base \in [Clients -> SUBSET Keys] /\ wins \in [Keys -> Nat]

Everywhere(x) == [c \in Clients |-> [s \in Servers |-> x]]

Init ==
    /\ up = [s \in Servers |-> TRUE] /\ store = [s \in Servers |-> {}]
    /\ link = Everywhere("none") /\ inbox = Everywhere(FALSE) /\ lines = Everywhere(<<>>)
    /\ handler = Everywhere("none") /\ result = Everywhere("ABORT")
    /\ pc = [c \in Clients |-> "connect"] /\ connected = [c \in Clients |-> 0]
    /\ req = [c \in Clients |-> CHOOSE r \in Requests : TRUE]
    /\ tx = [c \in Clients |-> 0]
    /\ stop = [p \in Procs |-> FALSE]
    /\ known = {} /\ base = [c \in Clients |-> {}] /\ wins = [k \in Keys |-> 0]

Goto(c, l) == pc' = [pc EXCEPT ![c] = l]

-----------------------------------------------------------------------------
\* One side closes the connections of C to S.  The other side reads what is on its
\* way and then the end; if the closing side had unread input, its peer is reset.
Closed(C, S, unread) ==
    [c \in Clients |-> [s \in Servers |->
        IF c \notin C \/ s \notin S \/ link[c][s] # "open" THEN link[c][s]
        ELSE IF unread[c][s] THEN "reset" ELSE "closed"]]

UnreadLines == [c \in Clients |-> [s \in Servers |-> lines[c][s] # <<>>]]

Siblings(c) == {d \in Clients : ProcOf[d] = ProcOf[c]}

\* exit(0), die or SIGPIPE in a client thread: all threads of the process go.
Die(c) ==
    /\ pc' = [d \in Clients |-> IF d \in Siblings(c) THEN "gone" ELSE pc[d]]
    /\ link' = Closed(Siblings(c), Servers, UnreadLines)

\* Remote::Remote connects to the servers in order and dies if one is down.
Connect(c) ==
    LET s == connected[c] IN
    /\ pc[c] = "connect"
    /\ \/ /\ up[s]
          /\ link' = [link EXCEPT ![c][s] = "open"]
          /\ handler' = [handler EXCEPT ![c][s] = "pending"]
          /\ connected' = [connected EXCEPT ![c] = @ + 1]
          /\ Goto(c, IF s + 1 < Nodes THEN "connect" ELSE "await")
       \/ ~up[s] /\ Die(c) /\ UNCHANGED <<handler, connected>>
    /\ UNCHANGED <<up, store, inbox, lines, result, req, tx, stop, historyVars>>

\* poll_connections accepts the connection and starts its handler.
Accept(c, s) ==
    /\ up[s] /\ handler[c][s] = "pending"
    /\ handler' = [handler EXCEPT ![c][s] = IF s = Master THEN "barrier" ELSE "read"]
    /\ UNCHANGED <<up, store, result, netVars, pc, connected, req, tx, stop, historyVars>>

\* stream_data.  A line reaches the peer, or the connection is closed and the line
\* lost, or the connection is reset and SIGPIPE ends the writer.
Delivered(c, s) == link[c][s] = "open" /\ link' = link
Lost(c, s) == link[c][s] = "closed" /\ link' = [link EXCEPT ![c][s] = "reset"]

\* A handler writes a line; SIGPIPE would end the whole server.
ServerWrite(c, s, line) ==
    \/ Delivered(c, s) /\ lines' = [lines EXCEPT ![c][s] = Append(@, line)] /\ up' = up
    \/ Lost(c, s) /\ UNCHANGED <<lines, up>>
    \/ /\ link[c][s] = "reset"
       /\ up' = [up EXCEPT ![s] = FALSE]
       /\ link' = Closed(Clients, {s}, inbox)
       /\ lines' = lines

\* Mutant: the master does not wait for all the clients.
SendBegin_Early(c) ==
    /\ up[Master] /\ handler[c][Master] = "barrier"
    /\ handler' = [handler EXCEPT ![c][Master] = "read"]
    /\ ServerWrite(c, Master, "BEGIN")
    /\ UNCHANGED <<store, result, inbox, pc, connected, req, tx, stop, historyVars>>

\* The handlers of the master have crossed its barrier: send_initialization.
SendBegin(c) ==
    /\ up[Master] /\ handler[c][Master] = "barrier"
    /\ \A d \in Clients : handler[d][Master] \notin {"none", "pending"}
    /\ handler' = [handler EXCEPT ![c][Master] = "read"]
    /\ ServerWrite(c, Master, "BEGIN")
    /\ UNCHANGED <<store, result, inbox, pc, connected, req, tx, stop, historyVars>>

\* awaitMaster: the first line from the master starts the thread.
AwaitMaster(c) ==
    /\ pc[c] = "await"
    /\ \/ /\ lines[c][Master] # <<>>
          /\ lines' = [lines EXCEPT ![c][Master] = Tail(@)]
          /\ Goto(c, "local")
          /\ link' = link
       \/ /\ lines[c][Master] = <<>> /\ link[c][Master] # "open"
          /\ Die(c)
          /\ lines' = lines
    /\ UNCHANGED <<serverVars, inbox, connected, req, tx, stop, historyVars>>

\* The local barrier of the process.
CrossLocal(c) ==
    /\ pc[c] = "local"
    /\ \A d \in Siblings(c) : pc[d] \notin {"connect", "await"}
    /\ Goto(c, "work")
    /\ UNCHANGED <<serverVars, netVars, connected, req, tx, stop, historyVars>>

-----------------------------------------------------------------------------
\* Mutant: a client numbers its connections from another server on.
owner_Shifted(c, k) == hash(IF c = CHOOSE d \in Clients : TRUE THEN k ELSE k + 1)

\* Remote::getNode.
owner(c, k) == hash(k)

\* Remote::get and Remote::insert up to the request line.
Send(c, r) ==
    LET s == owner(c, r.key) IN
    /\ pc[c] = "work" /\ ~stop[ProcOf[c]] /\ tx[c] < MaxTx
    /\ tx' = [tx EXCEPT ![c] = @ + 1]
    /\ req' = [req EXCEPT ![c] = r]
    /\ base' = [base EXCEPT ![c] = known]
    /\ \/ Delivered(c, s) /\ Goto(c, "wait") /\ inbox' = [inbox EXCEPT ![c][s] = TRUE]
       \/ Lost(c, s) /\ Goto(c, "wait") /\ inbox' = inbox
       \/ link[c][s] = "reset" /\ Die(c) /\ inbox' = inbox
    /\ UNCHANGED <<serverVars, lines, connected, stop, known, wins>>

\* What the client learns from an answer.
Learn(c, a) ==
    LET stored == (req[c].op = "put" /\ a # "ABORT") \/ a = "TRUE" IN
    /\ known' = IF stored THEN known \cup {req[c].key} ELSE known
    /\ wins' = IF req[c].op = "put" /\ a = "TRUE" THEN [wins EXCEPT ![req[c].key] = @ + 1]
               ELSE wins
    /\ base' = base

\* awaitResponse: an answer, or ABORT_FAILURE if the connection has ended.
AwaitResponse(c) ==
    LET s == owner(c, req[c].key) IN
    /\ pc[c] = "wait"
    /\ \/ /\ lines[c][s] # <<>>
          /\ lines' = [lines EXCEPT ![c][s] = Tail(@)]
          /\ Learn(c, Head(lines[c][s]))
       \/ /\ lines[c][s] = <<>> /\ link[c][s] # "open"
          /\ lines' = lines
          /\ Learn(c, "ABORT")
    /\ Goto(c, "work")
    /\ UNCHANGED <<serverVars, link, inbox, connected, req, tx, stop>>

\* main sets stop some time after the local barrier.
Stop(p) ==
    /\ ~stop[p]
    /\ \A c \in Clients : ProcOf[c] = p => pc[c] \in {"local", "work", "wait"}
    /\ stop' = [stop EXCEPT ![p] = TRUE]
    /\ UNCHANGED <<serverVars, netVars, pc, connected, req, tx, historyVars>>

\* The loop sees stop; Remote::~Remote closes the connections of the thread.
Quit(c) ==
    /\ pc[c] = "work" /\ stop[ProcOf[c]]
    /\ link' = Closed({c}, Servers, UnreadLines)
    /\ Goto(c, "gone")
    /\ UNCHANGED <<serverVars, inbox, lines, connected, req, tx, stop, historyVars>>

-----------------------------------------------------------------------------
\* handleMessage reads a line; the end of the connection counts as a bad request.
Read(c, s) ==
    /\ up[s] /\ handler[c][s] = "read"
    /\ \/ /\ inbox[c][s]
          /\ inbox' = [inbox EXCEPT ![c][s] = FALSE]
          /\ handler' = [handler EXCEPT ![c][s] = "apply"]
          /\ result' = result
       \/ /\ ~inbox[c][s] /\ link[c][s] # "open"
          /\ handler' = [handler EXCEPT ![c][s] = "respond"]
          /\ result' = [result EXCEPT ![c][s] = "ABORT"]
          /\ inbox' = inbox
    /\ UNCHANGED <<up, store, link, lines, pc, connected, req, tx, stop, historyVars>>

\* Mutant: an add does not look for the key.
Apply_Blind(c, s) ==
    LET k == req[c].key IN
    /\ up[s] /\ handler[c][s] = "apply"
    /\ handler' = [handler EXCEPT ![c][s] = "respond"]
    /\ \/ /\ req[c].op = "get"
          /\ result' = [result EXCEPT ![c][s] = IF k \in store[s] THEN "TRUE" ELSE "FALSE"]
          /\ store' = store
       \/ /\ req[c].op = "put"
          /\ result' = [result EXCEPT ![c][s] = "TRUE"]
          /\ store' = [store EXCEPT ![s] = @ \cup {k}]
    /\ UNCHANGED <<up, netVars, pc, connected, req, tx, stop, historyVars>>

\* contains or add of the store.  An add gives up if it meets the locks of another,
\* which is still in its call or has not answered yet.
Apply(c, s) ==
    LET k == req[c].key IN
    /\ up[s] /\ handler[c][s] = "apply"
    /\ handler' = [handler EXCEPT ![c][s] = "respond"]
    /\ \/ /\ req[c].op = "get"
          /\ result' = [result EXCEPT ![c][s] = IF k \in store[s] THEN "TRUE" ELSE "FALSE"]
          /\ store' = store
       \/ /\ req[c].op = "put"
          /\ result' = [result EXCEPT ![c][s] = IF k \in store[s] THEN "FALSE" ELSE "TRUE"]
          /\ store' = [store EXCEPT ![s] = @ \cup {k}]
       \/ /\ req[c].op = "put"
          /\ \E d \in Clients \ {c} :
                handler[d][s] \in {"apply", "respond"} /\ req[d].op = "put"
          /\ result' = [result EXCEPT ![c][s] = "ABORT"]
          /\ store' = store
    /\ UNCHANGED <<up, netVars, pc, connected, req, tx, stop, historyVars>>

\* Mutant: connection_handler ends with the connection and a bad request alike.
Respond_Once(c, s) ==
    /\ up[s] /\ handler[c][s] = "respond"
    /\ handler' = [handler EXCEPT ![c][s] = "none"]
    /\ ServerWrite(c, s, result[c][s])
    /\ UNCHANGED <<store, result, inbox, pc, connected, req, tx, stop, historyVars>>

\* send_response, and the loop of connection_handler goes on.
Respond(c, s) ==
    /\ up[s] /\ handler[c][s] = "respond"
    /\ handler' = [handler EXCEPT ![c][s] = "read"]
    /\ ServerWrite(c, s, result[c][s])
    /\ UNCHANGED <<store, result, inbox, pc, connected, req, tx, stop, historyVars>>

-----------------------------------------------------------------------------
ClientStep(c) ==
    \/ Connect(c) \/ AwaitMaster(c) \/ CrossLocal(c)
    \/ \E r \in Requests : Send(c, r)
    \/ AwaitResponse(c) \/ Quit(c)

HandlerStep(c, s) ==
    \/ Accept(c, s)
    \/ s = Master /\ SendBegin(c)
    \/ Read(c, s) \/ Apply(c, s) \/ Respond(c, s)

Over == \A c \in Clients : pc[c] = "gone"

Next ==
    \/ \E c \in Clients : ClientStep(c)
    \/ \E c \in Clients, s \in Servers : HandlerStep(c, s)
    \/ \E p \in Procs : Stop(p)
    \/ Over /\ UNCHANGED vars

Spec == Init /\ [][Next]_vars

\* All threads are scheduled, messages arrive, and every process stops some day.
FairSpec ==
    /\ Spec
    /\ \A c \in Clients : WF_vars(ClientStep(c))
    /\ \A c \in Clients, s \in Servers : WF_vars(HandlerStep(c, s))
    /\ \A p \in Procs : WF_vars(Stop(p))

-----------------------------------------------------------------------------
Working(c) == pc[c] \in {"work", "wait"}

(* Nobody starts to work before every client is connected to the master    *)
(* and every thread of its own process has been told to begin: "need a     *)
(* local and global barrier in order to coordinate timing across and       *)
(* within nodes" (Client.cpp:26).                                          *)
StartTogether ==
    \A c \in Clients : Working(c) =>
        /\ \A d \in Clients : connected[d] > 0
        /\ \A d \in Siblings(c) : pc[d] \notin {"connect", "await"}

(* Reads are never stale, across clients and servers: a get that was sent  *)
(* after anybody knew the key to be stored is not answered FALSE, and a    *)
(* put not TRUE (Remote::get, Remote::insert and handleMessage).           *)
NoStaleAnswer ==
    \A c \in Clients, s \in Servers :
        pc[c] = "wait" /\ req[c].key \in base[c] =>
            \A i \in 1 .. Len(lines[c][s]) :
                lines[c][s][i] # (IF req[c].op = "get" THEN "FALSE" ELSE "TRUE")

(* A key is inserted once: at most one put of it is ever answered TRUE.    *)
InsertedOnce == \A k \in Keys : wins[k] <= 1

(* Every client ends.                                                      *)
EverybodyEnds == <>Over

(* A server outlives its clients: poll_connections accepts for ever        *)
(* (Server.cpp:81) and "if nothing was read, connection ended"             *)
(* (Connection.cpp:149) is no reason to stop.                              *)
ServersStayUp == \A s \in Servers : up[s]

-----------------------------------------------------------------------------
(* The inductive invariant behind them.  The connections: made in the      *)
(* order of the servers, and open exactly while both sides are alive.      *)
Told(c) == pc[c] \in {"local", "work", "wait"}

LinkOK(c, s) ==
    /\ link[c][s] = "none" <=> s >= connected[c]
    /\ handler[c][s] = "none" <=> s >= connected[c]
    /\ handler[c][s] = "barrier" => s = Master
    /\ link[c][s] = "open" => up[s] /\ pc[c] # "gone"
    /\ up[s] /\ pc[c] # "gone" => link[c][s] \in {"none", "open"}

PlaceOK(c) ==
    /\ pc[c] = "connect" => connected[c] < Nodes
    /\ pc[c] = "await" \/ Told(c) => connected[c] = Nodes
    /\ pc[c] \in {"work", "wait"} => \A d \in Siblings(c) : pc[d] \notin {"connect", "await"}

(* A conversation: a request, its handling or its answer is under way only *)
(* where the client waits for it, and BEGIN only before it has begun.      *)
Busy(c, s) == pc[c] = "wait" /\ s = hash(req[c].key)

TalkOK(c, s) ==
    IF Busy(c, s)
    THEN /\ lines[c][s] # <<"BEGIN">>
         /\ up[s] => \/ inbox[c][s] /\ handler[c][s] \in {"pending", "read"} /\ lines[c][s] = << >>
                     \/ ~inbox[c][s] /\ handler[c][s] \in {"apply", "respond"} /\ lines[c][s] = << >>
                     \/ ~inbox[c][s] /\ handler[c][s] = "read" /\ lines[c][s] # << >>
    ELSE IF s = Master /\ ~Told(c)
    THEN /\ lines[c][s] \in {<< >>, <<"BEGIN">>}
         /\ up[s] => /\ ~inbox[c][s]
                     /\ IF lines[c][s] = << >> THEN handler[c][s] \in {"none", "pending", "barrier"}
                        ELSE handler[c][s] = "read"
    ELSE /\ lines[c][s] = << >>
         /\ up[s] => ~inbox[c][s] /\ handler[c][s] \in {"none", "pending", "read"}

BeginOK(c) ==
    Told(c) \/ lines[c][Master] # << >> =>
        /\ handler[c][Master] # "barrier"
        /\ \A d \in Clients : handler[d][Master] \notin {"none", "pending"}

(* What an answer to c says is so: a key that it calls stored is, and it   *)
(* does not contradict what was known when the request was sent.           *)
TrueAnswer(c, a) ==
    LET k == req[c].key IN
    /\ (req[c].op = "put" /\ a # "ABORT") \/ a = "TRUE" => k \in store[hash(k)]
    /\ k \in base[c] => a # (IF req[c].op = "get" THEN "FALSE" ELSE "TRUE")

\* a is the answer that is on its way to c.
Coming(c, a) ==
    LET s == hash(req[c].key) IN
    /\ pc[c] = "wait"
    /\ lines[c][s] = <<a>> \/ (up[s] /\ handler[c][s] = "respond" /\ result[c][s] = a)

AnswerOK(c) ==
    /\ base[c] \subseteq known
    /\ \A a \in Answers : Coming(c, a) => TrueAnswer(c, a)

ClientOK(c) ==
    /\ PlaceOK(c) /\ AnswerOK(c)
    /\ \A s \in Servers : LinkOK(c, s)
    /\ pc[c] # "gone" => BeginOK(c) /\ \A s \in Servers : TalkOK(c, s)

(* The put of k that stored it is the only one to be answered TRUE.        *)
Winning(c, k) == Coming(c, "TRUE") /\ req[c] = [op |-> "put", key |-> k]

WinsOK(k) ==
    /\ wins[k] \in {0, 1} /\ (wins[k] = 1 => k \in store[hash(k)])
    /\ \A c \in Clients : Winning(c, k) =>
          wins[k] = 0 /\ k \in store[hash(k)] /\ \A d \in Clients : Winning(d, k) => d = c

ServiceInv ==
    /\ TypeOK /\ \A c \in Clients : ClientOK(c)
    /\ \A k \in known : k \in store[hash(k)]
    /\ \A k \in Keys : WinsOK(k)
=============================================================================
