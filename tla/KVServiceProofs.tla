-------------------------- MODULE KVServiceProofs ---------------------------
(***************************************************************************)
(* The distributed store end to end, for any number of client processes,   *)
(* threads, servers, keys and requests, with clients and servers that die  *)
(* on the way.                                                             *)
(*                                                                         *)
(* The inductive invariant ServiceInv says where each conversation can be. *)
(* A step concerns one client or, when a process or a server dies, closes  *)
(* connections of several: StepInv reduces the proof of each action to the *)
(* clients it is Fine for, all others being the Same.  Only Apply, which   *)
(* stores keys, and AwaitResponse, which tells an answer, are proved       *)
(* without it.                                                             *)
(***************************************************************************)
EXTENDS KVService, TLAPS

-----------------------------------------------------------------------------
\* Tables with an entry for every connection.
Table(S) == [Clients -> [Servers -> S]]

\* g differs from f only at the connection of c to s, where it is v.
Changed(g, f, c, s, v) ==
    /\ g[c][s] = v
    /\ \A d \in Clients, r \in Servers : d # c \/ r # s => g[d][r] = f[d][r]

LEMMA TableUpdate ==
    ASSUME NEW S, NEW f \in Table(S), NEW c \in Clients, NEW s \in Servers, NEW v \in S
    PROVE  /\ [f EXCEPT ![c][s] = v] \in Table(S)
           /\ Changed([f EXCEPT ![c][s] = v], f, c, s, v)
BY DEF Table, Changed

LEMMA SomeServers ==
    /\ Master \in Servers /\ Nodes \in Nat \ {0} /\ Servers \subseteq Nat
    /\ \A k \in Keys : hash(k) \in Servers
<1>1. Nodes \in Nat \ {0} /\ Keys \subseteq Nat
  BY ServiceAssumption
<1>2. \A k \in Nat : k % Nodes \in 0 .. Nodes - 1
  BY <1>1
<1> QED BY <1>1, <1>2 DEF Master, Servers, hash

Mail == {<< >>} \cup {<<a>> : a \in Answers \cup {"BEGIN"}}

LEMMA MailFacts ==
    /\ << >> \in Mail
    /\ \A a : <<a>> # << >> /\ Append(<< >>, a) = <<a>>
    /\ \A a \in Answers \cup {"BEGIN"} : <<a>> \in Mail
    /\ \A a, b : <<a>> = <<b>> => a = b
    /\ \A m \in Mail : m # << >> => m = <<Head(m)>> /\ Head(m) \in Answers \cup {"BEGIN"} /\ Tail(m) = << >>
<1>1. \A a : <<a>> # << >>
  OBVIOUS
<1>2. \A a : Append(<< >>, a) = <<a>>
  OBVIOUS
<1>3. \A a, b : <<a>> = <<b>> => a = b
  OBVIOUS
<1>4. \A m \in Mail : m # << >> => m = <<Head(m)>> /\ Head(m) \in Answers \cup {"BEGIN"} /\ Tail(m) = << >>
  <2> SUFFICES ASSUME NEW a \in Answers \cup {"BEGIN"}
               PROVE  <<a>> = <<Head(<<a>>)>> /\ Head(<<a>>) = a /\ Tail(<<a>>) = << >>
    BY DEF Mail
  <2> QED OBVIOUS
<1> QED BY <1>1, <1>2, <1>3, <1>4 DEF Mail

LEMMA TypeFacts ==
    TypeOK <=>
    /\ up \in [Servers -> BOOLEAN] /\ store \in [Servers -> SUBSET Keys]
    /\ link \in Table({"none", "open", "closed", "reset"})
    /\ inbox \in Table(BOOLEAN) /\ lines \in Table(Mail)
    /\ handler \in Table({"none", "pending", "barrier", "read", "apply", "respond"})
    /\ result \in Table(Answers)
    /\ pc \in [Clients -> {"connect", "await", "local", "work", "wait", "gone"}]
    /\ connected \in [Clients -> 0 .. Nodes]
    /\ req \in [Clients -> Requests] /\ tx \in [Clients -> 0 .. MaxTx]
    /\ stop \in [Procs -> BOOLEAN]
    /\ known \subseteq Keys /\ base \in [Clients -> SUBSET Keys] /\ wins \in [Keys -> Nat]
BY DEF TypeOK, Table, Mail

-----------------------------------------------------------------------------
\* What a step does to those who do not take it.  Servers only die, stores only
\* grow, handlers and threads do not go back to their beginnings.
World ==
    /\ \A s \in Servers : (up'[s] => up[s]) /\ store[s] \subseteq store'[s]
    /\ known \subseteq known'
    /\ \A d \in Clients : handler[d][Master] \notin {"none", "pending"} =>
                             handler'[d][Master] \notin {"none", "pending"}
    /\ \A d \in Clients : pc[d] \notin {"connect", "await"} => pc'[d] \notin {"connect", "await"}

SameLink(d, s) ==
    \/ link'[d][s] = link[d][s] /\ (link[d][s] = "open" => up'[s])
    \/ link[d][s] = "open" /\ ~up'[s] /\ link'[d][s] \in {"closed", "reset"}

Same(d) ==
    /\ pc'[d] = pc[d] /\ req'[d] = req[d] /\ base'[d] = base[d] /\ connected'[d] = connected[d]
    /\ \A s \in Servers : /\ handler'[d][s] = handler[d][s] /\ inbox'[d][s] = inbox[d][s]
                          /\ lines'[d][s] = lines[d][s] /\ result'[d][s] = result[d][s]
                          /\ SameLink(d, s)

LEMMA RequestKey ==
    ASSUME TypeOK, NEW c \in Clients
    PROVE  /\ req[c].key \in Keys /\ hash(req[c].key) \in Servers
           /\ req[c].op \in {"get", "put"} /\ req[c] = [op |-> req[c].op, key |-> req[c].key]
BY SomeServers DEF TypeOK, Requests

LEMMA SameComing ==
    ASSUME TypeOK, World, NEW d \in Clients, Same(d), NEW a, Coming(d, a)'
    PROVE  Coming(d, a)
<1>1. PICK s \in Servers : s = hash(req[d].key)
  BY RequestKey
<1>2. pc'[d] = pc[d] /\ hash(req'[d].key) = s
  BY <1>1 DEF Same
<1>3. /\ lines'[d][s] = lines[d][s] /\ handler'[d][s] = handler[d][s]
      /\ result'[d][s] = result[d][s] /\ (up'[s] => up[s])
  BY DEF Same, World
<1>4. pc'[d] = "wait" /\ (lines'[d][s] = <<a>> \/ (up'[s] /\ handler'[d][s] = "respond" /\ result'[d][s] = a))
  BY <1>2, Zenon DEF Coming
<1> QED BY <1>1, <1>2, <1>3, <1>4, Zenon DEF Coming

LEMMA SameOK ==
    ASSUME TypeOK, World, NEW d \in Clients, ClientOK(d), Same(d)
    PROVE  ClientOK(d)'
<1>1. PlaceOK(d)'
  BY DEF ClientOK, PlaceOK, World, Same, Told, Siblings
<1>2. AnswerOK(d)'
  <2>1. base'[d] \subseteq known'
    BY DEF ClientOK, AnswerOK, World, Same
  <2>2. ASSUME NEW a \in Answers, Coming(d, a)' PROVE TrueAnswer(d, a)'
    <3>1. TrueAnswer(d, a)
      BY <2>2, SameComing DEF ClientOK, AnswerOK
    <3> QED BY <3>1, RequestKey DEF TrueAnswer, World, Same
  <2> QED BY <2>1, <2>2 DEF AnswerOK
<1>3. ASSUME NEW s \in Servers PROVE LinkOK(d, s)'
  BY DEF ClientOK, LinkOK, World, Same, SameLink
<1>4. pc'[d] # "gone" => BeginOK(d)'
  BY SomeServers DEF ClientOK, BeginOK, World, Same, Told
<1>5. ASSUME pc'[d] # "gone", NEW s \in Servers PROVE TalkOK(d, s)'
  <2>1. TalkOK(d, s)
    BY <1>5 DEF ClientOK, Same
  <2>2. (Busy(d, s)' <=> Busy(d, s)) /\ (Told(d)' <=> Told(d))
    BY DEF Busy, Told, Same
  <2> QED BY <2>1, <2>2 DEF TalkOK, World, Same
<1> QED BY <1>1, <1>2, <1>3, <1>4, <1>5 DEF ClientOK

\* A client on which the step has no bad effect.
Fine(d) == ClientOK(d)' /\ (Coming(d, "TRUE")' => Coming(d, "TRUE") /\ req'[d] = req[d])

\* A step that neither tells a client an answer nor stores a key.
LEMMA StepInv ==
    ASSUME ServiceInv, TypeOK', World, \A d \in Clients : Same(d) \/ Fine(d),
           known' = known, wins' = wins
    PROVE  ServiceInv'
<1>1. TypeOK /\ \A d \in Clients : ClientOK(d)
  BY DEF ServiceInv
<1>2. \A d \in Clients : ClientOK(d)'
  BY <1>1, SameOK DEF Fine
<1>3. \A d \in Clients, k \in Keys : Winning(d, k)' => Winning(d, k)
  <2> SUFFICES ASSUME NEW d \in Clients, NEW k \in Keys, Winning(d, k)' PROVE Winning(d, k)
    OBVIOUS
  <2>1. CASE Fine(d)
    BY <2>1 DEF Winning, Fine
  <2>2. CASE Same(d)
    BY <1>1, <2>2, SameComing DEF Winning, Same
  <2> QED BY <2>1, <2>2
<1>4. \A k \in Keys : k \in store[hash(k)] => k \in store'[hash(k)]
  BY SomeServers DEF World
<1>5. \A k \in Keys : WinsOK(k)'
  BY <1>3, <1>4 DEF ServiceInv, WinsOK
<1>6. \A k \in known' : k \in store'[hash(k)]
  BY <1>1, <1>4 DEF ServiceInv, TypeOK
<1> QED BY <1>2, <1>5, <1>6 DEF ServiceInv

\* For a client that is gone, or goes, only its connections matter.
LEMMA GoneFine ==
    ASSUME ServiceInv, World, NEW c \in Clients, pc'[c] = "gone",
           base'[c] = base[c], connected'[c] = connected[c],
           \A s \in Servers : /\ link'[c][s] # "open"
                              /\ link'[c][s] = "none" <=> link[c][s] = "none"
                              /\ handler'[c][s] = "none" <=> handler[c][s] = "none"
                              /\ handler'[c][s] = "barrier" => handler[c][s] = "barrier"
    PROVE  Fine(c)
<1>1. ClientOK(c)
  BY DEF ServiceInv
<1>2. PlaceOK(c)'
  BY DEF PlaceOK, Told
<1>3. ASSUME NEW a PROVE ~Coming(c, a)'
  BY DEF Coming
<1>4. AnswerOK(c)'
  BY <1>1, <1>3 DEF ClientOK, AnswerOK, World
<1>5. ASSUME NEW s \in Servers PROVE LinkOK(c, s)'
  BY <1>1 DEF ClientOK, LinkOK
<1> QED BY <1>2, <1>3, <1>4, <1>5 DEF ClientOK, Fine

\* The answers on their way to a client after a step that stores nothing for it:
\* those that were on their way, or about to be written.
LEMMA AnswerKept ==
    ASSUME ServiceInv, World, NEW c \in Clients, base'[c] = base[c],
           pc'[c] = "wait" =>
              /\ pc[c] = "wait" /\ req'[c] = req[c]
              /\ \A s \in Servers :
                    /\ lines'[c][s] = lines[c][s] \/ (up[s] /\ handler[c][s] = "respond" /\ lines'[c][s] = <<result[c][s]>>)
                    /\ up'[s] /\ handler'[c][s] = "respond" =>
                          up[s] /\ handler[c][s] = "respond" /\ result'[c][s] = result[c][s]
    PROVE  AnswerOK(c)' /\ (Coming(c, "TRUE")' => Coming(c, "TRUE") /\ req'[c] = req[c])
<1>1. TypeOK /\ AnswerOK(c)
  BY DEF ServiceInv, ClientOK
<1>2. ASSUME NEW a, Coming(c, a)' PROVE Coming(c, a) /\ req'[c] = req[c]
  <2>1. pc'[c] = "wait"
    BY <1>2 DEF Coming
  <2>2. PICK r \in Servers : r = hash(req[c].key)
    BY <1>1, RequestKey
  <2>3. pc[c] = "wait" /\ req'[c] = req[c] /\ hash(req'[c].key) = r
    BY <2>1, <2>2
  <2>4. lines'[c][r] = <<a>> \/ (up'[r] /\ handler'[c][r] = "respond" /\ result'[c][r] = a)
    BY <1>2, <2>3, Zenon DEF Coming
  <2>5. lines[c][r] = <<a>> \/ (up[r] /\ handler[c][r] = "respond" /\ result[c][r] = a)
    BY <2>1, <2>4, MailFacts
  <2> QED BY <2>2, <2>3, <2>5, Zenon DEF Coming
<1>3. base'[c] \subseteq known'
  BY <1>1 DEF AnswerOK, World
<1>4. ASSUME NEW a \in Answers, Coming(c, a)' PROVE TrueAnswer(c, a)'
  <2>1. TrueAnswer(c, a) /\ req'[c] = req[c]
    BY <1>1, <1>2, <1>4 DEF AnswerOK
  <2> QED BY <1>1, <2>1, RequestKey DEF TrueAnswer, World
<1> QED BY <1>2, <1>3, <1>4 DEF AnswerOK

-----------------------------------------------------------------------------
\* The steps.
\* The links of those who do nothing are open only to servers that are up.
LEMMA StillLinked ==
    ASSUME ServiceInv, up' = up, link' = link
    PROVE  \A d \in Clients, s \in Servers : SameLink(d, s)
BY DEF ServiceInv, ClientOK, LinkOK, SameLink

LEMMA AcceptInv ==
    ASSUME ServiceInv, NEW c \in Clients, NEW s \in Servers, Accept(c, s)
    PROVE  ServiceInv'
<1>1. PICK h \in {"barrier", "read"} : /\ handler' = [handler EXCEPT ![c][s] = h]
                                       /\ h = IF s = Master THEN "barrier" ELSE "read"
  BY DEF Accept
<1>2. /\ UNCHANGED <<up, store, result, link, inbox, lines, pc, connected, req, tx, stop, known, base, wins>>
      /\ up[s] /\ handler[c][s] = "pending"
  BY DEF Accept, netVars, historyVars
<1>3. TypeOK
  BY DEF ServiceInv
<1>4. Changed(handler', handler, c, s, h) /\ handler' \in Table({"none", "pending", "barrier", "read", "apply", "respond"})
  <2>1. handler \in Table({"none", "pending", "barrier", "read", "apply", "respond"})
    BY <1>3, TypeFacts
  <2>2. h \in {"none", "pending", "barrier", "read", "apply", "respond"}
    OBVIOUS
  <2> QED BY <1>1, <2>1, <2>2, TableUpdate
<1>5. TypeOK'
  BY <1>2, <1>3, <1>4 DEF TypeOK, Table
<1>6. World
  BY <1>2, <1>4, SomeServers DEF World, Changed
<1>7. \A d \in Clients : d # c => Same(d)
  BY <1>2, <1>4, StillLinked DEF Same, Changed
<1>c. AnswerOK(c)' /\ (Coming(c, "TRUE")' => Coming(c, "TRUE") /\ req'[c] = req[c])
  <2>1. \A r \in Servers : handler'[c][r] \in {handler[c][r], "barrier", "read"}
    BY <1>4 DEF Changed
  <2> QED BY <1>2, <1>6, <2>1, AnswerKept
<1>8. ClientOK(c)'
  <2>1. PlaceOK(c)'
    BY <1>2 DEF ServiceInv, ClientOK, PlaceOK, Told, Siblings
  <2>2. AnswerOK(c)'
    BY <1>2, <1>c
  <2>3. ASSUME NEW r \in Servers PROVE LinkOK(c, r)'
    BY <1>1, <1>2, <1>4 DEF ServiceInv, ClientOK, LinkOK, Changed
  <2>4. ASSUME pc'[c] # "gone" PROVE BeginOK(c)'
    BY <1>1, <1>2, <1>4, <2>4, SomeServers DEF ServiceInv, ClientOK, BeginOK, Told, Changed
  <2>5. ASSUME pc'[c] # "gone", NEW r \in Servers PROVE TalkOK(c, r)'
    <3>1. TalkOK(c, r) /\ (Busy(c, r)' <=> Busy(c, r)) /\ (Told(c)' <=> Told(c))
      BY <1>2, <2>5 DEF ServiceInv, ClientOK, Busy, Told
    <3>2. BeginOK(c)
      BY <1>2, <2>5 DEF ServiceInv, ClientOK
    <3>3. CASE r # s
      BY <1>2, <1>4, <3>1, <3>3 DEF TalkOK, Changed
    <3>4. CASE r = s
      <4>1. handler'[c][r] = h /\ handler[c][r] = "pending" /\ lines'[c][r] = lines[c][r] /\ inbox'[c][r] = inbox[c][r] /\ up'[r]
        BY <1>2, <1>4, <3>4 DEF Changed
      <4>2. r = Master => ~Told(c)
        BY <3>2, <4>1 DEF BeginOK
      <4>3. CASE Busy(c, r)
        <5>1. r # Master /\ h = "read"
          BY <1>1, <3>4, <4>2, <4>3 DEF Busy, Told
        <5> QED BY <1>2, <3>1, <4>1, <4>3, <5>1, <3>4 DEF TalkOK
      <4>4. CASE ~Busy(c, r) /\ r = Master
        <5>1. ~Told(c) /\ h = "barrier"
          BY <1>1, <3>4, <4>2, <4>4
        <5> QED BY <1>2, <3>1, <4>1, <4>4, <5>1, <3>4 DEF TalkOK
      <4>5. CASE ~Busy(c, r) /\ r # Master
        <5>1. h = "read"
          BY <1>1, <3>4, <4>5
        <5> QED BY <1>2, <3>1, <4>1, <4>5, <5>1, <3>4 DEF TalkOK
      <4> QED BY <4>3, <4>4, <4>5
    <3> QED BY <3>3, <3>4
  <2> QED BY <2>1, <2>2, <2>3, <2>4, <2>5 DEF ClientOK
<1> QED BY <1>2, <1>5, <1>6, <1>7, <1>8, <1>c, StepInv DEF Fine

\* The threads of a process go together.
LEMMA DieInv ==
    ASSUME ServiceInv, NEW c \in Clients, Die(c), TypeOK',
           UNCHANGED <<up, store, inbox, lines, handler, result, connected, stop, known, wins>>,
           \A d \in Clients : d # c => req'[d] = req[d] /\ base'[d] = base[d],
           base'[c] \subseteq known
    PROVE  ServiceInv'
<1>1. TypeOK /\ \A d \in Clients : ClientOK(d)
  BY DEF ServiceInv
<1>2. ASSUME NEW d \in Clients
      PROVE  /\ pc'[d] = IF d \in Siblings(c) THEN "gone" ELSE pc[d]
             /\ \A s \in Servers : link'[d][s] \in IF d \in Siblings(c) /\ link[d][s] = "open"
                                                   THEN {"closed", "reset"} ELSE {link[d][s]}
  BY DEF Die, Closed, UnreadLines
<1>3. World
  BY <1>2 DEF World
<1>4. c \in Siblings(c)
  BY DEF Siblings
<1>5. ASSUME NEW d \in Clients, d \notin Siblings(c) PROVE Same(d)
  <2>1. d # c /\ pc'[d] = pc[d] /\ \A s \in Servers : link'[d][s] = link[d][s]
    BY <1>2, <1>4, <1>5
  <2>2. \A s \in Servers : link[d][s] = "open" => up'[s]
    BY <1>1 DEF ClientOK, LinkOK
  <2> QED BY <2>1, <2>2 DEF Same, SameLink
<1>6. ASSUME NEW d \in Clients, d \in Siblings(c), d # c PROVE Fine(d)
  <2>1. pc'[d] = "gone" /\ \A s \in Servers : link'[d][s] # "open" /\ (link'[d][s] = "none" <=> link[d][s] = "none")
    BY <1>2, <1>6
  <2> QED BY <1>3, <1>6, <2>1, GoneFine
<1>7. Fine(c)
  <2>1. pc'[c] = "gone" /\ \A s \in Servers : link'[c][s] # "open" /\ (link'[c][s] = "none" <=> link[c][s] = "none")
    BY <1>2, <1>4
  <2>2. PlaceOK(c)'
    BY <2>1 DEF PlaceOK, Told
  <2>3. \A a : ~Coming(c, a)'
    BY <2>1 DEF Coming
  <2>4. AnswerOK(c)'
    BY <2>3 DEF AnswerOK
  <2>5. ASSUME NEW s \in Servers PROVE LinkOK(c, s)'
    BY <1>1, <2>1 DEF ClientOK, LinkOK
  <2> QED BY <2>1, <2>2, <2>3, <2>4, <2>5 DEF Fine, ClientOK
<1> QED BY <1>3, <1>5, <1>6, <1>7, StepInv

\* Links that are closed have the type of links.
LEMMA ClosedType ==
    ASSUME TypeOK, NEW C, NEW S, NEW unread, unread \in Table(BOOLEAN)
    PROVE  Closed(C, S, unread) \in [Clients -> [Servers -> {"none", "open", "closed", "reset"}]]
BY DEF TypeOK, Closed, Table

LEMMA UnreadType == UnreadLines \in Table(BOOLEAN)
BY DEF UnreadLines, Table

LEMMA ConnectInv ==
    ASSUME ServiceInv, NEW c \in Clients, Connect(c)
    PROVE  ServiceInv'
<1>1. TypeOK /\ ClientOK(c) /\ pc[c] = "connect"
  BY DEF ServiceInv, Connect
<1>2. PICK s \in Servers : s = connected[c] /\ s + 1 \in 0 .. Nodes
  BY <1>1, SomeServers DEF ClientOK, PlaceOK, Servers, TypeOK
<1>3. UNCHANGED <<up, store, inbox, lines, result, req, tx, stop, known, base, wins>>
  BY DEF Connect, historyVars
<1>4. CASE ~up[s] /\ Die(c) /\ UNCHANGED <<handler, connected>>
  <2>1. TypeOK'
    BY <1>1, <1>3, <1>4, ClosedType, UnreadType DEF TypeOK, Die
  <2>2. base'[c] \subseteq known
    BY <1>1, <1>3 DEF ClientOK, AnswerOK
  <2> QED BY <1>3, <1>4, <2>1, <2>2, DieInv
<1>5. CASE /\ up[s]
           /\ link' = [link EXCEPT ![c][s] = "open"]
           /\ handler' = [handler EXCEPT ![c][s] = "pending"]
           /\ connected' = [connected EXCEPT ![c] = s + 1]
           /\ Goto(c, IF s + 1 < Nodes THEN "connect" ELSE "await")
  <2>1. Changed(link', link, c, s, "open") /\ Changed(handler', handler, c, s, "pending")
    BY <1>1, <1>5 DEF TypeOK, Changed
  <2>2. /\ pc'[c] = IF s + 1 < Nodes THEN "connect" ELSE "await"
        /\ \A d \in Clients : d # c => pc'[d] = pc[d] /\ connected'[d] = connected[d]
        /\ connected'[c] = s + 1
    BY <1>1, <1>5 DEF TypeOK, Goto
  <2>3. TypeOK'
    BY <1>1, <1>2, <1>3, <1>5 DEF TypeOK, Goto
  <2>4. LinkOK(c, s) /\ TalkOK(c, s) /\ BeginOK(c)
    BY <1>1 DEF ClientOK
  <2>5. handler[c][s] = "none" /\ link[c][s] = "none"
    BY <1>2, <2>4, SomeServers DEF LinkOK
  <2>6. World
    BY <1>1, <1>3, <2>1, <2>2, <2>5, SomeServers DEF World, Changed
  <2>7. ASSUME NEW d \in Clients, d # c PROVE Same(d)
    <3>1. \A r \in Servers : link[d][r] = "open" => up'[r]
      BY <1>3 DEF ServiceInv, ClientOK, LinkOK
    <3> QED BY <1>3, <2>1, <2>2, <2>7, <3>1 DEF Same, SameLink, Changed
  <2>8. AnswerOK(c)' /\ (Coming(c, "TRUE")' => Coming(c, "TRUE") /\ req'[c] = req[c])
    BY <1>3, <2>2, <2>6, AnswerKept
  <2>9. PlaceOK(c)'
    BY <1>2, <2>2, SomeServers DEF PlaceOK, Told, Servers
  <2>10. ASSUME NEW r \in Servers PROVE LinkOK(c, r)'
    <3>1. LinkOK(c, r)
      BY <1>1 DEF ClientOK
    <3>2. (r >= s + 1) <=> (r >= s /\ r # s)
      BY SomeServers
    <3>3. CASE r = s
      BY <1>3, <1>5, <2>1, <2>2, <3>2, <3>3 DEF LinkOK, Changed
    <3>4. CASE r # s
      BY <1>1, <1>2, <1>3, <2>1, <2>2, <3>1, <3>2, <3>4 DEF LinkOK, Changed
    <3> QED BY <3>3, <3>4
  <2>11. BeginOK(c)'
    <3>1. lines'[c] = lines[c] /\ ~Told(c)' /\ ~Told(c)
      BY <1>1, <1>3, <2>2 DEF Told
    <3>2. lines[c][Master] # << >> => s # Master
      BY <2>4, <2>5 DEF BeginOK
    <3> QED BY <2>1, <2>4, <3>1, <3>2, SomeServers DEF BeginOK, Changed
  <2>12. ASSUME NEW r \in Servers PROVE TalkOK(c, r)'
    <3>1. TalkOK(c, r) /\ ~Busy(c, r) /\ ~Busy(c, r)' /\ ~Told(c)' /\ ~Told(c)
      BY <1>1, <2>2 DEF ClientOK, Busy, Told
    <3>2. CASE r = s
      BY <1>3, <1>5, <2>1, <2>5, <3>1, <3>2 DEF TalkOK, Changed
    <3>3. CASE r # s
      BY <1>3, <2>1, <3>1, <3>3 DEF TalkOK, Changed
    <3> QED BY <3>2, <3>3
  <2>13. Fine(c)
    BY <2>8, <2>9, <2>10, <2>11, <2>12 DEF Fine, ClientOK
  <2> QED BY <1>3, <2>3, <2>6, <2>7, <2>13, StepInv
<1> QED BY <1>2, <1>4, <1>5 DEF Connect

LEMMA AwaitMasterInv ==
    ASSUME ServiceInv, NEW c \in Clients, AwaitMaster(c)
    PROVE  ServiceInv'
<1>1. TypeOK /\ ClientOK(c) /\ pc[c] = "await" /\ Master \in Servers
  BY SomeServers DEF ServiceInv, AwaitMaster
<1>2. UNCHANGED <<up, store, handler, result, inbox, connected, req, tx, stop, known, base, wins>>
  BY DEF AwaitMaster, historyVars, serverVars
<1>3. CASE Die(c) /\ lines' = lines
  <2>1. TypeOK'
    BY <1>1, <1>2, <1>3, ClosedType, UnreadType DEF TypeOK, Die
  <2>2. base'[c] \subseteq known
    BY <1>1, <1>2 DEF ClientOK, AnswerOK
  <2> QED BY <1>2, <1>3, <2>1, <2>2, DieInv
<1>4. CASE /\ lines[c][Master] # << >>
           /\ lines' = [lines EXCEPT ![c][Master] = Tail(@)]
           /\ Goto(c, "local")
           /\ link' = link
  <2>1. Tail(lines[c][Master]) = << >>
    BY <1>1, <1>4, MailFacts, TypeFacts DEF Table
  <2>2. lines' = [lines EXCEPT ![c][Master] = << >>]
    BY <1>4, <2>1
  <2>3. Changed(lines', lines, c, Master, << >>)
    BY <1>1, <2>2 DEF TypeOK, Changed
  <2>4. pc'[c] = "local" /\ \A d \in Clients : d # c => pc'[d] = pc[d]
    BY <1>1, <1>4 DEF TypeOK, Goto
  <2>5. TypeOK'
    BY <1>1, <1>2, <1>4, <2>2 DEF TypeOK, Goto
  <2>6. World
    BY <1>2, <2>4 DEF World
  <2>7. ASSUME NEW d \in Clients, d # c PROVE Same(d)
    BY <1>2, <1>4, <2>3, <2>4, <2>7, StillLinked DEF Same, Changed
  <2>8. AnswerOK(c)' /\ (Coming(c, "TRUE")' => Coming(c, "TRUE") /\ req'[c] = req[c])
    BY <1>2, <2>4, <2>6, AnswerKept
  <2>9. PlaceOK(c)'
    BY <1>1, <1>2, <2>4 DEF ClientOK, PlaceOK, Told
  <2>10. ASSUME NEW r \in Servers PROVE LinkOK(c, r)'
    BY <1>1, <1>2, <1>4, <2>4 DEF ClientOK, LinkOK
  <2>11. BeginOK(c)'
    BY <1>1, <1>2, <1>4 DEF ClientOK, BeginOK
  <2>12. ASSUME NEW r \in Servers PROVE TalkOK(c, r)'
    <3>1. TalkOK(c, r) /\ ~Busy(c, r) /\ ~Busy(c, r)' /\ Told(c)' /\ ~Told(c)
      BY <1>1, <2>4 DEF ClientOK, Busy, Told
    <3>2. CASE r = Master
      BY <1>2, <1>4, <2>3, <3>1, <3>2 DEF TalkOK, Changed
    <3>3. CASE r # Master
      BY <1>2, <2>3, <3>1, <3>3 DEF TalkOK, Changed
    <3> QED BY <3>2, <3>3
  <2>13. Fine(c)
    BY <2>8, <2>9, <2>10, <2>11, <2>12 DEF Fine, ClientOK
  <2> QED BY <1>2, <2>5, <2>6, <2>7, <2>13, StepInv
<1> QED BY <1>3, <1>4 DEF AwaitMaster

LEMMA CrossLocalInv ==
    ASSUME ServiceInv, NEW c \in Clients, CrossLocal(c)
    PROVE  ServiceInv'
<1>1. TypeOK /\ ClientOK(c) /\ pc[c] = "local"
  BY DEF ServiceInv, CrossLocal
<1>2. UNCHANGED <<up, store, handler, result, link, inbox, lines, connected, req, tx, stop, known, base, wins>>
  BY DEF CrossLocal, historyVars, serverVars, netVars
<1>3. pc'[c] = "work" /\ \A d \in Clients : d # c => pc'[d] = pc[d]
  BY <1>1 DEF TypeOK, CrossLocal, Goto
<1>4. TypeOK'
  BY <1>1, <1>2 DEF TypeOK, CrossLocal, Goto
<1>5. World
  BY <1>2, <1>3 DEF World
<1>6. ASSUME NEW d \in Clients, d # c PROVE Same(d)
  BY <1>2, <1>3, <1>6, StillLinked DEF Same
<1>7. AnswerOK(c)' /\ (Coming(c, "TRUE")' => Coming(c, "TRUE") /\ req'[c] = req[c])
  BY <1>2, <1>3, <1>5, AnswerKept
<1>8. PlaceOK(c)'
  <2>1. \A d \in Siblings(c) : pc[d] \notin {"connect", "await"} /\ d \in Clients
    BY DEF CrossLocal, Siblings
  <2> QED BY <1>1, <1>2, <1>3, <2>1 DEF ClientOK, PlaceOK, Told, Siblings
<1>9. ASSUME NEW r \in Servers PROVE LinkOK(c, r)' /\ TalkOK(c, r)'
  <2>1. LinkOK(c, r) /\ TalkOK(c, r) /\ ~Busy(c, r) /\ ~Busy(c, r)' /\ Told(c)' /\ Told(c)
    BY <1>1, <1>3 DEF ClientOK, Busy, Told
  <2>2. LinkOK(c, r)'
    BY <1>1, <1>2, <1>3, <2>1 DEF LinkOK
  <2> QED BY <1>2, <2>1, <2>2 DEF TalkOK
<1>10. BeginOK(c)'
  BY <1>1, <1>2 DEF ClientOK, BeginOK, Told
<1>11. Fine(c)
  BY <1>7, <1>8, <1>9, <1>10 DEF Fine, ClientOK
<1> QED BY <1>2, <1>4, <1>5, <1>6, <1>11, StepInv

LEMMA QuitInv ==
    ASSUME ServiceInv, NEW c \in Clients, Quit(c)
    PROVE  ServiceInv'
<1>1. TypeOK /\ pc[c] = "work"
  BY DEF ServiceInv, Quit
<1>2. UNCHANGED <<up, store, handler, result, inbox, lines, connected, req, tx, stop, known, base, wins>>
  BY DEF Quit, historyVars, serverVars
<1>3. pc'[c] = "gone" /\ \A d \in Clients : d # c => pc'[d] = pc[d]
  BY <1>1 DEF TypeOK, Quit, Goto
<1>4. TypeOK'
  BY <1>1, <1>2, ClosedType, UnreadType DEF TypeOK, Quit, Goto
<1>5. World
  BY <1>2, <1>3 DEF World
<1>6. /\ \A d \in Clients, s \in Servers : d # c => link'[d][s] = link[d][s]
      /\ \A s \in Servers : link'[c][s] # "open" /\ (link'[c][s] = "none" <=> link[c][s] = "none")
  BY DEF Quit, Closed, UnreadLines
<1>7. ASSUME NEW d \in Clients, d # c PROVE Same(d)
  <2>1. \A r \in Servers : link[d][r] = "open" => up'[r]
    BY <1>2 DEF ServiceInv, ClientOK, LinkOK
  <2> QED BY <1>2, <1>3, <1>6, <1>7, <2>1 DEF Same, SameLink
<1>8. Fine(c)
  BY <1>2, <1>3, <1>5, <1>6, GoneFine
<1> QED BY <1>2, <1>4, <1>5, <1>7, <1>8, StepInv

LEMMA StopInv ==
    ASSUME ServiceInv, NEW p \in Procs, Stop(p)
    PROVE  ServiceInv'
<1>1. UNCHANGED <<up, store, handler, result, link, inbox, lines, pc, connected, req, tx, known, base, wins>>
  BY DEF Stop, historyVars, serverVars, netVars
<1>2. TypeOK'
  BY <1>1 DEF ServiceInv, TypeOK, Stop
<1>3. World
  BY <1>1 DEF World
<1>4. \A d \in Clients : Same(d)
  BY <1>1, StillLinked DEF Same
<1> QED BY <1>1, <1>2, <1>3, <1>4, StepInv

LEMMA SendInv ==
    ASSUME ServiceInv, NEW c \in Clients, NEW q \in Requests, Send(c, q)
    PROVE  ServiceInv'
<1>1. TypeOK /\ ClientOK(c) /\ pc[c] = "work"
  BY DEF ServiceInv, Send
<1>2. PICK s \in Servers : s = hash(q.key)
  BY SomeServers DEF Requests
<1>3. UNCHANGED <<up, store, handler, result, lines, connected, stop, known, wins>>
  BY DEF Send, serverVars
<1>4. tx' \in [Clients -> 0 .. MaxTx]
  BY <1>1, ServiceAssumption DEF TypeOK, Send
<1>5. /\ req' \in [Clients -> Requests] /\ base' \in [Clients -> SUBSET Keys]
      /\ req'[c] = q /\ base'[c] = known
      /\ \A d \in Clients : d # c => req'[d] = req[d] /\ base'[d] = base[d]
  BY <1>1 DEF TypeOK, Send
<1>6. CASE link[c][s] = "reset" /\ Die(c) /\ inbox' = inbox
  <2>1. TypeOK'
    BY <1>1, <1>3, <1>4, <1>5, <1>6, ClosedType, UnreadType DEF TypeOK, Die
  <2> QED BY <1>3, <1>5, <1>6, <2>1, DieInv
<1>7. CASE \/ Delivered(c, s) /\ Goto(c, "wait") /\ inbox' = [inbox EXCEPT ![c][s] = TRUE]
           \/ Lost(c, s) /\ Goto(c, "wait") /\ inbox' = inbox
  <2>1. pc'[c] = "wait" /\ \A d \in Clients : d # c => pc'[d] = pc[d]
    BY <1>1, <1>7 DEF TypeOK, Goto
  <2>2. /\ LinkOK(c, s) /\ TalkOK(c, s) /\ BeginOK(c)
        /\ ~Busy(c, s) /\ Told(c) /\ Told(c)' /\ Busy(c, s)'
    BY <1>1, <1>2, <1>5, <2>1 DEF ClientOK, Busy, Told
  <2>3. lines[c][s] = << >> /\ (up[s] => ~inbox[c][s] /\ handler[c][s] \in {"none", "pending", "read"})
    BY <2>2 DEF TalkOK
  <2>4. /\ \A d \in Clients, r \in Servers : d # c \/ r # s => inbox'[d][r] = inbox[d][r] /\ link'[d][r] = link[d][r]
        /\ up[s] => inbox'[c][s] /\ link'[c][s] = "open" /\ handler[c][s] # "none"
        /\ link[c][s] = "open" <=> link'[c][s] = "open"
        /\ link[c][s] = "none" <=> link'[c][s] = "none"
    <3>1. CASE Delivered(c, s) /\ inbox' = [inbox EXCEPT ![c][s] = TRUE]
      BY <1>1, <2>2, <3>1 DEF TypeOK, Delivered, LinkOK
    <3>2. CASE Lost(c, s) /\ inbox' = inbox
      <4>1. ~up[s]
        BY <1>1, <2>2, <3>2 DEF Lost, LinkOK
      <4> QED BY <1>1, <3>2, <4>1 DEF TypeOK, Lost
    <3> QED BY <1>7, <3>1, <3>2
  <2>5. TypeOK'
    <3>1. inbox' \in [Clients -> [Servers -> BOOLEAN]] /\ link' \in [Clients -> [Servers -> {"none", "open", "closed", "reset"}]]
      <4>1. CASE Delivered(c, s) /\ inbox' = [inbox EXCEPT ![c][s] = TRUE]
        BY <1>1, <4>1 DEF TypeOK, Delivered
      <4>2. CASE Lost(c, s) /\ inbox' = inbox
        BY <1>1, <4>2 DEF TypeOK, Lost
      <4> QED BY <1>7, <4>1, <4>2
    <3>2. pc' \in [Clients -> {"connect", "await", "local", "work", "wait", "gone"}]
      BY <1>1, <1>7 DEF TypeOK, Goto
    <3> QED BY <1>1, <1>3, <1>4, <1>5, <3>1, <3>2 DEF TypeOK
  <2>6. World
    BY <1>3, <2>1 DEF World
  <2>7. ASSUME NEW d \in Clients, d # c PROVE Same(d)
    <3>1. \A r \in Servers : link[d][r] = "open" => up'[r]
      BY <1>3 DEF ServiceInv, ClientOK, LinkOK
    <3> QED BY <1>3, <1>5, <2>1, <2>4, <2>7, <3>1 DEF Same, SameLink
  <2>8. ASSUME NEW a PROVE ~Coming(c, a)'
    <3>1. hash(req'[c].key) = s
      BY <1>2, <1>5
    <3>2. lines'[c][s] # <<a>> /\ ~(up'[s] /\ handler'[c][s] = "respond")
      BY <1>3, <2>3, MailFacts
    <3> QED BY <3>1, <3>2, Zenon DEF Coming
  <2>9. AnswerOK(c)'
    BY <1>3, <1>5, <2>8 DEF AnswerOK
  <2>10. PlaceOK(c)'
    BY <1>1, <1>3, <2>1 DEF ClientOK, PlaceOK, Told, Siblings
  <2>11. ASSUME NEW r \in Servers PROVE LinkOK(c, r)'
    <3>1. LinkOK(c, r)
      BY <1>1 DEF ClientOK
    <3>2. CASE r = s
      BY <1>1, <1>3, <2>1, <2>4, <3>1, <3>2 DEF LinkOK
    <3>3. CASE r # s
      BY <1>1, <1>3, <2>1, <2>4, <3>1, <3>3 DEF LinkOK
    <3> QED BY <3>2, <3>3
  <2>12. BeginOK(c)'
    BY <1>3, <2>2 DEF BeginOK
  <2>13. ASSUME NEW r \in Servers PROVE TalkOK(c, r)'
    <3>1. TalkOK(c, r) /\ ~Busy(c, r)
      BY <1>1 DEF ClientOK, Busy
    <3>2. CASE r = s
      <4>1. lines'[c][r] # <<"BEGIN">>
        BY <1>3, <2>3, <3>2, MailFacts
      <4> QED BY <1>3, <2>2, <2>3, <2>4, <3>2, <4>1 DEF TalkOK
    <3>3. CASE r # s
      <4>1. ~Busy(c, r)'
        BY <1>2, <1>5, <3>3 DEF Busy
      <4> QED BY <1>3, <2>2, <2>4, <3>1, <3>3, <4>1 DEF TalkOK
    <3> QED BY <3>2, <3>3
  <2>14. Fine(c)
    BY <2>8, <2>9, <2>10, <2>11, <2>12, <2>13 DEF Fine, ClientOK
  <2> QED BY <1>3, <2>5, <2>6, <2>7, <2>14, StepInv
<1> QED BY <1>2, <1>6, <1>7 DEF Send, owner

-----------------------------------------------------------------------------
\* A handler whose client is alive writes to an open connection; what it writes
\* to one that is gone is lost, or ends the server.
LEMMA WriteFacts ==
    ASSUME ServiceInv, NEW c \in Clients, NEW s \in Servers, NEW line \in Answers \cup {"BEGIN"},
           up[s], handler[c][s] # "none", pc[c] # "gone" => lines[c][s] = << >>,
           ServerWrite(c, s, line)
    PROVE  /\ up' \in [Servers -> BOOLEAN]
           /\ link' \in [Clients -> [Servers -> {"none", "open", "closed", "reset"}]]
           /\ lines' \in [Clients -> [Servers -> {<< >>} \cup {<<a>> : a \in Answers \cup {"BEGIN"}}]]
           /\ \A r \in Servers : up'[r] => up[r]
           /\ \A d \in Clients, r \in Servers : d # c => SameLink(d, r)
           /\ pc[c] # "gone" => up' = up /\ link' = link /\ Changed(lines', lines, c, s, <<line>>)
           /\ pc[c] = "gone" => /\ lines' = lines
                                /\ \A r \in Servers : link'[c][r] # "open" /\ (link'[c][r] = "none" <=> link[c][r] = "none")
<1>1. TypeOK /\ LinkOK(c, s) /\ \A d \in Clients, r \in Servers : LinkOK(d, r)
  BY DEF ServiceInv, ClientOK
<1>2. link[c][s] # "none" /\ (pc[c] = "gone" <=> link[c][s] # "open")
  BY <1>1 DEF LinkOK, TypeOK
<1>3. CASE pc[c] # "gone"
  <2>1. link' = link /\ up' = up /\ lines' = [lines EXCEPT ![c][s] = Append(@, line)]
    BY <1>2, <1>3 DEF ServerWrite, Delivered, Lost
  <2>2. lines' = [lines EXCEPT ![c][s] = <<line>>]
    BY <1>1, <1>3, <2>1, MailFacts DEF TypeOK
  <2>3. Changed(lines', lines, c, s, <<line>>)
    BY <1>1, <2>2 DEF TypeOK, Changed
  <2>4. lines' \in [Clients -> [Servers -> {<< >>} \cup {<<a>> : a \in Answers \cup {"BEGIN"}}]]
    BY <1>1, <2>2 DEF TypeOK
  <2> QED BY <1>1, <1>3, <2>1, <2>3, <2>4, StillLinked DEF TypeOK
<1>4. CASE pc[c] = "gone"
  <2>1. lines' = lines
    BY <1>2, <1>4 DEF ServerWrite, Delivered
  <2>2. \A r \in Servers : link[c][r] # "open"
    BY <1>1, <1>4 DEF LinkOK
  <2>3. CASE Lost(c, s) /\ up' = up
    <3>1. /\ \A d \in Clients, r \in Servers : d # c \/ r # s => link'[d][r] = link[d][r]
          /\ link'[c][s] = "reset"
      BY <1>1, <2>3 DEF Lost, TypeOK
    <3>2. link' \in [Clients -> [Servers -> {"none", "open", "closed", "reset"}]]
      BY <1>1, <2>3 DEF Lost, TypeOK
    <3>3. \A d \in Clients, r \in Servers : d # c => SameLink(d, r)
      BY <1>1, <2>3, <3>1 DEF SameLink, LinkOK
    <3> QED BY <1>1, <1>2, <1>4, <2>1, <2>2, <2>3, <3>1, <3>2, <3>3 DEF TypeOK
  <2>4. CASE up' = [up EXCEPT ![s] = FALSE] /\ link' = Closed(Clients, {s}, inbox)
    <3>1. /\ up' \in [Servers -> BOOLEAN] /\ ~up'[s]
          /\ \A r \in Servers : r # s => up'[r] = up[r]
      BY <1>1, <2>4 DEF TypeOK
    <3>2. link' \in [Clients -> [Servers -> {"none", "open", "closed", "reset"}]]
      <4>1. inbox \in Table(BOOLEAN)
        BY <1>1 DEF TypeOK, Table
      <4> QED BY <1>1, <2>4, <4>1, ClosedType
    <3>3. \A d \in Clients, r \in Servers :
            IF r = s /\ link[d][r] = "open" THEN link'[d][r] \in {"closed", "reset"} ELSE link'[d][r] = link[d][r]
      BY <2>4 DEF Closed
    <3>4. \A d \in Clients, r \in Servers : SameLink(d, r)
      BY <1>1, <3>1, <3>3 DEF SameLink, LinkOK
    <3> QED BY <1>1, <1>4, <2>1, <2>2, <3>1, <3>2, <3>3, <3>4 DEF TypeOK
  <2> QED BY <1>2, <1>4, <2>3, <2>4 DEF ServerWrite, Delivered
<1> QED BY <1>3, <1>4

LEMMA SendBeginInv ==
    ASSUME ServiceInv, NEW c \in Clients, SendBegin(c)
    PROVE  ServiceInv'
<1> DEFINE s == Master
<1>1. TypeOK /\ ClientOK(c) /\ s \in Servers /\ up[s] /\ handler[c][s] = "barrier"
  BY SomeServers DEF ServiceInv, SendBegin
<1>2. UNCHANGED <<store, result, inbox, pc, connected, req, tx, stop, known, base, wins>>
  BY DEF SendBegin, historyVars
<1>3. pc[c] # "gone" => lines[c][s] = << >> /\ ~Told(c) /\ ~inbox[c][s] /\ TalkOK(c, s) /\ BeginOK(c)
  <2>1. pc[c] # "gone" => BeginOK(c) /\ TalkOK(c, s)
    BY <1>1 DEF ClientOK
  <2>2. pc[c] # "gone" => ~Told(c)
    BY <1>1, <2>1 DEF BeginOK
  <2>3. pc[c] # "gone" => ~Busy(c, s)
    BY <2>2 DEF Busy, Told
  <2> QED BY <1>1, <2>1, <2>2, <2>3 DEF TalkOK
<1>4. handler' = [handler EXCEPT ![c][s] = "read"] /\ ServerWrite(c, s, "BEGIN")
  BY DEF SendBegin
<1>5. Changed(handler', handler, c, s, "read")
  BY <1>1, <1>4 DEF TypeOK, Changed
<1>6. /\ up' \in [Servers -> BOOLEAN]
      /\ link' \in [Clients -> [Servers -> {"none", "open", "closed", "reset"}]]
      /\ lines' \in [Clients -> [Servers -> {<< >>} \cup {<<a>> : a \in Answers \cup {"BEGIN"}}]]
      /\ \A r \in Servers : up'[r] => up[r]
      /\ \A d \in Clients, r \in Servers : d # c => SameLink(d, r)
      /\ pc[c] # "gone" => up' = up /\ link' = link /\ Changed(lines', lines, c, s, <<"BEGIN">>)
      /\ pc[c] = "gone" => /\ lines' = lines
                           /\ \A r \in Servers : link'[c][r] # "open" /\ (link'[c][r] = "none" <=> link[c][r] = "none")
  <2>1. "BEGIN" \in Answers \cup {"BEGIN"} /\ handler[c][s] # "none"
    BY <1>1
  <2> HIDE DEF s
  <2> QED BY <1>1, <1>3, <1>4, <2>1, WriteFacts
<1>7. TypeOK'
  BY <1>1, <1>2, <1>4, <1>6 DEF TypeOK
<1>8. World
  BY <1>1, <1>2, <1>5, <1>6 DEF World, Changed
<1>9. ASSUME NEW d \in Clients, d # c PROVE Same(d)
  <2>1. \A r \in Servers : lines'[d][r] = lines[d][r]
    BY <1>6, <1>9 DEF Changed
  <2> QED BY <1>2, <1>5, <1>6, <1>9, <2>1 DEF Same, Changed
<1>10. CASE pc[c] = "gone"
  <2>1. Fine(c)
    BY <1>1, <1>2, <1>5, <1>6, <1>8, <1>10, GoneFine DEF Changed
  <2> QED BY <1>2, <1>7, <1>8, <1>9, <2>1, StepInv
<1>11. CASE pc[c] # "gone"
  <2>1. pc'[c] # "wait" /\ ~Told(c)' /\ pc'[c] = pc[c]
    BY <1>2, <1>3, <1>11 DEF Told
  <2>2. AnswerOK(c)' /\ (Coming(c, "TRUE")' => Coming(c, "TRUE") /\ req'[c] = req[c])
    BY <1>2, <1>8, <2>1, AnswerKept
  <2>3. PlaceOK(c)'
    BY <1>1, <1>2 DEF ClientOK, PlaceOK, Told, Siblings
  <2>4. ASSUME NEW r \in Servers PROVE LinkOK(c, r)'
    <3>1. LinkOK(c, r)
      BY <1>1 DEF ClientOK
    <3> QED BY <1>1, <1>2, <1>5, <1>6, <1>11, <3>1 DEF LinkOK, Changed
  <2>5. BeginOK(c)'
    <3>1. \A d \in Clients : handler[d][s] \notin {"none", "pending"}
      BY DEF SendBegin
    <3> QED BY <1>1, <1>5, <3>1 DEF BeginOK, Changed
  <2>6. ASSUME NEW r \in Servers PROVE TalkOK(c, r)'
    <3>1. TalkOK(c, r) /\ ~Busy(c, r) /\ ~Busy(c, r)' /\ ~Told(c)
      BY <1>1, <1>2, <1>3, <1>11, <2>1 DEF ClientOK, Busy
    <3>2. CASE r = s
      BY <1>2, <1>3, <1>5, <1>6, <1>11, <2>1, <3>1, <3>2, MailFacts DEF TalkOK, Changed
    <3>3. CASE r # s
      BY <1>2, <1>5, <1>6, <1>11, <2>1, <3>1, <3>3 DEF TalkOK, Changed
    <3> QED BY <3>2, <3>3
  <2>7. Fine(c)
    BY <2>2, <2>3, <2>4, <2>5, <2>6 DEF Fine, ClientOK
  <2> QED BY <1>2, <1>7, <1>8, <1>9, <2>7, StepInv
<1> QED BY <1>10, <1>11

LEMMA ReadInv ==
    ASSUME ServiceInv, NEW c \in Clients, NEW s \in Servers, Read(c, s)
    PROVE  ServiceInv'
<1>1. TypeOK /\ ClientOK(c) /\ up[s] /\ handler[c][s] = "read"
  BY DEF ServiceInv, Read
<1>2. UNCHANGED <<up, store, link, lines, pc, connected, req, tx, stop, known, base, wins>>
  BY DEF Read, historyVars
<1>3. /\ \A d \in Clients, r \in Servers : d # c \/ r # s =>
            handler'[d][r] = handler[d][r] /\ inbox'[d][r] = inbox[d][r] /\ result'[d][r] = result[d][r]
      /\ handler'[c][s] \in {"apply", "respond"}
      /\ pc[c] # "gone" => inbox[c][s] /\ ~inbox'[c][s] /\ handler'[c][s] = "apply"
  <2>1. CASE /\ inbox[c][s] /\ inbox' = [inbox EXCEPT ![c][s] = FALSE]
             /\ handler' = [handler EXCEPT ![c][s] = "apply"] /\ result' = result
    BY <1>1, <2>1 DEF TypeOK
  <2>2. CASE /\ link[c][s] # "open" /\ handler' = [handler EXCEPT ![c][s] = "respond"]
             /\ result' = [result EXCEPT ![c][s] = "ABORT"] /\ inbox' = inbox
    <3>1. LinkOK(c, s)
      BY <1>1 DEF ClientOK
    <3>2. pc[c] = "gone"
      BY <1>1, <2>2, <3>1 DEF LinkOK
    <3> QED BY <1>1, <2>2, <3>2 DEF TypeOK
  <2> QED BY <2>1, <2>2 DEF Read
<1>4. TypeOK'
  <2>1. CASE /\ inbox' = [inbox EXCEPT ![c][s] = FALSE]
             /\ handler' = [handler EXCEPT ![c][s] = "apply"] /\ result' = result
    BY <1>1, <1>2, <2>1 DEF TypeOK
  <2>2. CASE /\ handler' = [handler EXCEPT ![c][s] = "respond"]
             /\ result' = [result EXCEPT ![c][s] = "ABORT"] /\ inbox' = inbox
    BY <1>1, <1>2, <2>2 DEF TypeOK, Answers
  <2> QED BY <2>1, <2>2 DEF Read
<1>5. World
  <2>1. \A d \in Clients : handler[d][Master] \notin {"none", "pending"} => handler'[d][Master] \notin {"none", "pending"}
    BY <1>3, SomeServers
  <2> QED BY <1>2, <2>1 DEF World
<1>6. ASSUME NEW d \in Clients, d # c PROVE Same(d)
  BY <1>2, <1>3, <1>6, StillLinked DEF Same
<1>7. CASE pc[c] = "gone"
  <2>1. \A r \in Servers : link'[c][r] # "open"
    BY <1>1, <1>2, <1>7 DEF ClientOK, LinkOK
  <2>2. \A r \in Servers : /\ handler'[c][r] = "none" <=> handler[c][r] = "none"
                           /\ handler'[c][r] = "barrier" => handler[c][r] = "barrier"
    BY <1>1, <1>3
  <2>3. Fine(c)
    BY <1>2, <1>5, <1>7, <2>1, <2>2, GoneFine
  <2> QED BY <1>2, <1>4, <1>5, <1>6, <2>3, StepInv
<1>8. CASE pc[c] # "gone"
  <2>1. /\ TalkOK(c, s) /\ BeginOK(c) /\ Told(c) = Told(c)'
        /\ \A r \in Servers : Busy(c, r)' <=> Busy(c, r)
    BY <1>1, <1>2, <1>8 DEF ClientOK, Busy, Told
  <2>2. Busy(c, s)
    BY <1>1, <1>3, <1>8, <2>1 DEF TalkOK
  <2>3. AnswerOK(c)' /\ (Coming(c, "TRUE")' => Coming(c, "TRUE") /\ req'[c] = req[c])
    <3>1. \A r \in Servers : handler'[c][r] = "respond" => handler[c][r] = "respond" /\ result'[c][r] = result[c][r]
      BY <1>3, <1>8
    <3> QED BY <1>2, <1>5, <3>1, AnswerKept
  <2>4. PlaceOK(c)'
    BY <1>1, <1>2 DEF ClientOK, PlaceOK, Told, Siblings
  <2>5. ASSUME NEW r \in Servers PROVE LinkOK(c, r)'
    <3>1. LinkOK(c, r)
      BY <1>1 DEF ClientOK
    <3> QED BY <1>1, <1>2, <1>3, <3>1 DEF LinkOK
  <2>6. BeginOK(c)'
    <3>1. handler[c][Master] # "barrier" => handler'[c][Master] # "barrier"
      BY <1>3, SomeServers
    <3> QED BY <1>2, <1>5, <2>1, <3>1 DEF BeginOK, World
  <2>7. ASSUME NEW r \in Servers PROVE TalkOK(c, r)'
    <3>1. TalkOK(c, r)
      BY <1>1, <1>8 DEF ClientOK
    <3>2. CASE r = s
      BY <1>1, <1>2, <1>3, <1>8, <2>1, <2>2, <3>1, <3>2 DEF TalkOK
    <3>3. CASE r # s
      BY <1>2, <1>3, <2>1, <3>1, <3>3 DEF TalkOK
    <3> QED BY <3>2, <3>3
  <2>8. Fine(c)
    BY <2>3, <2>4, <2>5, <2>6, <2>7 DEF Fine, ClientOK
  <2> QED BY <1>2, <1>4, <1>5, <1>6, <2>8, StepInv
<1> QED BY <1>7, <1>8

LEMMA RespondInv ==
    ASSUME ServiceInv, NEW c \in Clients, NEW s \in Servers, Respond(c, s)
    PROVE  ServiceInv'
<1>1. TypeOK /\ ClientOK(c) /\ up[s] /\ handler[c][s] = "respond"
  BY DEF ServiceInv, Respond
<1>2. UNCHANGED <<store, result, inbox, pc, connected, req, tx, stop, known, base, wins>>
  BY DEF Respond, historyVars
<1>3. pc[c] # "gone" => lines[c][s] = << >> /\ ~inbox[c][s] /\ BeginOK(c) /\ Busy(c, s)
  <2>1. pc[c] # "gone" => BeginOK(c) /\ TalkOK(c, s)
    BY <1>1 DEF ClientOK
  <2>2. pc[c] # "gone" => Busy(c, s)
    BY <1>1, <2>1 DEF TalkOK
  <2> QED BY <1>1, <2>1, <2>2 DEF TalkOK
<1>4. PICK a \in Answers : a = result[c][s]
  BY <1>1 DEF TypeOK
<1>5. handler' = [handler EXCEPT ![c][s] = "read"] /\ ServerWrite(c, s, a)
  BY <1>4 DEF Respond
<1>6. Changed(handler', handler, c, s, "read")
  BY <1>1, <1>5 DEF TypeOK, Changed
<1>7. /\ up' \in [Servers -> BOOLEAN]
      /\ link' \in [Clients -> [Servers -> {"none", "open", "closed", "reset"}]]
      /\ lines' \in [Clients -> [Servers -> {<< >>} \cup {<<b>> : b \in Answers \cup {"BEGIN"}}]]
      /\ \A r \in Servers : up'[r] => up[r]
      /\ \A d \in Clients, r \in Servers : d # c => SameLink(d, r)
      /\ pc[c] # "gone" => up' = up /\ link' = link /\ Changed(lines', lines, c, s, <<a>>)
      /\ pc[c] = "gone" => /\ lines' = lines
                           /\ \A r \in Servers : link'[c][r] # "open" /\ (link'[c][r] = "none" <=> link[c][r] = "none")
  <2>1. a \in Answers \cup {"BEGIN"} /\ handler[c][s] # "none"
    BY <1>1
  <2> QED BY <1>1, <1>3, <1>5, <2>1, WriteFacts
<1>8. TypeOK'
  BY <1>1, <1>2, <1>5, <1>7 DEF TypeOK
<1>9. World
  BY <1>1, <1>2, <1>6, <1>7, SomeServers DEF World, Changed
<1>10. ASSUME NEW d \in Clients, d # c PROVE Same(d)
  <2>1. \A r \in Servers : lines'[d][r] = lines[d][r]
    BY <1>7, <1>10 DEF Changed
  <2> QED BY <1>2, <1>6, <1>7, <1>10, <2>1 DEF Same, Changed
<1>11. CASE pc[c] = "gone"
  <2>1. Fine(c)
    BY <1>1, <1>2, <1>6, <1>7, <1>9, <1>11, GoneFine DEF Changed
  <2> QED BY <1>2, <1>8, <1>9, <1>10, <2>1, StepInv
<1>12. CASE pc[c] # "gone"
  <2>1. (Told(c) <=> Told(c)') /\ \A r \in Servers : Busy(c, r)' <=> Busy(c, r)
    BY <1>2 DEF Told, Busy
  <2>2. AnswerOK(c)' /\ (Coming(c, "TRUE")' => Coming(c, "TRUE") /\ req'[c] = req[c])
    <3>1. \A r \in Servers :
            /\ lines'[c][r] = lines[c][r] \/ (up[r] /\ handler[c][r] = "respond" /\ lines'[c][r] = <<result[c][r]>>)
            /\ up'[r] /\ handler'[c][r] = "respond" =>
                  up[r] /\ handler[c][r] = "respond" /\ result'[c][r] = result[c][r]
      BY <1>1, <1>2, <1>4, <1>6, <1>7, <1>12 DEF Changed
    <3> QED BY <1>2, <1>9, <3>1, AnswerKept
  <2>3. PlaceOK(c)'
    BY <1>1, <1>2 DEF ClientOK, PlaceOK, Told, Siblings
  <2>4. ASSUME NEW r \in Servers PROVE LinkOK(c, r)'
    <3>1. LinkOK(c, r)
      BY <1>1 DEF ClientOK
    <3> QED BY <1>1, <1>2, <1>6, <1>7, <1>12, <3>1 DEF LinkOK, Changed
  <2>5. BeginOK(c)'
    <3>1. Told(c) /\ Told(c)'
      BY <1>3, <1>12, <2>1 DEF Busy, Told
    <3>2. handler'[c][Master] \in {handler[c][Master], "read"}
      BY <1>6, SomeServers DEF Changed
    <3> QED BY <1>3, <1>9, <1>12, <3>1, <3>2 DEF BeginOK, World
  <2>6. ASSUME NEW r \in Servers PROVE TalkOK(c, r)'
    <3>1. TalkOK(c, r)
      BY <1>1, <1>12 DEF ClientOK
    <3>2. CASE r = s
      <4>1. lines'[c][r] = <<a>> /\ <<a>> # <<"BEGIN">> /\ <<a>> # << >>
        BY <1>7, <1>12, <3>2, MailFacts DEF Changed, Answers
      <4> QED BY <1>2, <1>3, <1>6, <1>12, <2>1, <3>2, <4>1 DEF TalkOK, Changed
    <3>3. CASE r # s
      BY <1>2, <1>6, <1>7, <1>12, <2>1, <3>1, <3>3 DEF TalkOK, Changed
    <3> QED BY <3>2, <3>3
  <2>7. Fine(c)
    BY <2>2, <2>3, <2>4, <2>5, <2>6 DEF Fine, ClientOK
  <2> QED BY <1>2, <1>8, <1>9, <1>10, <2>7, StepInv
<1> QED BY <1>11, <1>12

\* What contains and add answer, and what they leave in the store.
LEMMA ApplyFacts ==
    ASSUME TypeOK, NEW c \in Clients, NEW s \in Servers, Apply(c, s)
    PROVE  LET k == req[c].key  a == result'[c][s] IN
           /\ result' \in [Clients -> [Servers -> Answers]] /\ store' \in [Servers -> SUBSET Keys]
           /\ \A d \in Clients, r \in Servers : d # c \/ r # s => result'[d][r] = result[d][r]
           /\ \A r \in Servers : store[r] \subseteq store'[r]
           /\ (req[c].op = "put" /\ a # "ABORT") \/ a = "TRUE" => k \in store'[s]
           /\ k \in store[s] => a # (IF req[c].op = "get" THEN "FALSE" ELSE "TRUE")
<1> DEFINE k == req[c].key
<1>1. k \in Keys /\ req[c].op \in {"get", "put"}
  BY RequestKey
<1>2. CASE /\ req[c].op = "get" /\ store' = store
           /\ result' = [result EXCEPT ![c][s] = IF k \in store[s] THEN "TRUE" ELSE "FALSE"]
  BY <1>1, <1>2 DEF TypeOK, Answers
<1>3. CASE /\ req[c].op = "put" /\ store' = [store EXCEPT ![s] = @ \cup {k}]
           /\ result' = [result EXCEPT ![c][s] = IF k \in store[s] THEN "FALSE" ELSE "TRUE"]
  BY <1>1, <1>3 DEF TypeOK, Answers
<1>4. CASE req[c].op = "put" /\ store' = store /\ result' = [result EXCEPT ![c][s] = "ABORT"]
  BY <1>1, <1>4 DEF TypeOK, Answers
<1> QED BY <1>2, <1>3, <1>4 DEF Apply

LEMMA ApplyInv ==
    ASSUME ServiceInv, NEW c \in Clients, NEW s \in Servers, Apply(c, s)
    PROVE  ServiceInv'
<1>1. TypeOK /\ ClientOK(c) /\ up[s] /\ handler[c][s] = "apply"
  BY DEF ServiceInv, Apply
<1>2. UNCHANGED <<up, link, inbox, lines, pc, connected, req, tx, stop, known, base, wins>>
  BY DEF Apply, historyVars, netVars
<1>3. PICK k \in Keys : k = req[c].key
  BY <1>1, RequestKey
<1>4. PICK a : a = result'[c][s]
  OBVIOUS
<1>5. /\ result' \in [Clients -> [Servers -> Answers]] /\ store' \in [Servers -> SUBSET Keys]
      /\ \A d \in Clients, r \in Servers : d # c \/ r # s => result'[d][r] = result[d][r]
      /\ \A r \in Servers : store[r] \subseteq store'[r]
      /\ (req[c].op = "put" /\ a # "ABORT") \/ a = "TRUE" => k \in store'[s]
      /\ k \in store[s] => a # (IF req[c].op = "get" THEN "FALSE" ELSE "TRUE")
  BY <1>1, <1>3, <1>4, ApplyFacts
<1>6. /\ handler' \in [Clients -> [Servers -> {"none", "pending", "barrier", "read", "apply", "respond"}]]
      /\ Changed(handler', handler, c, s, "respond")
  BY <1>1 DEF TypeOK, Apply, Changed
<1>7. TypeOK'
  BY <1>1, <1>2, <1>5, <1>6 DEF TypeOK
<1>8. World
  BY <1>2, <1>5, <1>6, SomeServers DEF World, Changed
<1>9. ASSUME NEW d \in Clients, d # c PROVE Same(d)
  BY <1>2, <1>5, <1>6, <1>9, StillLinked DEF Same, Changed
<1>10. CASE pc[c] = "gone"
  <2>1. \A r \in Servers : link'[c][r] # "open"
    BY <1>1, <1>2, <1>10 DEF ClientOK, LinkOK
  <2>2. Fine(c)
    BY <1>1, <1>2, <1>6, <1>8, <1>10, <2>1, GoneFine DEF Changed
  <2> QED BY <1>2, <1>7, <1>8, <1>9, <2>2, StepInv
<1>11. CASE pc[c] # "gone"
  <2>1. /\ TalkOK(c, s) /\ BeginOK(c) /\ (Told(c) <=> Told(c)')
        /\ \A r \in Servers : Busy(c, r)' <=> Busy(c, r)
    BY <1>1, <1>2, <1>11 DEF ClientOK, Busy, Told
  <2>2. Busy(c, s)
    BY <1>1, <2>1 DEF TalkOK
  <2>3. /\ pc[c] = "wait" /\ pc'[c] = "wait" /\ s = hash(k) /\ hash(req'[c].key) = s
        /\ lines[c][s] = << >> /\ ~inbox[c][s]
    BY <1>1, <1>2, <1>3, <2>1, <2>2 DEF Busy, TalkOK
  <2>4. \A b : Coming(c, b)' => b = a
    <3>1. ASSUME NEW b PROVE lines'[c][s] # <<b>>
      BY <1>2, <2>3, MailFacts
    <3> QED BY <1>4, <2>3, <3>1, Zenon DEF Coming
  <2>5. AnswerOK(c)'
    <3>1. base'[c] \subseteq known'
      BY <1>1, <1>2 DEF ClientOK, AnswerOK
    <3>2. k \in base[c] => k \in store[s]
      BY <1>1, <1>2, <2>3, <3>1 DEF ServiceInv
    <3>3. req'[c] = req[c] /\ req'[c].key = k /\ base'[c] = base[c] /\ store'[hash(k)] = store'[s]
      BY <1>2, <1>3, <2>3
    <3>4. TrueAnswer(c, a)'
      BY <1>5, <3>2, <3>3 DEF TrueAnswer
    <3> QED BY <2>4, <3>1, <3>4 DEF AnswerOK
  <2>6. PlaceOK(c)'
    BY <1>1, <1>2 DEF ClientOK, PlaceOK, Told, Siblings
  <2>7. ASSUME NEW r \in Servers PROVE LinkOK(c, r)'
    <3>1. LinkOK(c, r)
      BY <1>1 DEF ClientOK
    <3> QED BY <1>1, <1>2, <1>6, <3>1 DEF LinkOK, Changed
  <2>8. BeginOK(c)'
    <3>1. handler'[c][Master] \in {handler[c][Master], "respond"}
      BY <1>6, SomeServers DEF Changed
    <3> QED BY <1>2, <1>8, <2>1, <3>1 DEF BeginOK, World
  <2>9. ASSUME NEW r \in Servers PROVE TalkOK(c, r)'
    <3>1. TalkOK(c, r)
      BY <1>1, <1>11 DEF ClientOK
    <3>2. CASE r = s
      <4>1. lines'[c][r] # <<"BEGIN">>
        BY <1>2, <2>3, <3>2, MailFacts
      <4> QED BY <1>2, <1>6, <2>1, <2>2, <2>3, <3>2, <4>1 DEF TalkOK, Changed
    <3>3. CASE r # s
      BY <1>2, <1>6, <2>1, <3>1, <3>3 DEF TalkOK, Changed
    <3> QED BY <3>2, <3>3
  <2>10. ClientOK(c)'
    BY <2>5, <2>6, <2>7, <2>8, <2>9 DEF ClientOK
  <2>11. \A d \in Clients : ClientOK(d)'
    BY <1>1, <1>8, <1>9, <2>10, SameOK DEF ServiceInv
  <2>12. \A j \in Keys : j \in store[hash(j)] => j \in store'[hash(j)]
    BY <1>5, SomeServers
  <2>13. ASSUME NEW d \in Clients, NEW j \in Keys, Winning(d, j)'
         PROVE  \/ Winning(d, j)
                \/ d = c /\ j = k /\ k \notin store[hash(k)] /\ k \in store'[hash(k)]
    <3>1. CASE d = c
      <4>1. a = "TRUE" /\ req'[c] = [op |-> "put", key |-> j]
        BY <2>4, <2>13, <3>1 DEF Winning
      <4>2. j = k /\ req[c].op = "put"
        BY <1>2, <1>3, <4>1
      <4> QED BY <1>5, <2>3, <3>1, <4>1, <4>2
    <3>2. CASE d # c
      BY <1>1, <1>8, <1>9, <2>13, <3>2, SameComing DEF Winning, Same
    <3> QED BY <3>1, <3>2
  <2>14. ASSUME NEW j \in Keys PROVE WinsOK(j)'
    <3>1. WinsOK(j)
      BY DEF ServiceInv
    <3>2. CASE j = k /\ k \notin store[hash(k)] /\ k \in store'[hash(k)]
      <4>1. wins'[j] = 0 /\ \A d \in Clients : ~Winning(d, j)
        BY <1>2, <3>1, <3>2 DEF WinsOK
      <4>2. \A d \in Clients : Winning(d, j)' => d = c
        BY <2>13, <4>1
      <4> QED BY <3>2, <4>1, <4>2 DEF WinsOK
    <3>3. CASE ~(j = k /\ k \notin store[hash(k)] /\ k \in store'[hash(k)])
      <4>1. \A d \in Clients : Winning(d, j)' => Winning(d, j)
        BY <2>13, <3>3
      <4> QED BY <1>2, <2>12, <3>1, <4>1 DEF WinsOK
    <3> QED BY <3>2, <3>3
  <2>15. \A j \in known' : j \in store'[hash(j)]
    BY <1>1, <1>2, <2>12 DEF ServiceInv, TypeOK
  <2> QED BY <1>7, <2>11, <2>14, <2>15 DEF ServiceInv
<1> QED BY <1>10, <1>11

\* What the client is told when it waits: the answer on its way, or ABORT.
LEMMA AwaitResponseInv ==
    ASSUME ServiceInv, NEW c \in Clients, AwaitResponse(c)
    PROVE  ServiceInv'
<1>1. TypeOK /\ ClientOK(c) /\ pc[c] = "wait"
  BY DEF ServiceInv, AwaitResponse
<1>2. PICK k \in Keys : k = req[c].key /\ req[c].op \in {"get", "put"} /\ req[c] = [op |-> req[c].op, key |-> k]
  BY <1>1, RequestKey
<1>3. PICK s \in Servers : s = hash(k)
  BY SomeServers
<1>4. UNCHANGED <<up, store, handler, result, link, inbox, connected, req, tx, stop>>
  BY DEF AwaitResponse, serverVars
<1>5. pc'[c] = "work" /\ (\A d \in Clients : d # c => pc'[d] = pc[d])
      /\ pc' \in [Clients -> {"connect", "await", "local", "work", "wait", "gone"}]
  BY <1>1 DEF TypeOK, AwaitResponse, Goto
<1>6. TalkOK(c, s) /\ Busy(c, s) /\ LinkOK(c, s)
  BY <1>1, <1>2, <1>3 DEF ClientOK, Busy
<1>7. PICK a \in Answers :
        /\ Learn(c, a) /\ (a = "ABORT" \/ Coming(c, a))
        /\ lines' = [lines EXCEPT ![c][s] = << >>]
        /\ up[s] => ~inbox[c][s] /\ handler[c][s] = "read"
  <2>1. CASE /\ lines[c][s] # << >> /\ lines' = [lines EXCEPT ![c][s] = Tail(@)]
             /\ Learn(c, Head(lines[c][s]))
    <3>1. lines[c][s] \in Mail
      BY <1>1, TypeFacts DEF Table
    <3>2. PICK a : a = Head(lines[c][s])
      OBVIOUS
    <3>3. lines[c][s] = <<a>> /\ a \in Answers \cup {"BEGIN"} /\ Tail(lines[c][s]) = << >>
      BY <2>1, <3>1, <3>2, MailFacts
    <3>4. a \in Answers
      BY <1>6, <3>3 DEF TalkOK
    <3>5. Coming(c, a)
      <4>1. hash(req[c].key) = s
        BY <1>2, <1>3
      <4> QED BY <1>1, <3>3, <4>1, Zenon DEF Coming
    <3>6. up[s] => ~inbox[c][s] /\ handler[c][s] = "read"
      BY <1>6, <2>1 DEF TalkOK
    <3>7. lines' = [lines EXCEPT ![c][s] = << >>]
      BY <2>1, <3>3
    <3> QED BY <2>1, <3>2, <3>4, <3>5, <3>6, <3>7
  <2>2. CASE lines[c][s] = << >> /\ link[c][s] # "open" /\ lines' = lines /\ Learn(c, "ABORT")
    <3>1. link[c][s] # "none"
      BY <1>1, <1>6, SomeServers DEF ClientOK, PlaceOK, Told, LinkOK, Servers
    <3>2. ~up[s]
      BY <1>1, <1>6, <2>2, <3>1 DEF LinkOK
    <3>3. lines' = [lines EXCEPT ![c][s] = << >>]
      BY <1>1, <2>2 DEF TypeOK
    <3> QED BY <2>2, <3>2, <3>3 DEF Answers
  <2> QED BY <1>2, <1>3, <2>1, <2>2 DEF AwaitResponse, owner
<1>8. PICK won \in BOOLEAN : won <=> (req[c].op = "put" /\ a = "TRUE")
  OBVIOUS
<1>9. /\ base' = base /\ known \subseteq known' /\ known' \subseteq known \cup {k}
      /\ k \in known' /\ k \notin known => (req[c].op = "put" /\ a # "ABORT") \/ a = "TRUE"
      /\ wins' = IF won THEN [wins EXCEPT ![k] = @ + 1] ELSE wins
  BY <1>2, <1>7, <1>8 DEF Learn
<1>10. TrueAnswer(c, a) \/ a = "ABORT"
  BY <1>1, <1>7 DEF ClientOK, AnswerOK
<1>11. \A j \in known' : j \in store[hash(j)]
  <2>1. k \in known' /\ k \notin known => k \in store[hash(k)]
    BY <1>2, <1>9, <1>10 DEF TrueAnswer
  <2> QED BY <1>9, <2>1 DEF ServiceInv
<1>12. Changed(lines', lines, c, s, << >>)
  BY <1>1, <1>7 DEF TypeOK, Changed
<1>13. TypeOK'
  <2>1. wins' \in [Keys -> Nat] /\ known' \subseteq Keys
    BY <1>1, <1>9 DEF TypeOK
  <2>2. lines' \in [Clients -> [Servers -> {<< >>} \cup {<<b>> : b \in Answers \cup {"BEGIN"}}]]
    BY <1>1, <1>7 DEF TypeOK
  <2> QED BY <1>1, <1>4, <1>5, <1>9, <2>1, <2>2 DEF TypeOK
<1>14. World
  BY <1>4, <1>5, <1>9 DEF World
<1>15. ASSUME NEW d \in Clients, d # c PROVE Same(d)
  BY <1>4, <1>5, <1>9, <1>12, <1>15, StillLinked DEF Same, Changed
<1>16. ClientOK(c)'
  <2>1. AnswerOK(c)'
    BY <1>5, <1>9, <1>14, AnswerKept
  <2>2. PlaceOK(c)'
    BY <1>1, <1>4, <1>5 DEF ClientOK, PlaceOK, Told, Siblings
  <2>3. ASSUME NEW r \in Servers PROVE LinkOK(c, r)'
    BY <1>1, <1>4, <1>5 DEF ClientOK, LinkOK
  <2>4. BeginOK(c)'
    BY <1>1, <1>4 DEF ClientOK, BeginOK, Told
  <2>5. ASSUME NEW r \in Servers PROVE TalkOK(c, r)'
    <3>1. TalkOK(c, r) /\ Told(c) /\ Told(c)' /\ ~Busy(c, r)'
      BY <1>1, <1>5 DEF ClientOK, Told, Busy
    <3>2. CASE r = s
      BY <1>4, <1>7, <1>12, <3>1, <3>2 DEF TalkOK, Changed
    <3>3. CASE r # s
      <4>1. ~Busy(c, r)
        BY <1>2, <1>3, <3>3 DEF Busy
      <4> QED BY <1>4, <1>12, <3>1, <3>3, <4>1 DEF TalkOK, Changed
    <3> QED BY <3>2, <3>3
  <2> QED BY <2>1, <2>2, <2>3, <2>4, <2>5 DEF ClientOK
<1>17. \A d \in Clients : ClientOK(d)'
  BY <1>1, <1>14, <1>15, <1>16, SameOK DEF ServiceInv
<1>18. ASSUME NEW d \in Clients, NEW j \in Keys, Winning(d, j)' PROVE d # c /\ Winning(d, j)
  <2>1. d # c
    BY <1>5, <1>18 DEF Winning, Coming
  <2> QED BY <1>1, <1>14, <1>15, <1>18, <2>1, SameComing DEF Winning, Same
<1>19. ASSUME NEW j \in Keys PROVE WinsOK(j)'
  <2>1. WinsOK(j) /\ store' = store
    BY <1>4 DEF ServiceInv
  <2>2. CASE won /\ j = k
    <3>1. Winning(c, j)
      BY <1>2, <1>7, <1>8, <2>2 DEF Winning
    <3>2. wins[j] = 0 /\ j \in store[hash(j)] /\ \A d \in Clients : Winning(d, j) => d = c
      BY <2>1, <3>1 DEF WinsOK
    <3>3. wins'[j] = 1
      BY <1>1, <1>9, <2>2, <3>2 DEF TypeOK
    <3>4. \A d \in Clients : ~Winning(d, j)'
      BY <1>18, <3>2
    <3> QED BY <2>1, <3>2, <3>3, <3>4 DEF WinsOK
  <2>3. CASE ~(won /\ j = k)
    <3>1. wins'[j] = wins[j]
      BY <1>1, <1>9, <2>3 DEF TypeOK
    <3> QED BY <1>18, <2>1, <3>1 DEF WinsOK
  <2> QED BY <2>2, <2>3
<1> QED BY <1>4, <1>11, <1>13, <1>17, <1>19 DEF ServiceInv

-----------------------------------------------------------------------------
LEMMA InitInv ==
    ASSUME Init
    PROVE  ServiceInv
<1>1. TypeOK
  <2>1. \A c \in Clients : req[c] \in Requests
    <3>1. PICK k \in Keys : TRUE
      BY ServiceAssumption
    <3>2. [op |-> "get", key |-> k] \in Requests
      BY DEF Requests
    <3> QED BY <3>2 DEF Init
  <2>2. req \in [Clients -> Requests]
    BY <2>1 DEF Init
  <2> QED BY <2>2, ServiceAssumption DEF Init, TypeOK, Everywhere, Answers
<1>2. ASSUME NEW c \in Clients
      PROVE  /\ pc[c] = "connect" /\ connected[c] = 0 /\ base[c] = {}
             /\ \A s \in Servers : /\ link[c][s] = "none" /\ handler[c][s] = "none"
                                   /\ lines[c][s] = << >> /\ ~inbox[c][s]
  BY DEF Init, Everywhere
<1>3. ASSUME NEW c \in Clients, NEW a PROVE ~Coming(c, a)
  BY <1>2 DEF Coming
<1>4. ASSUME NEW c \in Clients PROVE ClientOK(c)
  <2>1. PlaceOK(c) /\ AnswerOK(c)
    BY <1>2, <1>3, SomeServers DEF PlaceOK, AnswerOK, Told
  <2>2. BeginOK(c)
    BY <1>2, SomeServers DEF BeginOK, Told
  <2>3. ASSUME NEW s \in Servers PROVE LinkOK(c, s) /\ TalkOK(c, s)
    <3>1. ~Busy(c, s) /\ ~Told(c) /\ s >= 0
      BY <1>2, SomeServers DEF Busy, Told
    <3>2. LinkOK(c, s)
      BY <1>2, <3>1 DEF LinkOK
    <3> QED BY <1>2, <3>1, <3>2 DEF TalkOK
  <2> QED BY <2>1, <2>2, <2>3 DEF ClientOK
<1>5. \A k \in Keys : WinsOK(k)
  BY <1>3 DEF WinsOK, Winning, Init
<1> QED BY <1>1, <1>4, <1>5 DEF ServiceInv, Init

LEMMA NextInv ==
    ASSUME ServiceInv, [Next]_vars
    PROVE  ServiceInv'
<1>1. CASE UNCHANGED vars
  <2>1. TypeOK'
    BY <1>1 DEF vars, ServiceInv, TypeOK
  <2>2. World
    BY <1>1 DEF vars, World
  <2>3. \A d \in Clients : Same(d)
    BY <1>1, StillLinked DEF vars, Same
  <2> QED BY <1>1, <2>1, <2>2, <2>3, StepInv DEF vars
<1>2. ASSUME NEW c \in Clients, ClientStep(c) PROVE ServiceInv'
  BY <1>2, ConnectInv, AwaitMasterInv, CrossLocalInv, SendInv, AwaitResponseInv, QuitInv DEF ClientStep
<1>3. ASSUME NEW c \in Clients, NEW s \in Servers, HandlerStep(c, s) PROVE ServiceInv'
  BY <1>3, AcceptInv, SendBeginInv, ReadInv, ApplyInv, RespondInv DEF HandlerStep
<1>4. ASSUME NEW p \in Procs, Stop(p) PROVE ServiceInv'
  BY <1>4, StopInv
<1> QED BY <1>1, <1>2, <1>3, <1>4 DEF Next

(* The inductive invariant: connections are open exactly while both sides  *)
(* live, a conversation has at most one message under way, BEGIN comes     *)
(* after every connection, and every answer on its way is true.            *)
THEOREM ServiceInvariant == Spec => []ServiceInv
BY InitInv, NextInv, PTL DEF Spec

(* Nobody works before every client is connected to the master and every   *)
(* thread of its own process has begun (barriers of Server.cpp and         *)
(* Client.cpp), whichever of them die on the way.                          *)
THEOREM StartsTogether == Spec => []StartTogether
<1>1. ServiceInv => StartTogether
  <2> SUFFICES ASSUME ServiceInv, NEW c \in Clients, Working(c)
               PROVE  /\ \A d \in Clients : connected[d] > 0
                      /\ \A d \in Siblings(c) : pc[d] \notin {"connect", "await"}
    BY DEF StartTogether
  <2>1. PlaceOK(c) /\ BeginOK(c) /\ Told(c)
    BY DEF ServiceInv, ClientOK, Working, Told
  <2>2. ASSUME NEW d \in Clients PROVE connected[d] > 0
    <3>1. LinkOK(d, Master) /\ handler[d][Master] # "none" /\ connected[d] \in 0 .. Nodes
      BY <2>1, SomeServers DEF ServiceInv, ClientOK, BeginOK, TypeOK
    <3> QED BY <3>1, SomeServers DEF LinkOK, Master
  <2> QED BY <2>1, <2>2 DEF PlaceOK, Working
<1> QED BY <1>1, ServiceInvariant, PTL

(* No answer contradicts what anybody knew when the request was sent       *)
(* (Remote::get, Remote::insert, handleMessage), across servers and deaths. *)
THEOREM AnswersAreNotStale == Spec => []NoStaleAnswer
<1>1. ServiceInv => NoStaleAnswer
  <2> SUFFICES ASSUME ServiceInv, NEW c \in Clients, NEW s \in Servers, pc[c] = "wait",
                      req[c].key \in base[c], NEW i \in 1 .. Len(lines[c][s])
               PROVE  lines[c][s][i] # (IF req[c].op = "get" THEN "FALSE" ELSE "TRUE")
    BY DEF NoStaleAnswer
  <2>1. TypeOK /\ ClientOK(c) /\ TalkOK(c, s) /\ Told(c)
    BY DEF ServiceInv, ClientOK, Told
  <2>2. lines[c][s] \in Mail
    BY <2>1, TypeFacts DEF Table
  <2>3. lines[c][s] # << >>
    BY SMT
  <2>4. PICK a \in Answers \cup {"BEGIN"} : lines[c][s] = <<a>>
    BY <2>2, <2>3, MailFacts
  <2>5. lines[c][s][i] = a
    BY <2>4
  <2>6. Busy(c, s)
    BY <2>1, <2>3 DEF TalkOK
  <2>7. a \in Answers
    BY <2>1, <2>4, <2>6 DEF TalkOK
  <2>8. Coming(c, a)
    <3>1. hash(req[c].key) = s
      BY <2>6 DEF Busy
    <3> QED BY <2>4, <3>1, Zenon DEF Coming
  <2>9. TrueAnswer(c, a)
    BY <2>1, <2>7, <2>8 DEF ClientOK, AnswerOK
  <2> QED BY <2>5, <2>9 DEF TrueAnswer
<1> QED BY <1>1, ServiceInvariant, PTL

(* Of all the puts of a key, from all clients, at most one is ever         *)
(* answered TRUE (handleMessage and add).                                  *)
THEOREM KeysAreInsertedOnce == Spec => []InsertedOnce
<1>1. ServiceInv => InsertedOnce
  BY DEF ServiceInv, WinsOK, InsertedOnce
<1> QED BY <1>1, ServiceInvariant, PTL
=============================================================================
