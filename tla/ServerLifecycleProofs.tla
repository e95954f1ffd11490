----------------------- MODULE ServerLifecycleProofs -----------------------
(***************************************************************************)
(* Proofs about ServerLifecycle, for every number of servers and clients   *)
(* and all their calls: every server counts the servers that may still     *)
(* call it (ConnectionsCounted), keeps its routes as long as its clients   *)
(* do not leave (ReachableWhileConnected), and leaves its loop only when   *)
(* no other server has anything to do with it (StopsLast).                 *)
(*                                                                         *)
(* For the first two, what the servers say to each other in their calls    *)
(* matters as little as this: it is no SERVER_DISCONNECT.  So the handlers *)
(* are looked at as changes of the channels that leave every               *)
(* SERVER_DISCONNECT where it is.  For the third, they are looked at as    *)
(* changes of how many calls each server owes to each other.               *)
(***************************************************************************)
EXTENDS ServerLifecycle, MessageLemmas

\* The servers that each has in its list, which it has yet to take leave of
Listed == [r \in Servers |-> {s \in Servers : Contains(remote[r], s)}]

Good(N, L, F, P) == Announced(Servers, ServerDisconnect, N, L, F, P)

IInv ==
    /\ remote \in [Servers -> Seq(Servers)]
    /\ Good(net, Listed, deferred, peers)

\* The lists in which the servers have each other are finite.
LEMMA ServersFinite == IsFiniteSet(Servers)
<1>1. CASE Servers = {}
  BY <1>1, FS_EmptySet
<1>2. CASE Servers # {}
  <2>1. PICK s \in Servers : TRUE
    BY <1>2
  <2> DEFINE q == Connected[s]
  <2>2. q \in Seq(Servers) /\ ToSet(q) = Servers \ {s}
    BY LifecycleAssumption
  <2>3. Len(q) \in Nat /\ DOMAIN q = 1 .. Len(q)
    BY <2>2
  <2>4. {q[i] : i \in 1 .. Len(q)} = Servers \ {s}
    BY <2>2, <2>3 DEF ToSet
  <2> DEFINE T == Servers \ {s}
             f == [i \in 1 .. Len(q) |-> q[i]]
  <2>5. f \in Surjection(1 .. Len(q), T)
    <3>1. f \in [1 .. Len(q) -> T]
      BY <2>4
    <3>2. \A x \in T : \E i \in 1 .. Len(q) : f[i] = x
      BY <2>4
    <3> QED BY <3>1, <3>2, Zenon DEF Surjection
  <2>6. IsFiniteSet(1 .. Len(q))
    BY <2>3, FS_Interval
  <2> HIDE DEF f, T, q
  <2>7. IsFiniteSet(T)
    BY <2>5, <2>6, FS_Surjection
  <2>8. IsFiniteSet(T \cup {s})
    BY <2>7, FS_AddElement
  <2>9. T \cup {s} = Servers
    BY <2>1 DEF T
  <2> QED BY <2>8, <2>9
<1> QED BY <1>1, <1>2

-----------------------------------------------------------------------------
\* What the handlers send

\* No other message is taken for a disconnection.
LEMMA OtherMessages ==
  /\ ServerReady # ServerDisconnect
  /\ \A m : m.type \in {"REQ", "RES"} => m # ServerDisconnect /\ m # ServerReady
BY DEF ServerReady, ServerDisconnect

\* An answer is sent to the server that asked, or to a client.
LEMMA AnswerQuiet ==
  ASSUME NEW N, NetType(Servers, N), NEW s \in Servers, NEW f, NEW got, NEW callers,
         Answer(s, f, got, callers, N)
  PROVE  Quiet(Servers, ServerDisconnect, N, net')
<1>1. Response(f.call, got) # ServerDisconnect
  BY OtherMessages DEF Response
<1>2. CASE f.from \in Servers
  <2>1. net' = [N EXCEPT ![s][f.from] = Append(@, Response(f.call, got))]
    BY <1>2 DEF Answer
  <2> QED BY <1>1, <2>1, SendQuiet
<1>3. CASE f.from \notin Servers
  BY <1>3 DEF Answer, Quiet
<1> QED BY <1>2, <1>3

LEMMA ExitQuiet ==
  ASSUME NEW N, NetType(Servers, N), Exit(N)
  PROVE  Quiet(Servers, ServerDisconnect, N, net')
BY DEF Exit, Quiet

\* A call goes on with a request to the next server, or it is answered.
LEMMA GoOnQuiet ==
  ASSUME NEW N, NetType(Servers, N), NEW s \in Servers, NEW f, NEW callers,
         GoOn(s, f, callers, N)
  PROVE  Quiet(Servers, ServerDisconnect, N, net')
<1> DEFINE to == Routes(s, Head(f.calls))
<1>1. CASE f.calls = <<>>
  <2>1. Answer(s, f, TRUE, callers, N)
    BY <1>1 DEF GoOn
  <2> QED BY <2>1, AnswerQuiet
<1>2. CASE f.calls # <<>> /\ to # {}
  <2>1. Request(Head(f.calls)) # ServerDisconnect
    BY OtherMessages DEF Request
  <2>2. net' = [N EXCEPT ![s][FirstOf(s, to)] = Append(@, Request(Head(f.calls)))]
    BY <1>2, Zenon DEF GoOn
  <2> HIDE DEF to
  <2> QED BY <2>1, <2>2, SendQuiet
<1>3. CASE f.calls # <<>> /\ to = {}
  <2>1. Exit(N) \/ Answer(s, f, FALSE, callers, N)
    BY <1>3 DEF GoOn
  <2> QED BY <2>1, ExitQuiet, AnswerQuiet
<1> QED BY <1>1, <1>2, <1>3

LEMMA HandleQuiet ==
  ASSUME NEW N, NetType(Servers, N), NEW s \in Servers, NEW call, NEW from, NEW callers,
         Handle(s, call, from, callers, N)
  PROVE  Quiet(Servers, ServerDisconnect, N, net')
<1>1. \/ \E f : GoOn(s, f, callers, N)
      \/ \E f : Answer(s, f, FALSE, callers, N)
      \/ Exit(N)
  BY Zenon DEF Handle
<1> QED BY <1>1, GoOnQuiet, AnswerQuiet, ExitQuiet

LEMMA ResponseQuiet ==
  ASSUME NEW N, NetType(Servers, N), NEW s \in Servers, NEW m, ReceiveResponse(s, m, N)
  PROVE  Quiet(Servers, ServerDisconnect, N, net')
<1>1. \/ \E f : GoOn(s, f, Tail(stack[s]), N)
      \/ \E f : Answer(s, f, FALSE, Tail(stack[s]), N)
      \/ Exit(N)
  BY Zenon DEF ReceiveResponse
<1> QED BY <1>1, GoOnQuiet, AnswerQuiet, ExitQuiet

-----------------------------------------------------------------------------
\* The lists of servers

LEMMA GoodNet ==
  ASSUME NEW N, NEW L, NEW F, NEW P, Good(N, L, F, P)
  PROVE  NetType(Servers, N)
BY DEF Good, Announced, MailTypes

LEMMA SameLists ==
  ASSUME remote \in [Servers -> Seq(Servers)], remote' = remote,
         Good(net', Listed, deferred', peers')
  PROVE  IInv'
<1>1. Listed' = Listed
  BY DEF Listed
<1> QED BY <1>1 DEF IInv

\* A server that takes leave of the others tells exactly those in its list.
LEMMA TakesLeave ==
  ASSUME NEW s \in Servers, NEW N, remote \in [Servers -> Seq(Servers)],
         Good(N, Listed, deferred', peers'), Disconnect(s, N)
  PROVE  IInv'
<1> DEFINE d == ServerDisconnect
           M == [N EXCEPT ![s] = [r \in Servers |->
                    IF Contains(remote[s], r) THEN Append(@[r], d) ELSE @[r]]]
<1>1. NetType(Servers, N)
  BY GoodNet
<1>2. NetType(Servers, M)
  <2>1. PICK S : N \in [Servers -> [Servers -> Seq(S)]]
    BY <1>1 DEF NetType
  <2> DEFINE T == S \cup {d}
  <2>2. d \in T /\ \A q \in Seq(S) : q \in Seq(T)
    OBVIOUS
  <2> HIDE DEF T, d
  <2>3. N \in [Servers -> [Servers -> Seq(T)]]
    BY <2>1, <2>2
  <2>4. M \in [Servers -> [Servers -> Seq(T)]]
    BY <2>2, <2>3
  <2> QED BY <2>4 DEF NetType
<1>3. /\ \A y \in Servers : M[s][y] = IF Contains(remote[s], y) THEN Append(N[s][y], d)
                                                                ELSE N[s][y]
      /\ \A x \in Servers \ {s} : M[x] = N[x]
  BY <1>1 DEF NetType
<1>4. net' = M /\ remote' = [remote EXCEPT ![s] = <<>>]
  BY DEF Disconnect
<1> HIDE DEF M, d
<1>5. \A y \in Servers : y \in Listed[s] <=> Contains(remote[s], y)
  BY DEF Listed
<1>6. Announced(Servers, d, N, Listed, deferred', peers')
  BY DEF Good, d
<1>7. M[s][s] = N[s][s]
  <2>1. s \notin Listed[s]
    BY <1>6 DEF Announced, AllTellOnce
  <2> QED BY <1>3, <1>5, <2>1
<1>8. Announced(Servers, d, M, [Listed EXCEPT ![s] = {}], deferred', peers')
  <2>1. \A y \in Servers \ {s} : M[s][y] = IF y \in Listed[s] THEN Append(N[s][y], d)
                                                               ELSE N[s][y]
    BY <1>3, <1>5
  <2> HIDE DEF Listed
  <2> QED BY <1>2, <1>3, <1>6, <1>7, <2>1, TellAll
<1>9. Listed' = [Listed EXCEPT ![s] = {}]
  <2>1. \A y : ~Contains(<<>>, y)
    BY DEF Contains
  <2>2. remote'[s] = <<>> /\ \A x \in Servers \ {s} : remote'[x] = remote[x]
    BY <1>4
  <2>3. \A x \in Servers : {y \in Servers : Contains(remote'[x], y)}
           = IF x = s THEN {} ELSE {y \in Servers : Contains(remote[x], y)}
    BY <2>1, <2>2
  <2> QED BY <2>3 DEF Listed
<1>10. remote' \in [Servers -> Seq(Servers)]
  BY <1>4
<1> QED BY <1>4, <1>8, <1>9, <1>10 DEF IInv, Good, d

-----------------------------------------------------------------------------
\* The invariant

LEMMA InitInvariant == Init => IInv
<1> SUFFICES ASSUME Init PROVE IInv
  OBVIOUS
<1>1. MailTypes(Servers, net, Listed, deferred, peers) /\ remote \in [Servers -> Seq(Servers)]
  <2>1. net \in [Servers -> [Servers -> Seq({ServerReady})]]
    <3>1. \A m : <<>> \in Seq({m}) /\ <<m>> \in Seq({m})
      OBVIOUS
    <3>2. net = [s \in Servers |-> [r \in Servers |->
                    IF r = s THEN <<>> ELSE <<ServerReady>>]]
      BY DEF Init
    <3> QED BY <3>1, <3>2
  <2>2. \A S : deferred = [s \in Servers |-> <<>>] => deferred \in [Servers -> Seq(S)]
    OBVIOUS
  <2>3. deferred \in [Servers -> Seq([msg : {}, from : Servers])]
    BY <2>2 DEF Init
  <2>4. remote \in [Servers -> Seq(Servers)]
    BY LifecycleAssumption DEF Init
  <2>5. \A s \in Servers : Cardinality(Servers) - 1 \in Nat
    <3> TAKE s \in Servers
    <3>1. Cardinality(Servers) \in Nat
      BY ServersFinite, FS_CardinalityType
    <3>2. Cardinality(Servers) # 0
      BY ServersFinite, FS_EmptySet
    <3> QED BY <3>1, <3>2
  <2>6. peers \in [Servers -> Nat]
    BY <2>5 DEF Init
  <2>7. Listed \in [Servers -> SUBSET Servers]
    BY DEF Listed
  <2> QED BY <2>1, <2>3, <2>4, <2>6, <2>7 DEF MailTypes, NetType, DeferredType
<1>2. \A r, s \in Servers : /\ ~Contains(net[r][s], ServerDisconnect)
                            /\ Once(net[r][s], ServerDisconnect)
                            /\ ~Contains(deferred[s], Aside(ServerDisconnect, r))
                            /\ Once(deferred[s], Aside(ServerDisconnect, r))
  <2> SUFFICES ASSUME NEW r \in Servers, NEW s \in Servers
               PROVE  /\ ~Contains(net[r][s], ServerDisconnect)
                      /\ Once(net[r][s], ServerDisconnect)
                      /\ ~Contains(deferred[s], Aside(ServerDisconnect, r))
                      /\ Once(deferred[s], Aside(ServerDisconnect, r))
    OBVIOUS
  <2>1. \A x : ~Contains(<<>>, x) /\ Once(<<>>, x)
    BY DEF Contains, Once
  <2>2. ~Contains(<<ServerReady>>, ServerDisconnect) /\ Once(<<ServerReady>>, ServerDisconnect)
    BY OtherMessages DEF Contains, Once
  <2>3. net[r][s] = <<>> \/ net[r][s] = <<ServerReady>>
    BY DEF Init
  <2>4. deferred[s] = <<>>
    BY DEF Init
  <2> QED BY <2>1, <2>2, <2>3, <2>4
<1>3. \A s \in Servers : \A r \in Servers : Contains(remote[s], r) <=> r # s
  <2> SUFFICES ASSUME NEW s \in Servers
               PROVE  \A r \in Servers : Contains(remote[s], r) <=> r # s
    OBVIOUS
  <2>1. ToSet(remote[s]) = Servers \ {s} /\ remote[s] \in Seq(Servers)
    BY LifecycleAssumption DEF Init
  <2>2. DOMAIN remote[s] = 1 .. Len(remote[s])
    BY <2>1
  <2> QED BY <2>1, <2>2 DEF ToSet, Contains
<1>4. AllTellOnce(Servers, ServerDisconnect, net, Listed, deferred)
  BY <1>2, <1>3 DEF AllTellOnce, TellsOnce, Told, Listed
<1>5. AllCount(Servers, ServerDisconnect, net, Listed, deferred, peers)
  <2> SUFFICES ASSUME NEW s \in Servers
               PROVE  peers[s] = Cardinality(Expected(Servers, ServerDisconnect, net, Listed, deferred, s))
    BY DEF AllCount
  <2>1. Expected(Servers, ServerDisconnect, net, Listed, deferred, s) = Servers \ {s}
    BY <1>2, <1>3 DEF Expected, Told, Listed
  <2>2. Cardinality(Servers \ {s}) = Cardinality(Servers) - 1
    BY ServersFinite, FS_RemoveElement
  <2> QED BY <2>1, <2>2 DEF Init
<1> QED BY <1>1, <1>4, <1>5 DEF IInv, Good, Announced

\* What server s does with a message m, which was taken from channels N or put
\* aside: the counter is only right again when it has noticed a disconnection.
LEMMA ProcessInvariant ==
  ASSUME NEW s \in Servers, NEW m, NEW from, NEW callers, NEW N, NEW G,
         remote \in [Servers -> Seq(Servers)],
         m # ServerDisconnect => Good(N, Listed, G, peers),
         m = ServerDisconnect => Good(N, Listed, G, [peers EXCEPT ![s] = @ - 1]),
         ProcessOf(s, m, from, callers, N),
         deferred' = G
  PROVE  IInv'
<1>1. CASE m = ServerReady
  <2>1. net' = N /\ remote' = remote /\ peers' = peers
    BY <1>1, OtherMessages DEF ProcessOf, ServerReady
  <2> QED BY <1>1, <2>1, OtherMessages, SameLists
<1>2. CASE m = ServerDisconnect
  <2>1. PeerLeaves(s, N)
    BY <1>2, OtherMessages DEF ProcessOf, ServerDisconnect
  <2>2. peers' = [peers EXCEPT ![s] = @ - 1]
    BY <2>1 DEF PeerLeaves
  <2>3. CASE Disconnect(s, N)
    BY <1>2, <2>2, <2>3, TakesLeave
  <2>4. CASE net' = N /\ remote' = remote
    BY <1>2, <2>2, <2>4, SameLists
  <2> QED BY <2>1, <2>3, <2>4 DEF PeerLeaves
<1>3. CASE m # ServerReady /\ m # ServerDisconnect
  <2>1. Handle(s, m.call, from, callers, N) /\ remote' = remote /\ peers' = peers
    BY <1>3 DEF ProcessOf, links
  <2>2. Good(N, Listed, G, peers)
    BY <1>3
  <2>3. NetType(Servers, N)
    BY <2>2, GoodNet
  <2>4. Quiet(Servers, ServerDisconnect, N, net')
    BY <2>1, <2>3, HandleQuiet
  <2>5. Good(net', Listed, G, peers)
    BY <2>2, <2>4, QuietAnnounced DEF Good
  <2> QED BY <2>1, <2>5, SameLists
<1> QED BY <1>1, <1>2, <1>3

LEMMA ListenServerInvariant ==
  ASSUME IInv, NEW s \in Servers, NEW r \in Servers, ListenServer(s, r)
  PROVE  IInv'
<1> DEFINE m == Head(net[r][s])
           N == [net EXCEPT ![r][s] = Tail(@)]
<1>1. /\ net[r][s] # <<>>
      /\ ProcessOf(s, m, r, <<>>, N)
      /\ deferred' = deferred
  BY DEF ListenServer
<1>2. Good(net, Listed, deferred, peers) /\ NetType(Servers, net)
  BY GoodNet DEF IInv
<1>3. m # ServerDisconnect => Good(N, Listed, deferred, peers)
  BY <1>1, <1>2, TakeQuiet, QuietAnnounced DEF Good
<1>4. m = ServerDisconnect => Good(N, Listed, deferred, [peers EXCEPT ![s] = @ - 1])
  BY <1>1, <1>2, TakeLastWord, ServersFinite DEF Good
<1> HIDE DEF m, N
<1> QED BY <1>1, <1>3, <1>4, ProcessInvariant DEF IInv

LEMMA ReprocessInvariant ==
  ASSUME IInv, NEW s \in Servers, Reprocess(s)
  PROVE  IInv'
<1> DEFINE m == Head(deferred[s]).msg
           G == [deferred EXCEPT ![s] = Tail(@)]
<1>1. /\ deferred[s] # <<>>
      /\ ProcessOf(s, m, Head(deferred[s]).from, <<>>, net)
      /\ deferred' = G
  BY DEF Reprocess
<1>2. Good(net, Listed, deferred, peers)
  BY DEF IInv
<1>3. m # ServerDisconnect => Good(net, Listed, G, peers)
  BY <1>1, <1>2, ResumeQuiet DEF Good
<1>4. m = ServerDisconnect => Good(net, Listed, G, [peers EXCEPT ![s] = @ - 1])
  BY <1>1, <1>2, ResumeLastWord, ServersFinite DEF Good
<1> HIDE DEF m, G
<1> QED BY <1>1, <1>3, <1>4, ProcessInvariant DEF IInv

LEMMA ListenClientInvariant ==
  ASSUME IInv, NEW s \in Servers, NEW k \in Clients, ListenClient(s, k)
  PROVE  IInv'
<1>1. Good(net, Listed, deferred, peers) /\ NetType(Servers, net)
  BY GoodNet DEF IInv
<1>2. deferred' = deferred /\ peers' = peers
  BY DEF ListenClient, ClientLeaves, links
<1>3. \/ net' = net /\ remote' = remote
      \/ Disconnect(s, net)
      \/ Handle(s, Head(inbox[k]).call, k, <<>>, net) /\ remote' = remote
  BY DEF ListenClient, ClientLeaves, links
<1>4. CASE net' = net /\ remote' = remote
  BY <1>1, <1>2, <1>4, SameLists DEF IInv
<1>5. CASE Disconnect(s, net)
  BY <1>1, <1>2, <1>5, TakesLeave DEF IInv
<1>6. CASE Handle(s, Head(inbox[k]).call, k, <<>>, net) /\ remote' = remote
  <2>1. Quiet(Servers, ServerDisconnect, net, net')
    BY <1>1, <1>6, HandleQuiet
  <2>2. Good(net', Listed, deferred, peers)
    BY <1>1, <2>1, QuietAnnounced DEF Good
  <2> QED BY <1>2, <1>6, <2>2, SameLists DEF IInv
<1> QED BY <1>3, <1>4, <1>5, <1>6

LEMMA ReceiveInvariant ==
  ASSUME IInv, NEW s \in Servers, NEW r \in Servers, Receive(s, r)
  PROVE  IInv'
<1> DEFINE m == Head(net[r][s])
           N == [net EXCEPT ![r][s] = Tail(@)]
<1>1. Good(net, Listed, deferred, peers) /\ NetType(Servers, net)
  BY GoodNet DEF IInv
<1>2. net[r][s] # <<>> /\ remote' = remote /\ peers' = peers
  BY DEF Receive, links
<1>3. \/ m.type = "REQ" /\ Handle(s, m.call, r, stack[s], N) /\ deferred' = deferred
      \/ m.type = "RES" /\ ReceiveResponse(s, m, N) /\ deferred' = deferred
      \/ /\ deferred' = [deferred EXCEPT ![s] = Append(@, [msg |-> m, from |-> r])]
         /\ net' = N
  BY DEF Receive, Awaited
<1>4. CASE m.type \in {"REQ", "RES"} /\ deferred' = deferred
           /\ (Handle(s, m.call, r, stack[s], N) \/ ReceiveResponse(s, m, N))
  <2>1. m # ServerDisconnect
    BY <1>4, OtherMessages
  <2>2. Quiet(Servers, ServerDisconnect, net, N)
    BY <1>1, <1>2, <2>1, TakeQuiet
  <2> HIDE DEF N
  <2>3. NetType(Servers, N)
    BY <2>2 DEF Quiet
  <2>4. Quiet(Servers, ServerDisconnect, N, net')
    BY <1>4, <2>3, HandleQuiet, ResponseQuiet
  <2>5. Quiet(Servers, ServerDisconnect, net, net')
    BY <2>2, <2>4, QuietTwice
  <2>6. Good(net', Listed, deferred, peers)
    BY <1>1, <2>5, QuietAnnounced DEF Good
  <2> QED BY <1>2, <1>4, <2>6, SameLists DEF IInv
<1>5. CASE /\ deferred' = [deferred EXCEPT ![s] = Append(@, [msg |-> m, from |-> r])]
           /\ net' = N
  <2>1. Good(net', Listed, deferred', peers)
    BY <1>1, <1>2, <1>5, PutAside DEF Good
  <2> QED BY <1>2, <2>1, SameLists DEF IInv
<1> QED BY <1>3, <1>4, <1>5

LEMMA StepInvariant == IInv /\ [Next]_vars => IInv'
<1> SUFFICES ASSUME IInv, [Next]_vars PROVE IInv'
  OBVIOUS
<1>1. ASSUME NEW s \in Servers, ServerStep(s)
      PROVE  IInv'
  <2>1. CASE EndListen(s)
    BY <2>1, SameLists DEF EndListen, IInv, links
  <2> QED BY <1>1, <2>1, ListenServerInvariant, ReceiveInvariant, ListenClientInvariant,
             ReprocessInvariant DEF ServerStep
<1>2. ASSUME NEW k \in Clients, ClientStep(k)
      PROVE  IInv'
  BY <1>2, SameLists DEF ClientStep, Connect, Call, Return, Leave, Send, IInv, links
<1>3. CASE UNCHANGED vars
  BY <1>3, SameLists DEF vars, links, IInv
<1> QED BY <1>1, <1>2, <1>3 DEF Next

LEMMA Invariant == Spec => []IInv
<1> QED BY InitInvariant, StepInvariant, PTL DEF Spec

\* In every state of every run a server counts the servers that have it in
\* their lists, or whose SERVER_DISCONNECT it has not processed yet
\* (server_t::peer_connections, kitfox-server.cc).
THEOREM ServersCounted == Spec => []ConnectionsCounted
<1>1. IInv => ConnectionsCounted
  <2> SUFFICES ASSUME IInv, NEW s \in Servers
               PROVE  peers[s] = Cardinality({r \in Servers \ {s} : MayCall(r, s)})
    BY DEF ConnectionsCounted
  <2>1. Expected(Servers, ServerDisconnect, net, Listed, deferred, s)
           = {r \in Servers \ {s} : MayCall(r, s)}
    BY DEF Expected, Told, MayCall, Aside, Listed
  <2> QED BY <2>1 DEF IInv, Good, Announced, AllCount
<1> QED BY <1>1, Invariant, PTL

-----------------------------------------------------------------------------
\* The routes

\* A client that says it leaves has nothing else to do.
Farewell ==
    /\ \E S : inbox \in [Clients -> Seq(S)]
    /\ DOMAIN status = Clients
    /\ \A k \in Clients : Contains(inbox[k], ClientDisconnect) => status[k] = "left"

LEMMA FarewellInit == Init => Farewell
<1> SUFFICES ASSUME Init PROVE Farewell
  OBVIOUS
<1>1. inbox \in [Clients -> Seq({})]
  BY DEF Init
<1>2. DOMAIN status = Clients
  BY DEF Init
<1>3. \A k \in Clients : ~Contains(inbox[k], ClientDisconnect)
  BY DEF Init, Contains
<1> QED BY <1>1, <1>2, <1>3 DEF Farewell

LEMMA FarewellSend ==
  ASSUME Farewell, NEW k \in Clients, NEW m, NEW next, Send(k, m, next),
         status[k] # "left", m = ClientDisconnect => next = "left"
  PROVE  Farewell'
<1>1. PICK S : inbox \in [Clients -> Seq(S)]
  BY DEF Farewell
<1> DEFINE T == S \cup {m}
<1>2. m \in T /\ \A q \in Seq(S) : q \in Seq(T)
  OBVIOUS
<1> HIDE DEF T
<1>3. inbox' = [inbox EXCEPT ![k] = Append(@, m)] /\ status' = [status EXCEPT ![k] = next]
  BY DEF Send
<1>4. inbox' \in [Clients -> Seq(T)]
  BY <1>1, <1>2, <1>3
<1>5. DOMAIN status' = Clients
  BY <1>3 DEF Farewell
<1>6. ASSUME NEW j \in Clients, Contains(inbox'[j], ClientDisconnect)
      PROVE  status'[j] = "left"
  <2>1. CASE j # k
    BY <1>1, <1>3, <1>6, <2>1 DEF Farewell
  <2>2. CASE j = k /\ m = ClientDisconnect
    BY <1>3, <2>2 DEF Farewell
  <2>3. CASE j = k /\ m # ClientDisconnect
    <3>1. IsSeq(inbox[k])
      BY <1>1 DEF IsSeq
    <3>2. Contains(Append(inbox[k], m), ClientDisconnect)
      BY <1>1, <1>3, <1>6, <2>3
    <3>3. Contains(inbox[k], ClientDisconnect)
      BY <2>3, <3>1, <3>2, AppendOther
    <3> QED BY <3>3 DEF Farewell
  <2> QED BY <2>1, <2>2, <2>3
<1> QED BY <1>4, <1>5, <1>6 DEF Farewell

LEMMA FarewellStep == Farewell /\ [Next]_vars => Farewell'
<1> SUFFICES ASSUME Farewell, [Next]_vars PROVE Farewell'
  OBVIOUS
<1>1. ASSUME inbox' = inbox, status' = status
      PROVE  Farewell'
  BY <1>1 DEF Farewell
<1>2. ASSUME NEW s \in Servers, ServerStep(s)
      PROVE  Farewell'
  <2>1. CASE \E k \in Clients : ListenClient(s, k)
    <3>1. PICK k \in Clients : ListenClient(s, k)
      BY <2>1
    <3>2. /\ inbox[k] # <<>>
          /\ inbox' = [inbox EXCEPT ![k] = Tail(@)]
          /\ status' = status
      BY <3>1 DEF ListenClient, client
    <3>3. PICK S : inbox \in [Clients -> Seq(S)]
      BY DEF Farewell
    <3>4. inbox' \in [Clients -> Seq(S)]
      <4>1. Tail(inbox[k]) \in Seq(S)
        BY <3>2, <3>3
      <4> QED BY <3>2, <3>3, <4>1
    <3>5. \A j \in Clients : Contains(inbox'[j], ClientDisconnect)
                               => Contains(inbox[j], ClientDisconnect)
      <4> SUFFICES ASSUME NEW j \in Clients, Contains(inbox'[j], ClientDisconnect)
                   PROVE  Contains(inbox[j], ClientDisconnect)
        OBVIOUS
      <4>1. CASE j # k
        BY <3>2, <3>3, <4>1
      <4>2. CASE j = k
        <5>1. IsSeq(inbox[k])
          BY <3>3 DEF IsSeq
        <5>2. Contains(Tail(inbox[k]), ClientDisconnect)
          BY <3>2, <3>3, <4>2
        <5>3. CASE Head(inbox[k]) # ClientDisconnect
          BY <3>2, <4>2, <5>1, <5>2, <5>3, TailOther
        <5>4. CASE Head(inbox[k]) = ClientDisconnect
          <6>1. 1 \in 1 .. Len(inbox[k]) /\ Head(inbox[k]) = inbox[k][1]
            BY <3>2, <3>3
          <6> QED BY <4>2, <5>4, <6>1 DEF Contains
        <5> QED BY <5>3, <5>4
      <4> QED BY <4>1, <4>2
    <3> QED BY <3>2, <3>4, <3>5 DEF Farewell
  <2>2. CASE ~\E k \in Clients : ListenClient(s, k)
    BY <1>1, <1>2, <2>2 DEF ServerStep, ListenServer, Receive, Reprocess, EndListen, client
  <2> QED BY <2>1, <2>2
<1>3. ASSUME NEW k \in Clients, ClientStep(k)
      PROVE  Farewell'
  <2>1. CASE Connect(k)
    <3>1. ClientConnect # ClientDisconnect
      BY DEF ClientConnect, ClientDisconnect
    <3> QED BY <2>1, <3>1, FarewellSend DEF Connect
  <2>2. CASE Call(k)
    <3>1. Request(Head(todo[k])) # ClientDisconnect
      BY DEF Request, ClientDisconnect
    <3> QED BY <2>2, <3>1, FarewellSend DEF Call
  <2>3. CASE Return(k)
    <3>1. /\ status[k] = "waiting"
          /\ inbox' = inbox
          /\ status' = [status EXCEPT ![k] = "connected"]
      BY <2>3 DEF Return
    <3> QED BY <3>1 DEF Farewell
  <2>4. CASE Leave(k)
    BY <2>4, FarewellSend DEF Leave
  <2> QED BY <1>3, <2>1, <2>2, <2>3, <2>4 DEF ClientStep
<1>4. CASE UNCHANGED vars
  BY <1>1, <1>4 DEF vars, client
<1> QED BY <1>2, <1>3, <1>4 DEF Next

\* No step takes the routes from a server whose clients are connected and have
\* not left, whichever servers take leave of it meanwhile.
THEOREM RoutesKept == Spec => ReachableWhileConnected
<1>1. ASSUME IInv, Farewell, [Next]_vars
      PROVE  [KeepsRoutes]_vars
  <2> SUFFICES ASSUME Next,
                      NEW s \in Servers, members[s] # {},
                      \A k \in Clients : Home[k] = s => status[k] # "left"
               PROVE  remote'[s] = remote[s]
    BY <1>1 DEF KeepsRoutes
  <2>1. DOMAIN remote = Servers
    BY <1>1 DEF IInv
  <2>2. \A r \in Servers : \A N : r # s /\ Disconnect(r, N) => remote'[s] = remote[s]
    BY <2>1 DEF Disconnect
  <2>3. ASSUME NEW r \in Servers, NEW m, NEW from, NEW callers, NEW N,
               ProcessOf(r, m, from, callers, N)
        PROVE  remote'[s] = remote[s]
    <3>1. CASE remote' = remote
      BY <3>1
    <3>2. CASE PeerLeaves(r, N)
      <4>1. remote' = remote \/ (Disconnect(r, N) /\ members[r] = {})
        BY <3>2 DEF PeerLeaves
      <4> QED BY <2>2, <4>1
    <3> QED BY <2>3, <3>1, <3>2 DEF ProcessOf, links
  <2>4. ASSUME NEW r \in Servers, NEW k \in Clients, ListenClient(r, k)
        PROVE  remote'[s] = remote[s]
    <3>1. CASE remote' = remote
      BY <3>1
    <3>2. CASE Head(inbox[k]) = ClientDisconnect /\ ClientLeaves(r, k)
      <4>1. Home[k] = r /\ inbox[k] # <<>>
        BY <2>4 DEF ListenClient
      <4>2. Contains(inbox[k], ClientDisconnect)
        <5>1. PICK S : inbox \in [Clients -> Seq(S)]
          BY <1>1 DEF Farewell
        <5>2. 1 \in 1 .. Len(inbox[k]) /\ Head(inbox[k]) = inbox[k][1]
          BY <4>1, <5>1
        <5> QED BY <3>2, <5>2 DEF Contains
      <4>3. r # s
        BY <1>1, <4>1, <4>2 DEF Farewell
      <4>4. remote' = remote \/ Disconnect(r, net)
        BY <3>2 DEF ClientLeaves
      <4> QED BY <2>2, <4>3, <4>4
    <3> QED BY <2>4, <3>1, <3>2 DEF ListenClient, links
  <2>5. ASSUME NEW r \in Servers, ServerStep(r)
        PROVE  remote'[s] = remote[s]
    <3>1. CASE \E x \in Servers : ListenServer(r, x)
      BY <2>3, <3>1 DEF ListenServer
    <3>2. CASE \E x \in Servers : Receive(r, x)
      BY <3>2 DEF Receive, links
    <3>3. CASE \E k \in Clients : ListenClient(r, k)
      BY <2>4, <3>3
    <3>4. CASE Reprocess(r)
      BY <2>3, <3>4 DEF Reprocess
    <3>5. CASE EndListen(r)
      BY <3>5 DEF EndListen, links
    <3> QED BY <2>5, <3>1, <3>2, <3>3, <3>4, <3>5 DEF ServerStep
  <2>6. ASSUME NEW k \in Clients, ClientStep(k)
        PROVE  remote' = remote
    BY <2>6 DEF ClientStep, Connect, Call, Return, Leave, Send, links
  <2> QED BY <2>5, <2>6 DEF Next
<1>2. Spec => []Farewell
  BY FarewellInit, FarewellStep, PTL DEF Spec
<1> QED BY <1>1, <1>2, Invariant, PTL DEF Spec, ReachableWhileConnected

-----------------------------------------------------------------------------
\* The calls between servers.  A server waits in as many calls as it has requests
\* under way, calls running at others, responses on their way back, and responses
\* put aside.  Which server owes it how many cannot be said: reschedule takes a
\* response of the awaited type from whichever server it comes.

Load(N, S, a, b) ==
    NumOf(N[a][b], "type", "REQ") + NumOf(S[b], "from", a) + NumOf(N[b][a], "type", "RES")

LoadOf(N, S, a) == [b \in Servers |-> Load(N, S, a, b)]

AsideOf(F, a) == NumOf(Fields(F[a], "msg"), "type", "RES")

\* A server in X has a call in hand: it waits for nothing on top of its stack
Even(N, S, F, X) ==
    \A a \in Servers :
      /\ IsFiniteSet(Units(Servers, LoadOf(N, S, a)))
      /\ SumOver(Servers, LoadOf(N, S, a)) + AsideOf(F, a) + OneIf(a \in X) = Len(S[a])

NumbersAt(N, S, F, a, b) ==
    /\ NumOf(N[a][b], "type", "REQ") \in Nat /\ NumOf(N[a][b], "type", "RES") \in Nat
    /\ NumOf(S[b], "from", a) \in Nat
    /\ AsideOf(F, a) \in Nat /\ Len(S[a]) \in Nat

Numbers(N, S, F) == \A a, b \in Servers : NumbersAt(N, S, F, a, b)

\* M are the channels N and a message of type t from s to x
SentAt(N, M, s, x, t, a, b) ==
    /\ NumOf(M[a][b], "type", "REQ")
         = NumOf(N[a][b], "type", "REQ") + OneIf(a = s /\ b = x /\ t = "REQ")
    /\ NumOf(M[a][b], "type", "RES")
         = NumOf(N[a][b], "type", "RES") + OneIf(a = s /\ b = x /\ t = "RES")

Sent(N, M, s, x, t) == \A a, b \in Servers : SentAt(N, M, s, x, t, a, b)

\* R are the stacks S with a call of q on that of s
PushedAt(S, R, s, q, a, b) ==
    /\ NumOf(R[b], "from", a) = NumOf(S[b], "from", a) + OneIf(b = s /\ a = q)
    /\ Len(R[b]) = Len(S[b]) + OneIf(b = s)

Pushed(S, R, s, q) == \A a, b \in Servers : PushedAt(S, R, s, q, a, b)

LEMMA LoadsNat ==
  ASSUME NEW N, NEW S, NEW F, Numbers(N, S, F), NEW a \in Servers
  PROVE  \A b \in Servers : LoadOf(N, S, a)[b] \in Nat
<1> SUFFICES ASSUME NEW b \in Servers PROVE LoadOf(N, S, a)[b] \in Nat
  OBVIOUS
<1>1. NumbersAt(N, S, F, a, b) /\ NumbersAt(N, S, F, b, a)
  BY DEF Numbers
<1>2. Load(N, S, a, b) \in Nat
  BY <1>1, \A i, j, k \in Nat : i + j + k \in Nat DEF NumbersAt, Load
<1>3. LoadOf(N, S, a)[b] = Load(N, S, a, b)
  BY DEF LoadOf
<1> QED BY <1>2, <1>3

MoreLoads(N, S, M, R, s, x) ==
    \A a, b \in Servers : Load(M, R, a, b) = Load(N, S, a, b) + OneIf(a = s /\ b = x)

SameLoads(N, S, M, R) ==
    \A a, b \in Servers : Load(M, R, a, b) = Load(N, S, a, b)

\* What the others of an equation of Even change by, for a and for s
MatchAt(S, F, X, R, G, Y, a, o) ==
    AsideOf(G, a) + OneIf(a \in Y) + Len(S[a]) + o = AsideOf(F, a) + OneIf(a \in X) + Len(R[a])

Match(S, F, X, R, G, Y, s) ==
    \A a \in Servers : MatchAt(S, F, X, R, G, Y, a, OneIf(a = s))

MatchSame(S, F, X, R, G, Y) ==
    \A a \in Servers : MatchAt(S, F, X, R, G, Y, a, 0)

\* Even is kept when all loads are, and when one changes with what it stands for.
LEMMA EvenSame ==
  ASSUME NEW N, NEW S, NEW F, NEW X, Even(N, S, F, X),
         NEW M, NEW R, NEW G, NEW Y, Numbers(N, S, F), Numbers(M, R, G),
         SameLoads(N, S, M, R), MatchSame(S, F, X, R, G, Y)
  PROVE  Even(M, R, G, Y)
<1> SUFFICES ASSUME NEW a \in Servers
             PROVE  /\ IsFiniteSet(Units(Servers, LoadOf(M, R, a)))
                    /\ SumOver(Servers, LoadOf(M, R, a)) + AsideOf(G, a) + OneIf(a \in Y) = Len(R[a])
  BY DEF Even
<1> DEFINE f == LoadOf(N, S, a)
           g == LoadOf(M, R, a)
<1>1. \A b \in Servers : g[b] = f[b]
  BY DEF LoadOf, SameLoads
<1>2. IsFiniteSet(Units(Servers, f)) /\ SumOver(Servers, f) + AsideOf(F, a) + OneIf(a \in X) = Len(S[a])
  BY DEF Even
<1>3. /\ AsideOf(F, a) \in Nat /\ AsideOf(G, a) \in Nat /\ Len(S[a]) \in Nat /\ Len(R[a]) \in Nat
      /\ AsideOf(G, a) + OneIf(a \in Y) + Len(S[a]) = AsideOf(F, a) + OneIf(a \in X) + Len(R[a])
  BY DEF Numbers, NumbersAt, MatchSame, MatchAt, OneIf
<1> DEFINE p == AsideOf(F, a)
           q == AsideOf(G, a)
           x0 == OneIf(a \in X)
           y0 == OneIf(a \in Y)
           l == Len(S[a])
           r == Len(R[a])
<1> HIDE DEF f, g
<1>4. Units(Servers, g) = Units(Servers, f) /\ SumOver(Servers, g) = SumOver(Servers, f) /\ SumOver(Servers, f) \in Nat
  BY <1>1, <1>2, SumSame, SumNat DEF SumOver
<1>5. OneIf(a \in X) \in Nat /\ OneIf(a \in Y) \in Nat
  BY DEF OneIf
<1>6. /\ p \in Nat /\ q \in Nat /\ x0 \in Nat /\ y0 \in Nat /\ l \in Nat /\ r \in Nat
      /\ SumOver(Servers, f) + p + x0 = l
      /\ q + y0 + l = p + x0 + r
  BY <1>2, <1>3, <1>5
<1>7. SumOver(Servers, g) + q + y0 = r
  <2> HIDE DEF p, q, x0, y0, l, r
  <2> QED BY <1>4, <1>5, <1>6
<1> QED BY <1>2, <1>4, <1>7 DEF g

LEMMA EvenMore ==
  ASSUME NEW N, NEW S, NEW F, NEW X, Even(N, S, F, X),
         NEW M, NEW R, NEW G, NEW Y, Numbers(N, S, F), Numbers(M, R, G),
         NEW s \in Servers, NEW x \in Servers,
         MoreLoads(N, S, M, R, s, x), Match(S, F, X, R, G, Y, s)
  PROVE  Even(M, R, G, Y)
<1> SUFFICES ASSUME NEW a \in Servers
             PROVE  /\ IsFiniteSet(Units(Servers, LoadOf(M, R, a)))
                    /\ SumOver(Servers, LoadOf(M, R, a)) + AsideOf(G, a) + OneIf(a \in Y) = Len(R[a])
  BY DEF Even
<1> DEFINE f == LoadOf(N, S, a)
           g == LoadOf(M, R, a)
<1>1. \A b \in Servers : f[b] \in Nat /\ g[b] = f[b] + OneIf(a = s /\ b = x)
  BY LoadsNat DEF LoadOf, MoreLoads
<1>2. IsFiniteSet(Units(Servers, f)) /\ SumOver(Servers, f) + AsideOf(F, a) + OneIf(a \in X) = Len(S[a])
  BY DEF Even
<1>3. /\ AsideOf(F, a) \in Nat /\ AsideOf(G, a) \in Nat /\ Len(S[a]) \in Nat /\ Len(R[a]) \in Nat
      /\ AsideOf(G, a) + OneIf(a \in Y) + Len(S[a]) + OneIf(a = s)
            = AsideOf(F, a) + OneIf(a \in X) + Len(R[a])
  BY DEF Numbers, NumbersAt, Match, MatchAt
<1> DEFINE p == AsideOf(F, a)
           q == AsideOf(G, a)
           x0 == OneIf(a \in X)
           y0 == OneIf(a \in Y)
           l == Len(S[a])
           r == Len(R[a])
<1> HIDE DEF f, g
<1>4. /\ IsFiniteSet(Units(Servers, g)) /\ SumOver(Servers, f) \in Nat
      /\ SumOver(Servers, g) = SumOver(Servers, f) + OneIf(a = s)
  <2>1. SumOver(Servers, f) \in Nat
    BY <1>2, SumNat
  <2>2. CASE a = s
    <3>1. \A b \in Servers : f[b] \in Nat /\ g[b] = f[b] + OneIf(b = x)
      BY <1>1, <2>2 DEF OneIf
    <3> QED BY <1>2, <2>1, <2>2, <3>1, SumMore DEF OneIf
  <2>3. CASE a # s
    <3>1. \A b \in Servers : g[b] = f[b]
      BY <1>1, <2>3 DEF OneIf
    <3>2. Units(Servers, g) = Units(Servers, f)
      BY <3>1, SumSame
    <3> QED BY <1>2, <2>1, <2>3, <3>2 DEF OneIf, SumOver
  <2> QED BY <2>2, <2>3
<1>5. OneIf(a \in X) \in Nat /\ OneIf(a \in Y) \in Nat /\ OneIf(a = s) \in Nat
  BY DEF OneIf
<1>6. /\ p \in Nat /\ q \in Nat /\ x0 \in Nat /\ y0 \in Nat /\ l \in Nat /\ r \in Nat
      /\ SumOver(Servers, f) + p + x0 = l
      /\ q + y0 + l + OneIf(a = s) = p + x0 + r
  BY <1>2, <1>3, <1>5
<1>7. SumOver(Servers, g) + q + y0 = r
  <2> HIDE DEF p, q, x0, y0, l, r
  <2> QED BY <1>4, <1>5, <1>6
<1> QED BY <1>2, <1>4, <1>7 DEF g

LEMMA EvenLess ==
  ASSUME NEW N, NEW S, NEW F, NEW X, Even(N, S, F, X),
         NEW M, NEW R, NEW G, NEW Y, Numbers(N, S, F), Numbers(M, R, G),
         NEW s \in Servers, NEW x \in Servers,
         MoreLoads(M, R, N, S, s, x), Match(R, G, Y, S, F, X, s)
  PROVE  Even(M, R, G, Y)
<1> SUFFICES ASSUME NEW a \in Servers
             PROVE  /\ IsFiniteSet(Units(Servers, LoadOf(M, R, a)))
                    /\ SumOver(Servers, LoadOf(M, R, a)) + AsideOf(G, a) + OneIf(a \in Y) = Len(R[a])
  BY DEF Even
<1> DEFINE f == LoadOf(N, S, a)
           g == LoadOf(M, R, a)
<1>1. \A b \in Servers : g[b] \in Nat /\ f[b] = g[b] + OneIf(a = s /\ b = x)
  BY LoadsNat DEF LoadOf, MoreLoads
<1>2. IsFiniteSet(Units(Servers, f)) /\ SumOver(Servers, f) + AsideOf(F, a) + OneIf(a \in X) = Len(S[a])
  BY DEF Even
<1>3. /\ AsideOf(F, a) \in Nat /\ AsideOf(G, a) \in Nat /\ Len(S[a]) \in Nat /\ Len(R[a]) \in Nat
      /\ AsideOf(G, a) + OneIf(a \in Y) + Len(S[a])
            = AsideOf(F, a) + OneIf(a \in X) + Len(R[a]) + OneIf(a = s)
  BY DEF Numbers, NumbersAt, Match, MatchAt
<1> DEFINE p == AsideOf(F, a)
           q == AsideOf(G, a)
           x0 == OneIf(a \in X)
           y0 == OneIf(a \in Y)
           l == Len(S[a])
           r == Len(R[a])
<1> HIDE DEF f, g
<1>4. /\ IsFiniteSet(Units(Servers, g)) /\ SumOver(Servers, g) \in Nat
      /\ SumOver(Servers, f) = SumOver(Servers, g) + OneIf(a = s)
  <2>2. CASE a = s
    <3>1. \A b \in Servers : g[b] \in Nat /\ f[b] = g[b] + OneIf(b = x)
      BY <1>1, <2>2 DEF OneIf
    <3>2. IsFiniteSet(Units(Servers, g)) /\ SumOver(Servers, f) = SumOver(Servers, g) + 1
      BY <1>2, <3>1, SumLess
    <3> QED BY <2>2, <3>2, SumNat DEF OneIf
  <2>3. CASE a # s
    <3>1. \A b \in Servers : g[b] = f[b]
      BY <1>1, <2>3 DEF OneIf
    <3>2. Units(Servers, g) = Units(Servers, f) /\ SumOver(Servers, f) \in Nat
      BY <1>2, <3>1, SumSame, SumNat
    <3> QED BY <1>2, <2>3, <3>2 DEF OneIf, SumOver
  <2> QED BY <2>2, <2>3
<1>5. OneIf(a \in X) \in Nat /\ OneIf(a \in Y) \in Nat /\ OneIf(a = s) \in Nat
  BY DEF OneIf
<1>6. /\ p \in Nat /\ q \in Nat /\ x0 \in Nat /\ y0 \in Nat /\ l \in Nat /\ r \in Nat
      /\ SumOver(Servers, f) + p + x0 = l
      /\ q + y0 + l = p + x0 + r + OneIf(a = s)
  BY <1>2, <1>3, <1>5
<1>7. SumOver(Servers, g) + q + y0 = r
  <2> HIDE DEF p, q, x0, y0, l, r
  <2> QED BY <1>4, <1>5, <1>6
<1> QED BY <1>2, <1>4, <1>7 DEF g

\* A message of another type does not count.
LEMMA EvenOther ==
  ASSUME NEW N, NEW S, NEW F, NEW X, Even(N, S, F, X), Numbers(N, S, F),
         NEW M, Numbers(M, S, F), NEW s, NEW x, NEW t, t \notin {"REQ", "RES"},
         Sent(N, M, s, x, t) \/ Sent(M, N, s, x, t)
  PROVE  Even(M, S, F, X)
<1>1. ASSUME NEW a \in Servers, NEW b \in Servers PROVE Load(M, S, a, b) = Load(N, S, a, b)
  <2>1. /\ NumbersAt(N, S, F, a, b) /\ NumbersAt(N, S, F, b, a)
        /\ NumbersAt(M, S, F, a, b) /\ NumbersAt(M, S, F, b, a)
    BY DEF Numbers
  <2>2. \/ SentAt(N, M, s, x, t, a, b) /\ SentAt(N, M, s, x, t, b, a)
        \/ SentAt(M, N, s, x, t, a, b) /\ SentAt(M, N, s, x, t, b, a)
    BY DEF Sent
  <2>3. /\ NumOf(M[a][b], "type", "REQ") = NumOf(N[a][b], "type", "REQ")
        /\ NumOf(M[b][a], "type", "RES") = NumOf(N[b][a], "type", "RES")
    BY <2>1, <2>2 DEF SentAt, NumbersAt, OneIf
  <2> QED BY <2>3 DEF Load
<1>2. ASSUME NEW a \in Servers PROVE MatchAt(S, F, X, S, F, X, a, 0)
  <2>1. NumbersAt(N, S, F, a, a)
    BY DEF Numbers
  <2> QED BY <2>1 DEF NumbersAt, MatchAt, OneIf
<1> QED BY <1>1, <1>2, EvenSame DEF SameLoads, MatchSame

\* A request is received: its call is on the stack, and nothing else.
LEMMA EvenAsked ==
  ASSUME NEW N, NEW S, NEW F, Even(N, S, F, {}), Numbers(N, S, F),
         NEW M, NEW R, Numbers(M, R, F), NEW s \in Servers, NEW r \in Servers,
         Sent(M, N, r, s, "REQ"), Pushed(S, R, s, r)
  PROVE  Even(M, R, F, {s})
<1>1. ASSUME NEW a \in Servers, NEW b \in Servers PROVE Load(M, R, a, b) = Load(N, S, a, b)
  <2>1. /\ NumbersAt(N, S, F, a, b) /\ NumbersAt(N, S, F, b, a)
        /\ NumbersAt(M, R, F, a, b) /\ NumbersAt(M, R, F, b, a)
    BY DEF Numbers
  <2>2. SentAt(M, N, r, s, "REQ", a, b) /\ SentAt(M, N, r, s, "REQ", b, a)
    BY DEF Sent
  <2>3. PushedAt(S, R, s, r, a, b)
    BY DEF Pushed
  <2>8. CASE a = r /\ b = s
    BY <2>1, <2>2, <2>3, <2>8 DEF SentAt, PushedAt, NumbersAt, Load, OneIf
  <2>9. CASE ~(a = r /\ b = s)
    BY <2>1, <2>2, <2>3, <2>9 DEF SentAt, PushedAt, NumbersAt, Load, OneIf
  <2> QED BY <2>8, <2>9
<1>2. ASSUME NEW a \in Servers PROVE MatchAt(S, F, {}, R, F, {s}, a, 0)
  <2>1. NumbersAt(N, S, F, a, a) /\ NumbersAt(M, R, F, a, a) /\ PushedAt(S, R, s, r, a, a)
    BY DEF Numbers, Pushed
  <2>9. OneIf(a \in {s}) = OneIf(a = s) /\ OneIf(a \in {}) = 0 /\ OneIf(a = s) \in {0, 1}
    BY DEF OneIf
  <2>8. /\ AsideOf(F, a) \in Nat /\ Len(S[a]) \in Nat /\ Len(R[a]) \in Nat
        /\ Len(R[a]) = Len(S[a]) + OneIf(a = s)
    BY <2>1 DEF NumbersAt, PushedAt, OneIf
  <2> QED BY <2>8, <2>9 DEF MatchAt
<1> QED BY <1>1, <1>2, EvenSame DEF SameLoads, MatchSame

\* A client's request
LEMMA EvenClient ==
  ASSUME NEW N, NEW S, NEW F, Even(N, S, F, {}), Numbers(N, S, F),
         NEW R, Numbers(N, R, F), NEW s \in Servers, NEW k, k \notin Servers,
         Pushed(S, R, s, k)
  PROVE  Even(N, R, F, {s})
<1>1. ASSUME NEW a \in Servers, NEW b \in Servers PROVE Load(N, R, a, b) = Load(N, S, a, b)
  <2>1. NumbersAt(N, S, F, a, b) /\ NumbersAt(N, R, F, a, b) /\ PushedAt(S, R, s, k, a, b)
    BY DEF Numbers, Pushed
  <2> QED BY <2>1 DEF PushedAt, NumbersAt, Load, OneIf
<1>2. ASSUME NEW a \in Servers PROVE MatchAt(S, F, {}, R, F, {s}, a, 0)
  <2>1. NumbersAt(N, S, F, a, a) /\ NumbersAt(N, R, F, a, a) /\ PushedAt(S, R, s, k, a, a)
    BY DEF Numbers, Pushed
  <2>9. OneIf(a \in {s}) = OneIf(a = s) /\ OneIf(a \in {}) = 0 /\ OneIf(a = s) \in {0, 1}
    BY DEF OneIf
  <2>8. /\ AsideOf(F, a) \in Nat /\ Len(S[a]) \in Nat /\ Len(R[a]) \in Nat
        /\ Len(R[a]) = Len(S[a]) + OneIf(a = s)
    BY <2>1 DEF NumbersAt, PushedAt, OneIf
  <2> QED BY <2>8, <2>9 DEF MatchAt
<1> QED BY <1>1, <1>2, EvenSame DEF SameLoads, MatchSame

\* The call in hand asks another server.
LEMMA EvenAsks ==
  ASSUME NEW N, NEW S, NEW F, NEW s \in Servers, Even(N, S, F, {s}), Numbers(N, S, F),
         NEW M, Numbers(M, S, F), NEW x \in Servers, Sent(N, M, s, x, "REQ")
  PROVE  Even(M, S, F, {})
<1>1. ASSUME NEW a \in Servers, NEW b \in Servers
      PROVE  Load(M, S, a, b) = Load(N, S, a, b) + OneIf(a = s /\ b = x)
  <2>1. /\ NumbersAt(N, S, F, a, b) /\ NumbersAt(N, S, F, b, a)
        /\ NumbersAt(M, S, F, a, b) /\ NumbersAt(M, S, F, b, a)
    BY DEF Numbers
  <2>2. SentAt(N, M, s, x, "REQ", a, b) /\ SentAt(N, M, s, x, "REQ", b, a)
    BY DEF Sent
  <2>8. CASE a = s /\ b = x
    BY <2>1, <2>2, <2>8 DEF SentAt, NumbersAt, Load, OneIf
  <2>9. CASE ~(a = s /\ b = x)
    BY <2>1, <2>2, <2>9 DEF SentAt, NumbersAt, Load, OneIf
  <2> QED BY <2>8, <2>9
<1>2. ASSUME NEW a \in Servers PROVE MatchAt(S, F, {s}, S, F, {}, a, OneIf(a = s))
  <2>1. NumbersAt(N, S, F, a, a)
    BY DEF Numbers
  <2>9. OneIf(a \in {s}) = OneIf(a = s) /\ OneIf(a \in {}) = 0 /\ OneIf(a = s) \in {0, 1}
    BY DEF OneIf
  <2> QED BY <2>1, <2>9 DEF NumbersAt, MatchAt
<1>3. MoreLoads(N, S, M, S, s, x)
  BY <1>1 DEF MoreLoads
<1>4. Match(S, F, {s}, S, F, {}, s)
  BY <1>2 DEF Match
<1> QED BY <1>3, <1>4, EvenMore

\* The call in hand is answered.
LEMMA EvenAnswers ==
  ASSUME NEW N, NEW S, NEW F, NEW s \in Servers, Even(N, S, F, {s}), Numbers(N, S, F),
         NEW M, NEW R, Numbers(M, R, F), NEW q \in Servers,
         Sent(N, M, s, q, "RES"), Pushed(R, S, s, q)
  PROVE  Even(M, R, F, {})
<1>1. ASSUME NEW a \in Servers, NEW b \in Servers PROVE Load(M, R, a, b) = Load(N, S, a, b)
  <2>1. /\ NumbersAt(N, S, F, a, b) /\ NumbersAt(N, S, F, b, a)
        /\ NumbersAt(M, R, F, a, b) /\ NumbersAt(M, R, F, b, a)
    BY DEF Numbers
  <2>2. SentAt(N, M, s, q, "RES", a, b) /\ SentAt(N, M, s, q, "RES", b, a)
    BY DEF Sent
  <2>3. PushedAt(R, S, s, q, a, b)
    BY DEF Pushed
  <2>8. CASE a = q /\ b = s
    BY <2>1, <2>2, <2>3, <2>8 DEF SentAt, PushedAt, NumbersAt, Load, OneIf
  <2>9. CASE ~(a = q /\ b = s)
    <3>1. NumOf(M[a][b], "type", "REQ") = NumOf(N[a][b], "type", "REQ")
      BY <2>1, <2>2 DEF SentAt, NumbersAt, OneIf
    <3>2. NumOf(M[b][a], "type", "RES") = NumOf(N[b][a], "type", "RES")
      BY <2>1, <2>2, <2>9 DEF SentAt, NumbersAt, OneIf
    <3>3. NumOf(R[b], "from", a) = NumOf(S[b], "from", a)
      BY <2>1, <2>3, <2>9 DEF PushedAt, NumbersAt, OneIf
    <3> QED BY <3>1, <3>2, <3>3 DEF Load
  <2> QED BY <2>8, <2>9
<1>2. ASSUME NEW a \in Servers PROVE MatchAt(S, F, {s}, R, F, {}, a, 0)
  <2>1. NumbersAt(N, S, F, a, a) /\ NumbersAt(M, R, F, a, a) /\ PushedAt(R, S, s, q, a, a)
    BY DEF Numbers, Pushed
  <2>9. OneIf(a \in {s}) = OneIf(a = s) /\ OneIf(a \in {}) = 0 /\ OneIf(a = s) \in {0, 1}
    BY DEF OneIf
  <2>8. /\ AsideOf(F, a) \in Nat /\ Len(S[a]) \in Nat /\ Len(R[a]) \in Nat
        /\ Len(S[a]) = Len(R[a]) + OneIf(a = s)
    BY <2>1 DEF NumbersAt, PushedAt, OneIf
  <2> QED BY <2>8, <2>9 DEF MatchAt
<1> QED BY <1>1, <1>2, EvenSame DEF SameLoads, MatchSame

LEMMA EvenReplies ==
  ASSUME NEW N, NEW S, NEW F, NEW s \in Servers, Even(N, S, F, {s}), Numbers(N, S, F),
         NEW R, Numbers(N, R, F), NEW k, k \notin Servers, Pushed(R, S, s, k)
  PROVE  Even(N, R, F, {})
<1>1. ASSUME NEW a \in Servers, NEW b \in Servers PROVE Load(N, R, a, b) = Load(N, S, a, b)
  <2>1. NumbersAt(N, S, F, a, b) /\ NumbersAt(N, R, F, a, b) /\ PushedAt(R, S, s, k, a, b)
    BY DEF Numbers, Pushed
  <2> QED BY <2>1 DEF PushedAt, NumbersAt, Load, OneIf
<1>2. ASSUME NEW a \in Servers PROVE MatchAt(S, F, {s}, R, F, {}, a, 0)
  <2>1. NumbersAt(N, S, F, a, a) /\ NumbersAt(N, R, F, a, a) /\ PushedAt(R, S, s, k, a, a)
    BY DEF Numbers, Pushed
  <2>9. OneIf(a \in {s}) = OneIf(a = s) /\ OneIf(a \in {}) = 0 /\ OneIf(a = s) \in {0, 1}
    BY DEF OneIf
  <2>8. /\ AsideOf(F, a) \in Nat /\ Len(S[a]) \in Nat /\ Len(R[a]) \in Nat
        /\ Len(S[a]) = Len(R[a]) + OneIf(a = s)
    BY <2>1 DEF NumbersAt, PushedAt, OneIf
  <2> QED BY <2>8, <2>9 DEF MatchAt
<1> QED BY <1>1, <1>2, EvenSame DEF SameLoads, MatchSame

\* A response is received: the call that waited is in hand again.
LEMMA EvenHeard ==
  ASSUME NEW N, NEW S, NEW F, Even(N, S, F, {}), Numbers(N, S, F),
         NEW M, Numbers(M, S, F), NEW s \in Servers, NEW r \in Servers, Sent(M, N, r, s, "RES")
  PROVE  Even(M, S, F, {s})
<1>1. ASSUME NEW a \in Servers, NEW b \in Servers
      PROVE  Load(N, S, a, b) = Load(M, S, a, b) + OneIf(a = s /\ b = r)
  <2>1. /\ NumbersAt(N, S, F, a, b) /\ NumbersAt(N, S, F, b, a)
        /\ NumbersAt(M, S, F, a, b) /\ NumbersAt(M, S, F, b, a)
    BY DEF Numbers
  <2>2. SentAt(M, N, r, s, "RES", a, b) /\ SentAt(M, N, r, s, "RES", b, a)
    BY DEF Sent
  <2>8. CASE a = s /\ b = r
    BY <2>1, <2>2, <2>8 DEF SentAt, NumbersAt, Load, OneIf
  <2>9. CASE ~(a = s /\ b = r)
    BY <2>1, <2>2, <2>9 DEF SentAt, NumbersAt, Load, OneIf
  <2> QED BY <2>8, <2>9
<1>2. ASSUME NEW a \in Servers PROVE MatchAt(S, F, {s}, S, F, {}, a, OneIf(a = s))
  <2>1. NumbersAt(N, S, F, a, a)
    BY DEF Numbers
  <2>9. OneIf(a \in {s}) = OneIf(a = s) /\ OneIf(a \in {}) = 0 /\ OneIf(a = s) \in {0, 1}
    BY DEF OneIf
  <2> QED BY <2>1, <2>9 DEF NumbersAt, MatchAt
<1>3. MoreLoads(M, S, N, S, s, r)
  BY <1>1 DEF MoreLoads
<1>4. Match(S, F, {s}, S, F, {}, s)
  BY <1>2 DEF Match
<1> QED BY <1>3, <1>4, EvenLess

\* A response is put aside, or another message.
LEMMA EvenAside ==
  ASSUME NEW N, NEW S, NEW F, Even(N, S, F, {}), Numbers(N, S, F),
         NEW M, NEW G, Numbers(M, S, G), NEW s \in Servers, NEW r \in Servers,
         Sent(M, N, r, s, "RES"),
         \A a \in Servers : AsideOf(G, a) = AsideOf(F, a) + OneIf(a = s)
  PROVE  Even(M, S, G, {})
<1>1. ASSUME NEW a \in Servers, NEW b \in Servers
      PROVE  Load(N, S, a, b) = Load(M, S, a, b) + OneIf(a = s /\ b = r)
  <2>1. /\ NumbersAt(N, S, F, a, b) /\ NumbersAt(N, S, F, b, a)
        /\ NumbersAt(M, S, G, a, b) /\ NumbersAt(M, S, G, b, a)
    BY DEF Numbers
  <2>2. SentAt(M, N, r, s, "RES", a, b) /\ SentAt(M, N, r, s, "RES", b, a)
    BY DEF Sent
  <2>8. CASE a = s /\ b = r
    BY <2>1, <2>2, <2>8 DEF SentAt, NumbersAt, Load, OneIf
  <2>9. CASE ~(a = s /\ b = r)
    <3>1. NumOf(M[a][b], "type", "REQ") = NumOf(N[a][b], "type", "REQ")
      BY <2>1, <2>2 DEF SentAt, NumbersAt, OneIf
    <3>2. NumOf(M[b][a], "type", "RES") = NumOf(N[b][a], "type", "RES")
      BY <2>1, <2>2, <2>9 DEF SentAt, NumbersAt, OneIf
    <3>3. Load(N, S, a, b) = Load(M, S, a, b) /\ Load(M, S, a, b) \in Nat
      <4>1. Load(N, S, a, b) = Load(M, S, a, b)
        BY <3>1, <3>2 DEF Load
      <4>2. Load(M, S, a, b) \in Nat
        BY <2>1, \A i, j, k \in Nat : i + j + k \in Nat DEF NumbersAt, Load
      <4> QED BY <4>1, <4>2
    <3>4. OneIf(a = s /\ b = r) = 0 /\ \A l \in Nat : l = l + 0
      BY <2>9 DEF OneIf
    <3> QED BY <3>3, <3>4
  <2> QED BY <2>8, <2>9
<1>2. ASSUME NEW a \in Servers PROVE MatchAt(S, G, {}, S, F, {}, a, OneIf(a = s))
  <2>1. NumbersAt(N, S, F, a, a) /\ NumbersAt(M, S, G, a, a)
        /\ AsideOf(G, a) = AsideOf(F, a) + OneIf(a = s)
    BY DEF Numbers
  <2>9. OneIf(a \in {s}) = OneIf(a = s) /\ OneIf(a \in {}) = 0 /\ OneIf(a = s) \in {0, 1}
    BY DEF OneIf
  <2> QED BY <2>1, <2>9 DEF NumbersAt, MatchAt
<1>3. MoreLoads(M, S, N, S, s, r)
  BY <1>1 DEF MoreLoads
<1>4. Match(S, G, {}, S, F, {}, s)
  BY <1>2 DEF Match
<1> QED BY <1>3, <1>4, EvenLess

LEMMA EvenSameAside ==
  ASSUME NEW N, NEW S, NEW F, NEW X, Even(N, S, F, X), Numbers(N, S, F),
         NEW G, Numbers(N, S, G), \A a \in Servers : AsideOf(G, a) = AsideOf(F, a)
  PROVE  Even(N, S, G, X)
<1>1. SameLoads(N, S, N, S)
  BY DEF SameLoads
<1>2. ASSUME NEW a \in Servers PROVE MatchAt(S, F, X, S, G, X, a, 0)
  <2>1. NumbersAt(N, S, F, a, a) /\ AsideOf(G, a) = AsideOf(F, a)
    BY DEF Numbers
  <2> QED BY <2>1 DEF NumbersAt, MatchAt, OneIf
<1> QED BY <1>1, <1>2, EvenSame DEF MatchSame

-----------------------------------------------------------------------------
\* Channels, stacks, and what was put aside

Framed(q) ==
    /\ IsSeq(q)
    /\ \A i \in 1 .. Len(q) : q[i] = Frame(q[i].call, q[i].from, q[i].calls, q[i].nested)

Stacks(S) ==
    /\ S = [s \in Servers |-> S[s]]
    /\ \A s \in Servers : Framed(S[s])

LEMMA NumbersType ==
  ASSUME NEW N, NetType(Servers, N), NEW S, Stacks(S), NEW F, Lines(Servers, F)
  PROVE  Numbers(N, S, F)
<1> SUFFICES ASSUME NEW a \in Servers, NEW b \in Servers PROVE NumbersAt(N, S, F, a, b)
  BY DEF Numbers
<1>1. IsSeq(N[a][b]) /\ IsSeq(S[b]) /\ IsSeq(S[a]) /\ IsSeq(F[a])
  BY ChannelSeq, LineSeq DEF Stacks, Framed
<1>2. IsSeq(Fields(F[a], "msg"))
  BY <1>1, FieldsSeq
<1>3. Len(S[a]) \in Nat
  BY <1>1 DEF IsSeq
<1> QED BY <1>1, <1>2, <1>3, NumNat DEF NumbersAt, AsideOf

\* A message more, and a message less
LEMMA SentMessage ==
  ASSUME NEW N, NetType(Servers, N), NEW s \in Servers, NEW x \in Servers, NEW m,
         NEW M, M = [N EXCEPT ![s][x] = Append(@, m)]
  PROVE  NetType(Servers, M) /\ Sent(N, M, s, x, m.type)
<1>1. NetType(Servers, M)
  BY SendTyped
<1>2. ASSUME NEW a \in Servers, NEW b \in Servers PROVE SentAt(N, M, s, x, m.type, a, b)
  <2>1. IsSeq(N[a][b])
    BY ChannelSeq
  <2>2. CASE a = s /\ b = x
    <3>1. M[a][b] = Append(N[a][b], m)
      BY <2>2 DEF NetType
    <3> QED BY <2>1, <2>2, <3>1, NumAppend DEF SentAt, OneIf
  <2>3. CASE ~(a = s /\ b = x)
    <3>1. M[a][b] = N[a][b]
      BY <2>3 DEF NetType
    <3>2. NumOf(N[a][b], "type", "REQ") \in Nat /\ NumOf(N[a][b], "type", "RES") \in Nat
      BY <2>1, NumNat
    <3> QED BY <2>3, <3>1, <3>2 DEF SentAt, OneIf
  <2> QED BY <2>2, <2>3
<1> QED BY <1>1, <1>2 DEF Sent

LEMMA TakenMessage ==
  ASSUME NEW N, NetType(Servers, N), NEW r \in Servers, NEW s \in Servers, N[r][s] # <<>>,
         NEW M, M = [N EXCEPT ![r][s] = Tail(@)]
  PROVE  NetType(Servers, M) /\ Sent(M, N, r, s, Head(N[r][s]).type)
<1>1. NetType(Servers, M)
  BY TakeType
<1>2. ASSUME NEW a \in Servers, NEW b \in Servers PROVE SentAt(M, N, r, s, Head(N[r][s]).type, a, b)
  <2>1. IsSeq(N[a][b])
    BY ChannelSeq
  <2>2. CASE a = r /\ b = s
    <3>1. M[a][b] = Tail(N[a][b]) /\ N[a][b] # <<>>
      BY <2>2 DEF NetType
    <3> QED BY <2>1, <2>2, <3>1, NumTail DEF SentAt, OneIf
  <2>3. CASE ~(a = r /\ b = s)
    <3>1. M[a][b] = N[a][b]
      BY <2>3 DEF NetType
    <3>2. NumOf(N[a][b], "type", "REQ") \in Nat /\ NumOf(N[a][b], "type", "RES") \in Nat
      BY <2>1, NumNat
    <3> QED BY <2>3, <3>1, <3>2 DEF SentAt, OneIf
  <2> QED BY <2>2, <2>3
<1> QED BY <1>1, <1>2 DEF Sent

\* A call on the stack of a server whose other calls are those of q
LEMMA PushedCall ==
  ASSUME NEW S, Stacks(S), NEW s \in Servers, NEW q, Framed(q),
         NEW f, f = Frame(f.call, f.from, f.calls, f.nested),
         NEW C, C = [S EXCEPT ![s] = q], NEW R, R = [S EXCEPT ![s] = <<f>> \o q]
  PROVE  /\ Stacks(C) /\ Stacks(R)
         /\ Pushed(C, R, s, f.from)
<1> DEFINE p == <<f>> \o q
<1>1. IsSeq(q) /\ IsSeq(p) /\ p # <<>> /\ Head(p) = f /\ Tail(p) = q
  BY PushSeq DEF Framed
<1>2. \A v : NumOf(p, "from", v) = NumOf(q, "from", v) + OneIf(f.from = v)
  BY <1>1, NumPush
<1> HIDE DEF p
<1>3. /\ Len(p) \in Nat /\ Len(p) > 0 /\ Len(q) = Len(p) - 1 /\ p[1] = f
      /\ \A i \in 1 .. Len(p) - 1 : q[i] = p[i + 1]
  BY <1>1, TailSeq
<1>4. Framed(p)
  <2> SUFFICES ASSUME NEW i \in 1 .. Len(p)
               PROVE  p[i] = Frame(p[i].call, p[i].from, p[i].calls, p[i].nested)
    BY <1>1 DEF Framed
  <2>1. CASE i = 1
    BY <1>3, <2>1
  <2>2. CASE i # 1
    <3>1. i - 1 \in 1 .. Len(q) /\ p[i] = q[i - 1]
      BY <1>3, <2>2
    <3> QED BY <3>1 DEF Framed
  <2> QED BY <2>1, <2>2
<1>5. /\ C = [y \in Servers |-> C[y]] /\ C[s] = q
      /\ R = [y \in Servers |-> R[y]] /\ R[s] = p
      /\ \A y \in Servers \ {s} : C[y] = S[y] /\ R[y] = S[y]
  BY DEF Stacks, p
<1>6. Stacks(C) /\ Stacks(R)
  BY <1>4, <1>5 DEF Stacks
<1>7. ASSUME NEW a \in Servers, NEW b \in Servers PROVE PushedAt(C, R, s, f.from, a, b)
  <2>1. CASE b = s
    <3>1. C[b] = q /\ R[b] = p
      BY <1>5, <2>1
    <3>2. NumOf(p, "from", a) = NumOf(q, "from", a) + OneIf(f.from = a)
      BY <1>2
    <3>3. OneIf(f.from = a) = OneIf(b = s /\ a = f.from)
      BY <2>1 DEF OneIf
    <3>4. Len(p) = Len(q) + OneIf(b = s)
      BY <1>3, <2>1 DEF OneIf
    <3> QED BY <3>1, <3>2, <3>3, <3>4 DEF PushedAt
  <2>2. CASE b # s
    <3>1. C[b] = S[b] /\ R[b] = S[b] /\ IsSeq(S[b])
      BY <1>5, <2>2 DEF Stacks, Framed
    <3>2. NumOf(S[b], "from", a) \in Nat /\ Len(S[b]) \in Nat
      BY <3>1, NumNat DEF IsSeq
    <3> QED BY <2>2, <3>1, <3>2 DEF PushedAt, OneIf
  <2> QED BY <2>1, <2>2
<1> QED BY <1>6, <1>7 DEF Pushed

\* The top of a stack
LEMMA TopCall ==
  ASSUME NEW q, Framed(q), q # <<>>
  PROVE  LET f == Head(q) IN
         /\ f = Frame(f.call, f.from, f.calls, f.nested)
         /\ Framed(Tail(q))
         /\ q = <<f>> \o Tail(q)
<1> DEFINE t == Tail(q)
<1>1. /\ IsSeq(t) /\ Len(q) \in Nat /\ Len(q) > 0 /\ Len(t) = Len(q) - 1
      /\ Head(q) = q[1] /\ \A i \in 1 .. Len(q) - 1 : t[i] = q[i + 1]
  BY TailSeq DEF Framed
<1> HIDE DEF t
<1>2. \A i \in 1 .. Len(t) : i + 1 \in 1 .. Len(q) /\ t[i] = q[i + 1]
  BY <1>1
<1>3. Framed(t)
  BY <1>1, <1>2 DEF Framed
<1>4. Head(q) = Frame(Head(q).call, Head(q).from, Head(q).calls, Head(q).nested)
  BY <1>1 DEF Framed
<1> DEFINE p == <<Head(q)>> \o t
<1>5. IsSeq(p) /\ p # <<>> /\ Head(p) = Head(q) /\ Tail(p) = t
  BY <1>1, PushSeq
<1> HIDE DEF p
<1>6. /\ Len(p) \in Nat /\ Len(t) = Len(p) - 1 /\ p[1] = Head(q)
      /\ \A i \in 1 .. Len(p) - 1 : t[i] = p[i + 1]
  BY <1>5, TailSeq
<1>7. p = q
  <2>1. Len(p) = Len(q)
    BY <1>1, <1>6
  <2>2. ASSUME NEW i \in 1 .. Len(q) PROVE p[i] = q[i]
    <3>1. CASE i = 1
      BY <1>1, <1>6, <3>1
    <3>2. CASE i # 1
      <4>1. i - 1 \in 1 .. Len(q) - 1 /\ (i - 1) + 1 = i
        BY <1>1, <3>2
      <4> QED BY <1>1, <1>6, <2>1, <4>1
    <3> QED BY <3>1, <3>2
  <2> QED BY <1>5, <2>1, <2>2, SameSeq DEF Framed
<1> QED BY <1>3, <1>4, <1>7 DEF p, t

\* What is put aside counts if it is a response.
LEMMA AsideMore ==
  ASSUME NEW F, NEW G, NEW a, NEW e, IsSeq(F[a]), G[a] = Append(F[a], e)
  PROVE  AsideOf(G, a) = IF e.msg.type = "RES" THEN AsideOf(F, a) + 1 ELSE AsideOf(F, a)
<1> DEFINE q == Fields(F[a], "msg")
<1>1. IsSeq(q)
  BY FieldsSeq
<1>2. Fields(Append(F[a], e), "msg") = Append(q, e["msg"])
  BY FieldsAppend
<1> HIDE DEF q
<1>3. NumOf(Append(q, e["msg"]), "type", "RES")
        = NumOf(q, "type", "RES") + OneIf(e["msg"]["type"] = "RES")
  BY <1>1, NumAppend
<1>4. AsideOf(G, a) = AsideOf(F, a) + OneIf(e.msg.type = "RES")
  BY <1>2, <1>3 DEF AsideOf, q
<1>5. AsideOf(F, a) \in Nat
  BY <1>1, NumNat DEF AsideOf, q
<1> QED BY <1>4, <1>5 DEF OneIf

LEMMA AsideLess ==
  ASSUME NEW F, DeferredType(Servers, F), NEW s \in Servers, F[s] # <<>>,
         Head(F[s]).msg.type # "RES",
         NEW G, G = [F EXCEPT ![s] = Tail(@)],
         NEW a \in Servers
  PROVE  AsideOf(G, a) = AsideOf(F, a)
<1> DEFINE q == Fields(F[a], "msg")
<1>1. IsSeq(F[a])
  BY AsideLines, LineSeq
<1>2. IsSeq(q)
  BY <1>1, FieldsSeq
<1>3. CASE a = s
  <2>1. G[a] = Tail(F[a]) /\ F[a] # <<>> /\ Head(F[a]).msg.type # "RES"
    BY <1>3 DEF DeferredType
  <2>2. q # <<>> /\ Head(q) = Head(F[a])["msg"] /\ Fields(G[a], "msg") = Tail(q)
    BY <1>1, <2>1, FieldsTail
  <2>3. Head(q)["type"] # "RES"
    BY <2>1, <2>2
  <2> HIDE DEF q
  <2>4. NumOf(q, "type", "RES") = NumOf(Tail(q), "type", "RES") + OneIf(Head(q)["type"] = "RES")
    BY <1>2, <2>2, NumTail
  <2>5. IsSeq(Tail(q))
    BY <1>2, <2>2, TailSeq
  <2>6. NumOf(Tail(q), "type", "RES") \in Nat
    BY <2>5, NumNat
  <2>7. OneIf(Head(q)["type"] = "RES") = 0
    BY <2>3 DEF OneIf
  <2>8. NumOf(q, "type", "RES") = NumOf(Tail(q), "type", "RES")
    BY <2>4, <2>6, <2>7
  <2> QED BY <2>2, <2>8 DEF AsideOf, q
<1>4. CASE a # s
  <2>1. G[a] = F[a]
    BY <1>4 DEF DeferredType
  <2> QED BY <2>1 DEF AsideOf
<1> QED BY <1>3, <1>4

\* Which call of q is on top does not matter.
LEMMA EvenSwap ==
  ASSUME NEW C, NEW S, NEW R, NEW s, NEW q, Pushed(C, S, s, q), Pushed(C, R, s, q),
         NEW N, NEW F, NEW X, Numbers(N, C, F), Numbers(N, S, F), Numbers(N, R, F),
         Even(N, S, F, X)
  PROVE  Even(N, R, F, X)
<1>1. ASSUME NEW a \in Servers, NEW b \in Servers
      PROVE  NumOf(R[b], "from", a) = NumOf(S[b], "from", a) /\ Len(R[b]) = Len(S[b])
  <2>1. PushedAt(C, S, s, q, a, b) /\ PushedAt(C, R, s, q, a, b)
    BY DEF Pushed
  <2> QED BY <2>1 DEF PushedAt
<1>2. SameLoads(N, S, N, R)
  BY <1>1 DEF SameLoads, Load
<1>3. ASSUME NEW a \in Servers PROVE MatchAt(S, F, X, R, F, X, a, 0)
  <2>1. NumbersAt(N, S, F, a, a) /\ Len(R[a]) = Len(S[a])
    BY <1>1 DEF Numbers
  <2>2. OneIf(a \in X) \in Nat
    BY DEF OneIf
  <2> QED BY <2>1, <2>2 DEF NumbersAt, MatchAt
<1> QED BY <1>2, <1>3, EvenSame DEF MatchSame

\* A stack may be exchanged.
LEMMA StacksSet ==
  ASSUME NEW S, Stacks(S), NEW s \in Servers, NEW q, Framed(q),
         NEW C, C = [S EXCEPT ![s] = q]
  PROVE  Stacks(C) /\ C[s] = q /\ \A y \in Servers \ {s} : C[y] = S[y]
<1>1. C = [y \in Servers |-> C[y]] /\ C[s] = q /\ \A y \in Servers \ {s} : C[y] = S[y]
  BY DEF Stacks
<1> QED BY <1>1 DEF Stacks

-----------------------------------------------------------------------------
\* A request or a SERVER_READY on its way has its sender's leave behind it, unless
\* the sender still has the receiver in its list.

FollowedAt(q, listed) ==
    \A i \in 1 .. Len(q) :
        q[i].type # "RES" => listed \/ \E j \in i .. Len(q) : q[j] = ServerDisconnect

Followed(N, R) == \A r, s \in Servers : FollowedAt(N[r][s], Contains(R[r], s))

LEMMA FollowedTail ==
  ASSUME NEW q, IsSeq(q), q # <<>>, NEW b, FollowedAt(q, b)
  PROVE  FollowedAt(Tail(q), b)
<1> DEFINE t == Tail(q)
<1>1. /\ Len(q) \in Nat /\ Len(t) = Len(q) - 1
      /\ \A i \in 1 .. Len(q) - 1 : t[i] = q[i + 1]
  BY TailSeq
<1> HIDE DEF t
<1> SUFFICES ASSUME NEW i \in 1 .. Len(t), t[i].type # "RES", ~b
             PROVE  \E j \in i .. Len(t) : t[j] = ServerDisconnect
  BY DEF FollowedAt, t
<1>2. i + 1 \in 1 .. Len(q) /\ q[i + 1] = t[i]
  BY <1>1
<1>3. PICK j \in i + 1 .. Len(q) : q[j] = ServerDisconnect
  BY <1>2 DEF FollowedAt
<1>4. j - 1 \in i .. Len(t) /\ t[j - 1] = q[(j - 1) + 1] /\ (j - 1) + 1 = j
  BY <1>1, <1>3
<1> QED BY <1>3, <1>4

\* A response may be sent to anyone, anything to those in the list.
LEMMA FollowedAppend ==
  ASSUME NEW q, IsSeq(q), NEW m, NEW b, FollowedAt(q, b), m.type = "RES" \/ b
  PROVE  FollowedAt(Append(q, m), b)
<1> DEFINE t == Append(q, m)
           n == Len(q)
<1>1. n \in Nat /\ Len(t) = n + 1 /\ t[n + 1] = m /\ \A i \in 1 .. n : t[i] = q[i]
  BY AppendSeq
<1> HIDE DEF t
<1> SUFFICES ASSUME NEW i \in 1 .. Len(t), t[i].type # "RES", ~b
             PROVE  \E j \in i .. Len(t) : t[j] = ServerDisconnect
  BY DEF FollowedAt, t
<1>2. i \in 1 .. n /\ q[i] = t[i]
  BY <1>1
<1>3. PICK j \in i .. n : q[j] = ServerDisconnect
  BY <1>2 DEF FollowedAt
<1>4. j \in i .. Len(t) /\ t[j] = q[j]
  BY <1>1, <1>2, <1>3
<1> QED BY <1>3, <1>4

\* SERVER_DISCONNECT follows whatever was sent before.
LEMMA FollowedLast ==
  ASSUME NEW q, IsSeq(q), NEW b
  PROVE  FollowedAt(Append(q, ServerDisconnect), b)
<1> DEFINE t == Append(q, ServerDisconnect)
           n == Len(q)
<1>1. n \in Nat /\ Len(t) = n + 1 /\ t[n + 1] = ServerDisconnect
  BY AppendSeq
<1> HIDE DEF t
<1>2. \A i \in 1 .. Len(t) : n + 1 \in i .. Len(t)
  BY <1>1
<1> QED BY <1>1, <1>2 DEF FollowedAt, t

LEMMA FollowedSend ==
  ASSUME NEW N, NetType(Servers, N), NEW R, Followed(N, R),
         NEW s \in Servers, NEW x \in Servers, NEW m, m.type = "RES" \/ Contains(R[s], x),
         NEW M, M = [N EXCEPT ![s][x] = Append(@, m)]
  PROVE  Followed(M, R)
<1> SUFFICES ASSUME NEW a \in Servers, NEW b \in Servers
             PROVE  FollowedAt(M[a][b], Contains(R[a], b))
  BY DEF Followed
<1>1. FollowedAt(N[a][b], Contains(R[a], b)) /\ IsSeq(N[a][b])
  BY ChannelSeq DEF Followed
<1>2. CASE a = s /\ b = x
  <2>1. M[a][b] = Append(N[a][b], m)
    BY <1>2 DEF NetType
  <2> QED BY <1>1, <1>2, <2>1, FollowedAppend
<1>3. CASE ~(a = s /\ b = x)
  <2>1. M[a][b] = N[a][b]
    BY <1>3 DEF NetType
  <2> QED BY <1>1, <2>1
<1> QED BY <1>2, <1>3

LEMMA FollowedTake ==
  ASSUME NEW N, NetType(Servers, N), NEW R, Followed(N, R),
         NEW r \in Servers, NEW s \in Servers, N[r][s] # <<>>,
         NEW M, M = [N EXCEPT ![r][s] = Tail(@)]
  PROVE  Followed(M, R)
<1> SUFFICES ASSUME NEW a \in Servers, NEW b \in Servers
             PROVE  FollowedAt(M[a][b], Contains(R[a], b))
  BY DEF Followed
<1>1. FollowedAt(N[a][b], Contains(R[a], b)) /\ IsSeq(N[a][b])
  BY ChannelSeq DEF Followed
<1>2. CASE a = r /\ b = s
  <2>1. M[a][b] = Tail(N[a][b]) /\ N[a][b] # <<>>
    BY <1>2 DEF NetType
  <2> QED BY <1>1, <2>1, FollowedTail
<1>3. CASE ~(a = r /\ b = s)
  <2>1. M[a][b] = N[a][b]
    BY <1>3 DEF NetType
  <2> QED BY <1>1, <2>1
<1> QED BY <1>2, <1>3

-----------------------------------------------------------------------------
\* The handlers

\* The call of q that server s has in hand, besides callers, waits for nothing yet.
InHand(N, s, q, callers) ==
    \E S : /\ Stacks(S)
           /\ Pushed([stack EXCEPT ![s] = callers], S, s, q)
           /\ Even(N, S, deferred, {s})

Calm(N) ==
    /\ NetType(Servers, N)
    /\ Stacks(stack)
    /\ Lines(Servers, deferred)
    /\ remote \in [Servers -> Seq(Servers)]
    /\ Followed(N, remote)

\* What a handler leaves behind, unless its process has called exit
Handled(s) ==
    /\ Stacks(stack')
    /\ \A y \in Servers \ {s} : stack'[y] = stack[y]
    /\ Even(net', stack', deferred, {})
    /\ Followed(net', remote)

Exited(N) == failed' /\ net' = N /\ stack' = stack

LEMMA AnswerHandled ==
  ASSUME NEW N, Calm(N), NEW s \in Servers, NEW f, NEW got, NEW callers, Framed(callers),
         InHand(N, s, f.from, callers), Answer(s, f, got, callers, N)
  PROVE  Handled(s) /\ stack'[s] = callers
<1> DEFINE C == [stack EXCEPT ![s] = callers]
           m == Response(f.call, got)
<1>1. PICK S : Stacks(S) /\ Pushed(C, S, s, f.from) /\ Even(N, S, deferred, {s})
  BY DEF InHand
<1>2. Stacks(C) /\ C[s] = callers /\ \A y \in Servers \ {s} : C[y] = stack[y]
  <2>1. C = [stack EXCEPT ![s] = callers]
    OBVIOUS
  <2>2. Stacks(stack)
    BY DEF Calm
  <2> HIDE DEF C
  <2>3. Stacks(C)
    BY <2>1, <2>2, StacksSet
  <2>4. C[s] = callers
    BY <2>1, <2>2 DEF Stacks
  <2>5. \A y \in Servers \ {s} : C[y] = stack[y]
    BY <2>1, <2>2, StacksSet
  <2> QED BY <2>3, <2>4, <2>5
<1>3. stack' = C
  BY DEF Answer
<1>4. Numbers(N, S, deferred) /\ Numbers(N, C, deferred)
  BY <1>1, <1>2, NumbersType DEF Calm
<1> HIDE DEF C
<1>5. CASE f.from \in Servers
  <2>1. net' = [N EXCEPT ![s][f.from] = Append(@, m)]
    BY <1>5 DEF Answer
  <2>2. m.type = "RES"
    BY DEF Response
  <2> HIDE DEF m
  <2>3. NetType(Servers, net') /\ Sent(N, net', s, f.from, "RES")
    BY <1>5, <2>1, <2>2, SentMessage DEF Calm
  <2>4. Numbers(net', C, deferred)
    BY <1>2, <2>3, NumbersType DEF Calm
  <2>5. Even(net', C, deferred, {})
    BY <1>1, <1>4, <1>5, <2>3, <2>4, EvenAnswers
  <2>6. Followed(net', remote)
    BY <1>5, <2>1, <2>2, FollowedSend DEF Calm
  <2> QED BY <1>2, <1>3, <2>5, <2>6 DEF Handled
<1>6. CASE f.from \notin Servers
  <2>1. net' = N
    BY <1>6 DEF Answer
  <2>2. Even(N, C, deferred, {})
    BY <1>1, <1>4, <1>6, EvenReplies
  <2> QED BY <1>2, <1>3, <2>1, <2>2 DEF Handled, Calm
<1> QED BY <1>5, <1>6

\* The server that is asked first is in the list.
LEMMA FirstListed ==
  ASSUME remote \in [Servers -> Seq(Servers)], NEW s \in Servers, NEW call, Routes(s, call) # {}
  PROVE  /\ FirstOf(s, Routes(s, call)) \in Servers
         /\ Contains(remote[s], FirstOf(s, Routes(s, call)))
<1> DEFINE T == Routes(s, call)
           i == CHOOSE i \in T : \A j \in T : i <= j
<1>1. T \subseteq 1 .. Len(remote[s]) /\ remote[s] \in Seq(Servers)
  BY DEF Routes
<1>2. T \in SUBSET Nat /\ T # {}
  BY <1>1
<1>3. FirstOf(s, T) = remote[s][i]
  BY DEF FirstOf
<1> HIDE DEF T
<1>4. i \in T
  BY <1>2, FirstPlace
<1> HIDE DEF i
<1>5. i \in 1 .. Len(remote[s])
  BY <1>1, <1>4
<1> QED BY <1>1, <1>3, <1>5 DEF Contains, T

LEMMA GoOnHandled ==
  ASSUME NEW N, Calm(N), NEW s \in Servers,
         NEW f, f = Frame(f.call, f.from, f.calls, f.nested),
         NEW callers, Framed(callers),
         InHand(N, s, f.from, callers), GoOn(s, f, callers, N)
  PROVE  Exited(N) \/ Handled(s)
<1> DEFINE to == Routes(s, Head(f.calls))
           x == FirstOf(s, to)
           m == Request(Head(f.calls))
<1>1. CASE f.calls = <<>>
  <2>1. Answer(s, f, TRUE, callers, N)
    BY <1>1 DEF GoOn
  <2> QED BY <2>1, AnswerHandled
<1>2. CASE f.calls # <<>> /\ to = {}
  <2>1. Exit(N) \/ Answer(s, f, FALSE, callers, N)
    BY <1>2 DEF GoOn
  <2> QED BY <2>1, AnswerHandled DEF Exit, Exited
<1>3. CASE f.calls # <<>> /\ to # {}
  <2> DEFINE C == [stack EXCEPT ![s] = callers]
             R == [stack EXCEPT ![s] = <<f>> \o callers]
  <2>1. net' = [N EXCEPT ![s][x] = Append(@, m)] /\ stack' = R
    BY <1>3, Zenon DEF GoOn
  <2>2. x \in Servers /\ Contains(remote[s], x)
    BY <1>3, FirstListed DEF Calm
  <2>3. m.type = "REQ"
    BY DEF Request
  <2> HIDE DEF x, m, to
  <2>4. Stacks(C) /\ Stacks(R) /\ Pushed(C, R, s, f.from)
    BY PushedCall DEF Calm
  <2>5. \A y \in Servers \ {s} : R[y] = stack[y]
    BY DEF Calm, Stacks
  <2>6. PICK S : Stacks(S) /\ Pushed(C, S, s, f.from) /\ Even(N, S, deferred, {s})
    BY DEF InHand
  <2> HIDE DEF C, R
  <2>7. Numbers(N, C, deferred) /\ Numbers(N, S, deferred) /\ Numbers(N, R, deferred)
    BY <2>4, <2>6, NumbersType DEF Calm
  <2>8. Even(N, R, deferred, {s})
    BY <2>4, <2>6, <2>7, EvenSwap
  <2>9. NetType(Servers, net') /\ Sent(N, net', s, x, "REQ")
    BY <2>1, <2>2, <2>3, SentMessage DEF Calm
  <2>10. Numbers(net', R, deferred)
    BY <2>4, <2>9, NumbersType DEF Calm
  <2>11. Even(net', R, deferred, {})
    BY <2>2, <2>7, <2>8, <2>9, <2>10, EvenAsks
  <2>12. Followed(net', remote)
    BY <2>1, <2>2, FollowedSend DEF Calm
  <2> QED BY <2>1, <2>4, <2>5, <2>11, <2>12 DEF Handled
<1> QED BY <1>1, <1>2, <1>3

LEMMA HandleHandled ==
  ASSUME NEW N, Calm(N), NEW s \in Servers, NEW call, NEW from, NEW callers, Framed(callers),
         InHand(N, s, from, callers), Handle(s, call, from, callers, N)
  PROVE  Exited(N) \/ Handled(s)
<1>1. \/ \E calls, nested : GoOn(s, Frame(call, from, calls, nested), callers, N)
      \/ Answer(s, Frame(call, from, <<>>, FALSE), FALSE, callers, N)
      \/ Exit(N)
  BY Zenon DEF Handle
<1>2. ASSUME NEW calls, NEW nested
      PROVE  LET f == Frame(call, from, calls, nested) IN
             f.from = from /\ f = Frame(f.call, f.from, f.calls, f.nested)
  BY DEF Frame
<1>3. CASE \E calls, nested : GoOn(s, Frame(call, from, calls, nested), callers, N)
  <2>1. PICK calls, nested : GoOn(s, Frame(call, from, calls, nested), callers, N)
    BY <1>3
  <2> DEFINE f == Frame(call, from, calls, nested)
  <2>2. f.from = from /\ f = Frame(f.call, f.from, f.calls, f.nested)
    BY <1>2
  <2> HIDE DEF f
  <2>3. GoOn(s, f, callers, N)
    BY <2>1 DEF f
  <2>4. InHand(N, s, f.from, callers)
    BY <2>2
  <2> QED BY <2>2, <2>3, <2>4, GoOnHandled
<1>4. CASE Answer(s, Frame(call, from, <<>>, FALSE), FALSE, callers, N)
  <2> DEFINE f == Frame(call, from, <<>>, FALSE)
  <2>1. f.from = from
    BY <1>2
  <2>2. Answer(s, f, FALSE, callers, N)
    BY <1>4
  <2> HIDE DEF f
  <2>3. InHand(N, s, f.from, callers)
    BY <2>1
  <2> QED BY <2>2, <2>3, AnswerHandled
<1>5. CASE Exit(N)
  BY <1>5 DEF Exit, Exited
<1> QED BY <1>1, <1>3, <1>4, <1>5

LEMMA ResponseHandled ==
  ASSUME NEW N, Calm(N), NEW s \in Servers, stack[s] # <<>>, NEW m,
         InHand(N, s, Head(stack[s]).from, Tail(stack[s])), ReceiveResponse(s, m, N)
  PROVE  Exited(N) \/ Handled(s)
<1> DEFINE f == Head(stack[s])
           g == [f EXCEPT !.calls = Tail(@)]
           callers == Tail(stack[s])
<1>1. f = Frame(f.call, f.from, f.calls, f.nested) /\ Framed(callers)
  BY TopCall DEF Calm, Stacks
<1>2. \/ GoOn(s, g, callers, N)
      \/ Answer(s, f, FALSE, callers, N)
      \/ Exit(N)
  BY Zenon DEF ReceiveResponse
<1>3. InHand(N, s, f.from, callers)
  OBVIOUS
<1> HIDE DEF f
<1>4. g.from = f.from /\ g = Frame(g.call, g.from, g.calls, g.nested)
  <2>1. PICK c, from, calls, nested : f = Frame(c, from, calls, nested)
    BY <1>1
  <2>2. g = Frame(c, from, Tail(calls), nested)
    <3>1. g = [Frame(c, from, calls, nested) EXCEPT !.calls = Tail(@)]
      BY <2>1
    <3>2. \A x : [Frame(c, from, calls, nested) EXCEPT !.calls = x]
                    = Frame(c, from, x, nested)
      BY DEF Frame
    <3>3. Frame(c, from, calls, nested).calls = calls
      BY DEF Frame
    <3> QED BY <3>1, <3>2, <3>3
  <2> HIDE DEF g
  <2> QED BY <2>1, <2>2 DEF Frame
<1> HIDE DEF g, callers
<1>5. CASE GoOn(s, g, callers, N)
  <2>1. InHand(N, s, g.from, callers)
    BY <1>3, <1>4
  <2> QED BY <1>1, <1>4, <1>5, <2>1, GoOnHandled
<1>6. CASE Answer(s, f, FALSE, callers, N)
  BY <1>1, <1>3, <1>6, AnswerHandled
<1>7. CASE Exit(N)
  BY <1>7 DEF Exit, Exited
<1> QED BY <1>2, <1>5, <1>6, <1>7

\* A server that has no routes never waits.
LEMMA NeverWaits ==
  ASSUME NEW N, NEW s \in Servers, DOMAIN stack = Servers, remote[s] = <<>>,
         NEW call, NEW from, Handle(s, call, from, <<>>, N)
  PROVE  Exited(N) \/ stack'[s] = <<>>
<1>1. \A c : Routes(s, c) = {}
  BY DEF Routes
<1>2. ASSUME NEW f, NEW got, Answer(s, f, got, <<>>, N)
      PROVE  stack'[s] = <<>>
  BY <1>2 DEF Answer
<1>3. ASSUME NEW f, GoOn(s, f, <<>>, N)
      PROVE  Exit(N) \/ \E got : Answer(s, f, got, <<>>, N)
  BY <1>1, <1>3 DEF GoOn
<1>4. \/ \E f : GoOn(s, f, <<>>, N)
      \/ \E f : Answer(s, f, FALSE, <<>>, N)
      \/ Exit(N)
  BY Zenon DEF Handle
<1> QED BY <1>2, <1>3, <1>4 DEF Exit, Exited

\* The request of q has been taken: its call is in hand.
LEMMA TakenInHand ==
  ASSUME NEW N, NEW M, NetType(Servers, N), NetType(Servers, M),
         Stacks(stack), Lines(Servers, deferred), NEW s \in Servers, NEW q,
         Even(N, stack, deferred, {}),
         \/ q \in Servers /\ Sent(M, N, q, s, "REQ")
         \/ q \notin Servers /\ M = N
  PROVE  InHand(M, s, q, stack[s])
<1> DEFINE f == Frame(<<>>, q, <<>>, FALSE)
           p == stack[s]
           C == [stack EXCEPT ![s] = p]
           S == [stack EXCEPT ![s] = <<f>> \o p]
<1>1. f.from = q /\ f = Frame(f.call, f.from, f.calls, f.nested)
  BY DEF Frame
<1>2. C = stack
  BY DEF Stacks
<1>3. Framed(p)
  BY DEF Stacks
<1> HIDE DEF f, p
<1>4. Stacks(S) /\ Pushed(C, S, s, f.from)
  BY <1>1, <1>3, PushedCall
<1> HIDE DEF S, C
<1>5. Stacks(S) /\ Pushed(stack, S, s, q)
  BY <1>1, <1>2, <1>4
<1>6. /\ Numbers(N, stack, deferred) /\ Numbers(N, S, deferred)
      /\ Numbers(M, S, deferred)
  BY <1>5, NumbersType
<1>7. Even(M, S, deferred, {s})
  <2>1. CASE q \in Servers /\ Sent(M, N, q, s, "REQ")
    BY <1>5, <1>6, <2>1, EvenAsked
  <2>2. CASE q \notin Servers /\ M = N
    BY <1>5, <1>6, <2>2, EvenClient
  <2> QED BY <2>1, <2>2
<1>8. Pushed(C, S, s, q)
  BY <1>1, <1>4
<1> QED BY <1>5, <1>7, <1>8 DEF InHand, C, p

\* The response has been taken: the call that waited for it is in hand.
LEMMA HeardInHand ==
  ASSUME NEW N, NEW M, NetType(Servers, N), NetType(Servers, M),
         Stacks(stack), Lines(Servers, deferred), NEW s \in Servers, stack[s] # <<>>,
         NEW r \in Servers, Even(N, stack, deferred, {}), Sent(M, N, r, s, "RES")
  PROVE  InHand(M, s, Head(stack[s]).from, Tail(stack[s]))
<1> DEFINE f == Head(stack[s])
           q == Tail(stack[s])
           C == [stack EXCEPT ![s] = q]
           S == [stack EXCEPT ![s] = <<f>> \o q]
<1>1. f = Frame(f.call, f.from, f.calls, f.nested) /\ Framed(q) /\ stack[s] = <<f>> \o q
  BY TopCall DEF Stacks
<1> HIDE DEF f, q
<1>2. S = stack
  BY <1>1 DEF Stacks
<1>3. Pushed(C, S, s, f.from)
  BY <1>1, PushedCall
<1>4. Numbers(N, stack, deferred) /\ Numbers(M, stack, deferred)
  BY NumbersType
<1>5. Even(M, stack, deferred, {s})
  BY <1>4, EvenHeard
<1> HIDE DEF S
<1>6. Pushed(C, stack, s, f.from)
  BY <1>2, <1>3
<1> QED BY <1>5, <1>6 DEF InHand, f, q

-----------------------------------------------------------------------------
\* The invariant: what the servers still owe each other, as long as no process has
\* called exit, and that those that have left the loop owe nothing

NoRequestAside == \A s \in Servers : \A i \in 1 .. Len(deferred[s]) :
                      deferred[s][i].msg.type # "REQ"

Gone ==
    /\ DOMAIN mode = Servers
    /\ \A s \in Servers : mode[s] # "active" =>
                            remote[s] = <<>> /\ stack[s] = <<>> /\ peers[s] = 0

Alive ==
    /\ Stacks(stack)
    /\ Even(net, stack, deferred, {})
    /\ Followed(net, remote)
    /\ NoRequestAside
    /\ Gone

LEMMA AliveTypes ==
  ASSUME IInv
  PROVE  /\ NetType(Servers, net)
         /\ DeferredType(Servers, deferred) /\ Lines(Servers, deferred)
         /\ remote \in [Servers -> Seq(Servers)] /\ peers \in [Servers -> Nat]
BY AsideLines DEF IInv, Good, Announced, MailTypes

\* Nobody waits for a server that has left the loop, or has anything for it.
LEMMA AliveStopsLast == IInv /\ Alive => StopsLast
<1> SUFFICES ASSUME IInv, Alive, NEW s \in Servers, mode[s] # "active",
                    NEW r \in Servers
             PROVE  /\ stack[s] = <<>>
                    /\ ~Contains(remote[r], s)
                    /\ net[r][s] = <<>>
                    /\ \A i \in DOMAIN stack[r] : stack[r][i].from # s
  BY DEF StopsLast, Alive, Gone
<1>1. remote[s] = <<>> /\ stack[s] = <<>> /\ peers[s] = 0
  BY DEF Alive, Gone
<1>2. ~Contains(remote[r], s) /\ ~Contains(net[r][s], ServerDisconnect)
  <2> DEFINE E == Expected(Servers, ServerDisconnect, net, Listed, deferred, s)
  <2>1. Cardinality(E) = 0
    BY <1>1 DEF IInv, Good, Announced, AllCount
  <2>2. IsFiniteSet(E)
    <3>1. E \subseteq Servers
      BY DEF Expected
    <3> HIDE DEF E
    <3> QED BY <3>1, ServersFinite, FS_Subset
  <2> HIDE DEF E
  <2>3. E = {}
    BY <2>1, <2>2, FS_EmptySet
  <2>4. CASE r # s
    BY <2>3, <2>4 DEF E, Expected, Told, Listed
  <2>5. CASE r = s
    BY <2>5 DEF IInv, Good, Announced, AllTellOnce, Told, Listed
  <2> QED BY <2>4, <2>5
<1> DEFINE f == LoadOf(net, stack, s)
<1>3. Numbers(net, stack, deferred)
  BY AliveTypes, NumbersType DEF Alive
<1>4. f[r] = 0
  <2>1. \A b \in Servers : f[b] \in Nat
    BY <1>3, LoadsNat
  <2>2. IsFiniteSet(Units(Servers, f)) /\ SumOver(Servers, f) + AsideOf(deferred, s) + OneIf(s \in {}) = Len(stack[s])
    BY DEF Alive, Even
  <2>3. AsideOf(deferred, s) \in Nat
    BY <1>3 DEF Numbers, NumbersAt
  <2>4. OneIf(s \in {}) = 0
    BY DEF OneIf
  <2>5. Len(stack[s]) = 0
    BY <1>1
  <2> HIDE DEF f
  <2>6. SumOver(Servers, f) = 0
    BY <2>2, <2>3, <2>4, <2>5, SumNat
  <2> QED BY <2>1, <2>2, <2>6, SumZero
<1>5. NumOf(stack[r], "from", s) = 0 /\ NumOf(net[r][s], "type", "RES") = 0
  <2>1. NumbersAt(net, stack, deferred, s, r) /\ NumbersAt(net, stack, deferred, r, s)
    BY <1>3 DEF Numbers
  <2>2. Load(net, stack, s, r) = 0
    BY <1>4 DEF LoadOf
  <2> QED BY <2>1, <2>2 DEF Load, NumbersAt
<1>6. IsSeq(net[r][s]) /\ IsSeq(stack[r])
  BY AliveTypes, ChannelSeq DEF Alive, Stacks, Framed
<1>7. net[r][s] = <<>>
  <2>1. \A i \in 1 .. Len(net[r][s]) : net[r][s][i]["type"] # "RES"
    BY <1>5, <1>6, NumNat
  <2>2. FollowedAt(net[r][s], Contains(remote[r], s))
    BY DEF Alive, Followed
  <2>3. Len(net[r][s]) \in Nat
    BY <1>6 DEF IsSeq
  <2>4. ~(1 \in 1 .. Len(net[r][s]))
    <3> SUFFICES ASSUME 1 \in 1 .. Len(net[r][s]) PROVE FALSE
      OBVIOUS
    <3>1. net[r][s][1].type # "RES"
      BY <2>1
    <3>2. \E j \in 1 .. Len(net[r][s]) : net[r][s][j] = ServerDisconnect
      BY <1>2, <2>2, <3>1 DEF FollowedAt
    <3> QED BY <1>2, <3>2 DEF Contains
  <2>5. Len(net[r][s]) = 0
    BY <2>3, <2>4
  <2> QED BY <1>6, <2>5 DEF IsSeq
<1>8. \A i \in DOMAIN stack[r] : stack[r][i].from # s
  <2>1. \A i \in 1 .. Len(stack[r]) : stack[r][i]["from"] # s
    BY <1>5, <1>6, NumNat
  <2>2. DOMAIN stack[r] = 1 .. Len(stack[r])
    BY <1>6 DEF IsSeq
  <2> QED BY <2>1, <2>2
<1> QED BY <1>1, <1>2, <1>7, <1>8

LEMMA AliveInit == Init => Alive
<1> SUFFICES ASSUME Init PROVE Alive
  OBVIOUS
<1>1. IInv
  BY InitInvariant
<1>2. /\ stack = [s \in Servers |-> <<>>] /\ deferred = [s \in Servers |-> <<>>]
      /\ net = [s \in Servers |-> [r \in Servers |-> IF r = s THEN <<>> ELSE <<ServerReady>>]]
      /\ mode = [s \in Servers |-> "active"]
  BY DEF Init
<1>3. Stacks(stack)
  <2>1. Framed(<<>>)
    BY DEF Framed, IsSeq
  <2> QED BY <1>2, <2>1 DEF Stacks
<1>4. Even(net, stack, deferred, {})
  <2>1. IsSeq(<<>>) /\ IsSeq(<<ServerReady>>)
    <3>1. <<>> \in Seq({ServerReady}) /\ <<ServerReady>> \in Seq({ServerReady})
      OBVIOUS
    <3> QED BY <3>1 DEF IsSeq
  <2>2. \A x, v : NumOf(<<>>, x, v) = 0
    BY <2>1, NumNat
  <2>3. /\ NumOf(<<ServerReady>>, "type", "REQ") = 0
        /\ NumOf(<<ServerReady>>, "type", "RES") = 0
    <3>1. \A i \in 1 .. Len(<<ServerReady>>) :
            <<ServerReady>>[i]["type"] # "REQ" /\ <<ServerReady>>[i]["type"] # "RES"
      BY DEF ServerReady
    <3> QED BY <2>1, <3>1, NumNat
  <2>4. ASSUME NEW a \in Servers, NEW b \in Servers PROVE Load(net, stack, a, b) = 0
    <3>1. /\ net[a][b] = <<>> \/ net[a][b] = <<ServerReady>>
          /\ net[b][a] = <<>> \/ net[b][a] = <<ServerReady>>
          /\ stack[b] = <<>>
      BY <1>2
    <3> QED BY <2>2, <2>3, <3>1 DEF Load
  <2>5. ASSUME NEW a \in Servers
        PROVE  /\ IsFiniteSet(Units(Servers, LoadOf(net, stack, a)))
               /\ SumOver(Servers, LoadOf(net, stack, a)) + AsideOf(deferred, a) + OneIf(a \in {})
                    = Len(stack[a])
    <3>1. \A b \in Servers : LoadOf(net, stack, a)[b] = 0
      BY <2>4 DEF LoadOf
    <3>2. Fields(<<>>, "msg") = <<>>
      <4>1. IsSeq(Fields(<<>>, "msg")) /\ Len(Fields(<<>>, "msg")) = 0
        BY <2>1, FieldsSeq
      <4> QED BY <4>1 DEF IsSeq
    <3>3. AsideOf(deferred, a) = 0
      BY <1>2, <2>2, <3>2 DEF AsideOf
    <3>4. OneIf(a \in {}) = 0 /\ Len(stack[a]) = 0
      BY <1>2 DEF OneIf
    <3> QED BY <3>1, <3>3, <3>4, SumNone
  <2> QED BY <2>5 DEF Even
<1>5. Followed(net, remote)
  <2> SUFFICES ASSUME NEW r \in Servers, NEW s \in Servers
               PROVE  FollowedAt(net[r][s], Contains(remote[r], s))
    BY DEF Followed
  <2>1. CASE r = s
    BY <1>2, <2>1 DEF FollowedAt
  <2>2. CASE r # s
    <3>1. ToSet(remote[r]) = Servers \ {r} /\ remote[r] \in Seq(Servers)
      BY LifecycleAssumption DEF Init
    <3>2. DOMAIN remote[r] = 1 .. Len(remote[r])
      BY <3>1
    <3>3. Contains(remote[r], s)
      BY <2>2, <3>1, <3>2 DEF ToSet, Contains
    <3> QED BY <3>3 DEF FollowedAt
  <2> QED BY <2>1, <2>2
<1> QED BY <1>2, <1>3, <1>4, <1>5 DEF Alive, NoRequestAside, Gone

-----------------------------------------------------------------------------
\* The steps

\* A server that takes leave tells those in its list, and has none in it any more.
LEMMA LeaveAlive ==
  ASSUME NEW s \in Servers, NEW N, NetType(Servers, N), NetType(Servers, net'),
         NEW S, Stacks(S), NEW F, Lines(Servers, F),
         remote \in [Servers -> Seq(Servers)],
         Even(N, S, F, {}), Followed(N, remote), Disconnect(s, N)
  PROVE  /\ Even(net', S, F, {}) /\ Followed(net', remote')
         /\ remote'[s] = <<>> /\ \A y \in Servers \ {s} : remote'[y] = remote[y]
<1> DEFINE d == ServerDisconnect
<1>1. /\ \A y \in Servers : net'[s][y] = IF Contains(remote[s], y) THEN Append(N[s][y], d)
                                                                   ELSE N[s][y]
      /\ \A x \in Servers \ {s} : net'[x] = N[x]
  BY DEF Disconnect, NetType
<1>2. remote'[s] = <<>> /\ \A y \in Servers \ {s} : remote'[y] = remote[y]
  BY DEF Disconnect
<1>3. \A a, b \in Servers : IsSeq(N[a][b])
  BY ChannelSeq
<1>4. \A a, b \in Servers : net'[a][b] = N[a][b] \/ net'[a][b] = Append(N[a][b], d)
  BY <1>1
<1> HIDE DEF d
<1>5. ASSUME NEW a \in Servers, NEW b \in Servers, NEW t \in {"REQ", "RES"}
      PROVE  NumOf(net'[a][b], "type", t) = NumOf(N[a][b], "type", t)
  <2>1. CASE net'[a][b] = N[a][b]
    BY <2>1
  <2>2. CASE net'[a][b] = Append(N[a][b], d)
    <3>1. d["type"] # t
      BY DEF d, ServerDisconnect
    <3>2. NumOf(N[a][b], "type", t) \in Nat
      BY <1>3, NumNat
    <3>3. OneIf(d["type"] = t) = 0
      BY <3>1 DEF OneIf
    <3>4. NumOf(Append(N[a][b], d), "type", t) = NumOf(N[a][b], "type", t) + OneIf(d["type"] = t)
      BY <1>3, NumAppend
    <3> QED BY <2>2, <3>2, <3>3, <3>4
  <2> QED BY <1>4, <2>1, <2>2
<1>6. Even(net', S, F, {})
  <2>1. SameLoads(N, S, net', S)
    BY <1>5 DEF SameLoads, Load
  <2>2. Numbers(N, S, F) /\ Numbers(net', S, F)
    BY NumbersType
  <2>3. ASSUME NEW a \in Servers PROVE MatchAt(S, F, {}, S, F, {}, a, 0)
    <3>1. NumbersAt(N, S, F, a, a)
      BY <2>2 DEF Numbers
    <3> QED BY <3>1 DEF NumbersAt, MatchAt, OneIf
  <2> QED BY <2>1, <2>2, <2>3, EvenSame DEF MatchSame
<1>7. ASSUME NEW a \in Servers, NEW b \in Servers
      PROVE  FollowedAt(net'[a][b], Contains(remote'[a], b))
  <2>1. FollowedAt(N[a][b], Contains(remote[a], b))
    BY DEF Followed
  <2>2. CASE a # s
    BY <1>1, <1>2, <2>1, <2>2
  <2>3. CASE a = s /\ Contains(remote[s], b)
    <3>1. net'[a][b] = Append(N[a][b], ServerDisconnect)
      BY <1>1, <2>3 DEF d
    <3> QED BY <1>3, <3>1, FollowedLast
  <2>4. CASE a = s /\ ~Contains(remote[s], b)
    <3>1. net'[a][b] = N[a][b]
      BY <1>1, <2>4
    <3>2. \A x : ~Contains(<<>>, x)
      BY DEF Contains
    <3>3. Contains(remote[a], b) = FALSE /\ Contains(remote'[a], b) = FALSE
      BY <1>2, <2>4, <3>2 DEF Contains
    <3> QED BY <2>1, <3>1, <3>3
  <2> QED BY <2>2, <2>3, <2>4
<1> QED BY <1>2, <1>6, <1>7 DEF Followed

\* As long as nothing else changes than what the clients have and are told
LEMMA AliveSame ==
  ASSUME Alive, net' = net, stack' = stack, deferred' = deferred, remote' = remote,
         mode' = mode, peers' = peers
  PROVE  Alive'
BY DEF Alive, NoRequestAside, Gone

\* The messages put aside, when one is taken and when one is added
LEMMA AsideNoRequest ==
  ASSUME IInv, NoRequestAside, NEW s \in Servers, NEW e,
         \/ deferred[s] # <<>> /\ deferred' = [deferred EXCEPT ![s] = Tail(@)]
         \/ deferred' = [deferred EXCEPT ![s] = Append(@, e)] /\ e.msg.type # "REQ"
         \/ deferred' = deferred
  PROVE  NoRequestAside'
<1>1. DOMAIN deferred = Servers /\ IsSeq(deferred[s])
  BY AliveTypes, LineSeq DEF DeferredType
<1> SUFFICES ASSUME NEW y \in Servers, NEW i \in 1 .. Len(deferred'[y])
             PROVE  deferred'[y][i].msg.type # "REQ"
  BY DEF NoRequestAside
<1>2. CASE deferred'[y] = deferred[y]
  BY <1>2 DEF NoRequestAside
<1>3. CASE y = s /\ deferred[s] # <<>> /\ deferred' = [deferred EXCEPT ![s] = Tail(@)]
  <2> DEFINE q == deferred[s]
             t == Tail(q)
  <2>1. deferred'[y] = t
    BY <1>1, <1>3
  <2>2. Len(q) \in Nat /\ Len(t) = Len(q) - 1 /\ \A j \in 1 .. Len(q) - 1 : t[j] = q[j + 1]
    BY <1>1, <1>3, TailSeq
  <2>3. \A j \in 1 .. Len(q) : q[j].msg.type # "REQ"
    BY DEF NoRequestAside
  <2> HIDE DEF q, t
  <2>4. i + 1 \in 1 .. Len(q) /\ t[i] = q[i + 1]
    BY <2>1, <2>2
  <2> QED BY <2>1, <2>3, <2>4
<1>4. CASE y = s /\ deferred' = [deferred EXCEPT ![s] = Append(@, e)] /\ e.msg.type # "REQ"
  <2> DEFINE q == deferred[s]
             t == Append(q, e)
  <2>1. deferred'[y] = t
    BY <1>1, <1>4
  <2>2. Len(q) \in Nat /\ Len(t) = Len(q) + 1 /\ t[Len(q) + 1] = e /\ \A j \in 1 .. Len(q) : t[j] = q[j]
    BY <1>1, AppendSeq
  <2>3. \A j \in 1 .. Len(q) : q[j].msg.type # "REQ"
    BY DEF NoRequestAside
  <2> HIDE DEF q, t
  <2>4. i \in 1 .. Len(q) \/ i = Len(q) + 1
    BY <2>1, <2>2
  <2> QED BY <1>4, <2>1, <2>2, <2>3, <2>4
<1>5. CASE y # s
  BY <1>1, <1>2, <1>5
<1> QED BY <1>2, <1>3, <1>4, <1>5

\* A SERVER_READY or SERVER_DISCONNECT is processed.
LEMMA AnnouncementAlive ==
  ASSUME IInv, IInv', Stacks(stack), Gone, NoRequestAside',
         NEW s \in Servers, stack[s] = <<>>,
         NEW m, m.type # "REQ", NEW from, NEW N, NetType(Servers, N),
         Even(N, stack, deferred', {}), Followed(N, remote),
         ProcessOf(s, m, from, <<>>, N)
  PROVE  Alive'
<1>1. /\ NetType(Servers, net') /\ Lines(Servers, deferred')
      /\ remote \in [Servers -> Seq(Servers)]
      /\ peers' \in [Servers -> Nat] /\ peers \in [Servers -> Nat]
  <2>1. NetType(Servers, net') /\ DeferredType(Servers, deferred') /\ peers' \in [Servers -> Nat]
    BY DEF IInv, Good, Announced, MailTypes
  <2> QED BY <2>1, AliveTypes, AsideLines
<1>2. CASE m = ServerReady
  <2>1. /\ net' = N /\ remote' = remote /\ peers' = peers /\ stack' = stack /\ mode' = mode
    BY <1>2, OtherMessages DEF ProcessOf, ServerReady
  <2>2. Gone'
    BY <2>1 DEF Gone
  <2> QED BY <2>1, <2>2 DEF Alive
<1>3. CASE PeerLeaves(s, N) /\ stack' = stack
  <2> DEFINE last == peers[s] - 1 = 0 /\ members[s] = {}
  <2>1. peers' = [peers EXCEPT ![s] = @ - 1]
    BY <1>3 DEF PeerLeaves
  <2>2. mode' = [mode EXCEPT ![s] = IF last THEN "inactive" ELSE @]
    BY <1>3 DEF PeerLeaves, Stop
  <2>3. IF last THEN Disconnect(s, N) ELSE net' = N /\ remote' = remote
    BY <1>3 DEF PeerLeaves
  <2>4. CASE last
    <3>1. /\ Even(net', stack, deferred', {}) /\ Followed(net', remote')
          /\ remote'[s] = <<>> /\ \A y \in Servers \ {s} : remote'[y] = remote[y]
      BY <1>1, <2>3, <2>4, LeaveAlive
    <3>2. peers'[s] = 0
      BY <1>1, <2>1, <2>4
    <3>3. Gone'
      <4>1. DOMAIN mode' = Servers
        BY <2>2 DEF Gone
      <4>2. ASSUME NEW y \in Servers, mode'[y] # "active"
            PROVE  remote'[y] = <<>> /\ stack'[y] = <<>> /\ peers'[y] = 0
        <5>1. CASE y = s
          BY <1>3, <3>1, <3>2, <5>1
        <5>2. CASE y # s
          <6>1. mode'[y] = mode[y] /\ peers'[y] = peers[y] /\ remote'[y] = remote[y]
            BY <1>1, <2>1, <2>2, <3>1, <5>2 DEF Gone
          <6> QED BY <1>3, <4>2, <6>1 DEF Gone
        <5> QED BY <5>1, <5>2
      <4> QED BY <4>1, <4>2 DEF Gone
    <3> QED BY <1>3, <3>1, <3>3 DEF Alive
  <2>5. CASE ~last
    <3>1. net' = N /\ remote' = remote
      BY <2>3, <2>5
    <3>2. mode' = [mode EXCEPT ![s] = @]
      BY <2>2, <2>5
    <3>3. mode[s] = "active"
      <4>1. peers'[s] = peers[s] - 1 /\ peers'[s] \in Nat /\ peers[s] \in Nat
        BY <1>1, <2>1
      <4>2. peers[s] # 0
        BY <4>1
      <4> QED BY <4>2 DEF Gone
    <3>4. Gone'
      <4>1. DOMAIN mode' = Servers /\ \A y \in Servers : mode'[y] = mode[y]
        BY <3>2 DEF Gone
      <4>2. ASSUME NEW y \in Servers, mode'[y] # "active"
            PROVE  remote'[y] = <<>> /\ stack'[y] = <<>> /\ peers'[y] = 0
        <5>1. y # s /\ mode[y] # "active"
          BY <3>3, <4>1, <4>2
        <5>2. peers'[y] = peers[y]
          BY <1>1, <2>1, <5>1
        <5> QED BY <1>3, <3>1, <5>1, <5>2 DEF Gone
      <4> QED BY <4>1, <4>2 DEF Gone
    <3> QED BY <1>3, <3>1, <3>4 DEF Alive
  <2> QED BY <2>4, <2>5
<1> QED BY <1>2, <1>3 DEF ProcessOf

\* A request is handled, or the response that was waited for.
LEMMA RequestAlive ==
  ASSUME Alive, NEW s \in Servers, NEW call, NEW from, NEW N, Calm(N),
         InHand(N, s, from, stack[s]), Handle(s, call, from, stack[s], N),
         deferred' = deferred, remote' = remote, peers' = peers, mode' = mode
  PROVE  Exited(N) \/ Alive'
<1> SUFFICES ASSUME ~Exited(N) PROVE Alive'
  OBVIOUS
<1>1. Framed(stack[s]) /\ DOMAIN stack = Servers
  BY DEF Calm, Stacks
<1>2. Handled(s)
  BY <1>1, HandleHandled
<1>3. ASSUME NEW y \in Servers, mode[y] # "active" PROVE stack'[y] = <<>>
  <2>1. stack[y] = <<>> /\ remote[y] = <<>>
    BY <1>3 DEF Alive, Gone
  <2>2. CASE y = s
    <3>1. Handle(s, call, from, <<>>, N)
      BY <2>1, <2>2
    <3> QED BY <1>1, <2>1, <2>2, <3>1, NeverWaits
  <2>3. CASE y # s
    BY <1>2, <2>1, <2>3 DEF Handled
  <2> QED BY <2>2, <2>3
<1>4. Gone'
  BY <1>3 DEF Alive, Gone
<1>5. NoRequestAside'
  BY DEF Alive, NoRequestAside
<1> QED BY <1>2, <1>4, <1>5 DEF Handled, Alive

LEMMA ResponseAlive ==
  ASSUME Alive, NEW s \in Servers, stack[s] # <<>>, NEW m, NEW N, Calm(N),
         InHand(N, s, Head(stack[s]).from, Tail(stack[s])), ReceiveResponse(s, m, N),
         deferred' = deferred, remote' = remote, peers' = peers, mode' = mode
  PROVE  Exited(N) \/ Alive'
<1> SUFFICES ASSUME ~Exited(N) PROVE Alive'
  OBVIOUS
<1>1. Handled(s)
  BY ResponseHandled
<1>2. Gone'
  <2>1. \A y \in Servers : mode[y] # "active" => y # s
    BY DEF Alive, Gone
  <2> QED BY <1>1, <2>1 DEF Handled, Alive, Gone
<1>3. NoRequestAside'
  BY DEF Alive, NoRequestAside
<1> QED BY <1>1, <1>2, <1>3 DEF Handled, Alive

\* A process that calls exit has taken a message at most.
LEMMA ExitedStopsLast ==
  ASSUME StopsLast, NEW N, Exited(N), remote' = remote, mode' = mode,
         \/ N = net
         \/ \E r, s \in Servers : /\ NetType(Servers, net) /\ net[r][s] # <<>>
                                  /\ N = [net EXCEPT ![r][s] = Tail(@)]
  PROVE  failed' /\ StopsLast'
<1>1. \A x, y \in Servers : net[x][y] = <<>> => net'[x][y] = <<>>
  <2>1. CASE N = net
    BY <2>1 DEF Exited
  <2>2. CASE \E r, s \in Servers : /\ NetType(Servers, net) /\ net[r][s] # <<>>
                                   /\ N = [net EXCEPT ![r][s] = Tail(@)]
    <3>1. PICK r \in Servers, s \in Servers :
            /\ NetType(Servers, net) /\ net[r][s] # <<>>
            /\ N = [net EXCEPT ![r][s] = Tail(@)]
      BY <2>2
    <3>2. \A x, y \in Servers : N[x][y] = net[x][y] \/ (x = r /\ y = s)
      BY <3>1 DEF NetType
    <3> QED BY <3>1, <3>2 DEF Exited
  <2> QED BY <2>1, <2>2
<1> QED BY <1>1 DEF StopsLast, Exited

\* How a step of an alive program may end
After == Alive' \/ (failed' /\ StopsLast')

LEMMA ListenServerAlive ==
  ASSUME IInv, IInv', Alive, NEW s \in Servers, NEW r \in Servers, ListenServer(s, r)
  PROVE  After
<1> DEFINE m == Head(net[r][s])
           N == [net EXCEPT ![r][s] = Tail(@)]
<1>1. /\ stack[s] = <<>> /\ net[r][s] # <<>>
      /\ ProcessOf(s, m, r, <<>>, N)
      /\ deferred' = deferred
  BY DEF ListenServer, Idle
<1>2. NetType(Servers, N) /\ Sent(N, net, r, s, m.type) /\ Followed(N, remote)
  BY <1>1, AliveTypes, TakenMessage, FollowedTake DEF Alive
<1>3. Calm(N)
  BY <1>2, AliveTypes DEF Calm, Alive
<1>4. N = [net EXCEPT ![r][s] = Tail(@)]
  OBVIOUS
<1> HIDE DEF m, N
<1>5. CASE m.type = "REQ"
  <2>1. InHand(N, s, r, stack[s])
    BY <1>2, <1>5, AliveTypes, TakenInHand DEF Alive
  <2>2. Handle(s, m.call, r, stack[s], N) /\ remote' = remote /\ peers' = peers /\ mode' = mode
    BY <1>1, <1>5 DEF ProcessOf, links, ServerReady, ServerDisconnect
  <2>3. Exited(N) \/ Alive'
    BY <1>1, <1>3, <2>1, <2>2, RequestAlive
  <2>4. Exited(N) => failed' /\ StopsLast'
    BY <1>1, <1>4, <2>2, AliveStopsLast, AliveTypes, ExitedStopsLast
  <2> QED BY <2>3, <2>4 DEF After
<1>6. CASE m.type # "REQ"
  <2>1. m = ServerReady \/ m = ServerDisconnect
    BY <1>1, <1>6 DEF ProcessOf
  <2>2. m.type \notin {"REQ", "RES"}
    BY <2>1 DEF ServerReady, ServerDisconnect
  <2>3. Numbers(net, stack, deferred) /\ Numbers(N, stack, deferred)
    BY <1>2, AliveTypes, NumbersType DEF Alive
  <2>4. Even(N, stack, deferred, {})
    BY <1>2, <2>2, <2>3, EvenOther DEF Alive
  <2>5. NoRequestAside'
    BY <1>1 DEF Alive, NoRequestAside
  <2>6. Alive'
    BY <1>1, <1>2, <1>6, <2>4, <2>5, AnnouncementAlive DEF Alive
  <2> QED BY <2>6 DEF After
<1> QED BY <1>5, <1>6

LEMMA ReprocessAlive ==
  ASSUME IInv, IInv', Alive, NEW s \in Servers, Reprocess(s)
  PROVE  After
<1> DEFINE e == Head(deferred[s])
           m == e.msg
           G == [deferred EXCEPT ![s] = Tail(@)]
<1>1. /\ stack[s] = <<>> /\ deferred[s] # <<>>
      /\ ProcessOf(s, m, e.from, <<>>, net)
      /\ deferred' = G
  BY DEF Reprocess, Idle
<1>2. m.type # "REQ"
  <2>1. IsSeq(deferred[s])
    BY AliveTypes, LineSeq
  <2>2. Len(deferred[s]) \in Nat /\ Len(deferred[s]) > 0 /\ e = deferred[s][1]
    BY <1>1, <2>1, TailSeq
  <2> QED BY <2>2 DEF Alive, NoRequestAside
<1>3. m = ServerReady \/ m = ServerDisconnect
  BY <1>1, <1>2 DEF ProcessOf
<1>4. m.type # "RES"
  BY <1>3 DEF ServerReady, ServerDisconnect
<1>5. \A a \in Servers : AsideOf(G, a) = AsideOf(deferred, a)
  <2>1. DeferredType(Servers, deferred) /\ Head(deferred[s]).msg.type # "RES"
    BY <1>4, AliveTypes
  <2>2. G = [deferred EXCEPT ![s] = Tail(@)]
    OBVIOUS
  <2> HIDE DEF e, m, G
  <2> TAKE a \in Servers
  <2> QED BY <1>1, <2>1, <2>2, AsideLess
<1>6. Lines(Servers, G)
  BY <1>1, AliveTypes, AsideType, AsideLines
<1>7. NoRequestAside'
  BY <1>1, AsideNoRequest DEF Alive
<1> HIDE DEF e, m, G
<1>8. Numbers(net, stack, deferred) /\ Numbers(net, stack, G)
  BY <1>6, AliveTypes, NumbersType DEF Alive
<1>9. Even(net, stack, G, {})
  BY <1>5, <1>8, EvenSameAside DEF Alive
<1>10. Alive'
  BY <1>1, <1>2, <1>7, <1>9, AliveTypes, AnnouncementAlive DEF Alive
<1> QED BY <1>10 DEF After

LEMMA ListenClientAlive ==
  ASSUME IInv, IInv', Alive, NEW s \in Servers, NEW k \in Clients, ListenClient(s, k)
  PROVE  After
<1> DEFINE m == Head(inbox[k])
<1>1. stack[s] = <<>> /\ deferred' = deferred
  BY DEF ListenClient, Idle
<1>2. \/ /\ net' = net /\ stack' = stack /\ remote' = remote /\ mode' = mode /\ peers' = peers
      \/ ClientLeaves(s, k) /\ stack' = stack
      \/ /\ Handle(s, m.call, k, <<>>, net)
         /\ remote' = remote /\ peers' = peers /\ mode' = mode
  BY DEF ListenClient, links
<1> HIDE DEF m
<1>3. CASE /\ net' = net /\ stack' = stack /\ remote' = remote /\ mode' = mode /\ peers' = peers
  BY <1>1, <1>3, AliveSame DEF After
<1>4. CASE ClientLeaves(s, k) /\ stack' = stack
  <2>1. /\ peers' = peers
        /\ mode' = [mode EXCEPT ![s] = IF peers[s] = 0 /\ members'[s] = {} THEN "inactive" ELSE @]
        /\ IF members'[s] = {} THEN Disconnect(s, net) ELSE net' = net /\ remote' = remote
    BY <1>4 DEF ClientLeaves, Stop
  <2>2. CASE members'[s] = {}
    <3>1. NetType(Servers, net')
      BY DEF IInv, Good, Announced, MailTypes
    <3>2. /\ Even(net', stack, deferred, {}) /\ Followed(net', remote')
          /\ remote'[s] = <<>> /\ \A y \in Servers \ {s} : remote'[y] = remote[y]
      BY <2>1, <2>2, <3>1, AliveTypes, LeaveAlive DEF Alive
    <3>3. Gone'
      <4>1. /\ DOMAIN mode' = Servers
            /\ mode'[s] # "active" => mode[s] # "active" \/ peers[s] = 0
            /\ \A y \in Servers \ {s} : mode'[y] = mode[y]
        BY <2>1 DEF Alive, Gone
      <4> QED BY <1>1, <1>4, <2>1, <3>2, <4>1 DEF Alive, Gone
    <3>4. NoRequestAside'
      BY <1>1 DEF Alive, NoRequestAside
    <3> QED BY <1>1, <1>4, <3>2, <3>3, <3>4 DEF Alive, After
  <2>3. CASE members'[s] # {}
    <3>1. net' = net /\ remote' = remote
      BY <2>1, <2>3
    <3>2. mode' = [mode EXCEPT ![s] = @]
      BY <2>1, <2>3
    <3>3. DOMAIN mode' = Servers /\ \A y \in Servers : mode'[y] = mode[y]
      BY <3>2 DEF Alive, Gone
    <3>4. Gone'
      BY <1>4, <2>1, <3>1, <3>3 DEF Alive, Gone
    <3> QED BY <1>1, <1>4, <3>1, <3>4 DEF Alive, NoRequestAside, After
  <2> QED BY <2>2, <2>3
<1>5. CASE /\ Handle(s, m.call, k, <<>>, net)
           /\ remote' = remote /\ peers' = peers /\ mode' = mode
  <2>1. k \notin Servers
    BY LifecycleAssumption
  <2>2. Calm(net)
    BY AliveTypes DEF Calm, Alive
  <2>3. InHand(net, s, k, stack[s])
    BY <2>1, AliveTypes, TakenInHand DEF Alive
  <2>4. Handle(s, m.call, k, stack[s], net)
    BY <1>1, <1>5
  <2>5. Exited(net) \/ Alive'
    BY <1>1, <1>5, <2>2, <2>3, <2>4, RequestAlive
  <2>6. Exited(net) => failed' /\ StopsLast'
    BY <1>5, AliveStopsLast, ExitedStopsLast
  <2> QED BY <2>5, <2>6 DEF After
<1> QED BY <1>2, <1>3, <1>4, <1>5

LEMMA ReceiveAlive ==
  ASSUME IInv, IInv', Alive, NEW s \in Servers, NEW r \in Servers, Receive(s, r)
  PROVE  After
<1> DEFINE m == Head(net[r][s])
           N == [net EXCEPT ![r][s] = Tail(@)]
           e == [msg |-> m, from |-> r]
<1>1. /\ stack[s] # <<>> /\ net[r][s] # <<>>
      /\ remote' = remote /\ peers' = peers /\ mode' = mode
  BY DEF Receive, Waiting, links
<1>2. NetType(Servers, N) /\ Sent(N, net, r, s, m.type) /\ Followed(N, remote)
  BY <1>1, AliveTypes, TakenMessage, FollowedTake DEF Alive
<1>3. Calm(N)
  BY <1>2, AliveTypes DEF Calm, Alive
<1>4. N = [net EXCEPT ![r][s] = Tail(@)]
  OBVIOUS
<1>5. \/ m.type = "REQ" /\ Handle(s, m.call, r, stack[s], N) /\ deferred' = deferred
      \/ m.type = "RES" /\ ReceiveResponse(s, m, N) /\ deferred' = deferred
      \/ /\ m.type # "REQ" /\ net' = N /\ stack' = stack
         /\ deferred' = [deferred EXCEPT ![s] = Append(@, e)]
  BY DEF Receive, Awaited
<1>6. e.msg = m /\ e = [msg |-> m, from |-> r]
  OBVIOUS
<1> HIDE DEF m, N, e
<1>7. Exited(N) => failed' /\ StopsLast'
  BY <1>1, <1>4, AliveStopsLast, AliveTypes, ExitedStopsLast
<1>8. CASE m.type = "REQ" /\ Handle(s, m.call, r, stack[s], N) /\ deferred' = deferred
  <2>1. InHand(N, s, r, stack[s])
    BY <1>2, <1>8, AliveTypes, TakenInHand DEF Alive
  <2>2. Exited(N) \/ Alive'
    BY <1>1, <1>3, <1>8, <2>1, RequestAlive
  <2> QED BY <1>7, <2>2 DEF After
<1>9. CASE m.type = "RES" /\ ReceiveResponse(s, m, N) /\ deferred' = deferred
  <2>1. InHand(N, s, Head(stack[s]).from, Tail(stack[s]))
    BY <1>1, <1>2, <1>9, AliveTypes, HeardInHand DEF Alive
  <2>2. Exited(N) \/ Alive'
    BY <1>1, <1>3, <1>9, <2>1, ResponseAlive
  <2> QED BY <1>7, <2>2 DEF After
<1>10. CASE /\ m.type # "REQ" /\ net' = N /\ stack' = stack
            /\ deferred' = [deferred EXCEPT ![s] = Append(@, e)]
  <2>1. NoRequestAside'
    BY <1>6, <1>10, AsideNoRequest DEF Alive
  <2>2. Gone'
    BY <1>1, <1>10 DEF Alive, Gone
  <2>3. ASSUME NEW a \in Servers
        PROVE  AsideOf(deferred', a) = IF a = s /\ m.type = "RES" THEN AsideOf(deferred, a) + 1
                                                                 ELSE AsideOf(deferred, a)
    <3>1. /\ a = s => deferred'[a] = Append(deferred[a], e)
          /\ a # s => deferred'[a] = deferred[a]
      BY <1>10, AliveTypes DEF DeferredType
    <3>2. CASE a = s
      <4>1. IsSeq(deferred[a])
        BY AliveTypes, LineSeq
      <4>2. deferred'[a] = Append(deferred[a], e)
        BY <3>1, <3>2
      <4>3. AsideOf(deferred', a) = IF e.msg.type = "RES" THEN AsideOf(deferred, a) + 1
                                                          ELSE AsideOf(deferred, a)
        BY <4>1, <4>2, AsideMore
      <4> QED BY <1>6, <3>2, <4>3
    <3>3. CASE a # s
      BY <3>1, <3>3 DEF AsideOf
    <3> QED BY <3>2, <3>3
  <2>4. Lines(Servers, deferred')
    <3>1. DeferredType(Servers, deferred')
      BY DEF IInv, Good, Announced, MailTypes
    <3> QED BY <3>1, AsideLines
  <2>5. /\ Numbers(net, stack, deferred) /\ Numbers(N, stack, deferred)
        /\ Numbers(N, stack, deferred')
    BY <1>2, <2>4, AliveTypes, NumbersType DEF Alive
  <2>6. Even(N, stack, deferred', {})
    <3>1. CASE m.type = "RES"
      <4>1. \A a \in Servers : AsideOf(deferred', a) = AsideOf(deferred, a) + OneIf(a = s)
        <5> TAKE a \in Servers
        <5>1. AsideOf(deferred, a) \in Nat
          BY <2>5 DEF Numbers, NumbersAt
        <5> QED BY <2>3, <3>1, <5>1 DEF OneIf
      <4> QED BY <1>2, <2>5, <3>1, <4>1, EvenAside DEF Alive
    <3>2. CASE m.type # "RES"
      <4>1. \A a \in Servers : AsideOf(deferred', a) = AsideOf(deferred, a)
        BY <2>3, <3>2
      <4>2. Even(N, stack, deferred, {})
        BY <1>2, <1>10, <2>5, <3>2, EvenOther DEF Alive
      <4> QED BY <2>5, <4>1, <4>2, EvenSameAside
    <3> QED BY <3>1, <3>2
  <2> QED BY <1>1, <1>2, <1>10, <2>1, <2>2, <2>6 DEF Alive, After
<1> QED BY <1>5, <1>8, <1>9, <1>10

-----------------------------------------------------------------------------
\* Nothing happens once a process has called exit.
Owing == IInv /\ (Alive \/ (failed /\ StopsLast))

LEMMA OwingStep == Owing /\ [Next]_vars => Owing'
<1> SUFFICES ASSUME Owing, [Next]_vars PROVE Owing'
  OBVIOUS
<1>1. IInv /\ IInv'
  BY StepInvariant DEF Owing
<1>2. CASE UNCHANGED vars
  <2>1. /\ net' = net /\ stack' = stack /\ deferred' = deferred /\ remote' = remote
        /\ mode' = mode /\ peers' = peers /\ failed' = failed
    BY <1>2 DEF vars, links
  <2>2. Alive => Alive'
    BY <2>1, AliveSame
  <2>3. failed /\ StopsLast => failed' /\ StopsLast'
    BY <2>1 DEF StopsLast
  <2> QED BY <1>1, <2>2, <2>3 DEF Owing
<1>3. ASSUME Next PROVE ~failed
  BY <1>3 DEF Next, ServerStep, ClientStep, ListenServer, ListenClient, Reprocess, EndListen,
              Receive, Idle, Waiting, Connect, Call, Return, Leave, Send
<1>4. ASSUME NEW s \in Servers, ServerStep(s), Alive
      PROVE  After
  <2>1. CASE EndListen(s)
    <3>1. /\ net' = net /\ stack' = stack /\ deferred' = deferred /\ remote' = remote
          /\ peers' = peers /\ mode[s] = "inactive" /\ mode' = [mode EXCEPT ![s] = "stopped"]
      BY <2>1 DEF EndListen, links
    <3>2. Gone'
      BY <1>4, <3>1 DEF Alive, Gone
    <3> QED BY <1>4, <3>1, <3>2 DEF Alive, NoRequestAside, After
  <2> QED BY <1>1, <1>4, <2>1, ListenServerAlive, ReceiveAlive, ListenClientAlive,
             ReprocessAlive DEF ServerStep
<1>5. ASSUME NEW k \in Clients, ClientStep(k), Alive
      PROVE  After
  <2>1. /\ net' = net /\ stack' = stack /\ deferred' = deferred /\ remote' = remote
        /\ mode' = mode /\ peers' = peers
    BY <1>5 DEF ClientStep, Connect, Call, Return, Leave, Send, links
  <2> QED BY <1>5, <2>1, AliveSame DEF After
<1>6. CASE Next
  <2>1. Alive
    BY <1>3, <1>6 DEF Owing
  <2>2. After
    BY <1>4, <1>5, <1>6, <2>1 DEF Next
  <2> QED BY <1>1, <2>2 DEF Owing, After
<1> QED BY <1>2, <1>6

\* In every state of every run: a server that has left its listen loop waits for
\* nobody, is in nobody's list, and nobody waits for it or has a message on the
\* way to it (server_t::listen with server_t::process, kitfox-server.cc).
THEOREM LeavesNobodyWaiting == Spec => []StopsLast
<1>1. Init => Owing
  BY InitInvariant, AliveInit DEF Owing
<1>2. Owing => StopsLast
  BY AliveStopsLast DEF Owing
<1> QED BY <1>1, <1>2, OwingStep, PTL DEF Spec

=============================================================================
