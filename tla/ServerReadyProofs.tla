------------------------- MODULE ServerReadyProofs --------------------------
(***************************************************************************)
(* That a server turns to its clients only when all servers listen         *)
(* (ReadyMeansListening), that none waits for a request that was lost      *)
(* (NoRequestLost), that both ends of every remote subset are bound where  *)
(* a server listens (ListeningMeansBound), that a deployment without       *)
(* mistakes has IDs for all its components and exits only where the wrong  *)
(* server is asked for one (BindingExits), and the types of ServerStartup, *)
(* for every number of processes and every deployment.                     *)
(*                                                                         *)
(* ready_count says how many servers have not been heard from, which is    *)
(* inductive only together with where every SERVER_READY is: not yet sent, *)
(* in a channel, or put aside, once in all (Announced).  That reschedule   *)
(* never finds a SERVER_CONNECT needs the barrier: whoever waits has       *)
(* passed it, and then none is left (Cleared).  The calls of               *)
(* init_pseudo_component are above that of create_pseudo_component, and    *)
(* all but the innermost wait (Working).                                   *)
(*                                                                         *)
(* What is bound, and how many IDs a process takes, depends on where it is *)
(* in its configuration: some components D are finished, and the calls of  *)
(* create_pseudo_component go on from there (Walk).  Finished are those    *)
(* that know their superset, and numbered those that are finished or have  *)
(* begun (Placed).  Requests and responses under way fit what their        *)
(* process waits for (Carries, Answers), so that a remote subset that is   *)
(* linked is known at both ends (Bound).                                   *)
(***************************************************************************)
EXTENDS ServerStartupProofs, MessageLemmas

\* The servers that r has yet to tell that it listens
Owes == [r \in Servers |-> IF phase[r] = "listen" THEN {} ELSE Servers \ {r}]

Announcing == Announced(Servers, ServerReady, net, Owes, deferred, ready)

\* A server that does not listen has heard from nobody
Counting == \A s \in Servers : phase[s] # "listen" => ready[s] = NumRanks - 1

\* After the barrier every SERVER_CONNECT has been received
NoConnects(N) ==
    \A d \in Messages : d.type = "SERVER_CONNECT" =>
        \A r, s \in Servers : ~Contains(N[r][s], d)

Cleared == (\E r \in Servers : phase[r] # "connect") => NoConnects(net)

\* Only the innermost call waits, and there are calls while s configures
CallingAt(s) ==
    /\ stack[s] # <<>> <=> phase[s] = "configure"
    /\ \A i \in 1 .. Len(stack[s]) : stack[s][i].waits => i = 1

InCalls == \A s \in Servers : CallingAt(s)

\* Only the innermost job is at work
WorkingAt(s) == \A i \in 1 .. Len(jobs[s]) : jobs[s][i].awaits = NoCall => i = 1

Working == \A s \in Servers : WorkingAt(s)

\* What reschedule puts aside
Deferrable(q) ==
    \A i \in 1 .. Len(q) :
        q[i].msg.type \in
          {"SERVER_READY", "CONNECT_REMOTE_COMP_REQ", "CONNECT_REMOTE_COMP_RES"} \cup ResultTypes

Deferring == \A s \in Servers : Deferrable(deferred[s])

ReadyInv == IInv /\ Announcing /\ Counting /\ Cleared /\ InCalls /\ Working /\ Deferring

-----------------------------------------------------------------------------
\* Messages and channels

LEMMA ServersFinite ==
  IsFiniteSet(Servers) /\ Cardinality(Servers) = NumRanks
BY FS_Interval, RanksAssumption DEF Servers

LEMMA ChannelsType ==
  ASSUME NEW N \in Channels
  PROVE  NetType(Servers, N)
BY DEF Channels, NetType

\* SERVER_READY says nothing but its type.
LEMMA ReadyOnly ==
  ASSUME NEW m \in Messages
  PROVE  m.type = "SERVER_READY" <=> m = ServerReady
BY TypeNames DEF Messages, ServerReady, ServerConnect

LEMMA OtherTypes ==
  ASSUME NEW m, NEW d, m.type # d.type
  PROVE  m # d
OBVIOUS

LEMMA QuietSelf ==
  ASSUME NEW d, NEW N, NetType(Servers, N)
  PROVE  Quiet(Servers, d, N, N)
BY DEF Quiet

\* server_t::process sends nothing but answers to requests.
LEMMA ProcessQuiet ==
  ASSUME NEW s \in Servers, NEW r, NEW m, NEW N, NetType(Servers, N), ProcessMessage(s, r, m, N),
         NEW d, d.type # "CONNECT_REMOTE_COMP_RES"
  PROVE  Quiet(Servers, d, N, net')
<1>1. CASE net' = N
  BY <1>1, QuietSelf
<1>2. CASE net' = [N EXCEPT ![s][r] = Append(@, ConnectRemoteRes(id[s][m.name]))]
  <2>1. ConnectRemoteRes(id[s][m.name]).type = "CONNECT_REMOTE_COMP_RES"
    BY DEF ConnectRemoteRes
  <2>2. ConnectRemoteRes(id[s][m.name]) # d
    BY <2>1, OtherTypes
  <2> QED BY <1>2, <2>2, SendQuiet
<1> QED BY <1>1, <1>2 DEF ProcessMessage

\* As long as a process creates components it sends nothing but requests.
LEMMA CreatingQuiet ==
  ASSUME Types, NEW s \in Servers,
         \/ Configure(s) \/ Create(s) \/ NextSubset(s) \/ ReturnLocally(s)
         \/ ConnectRemoteComponent(s) \/ \E r \in Servers : RecvResponse(s, r),
         NEW d, d.type \in {"SERVER_READY", "SERVER_CONNECT"}
  PROVE  Quiet(Servers, d, net, net')
<1>1. NetType(Servers, net)
  BY ChannelsType DEF Types
<1>2. CASE net' = net
  BY <1>1, <1>2, QuietSelf
<1>3. CASE ConnectRemoteComponent(s)
  <2> DEFINE m == ConnectRemoteReq(id[s][stack[s][2].comp], Head(stack[s]).comp)
  <2>1. net' = [net EXCEPT ![s][Head(remote_server[s])] = Append(@, m)]
    BY <1>3 DEF ConnectRemoteComponent
  <2>2. m # d
    BY DEF ConnectRemoteReq
  <2> HIDE DEF m
  <2> QED BY <1>1, <2>1, <2>2, SendQuiet
<1>4. ASSUME NEW r \in Servers, RecvResponse(s, r)
      PROVE  Quiet(Servers, d, net, net')
  <2>1. /\ net[r][s] # <<>> /\ Head(net[r][s]).type = "CONNECT_REMOTE_COMP_RES"
        /\ net' = [net EXCEPT ![r][s] = Tail(@)]
    BY <1>4 DEF RecvResponse, Received
  <2>2. Head(net[r][s]) # d
    BY <2>1
  <2> QED BY <1>1, <2>1, <2>2, TakeQuiet
<1> QED BY <1>2, <1>3, <1>4 DEF Configure, Create, NextSubset, ReturnLocally

\* What jobs send and take are their requests and results.
LEMMA JobStepQuiet ==
  ASSUME Types, Nested, NEW s \in Servers, JobStep(s), NEW d, d.type \notin JobTypes
  PROVE  Quiet(Servers, d, net, net')
<1>1. NetType(Servers, net)
  BY ChannelsType DEF Types
<1>2. PICK channels \in Channels : Took(s, channels) /\ Sent(s, channels)
  BY JobStepEffect
<1>3. Quiet(Servers, d, net, channels)
  <2>1. CASE channels = net
    BY <1>1, <2>1, QuietSelf
  <2>2. ASSUME NEW r \in Servers, net[r][s] # <<>>, Head(net[r][s]).type \in JobTypes,
               channels = Received(s, r)
        PROVE  Quiet(Servers, d, net, channels)
    <3>1. Head(net[r][s]) # d
      BY <2>2
    <3>2. Quiet(Servers, d, net, [net EXCEPT ![r][s] = Tail(@)])
      BY <1>1, <2>2, <3>1, TakeQuiet
    <3>3. channels = [net EXCEPT ![r][s] = Tail(@)]
      BY <2>2 DEF Received
    <3> QED BY <3>2, <3>3
  <2> QED BY <1>2, <2>1, <2>2 DEF Took
<1>4. NetType(Servers, channels)
  BY ChannelsType
<1>5. Quiet(Servers, d, channels, net')
  <2>1. CASE net' = channels
    BY <1>4, <2>1, QuietSelf
  <2>2. ASSUME NEW r \in Servers, NEW m \in Messages, m.type \in JobTypes,
               net' = [channels EXCEPT ![s][r] = Append(@, m)]
        PROVE  Quiet(Servers, d, channels, net')
    <3>1. m # d
      BY <2>2
    <3> QED BY <1>4, <2>2, <3>1, SendQuiet
  <2> QED BY <1>2, <2>1, <2>2 DEF Sent
<1> QED BY <1>3, <1>5, QuietTwice

\* While the processes connect they say nothing of being ready.
LEMMA ConnectQuiet ==
  ASSUME Types, Connecting, PastBarrier, ~failed, NEW s \in Servers,
         ConnectSend(s) \/ \E r \in Servers : ConnectRecv(s, r)
  PROVE  Quiet(Servers, ServerReady, net, net')
<1>1. NetType(Servers, net)
  BY ChannelsType DEF Types
<1>2. \A x : ServerConnect(x) # ServerReady
  BY DEF ServerConnect, ServerReady
<1>3. CASE ConnectSend(s)
  <2>1. net' = [net EXCEPT ![s][round[s]] = Append(@, ServerConnect(deployment.published[s]))]
    BY <1>3 DEF ConnectSend
  <2> QED BY <1>1, <1>2, <2>1, SendQuiet
<1>4. ASSUME NEW r \in Servers, ConnectRecv(s, r)
      PROVE  Quiet(Servers, ServerReady, net, net')
  <2>1. net[r][s] = <<ServerConnect(deployment.published[r])>>
    BY <1>4, FirstMessage
  <2>2. net[r][s] # <<>> /\ Head(net[r][s]) = ServerConnect(deployment.published[r])
    BY <2>1
  <2>3. net' = [net EXCEPT ![r][s] = Tail(@)]
    BY <1>4 DEF ConnectRecv, Received
  <2> QED BY <1>1, <1>2, <2>2, <2>3, TakeQuiet
<1> QED BY <1>3, <1>4

-----------------------------------------------------------------------------
\* Every server tells every other once

LEMMA MailType ==
  ASSUME Announcing
  PROVE  NetType(Servers, net) /\ ready \in [Servers -> Nat]
BY DEF Announcing, Announced, MailTypes

\* As long as nobody begins to listen all have the same ones to tell.
LEMMA SameOwes ==
  ASSUME Types, Nested, NEW s \in Servers, ServerStep(s), ~Listen(s)
  PROVE  Owes' = Owes
<1>1. \A r \in Servers \ {s} : phase'[r] = phase[r]
  BY OwnState
<1>2. phase'[s] = "listen" <=> phase[s] = "listen"
  <2>1. CASE Configure(s)
    BY <2>1 DEF Configure, Types
  <2>2. CASE phase' = phase
    BY <2>2
  <2>3. CASE JobStep(s)
    BY <2>3, JobStepEffect
  <2> QED BY <2>1, <2>2, <2>3 DEF ServerStep, ConnectSend, ConnectRecv, Create, NextSubset,
        ReturnLocally, ConnectRemoteComponent, Reprocess, RecvResponse, Reschedule, Process
<1>3. \A r \in Servers : phase'[r] = "listen" <=> phase[r] = "listen"
  BY <1>1, <1>2
<1> QED BY <1>3 DEF Owes

\* A server that begins to listen tells all others.
LEMMA ListenAnnounces ==
  ASSUME Types, Announcing, NEW s \in Servers, Listen(s)
  PROVE  Announcing'
<1> DEFINE d == ServerReady
           M == [net EXCEPT ![s] = [r \in Servers |-> IF r = s THEN <<>> ELSE Append(@[r], d)]]
<1>1. phase[s] = "configure" /\ phase' = [phase EXCEPT ![s] = "listen"]
      /\ net' = M /\ deferred' = deferred /\ ready' = ready
  BY DEF Listen
<1>2. NetType(Servers, M)
  BY ListenType, ChannelsType
<1>3. /\ \A x \in Servers \ {s} : M[x] = net[x]
      /\ \A y \in Servers \ {s} : M[s][y] = Append(net[s][y], d)
      /\ M[s][s] = <<>>
  BY DEF Types, Channels
<1> HIDE DEF M, d
<1>4. Owes[s] = Servers \ {s}
  BY <1>1 DEF Owes
<1>5. Owes' = [Owes EXCEPT ![s] = {}]
  <2>1. \A x \in Servers : phase'[x] = IF x = s THEN "listen" ELSE phase[x]
    BY <1>1 DEF Types
  <2> QED BY <2>1 DEF Owes
<1>6. Announced(Servers, d, net, Owes, deferred, ready)
  BY DEF Announcing, d
<1>7. Announced(Servers, d, M, [Owes EXCEPT ![s] = {}], deferred, ready)
  <2>1. \A y \in Servers \ {s} : M[s][y] = IF y \in Owes[s] THEN Append(net[s][y], d) ELSE net[s][y]
    BY <1>3, <1>4
  <2>2. M[s][s] = net[s][s] \/ M[s][s] = <<>>
    BY <1>3
  <2> HIDE DEF Owes
  <2> QED BY <1>2, <1>3, <1>6, <2>1, <2>2, TellAll
<1> QED BY <1>1, <1>5, <1>7 DEF Announcing, d

\* What a server hears it hears once, whether it had put it aside or not.
LEMMA ProcessAnnounced ==
  ASSUME NEW s \in Servers, NEW r, NEW m \in Messages, m # ServerReady,
         NEW N, NEW F, Announced(Servers, ServerReady, N, Owes, F, ready),
         ProcessMessage(s, r, m, N)
  PROVE  Announced(Servers, ServerReady, net', Owes, F, ready) /\ ready' = ready
<1>1. NetType(Servers, N)
  BY DEF Announced, MailTypes
<1>2. ServerReady.type # "CONNECT_REMOTE_COMP_RES"
  BY DEF ServerReady
<1>3. Quiet(Servers, ServerReady, N, net')
  BY <1>1, <1>2, ProcessQuiet
<1>4. ready' = ready
  BY ReadyOnly DEF ProcessMessage
<1> HIDE DEF Owes
<1> QED BY <1>3, <1>4, QuietAnnounced

LEMMA ProcessReady ==
  ASSUME NEW s \in Servers, NEW r, NEW N, ProcessMessage(s, r, ServerReady, N)
  PROVE  net' = N /\ ready' = [ready EXCEPT ![s] = @ - 1]
BY DEF ProcessMessage, ServerReady

LEMMA ProcessAnnounces ==
  ASSUME Types, Announcing, NEW s \in Servers, NEW r \in Servers, Process(s, r)
  PROVE  Announced(Servers, ServerReady, net', Owes, deferred', ready')
<1>1. /\ net[r][s] # <<>> /\ deferred' = deferred
      /\ ProcessMessage(s, r, Head(net[r][s]), Received(s, r))
  BY DEF Process
<1>2. Head(net[r][s]) \in Messages
  BY <1>1, ReceiveType
<1>3. Received(s, r) = [net EXCEPT ![r][s] = Tail(@)]
  BY DEF Received
<1>4. NetType(Servers, net) /\ Announced(Servers, ServerReady, net, Owes, deferred, ready)
  BY MailType DEF Announcing
<1> HIDE DEF Owes
<1>5. CASE Head(net[r][s]) = ServerReady
  <2>1. net' = Received(s, r) /\ ready' = [ready EXCEPT ![s] = @ - 1]
    BY <1>1, <1>5, ProcessReady
  <2>2. Announced(Servers, ServerReady, [net EXCEPT ![r][s] = Tail(@)], Owes, deferred,
                  [ready EXCEPT ![s] = @ - 1])
    BY <1>1, <1>4, <1>5, ServersFinite, TakeLastWord
  <2> QED BY <1>1, <1>3, <2>1, <2>2
<1>6. CASE Head(net[r][s]) # ServerReady
  <2>1. Quiet(Servers, ServerReady, net, Received(s, r))
    <3>1. Quiet(Servers, ServerReady, net, [net EXCEPT ![r][s] = Tail(@)])
      BY <1>1, <1>4, <1>6, TakeQuiet
    <3> QED BY <1>3, <3>1
  <2>2. Announced(Servers, ServerReady, Received(s, r), Owes, deferred, ready)
    BY <1>4, <2>1, QuietAnnounced
  <2>3. Announced(Servers, ServerReady, net', Owes, deferred, ready) /\ ready' = ready
    BY <1>1, <1>2, <1>6, <2>2, ProcessAnnounced
  <2> QED BY <1>1, <2>3
<1> QED BY <1>5, <1>6

LEMMA ReprocessAnnounces ==
  ASSUME Types, Announcing, NEW s \in Servers, Reprocess(s)
  PROVE  Announced(Servers, ServerReady, net', Owes, deferred', ready')
<1> DEFINE m == Head(deferred[s]).msg
           F == [deferred EXCEPT ![s] = Tail(@)]
<1>1. /\ deferred[s] # <<>> /\ deferred' = F
      /\ ProcessMessage(s, Head(deferred[s]).from, m, net)
  BY DEF Reprocess
<1>2. m \in Messages
  <2>1. Head(deferred[s]) \in [msg : Messages, from : Servers]
    BY <1>1, HeadTailProperties DEF Types
  <2> QED BY <2>1
<1>3. Announced(Servers, ServerReady, net, Owes, deferred, ready)
  BY DEF Announcing
<1> HIDE DEF Owes
<1>4. CASE m = ServerReady
  <2>1. net' = net /\ ready' = [ready EXCEPT ![s] = @ - 1]
    BY <1>1, <1>4, ProcessReady
  <2>2. Announced(Servers, ServerReady, net, Owes, F, [ready EXCEPT ![s] = @ - 1])
    BY <1>1, <1>3, <1>4, ServersFinite, ResumeLastWord
  <2> QED BY <1>1, <2>1, <2>2
<1>5. CASE m # ServerReady
  <2>1. Announced(Servers, ServerReady, net, Owes, F, ready)
    BY <1>1, <1>3, <1>5, ResumeQuiet
  <2>2. Announced(Servers, ServerReady, net', Owes, F, ready) /\ ready' = ready
    BY <1>1, <1>2, <1>5, <2>1, ProcessAnnounced
  <2> QED BY <1>1, <2>2
<1> QED BY <1>4, <1>5

\* Announcing is kept.
LEMMA AnnouncingStep ==
  ASSUME Types, Connecting, PastBarrier, Nested, Announcing, NEW s \in Servers, ServerStep(s)
  PROVE  Announcing'
<1>0. ~failed
  BY DEF ServerStep
<1>1. CASE Listen(s)
  BY <1>1, ListenAnnounces
<1>2. ASSUME Announced(Servers, ServerReady, net', Owes, deferred', ready'), ~Listen(s)
      PROVE  Announcing'
  BY <1>2, SameOwes DEF Announcing
<1>3. ASSUME Quiet(Servers, ServerReady, net, net'), deferred' = deferred, ready' = ready
      PROVE  Announced(Servers, ServerReady, net', Owes, deferred', ready')
  <2>1. Announced(Servers, ServerReady, net, Owes, deferred, ready)
    BY DEF Announcing
  <2> HIDE DEF Owes
  <2> QED BY <1>3, <2>1, QuietAnnounced
<1>4. CASE \/ Configure(s) \/ Create(s) \/ NextSubset(s) \/ ReturnLocally(s)
           \/ ConnectRemoteComponent(s) \/ \E r \in Servers : RecvResponse(s, r)
  <2>1. deferred' = deferred /\ ready' = ready
    BY <1>4 DEF Configure, Create, NextSubset, ReturnLocally, ConnectRemoteComponent, RecvResponse
  <2>2. ServerReady.type = "SERVER_READY"
    BY DEF ServerReady
  <2>3. Quiet(Servers, ServerReady, net, net')
    BY <1>4, <2>2, CreatingQuiet
  <2> QED BY <1>1, <1>2, <1>3, <2>1, <2>3
<1>5. CASE ConnectSend(s) \/ \E r \in Servers : ConnectRecv(s, r)
  <2>1. deferred' = deferred /\ ready' = ready
    BY <1>5 DEF ConnectSend, ConnectRecv
  <2>2. Quiet(Servers, ServerReady, net, net')
    BY <1>0, <1>5, ConnectQuiet
  <2> QED BY <1>1, <1>2, <1>3, <2>1, <2>2
<1>6. ASSUME NEW r \in Servers, Reschedule(s, r)
      PROVE  Announcing'
  <2>1. /\ net[r][s] # <<>> /\ ready' = ready
        /\ net' = [net EXCEPT ![r][s] = Tail(@)]
        /\ deferred' = [deferred EXCEPT ![s] = Append(@, [msg |-> Head(net[r][s]), from |-> r])]
    BY <1>6 DEF Reschedule, Received
  <2>2. Announced(Servers, ServerReady, net, Owes, deferred, ready)
    BY DEF Announcing
  <2>3. Announced(Servers, ServerReady, net', Owes, deferred', ready')
    <3> HIDE DEF Owes
    <3> QED BY <2>1, <2>2, PutAside
  <2> QED BY <1>1, <1>2, <2>3
<1>7. CASE Reprocess(s)
  BY <1>1, <1>2, <1>7, ReprocessAnnounces
<1>8. ASSUME NEW r \in Servers, Process(s, r)
      PROVE  Announcing'
  BY <1>1, <1>2, <1>8, ProcessAnnounces
<1>9. CASE JobStep(s)
  <2>1. deferred' = deferred /\ ready' = ready
    BY <1>9, JobStepEffect
  <2>2. ServerReady.type \notin JobTypes
    BY TypeNames DEF ServerReady, JobTypes
  <2>3. Quiet(Servers, ServerReady, net, net')
    BY <1>9, <2>2, JobStepQuiet
  <2> QED BY <1>1, <1>2, <1>3, <2>1, <2>3
<1> QED BY <1>1, <1>4, <1>5, <1>6, <1>7, <1>8, <1>9 DEF ServerStep

-----------------------------------------------------------------------------
\* What the servers wait for and put aside

\* Counting is kept: only a listening server hears that others listen.
LEMMA CountingStep ==
  ASSUME Types, Nested, Announcing, Counting, NEW s \in Servers, ServerStep(s)
  PROVE  Counting'
<1>1. ready \in [Servers -> Nat]
  BY MailType
<1>2. ASSUME NEW x \in Servers, phase'[x] # "listen"
      PROVE  phase[x] # "listen" /\ ready'[x] = ready[x]
  <2>0. CASE JobStep(s)
    BY <1>2, <2>0, JobStepEffect
  <2>1. CASE ready' = ready
    BY <1>2, <2>1, <2>0 DEF ServerStep, ConnectSend, ConnectRecv, Configure, Create, NextSubset, Types,
      ReturnLocally, ConnectRemoteComponent, Listen, Reprocess, RecvResponse, Reschedule, Process
  <2>2. CASE phase[s] = "listen" /\ phase' = phase /\ ready' = [ready EXCEPT ![s] = @ - 1]
    BY <1>1, <1>2, <2>2
  <2> QED BY <2>1, <2>2, <2>0 DEF Idle, ServerStep, ConnectSend, ConnectRecv, Configure, Create, NextSubset,
        ReturnLocally, ConnectRemoteComponent, Listen, Reprocess, RecvResponse, Reschedule, Process,
        ProcessMessage
<1> QED BY <1>2 DEF Counting

\* The first process to pass the barrier finds all channels empty.
LEMMA FirstPasses ==
  ASSUME Types, Connected, Connecting, ~failed, \A x \in Servers : phase[x] = "connect",
         \A x \in Servers : round[x] = NumRanks
  PROVE  NoConnects(net)
<1> SUFFICES ASSUME NEW d, NEW r \in Servers, NEW s \in Servers
             PROVE  ~Contains(net[r][s], d)
  BY DEF NoConnects
<1>1. r # s => HeardFrom(s, r)
  BY EveryoneHeard
<1>2. net[r][s] = <<>>
  BY <1>1 DEF Connecting
<1> QED BY <1>2 DEF Contains

\* Whatever happens to the other messages, none of the first rounds comes back.
LEMMA StayCleared ==
  ASSUME NEW N, NEW M, NoConnects(N),
         \A d \in Messages : d.type = "SERVER_CONNECT" => Quiet(Servers, d, N, M)
  PROVE  NoConnects(M)
BY DEF NoConnects, Quiet

LEMMA ListenClears ==
  ASSUME Types, NoConnects(net), NEW s \in Servers, Listen(s)
  PROVE  NoConnects(net')
<1> SUFFICES ASSUME NEW d \in Messages, d.type = "SERVER_CONNECT", NEW x \in Servers, NEW y \in Servers
             PROVE  ~Contains(net'[x][y], d)
  BY DEF NoConnects
<1>1. net'[x][y] = IF x # s THEN net[x][y]
                   ELSE IF y = s THEN <<>> ELSE Append(net[x][y], ServerReady)
  BY DEF Listen, Types, Channels
<1>2. ~Contains(net[x][y], d) /\ IsSeq(net[x][y])
  BY ChannelsType, ChannelSeq DEF NoConnects, Types
<1>3. ServerReady # d
  BY DEF ServerReady
<1>4. ~Contains(<<>>, d)
  BY DEF Contains
<1>5. ~Contains(Append(net[x][y], ServerReady), d)
  BY <1>2, <1>3, AppendOther
<1> QED BY <1>1, <1>2, <1>4, <1>5

\* No process takes part in the first rounds any more.
LEMMA ClearedSteps ==
  ASSUME Types, PastBarrier, Nested, NoConnects(net), NEW s \in Servers, ServerStep(s),
         ~ConnectSend(s), \A r \in Servers : ~ConnectRecv(s, r)
  PROVE  NoConnects(net')
<1>1. NetType(Servers, net)
  BY ChannelsType DEF Types
<1>2. CASE \/ Configure(s) \/ Create(s) \/ NextSubset(s) \/ ReturnLocally(s)
           \/ ConnectRemoteComponent(s) \/ \E r \in Servers : RecvResponse(s, r)
  <2>1. \A d \in Messages : d.type = "SERVER_CONNECT" => Quiet(Servers, d, net, net')
    BY <1>2, CreatingQuiet
  <2> QED BY <2>1, StayCleared
<1>3. ASSUME NEW r \in Servers, net[r][s] # <<>>
      PROVE  /\ NetType(Servers, Received(s, r))
             /\ NoConnects(Received(s, r))
             /\ Head(net[r][s]).type # "SERVER_CONNECT"
  <2>1. Received(s, r) = [net EXCEPT ![r][s] = Tail(@)]
    BY DEF Received
  <2>2. Head(net[r][s]) \in Messages /\ IsSeq(net[r][s])
    BY <1>1, <1>3, ReceiveType, ChannelSeq
  <2>3. Contains(net[r][s], Head(net[r][s]))
    BY <1>3, <2>2, TailSeq DEF Contains
  <2>4. Head(net[r][s]).type # "SERVER_CONNECT"
    BY <2>2, <2>3 DEF NoConnects
  <2>5. \A d \in Messages : d.type = "SERVER_CONNECT" => Quiet(Servers, d, net, Received(s, r))
    <3> SUFFICES ASSUME NEW d \in Messages, d.type = "SERVER_CONNECT"
                 PROVE  Quiet(Servers, d, net, Received(s, r))
      OBVIOUS
    <3>1. Head(net[r][s]) # d
      BY <2>4
    <3>2. Quiet(Servers, d, net, [net EXCEPT ![r][s] = Tail(@)])
      BY <1>1, <1>3, <3>1, TakeQuiet
    <3> QED BY <2>1, <3>2
  <2>6. NetType(Servers, Received(s, r))
    <3>1. NetType(Servers, [net EXCEPT ![r][s] = Tail(@)])
      BY <1>1, <1>3, TakeType
    <3> QED BY <2>1, <3>1
  <2> QED BY <2>4, <2>5, <2>6, StayCleared
<1>4. ASSUME NEW r, NEW m, NEW N, NetType(Servers, N), NoConnects(N), ProcessMessage(s, r, m, N)
      PROVE  NoConnects(net')
  <2>1. \A d \in Messages : d.type = "SERVER_CONNECT" => Quiet(Servers, d, N, net')
    BY <1>4, ProcessQuiet
  <2> QED BY <1>4, <2>1, StayCleared
<1>5. ASSUME NEW r \in Servers, Reschedule(s, r)
      PROVE  NoConnects(net')
  BY <1>3, <1>5 DEF Reschedule
<1>6. ASSUME NEW r \in Servers, Process(s, r)
      PROVE  NoConnects(net')
  <2>1. net[r][s] # <<>> /\ ProcessMessage(s, r, Head(net[r][s]), Received(s, r))
    BY <1>6 DEF Process
  <2>2. NetType(Servers, Received(s, r)) /\ NoConnects(Received(s, r))
    BY <1>3, <2>1
  <2> QED BY <1>4, <2>1, <2>2
<1>7. CASE Reprocess(s)
  BY <1>1, <1>4, <1>7 DEF Reprocess
<1>8. CASE Listen(s)
  BY <1>8, ListenClears
<1>9. CASE JobStep(s)
  <2>1. \A d \in Messages : d.type = "SERVER_CONNECT" => Quiet(Servers, d, net, net')
    <3>1. "SERVER_CONNECT" \notin JobTypes
      BY TypeNames DEF JobTypes
    <3> QED BY <1>9, <3>1, JobStepQuiet
  <2> QED BY <2>1, StayCleared
<1> QED BY <1>2, <1>5, <1>6, <1>7, <1>8, <1>9 DEF ServerStep

\* Cleared is kept: connect_server leaves no message behind at the barrier.
LEMMA ClearedStep ==
  ASSUME Types, Connected, Connecting, PastBarrier, Nested, Cleared, NEW s \in Servers, ServerStep(s)
  PROVE  Cleared'
<1>0. ~failed
  BY DEF ServerStep
<1>1. CASE ConnectSend(s) \/ \E r \in Servers : ConnectRecv(s, r)
  <2>1. \A r \in Servers : phase[r] = "connect"
    BY <1>1, BeforeBarrier DEF ConnectSend, ConnectRecv
  <2>2. phase' = phase
    BY <1>1 DEF ConnectSend, ConnectRecv
  <2> QED BY <2>1, <2>2 DEF Cleared
<1>2. CASE ~ConnectSend(s) /\ \A r \in Servers : ~ConnectRecv(s, r)
  <2>1. \A r \in Servers : round[r] = NumRanks
    BY <1>2, AfterBarrier
  <2>2. NoConnects(net)
    <3>1. CASE \E r \in Servers : phase[r] # "connect"
      BY <3>1 DEF Cleared
    <3>2. CASE \A r \in Servers : phase[r] = "connect"
      BY <1>0, <2>1, <3>2, FirstPasses
    <3> QED BY <3>1, <3>2
  <2>3. NoConnects(net')
    BY <1>2, <2>2, ClearedSteps
  <2>4. NoConnects(net)' <=> NoConnects(net')
    BY DEF NoConnects
  <2> QED BY <2>3, <2>4 DEF Cleared
<1> QED BY <1>1, <1>2

-----------------------------------------------------------------------------
\* Calls

\* InCalls is kept when the innermost call goes on without waiting, ...
LEMMA CallingReturns ==
  ASSUME Types, PastBarrier, Nested, InCalls, NEW s \in Servers, Len(stack[s]) > 1, AddSubset(s),
         phase' = phase
  PROVE  CallingAt(s)'
<1>1. stack[s] \in Seq(Calls) /\ Len(stack[s]) \in Nat /\ stack[s] # <<>>
  BY EmptySeq, LenProperties DEF Types
<1>2. /\ stack' \in [Servers -> Seq(Calls)]
      /\ Len(stack'[s]) = Len(stack[s]) - 1
      /\ stack'[s][1] = [stack[s][2] EXCEPT !.child = @ + 1]
      /\ \A i \in 2 .. Len(stack[s]) - 1 : stack'[s][i] = stack[s][i + 1]
  BY AddSubsetStack
<1>3. phase[s] = "configure" /\ \A i \in 1 .. Len(stack[s]) : stack[s][i].waits => i = 1
  BY <1>1 DEF InCalls, CallingAt
<1>4. stack'[s] # <<>>
  BY <1>1, <1>2, EmptySeq
<1>5. ASSUME NEW i \in 2 .. Len(stack[s]) - 1
      PROVE  ~stack'[s][i].waits
  <2>1. i + 1 \in 1 .. Len(stack[s]) /\ i + 1 # 1
    BY <1>1
  <2> QED BY <1>2, <1>3, <2>1
<1>6. \A i \in 1 .. Len(stack[s]) - 1 : i = 1 \/ i \in 2 .. Len(stack[s]) - 1
  BY <1>1
<1> QED BY <1>2, <1>3, <1>4, <1>5, <1>6 DEF CallingAt

\* ... when it goes on or begins to wait, ...
LEMMA CallingContinues ==
  ASSUME Types, InCalls, NEW s \in Servers, stack[s] # <<>>, NEW c \in Calls,
         Continue(s, <<c>> \o Tail(stack[s])), phase' = phase
  PROVE  CallingAt(s)'
<1>1. stack[s] \in Seq(Calls) /\ Len(stack[s]) \in Nat /\ Len(stack[s]) > 0
  BY EmptySeq, LenProperties DEF Types
<1>2. /\ stack' \in [Servers -> Seq(Calls)]
      /\ Len(stack'[s]) = Len(stack[s])
      /\ \A i \in 2 .. Len(stack[s]) : stack'[s][i] = stack[s][i]
  BY ContinueStack
<1>3. phase[s] = "configure" /\ \A i \in 1 .. Len(stack[s]) : stack[s][i].waits => i = 1
  BY DEF InCalls, CallingAt
<1>4. stack'[s] # <<>>
  BY <1>1, <1>2, EmptySeq
<1>5. \A i \in 1 .. Len(stack[s]) : i = 1 \/ i \in 2 .. Len(stack[s])
  BY <1>1
<1> QED BY <1>2, <1>3, <1>4, <1>5 DEF CallingAt

\* ... and when it calls itself, while it does not wait.
LEMMA CallingCalls ==
  ASSUME Types, InCalls, NEW s \in Servers, stack[s] # <<>>, ~stack[s][1].waits,
         NEW c \in Calls, Continue(s, <<c>> \o stack[s]), phase' = phase
  PROVE  CallingAt(s)'
<1>1. stack[s] \in Seq(Calls) /\ Len(stack[s]) \in Nat /\ Len(stack[s]) > 0
  BY EmptySeq, LenProperties DEF Types
<1>2. /\ stack' \in [Servers -> Seq(Calls)]
      /\ Len(stack'[s]) = Len(stack[s]) + 1
      /\ \A i \in 2 .. Len(stack[s]) + 1 : stack'[s][i] = stack[s][i - 1]
  BY CallStack
<1>3. phase[s] = "configure" /\ \A i \in 1 .. Len(stack[s]) : stack[s][i].waits => i = 1
  BY DEF InCalls, CallingAt
<1>4. stack'[s] # <<>>
  BY <1>1, <1>2, EmptySeq
<1>5. ASSUME NEW i \in 2 .. Len(stack[s]) + 1
      PROVE  ~stack'[s][i].waits
  <2>1. i - 1 \in 1 .. Len(stack[s])
    BY <1>1
  <2>2. stack'[s][i] = stack[s][i - 1]
    BY <1>2
  <2> QED BY <1>3, <2>1, <2>2
<1>6. \A i \in 1 .. Len(stack[s]) + 1 : i = 1 \/ i \in 2 .. Len(stack[s]) + 1
  BY <1>1
<1> QED BY <1>2, <1>3, <1>4, <1>5, <1>6 DEF CallingAt

\* InCalls is kept.
LEMMA CallingStep ==
  ASSUME Types, PastBarrier, Nested, InCalls, NEW s \in Servers, ServerStep(s)
  PROVE  InCalls'
<1>1. ASSUME NEW x \in Servers, x # s
      PROVE  CallingAt(x)'
  <2>1. stack'[x] = stack[x] /\ phase'[x] = phase[x]
    BY <1>1, OwnState
  <2> QED BY <2>1 DEF InCalls, CallingAt
<1>2. ASSUME UNCHANGED <<stack, phase>>
      PROVE  CallingAt(s)'
  BY <1>2 DEF InCalls, CallingAt
<1>3. ASSUME Configure(s)
      PROVE  CallingAt(s)'
  <2> DEFINE c == [Call(Top) EXCEPT !.child = 1]
  <2>1. stack'[s] = <<c>> /\ phase'[s] = "configure"
    BY <1>3 DEF Configure, Types
  <2>2. ~c.waits
    BY DEF Call
  <2> HIDE DEF c
  <2>3. stack'[s] # <<>> /\ \A i \in 1 .. Len(stack'[s]) : i = 1
    BY <2>1
  <2> QED BY <2>1, <2>3 DEF CallingAt
<1>4. ASSUME Listen(s)
      PROVE  CallingAt(s)'
  <2>1. stack'[s] = <<>> /\ phase'[s] = "listen"
    BY <1>4 DEF Listen, Continue, Types
  <2>2. \A i \in 1 .. Len(<<>>) : FALSE
    OBVIOUS
  <2> QED BY <2>1, <2>2 DEF CallingAt
<1>5. ASSUME Create(s) \/ ConnectRemoteComponent(s)
      PROVE  CallingAt(s)'
  <2>1. Running(s) /\ phase' = phase
    BY <1>5 DEF Create, ConnectRemoteComponent
  <2>2. stack[s] # <<>> /\ Head(stack[s]) = stack[s][1] /\ stack[s][1] \in Calls
    BY <2>1, RunningTop
  <2>3. \E c \in Calls : Continue(s, <<c>> \o Tail(stack[s]))
    <3>1. [stack[s][1] EXCEPT !.child = 1] \in Calls /\ [stack[s][1] EXCEPT !.waits = TRUE] \in Calls
      BY <2>2 DEF Calls
    <3> QED BY <1>5, <2>2, <3>1 DEF Create, ConnectRemoteComponent
  <2> QED BY <2>1, <2>2, <2>3, CallingContinues
<1>6. ASSUME NextSubset(s)
      PROVE  CallingAt(s)'
  <2>1. Running(s) /\ phase' = phase
    BY <1>6 DEF NextSubset
  <2>2. /\ stack[s] # <<>> /\ Head(stack[s]) = stack[s][1] /\ stack[s][1] \in Calls
        /\ ~stack[s][1].waits
    BY <2>1, RunningTop
  <2> DEFINE n == Subset(s, stack[s][1].comp)[stack[s][1].child]
  <2>3. /\ stack[s][1].child \in DOMAIN Subset(s, stack[s][1].comp)
        /\ Continue(s, <<Call(n)>> \o stack[s])
    BY <1>6, <2>2 DEF NextSubset
  <2>4. Subset(s, stack[s][1].comp) \in Seq(Names)
    BY <2>2, DeploymentTypes DEF Calls
  <2>5. n \in Names
    BY <2>3, <2>4
  <2> HIDE DEF n
  <2>6. Call(n) \in Calls
    BY <2>5 DEF Call, Calls
  <2> QED BY <2>1, <2>2, <2>3, <2>6, CallingCalls
<1>7. ASSUME ReturnLocally(s)
      PROVE  CallingAt(s)'
  BY <1>7, CallingReturns DEF ReturnLocally
<1>8. ASSUME NEW r \in Servers, RecvResponse(s, r)
      PROVE  CallingAt(s)'
  <2>1. Waiting(s) /\ AddSubset(s) /\ phase' = phase
    BY <1>8 DEF RecvResponse
  <2>2. Len(stack[s]) > 1
    BY <2>1, WaitingTop
  <2> QED BY <2>1, <2>2, CallingReturns
<1>9. ASSUME \/ ConnectSend(s) \/ Reprocess(s) \/ JobStep(s)
             \/ \E r \in Servers : ConnectRecv(s, r) \/ Reschedule(s, r) \/ Process(s, r)
      PROVE  CallingAt(s)'
  <2>1. UNCHANGED <<stack, phase>>
    BY <1>9, JobStepEffect DEF ConnectSend, Reprocess, ConnectRecv, Reschedule, Process
  <2> QED BY <1>2, <2>1
<1>10. CallingAt(s)'
  BY <1>3, <1>4, <1>5, <1>6, <1>7, <1>8, <1>9 DEF ServerStep
<1> QED BY <1>1, <1>10 DEF InCalls

\* Working is kept: another job is begun by a server without jobs, or while the
\* innermost one waits.
LEMMA WorkingStep ==
  ASSUME Types, Connected, PastBarrier, Nested, Working, NEW s \in Servers, ServerStep(s)
  PROVE  Working'
<1>1. ASSUME NEW x \in Servers, x # s
      PROVE  WorkingAt(x)'
  <2>1. jobs'[x] = jobs[x]
    BY <1>1, OwnState
  <2> QED BY <2>1 DEF Working, WorkingAt
<1>2. ASSUME jobs' = jobs
      PROVE  WorkingAt(s)'
  BY <1>2 DEF Working, WorkingAt
<1>0. Types'
  BY TypesStep
<1>3. jobs[s] \in Seq(Jobs) /\ jobs' \in [Servers -> Seq(Jobs)] /\ Len(jobs[s]) \in Nat
  BY <1>0, LenProperties DEF Types
<1>4. ASSUME jobs'[s] = <<>> \/ \E job : jobs'[s] = <<job>>
      PROVE  WorkingAt(s)'
  <2>1. ASSUME jobs'[s] = <<>>
        PROVE  \A i \in 1 .. Len(jobs'[s]) : i = 1
    <3>1. Len(jobs'[s]) = 0
      BY <2>1
    <3> QED BY <3>1
  <2>2. ASSUME NEW job, jobs'[s] = <<job>>
        PROVE  \A i \in 1 .. Len(jobs'[s]) : i = 1
    <3>1. Len(jobs'[s]) = 1
      BY <2>2
    <3> QED BY <3>1
  <2>3. \A i \in 1 .. Len(jobs'[s]) : i = 1
    BY <1>4, <2>1, <2>2
  <2> QED BY <2>3 DEF WorkingAt
<1>5. ASSUME jobs[s] # <<>>, NEW job \in Jobs, Become(s, job)
      PROVE  WorkingAt(s)'
  <2>1. jobs'[s] = <<job>> \o Tail(jobs[s])
    BY <1>5 DEF Become, Types
  <2>2. /\ Len(<<job>> \o Tail(jobs[s])) = Len(jobs[s])
        /\ \A i \in 2 .. Len(jobs[s]) : (<<job>> \o Tail(jobs[s]))[i] = jobs[s][i]
    BY <1>3, <1>5, ReplaceTop
  <2> QED BY <1>3, <2>1, <2>2 DEF Working, WorkingAt
<1>6. ASSUME InitComponents(s)
      PROVE  WorkingAt(s)'
  <2>1. \E job : jobs'[s] = <<job>>
    BY <1>6 DEF InitComponents, Types
  <2> QED BY <1>4, <2>1
<1>7. ASSUME Listen(s)
      PROVE  WorkingAt(s)'
  BY <1>4, <1>7 DEF Listen, Types
<1>8. ASSUME Respond(s)
      PROVE  WorkingAt(s)'
  <2>1. jobs[s] # <<>> /\ jobs'[s] = Tail(jobs[s])
    BY <1>8 DEF Respond, Types
  <2>2. /\ Len(Tail(jobs[s])) = Len(jobs[s]) - 1
        /\ \A i \in 1 .. Len(Tail(jobs[s])) : Tail(jobs[s])[i] = jobs[s][i + 1]
    BY <1>3, <2>1, HeadTailProperties
  <2>3. \A i \in 1 .. Len(jobs[s]) - 1 : i + 1 \in 1 .. Len(jobs[s]) /\ i + 1 # 1
    BY <1>3
  <2> QED BY <2>1, <2>2, <2>3 DEF Working, WorkingAt
<1>9. ASSUME NEW r \in Servers, ProcessSync(s, r)
      PROVE  WorkingAt(s)'
  <2>1. PICK job : jobs'[s] = <<job>> \o jobs[s]
    BY <1>9 DEF ProcessSync, Types
  <2>2. CASE jobs[s] = <<>>
    <3>1. jobs'[s] = <<job>>
      BY <2>1, <2>2
    <3> QED BY <1>4, <3>1
  <2>3. CASE jobs[s] # <<>>
    <3>1. Head(jobs[s]).awaits # NoCall
      BY <1>9, <2>3 DEF ProcessSync, Idle, Blocked, Awaited
    <3>2. \A i \in 1 .. Len(jobs[s]) : jobs[s][i].awaits # NoCall
      <4>1. Head(jobs[s]) = jobs[s][1]
        BY <1>3, <2>3, HeadTailProperties
      <4> QED BY <3>1, <4>1 DEF Working, WorkingAt
    <3> DEFINE S == Jobs \cup {job}
    <3>3. jobs[s] \in Seq(S) /\ job \in S
      BY <1>3
    <3> HIDE DEF S
    <3>4. /\ Len(<<job>> \o jobs[s]) = Len(jobs[s]) + 1
          /\ \A i \in 2 .. Len(jobs[s]) + 1 : (<<job>> \o jobs[s])[i] = jobs[s][i - 1]
      BY <3>3, Push
    <3>5. \A i \in 2 .. Len(jobs[s]) + 1 : i - 1 \in 1 .. Len(jobs[s])
      BY <1>3
    <3>6. \A i \in 1 .. Len(jobs[s]) + 1 : i = 1 \/ i \in 2 .. Len(jobs[s]) + 1
      BY <1>3
    <3> QED BY <2>1, <3>2, <3>4, <3>5, <3>6 DEF WorkingAt
  <2> QED BY <2>2, <2>3
<1>10. ASSUME CallHere(s) \/ CallServer(s) \/ CallNobody(s) \/ \E r \in Servers : RecvResult(s, r)
       PROVE  WorkingAt(s)'
  <2>1. jobs[s] # <<>> /\ (jobs' = jobs \/ \E job : Become(s, job))
    BY <1>10 DEF CallHere, CallServer, CallNobody, RecvResult, Returned, Calling
  <2>2. ASSUME NEW job, Become(s, job)
        PROVE  WorkingAt(s)'
    <3>1. jobs'[s] = <<job>> \o Tail(jobs[s])
      BY <2>2 DEF Become, Types
    <3>2. <<job>> \o Tail(jobs[s]) \in Seq(Jobs) /\ Tail(jobs[s]) \in Seq(Jobs)
      BY <1>3, <2>1, <3>1, HeadTailProperties
    <3>3. (<<job>> \o Tail(jobs[s]))[1] = job /\ 1 \in 1 .. Len(<<job>> \o Tail(jobs[s]))
      BY <3>2
    <3>4. job \in Jobs
      BY <3>2, <3>3, ElementOfSeq
    <3> QED BY <1>5, <2>1, <2>2, <3>4
  <2> QED BY <1>2, <2>1, <2>2
<1>11. ASSUME \/ ConnectSend(s) \/ Configure(s) \/ Create(s) \/ NextSubset(s) \/ ReturnLocally(s)
              \/ ConnectRemoteComponent(s) \/ Reprocess(s)
              \/ \E r \in Servers : \/ ConnectRecv(s, r) \/ RecvResponse(s, r) \/ Reschedule(s, r)
                                    \/ Process(s, r) \/ ProcessQuery(s, r)
       PROVE  WorkingAt(s)'
  <2>1. jobs' = jobs
    BY <1>11 DEF ConnectSend, Configure, Create, NextSubset, ReturnLocally, ConnectRemoteComponent,
      Reprocess, ConnectRecv, RecvResponse, Reschedule, Process, ProcessQuery
  <2> QED BY <1>2, <2>1
<1>12. WorkingAt(s)'
  BY <1>6, <1>7, <1>8, <1>9, <1>10, <1>11 DEF ServerStep, JobStep
<1> QED BY <1>1, <1>12 DEF Working

\* Deferring is kept: who waits has passed the barrier, and a response is not
\* put aside.
LEMMA DeferringStep ==
  ASSUME Types, PastBarrier, Nested, Cleared, Deferring, NEW s \in Servers, ServerStep(s)
  PROVE  Deferring'
<1> DEFINE E == [msg : Messages, from : Servers]
<1>1. ASSUME NEW x \in Servers, x # s
      PROVE  Deferrable(deferred'[x])
  BY <1>1, OwnState DEF Deferring
<1>2. deferred[s] \in Seq(E) /\ Len(deferred[s]) \in Nat
  BY LenProperties DEF Types
<1>3. Deferrable(deferred[s])
  BY DEF Deferring
<1>4. ASSUME NEW r \in Servers, Reschedule(s, r)
      PROVE  Deferrable(deferred'[s])
  <2> DEFINE e == [msg |-> Head(net[r][s]), from |-> r]
  <2>1. /\ Blocked(s) /\ net[r][s] # <<>>
        /\ Head(net[r][s]).type \notin UrgentTypes
        /\ deferred'[s] = Append(deferred[s], e)
    BY <1>4 DEF Reschedule, Types
  <2>2. Head(net[r][s]) \in Messages
    BY <2>1, ReceiveType
  <2>3. phase[s] # "connect"
    BY <2>1, AtWork
  <2>4. Contains(net[r][s], Head(net[r][s]))
    <3>1. IsSeq(net[r][s])
      BY ChannelsType, ChannelSeq DEF Types
    <3> QED BY <2>1, <3>1, TailSeq DEF Contains
  <2>5. Head(net[r][s]).type # "SERVER_CONNECT"
    BY <2>2, <2>3, <2>4 DEF Cleared, NoConnects
  <2>6. /\ e \in E
        /\ e.msg.type \in
             {"SERVER_READY", "CONNECT_REMOTE_COMP_REQ", "CONNECT_REMOTE_COMP_RES"} \cup ResultTypes
    BY <2>1, <2>2, <2>5, MessageFields DEF JobTypes
  <2> HIDE DEF e, E
  <2>7. /\ Len(Append(deferred[s], e)) = Len(deferred[s]) + 1
        /\ \A i \in 1 .. Len(deferred[s]) : Append(deferred[s], e)[i] = deferred[s][i]
        /\ Append(deferred[s], e)[Len(deferred[s]) + 1] = e
    BY <1>2, <2>6, AppendProperties
  <2>8. \A i \in 1 .. Len(deferred[s]) + 1 : i \in 1 .. Len(deferred[s]) \/ i = Len(deferred[s]) + 1
    BY <1>2
  <2> QED BY <1>3, <2>1, <2>6, <2>7, <2>8 DEF Deferrable
<1>5. ASSUME Reprocess(s)
      PROVE  Deferrable(deferred'[s])
  <2>1. deferred[s] # <<>> /\ deferred'[s] = Tail(deferred[s])
    BY <1>5 DEF Reprocess, Types
  <2> HIDE DEF E
  <2>2. /\ Len(Tail(deferred[s])) = Len(deferred[s]) - 1
        /\ \A i \in 1 .. Len(Tail(deferred[s])) : Tail(deferred[s])[i] = deferred[s][i + 1]
    BY <1>2, <2>1, HeadTailProperties
  <2>3. \A i \in 1 .. Len(deferred[s]) - 1 : i + 1 \in 1 .. Len(deferred[s])
    BY <1>2
  <2> QED BY <1>3, <2>1, <2>2, <2>3 DEF Deferrable
<1>6. ASSUME \/ ConnectSend(s) \/ Configure(s) \/ Create(s) \/ NextSubset(s) \/ ReturnLocally(s)
             \/ ConnectRemoteComponent(s) \/ Listen(s)
             \/ \E r \in Servers : ConnectRecv(s, r) \/ RecvResponse(s, r) \/ Process(s, r)
      PROVE  Deferrable(deferred'[s])
  <2>1. deferred' = deferred
    BY <1>6 DEF ConnectSend, ConnectRecv, Configure, Create,
        NextSubset, ReturnLocally, ConnectRemoteComponent, Listen, RecvResponse, Process
  <2> QED BY <1>3, <2>1
<1>8. ASSUME JobStep(s)
      PROVE  Deferrable(deferred'[s])
  BY <1>3, <1>8, JobStepEffect
<1>7. Deferrable(deferred'[s])
  BY <1>4, <1>5, <1>6, <1>8 DEF ServerStep
<1> QED BY <1>1, <1>7 DEF Deferring, Deferrable

-----------------------------------------------------------------------------

\* Before the first step nobody has told anybody anything.
LEMMA AnnouncingInit ==
  ASSUME Init
  PROVE  Announcing
<1>1. /\ \A x : ~Contains(<<>>, x) /\ Once(<<>>, x)
      /\ \A S : <<>> \in Seq(S)
  BY EmptySeq DEF Contains, Once
<1>2. /\ \A r, s \in Servers : net[r][s] = <<>>
      /\ \A s \in Servers : deferred[s] = <<>> /\ ready[s] = NumRanks - 1
      /\ \A r \in Servers : Owes[r] = Servers \ {r}
  BY DEF Init, Owes
<1>3. NumRanks - 1 \in Nat
  BY RanksAssumption
<1>4. MailTypes(Servers, net, Owes, deferred, ready)
  <2>1. NetType(Servers, net) /\ DeferredType(Servers, deferred)
    BY <1>1 DEF Init, NetType, DeferredType
  <2>2. Owes \in [Servers -> SUBSET Servers] /\ ready \in [Servers -> Nat]
    BY <1>3 DEF Init, Owes
  <2> QED BY <2>1, <2>2 DEF MailTypes
<1> HIDE DEF Owes
<1>5. \A r, s \in Servers : ~Told(ServerReady, net, deferred, r, s)
  BY <1>1, <1>2 DEF Told
<1>6. AllTellOnce(Servers, ServerReady, net, Owes, deferred)
  BY <1>1, <1>2, <1>5 DEF AllTellOnce, TellsOnce
<1>7. AllCount(Servers, ServerReady, net, Owes, deferred, ready)
  <2> SUFFICES ASSUME NEW s \in Servers
               PROVE  ready[s] = Cardinality(Expected(Servers, ServerReady, net, Owes, deferred, s))
    BY DEF AllCount
  <2>1. Expected(Servers, ServerReady, net, Owes, deferred, s) = Servers \ {s}
    BY <1>2 DEF Expected
  <2>2. Cardinality(Servers \ {s}) = NumRanks - 1
    BY ServersFinite, FS_RemoveElement
  <2> QED BY <1>2, <2>1, <2>2
<1> QED BY <1>4, <1>6, <1>7 DEF Announcing, Announced

LEMMA ReadyInvInit ==
  ASSUME Init
  PROVE  ReadyInv
<1>1. Counting /\ Cleared
  BY DEF Init, Counting, Cleared
<1>2. InCalls /\ Working /\ Deferring
  BY DEF Init, InCalls, CallingAt, Working, WorkingAt, Deferring, Deferrable
<1> QED BY <1>1, <1>2, IInvInit, AnnouncingInit DEF ReadyInv

LEMMA ReadyInvStep ==
  ASSUME ReadyInv, [Next]_vars
  PROVE  ReadyInv'
<1>1. IInv'
  BY IInvStep DEF ReadyInv
<1>2. CASE Next
  <2>1. PICK s \in Servers : ServerStep(s)
    BY <1>2 DEF Next
  <2>2. Types /\ Connected /\ Connecting /\ PastBarrier /\ Nested
    BY DEF ReadyInv, IInv
  <2>3. Announcing'
    BY <2>1, <2>2, AnnouncingStep DEF ReadyInv
  <2>4. Counting'
    BY <2>1, <2>2, CountingStep DEF ReadyInv
  <2>5. Cleared'
    BY <2>1, <2>2, ClearedStep DEF ReadyInv
  <2>6. InCalls'
    BY <2>1, <2>2, CallingStep DEF ReadyInv
  <2>7. Deferring'
    BY <2>1, <2>2, DeferringStep DEF ReadyInv
  <2>8. Working'
    BY <2>1, <2>2, WorkingStep DEF ReadyInv
  <2> QED BY <1>1, <2>3, <2>4, <2>5, <2>6, <2>7, <2>8 DEF ReadyInv
<1>3. CASE UNCHANGED vars
  <2>1. UNCHANGED <<net, phase, ready, stack, jobs, deferred>>
    BY <1>3 DEF vars
  <2>2. Owes' = Owes
    BY <2>1 DEF Owes
  <2>3. Announcing'
    BY <2>1, <2>2 DEF ReadyInv, Announcing
  <2>4. Counting' /\ Cleared'
    BY <2>1 DEF ReadyInv, Counting, Cleared, NoConnects
  <2>5. InCalls' /\ Working' /\ Deferring'
    BY <2>1 DEF ReadyInv, InCalls, CallingAt, Working, WorkingAt, Deferring, Deferrable
  <2> QED BY <1>1, <2>3, <2>4, <2>5 DEF ReadyInv
<1> QED BY <1>2, <1>3

\* Whom s has not heard from are others.
LEMMA CountOthers ==
  ASSUME Announcing, NEW s \in Servers
  PROVE  LET C == Expected(Servers, ServerReady, net, Owes, deferred, s) IN
         /\ ready[s] = Cardinality(C)
         /\ IsFiniteSet(C)
         /\ ready[s] \in 0 .. NumRanks - 1
         /\ \A r \in Servers : phase[r] # "listen" => r = s \/ r \in C
<1> DEFINE C == Expected(Servers, ServerReady, net, Owes, deferred, s)
<1>1. ready[s] = Cardinality(C)
  BY DEF Announcing, Announced, AllCount
<1>2. C \in SUBSET (Servers \ {s})
  BY DEF Expected
<1>3. \A r \in Servers : phase[r] # "listen" => r = s \/ r \in C
  BY DEF Expected, Owes
<1> HIDE DEF C
<1>4. IsFiniteSet(Servers \ {s}) /\ Cardinality(Servers \ {s}) = NumRanks - 1
  BY ServersFinite, FS_RemoveElement
<1>5. IsFiniteSet(C) /\ Cardinality(C) <= NumRanks - 1
  BY <1>2, <1>4, FS_Subset
<1>6. Cardinality(C) \in Nat
  BY <1>5, FS_CardinalityType
<1>7. Cardinality(C) \in 0 .. NumRanks - 1
  BY <1>5, <1>6, RanksAssumption
<1> QED BY <1>1, <1>3, <1>5, <1>7 DEF C

LEMMA ReadyInvListening ==
  ASSUME ReadyInv
  PROVE  ReadyMeansListening
<1> SUFFICES ASSUME NEW s \in Servers, ready[s] = 0, NEW r \in Servers, phase[r] # "listen"
             PROVE  FALSE
  BY DEF ReadyMeansListening
<1> DEFINE C == Expected(Servers, ServerReady, net, Owes, deferred, s)
<1>1. Announcing /\ Counting
  BY DEF ReadyInv
<1>2. /\ Cardinality(C) = 0 /\ IsFiniteSet(C)
      /\ r = s \/ r \in C
  BY <1>1, CountOthers
<1> HIDE DEF C
<1>3. C = {}
  BY <1>2, FS_EmptySet
<1>4. phase[s] # "listen"
  BY <1>2, <1>3
<1>5. NumRanks - 1 # 0
  BY RanksAssumption
<1> QED BY <1>1, <1>4, <1>5 DEF Counting

LEMMA ReadyInvTypes ==
  ASSUME ReadyInv
  PROVE  TypeOK
<1> USE DEF ReadyInv, IInv
<1>1. /\ deployment \in Deployments
      /\ round \in [Servers -> 0 .. NumRanks]
      /\ phase \in [Servers -> {"connect", "configure", "listen"}]
      /\ component_count \in [Servers -> Nat]
      /\ id \in [Servers -> [Names -> Nat]]
      /\ superset \in [Servers -> [Names -> Names \cup {NoComp}]]
      /\ failed \in BOOLEAN
  BY DEF Types
<1>2. \A s, r \in Servers : net[s][r] \in Seq(Messages)
  BY DEF Types, Channels
<1>3. ready \in [Servers -> 0 .. NumRanks - 1]
  <2>1. \A s \in Servers : ready[s] \in 0 .. NumRanks - 1
    BY CountOthers
  <2>2. ready \in [Servers -> Nat]
    BY MailType
  <2> QED BY <2>1, <2>2
<1>4. ASSUME NEW s \in Servers
      PROVE  remote_server[s] \in Seq(Servers \ {s})
  <2> DEFINE q == remote_server[s]
             T == Servers \ {s}
  <2>1. q \in Seq(Servers)
    BY DEF Types
  <2>2. Len(q) \in Nat /\ q \in [1 .. Len(q) -> Servers]
    BY <2>1, LenProperties
  <2>3. \A i \in 1 .. Len(q) : q[i] \in T
    BY <2>2 DEF Connected
  <2> HIDE DEF q, T
  <2>4. q \in [1 .. Len(q) -> T]
    BY <2>2, <2>3
  <2>5. q \in Seq(T)
    BY <2>2, <2>4, SeqDef
  <2> QED BY <2>5 DEF q, T
<1>5. ASSUME NEW s \in Servers
      PROVE  /\ (stack[s] # <<>>) = (phase[s] = "configure")
             /\ \A i \in DOMAIN stack[s] :
                  /\ stack[s][i].comp \in Names \cup {Top}
                  /\ (stack[s][i].comp = Top) = (i = Len(stack[s]))
                  /\ stack[s][i].waits => i = 1
  <2>1. stack[s] \in Seq(Calls) /\ DOMAIN stack[s] = 1 .. Len(stack[s])
    BY LenProperties DEF Types
  <2>2. \A i \in 1 .. Len(stack[s]) : stack[s][i].comp \in Names \cup {Top}
    <3>1. \A i \in 1 .. Len(stack[s]) : stack[s][i] \in Calls
      BY <2>1, ElementOfSeq
    <3> QED BY <3>1 DEF Calls
  <2> QED BY <2>1, <2>2 DEF InCalls, CallingAt, Nested, NestedAt
<1>6. ASSUME NEW s \in Servers
      PROVE  \A i \in DOMAIN deferred[s] :
               deferred[s][i].msg.type \in
                 {"SERVER_READY", "CONNECT_REMOTE_COMP_REQ", "CONNECT_REMOTE_COMP_RES"} \cup ResultTypes
  <2>1. deferred[s] \in Seq([msg : Messages, from : Servers])
    BY DEF Types
  <2>2. DOMAIN deferred[s] = 1 .. Len(deferred[s])
    BY <2>1, LenProperties
  <2> QED BY <2>2 DEF Deferring, Deferrable
<1>7. ASSUME NEW s \in Servers
      PROVE  /\ jobs[s] \in Seq(Jobs)
             /\ \A i \in DOMAIN jobs[s] : jobs[s][i].awaits = NoCall => i = 1
  <2>1. jobs[s] \in Seq(Jobs)
    BY DEF Types
  <2>2. DOMAIN jobs[s] = 1 .. Len(jobs[s])
    BY <2>1, LenProperties
  <2> QED BY <2>1, <2>2 DEF Working, WorkingAt
<1> QED BY <1>1, <1>2, <1>3, <1>4, <1>5, <1>6, <1>7 DEF TypeOK

\* The types of a starting simulation: ready_count stays a count, a server
\* counts only others, a process waits in its innermost call only, and it puts
\* nothing aside but what reprocess can handle.
THEOREM StartupTypes == Spec => []TypeOK
<1>1. Init => ReadyInv
  BY ReadyInvInit
<1>2. ReadyInv /\ [Next]_vars => ReadyInv'
  BY ReadyInvStep
<1>3. ReadyInv => TypeOK
  BY ReadyInvTypes
<1> QED BY <1>1, <1>2, <1>3, PTL DEF Spec

\* Ping-pong between KITFOX_COMM and INTER_COMM (kitfox-server.cc:1380) begins
\* at no server before all of them listen, in whatever order the processes
\* connect, configure, listen and put READY aside.
THEOREM AllListenWhenReady == Spec => []ReadyMeansListening
<1>1. Init => ReadyInv
  BY ReadyInvInit
<1>2. ReadyInv /\ [Next]_vars => ReadyInv'
  BY ReadyInvStep
<1>3. ReadyInv => ReadyMeansListening
  BY ReadyInvListening
<1> QED BY <1>1, <1>2, <1>3, PTL DEF Spec

-----------------------------------------------------------------------------
\* Requests to bind a component, and their responses

Requests      == {m \in Messages : m.type = "CONNECT_REMOTE_COMP_REQ"}
Responses     == {m \in Messages : m.type = "CONNECT_REMOTE_COMP_RES"}
RequestsOf(s) == {[msg |-> m, from |-> s] : m \in Requests}
ResponsesOf(s) == {[msg |-> m, from |-> s] : m \in Responses}

\* What is left of the requests of s to r: in the channels N to and fro, and
\* among what servers put aside in F
RequestCount(N, F, s, r) ==
    Count(N[s][r], Requests) + Count(F[r], RequestsOf(s))
      + Count(N[r][s], Responses) + Count(F[s], ResponsesOf(r))

Awaits(s, r) == Waiting(s) /\ r = Head(remote_server[s])

\* One request is left for a process that waits, and none for others
AsksOnce(N, F) == \A s, r \in Servers : RequestCount(N, F, s, r) = OneIf(Awaits(s, r))

AskedOnce == failed \/ AsksOnce(net, deferred)

LEMMA DeferredLines ==
  ASSUME Types
  PROVE  Lines(Servers, deferred)
<1> DEFINE T == [msg : Messages, from : Servers]
<1>1. deferred \in [Servers -> Seq(T)]
  BY DEF Types
<1> HIDE DEF T
<1> QED BY <1>1 DEF Lines

LEMMA AsksNat ==
  ASSUME NEW N, NetType(Servers, N), NEW F, Lines(Servers, F), NEW s \in Servers, NEW r \in Servers
  PROVE  /\ Count(N[s][r], Requests) \in Nat
         /\ Count(F[r], RequestsOf(s)) \in Nat
         /\ Count(N[r][s], Responses) \in Nat
         /\ Count(F[s], ResponsesOf(r)) \in Nat
<1>1. IsSeq(N[s][r]) /\ IsSeq(N[r][s]) /\ IsSeq(F[r]) /\ IsSeq(F[s])
  BY ChannelSeq, LineSeq
<1> QED BY <1>1, CountNat

LEMMA AsideKind ==
  ASSUME NEW m \in Messages, NEW s, NEW r
  PROVE  /\ [msg |-> m, from |-> s] \in RequestsOf(r) <=> s = r /\ m \in Requests
         /\ [msg |-> m, from |-> s] \in ResponsesOf(r) <=> s = r /\ m \in Responses
<1> DEFINE e == [msg |-> m, from |-> s]
<1>1. ASSUME NEW n, e = [msg |-> n, from |-> r]
      PROVE  m = n /\ s = r
  <2>1. e.msg = m /\ e.from = s
    OBVIOUS
  <2>2. [msg |-> n, from |-> r].msg = n /\ [msg |-> n, from |-> r].from = r
    OBVIOUS
  <2> HIDE DEF e
  <2> QED BY <1>1, <2>1, <2>2
<1> QED BY <1>1 DEF RequestsOf, ResponsesOf

\* Any other message leaves everything as it is.
AsksSame(N, M, F) ==
    \A x, y \in Servers : RequestCount(M, F, x, y) = RequestCount(N, F, x, y)

LEMMA SentOther ==
  ASSUME NEW N, NetType(Servers, N), NEW M, NEW F, Lines(Servers, F), NEW s, NEW r, NEW m,
         Sends(Servers, N, M, s, r, m, Requests), Sends(Servers, N, M, s, r, m, Responses),
         m \notin Requests, m \notin Responses
  PROVE  AsksSame(N, M, F)
BY AsksNat DEF Sends, OneIf, RequestCount, AsksSame

LEMMA SendOther ==
  ASSUME NEW N, NetType(Servers, N), NEW F, Lines(Servers, F), NEW s \in Servers, NEW r \in Servers,
         NEW m, m \notin Requests, m \notin Responses,
         NEW M, M = [N EXCEPT ![s][r] = Append(@, m)]
  PROVE  AsksSame(N, M, F)
BY SendCount, SentOther

LEMMA TakenOther ==
  ASSUME NEW N, NEW M, NetType(Servers, M), NEW F, Lines(Servers, F), NEW r, NEW s,
         Receives(Servers, N, M, r, s, Requests), Receives(Servers, N, M, r, s, Responses),
         Head(N[r][s]) \notin Requests, Head(N[r][s]) \notin Responses
  PROVE  AsksSame(N, M, F)
BY AsksNat DEF Receives, OneIf, RequestCount, AsksSame

LEMMA TakeOther ==
  ASSUME NEW N, NetType(Servers, N), NEW F, Lines(Servers, F), NEW r \in Servers, NEW s \in Servers,
         N[r][s] # <<>>, Head(N[r][s]) \notin Requests, Head(N[r][s]) \notin Responses,
         NEW M, M = [N EXCEPT ![r][s] = Tail(@)]
  PROVE  AsksSame(N, M, F)
<1>1. Receives(Servers, N, M, r, s, Requests) /\ Receives(Servers, N, M, r, s, Responses)
  BY ReceiveCount
<1>2. NetType(Servers, M)
  BY TakeType
<1> QED BY <1>1, <1>2, TakenOther

\* A process that begins or ends to wait has a call in progress; for the
\* others nothing changes.
LEMMA AwaitsOf ==
  ASSUME Types, Nested, NEW s \in Servers, ServerStep(s), NEW x \in Servers, x # s, NEW y
  PROVE  Awaits(x, y)' <=> Awaits(x, y)
<1>1. stack'[x] = stack[x]
  BY OwnState
<1>2. remote_server'[x] = remote_server[x]
  BY JobStepEffect DEF ServerStep, ConnectSend, ConnectRecv, Configure, Create, NextSubset, Types,
         ReturnLocally, ConnectRemoteComponent, Listen, Reprocess, RecvResponse, Reschedule, Process
<1> QED BY <1>1, <1>2 DEF Awaits, Waiting

\* AskedOnce is kept by a step that neither begins nor ends a wait.
LEMMA AskedStays ==
  ASSUME Types, Nested, AskedOnce, NEW s \in Servers, ServerStep(s),
         \A y \in Servers : Awaits(s, y)' <=> Awaits(s, y),
         \A x, y \in Servers : RequestCount(net', deferred', x, y) = RequestCount(net, deferred, x, y)
  PROVE  AskedOnce'
<1>1. ~failed
  BY DEF ServerStep
<1>2. \A x, y \in Servers : Awaits(x, y)' <=> Awaits(x, y)
  BY AwaitsOf
<1>3. \A x, y \in Servers : RequestCount(net', deferred', x, y) = OneIf(Awaits(x, y))
  BY <1>1 DEF AskedOnce, AsksOnce
<1> QED BY <1>2, <1>3 DEF AskedOnce, AsksOnce, OneIf

\* A call that returns leaves one that does not wait.
LEMMA ReturnsAwake ==
  ASSUME Types, InCalls, NEW s \in Servers, Len(stack[s]) > 1, AddSubset(s)
  PROVE  ~stack'[s][1].waits
<1>1. stack[s] \in Seq(Calls) /\ Len(stack[s]) \in Nat
  BY LenProperties DEF Types
<1>2. stack[s][2] \in Calls /\ ~stack[s][2].waits
  BY <1>1, ElementOfSeq DEF InCalls, CallingAt
<1>3. stack'[s][1] = [stack[s][2] EXCEPT !.child = @ + 1]
  BY AddSubsetStack
<1> QED BY <1>2, <1>3 DEF Calls

\* Two messages of the protocol are told apart by their types.
LEMMA KindsApart ==
  ASSUME Types
  PROVE  /\ \A m \in Messages : m \in Requests <=> m.type = "CONNECT_REMOTE_COMP_REQ"
         /\ \A m \in Messages : m \in Responses <=> m.type = "CONNECT_REMOTE_COMP_RES"
         /\ ServerReady \notin Requests /\ ServerReady \notin Responses
         /\ \A x : ServerConnect(x) \notin Requests /\ ServerConnect(x) \notin Responses
         /\ \A i \in Nat, n \in Names : /\ ConnectRemoteReq(i, n) \in Requests
                                        /\ ConnectRemoteReq(i, n) \notin Responses
         /\ \A i \in Nat : /\ ConnectRemoteRes(i) \in Responses
                           /\ ConnectRemoteRes(i) \notin Requests
<1>1. \A i \in Nat, n \in Names : /\ ConnectRemoteReq(i, n) \in Messages
                                  /\ ConnectRemoteReq(i, n).type = "CONNECT_REMOTE_COMP_REQ"
  BY MessageTypes DEF ConnectRemoteReq
<1>2. \A i \in Nat : /\ ConnectRemoteRes(i) \in Messages
                     /\ ConnectRemoteRes(i).type = "CONNECT_REMOTE_COMP_RES"
  BY MessageTypes DEF ConnectRemoteRes
<1>3. ServerReady.type = "SERVER_READY" /\ \A x : ServerConnect(x).type = "SERVER_CONNECT"
  BY DEF ServerReady, ServerConnect
<1> QED BY <1>1, <1>2, <1>3 DEF Requests, Responses

\* A process that creates components without asking disturbs nothing.
LEMMA CreatingAsks ==
  ASSUME ReadyInv, Types', AskedOnce, NEW s \in Servers, ServerStep(s),
         Configure(s) \/ Create(s) \/ NextSubset(s) \/ ReturnLocally(s)
  PROVE  AskedOnce'
<1>1. Types /\ PastBarrier /\ Nested /\ InCalls
  BY DEF ReadyInv, IInv
<1>2. net' = net /\ deferred' = deferred
  BY DEF Configure, Create, NextSubset, ReturnLocally
<1>3. ~Waiting(s)
  <2>1. CASE Configure(s)
    <3>1. stack[s] = <<>>
      BY <1>1, <2>1 DEF Configure, Nested, NestedAt
    <3> QED BY <3>1 DEF Waiting
  <2>2. CASE Running(s)
    BY <2>2 DEF Running, Waiting
  <2> QED BY <2>1, <2>2 DEF Create, NextSubset, ReturnLocally
<1>4. ~Waiting(s)'
  <2>1. stack'[s] = <<>> \/ ~stack'[s][1].waits
    <3>1. CASE Configure(s)
      <4>1. stack'[s] = <<[Call(Top) EXCEPT !.child = 1]>>
        BY <1>1, <3>1 DEF Configure, Types
      <4> QED BY <4>1 DEF Call
    <3>2. CASE Create(s)
      <4> DEFINE c == [Head(stack[s]) EXCEPT !.child = 1]
      <4>1. /\ stack[s] # <<>> /\ stack[s][1] \in Calls /\ Head(stack[s]) = stack[s][1]
            /\ ~stack[s][1].waits
        BY <1>1, <3>2, RunningTop DEF Create
      <4>2. c \in Calls /\ ~c.waits
        BY <4>1 DEF Calls
      <4>3. Continue(s, <<c>> \o Tail(stack[s]))
        BY <3>2 DEF Create
      <4>4. stack'[s][1] = c
        <5> HIDE DEF c
        <5> QED BY <1>1, <4>1, <4>2, <4>3, ContinueStack
      <4> QED BY <4>2, <4>4
    <3>3. CASE NextSubset(s)
      <4> DEFINE f == Head(stack[s])
                 c == Call(Subset(s, f.comp)[f.child])
      <4>1. stack[s] # <<>> /\ f \in Calls /\ f.child \in DOMAIN Subset(s, f.comp)
        BY <1>1, <3>3, RunningTop DEF NextSubset
      <4>2. f.comp \in Names \cup {Top}
        BY <4>1 DEF Calls
      <4>3. Subset(s, f.comp)[f.child] \in Names
        BY <1>1, <4>1, <4>2, DeploymentTypes
      <4>4. c \in Calls /\ ~c.waits
        BY <4>3 DEF Call, Calls
      <4>5. Continue(s, <<c>> \o stack[s])
        BY <3>3 DEF NextSubset
      <4>6. stack'[s][1] = c
        <5> HIDE DEF c, f
        <5> QED BY <1>1, <4>4, <4>5, CallStack
      <4> QED BY <4>4, <4>6
    <3>4. CASE ReturnLocally(s)
      <4>1. AddSubset(s) /\ Len(stack[s]) > 1
        BY <3>4 DEF ReturnLocally
      <4> QED BY <1>1, <4>1, ReturnsAwake
    <3> QED BY <3>1, <3>2, <3>3, <3>4
  <2>2. (stack[s] = <<>> \/ ~stack[s][1].waits => ~Waiting(s))'
    <3>1. stack'[s] \in Seq(Calls)
      BY DEF Types
    <3>2. stack'[s] # <<>> => Head(stack'[s]) = stack'[s][1]
      BY <3>1
    <3> QED BY <3>2 DEF Waiting
  <2> QED BY <2>1, <2>2
<1>5. \A y \in Servers : Awaits(s, y)' <=> Awaits(s, y)
  BY <1>3, <1>4 DEF Awaits
<1> QED BY <1>1, <1>2, <1>5, AskedStays

\* The first messages are no requests.
LEMMA ConnectingAsks ==
  ASSUME ReadyInv, AskedOnce, NEW s \in Servers, ServerStep(s),
         ConnectSend(s) \/ \E r \in Servers : ConnectRecv(s, r)
  PROVE  AskedOnce'
<1>1. Types /\ Connecting /\ PastBarrier /\ Nested /\ ~failed
  BY DEF ReadyInv, IInv, ServerStep
<1>2. phase[s] = "connect" /\ stack' = stack /\ deferred' = deferred
  BY DEF ConnectSend, ConnectRecv
<1>3. stack[s] = <<>>
  BY <1>1, <1>2 DEF Nested, NestedAt
<1>4. \A y \in Servers : Awaits(s, y)' <=> Awaits(s, y)
  BY <1>2, <1>3 DEF Awaits, Waiting
<1>5. NetType(Servers, net) /\ Lines(Servers, deferred)
  BY <1>1, ChannelsType, DeferredLines DEF Types
<1>6. AsksSame(net, net', deferred)
  <2>1. CASE ConnectSend(s)
    <3>1. /\ net' = [net EXCEPT ![s][round[s]] = Append(@, ServerConnect(deployment.published[s]))]
          /\ round[s] \in Servers
      BY <2>1 DEF ConnectSend
    <3> QED BY <1>1, <1>5, <3>1, KindsApart, SendOther
  <2>2. ASSUME NEW r \in Servers, ConnectRecv(s, r)
        PROVE  AsksSame(net, net', deferred)
    <3>1. net[r][s] = <<ServerConnect(deployment.published[r])>>
      BY <1>1, <2>2, FirstMessage
    <3>2. net[r][s] # <<>> /\ Head(net[r][s]) = ServerConnect(deployment.published[r])
      BY <3>1
    <3>3. net' = [net EXCEPT ![r][s] = Tail(@)]
      BY <2>2 DEF ConnectRecv, Received
    <3> QED BY <1>1, <1>5, <3>2, <3>3, KindsApart, TakeOther
  <2> QED BY <2>1, <2>2
<1> QED BY <1>1, <1>2, <1>4, <1>6, AskedStays DEF AsksSame

\* There is one request more of s to r in M and G than in N and F.
More(N, F, M, G, s, r) ==
    \A x, y \in Servers : RequestCount(M, G, x, y) = RequestCount(N, F, x, y) + OneIf(x = s /\ y = r)

LEMMA AsksType ==
  ASSUME NEW N, NetType(Servers, N), NEW F, Lines(Servers, F)
  PROVE  \A x, y \in Servers : RequestCount(N, F, x, y) \in Nat
BY AsksNat DEF RequestCount

\* Whether it goes away in one place and appears in another does not matter.
LEMMA MoreOrLess ==
  ASSUME NEW N, NetType(Servers, N), NEW F, Lines(Servers, F), NEW s, NEW r,
         NEW M, NEW G, More(N, F, M, G, s, r), NEW K, NEW H, More(N, F, K, H, s, r)
  PROVE  \A x, y \in Servers : RequestCount(K, H, x, y) = RequestCount(M, G, x, y)
BY AsksType DEF More

LEMMA SentMore ==
  ASSUME NEW N, NetType(Servers, N), NEW M, NEW F, Lines(Servers, F),
         NEW s \in Servers, NEW r \in Servers, NEW m,
         Sends(Servers, N, M, s, r, m, Requests), Sends(Servers, N, M, s, r, m, Responses)
  PROVE  /\ m \in Requests /\ m \notin Responses => More(N, F, M, F, s, r)
         /\ m \in Responses /\ m \notin Requests => More(N, F, M, F, r, s)
BY AsksNat DEF Sends, OneIf, RequestCount, More

LEMMA ReceivedMore ==
  ASSUME NEW N, NEW M, NetType(Servers, M), NEW F, Lines(Servers, F),
         NEW r \in Servers, NEW s \in Servers,
         Receives(Servers, N, M, r, s, Requests), Receives(Servers, N, M, r, s, Responses)
  PROVE  LET m == Head(N[r][s]) IN
         /\ m \in Requests /\ m \notin Responses => More(M, F, N, F, r, s)
         /\ m \in Responses /\ m \notin Requests => More(M, F, N, F, s, r)
BY AsksNat DEF Receives, OneIf, RequestCount, More

LEMMA AsideMore ==
  ASSUME NEW N, NetType(Servers, N), NEW F, Lines(Servers, F), NEW G, NEW r, NEW s, NEW m \in Messages,
         \A x : /\ Appends(Servers, F, G, s, [msg |-> m, from |-> r], RequestsOf(x))
                /\ Appends(Servers, F, G, s, [msg |-> m, from |-> r], ResponsesOf(x))
  PROVE  /\ m \in Requests /\ m \notin Responses => More(N, F, N, G, r, s)
         /\ m \in Responses /\ m \notin Requests => More(N, F, N, G, s, r)
         /\ m \notin Requests /\ m \notin Responses =>
              \A x, y \in Servers : RequestCount(N, G, x, y) = RequestCount(N, F, x, y)
<1>1. \A x, y \in Servers :
        /\ Count(G[y], RequestsOf(x)) = Count(F[y], RequestsOf(x)) + OneIf(y = s /\ r = x /\ m \in Requests)
        /\ Count(G[x], ResponsesOf(y)) = Count(F[x], ResponsesOf(y)) + OneIf(x = s /\ r = y /\ m \in Responses)
  BY AsideKind DEF Appends, OneIf
<1>2. CASE m \in Requests /\ m \notin Responses
  BY <1>1, <1>2, AsksNat DEF OneIf, RequestCount, More
<1>3. CASE m \in Responses /\ m \notin Requests
  BY <1>1, <1>3, AsksNat DEF OneIf, RequestCount, More
<1>4. CASE m \notin Requests /\ m \notin Responses
  BY <1>1, <1>4, AsksNat DEF OneIf, RequestCount
<1> QED BY <1>2, <1>3, <1>4

LEMMA ResumedMore ==
  ASSUME NEW N, NetType(Servers, N), NEW F, NEW G, Lines(Servers, G), NEW r, NEW s, NEW m \in Messages,
         m \notin Responses, Head(F[s]) = [msg |-> m, from |-> r],
         \A x : Takes(Servers, F, G, s, RequestsOf(x)) /\ Takes(Servers, F, G, s, ResponsesOf(x))
  PROVE  /\ m \in Requests => More(N, G, N, F, r, s)
         /\ m \notin Requests => \A x, y \in Servers : RequestCount(N, G, x, y) = RequestCount(N, F, x, y)
<1>1. \A x, y \in Servers :
        /\ Count(F[y], RequestsOf(x)) = Count(G[y], RequestsOf(x)) + OneIf(y = s /\ r = x /\ m \in Requests)
        /\ Count(F[x], ResponsesOf(y)) = Count(G[x], ResponsesOf(y)) + OneIf(FALSE)
  BY AsideKind DEF Takes, OneIf
<1>2. CASE m \in Requests
  BY <1>1, <1>2, AsksNat DEF OneIf, RequestCount, More
<1>3. CASE m \notin Requests
  BY <1>1, <1>3, AsksNat DEF OneIf, RequestCount
<1> QED BY <1>2, <1>3

\* The calls of jobs are other messages.
LEMMA JobAsks ==
  ASSUME ReadyInv, AskedOnce, NEW s \in Servers, ServerStep(s), JobStep(s)
  PROVE  AskedOnce'
<1>1. Types /\ Nested
  BY DEF ReadyInv, IInv
<1>2. UNCHANGED <<stack, remote_server, deferred>>
  BY <1>1, JobStepEffect
<1>3. PICK channels \in Channels : Took(s, channels) /\ Sent(s, channels)
  BY <1>1, JobStepEffect
<1>4. NetType(Servers, net) /\ NetType(Servers, channels) /\ Lines(Servers, deferred)
  BY <1>1, ChannelsType, DeferredLines DEF Types
<1>5. \A m \in Messages : m.type \in JobTypes => m \notin Requests /\ m \notin Responses
  BY TypeNames DEF Requests, Responses, JobTypes
<1>6. AsksSame(net, channels, deferred)
  <2>1. CASE channels = net
    BY <2>1 DEF AsksSame
  <2>2. ASSUME NEW r \in Servers, net[r][s] # <<>>, Head(net[r][s]).type \in JobTypes,
               channels = Received(s, r)
        PROVE  AsksSame(net, channels, deferred)
    <3>1. Head(net[r][s]) \in Messages
      BY <1>1, <2>2, ReceiveType
    <3>2. channels = [net EXCEPT ![r][s] = Tail(@)]
      BY <2>2 DEF Received
    <3> QED BY <1>4, <1>5, <2>2, <3>1, <3>2, TakeOther
  <2> QED BY <1>3, <2>1, <2>2 DEF Took
<1>7. AsksSame(channels, net', deferred)
  <2>1. CASE net' = channels
    BY <2>1 DEF AsksSame
  <2>2. ASSUME NEW r \in Servers, NEW m \in Messages, m.type \in JobTypes,
               net' = [channels EXCEPT ![s][r] = Append(@, m)]
        PROVE  AsksSame(channels, net', deferred)
    BY <1>4, <1>5, <2>2, SendOther
  <2> QED BY <1>3, <2>1, <2>2 DEF Sent
<1>8. \A y \in Servers : Awaits(s, y)' <=> Awaits(s, y)
  BY <1>2 DEF Awaits, Waiting
<1> QED BY <1>1, <1>2, <1>6, <1>7, <1>8, AskedStays DEF AsksSame

\* connect_remote_component sends the one request that it waits for.
LEMMA AskingAsks ==
  ASSUME ReadyInv, Types', AskedOnce, NEW s \in Servers, ServerStep(s), ConnectRemoteComponent(s)
  PROVE  AskedOnce'
<1> DEFINE p == Head(remote_server[s])
           m == ConnectRemoteReq(id[s][stack[s][2].comp], Head(stack[s]).comp)
           c == [Head(stack[s]) EXCEPT !.waits = TRUE]
<1>1. Types /\ Connected /\ PastBarrier /\ Nested /\ ~failed /\ AsksOnce(net, deferred)
  BY DEF ReadyInv, IInv, ServerStep, AskedOnce
<1>2. /\ Running(s) /\ Len(stack[s]) > 1 /\ stack[s][2].comp # Top
      /\ net' = [net EXCEPT ![s][p] = Append(@, m)] /\ deferred' = deferred
      /\ Continue(s, <<c>> \o Tail(stack[s])) /\ remote_server' = remote_server
  BY DEF ConnectRemoteComponent
<1>3. /\ stack[s] # <<>> /\ stack[s][1] \in Calls /\ Head(stack[s]) = stack[s][1]
      /\ ~stack[s][1].waits /\ stack[s][1].comp \in Names /\ stack[s][2] \in Calls
  BY <1>1, <1>2, RunningTop
<1>4. p \in Servers
  BY <1>1, <1>3, HasPeer
<1>5. m \in Requests /\ m \notin Responses
  <2>1. id[s][stack[s][2].comp] \in Nat /\ Head(stack[s]).comp \in Names
    BY <1>1, <1>2, <1>3 DEF Types, Calls
  <2> QED BY <1>1, <2>1, KindsApart
<1>6. NetType(Servers, net) /\ Lines(Servers, deferred)
  BY <1>1, ChannelsType, DeferredLines DEF Types
<1>7. Waiting(s)' /\ ~Waiting(s)
  <2>1. c \in Calls /\ c.waits
    BY <1>3 DEF Calls
  <2>2. stack'[s][1] = c /\ Len(stack'[s]) = Len(stack[s]) /\ stack'[s] \in Seq(Calls)
    <3> HIDE DEF c
    <3> QED BY <1>1, <1>2, <1>3, <2>1, ContinueStack
  <2>3. stack'[s] # <<>> /\ Head(stack'[s]) = stack'[s][1]
    <3> HIDE DEF c
    <3> QED BY <1>2, <2>2
  <2> QED BY <1>3, <2>1, <2>2, <2>3 DEF Waiting
<1> HIDE DEF p, m
<1>8. More(net, deferred, net', deferred, s, p)
  <2>1. Sends(Servers, net, net', s, p, m, Requests) /\ Sends(Servers, net, net', s, p, m, Responses)
    BY <1>2, <1>4, <1>6, SendCount
  <2> QED BY <1>4, <1>5, <1>6, <2>1, SentMore
<1>9. \A x, y \in Servers : RequestCount(net, deferred, x, y) = OneIf(Awaits(x, y))
  BY <1>1 DEF AsksOnce
<1>10. ASSUME NEW x \in Servers, NEW y \in Servers
       PROVE  RequestCount(net', deferred', x, y) = OneIf(Awaits(x, y)')
  <2>1. RequestCount(net', deferred', x, y) = RequestCount(net, deferred, x, y) + OneIf(x = s /\ y = p)
    BY <1>2, <1>8 DEF More
  <2>2. CASE x = s
    <3>1. Awaits(x, y)' <=> y = p
      BY <1>2, <1>7, <2>2 DEF Awaits, p
    <3>2. ~Awaits(x, y)
      BY <1>7, <2>2 DEF Awaits
    <3> QED BY <1>9, <2>1, <2>2, <3>1, <3>2 DEF OneIf
  <2>3. CASE x # s
    <3>1. Awaits(x, y)' <=> Awaits(x, y)
      BY <1>1, <2>3, AwaitsOf
    <3> QED BY <1>9, <2>1, <2>3, <3>1 DEF OneIf
  <2> QED BY <2>2, <2>3
<1> QED BY <1>10 DEF AskedOnce, AsksOnce

\* The response that ends the wait is the last of it.
LEMMA AnsweredAsks ==
  ASSUME ReadyInv, Types', AskedOnce, NEW s \in Servers, ServerStep(s),
         NEW r \in Servers, RecvResponse(s, r)
  PROVE  AskedOnce'
<1> DEFINE m == Head(net[r][s])
<1>1. Types /\ Connected /\ PastBarrier /\ Nested /\ InCalls /\ ~failed /\ AsksOnce(net, deferred)
  BY DEF ReadyInv, IInv, ServerStep, AskedOnce
<1>2. /\ Waiting(s) /\ net[r][s] # <<>> /\ m.type = "CONNECT_REMOTE_COMP_RES"
      /\ net' = [net EXCEPT ![r][s] = Tail(@)] /\ deferred' = deferred
      /\ AddSubset(s) /\ remote_server' = remote_server
  BY DEF RecvResponse, Received
<1>3. m \in Responses /\ m \notin Requests
  <2>1. m \in Messages
    BY <1>1, <1>2, ReceiveType
  <2> QED BY <1>1, <1>2, <2>1, KindsApart
<1>4. NetType(Servers, net) /\ Lines(Servers, deferred) /\ NetType(Servers, net')
  BY <1>1, ChannelsType, DeferredLines DEF Types
<1>5. ~Waiting(s)'
  <2>1. ~stack'[s][1].waits
    BY <1>1, <1>2, WaitingTop, ReturnsAwake
  <2>2. stack'[s] \in Seq(Calls)
    BY DEF Types
  <2>3. stack'[s] # <<>> => Head(stack'[s]) = stack'[s][1]
    BY <2>2
  <2> QED BY <2>1, <2>3 DEF Waiting
<1> HIDE DEF m
<1>6. More(net', deferred, net, deferred, s, r)
  <2>1. Receives(Servers, net, net', r, s, Requests) /\ Receives(Servers, net, net', r, s, Responses)
    BY <1>2, <1>4, ReceiveCount
  <2> QED BY <1>3, <1>4, <2>1, ReceivedMore DEF m
<1>7. \A x, y \in Servers : /\ RequestCount(net, deferred, x, y) = OneIf(Awaits(x, y))
                            /\ RequestCount(net', deferred, x, y) \in Nat
  BY <1>1, <1>4, AsksType DEF AsksOnce
<1>8. ASSUME NEW x \in Servers, NEW y \in Servers
      PROVE  RequestCount(net', deferred', x, y) = OneIf(Awaits(x, y)')
  <2>1. RequestCount(net, deferred, x, y) = RequestCount(net', deferred, x, y) + OneIf(x = s /\ y = r)
    BY <1>6 DEF More
  <2>2. CASE x = s
    <3>1. ~Awaits(x, y)'
      BY <1>5, <2>2 DEF Awaits
    <3>2. Awaits(x, y) => y = r
      <4>1. RequestCount(net, deferred, s, r) = RequestCount(net', deferred, s, r) + 1
        BY <1>6 DEF More, OneIf
      <4>2. Awaits(s, r)
        BY <1>7, <4>1 DEF OneIf
      <4> QED BY <2>2, <4>2 DEF Awaits
    <3>3. RequestCount(net', deferred, x, y) = 0
      BY <1>7, <2>1, <2>2, <3>2 DEF OneIf
    <3> QED BY <1>2, <3>1, <3>3 DEF OneIf
  <2>3. CASE x # s
    <3>1. Awaits(x, y)' <=> Awaits(x, y)
      BY <1>1, <2>3, AwaitsOf
    <3>2. RequestCount(net', deferred, x, y) = RequestCount(net, deferred, x, y)
      BY <1>7, <2>1, <2>3 DEF OneIf
    <3> QED BY <1>2, <1>7, <3>1, <3>2 DEF OneIf
  <2> QED BY <2>2, <2>3
<1> QED BY <1>8 DEF AskedOnce, AsksOnce

\* Putting a message aside moves it.
LEMMA AsideAsks ==
  ASSUME ReadyInv, AskedOnce, NEW s \in Servers, ServerStep(s), NEW r \in Servers, Reschedule(s, r)
  PROVE  AskedOnce'
<1> DEFINE m == Head(net[r][s])
           M == [net EXCEPT ![r][s] = Tail(@)]
           G == [deferred EXCEPT ![s] = Append(@, [msg |-> m, from |-> r])]
<1>1. Types /\ Nested /\ net[r][s] # <<>> /\ m \in Messages /\ ~(m \in Requests /\ m \in Responses)
  <2>1. Types /\ Nested /\ net[r][s] # <<>>
    BY DEF ReadyInv, IInv, Reschedule
  <2>2. m \in Messages
    BY <2>1, ReceiveType
  <2> QED BY <2>1, <2>2, KindsApart
<1>2. net' = M /\ deferred' = G /\ UNCHANGED <<stack, remote_server>>
  BY DEF Reschedule, Received
<1>3. NetType(Servers, net) /\ NetType(Servers, M) /\ Lines(Servers, deferred)
  BY <1>1, ChannelsType, DeferredLines, TakeType DEF Types
<1>4. Receives(Servers, net, M, r, s, Requests) /\ Receives(Servers, net, M, r, s, Responses)
  BY <1>1, <1>3, ReceiveCount
<1>5. \A x : /\ Appends(Servers, deferred, G, s, [msg |-> m, from |-> r], RequestsOf(x))
             /\ Appends(Servers, deferred, G, s, [msg |-> m, from |-> r], ResponsesOf(x))
  BY <1>3, AppendLine
<1> HIDE DEF M, G
<1>6. \A x, y \in Servers : RequestCount(M, G, x, y) = RequestCount(net, deferred, x, y)
  <2>1. CASE m \in Requests
    <3>1. More(M, deferred, net, deferred, r, s)
      BY <1>1, <1>3, <1>4, <2>1, ReceivedMore
    <3>2. More(M, deferred, M, G, r, s)
      BY <1>1, <1>3, <1>5, <2>1, AsideMore
    <3> QED BY <1>3, <3>1, <3>2, MoreOrLess
  <2>3. CASE m \in Responses
    <3>1. More(M, deferred, net, deferred, s, r)
      BY <1>1, <1>3, <1>4, <2>3, ReceivedMore
    <3>2. More(M, deferred, M, G, s, r)
      BY <1>1, <1>3, <1>5, <2>3, AsideMore
    <3> QED BY <1>3, <3>1, <3>2, MoreOrLess
  <2>2. CASE m \notin Requests /\ m \notin Responses
    <3>1. AsksSame(net, M, deferred)
      BY <1>1, <1>3, <1>4, <2>2, TakenOther
    <3>2. \A x, y \in Servers : RequestCount(M, G, x, y) = RequestCount(M, deferred, x, y)
      BY <1>1, <1>3, <1>5, <2>2, AsideMore
    <3> QED BY <3>1, <3>2 DEF AsksSame
  <2> QED BY <2>1, <2>2, <2>3
<1>7. \A y \in Servers : Awaits(s, y)' <=> Awaits(s, y)
  BY <1>2 DEF Awaits, Waiting
<1> QED BY <1>1, <1>2, <1>6, <1>7, AskedStays

\* server_t::process answers a request, and a message of another kind is
\* none of them.
LEMMA ProcessAsks ==
  ASSUME Types, NEW s \in Servers, NEW r \in Servers, NEW m \in Messages,
         NEW N, NetType(Servers, N), NEW F, Lines(Servers, F),
         ProcessMessage(s, r, m, N), ~failed'
  PROVE  \/ m \in Requests /\ m \notin Responses /\ More(N, F, net', F, r, s)
         \/ m \notin Requests /\ m \notin Responses /\ net' = N
<1>1. CASE m.type = "SERVER_READY"
  BY <1>1, KindsApart DEF ProcessMessage
<1>2. CASE m.type = "CONNECT_REMOTE_COMP_REQ"
  <2> DEFINE a == ConnectRemoteRes(id[s][m.name])
  <2>1. net' = [N EXCEPT ![s][r] = Append(@, a)] /\ ConnectRemote(s, m)
    BY <1>2 DEF ProcessMessage
  <2>2. a \in Responses /\ a \notin Requests
    <3>1. id[s][m.name] \in Nat
      BY <1>2, MessageFields DEF Types
    <3> QED BY <3>1, KindsApart
  <2>3. m \in Requests /\ m \notin Responses
    BY <1>2, KindsApart
  <2> HIDE DEF a
  <2>4. Sends(Servers, N, net', s, r, a, Requests) /\ Sends(Servers, N, net', s, r, a, Responses)
    BY <2>1, SendCount
  <2> QED BY <2>2, <2>3, <2>4, SentMore
<1>3. CASE m.type \notin {"SERVER_READY", "CONNECT_REMOTE_COMP_REQ"}
  BY <1>3 DEF ProcessMessage, Error
<1> QED BY <1>1, <1>2, <1>3

LEMMA ListeningAsks ==
  ASSUME ReadyInv, AskedOnce, NEW s \in Servers, ServerStep(s),
         Reprocess(s) \/ \E r \in Servers : Process(s, r)
  PROVE  AskedOnce'
<1>1. Types /\ Nested /\ UNCHANGED <<stack, remote_server>>
  BY DEF ReadyInv, IInv, Process, Reprocess
<1>2. \A y \in Servers : Awaits(s, y)' <=> Awaits(s, y)
  BY <1>1 DEF Awaits, Waiting
<1>3. NetType(Servers, net) /\ Lines(Servers, deferred)
  BY <1>1, ChannelsType, DeferredLines DEF Types
<1>4. CASE failed'
  BY <1>4 DEF AskedOnce
<1>5. ASSUME NEW r \in Servers, Process(s, r), ~failed'
      PROVE  \A x, y \in Servers : RequestCount(net', deferred', x, y) = RequestCount(net, deferred, x, y)
  <2> DEFINE m == Head(net[r][s])
             M == [net EXCEPT ![r][s] = Tail(@)]
  <2>1. net[r][s] # <<>> /\ deferred' = deferred /\ ProcessMessage(s, r, m, M)
    BY <1>5 DEF Process, Received
  <2>2. m \in Messages
    BY <1>1, <2>1, ReceiveType
  <2>3. NetType(Servers, M)
    BY <1>3, <2>1, TakeType
  <2>4. Receives(Servers, net, M, r, s, Requests) /\ Receives(Servers, net, M, r, s, Responses)
    BY <1>3, <2>1, ReceiveCount
  <2> HIDE DEF M
  <2>5. \/ m \in Requests /\ m \notin Responses /\ More(M, deferred, net', deferred, r, s)
        \/ m \notin Requests /\ m \notin Responses /\ net' = M
    BY <1>1, <1>3, <1>5, <2>1, <2>2, <2>3, ProcessAsks
  <2>6. CASE m \in Requests
    <3>1. More(M, deferred, net, deferred, r, s)
      BY <1>3, <2>3, <2>4, <2>5, <2>6, ReceivedMore
    <3> QED BY <1>3, <2>1, <2>3, <2>5, <2>6, <3>1, MoreOrLess
  <2>7. CASE m \notin Requests
    <3>1. AsksSame(net, M, deferred)
      BY <1>3, <2>3, <2>4, <2>5, <2>7, TakenOther
    <3> QED BY <2>1, <2>5, <2>7, <3>1 DEF AsksSame
  <2> QED BY <2>6, <2>7
<1>6. ASSUME Reprocess(s), ~failed'
      PROVE  \A x, y \in Servers : RequestCount(net', deferred', x, y) = RequestCount(net, deferred, x, y)
  <2> DEFINE m == Head(deferred[s]).msg
             r == Head(deferred[s]).from
             G == [deferred EXCEPT ![s] = Tail(@)]
  <2>1. deferred[s] # <<>> /\ deferred' = G /\ ProcessMessage(s, r, m, net)
    BY <1>6 DEF Reprocess
  <2>2. m \in Messages /\ r \in Servers /\ Head(deferred[s]) = [msg |-> m, from |-> r]
    <3>1. Head(deferred[s]) \in [msg : Messages, from : Servers]
      BY <1>1, <2>1, HeadTailProperties DEF Types
    <3> QED BY <3>1
  <2>3. Lines(Servers, G)
    <3> DEFINE E == [msg : Messages, from : Servers]
    <3>1. deferred \in [Servers -> Seq(E)]
      BY <1>1 DEF Types
    <3> HIDE DEF E
    <3>2. G \in [Servers -> Seq(E)]
      BY <2>1, <3>1
    <3> QED BY <3>2 DEF Lines
  <2>4. \A x : Takes(Servers, deferred, G, s, RequestsOf(x)) /\ Takes(Servers, deferred, G, s, ResponsesOf(x))
    BY <1>3, <2>1, TakeLine
  <2> HIDE DEF G, m, r
  <2>5. \/ m \in Requests /\ m \notin Responses /\ More(net, G, net', G, r, s)
        \/ m \notin Requests /\ m \notin Responses /\ net' = net
    BY <1>1, <1>3, <1>6, <2>1, <2>2, <2>3, ProcessAsks
  <2>6. CASE m \in Requests
    <3>1. More(net, G, net, deferred, r, s)
      BY <1>3, <2>2, <2>3, <2>4, <2>5, <2>6, ResumedMore
    <3> QED BY <1>3, <2>1, <2>3, <2>5, <2>6, <3>1, MoreOrLess
  <2>7. CASE m \notin Requests
    <3>1. \A x, y \in Servers : RequestCount(net, G, x, y) = RequestCount(net, deferred, x, y)
      BY <1>3, <2>2, <2>3, <2>4, <2>5, <2>7, ResumedMore
    <3> QED BY <2>1, <2>5, <2>7, <3>1
  <2> QED BY <2>6, <2>7
<1> QED BY <1>1, <1>2, <1>4, <1>5, <1>6, AskedStays

\* Whoever begins to listen sends nothing but SERVER_READY.
LEMMA ListenAsks ==
  ASSUME ReadyInv, AskedOnce, NEW s \in Servers, ServerStep(s), Listen(s)
  PROVE  AskedOnce'
<1>1. Types /\ Nested /\ ~failed /\ AsksOnce(net, deferred)
  BY DEF ReadyInv, IInv, ServerStep, AskedOnce
<1>2. /\ Running(s) /\ deferred' = deferred /\ remote_server' = remote_server
      /\ stack' = [stack EXCEPT ![s] = <<>>]
  BY DEF Listen, Continue
<1>3. ~Waiting(s) /\ ~Waiting(s)'
  <2>1. stack'[s] = <<>>
    BY <1>1, <1>2 DEF Types
  <2> QED BY <1>2, <2>1 DEF Waiting, Running
<1>4. \A y \in Servers : Awaits(s, y)' <=> Awaits(s, y)
  BY <1>3 DEF Awaits
<1>5. NetType(Servers, net) /\ Lines(Servers, deferred)
  BY <1>1, ChannelsType, DeferredLines DEF Types
<1>6. ASSUME NEW x \in Servers, NEW y \in Servers
      PROVE  net'[x][y] = IF x # s THEN net[x][y]
                          ELSE IF y = s THEN <<>> ELSE Append(net[x][y], ServerReady)
  BY <1>1 DEF Listen, Types, Channels
<1>7. ASSUME NEW x \in Servers, NEW y \in Servers, NEW T \in {Requests, Responses}, x # s \/ y # s
      PROVE  Count(net'[x][y], T) = Count(net[x][y], T)
  <2>1. CASE x # s
    BY <1>6, <2>1
  <2>2. CASE x = s /\ y # s
    <3>1. IsSeq(net[x][y])
      BY <1>5, ChannelSeq
    <3>2. Count(net[x][y], T) \in Nat
      BY <3>1, CountNat
    <3>3. ServerReady \notin T
      BY <1>1, <1>7, KindsApart
    <3>4. Count(Append(net[x][y], ServerReady), T) = Count(net[x][y], T) + OneIf(ServerReady \in T)
      BY <3>1, CountAppend
    <3>5. net'[x][y] = Append(net[x][y], ServerReady)
      BY <1>6, <2>2
    <3> QED BY <3>2, <3>3, <3>4, <3>5 DEF OneIf
  <2> QED BY <1>7, <2>1, <2>2
<1>8. \A x, y \in Servers : RequestCount(net', deferred', x, y) = RequestCount(net, deferred, x, y)
  <2> TAKE x, y \in Servers
  <2>1. CASE x # s \/ y # s
    BY <1>2, <1>7, <2>1 DEF RequestCount
  <2>2. CASE x = s /\ y = s
    <3>1. RequestCount(net, deferred, s, s) = 0
      BY <1>1, <1>3 DEF AsksOnce, Awaits, OneIf
    <3>2. /\ Count(net[s][s], Requests) \in Nat /\ Count(deferred[s], RequestsOf(s)) \in Nat
          /\ Count(net[s][s], Responses) \in Nat /\ Count(deferred[s], ResponsesOf(s)) \in Nat
      BY <1>5, AsksNat
    <3>3. /\ Count(net[s][s], Requests) = 0 /\ Count(net[s][s], Responses) = 0
      BY <3>1, <3>2 DEF RequestCount
    <3>4. net'[s][s] = <<>>
      BY <1>6
    <3>5. Count(<<>>, Requests) = 0 /\ Count(<<>>, Responses) = 0
      BY CountEmpty
    <3> QED BY <1>2, <2>2, <3>3, <3>4, <3>5 DEF RequestCount
  <2> QED BY <2>1, <2>2
<1> QED BY <1>1, <1>4, <1>8, AskedStays

\* AskedOnce is kept.
LEMMA AskedOnceStep ==
  ASSUME ReadyInv, AskedOnce, [Next]_vars
  PROVE  AskedOnce'
<1>1. CASE Next
  <2>1. PICK s \in Servers : ServerStep(s)
    BY <1>1 DEF Next
  <2>2. Types'
    BY <2>1, TypesStep DEF ReadyInv, IInv
  <2>3. CASE Configure(s) \/ Create(s) \/ NextSubset(s) \/ ReturnLocally(s)
    BY <2>1, <2>2, <2>3, CreatingAsks
  <2>4. CASE ConnectSend(s) \/ \E r \in Servers : ConnectRecv(s, r)
    BY <2>1, <2>4, ConnectingAsks
  <2>5. CASE ConnectRemoteComponent(s)
    BY <2>1, <2>2, <2>5, AskingAsks
  <2>6. ASSUME NEW r \in Servers, RecvResponse(s, r)
        PROVE  AskedOnce'
    BY <2>1, <2>2, <2>6, AnsweredAsks
  <2>7. ASSUME NEW r \in Servers, Reschedule(s, r)
        PROVE  AskedOnce'
    BY <2>1, <2>7, AsideAsks
  <2>8. CASE Reprocess(s) \/ \E r \in Servers : Process(s, r)
    BY <2>1, <2>8, ListeningAsks
  <2>9. CASE Listen(s)
    BY <2>1, <2>9, ListenAsks
  <2>10. CASE JobStep(s)
    BY <2>1, <2>10, JobAsks
  <2> QED BY <2>1, <2>3, <2>4, <2>5, <2>6, <2>7, <2>8, <2>9, <2>10 DEF ServerStep
<1>2. CASE UNCHANGED vars
  <2>1. UNCHANGED <<net, deferred, stack, remote_server, failed>>
    BY <1>2 DEF vars
  <2> QED BY <2>1 DEF AskedOnce, AsksOnce, Awaits, Waiting
<1> QED BY <1>1, <1>2

LEMMA AskedOnceInit ==
  ASSUME Init
  PROVE  AskedOnce
<1> SUFFICES ASSUME NEW s \in Servers, NEW r \in Servers
             PROVE  RequestCount(net, deferred, s, r) = OneIf(Awaits(s, r))
  BY DEF AskedOnce, AsksOnce
<1>1. /\ net[s][r] = <<>> /\ net[r][s] = <<>> /\ stack[s] = <<>>
      /\ deferred[r] = <<>> /\ deferred[s] = <<>>
  BY DEF Init
<1>2. /\ Count(<<>>, Requests) = 0 /\ Count(<<>>, Responses) = 0
      /\ Count(<<>>, RequestsOf(s)) = 0 /\ Count(<<>>, ResponsesOf(r)) = 0
  BY CountEmpty
<1>3. ~Awaits(s, r)
  BY <1>1 DEF Awaits, Waiting
<1> QED BY <1>1, <1>2, <1>3 DEF RequestCount, OneIf

\* Who waits has connected with all others, and what NoRequestLost counts are
\* the positions of its requests.
LEMMA AskedOnceLost ==
  ASSUME ReadyInv, AskedOnce
  PROVE  NoRequestLost
<1>1. Types /\ Connected /\ PastBarrier /\ Nested
  BY DEF ReadyInv, IInv
<1> SUFFICES ASSUME ~failed, NEW s \in Servers
             PROVE  LET peer == Head(remote_server[s]) IN
                    IF Len(remote_server[s]) < NumRanks - 1
                      THEN ~Waiting(s)
                      ELSE (IF Waiting(s) THEN 1 ELSE 0) =
                             NumberOf(net[s][peer], LAMBDA m : m.type = "CONNECT_REMOTE_COMP_REQ")
                           + NumberOf(deferred[peer], LAMBDA d : /\ d.from = s
                                                                 /\ d.msg.type = "CONNECT_REMOTE_COMP_REQ")
                           + NumberOf(net[peer][s], LAMBDA m : m.type = "CONNECT_REMOTE_COMP_RES")
                           + NumberOf(deferred[s], LAMBDA d : /\ d.from = peer
                                                              /\ d.msg.type = "CONNECT_REMOTE_COMP_RES")
  BY DEF NoRequestLost
<1> DEFINE peer == Head(remote_server[s])
<1>2. Len(remote_server[s]) \in Nat /\ remote_server[s] \in Seq(Servers)
  BY <1>1, LenProperties DEF Types
<1>3. Waiting(s) => Len(remote_server[s]) = NumRanks - 1
  <2> SUFFICES ASSUME Waiting(s)
               PROVE  Len(remote_server[s]) = NumRanks - 1
    OBVIOUS
  <2>1. stack[s] # <<>>
    BY DEF Waiting
  <2>2. round[s] = NumRanks
    BY <1>1, <2>1, Creating
  <2>3. NumRanks > s
    BY RanksAssumption DEF Servers
  <2> QED BY <1>1, <2>2, <2>3 DEF Connected
<1>4. CASE Len(remote_server[s]) < NumRanks - 1
  BY <1>2, <1>3, <1>4, RanksAssumption
<1>5. ASSUME ~(Len(remote_server[s]) < NumRanks - 1)
      PROVE  (IF Waiting(s) THEN 1 ELSE 0) =
               NumberOf(net[s][peer], LAMBDA m : m.type = "CONNECT_REMOTE_COMP_REQ")
             + NumberOf(deferred[peer], LAMBDA d : /\ d.from = s
                                                   /\ d.msg.type = "CONNECT_REMOTE_COMP_REQ")
             + NumberOf(net[peer][s], LAMBDA m : m.type = "CONNECT_REMOTE_COMP_RES")
             + NumberOf(deferred[s], LAMBDA d : /\ d.from = peer
                                                /\ d.msg.type = "CONNECT_REMOTE_COMP_RES")
  <2>1. peer \in Servers
    <3>1. Len(remote_server[s]) > 0
      BY <1>2, <1>5, RanksAssumption
    <3> QED BY <1>2, <3>1
  <2> HIDE DEF peer
  <2>2. RequestCount(net, deferred, s, peer) = OneIf(Waiting(s))
    <3>1. Awaits(s, peer) <=> Waiting(s)
      BY DEF Awaits, peer
    <3>2. RequestCount(net, deferred, s, peer) = OneIf(Awaits(s, peer))
      BY <2>1 DEF AskedOnce, AsksOnce
    <3> QED BY <3>1, <3>2 DEF OneIf
  <2>3. ASSUME NEW q \in Seq(Messages)
        PROVE  /\ {i \in DOMAIN q : q[i].type = "CONNECT_REMOTE_COMP_REQ"} = Positions(q, Requests)
               /\ {i \in DOMAIN q : q[i].type = "CONNECT_REMOTE_COMP_RES"} = Positions(q, Responses)
    BY DEF Positions, Requests, Responses
  <2>4. net[s][peer] \in Seq(Messages) /\ net[peer][s] \in Seq(Messages)
    BY <1>1, <2>1 DEF Types, Channels
  <2>5. ASSUME NEW r \in Servers, NEW x \in Servers
        PROVE  /\ {i \in DOMAIN deferred[r] : /\ deferred[r][i].from = x
                                              /\ deferred[r][i].msg.type = "CONNECT_REMOTE_COMP_REQ"}
                    = Positions(deferred[r], RequestsOf(x))
               /\ {i \in DOMAIN deferred[r] : /\ deferred[r][i].from = x
                                              /\ deferred[r][i].msg.type = "CONNECT_REMOTE_COMP_RES"}
                    = Positions(deferred[r], ResponsesOf(x))
    <3>1. /\ DOMAIN deferred[r] = 1 .. Len(deferred[r])
          /\ \A i \in 1 .. Len(deferred[r]) : deferred[r][i] \in [msg : Messages, from : Servers]
      BY <1>1, LenProperties, ElementOfSeq DEF Types
    <3>2. ASSUME NEW d \in [msg : Messages, from : Servers]
          PROVE  /\ d.from = x /\ d.msg.type = "CONNECT_REMOTE_COMP_REQ" <=> d \in RequestsOf(x)
                 /\ d.from = x /\ d.msg.type = "CONNECT_REMOTE_COMP_RES" <=> d \in ResponsesOf(x)
      <4>1. d = [msg |-> d.msg, from |-> d.from] /\ d.msg \in Messages
        OBVIOUS
      <4>2. /\ d \in RequestsOf(x) <=> d.from = x /\ d.msg \in Requests
            /\ d \in ResponsesOf(x) <=> d.from = x /\ d.msg \in Responses
        BY <4>1, AsideKind
      <4> QED BY <4>1, <4>2 DEF Requests, Responses
    <3> QED BY <3>1, <3>2 DEF Positions
  <2> QED BY <2>1, <2>2, <2>3, <2>4, <2>5 DEF NumberOf, RequestCount, Count, OneIf
<1> QED BY <1>4, <1>5

\* A process that waits in connect_remote_component has one request under way,
\* put aside or answered, and one that does not wait has none, whatever the
\* others do and put aside meanwhile.
THEOREM RequestsKept == Spec => []NoRequestLost
<1>1. Init => ReadyInv /\ AskedOnce
  BY ReadyInvInit, AskedOnceInit
<1>2. (ReadyInv /\ AskedOnce) /\ [Next]_vars => (ReadyInv /\ AskedOnce)'
  BY ReadyInvStep, AskedOnceStep
<1>3. ReadyInv /\ AskedOnce => NoRequestLost
  BY AskedOnceLost
<1> QED BY <1>1, <1>2, <1>3, PTL DEF Spec

-----------------------------------------------------------------------------
\* The walk of create_pseudo_component over the tree of a configuration

\* What the call f is done with: the subsets before its child-th
Passed(d, s, f) ==
    {d.subset[s][f.comp][j] : j \in {k \in DOMAIN d.subset[s][f.comp] : k < f.child}}

\* Of the calls q each is for the child-th subset of its caller, ...
Path(d, s, q) ==
    \A i \in 1 .. Len(q) - 1 :
        /\ q[i + 1].child \in DOMAIN d.subset[s][q[i + 1].comp]
        /\ q[i].comp = d.subset[s][q[i + 1].comp][q[i + 1].child]

\* ... no two for one component, ...
Apart(q) == \A i, j \in 1 .. Len(q) : q[i].comp = q[j].comp => i = j

\* ... and all have finished just the subsets they passed,
Behind(d, s, q, D) == \A i \in 1 .. Len(q) : Below(d, s, q[i].comp) \cap D = Passed(d, s, q[i])

\* if D are the components that process s has finished: with a component all
\* that are below it, ...
Closed(d, s, D) == \A n \in D : Below(d, s, n) \subseteq D

\* ... and none before the one above it was called.
Entered(d, s, q, D) ==
    \A c \in Names : \A n \in Below(d, s, c) : n \in D =>
        c \in D \/ \E i \in 1 .. Len(q) : q[i].comp = c

\* The calls q of process s are where a walk is that has finished D.
Walk(d, s, q, D) ==
    Path(d, s, q) /\ Apart(q) /\ Behind(d, s, q, D) /\ Closed(d, s, D) /\ Entered(d, s, q, D)

\* The outermost call is for the top
Rooted(q) == \A i \in 1 .. Len(q) : q[i].comp = Top <=> i = Len(q)

\* A component lists other components, each once.
LEMMA SubsetLists ==
  ASSUME NEW d \in Deployments, NEW s \in Servers, NEW n \in Names \cup {Top}
  PROVE  /\ d.subset[s][n] \in Seq(Names)
         /\ DOMAIN d.subset[s][n] = 1 .. Len(d.subset[s][n]) /\ Len(d.subset[s][n]) \in Nat
         /\ Below(d, s, n) \subseteq Names
         /\ \A i, j \in DOMAIN d.subset[s][n] : d.subset[s][n][i] = d.subset[s][n][j] => i = j
<1>1. d.subset[s][n] \in Seq(Names)
  BY DeploymentsAssumption
<1>2. DOMAIN d.subset[s][n] = 1 .. Len(d.subset[s][n]) /\ Len(d.subset[s][n]) \in Nat
  BY <1>1, LenProperties
<1>3. \A i \in DOMAIN d.subset[s][n] : d.subset[s][n][i] \in Names
  BY <1>1, <1>2, ElementOfSeq
<1>4. \A i, j \in DOMAIN d.subset[s][n] : d.subset[s][n][i] = d.subset[s][n][j] => i = j
  BY TreesAssumption DEF IsInjective
<1> QED BY <1>1, <1>2, <1>3, <1>4 DEF Below

\* A component is below one other only.
LEMMA OneParent ==
  ASSUME NEW d \in Deployments, NEW s \in Servers, NEW p \in Names \cup {Top},
         NEW q \in Names \cup {Top}, NEW n, n \in Below(d, s, p), n \in Below(d, s, q)
  PROVE  p = q
<1>1. n \in Names
  BY SubsetLists
<1> QED BY <1>1, DeploymentsAssumption

\* A call that has just begun has passed nothing, ...
LEMMA PassedNone ==
  ASSUME NEW d \in Deployments, NEW s \in Servers, NEW f \in Calls, f.child \in {0, 1}
  PROVE  Passed(d, s, f) = {}
<1>1. f.comp \in Names \cup {Top} /\ f.child \in Nat
  BY DEF Calls
<1>2. DOMAIN d.subset[s][f.comp] = 1 .. Len(d.subset[s][f.comp]) /\ Len(d.subset[s][f.comp]) \in Nat
  BY <1>1, SubsetLists
<1>3. {k \in DOMAIN d.subset[s][f.comp] : k < f.child} = {}
  BY <1>2
<1> QED BY <1>3 DEF Passed

\* ... one that returns has passed everything, ...
LEMMA PassedAll ==
  ASSUME NEW d \in Deployments, NEW s \in Servers, NEW f \in Calls,
         f.child > Len(d.subset[s][f.comp])
  PROVE  Passed(d, s, f) = Below(d, s, f.comp)
<1>1. f.comp \in Names \cup {Top} /\ f.child \in Nat
  BY DEF Calls
<1>2. DOMAIN d.subset[s][f.comp] = 1 .. Len(d.subset[s][f.comp]) /\ Len(d.subset[s][f.comp]) \in Nat
  BY <1>1, SubsetLists
<1>3. {k \in DOMAIN d.subset[s][f.comp] : k < f.child} = DOMAIN d.subset[s][f.comp]
  BY <1>1, <1>2
<1> QED BY <1>3 DEF Passed, Below

\* ... and one that goes on one more, which it had not passed.
LEMMA PassedNext ==
  ASSUME NEW d \in Deployments, NEW s \in Servers, NEW f \in Calls,
         f.child \in DOMAIN d.subset[s][f.comp], NEW n, n = d.subset[s][f.comp][f.child]
  PROVE  /\ n \notin Passed(d, s, f)
         /\ n \in Below(d, s, f.comp)
         /\ \A g \in Calls : g.comp = f.comp /\ g.child = f.child + 1 =>
              Passed(d, s, g) = Passed(d, s, f) \cup {n}
<1> DEFINE q == d.subset[s][f.comp]
<1>1. f.comp \in Names \cup {Top} /\ f.child \in Nat
  BY DEF Calls
<1>2. DOMAIN q = 1 .. Len(q) /\ Len(q) \in Nat /\ \A i, j \in DOMAIN q : q[i] = q[j] => i = j
  BY <1>1, SubsetLists
<1>4. n \in Below(d, s, f.comp)
  BY DEF Below
<1>5. n \notin Passed(d, s, f)
  <2>1. \A j \in DOMAIN q : j < f.child => q[j] # n
    BY <1>1, <1>2
  <2> QED BY <2>1 DEF Passed
<1>6. ASSUME NEW g \in Calls, g.comp = f.comp, g.child = f.child + 1
      PROVE  Passed(d, s, g) = Passed(d, s, f) \cup {n}
  <2>1. Passed(d, s, g) = {q[j] : j \in {k \in DOMAIN q : k < f.child + 1}}
    BY <1>6 DEF Passed
  <2>2. \A k \in DOMAIN q : k < f.child + 1 <=> k < f.child \/ k = f.child
    BY <1>1, <1>2
  <2>3. Passed(d, s, f) = {q[j] : j \in {k \in DOMAIN q : k < f.child}}
    BY DEF Passed
  <2>4. n = q[f.child] /\ f.child \in DOMAIN q
    OBVIOUS
  <2> HIDE DEF q
  <2> QED BY <2>1, <2>2, <2>3, <2>4
<1> QED BY <1>4, <1>5, <1>6

\* What a call has passed depends on its component and its place.
LEMMA PassedSame ==
  ASSUME NEW d, NEW s, NEW f, NEW g, g.comp = f.comp, g.child = f.child
  PROVE  Passed(d, s, g) = Passed(d, s, f)
BY DEF Passed

\* The component of the innermost call is not finished.
LEMMA NotFinished ==
  ASSUME NEW d \in Deployments, NEW s \in Servers, NEW q \in Seq(Calls), Len(q) > 1,
         NEW D, Walk(d, s, q, D)
  PROVE  q[1].comp \notin D /\ q[1].comp \in Below(d, s, q[2].comp) /\ q[2].comp \in Names \cup {Top}
<1>1. q[1] \in Calls /\ q[2] \in Calls /\ Len(q) \in Nat
  BY ElementOfSeq, LenProperties
<1>2. /\ q[2].child \in DOMAIN d.subset[s][q[2].comp]
      /\ q[1].comp = d.subset[s][q[2].comp][q[2].child]
  <2>1. 1 \in 1 .. Len(q) - 1 /\ 1 + 1 = 2
    BY <1>1
  <2> QED BY <2>1 DEF Walk, Path
<1>3. q[1].comp \notin Passed(d, s, q[2]) /\ q[1].comp \in Below(d, s, q[2].comp)
  BY <1>1, <1>2, PassedNext
<1>4. Below(d, s, q[2].comp) \cap D = Passed(d, s, q[2])
  <2>1. 2 \in 1 .. Len(q)
    BY <1>1
  <2> QED BY <2>1 DEF Walk, Behind
<1> QED BY <1>1, <1>3, <1>4 DEF Calls

\* A walk is kept when the innermost call goes on at its place, ...
LEMMA WalkGoesOn ==
  ASSUME NEW d \in Deployments, NEW s \in Servers, NEW q \in Seq(Calls), NEW r \in Seq(Calls),
         NEW D, Walk(d, s, q, D),
         Len(r) = Len(q), Len(q) > 0, r[1].comp = q[1].comp, Passed(d, s, r[1]) = Passed(d, s, q[1]),
         \A i \in 2 .. Len(q) : r[i] = q[i]
  PROVE  Walk(d, s, r, D)
<1>1. Len(q) \in Nat
  BY LenProperties
<1>2. \A i \in 1 .. Len(q) : r[i].comp = q[i].comp /\ Passed(d, s, r[i]) = Passed(d, s, q[i])
  <2>1. \A i \in 1 .. Len(q) : i = 1 \/ i \in 2 .. Len(q)
    BY <1>1
  <2> QED BY <2>1
<1>3. Path(d, s, r)
  <2> SUFFICES ASSUME NEW i \in 1 .. Len(q) - 1
               PROVE  /\ r[i + 1].child \in DOMAIN d.subset[s][r[i + 1].comp]
                      /\ r[i].comp = d.subset[s][r[i + 1].comp][r[i + 1].child]
    BY DEF Path
  <2>1. i + 1 \in 2 .. Len(q) /\ i \in 1 .. Len(q)
    BY <1>1
  <2> QED BY <1>2, <2>1 DEF Walk, Path
<1>4. Apart(r)
  BY <1>2 DEF Walk, Apart
<1>5. Behind(d, s, r, D)
  BY <1>2 DEF Walk, Behind
<1>6. Entered(d, s, r, D)
  BY <1>2 DEF Walk, Entered
<1> QED BY <1>3, <1>4, <1>5, <1>6 DEF Walk

LEMMA PlusMinusOne == \A l \in Nat : (l + 1) - 1 = l
OBVIOUS

\* ... when it calls itself for its next subset, ...
LEMMA WalkCalls ==
  ASSUME NEW d \in Deployments, NEW s \in Servers, NEW q \in Seq(Calls), NEW r \in Seq(Calls),
         NEW D, Walk(d, s, q, D), Rooted(q), Len(q) > 0,
         q[1].child \in DOMAIN d.subset[s][q[1].comp],
         Len(r) = Len(q) + 1, r[1] = Call(d.subset[s][q[1].comp][q[1].child]),
         \A i \in 2 .. Len(q) + 1 : r[i] = q[i - 1]
  PROVE  Walk(d, s, r, D)
<1> DEFINE n == d.subset[s][q[1].comp][q[1].child]
<1>1. Len(q) \in Nat /\ \A i \in 1 .. Len(q) : q[i].comp \in Names \cup {Top}
  <2>1. Len(q) \in Nat /\ \A i \in 1 .. Len(q) : q[i] \in Calls
    BY LenProperties, ElementOfSeq
  <2> QED BY <2>1 DEF Calls
<1>2. q[1] \in Calls
  BY ElementOfSeq, <1>1
<1>3. n \notin Passed(d, s, q[1]) /\ n \in Below(d, s, q[1].comp)
  BY <1>2, PassedNext
<1>4. r[1].comp = n /\ r[1].child = 0 /\ r[1] \in Calls
  <2>1. r[1] \in Calls
    BY <1>1, ElementOfSeq
  <2> QED BY <2>1 DEF Call
<1> HIDE DEF n
<1>5. Below(d, s, q[1].comp) \cap D = Passed(d, s, q[1])
  BY <1>1 DEF Walk, Behind
<1>6. n \notin D
  BY <1>3, <1>5
<1>7. n \in Names
  BY <1>1, <1>3, SubsetLists
<1>8. ASSUME NEW i \in 1 .. Len(q)
      PROVE  q[i].comp # n
  <2> SUFFICES ASSUME q[i].comp = n
               PROVE  FALSE
    OBVIOUS
  <2>1. i # Len(q)
    BY <1>7, NamesAssumption DEF Rooted
  <2>2. i \in 1 .. Len(q) - 1 /\ i + 1 \in 1 .. Len(q) /\ i + 1 # 1
    <3>1. \A l \in Nat : \A k \in 1 .. l : k # l =>
            k \in 1 .. l - 1 /\ k + 1 \in 1 .. l /\ k + 1 # 1
      OBVIOUS
    <3>2. Len(q) \in Nat
      BY <1>1
    <3> QED BY <2>1, <3>1, <3>2, Zenon
  <2>3. n \in Below(d, s, q[i + 1].comp)
    BY <2>2 DEF Walk, Path, Below
  <2>4. q[i + 1].comp = q[1].comp
    BY <1>1, <1>3, <2>2, <2>3, OneParent
  <2> QED BY <1>1, <2>2, <2>4 DEF Walk, Apart
<1>9. \A i \in 1 .. Len(r) : i = 1 \/ (i \in 2 .. Len(q) + 1 /\ i - 1 \in 1 .. Len(q) /\ r[i] = q[i - 1])
  BY <1>1
<1>10. Path(d, s, r)
  <2> SUFFICES ASSUME NEW i \in 1 .. Len(q)
               PROVE  /\ r[i + 1].child \in DOMAIN d.subset[s][r[i + 1].comp]
                      /\ r[i].comp = d.subset[s][r[i + 1].comp][r[i + 1].child]
    <3>2. Len(r) - 1 = Len(q)
      BY <1>1, PlusMinusOne
    <3> QED BY <3>2, Zenon DEF Path
  <2>1. r[i + 1] = q[i]
    BY <1>1
  <2>2. CASE i = 1
    BY <1>4, <2>1, <2>2 DEF n
  <2>3. CASE i # 1
    <3>1. i - 1 \in 1 .. Len(q) - 1 /\ i - 1 + 1 = i /\ r[i] = q[i - 1]
      BY <1>1, <2>3
    <3> QED BY <2>1, <3>1 DEF Walk, Path
  <2> QED BY <2>2, <2>3
<1>11. Apart(r)
  <2> SUFFICES ASSUME NEW i \in 1 .. Len(r), NEW j \in 1 .. Len(r), r[i].comp = r[j].comp
               PROVE  i = j
    BY DEF Apart
  <2>1. CASE i = 1 \/ j = 1
    BY <1>4, <1>8, <1>9, <2>1
  <2>2. CASE i # 1 /\ j # 1
    <3>0. /\ i - 1 \in 1 .. Len(q) /\ r[i] = q[i - 1]
          /\ j - 1 \in 1 .. Len(q) /\ r[j] = q[j - 1]
      BY <1>9, <2>2
    <3>1. i - 1 = j - 1
      BY <3>0 DEF Walk, Apart
    <3>2. i \in Nat /\ j \in Nat
      BY <1>1
    <3> QED BY <3>1, <3>2
  <2> QED BY <2>1, <2>2
<1>12. Behind(d, s, r, D)
  <2>1. Below(d, s, n) \cap D = {}
    <3> SUFFICES ASSUME NEW m \in Below(d, s, n), m \in D
                 PROVE  FALSE
      OBVIOUS
    <3>1. n \in D \/ \E i \in 1 .. Len(q) : q[i].comp = n
      BY <1>7 DEF Walk, Entered
    <3> QED BY <1>6, <1>8, <3>1
  <2>2. Passed(d, s, r[1]) = {}
    BY <1>4, PassedNone
  <2> QED BY <1>4, <1>9, <2>1, <2>2 DEF Walk, Behind
<1>13. Entered(d, s, r, D)
  <2>1. \A i \in 1 .. Len(q) : i + 1 \in 1 .. Len(r) /\ r[i + 1] = q[i]
    <3>1. \A l \in Nat : \A i \in 1 .. l :
            i + 1 \in 1 .. l + 1 /\ i + 1 \in 2 .. l + 1 /\ i + 1 - 1 = i
      OBVIOUS
    <3>2. Len(q) \in Nat
      BY <1>1
    <3>3. ASSUME NEW i \in 1 .. Len(q)
          PROVE  i + 1 \in 1 .. Len(r) /\ r[i + 1] = q[i]
      <4>1. i + 1 \in 1 .. Len(q) + 1 /\ i + 1 \in 2 .. Len(q) + 1 /\ i + 1 - 1 = i
        BY <3>1, <3>2, Zenon
      <4>2. r[i + 1] = q[i + 1 - 1]
        BY <4>1
      <4> QED BY <4>1, <4>2
    <3> QED BY <3>3, Zenon
  <2> QED BY <2>1 DEF Walk, Entered
<1> QED BY <1>10, <1>11, <1>12, <1>13 DEF Walk

\* ... when it returns and its component is finished, ...
LEMMA WalkReturns ==
  ASSUME NEW d \in Deployments, NEW s \in Servers, NEW q \in Seq(Calls), NEW r \in Seq(Calls),
         NEW D, Walk(d, s, q, D), Len(q) > 1,
         q[1].child > Len(d.subset[s][q[1].comp]),
         Len(r) = Len(q) - 1, r[1].comp = q[2].comp, r[1].child = q[2].child + 1,
         \A i \in 2 .. Len(q) - 1 : r[i] = q[i + 1]
  PROVE  Walk(d, s, r, D \cup {q[1].comp})
<1> DEFINE n == q[1].comp
           E == D \cup {n}
<1>1. Len(q) \in Nat /\ \A i \in 1 .. Len(q) : q[i] \in Calls /\ q[i].comp \in Names \cup {Top}
  <2>1. Len(q) \in Nat /\ \A i \in 1 .. Len(q) : q[i] \in Calls
    BY LenProperties, ElementOfSeq
  <2> QED BY <2>1 DEF Calls
<1>2. 1 \in 1 .. Len(q) /\ 2 \in 1 .. Len(q) /\ q[1] \in Calls /\ q[2] \in Calls
  BY <1>1
<1>3. /\ q[2].child \in DOMAIN d.subset[s][q[2].comp]
      /\ n = d.subset[s][q[2].comp][q[2].child]
  <2>1. 1 \in 1 .. Len(q) - 1 /\ 1 + 1 = 2
    BY <1>1
  <2> QED BY <2>1 DEF Walk, Path
<1>4. r[1].comp = q[2].comp /\ r[1].child = q[2].child + 1 /\ r[1] \in Calls
  <2>1. 1 \in 1 .. Len(r)
    BY <1>1
  <2> QED BY <2>1, ElementOfSeq
<1>5. n \notin Passed(d, s, q[2]) /\ n \in Below(d, s, q[2].comp)
      /\ Passed(d, s, r[1]) = Passed(d, s, q[2]) \cup {n}
  <2>1. n \notin Passed(d, s, q[2]) /\ n \in Below(d, s, q[2].comp)
    <3> HIDE DEF n
    <3> QED BY <1>2, <1>3, PassedNext
  <2>2. \A g \in Calls : g.comp = q[2].comp /\ g.child = q[2].child + 1 =>
          Passed(d, s, g) = Passed(d, s, q[2]) \cup {n}
    <3> HIDE DEF n
    <3> QED BY <1>2, <1>3, PassedNext
  <2> QED BY <1>4, <2>1, <2>2, Zenon
<1>6. Passed(d, s, q[1]) = Below(d, s, n)
  BY <1>2, PassedAll
<1>7. Below(d, s, n) \subseteq D
  BY <1>2, <1>6 DEF Walk, Behind
<1> HIDE DEF n
<1>8. ASSUME NEW i \in 1 .. Len(q) - 1
      PROVE  /\ i + 1 \in 2 .. Len(q) /\ r[i].comp = q[i + 1].comp
             /\ i # 1 => r[i] = q[i + 1]
  <2>1. \A l \in Nat : \A k \in 1 .. l - 1 : (k = 1 \/ k \in 2 .. l - 1) /\ k + 1 \in 2 .. l
    OBVIOUS
  <2>2. (i = 1 \/ i \in 2 .. Len(q) - 1) /\ i + 1 \in 2 .. Len(q)
    <3>1. Len(q) \in Nat
      BY <1>1
    <3> QED BY <2>1, <3>1, Zenon
  <2>3. CASE i = 1
    <3>1. 1 + 1 = 2
      OBVIOUS
    <3> QED BY <1>4, <2>2, <2>3, <3>1
  <2>4. CASE i # 1
    BY <2>2, <2>4, Zenon
  <2> QED BY <2>3, <2>4
<1>9. Path(d, s, r)
  <2> SUFFICES ASSUME NEW i \in 1 .. Len(q) - 1 - 1
               PROVE  /\ r[i + 1].child \in DOMAIN d.subset[s][r[i + 1].comp]
                      /\ r[i].comp = d.subset[s][r[i + 1].comp][r[i + 1].child]
    BY DEF Path
  <2>1. i \in 1 .. Len(q) - 1 /\ i + 1 \in 1 .. Len(q) - 1 /\ i + 1 # 1 /\ i + 1 + 1 \in 1 .. Len(q)
    BY <1>1
  <2>2. r[i + 1] = q[i + 1 + 1] /\ r[i].comp = q[i + 1].comp
    BY <1>8, <2>1
  <2> QED BY <2>1, <2>2 DEF Walk, Path
<1>10. Apart(r)
  <2> SUFFICES ASSUME NEW i \in 1 .. Len(q) - 1, NEW j \in 1 .. Len(q) - 1, r[i].comp = r[j].comp
               PROVE  i = j
    BY DEF Apart
  <2>1. i + 1 = j + 1
    <3>1. q[i + 1].comp = q[j + 1].comp /\ i + 1 \in 1 .. Len(q) /\ j + 1 \in 1 .. Len(q)
      BY <1>1, <1>8
    <3> QED BY <3>1 DEF Walk, Apart
  <2> QED BY <1>1, <2>1
<1>11. Behind(d, s, r, E)
  <2> SUFFICES ASSUME NEW i \in 1 .. Len(q) - 1
               PROVE  Below(d, s, r[i].comp) \cap E = Passed(d, s, r[i])
    BY DEF Behind
  <2>1. i + 1 \in 1 .. Len(q)
    BY <1>1
  <2>2. Below(d, s, q[i + 1].comp) \cap D = Passed(d, s, q[i + 1])
    BY <2>1 DEF Walk, Behind
  <2>3. CASE i = 1
    <3>1. Below(d, s, q[2].comp) \cap D = Passed(d, s, q[2])
      BY <2>2, <2>3
    <3>2. Below(d, s, q[2].comp) \cap E = Passed(d, s, q[2]) \cup {n}
      BY <1>5, <3>1
    <3>3. Below(d, s, r[1].comp) \cap E = Passed(d, s, r[1])
      <4> HIDE DEF E
      <4> QED BY <1>5, <1>4, <3>2
    <3> QED BY <2>3, <3>3
  <2>4. CASE i # 1
    <3>1. n \notin Below(d, s, q[i + 1].comp)
      <4> SUFFICES ASSUME n \in Below(d, s, q[i + 1].comp)
                   PROVE  FALSE
        OBVIOUS
      <4>1. q[i + 1].comp = q[2].comp
        BY <1>1, <1>2, <1>5, <2>1, OneParent
      <4>2. i + 1 = 2
        BY <1>2, <2>1, <4>1 DEF Walk, Apart
      <4> QED BY <1>1, <2>4, <4>2
    <3> QED BY <1>8, <2>2, <2>4, <3>1
  <2> QED BY <2>3, <2>4
<1>12. Closed(d, s, E)
  BY <1>7 DEF Walk, Closed
<1>13. Entered(d, s, r, E)
  <2> SUFFICES ASSUME NEW c \in Names, NEW m \in Below(d, s, c), m \in E
               PROVE  c \in E \/ \E i \in 1 .. Len(r) : r[i].comp = c
    BY DEF Entered
  <2>1. CASE m = n
    <3>1. c = q[2].comp
      BY <1>1, <1>2, <1>5, <2>1, OneParent
    <3>2. 1 \in 1 .. Len(r)
      BY <1>1
    <3> QED BY <1>4, <3>1, <3>2
  <2>2. CASE m \in D
    <3>1. CASE c \in D
      BY <3>1
    <3>2. ASSUME NEW i \in 1 .. Len(q), q[i].comp = c
          PROVE  c \in E \/ \E j \in 1 .. Len(r) : r[j].comp = c
      <4>1. CASE i = 1
        BY <3>2, <4>1 DEF n
      <4>2. CASE i # 1
        <5>1. i - 1 \in 1 .. Len(q) - 1 /\ i - 1 + 1 = i
          BY <1>1, <4>2
        <5>2. r[i - 1].comp = q[i].comp
          BY <1>8, <5>1
        <5> QED BY <3>2, <5>1, <5>2
      <4> QED BY <4>1, <4>2
    <3> QED BY <2>2, <3>1, <3>2 DEF Walk, Entered
  <2> QED BY <2>1, <2>2
<1> QED BY <1>9, <1>10, <1>11, <1>12, <1>13 DEF Walk, n

\* ... and it ends when the call for the top does.
LEMMA WalkEnds ==
  ASSUME NEW d \in Deployments, NEW s \in Servers, NEW q \in Seq(Calls), Len(q) = 1,
         NEW D, Walk(d, s, q, D), q[1].comp = Top, q[1].child > Len(d.subset[s][Top])
  PROVE  Walk(d, s, <<>>, D) /\ Below(d, s, Top) \subseteq D
<1>1. q[1] \in Calls
  <2>1. 1 \in 1 .. Len(q)
    OBVIOUS
  <2> QED BY <2>1, ElementOfSeq
<1>2. Passed(d, s, q[1]) = Below(d, s, Top)
  BY <1>1, PassedAll
<1>3. Below(d, s, Top) \subseteq D
  BY <1>2 DEF Walk, Behind
<1>4. Len(<<>>) = 0 /\ \A i \in 1 .. 0 : FALSE
  OBVIOUS
<1>5. \A i \in 1 .. 0 - 1 : FALSE
  OBVIOUS
<1>6. Entered(d, s, <<>>, D)
  <2>1. \A i \in 1 .. Len(q) : q[i].comp \notin Names
    BY NamesAssumption
  <2> QED BY <2>1 DEF Walk, Entered
<1>7. Path(d, s, <<>>) /\ Apart(<<>>) /\ Behind(d, s, <<>>, D)
  BY <1>4, <1>5 DEF Path, Apart, Behind
<1> QED BY <1>3, <1>6, <1>7 DEF Walk

\* A walk begins with the call for the top.
LEMMA WalkBegins ==
  ASSUME NEW d \in Deployments, NEW s \in Servers, NEW f \in Calls, f.child = 1, NEW r, r = <<f>>
  PROVE  Walk(d, s, r, {})
<1>1. Len(r) = 1 /\ r[1] = f /\ \A i \in 1 .. 1 : i = 1
  OBVIOUS
<1>2. Passed(d, s, f) = {}
  BY PassedNone
<1>3. \A i \in 1 .. 1 - 1 : FALSE
  OBVIOUS
<1> QED BY <1>1, <1>2, <1>3 DEF Walk, Path, Apart, Behind, Closed, Entered

\* Without calls nothing is finished.
LEMMA WalkNone ==
  ASSUME NEW d, NEW s
  PROVE  Walk(d, s, <<>>, {})
<1>1. Len(<<>>) = 0 /\ (\A i \in 1 .. 0 : FALSE) /\ \A i \in 1 .. 0 - 1 : FALSE
  OBVIOUS
<1> QED BY <1>1 DEF Walk, Path, Apart, Behind, Closed, Entered

-----------------------------------------------------------------------------
\* Where a process is in its tree

\* A call for n has created it
Begun(q, n) == \E i \in 1 .. Len(q) : q[i].comp = n /\ q[i].child # 0

\* The components of process s that have an ID
CreatedNames(s) == {n \in Names : IsLocal(s, n) /\ id[s][n] # Invalid}

\* They are those that are finished or have begun; get_new_comp_id has counted
\* no others.
NumbersAt(s, D) ==
    /\ \A n \in D : IsLocal(s, n) => id[s][n] # Invalid
    /\ \A n \in CreatedNames(s) : n \in D \/ Begun(stack[s], n)
    /\ failed \/ \A n \in Names : IsLocal(s, n) /\ Begun(stack[s], n) => id[s][n] # Invalid
    /\ failed \/ component_count[s] <= Cardinality(CreatedNames(s))

\* The finished ones know the component above them.
LinkedAt(s, D) ==
    \A c \in Names : \A n \in Below(deployment, s, c) : n \in D <=> superset[s][n] # NoComp

\* D are the components that process s has finished
Placed(s, D) ==
    /\ Walk(deployment, s, stack[s], D)
    /\ LinkedAt(s, D)
    /\ phase[s] = "connect" => D = {}
    /\ phase[s] = "listen" => Below(deployment, s, Top) \subseteq D
    /\ NumbersAt(s, D)

\* Every process is somewhere in the walk over its configuration.
PlacedAt(s) == \E D \in SUBSET Names : Placed(s, D)

\* From the calls q to the calls r the components N were finished, others neither
\* begun nor finished
Finishes(q, r, N) ==
    \A n \in Names : /\ Begun(r, n) => Begun(q, n)
                     /\ Begun(q, n) => n \in N \/ Begun(r, n)
                     /\ n \in N => Begun(q, n)

\* Numbering is kept by finishing components that have begun.
LEMMA NumbersFinish ==
  ASSUME Types, ~failed, NEW s \in Servers, NEW D \in SUBSET Names, NEW N \in SUBSET Names,
         NumbersAt(s, D), Finishes(stack[s], stack'[s], N),
         deployment' = deployment, component_count' = component_count,
         \A n \in Names : IsLocal(s, n) => id'[s][n] = id[s][n]
  PROVE  NumbersAt(s, D \cup N)'
<1>1. \A n : IsLocal(s, n)' <=> IsLocal(s, n)
  BY DEF IsLocal, IsRemote, Listed
<1>2. CreatedNames(s)' = CreatedNames(s)
  BY <1>1 DEF CreatedNames
<1>3. \A n \in D \cup N : IsLocal(s, n) => id'[s][n] # Invalid
  BY DEF NumbersAt, Finishes
<1>4. \A n \in CreatedNames(s) : n \in D \cup N \/ Begun(stack'[s], n)
  BY DEF NumbersAt, Finishes, CreatedNames
<1>5. \A n \in Names : IsLocal(s, n) /\ Begun(stack'[s], n) => id'[s][n] # Invalid
  BY DEF NumbersAt, Finishes
<1>6. component_count'[s] <= Cardinality(CreatedNames(s))
  BY DEF NumbersAt
<1> QED BY <1>1, <1>2, <1>3, <1>4, <1>5, <1>6 DEF NumbersAt

\* So is the rest.
LEMMA PlacedBy ==
  ASSUME ReadyInv, NEW s \in Servers, ServerStep(s), ~Create(s),
         NEW D \in SUBSET Names, NEW N \in SUBSET Names, Placed(s, D),
         Walk(deployment, s, stack'[s], D \cup N), Finishes(stack[s], stack'[s], N),
         \A c \in Names : \A n \in Below(deployment, s, c) :
           superset'[s][n] # NoComp <=> superset[s][n] # NoComp \/ n \in N,
         phase'[s] = "connect" => phase[s] = "connect" /\ N = {},
         phase'[s] = "listen" => phase[s] = "listen" \/ Below(deployment, s, Top) \subseteq D
  PROVE  PlacedAt(s)'
<1>1. deployment' = deployment /\ ~failed /\ Types
  BY SameDeployment DEF ServerStep, ReadyInv, IInv
<1>2. component_count' = component_count /\ \A n \in Names : IsLocal(s, n) => id'[s][n] = id[s][n]
  BY SameLocalIds DEF ReadyInv, IInv
<1>3. NumbersAt(s, D \cup N)'
  BY <1>1, <1>2, NumbersFinish DEF Placed
<1>4. LinkedAt(s, D \cup N)'
  BY <1>1 DEF Placed, LinkedAt
<1>5. Walk(deployment, s, stack[s], D \cup N)'
  BY <1>1
<1>6. phase'[s] = "connect" => D \cup N = {}
  BY DEF Placed
<1>7. phase'[s] = "listen" => Below(deployment, s, Top)' \subseteq D \cup N
  BY <1>1 DEF Placed, Below
<1>8. Placed(s, D \cup N)'
  BY <1>3, <1>4, <1>5, <1>6, <1>7 DEF Placed
<1> QED BY <1>8 DEF PlacedAt

\* Whoever steps beside its calls stays where it is.
LEMMA PlacedStays ==
  ASSUME ReadyInv, NEW s \in Servers, ServerStep(s), ~Create(s), PlacedAt(s),
         stack'[s] = stack[s], superset'[s] = superset[s], phase'[s] = phase[s]
  PROVE  PlacedAt(s)'
<1>1. PICK D \in SUBSET Names : Placed(s, D)
  BY DEF PlacedAt
<1>2. Finishes(stack[s], stack'[s], {})
  BY DEF Finishes
<1>3. Walk(deployment, s, stack'[s], D \cup {})
  <2>1. D \cup {} = D
    OBVIOUS
  <2> QED BY <1>1, <2>1 DEF Placed
<1> QED BY <1>1, <1>2, <1>3, PlacedBy

\* So does everyone else.
LEMMA PlacedOther ==
  ASSUME ReadyInv, NEW s \in Servers, ServerStep(s), NEW x \in Servers, x # s, PlacedAt(x)
  PROVE  PlacedAt(x)'
<1>1. deployment' = deployment /\ ~failed
  BY SameDeployment DEF ServerStep
<1>2. /\ stack'[x] = stack[x] /\ superset'[x] = superset[x] /\ phase'[x] = phase[x]
      /\ id'[x] = id[x] /\ component_count'[x] = component_count[x]
  BY OwnState DEF ReadyInv, IInv
<1>3. PICK D \in SUBSET Names : Placed(x, D)
  BY DEF PlacedAt
<1>4. \A n : IsLocal(x, n)' <=> IsLocal(x, n)
  BY <1>1 DEF IsLocal, IsRemote, Listed
<1>5. CreatedNames(x)' = CreatedNames(x)
  BY <1>2, <1>4 DEF CreatedNames
<1>6. NumbersAt(x, D)'
  BY <1>1, <1>2, <1>3, <1>4, <1>5 DEF Placed, NumbersAt
<1>7. LinkedAt(x, D)' /\ Walk(deployment, x, stack[x], D)' /\ Below(deployment, x, Top)' = Below(deployment, x, Top)
  BY <1>1, <1>2, <1>3 DEF Placed, LinkedAt, Below
<1>8. Placed(x, D)'
  BY <1>2, <1>3, <1>6, <1>7 DEF Placed
<1> QED BY <1>8 DEF PlacedAt

\* configure begins the walk, ...
LEMMA PlacedConfigures ==
  ASSUME ReadyInv, NEW s \in Servers, ServerStep(s), Configure(s), PlacedAt(s)
  PROVE  PlacedAt(s)'
<1> DEFINE f == [Call(Top) EXCEPT !.child = 1]
<1>1. phase[s] = "connect" /\ phase'[s] = "configure" /\ stack'[s] = <<f>> /\ superset' = superset
  BY DEF Configure, tree, ReadyInv, IInv, Types
<1>2. f \in Calls /\ f.child = 1 /\ f.comp = Top
  BY DEF Call, Calls
<1> HIDE DEF f
<1>3. PICK D \in SUBSET Names : Placed(s, D)
  BY DEF PlacedAt
<1>4. D = {}
  BY <1>1, <1>3 DEF Placed
<1>5. Walk(deployment, s, stack'[s], D \cup {})
  <2>1. Walk(deployment, s, stack'[s], {})
    BY <1>1, <1>2, WalkBegins DEF ReadyInv, IInv, Types
  <2> QED BY <1>4, <2>1
<1>6. Finishes(stack[s], stack'[s], {})
  <2>1. stack[s] = <<>>
    BY <1>1 DEF ReadyInv, InCalls, CallingAt
  <2>2. Len(stack[s]) = 0 /\ Len(stack'[s]) = 1 /\ stack'[s][1].comp = Top
    BY <1>1, <1>2, <2>1
  <2>3. \A n \in Names : ~Begun(stack[s], n) /\ ~Begun(stack'[s], n)
    BY <2>2, NamesAssumption DEF Begun
  <2> QED BY <2>3 DEF Finishes
<1>7. ~Create(s)
  BY <1>1 DEF Create, ReadyInv, IInv, Types
<1> QED BY <1>1, <1>3, <1>5, <1>6, <1>7, PlacedBy

\* The calls in progress are rooted in the top.
LEMMA RootedCalls ==
  ASSUME ReadyInv, NEW s \in Servers
  PROVE  Rooted(stack[s]) /\ stack[s] \in Seq(Calls) /\ Len(stack[s]) \in Nat
BY LenProperties DEF ReadyInv, IInv, Types, Nested, NestedAt, Rooted

\* What a call recurses into.
LEMMA CallSubsets ==
  ASSUME Types, NEW s \in Servers, NEW f \in Calls
  PROVE  /\ deployment.subset[s][f.comp] = Subset(s, f.comp)
         /\ DOMAIN Subset(s, f.comp) = 1 .. Len(Subset(s, f.comp)) /\ Len(Subset(s, f.comp)) \in Nat
         /\ \A i \in DOMAIN Subset(s, f.comp) : Subset(s, f.comp)[i] \in Names
         /\ f.child \in Nat
<1>1. f.comp \in Names \cup {Top} /\ f.child \in Nat
  BY DEF Calls
<1>2. Subset(s, f.comp) \in Seq(Names)
  BY <1>1, DeploymentTypes
<1>3. DOMAIN Subset(s, f.comp) = 1 .. Len(Subset(s, f.comp)) /\ Len(Subset(s, f.comp)) \in Nat
  BY <1>2, LenProperties
<1>4. \A i \in DOMAIN Subset(s, f.comp) : Subset(s, f.comp)[i] \in Names
  BY <1>2, <1>3, ElementOfSeq
<1> QED BY <1>1, <1>3, <1>4 DEF Subset

\* ... a call goes on to the next subset, ...
LEMMA PlacedCalls ==
  ASSUME ReadyInv, NEW s \in Servers, ServerStep(s), NextSubset(s), PlacedAt(s)
  PROVE  PlacedAt(s)'
<1> DEFINE q == stack[s]
           r == stack'[s]
           c == Call(deployment.subset[s][q[1].comp][q[1].child])
<1>1. /\ Running(s) /\ Head(q).child \in DOMAIN Subset(s, Head(q).comp)
      /\ Continue(s, <<Call(Subset(s, Head(q).comp)[Head(q).child])>> \o q)
      /\ superset' = superset /\ phase' = phase
  BY DEF NextSubset, tree
<1>2. /\ q[1] \in Calls /\ Head(q) = q[1] /\ Len(q) \in Nat /\ Len(q) > 0
      /\ q \in Seq(Calls) /\ Rooted(q) /\ Types
  BY <1>1, RunningTop, RootedCalls DEF ReadyInv, IInv
<1>3. q[1].child \in DOMAIN deployment.subset[s][q[1].comp] /\ Continue(s, <<c>> \o q)
  BY <1>1, <1>2 DEF Subset
<1>4. c \in Calls /\ c.child = 0
  <2>1. deployment.subset[s][q[1].comp][q[1].child] \in Names
    BY <1>2, <1>3, CallSubsets
  <2> QED BY <2>1 DEF Call, Calls
<1>5. /\ r \in Seq(Calls) /\ Len(r) = Len(q) + 1 /\ r[1] = c
      /\ \A i \in 2 .. Len(q) + 1 : r[i] = q[i - 1]
  <2> HIDE DEF c
  <2> QED BY <1>2, <1>3, <1>4, CallStack
<1>6. PICK D \in SUBSET Names : Placed(s, D)
  BY DEF PlacedAt
<1>7. Walk(deployment, s, r, D \cup {})
  <2>1. Walk(deployment, s, q, D) /\ deployment \in Deployments
    BY <1>2, <1>6 DEF Placed, Types
  <2>2. Walk(deployment, s, r, D)
    <3> HIDE DEF q, r
    <3> QED BY <1>2, <1>3, <1>5, <2>1, WalkCalls
  <2>3. D \cup {} = D
    OBVIOUS
  <2> QED BY <2>2, <2>3
<1>8. Finishes(q, r, {})
  <2> SUFFICES ASSUME NEW n \in Names
               PROVE  Begun(r, n) <=> Begun(q, n)
    BY DEF Finishes
  <2>1. ASSUME NEW i \in 1 .. Len(r), r[i].comp = n, r[i].child # 0
        PROVE  Begun(q, n)
    <3>1. i # 1
      BY <1>4, <1>5, <2>1
    <3>2. i \in 2 .. Len(q) + 1 /\ i - 1 \in 1 .. Len(q)
      BY <1>2, <1>5, <3>1
    <3> QED BY <1>5, <2>1, <3>2 DEF Begun
  <2>2. ASSUME NEW i \in 1 .. Len(q), q[i].comp = n, q[i].child # 0
        PROVE  Begun(r, n)
    <3>1. i + 1 \in 2 .. Len(q) + 1 /\ i + 1 \in 1 .. Len(r) /\ i + 1 - 1 = i
      BY <1>2, <1>5
    <3>2. r[i + 1] = q[i]
      BY <1>5, <3>1
    <3> QED BY <2>2, <3>1, <3>2 DEF Begun
  <2> QED BY <2>1, <2>2 DEF Begun
<1>9. ~Create(s)
  <2>1. Head(q).child # 0
    <3>1. /\ DOMAIN Subset(s, q[1].comp) = 1 .. Len(Subset(s, q[1].comp))
          /\ Len(Subset(s, q[1].comp)) \in Nat
      BY <1>2, CallSubsets
    <3> QED BY <1>1, <1>2, <3>1
  <2> QED BY <2>1 DEF Create
<1> QED BY <1>1, <1>6, <1>7, <1>8, <1>9, PlacedBy

\* ... waits for another process, ...
LEMMA PlacedAsks ==
  ASSUME ReadyInv, NEW s \in Servers, ServerStep(s), ConnectRemoteComponent(s), PlacedAt(s)
  PROVE  PlacedAt(s)'
<1> DEFINE q == stack[s]
           r == stack'[s]
           c == [Head(q) EXCEPT !.waits = TRUE]
<1>1. /\ Running(s) /\ Continue(s, <<c>> \o Tail(q))
      /\ superset' = superset /\ phase' = phase
      /\ Head(q).child > Len(Subset(s, Head(q).comp))
  BY DEF ConnectRemoteComponent, tree
<1>2. /\ q[1] \in Calls /\ Head(q) = q[1] /\ Len(q) \in Nat /\ Len(q) > 0 /\ q # <<>>
      /\ q \in Seq(Calls) /\ Types
  BY <1>1, RunningTop, RootedCalls DEF ReadyInv, IInv
<1>3. c \in Calls /\ c.comp = q[1].comp /\ c.child = q[1].child
  BY <1>2 DEF Calls
<1>4. /\ r \in Seq(Calls) /\ Len(r) = Len(q) /\ r[1] = c
      /\ \A i \in 2 .. Len(q) : r[i] = q[i]
  <2> HIDE DEF c
  <2> QED BY <1>1, <1>2, <1>3, ContinueStack
<1>5. PICK D \in SUBSET Names : Placed(s, D)
  BY DEF PlacedAt
<1>6. \A i \in 1 .. Len(q) : r[i].comp = q[i].comp /\ r[i].child = q[i].child
  <2>1. \A i \in 1 .. Len(q) : i = 1 \/ i \in 2 .. Len(q)
    BY <1>2
  <2> HIDE DEF c
  <2> QED BY <1>3, <1>4, <2>1
<1>7. Walk(deployment, s, r, D \cup {})
  <2>1. Walk(deployment, s, q, D) /\ deployment \in Deployments
    BY <1>2, <1>5 DEF Placed, Types
  <2>2. Passed(deployment, s, r[1]) = Passed(deployment, s, q[1]) /\ r[1].comp = q[1].comp
    <3> HIDE DEF c
    <3> QED BY <1>3, <1>4, PassedSame
  <2>3. Walk(deployment, s, r, D)
    <3> HIDE DEF q, r
    <3> QED BY <1>2, <1>4, <2>1, <2>2, WalkGoesOn
  <2>4. D \cup {} = D
    OBVIOUS
  <2> QED BY <2>3, <2>4
<1>8. Finishes(q, r, {})
  <2> HIDE DEF c, q, r
  <2> QED BY <1>4, <1>6 DEF Finishes, Begun
<1>9. ~Create(s)
  <2>1. Head(q).child # 0
    <3>1. Len(Subset(s, q[1].comp)) \in Nat /\ q[1].child \in Nat
      BY <1>2, CallSubsets
    <3>2. q[1].child > Len(Subset(s, q[1].comp))
      BY <1>1, <1>2
    <3>3. q[1].child # 0
      BY <3>1, <3>2
    <3> QED BY <1>2, <3>3
  <2> QED BY <2>1 DEF Create
<1>10. superset' = superset /\ phase' = phase
  BY <1>1
<1> HIDE DEF q, r, c
<1> QED BY <1>5, <1>7, <1>8, <1>9, <1>10, PlacedBy DEF q, r

\* ... or it returns, and its component is finished.
LEMMA PlacedReturns ==
  ASSUME ReadyInv, NEW s \in Servers, ServerStep(s), AddSubset(s), Len(stack[s]) > 1,
         stack[s][1].child > Len(Subset(s, stack[s][1].comp)), phase' = phase, PlacedAt(s),
         ~Create(s)
  PROVE  PlacedAt(s)'
<1> DEFINE q == stack[s]
           r == stack'[s]
           n == q[1].comp
<1>1. q \in Seq(Calls) /\ Len(q) \in Nat /\ Types /\ PastBarrier /\ Nested /\ deployment \in Deployments
  BY RootedCalls DEF ReadyInv, IInv, Types
<1>2. q[1] \in Calls /\ q[2] \in Calls
  BY <1>1, ElementOfSeq
<1>3. /\ r \in Seq(Calls) /\ Len(r) = Len(q) - 1
      /\ r[1].comp = q[2].comp /\ r[1].child = q[2].child + 1
      /\ \A i \in 2 .. Len(q) - 1 : r[i] = q[i + 1]
  <2>1. /\ stack' \in [Servers -> Seq(Calls)] /\ Len(r) = Len(q) - 1
        /\ r[1] = [q[2] EXCEPT !.child = @ + 1]
        /\ \A i \in 2 .. Len(q) - 1 : r[i] = q[i + 1]
    BY <1>1, AddSubsetStack
  <2>2. r[1].comp = q[2].comp /\ r[1].child = q[2].child + 1
    <3> HIDE DEF q, r
    <3> QED BY <1>2, <2>1 DEF Calls
  <2> QED BY <2>1, <2>2
<1>4. PICK D \in SUBSET Names : Placed(s, D)
  BY DEF PlacedAt
<1>5. Walk(deployment, s, q, D)
  BY <1>4 DEF Placed
<1>6. q[1].child > Len(deployment.subset[s][q[1].comp])
  BY DEF Subset
<1>7. Walk(deployment, s, r, D \cup {n})
  <2>1. Len(q) > 1
    OBVIOUS
  <2> HIDE DEF q, r
  <2> QED BY <1>1, <1>3, <1>5, <1>6, <2>1, WalkReturns
<1>8. n \in Below(deployment, s, q[2].comp) /\ q[2].comp \in Names \cup {Top} /\ n \in Names
  <2>1. n \in Below(deployment, s, q[2].comp) /\ q[2].comp \in Names \cup {Top}
    BY <1>1, <1>5, NotFinished
  <2> QED BY <1>1, <2>1, SubsetLists
<1>9. q[2].child \in DOMAIN Subset(s, q[2].comp)
  <2>1. 1 \in 1 .. Len(q) - 1 /\ 1 + 1 = 2
    BY <1>1
  <2> QED BY <1>5, <2>1 DEF Walk, Path, Subset
<1>10. Finishes(q, r, {n})
  <2>1. q[1].child # 0 /\ q[2].child # 0 /\ r[1].child # 0
    <3>1. /\ q[1].child \in Nat /\ q[2].child \in Nat /\ Len(Subset(s, q[1].comp)) \in Nat
          /\ DOMAIN Subset(s, q[2].comp) = 1 .. Len(Subset(s, q[2].comp))
      BY <1>1, <1>2, CallSubsets
    <3>2. q[1].child > Len(Subset(s, q[1].comp))
      OBVIOUS
    <3>3. q[1].child # 0
      BY <3>1, <3>2
    <3>4. q[2].child # 0
      BY <1>9, <3>1
    <3>5. q[2].child + 1 # 0
      BY <3>1
    <3> QED BY <1>3, <3>3, <3>4, <3>5
  <2>2. 1 \in 1 .. Len(q) /\ 2 \in 1 .. Len(q) /\ 1 \in 1 .. Len(r)
    BY <1>1, <1>3
  <2> SUFFICES ASSUME NEW m \in Names
               PROVE  /\ Begun(r, m) => Begun(q, m)
                      /\ Begun(q, m) => m = n \/ Begun(r, m)
                      /\ m = n => Begun(q, m)
    BY DEF Finishes
  <2>3. m = n => Begun(q, m)
    BY <2>1, <2>2 DEF Begun
  <2>4. ASSUME NEW i \in 1 .. Len(r), r[i].comp = m, r[i].child # 0
        PROVE  Begun(q, m)
    <3>1. CASE i = 1
      BY <1>3, <2>1, <2>2, <2>4, <3>1 DEF Begun
    <3>2. CASE i # 1
      <4>1. i \in 2 .. Len(q) - 1 /\ i + 1 \in 1 .. Len(q)
        BY <1>1, <1>3, <3>2
      <4> QED BY <1>3, <2>4, <4>1 DEF Begun
    <3> QED BY <3>1, <3>2
  <2>5. ASSUME NEW i \in 1 .. Len(q), q[i].comp = m, q[i].child # 0
        PROVE  m = n \/ Begun(r, m)
    <3>1. CASE i = 1
      BY <2>5, <3>1
    <3>2. CASE i = 2
      BY <1>3, <2>1, <2>2, <2>5, <3>2 DEF Begun
    <3>3. CASE i # 1 /\ i # 2
      <4>1. i - 1 \in 2 .. Len(q) - 1 /\ i - 1 \in 1 .. Len(r) /\ i - 1 + 1 = i
        BY <1>1, <1>3, <3>3
      <4>2. r[i - 1] = q[i]
        BY <1>3, <4>1
      <4> QED BY <2>5, <4>1, <4>2 DEF Begun
    <3> QED BY <3>1, <3>2, <3>3
  <2> QED BY <2>3, <2>4, <2>5 DEF Begun
<1>11. ASSUME NEW c \in Names, NEW m \in Below(deployment, s, c)
       PROVE  superset'[s][m] # NoComp <=> superset[s][m] # NoComp \/ m \in {n}
  <2>1. superset' = [superset EXCEPT ![s][n] = IF q[2].comp = Top THEN @ ELSE q[2].comp]
    <3>1. Head(q) = q[1]
      BY <1>1
    <3> QED BY <3>1 DEF AddSubset
  <2>2. superset \in [Servers -> [Names -> Names \cup {NoComp}]] /\ m \in Names
    BY <1>1, SubsetLists DEF Types
  <2>3. CASE m = n
    <3>1. q[2].comp = c
      BY <1>1, <1>8, <2>3, OneParent
    <3>2. c # Top /\ c # NoComp
      BY NamesAssumption
    <3>3. superset'[s][m] = c
      BY <1>8, <2>1, <2>2, <2>3, <3>1, <3>2
    <3> QED BY <2>3, <3>2, <3>3
  <2>4. CASE m # n
    <3>1. superset'[s][m] = superset[s][m]
      BY <1>8, <2>1, <2>2, <2>4
    <3> QED BY <2>4, <3>1
  <2> QED BY <2>3, <2>4
<1>12. phase[s] = "configure"
  <2>1. stack[s] # <<>>
    BY <1>1
  <2> QED BY <2>1 DEF ReadyInv, InCalls, CallingAt
<1>13. phase'[s] # "connect" /\ phase'[s] # "listen"
  BY <1>12
<1>14. {n} \in SUBSET Names
  BY <1>8
<1> HIDE DEF q, r, n
<1> QED BY <1>4, <1>7, <1>10, <1>11, <1>13, <1>14, PlacedBy DEF q, r

\* A server listens when the walk has ended.
LEMMA PlacedListens ==
  ASSUME ReadyInv, NEW s \in Servers, ServerStep(s), Listen(s), PlacedAt(s)
  PROVE  PlacedAt(s)'
<1> DEFINE q == stack[s]
<1>1. /\ Len(q) = 1 /\ Running(s) /\ phase[s] = "configure" /\ Head(q).child > Len(Subset(s, Top))
      /\ superset' = superset /\ phase'[s] = "listen" /\ stack'[s] = <<>>
  BY DEF Listen, tree, Continue, ReadyInv, IInv, Types
<1>2. /\ q[1] \in Calls /\ Head(q) = q[1] /\ q \in Seq(Calls) /\ Rooted(q)
      /\ Types /\ deployment \in Deployments
  BY <1>1, RunningTop, RootedCalls DEF ReadyInv, IInv, Types
<1>3. q[1].comp = Top
  <2>1. 1 \in 1 .. Len(q)
    BY <1>1
  <2> QED BY <1>1, <1>2, <2>1 DEF Rooted
<1>4. PICK D \in SUBSET Names : Placed(s, D)
  BY DEF PlacedAt
<1>5. q[1].child > Len(deployment.subset[s][Top])
  BY <1>1, <1>2 DEF Subset
<1>6. Walk(deployment, s, <<>>, D) /\ Below(deployment, s, Top) \subseteq D
  <2>1. Walk(deployment, s, q, D)
    BY <1>4 DEF Placed
  <2> HIDE DEF q
  <2> QED BY <1>1, <1>2, <1>3, <1>5, <2>1, WalkEnds
<1>7. Walk(deployment, s, stack'[s], D \cup {})
  <2>1. D \cup {} = D
    OBVIOUS
  <2> QED BY <1>1, <1>6, <2>1
<1>8. Finishes(q, stack'[s], {})
  <2>1. \A i \in 1 .. Len(q) : i = 1
    BY <1>1
  <2>2. \A n \in Names : ~Begun(q, n)
    BY <1>3, <2>1, NamesAssumption DEF Begun
  <2>3. Len(stack'[s]) = 0 /\ \A i \in 1 .. 0 : FALSE
    BY <1>1
  <2>4. \A n \in Names : ~Begun(stack'[s], n)
    BY <2>3 DEF Begun
  <2> QED BY <2>2, <2>4 DEF Finishes
<1>9. ~Create(s)
  <2>1. Len(Subset(s, Top)) \in Nat
    BY <1>2, <1>3, CallSubsets
  <2>2. q[1].child # 0
    BY <1>1, <1>2, <2>1 DEF Calls
  <2> QED BY <1>2, <2>2 DEF Create
<1>10. /\ superset' = superset /\ phase'[s] # "connect"
       /\ \A m \in Names : m \notin {}
  BY <1>1
<1>11. \A m : superset'[s][m] # NoComp <=> superset[s][m] # NoComp \/ m \in {}
  BY <1>10
<1>12. Finishes(stack[s], stack'[s], {}) /\ {} \in SUBSET Names
  BY <1>8
<1> HIDE DEF q
<1> QED BY <1>4, <1>6, <1>7, <1>9, <1>10, <1>11, <1>12, PlacedBy

\* create_pseudo_component numbers what has no number.
LEMMA CreateNumbers ==
  ASSUME ReadyInv, NEW s \in Servers, ServerStep(s), Create(s), NEW D \in SUBSET Names,
         NEW n \in Names, n = Head(stack[s]).comp, NumbersAt(s, D),
         n \notin D, ~Begun(stack[s], n), Begun(stack'[s], n),
         \A m \in Names : m # n => (Begun(stack'[s], m) <=> Begun(stack[s], m))
  PROVE  NumbersAt(s, D)'
<1> DEFINE q == stack[s]
           r == stack'[s]
<1>1. deployment' = deployment /\ ~failed /\ Types
  BY SameDeployment DEF ServerStep, ReadyInv, IInv
<1>2. \A m : IsLocal(s, m)' <=> IsLocal(s, m)
  BY <1>1 DEF IsLocal, IsRemote, Listed
<1>3. \A m \in Names : IsLocal(s, m) <=> m \in Listed(s) /\ ~IsRemote(s, m)
  BY DEF IsLocal
<1>4. CASE IsRemote(s, n)
  <2>1. UNCHANGED <<component_count, id, failed>>
    BY <1>4 DEF Create
  <2>2. CreatedNames(s)' = CreatedNames(s)
    BY <1>2, <2>1 DEF CreatedNames
  <2>3. \A m \in CreatedNames(s) : m # n
    BY <1>3, <1>4 DEF CreatedNames
  <2>4. \A m \in CreatedNames(s) : m \in D \/ Begun(r, m)
    BY <2>3 DEF NumbersAt, CreatedNames
  <2>5. \A m \in Names : IsLocal(s, m) /\ Begun(r, m) => id[s][m] # Invalid
    BY <1>1, <1>3, <1>4 DEF NumbersAt
  <2> QED BY <1>1, <1>2, <2>1, <2>2, <2>4, <2>5 DEF NumbersAt
<1>5. CASE ~IsRemote(s, n)
  <2> DEFINE start == deployment.configured[s][1]
  <2>1. GetNewCompId(s, n)
    BY <1>5 DEF Create
  <2>2. component_count'[s] = component_count[s] + 1 /\ component_count[s] \in Nat
    BY <1>1, <2>1 DEF GetNewCompId, Types
  <2>3. CASE failed' = TRUE /\ id' = id
    <3>1. CreatedNames(s)' = CreatedNames(s)
      BY <1>2, <2>3 DEF CreatedNames
    <3>2. \A m \in CreatedNames(s) : m \in D \/ Begun(r, m)
      BY DEF NumbersAt, CreatedNames
    <3> QED BY <1>2, <2>3, <3>1, <3>2 DEF NumbersAt
  <2>4. CASE failed' = failed /\ id' = [id EXCEPT ![s][n] = component_count'[s] + start - 1]
    <3>1. start \in Nat /\ start # Invalid
      <4>1. deployment \in Deployments
        BY <1>1 DEF Types
      <4>2. deployment.configured[s] \in Nat \X Nat
        BY <1>1, DeploymentTypes DEF Ranges
      <4> QED BY <4>1, <4>2, DeploymentsAssumption
    <3>2. component_count'[s] + start - 1 # Invalid
      <4>1. \A a, b \in Nat : b # 0 => (a + 1) + b - 1 # 0
        OBVIOUS
      <4> HIDE DEF start
      <4> QED BY <2>2, <3>1, <4>1 DEF Invalid
    <3>3. \A m \in Names : id'[s][m] = IF m = n THEN component_count'[s] + start - 1 ELSE id[s][m]
      BY <1>1, <2>4 DEF Types
    <3> HIDE DEF start
    <3>4. n \in Listed(s)
      <4>1. Head(q) = q[1] /\ Len(q) > 1 /\ Len(q) \in Nat /\ q[2] \in Calls
        <5>1. Running(s) /\ n # Top
          BY NamesAssumption DEF Create
        <5> QED BY <5>1, RunningTop DEF ReadyInv, IInv
      <4>2. n \in Below(deployment, s, q[1 + 1].comp)
        <5>1. 1 \in 1 .. Len(q) /\ 1 < Len(q)
          BY <4>1
        <5> QED BY <4>1, <5>1 DEF ReadyInv, IInv, Nested, NestedAt
      <4>3. 1 + 1 = 2
        OBVIOUS
      <4> QED BY <4>1, <4>2, <4>3 DEF Listed, Calls
    <3>5. IsLocal(s, n)
      BY <1>5, <3>4 DEF IsLocal
    <3>6. CreatedNames(s)' = CreatedNames(s) \cup {n}
      BY <1>2, <3>2, <3>3, <3>5 DEF CreatedNames
    <3>7. n \notin CreatedNames(s)
      BY DEF NumbersAt
    <3>8. IsFiniteSet(CreatedNames(s))
      <4>1. CreatedNames(s) \subseteq Names
        BY DEF CreatedNames
      <4> QED BY <4>1, FS_Subset, NamesAssumption
    <3>9. Cardinality(CreatedNames(s)') = Cardinality(CreatedNames(s)) + 1 /\ Cardinality(CreatedNames(s)) \in Nat
      BY <3>6, <3>7, <3>8, FS_AddElement, FS_CardinalityType
    <3>10. component_count'[s] <= Cardinality(CreatedNames(s)')
      <4>1. component_count[s] <= Cardinality(CreatedNames(s))
        BY <1>1 DEF NumbersAt
      <4> QED BY <2>2, <3>9, <4>1
    <3>11. \A m \in D : IsLocal(s, m) => id'[s][m] # Invalid
      BY <3>3 DEF NumbersAt
    <3>12. \A m \in CreatedNames(s)' : m \in D \/ Begun(r, m)
      BY <3>6 DEF NumbersAt, CreatedNames
    <3>13. \A m \in Names : IsLocal(s, m) /\ Begun(r, m) => id'[s][m] # Invalid
      BY <1>1, <3>2, <3>3 DEF NumbersAt
    <3> QED BY <1>2, <3>10, <3>11, <3>12, <3>13 DEF NumbersAt
  <2> QED BY <2>1, <2>3, <2>4 DEF GetNewCompId, Error
<1> QED BY <1>4, <1>5

\* Create keeps the place: the call goes on to its first subset.
LEMMA PlacedCreates ==
  ASSUME ReadyInv, NEW s \in Servers, ServerStep(s), Create(s), PlacedAt(s)
  PROVE  PlacedAt(s)'
<1> DEFINE q == stack[s]
           r == stack'[s]
           c == [Head(q) EXCEPT !.child = 1]
           n == q[1].comp
<1>1. /\ Running(s) /\ Head(q).child = 0 /\ Continue(s, <<c>> \o Tail(q))
      /\ superset' = superset /\ phase' = phase /\ deployment' = deployment
  BY DEF Create
<1>2. /\ q[1] \in Calls /\ Head(q) = q[1] /\ Len(q) \in Nat /\ Len(q) > 0 /\ q # <<>>
      /\ q \in Seq(Calls) /\ Types /\ deployment \in Deployments
  BY <1>1, RunningTop, RootedCalls DEF ReadyInv, IInv, Types
<1>3. c \in Calls /\ c.comp = n /\ c.child = 1
  BY <1>2 DEF Calls
<1>4. /\ Len(r) = Len(q) /\ r[1] = c /\ r \in Seq(Calls)
      /\ \A i \in 2 .. Len(q) : r[i] = q[i]
  <2> HIDE DEF c
  <2> QED BY <1>1, <1>2, <1>3, ContinueStack
<1> HIDE DEF c
<1>5. q[1].child = 0 /\ r[1].comp = n /\ r[1].child = 1
  BY <1>1, <1>2, <1>3, <1>4
<1>6. PICK D \in SUBSET Names : Placed(s, D)
  BY DEF PlacedAt
<1>7. Walk(deployment, s, q, D)
  BY <1>6 DEF Placed
<1>8. Walk(deployment, s, r, D)
  <2>1. r[1] \in Calls
    BY <1>3, <1>4
  <2>2. Passed(deployment, s, r[1]) = Passed(deployment, s, q[1])
    <3>1. Passed(deployment, s, r[1]) = {}
      BY <1>2, <1>5, <2>1, PassedNone
    <3>2. Passed(deployment, s, q[1]) = {}
      BY <1>2, <1>5, PassedNone
    <3> QED BY <3>1, <3>2
  <2> HIDE DEF q, r
  <2> QED BY <1>2, <1>4, <1>5, <1>7, <2>2, WalkGoesOn DEF n
<1>9. 1 \in 1 .. Len(q) /\ \A i \in 1 .. Len(q) : i = 1 \/ i \in 2 .. Len(q)
  BY <1>2
<1>10. n \in Names /\ n \notin D
  <2>1. Len(q) > 1
    BY <1>5, <1>9, <1>2 DEF ReadyInv, IInv, Nested, NestedAt
  <2>2. n \in Names
    BY <1>1, <2>1, RunningTop DEF ReadyInv, IInv
  <2>3. n \notin D
    BY <1>2, <1>7, <2>1, NotFinished
  <2> QED BY <2>2, <2>3
<1>11. ~Begun(q, n)
  <2>1. \A i \in 1 .. Len(q) : q[i].comp = n => i = 1
    BY <1>7, <1>9 DEF Walk, Apart
  <2> QED BY <1>5, <2>1 DEF Begun
<1>12. Begun(r, n)
  BY <1>4, <1>5, <1>9 DEF Begun
<1>13. ASSUME NEW m \in Names, m # n
       PROVE  Begun(r, m) <=> Begun(q, m)
  <2>1. \A i \in 1 .. Len(q) : q[i].comp = m \/ r[i].comp = m => i \in 2 .. Len(q)
    BY <1>5, <1>9, <1>13
  <2> HIDE DEF q, r, n
  <2> QED BY <1>4, <2>1 DEF Begun
<1>14. NumbersAt(s, D)'
  <2>1. NumbersAt(s, D) /\ n = Head(stack[s]).comp
    BY <1>2, <1>6 DEF Placed
  <2> HIDE DEF n
  <2> QED BY <1>10, <1>11, <1>12, <1>13, <2>1, CreateNumbers
<1>15. Placed(s, D)'
  BY <1>1, <1>6, <1>8, <1>14 DEF Placed, LinkedAt, Below
<1> QED BY <1>15 DEF PlacedAt

\* Whoever waits asks for a remote subset, which it has created, of a local
\* component.
AsksAt(s) ==
    Waiting(s) =>
      /\ Len(stack[s]) > 1
      /\ stack[s][1].child > Len(Subset(s, stack[s][1].comp))
      /\ IsRemote(s, stack[s][1].comp)
      /\ stack[s][2].comp \in Names /\ IsLocal(s, stack[s][2].comp)

\* All processes do.
Asking == \A s \in Servers : AsksAt(s)

\* All processes are somewhere in their trees.
AllPlaced == \A s \in Servers : PlacedAt(s)

\* AllPlaced is kept, whatever a process does.
LEMMA AllPlacedStep ==
  ASSUME ReadyInv, AllPlaced, Asking, NEW s \in Servers, ServerStep(s)
  PROVE  AllPlaced'
<1>1. PlacedAt(s)
  BY DEF AllPlaced
<1>2. \A x \in Servers : x # s => PlacedAt(x)'
  BY PlacedOther DEF AllPlaced
<1>3. Types /\ PastBarrier /\ Nested
  BY DEF ReadyInv, IInv
<1>4. CASE Create(s)
  BY <1>1, <1>2, <1>4, PlacedCreates DEF AllPlaced
<1>5. CASE Configure(s)
  BY <1>1, <1>2, <1>5, PlacedConfigures DEF AllPlaced
<1>6. CASE NextSubset(s)
  BY <1>1, <1>2, <1>6, PlacedCalls DEF AllPlaced
<1>7. CASE ConnectRemoteComponent(s)
  BY <1>1, <1>2, <1>7, PlacedAsks DEF AllPlaced
<1>8. CASE Listen(s)
  BY <1>1, <1>2, <1>8, PlacedListens DEF AllPlaced
<1>9. ASSUME ReturnLocally(s), ~Create(s)
      PROVE  AllPlaced'
  <2>1. /\ Running(s) /\ Len(stack[s]) > 1 /\ AddSubset(s) /\ phase' = phase
        /\ Head(stack[s]).child > Len(Subset(s, Head(stack[s]).comp))
    BY <1>9 DEF ReturnLocally
  <2>2. Head(stack[s]) = stack[s][1]
    BY <1>3, <2>1, RunningTop
  <2>3. PlacedAt(s)'
    BY <1>1, <1>9, <2>1, <2>2, PlacedReturns
  <2> QED BY <1>2, <2>3 DEF AllPlaced
<1>10. ASSUME NEW r \in Servers, RecvResponse(s, r), ~Create(s)
       PROVE  AllPlaced'
  <2>1. Waiting(s) /\ AddSubset(s) /\ phase' = phase
    BY <1>10 DEF RecvResponse
  <2>2. Len(stack[s]) > 1
    BY <1>3, <2>1, WaitingTop
  <2>3. stack[s][1].child > Len(Subset(s, stack[s][1].comp))
    BY <2>1 DEF Asking, AsksAt
  <2>4. PlacedAt(s)'
    BY <1>1, <1>10, <2>1, <2>2, <2>3, PlacedReturns
  <2> QED BY <1>2, <2>4 DEF AllPlaced
<1>11. ASSUME ~Create(s),
              \/ ConnectSend(s) \/ Reprocess(s)
              \/ \E r \in Servers : ConnectRecv(s, r) \/ Reschedule(s, r) \/ Process(s, r)
       PROVE  AllPlaced'
  <2>1. stack' = stack /\ superset' = superset /\ phase' = phase
    BY <1>11 DEF ConnectSend, Reprocess, ConnectRecv, Reschedule, Process, tree
  <2>2. PlacedAt(s)'
    BY <1>1, <1>11, <2>1, PlacedStays
  <2> QED BY <1>2, <2>2 DEF AllPlaced
<1>12. ASSUME ~Create(s), JobStep(s)
       PROVE  AllPlaced'
  <2>1. stack' = stack /\ superset' = superset /\ phase' = phase
    BY <1>3, <1>12, JobStepEffect
  <2>2. PlacedAt(s)'
    BY <1>1, <1>12, <2>1, PlacedStays
  <2> QED BY <1>2, <2>2 DEF AllPlaced
<1> QED BY <1>4, <1>5, <1>6, <1>7, <1>8, <1>9, <1>10, <1>11, <1>12 DEF ServerStep

-----------------------------------------------------------------------------
\* What follows from where the processes are

\* Nothing is linked before a process configures.
LEMMA UnlinkedFirst ==
  ASSUME ReadyInv, NEW s \in Servers, PlacedAt(s), NEW n \in Names, superset[s][n] # NoComp
  PROVE  /\ phase[s] # "connect"
         /\ superset[s][n] \in Names /\ n \in Below(deployment, s, superset[s][n])
<1>1. PICK D \in SUBSET Names : Placed(s, D)
  BY DEF PlacedAt
<1>2. superset[s][n] \in Names /\ n \in Below(deployment, s, superset[s][n])
  BY DEF ReadyInv, IInv, Nested, NestedAt
<1>3. n \in D
  BY <1>1, <1>2 DEF Placed, LinkedAt
<1> QED BY <1>1, <1>2, <1>3 DEF Placed

\* The component of the innermost call is not linked, ...
LEMMA TopUnlinked ==
  ASSUME ReadyInv, NEW s \in Servers, PlacedAt(s), Len(stack[s]) > 1
  PROVE  /\ stack[s][1].comp \in Names
         /\ stack[s][1].comp \in Below(deployment, s, stack[s][2].comp)
         /\ superset[s][stack[s][1].comp] = NoComp
<1> DEFINE n == stack[s][1].comp
<1>1. PICK D \in SUBSET Names : Placed(s, D)
  BY DEF PlacedAt
<1>2. stack[s] \in Seq(Calls) /\ deployment \in Deployments
  BY RootedCalls DEF ReadyInv, IInv, Types
<1>3. n \notin D /\ n \in Below(deployment, s, stack[s][2].comp) /\ stack[s][2].comp \in Names \cup {Top}
  BY <1>1, <1>2, NotFinished DEF Placed
<1>4. n \in Names
  BY <1>2, <1>3, SubsetLists
<1>5. superset[s][n] = NoComp
  <2> SUFFICES ASSUME superset[s][n] # NoComp
               PROVE  FALSE
    OBVIOUS
  <2> HIDE DEF n
  <2>1. superset[s][n] \in Names /\ n \in Below(deployment, s, superset[s][n])
    BY <1>1, <1>4, UnlinkedFirst DEF PlacedAt
  <2> QED BY <1>1, <1>3, <2>1 DEF Placed, LinkedAt
<1> QED BY <1>3, <1>4, <1>5

\* ... nor is anything linked to it before it is created.
LEMMA UncreatedAlone ==
  ASSUME ReadyInv, NEW s \in Servers, PlacedAt(s), stack[s] # <<>>, stack[s][1].child = 0,
         NEW n \in Names, superset[s][n] # NoComp
  PROVE  superset[s][n] # stack[s][1].comp
<1> DEFINE c == stack[s][1].comp
<1> SUFFICES ASSUME superset[s][n] = c
             PROVE  FALSE
  OBVIOUS
<1>1. PICK D \in SUBSET Names : Placed(s, D)
  BY DEF PlacedAt
<1>2. c \in Names /\ n \in Below(deployment, s, c)
  BY UnlinkedFirst
<1>3. n \in D
  BY <1>1, <1>2 DEF Placed, LinkedAt
<1>4. stack[s] \in Seq(Calls) /\ Len(stack[s]) \in Nat /\ deployment \in Deployments /\ 1 \in 1 .. Len(stack[s])
  BY RootedCalls, EmptySeq DEF ReadyInv, IInv, Types
<1>5. stack[s][1] \in Calls
  BY <1>4, ElementOfSeq
<1>6. Passed(deployment, s, stack[s][1]) = {}
  BY <1>4, <1>5, PassedNone
<1>7. Below(deployment, s, stack[s][1].comp) \cap D = {}
  BY <1>1, <1>4, <1>6 DEF Placed, Walk, Behind
<1> QED BY <1>2, <1>3, <1>7

\* Everything is linked and local components are numbered where a server listens.
LEMMA ListeningLinked ==
  ASSUME ReadyInv, NEW s \in Servers, PlacedAt(s), phase[s] = "listen"
  PROVE  /\ \A c \in Names : \A n \in Below(deployment, s, c) :
              superset[s][n] = c
         /\ \A n \in Names : IsLocal(s, n) => id[s][n] # Invalid
<1>1. PICK D \in SUBSET Names : Placed(s, D)
  BY DEF PlacedAt
<1>2. \A n \in D \cup {Top} : Below(deployment, s, n) \subseteq D
  BY <1>1 DEF Placed, Walk, Closed
<1>3. deployment \in Deployments
  BY DEF ReadyInv, IInv, Types
<1>4. \A n \in Names : Below(deployment, s, n) \subseteq D
  BY <1>2, <1>3, TreesAssumption
<1>5. ASSUME NEW c \in Names, NEW n \in Below(deployment, s, c)
      PROVE  superset[s][n] = c
  <2>1. superset[s][n] # NoComp /\ n \in Names
    BY <1>1, <1>3, <1>4, SubsetLists DEF Placed, LinkedAt
  <2>2. superset[s][n] \in Names /\ n \in Below(deployment, s, superset[s][n])
    BY <2>1, UnlinkedFirst
  <2> QED BY <1>3, <2>2, OneParent
<1>6. ASSUME NEW n \in Names, IsLocal(s, n)
      PROVE  id[s][n] # Invalid
  <2>1. PICK c \in Names \cup {Top} : n \in Below(deployment, s, c)
    BY <1>6 DEF IsLocal, Listed
  <2>2. n \in D
    BY <1>2, <1>4, <2>1
  <2> QED BY <1>1, <1>6, <2>2 DEF Placed, NumbersAt
<1> QED BY <1>5, <1>6

-----------------------------------------------------------------------------
\* Who waits

\* A process begins to wait in connect_remote_component only, ...
LEMMA WaitsOf ==
  ASSUME ReadyInv, Types', NEW s \in Servers, ServerStep(s), NEW x \in Servers, Waiting(x)'
  PROVE  \/ Waiting(x) /\ stack'[x] = stack[x]
         \/ x = s /\ ConnectRemoteComponent(s)
<1>1. Types /\ PastBarrier /\ Nested /\ InCalls
  BY DEF ReadyInv, IInv
<1>2. CASE stack'[x] = stack[x]
  BY <1>2 DEF Waiting
<1>3. x # s => stack'[x] = stack[x]
  BY <1>1, OwnState
<1>4. ASSUME x = s, stack'[s] = <<>> \/ ~stack'[s][1].waits
      PROVE  FALSE
  <2>1. ~Waiting(s)'
    BY <1>4 DEF Types, Waiting
  <2> QED BY <1>4, <2>1
<1>5. ASSUME x = s, Running(s), NEW c \in Calls, ~c.waits, Continue(s, <<c>> \o Tail(stack[s]))
      PROVE  FALSE
  <2>1. stack'[s][1] = c
    BY <1>1, <1>5, RunningTop, ContinueStack
  <2> QED BY <1>4, <1>5, <2>1
<1>6. CASE x = s /\ Create(s)
  <2> DEFINE c == [Head(stack[s]) EXCEPT !.child = 1]
  <2>1. Running(s) /\ Continue(s, <<c>> \o Tail(stack[s]))
    BY <1>6 DEF Create
  <2>2. Head(stack[s]) \in Calls /\ ~Head(stack[s]).waits
    BY <1>1, <2>1, RunningTop
  <2>3. c \in Calls /\ ~c.waits
    BY <2>2 DEF Calls
  <2> HIDE DEF c
  <2> QED BY <1>5, <1>6, <2>1, <2>3
<1>7. CASE x = s /\ NextSubset(s)
  <2> DEFINE n == Subset(s, stack[s][1].comp)[stack[s][1].child]
  <2>1. /\ Running(s) /\ Head(stack[s]).child \in DOMAIN Subset(s, Head(stack[s]).comp)
        /\ Continue(s, <<Call(Subset(s, Head(stack[s]).comp)[Head(stack[s]).child])>> \o stack[s])
    BY <1>7 DEF NextSubset
  <2>2. Head(stack[s]) = stack[s][1] /\ stack[s][1] \in Calls
    BY <1>1, <2>1, RunningTop
  <2>3. n \in Names /\ Continue(s, <<Call(n)>> \o stack[s])
    BY <1>1, <2>1, <2>2, CallSubsets
  <2> HIDE DEF n
  <2>4. Call(n) \in Calls /\ ~Call(n).waits
    BY <2>3 DEF Call, Calls
  <2>5. stack'[s][1] = Call(n)
    BY <1>1, <2>3, <2>4, CallStack
  <2> QED BY <1>4, <1>7, <2>4, <2>5
<1>8. CASE x = s /\ Configure(s)
  <2>1. stack'[s] = <<[Call(Top) EXCEPT !.child = 1]>>
    BY <1>1, <1>8 DEF Configure, Types
  <2>2. ~stack'[s][1].waits
    BY <2>1 DEF Call
  <2> QED BY <1>4, <1>8, <2>2
<1>9. CASE x = s /\ Listen(s)
  <2>1. stack'[s] = <<>>
    BY <1>1, <1>9 DEF Listen, Continue, Types
  <2> QED BY <1>4, <1>9, <2>1
<1>10. ASSUME x = s, AddSubset(s), Len(stack[s]) > 1
       PROVE  FALSE
  BY <1>1, <1>4, <1>10, ReturnsAwake
<1>11. CASE x = s /\ ReturnLocally(s)
  BY <1>10, <1>11 DEF ReturnLocally
<1>12. ASSUME x = s, NEW r \in Servers, RecvResponse(s, r)
       PROVE  FALSE
  <2>1. Waiting(s) /\ AddSubset(s)
    BY <1>12 DEF RecvResponse
  <2> QED BY <1>1, <1>10, <1>12, <2>1, WaitingTop
<1>13. ASSUME \/ ConnectSend(s) \/ Reprocess(s)
              \/ \E r \in Servers : ConnectRecv(s, r) \/ Reschedule(s, r) \/ Process(s, r)
       PROVE  stack'[x] = stack[x]
  BY <1>13 DEF ConnectSend, Reprocess, ConnectRecv, Reschedule, Process
<1>14. JobStep(s) => stack'[x] = stack[x]
  BY <1>1, JobStepEffect
<1> QED BY <1>2, <1>3, <1>6, <1>7, <1>8, <1>9, <1>11, <1>12, <1>13, <1>14 DEF ServerStep

\* ... with what it asks for.
LEMMA AsksNow ==
  ASSUME ReadyInv, NEW s \in Servers, ConnectRemoteComponent(s)
  PROVE  /\ AsksAt(s)'
         /\ Waiting(s)' /\ ~Waiting(s)
         /\ Len(stack[s]) > 1
         /\ stack'[s][1].comp = stack[s][1].comp /\ stack'[s][2].comp = stack[s][2].comp
         /\ Head(stack[s]) = stack[s][1]
<1> DEFINE q == stack[s]
           r == stack'[s]
           c == [q[1] EXCEPT !.waits = TRUE]
<1>1. Types /\ PastBarrier /\ Nested
  BY DEF ReadyInv, IInv
<1>2. /\ Running(s) /\ Len(q) > 1 /\ Continue(s, <<[Head(q) EXCEPT !.waits = TRUE]>> \o Tail(q))
      /\ Head(q).child > Len(Subset(s, Head(q).comp))
      /\ q[2].comp # Top /\ ~IsRemote(s, q[2].comp) /\ IsRemote(s, Head(q).comp)
      /\ deployment' = deployment
  BY DEF ConnectRemoteComponent
<1>3. /\ Head(q) = q[1] /\ q[1] \in Calls /\ q[2] \in Calls /\ Len(q) \in Nat /\ q # <<>>
      /\ q \in Seq(Calls) /\ Rooted(q) /\ ~q[1].waits
  BY <1>1, <1>2, RunningTop, RootedCalls
<1>4. Continue(s, <<c>> \o Tail(q)) /\ c \in Calls /\ c.comp = q[1].comp /\ c.child = q[1].child /\ c.waits
  BY <1>2, <1>3 DEF Calls
<1> HIDE DEF c
<1>5. r[1] = c /\ Len(r) = Len(q) /\ r \in Seq(Calls) /\ \A i \in 2 .. Len(q) : r[i] = q[i]
  BY <1>1, <1>3, <1>4, ContinueStack
<1>6. r[2] = q[2]
  <2>1. 2 \in 2 .. Len(q)
    BY <1>2, <1>3
  <2> QED BY <1>5, <2>1
<1>7. Waiting(s)' /\ ~Waiting(s)
  <2>1. r # <<>> /\ Head(r) = r[1]
    BY <1>2, <1>3, <1>5
  <2> QED BY <1>3, <1>4, <1>5, <2>1 DEF Waiting
<1>8. q[2].comp \in Names /\ IsLocal(s, q[2].comp)
  <2>1. 2 \in 1 .. Len(q) /\ 2 # Len(q)
    BY <1>2, <1>3 DEF Rooted
  <2>2. 2 < Len(q) /\ 3 \in 1 .. Len(q) /\ 2 + 1 = 3
    <3>1. \A l \in Nat : 2 \in 1 .. l /\ 2 # l => 2 < l /\ 3 \in 1 .. l /\ 2 + 1 = 3
      OBVIOUS
    <3>2. Len(q) \in Nat
      BY <1>3
    <3> QED BY <2>1, <3>1, <3>2, Zenon
  <2>3. q[2].comp \in Below(deployment, s, q[3].comp)
    BY <1>1, <2>1, <2>2 DEF Nested, NestedAt
  <2>4. q[3] \in Calls
    BY <1>3, <2>2, ElementOfSeq
  <2>5. q[2].comp \in Listed(s)
    BY <2>3, <2>4 DEF Listed, Calls
  <2>6. q[2].comp \in Names
    BY <1>2, <1>3 DEF Calls
  <2> QED BY <1>2, <2>5, <2>6 DEF IsLocal
<1>9. \A n : (IsLocal(s, n)' <=> IsLocal(s, n)) /\ (IsRemote(s, n)' <=> IsRemote(s, n))
             /\ Subset(s, n)' = Subset(s, n)
  BY <1>2 DEF IsLocal, IsRemote, Listed, Subset
<1>10. AsksAt(s)'
  <2>1. r[1].comp = q[1].comp /\ r[1].child = q[1].child /\ q[1].child > Len(Subset(s, q[1].comp))
        /\ IsRemote(s, q[1].comp)
    BY <1>2, <1>3, <1>4, <1>5
  <2> QED BY <1>2, <1>5, <1>6, <1>8, <1>9, <2>1 DEF AsksAt
<1> QED BY <1>2, <1>3, <1>4, <1>5, <1>6, <1>7, <1>10

\* Asking is kept.
LEMMA AskingStep ==
  ASSUME ReadyInv, Types', Asking, NEW s \in Servers, ServerStep(s)
  PROVE  Asking'
<1>1. deployment' = deployment
  BY SameDeployment
<1> SUFFICES ASSUME NEW x \in Servers, Waiting(x)'
             PROVE  AsksAt(x)'
  BY DEF Asking, AsksAt
<1>2. CASE x = s /\ ConnectRemoteComponent(s)
  BY <1>2, AsksNow
<1>3. CASE Waiting(x) /\ stack'[x] = stack[x]
  <2>1. \A n : (IsLocal(x, n)' <=> IsLocal(x, n)) /\ (IsRemote(x, n)' <=> IsRemote(x, n))
              /\ Subset(x, n)' = Subset(x, n)
    BY <1>1 DEF IsLocal, IsRemote, Listed, Subset
  <2> QED BY <1>3, <2>1 DEF Asking, AsksAt
<1> QED BY <1>2, <1>3, WaitsOf

-----------------------------------------------------------------------------
\* Where requests and responses come from

\* A line with one more message has nothing else, ...
LEMMA AppendHas ==
  ASSUME NEW q, IsSeq(q), NEW m, NEW d, Contains(Append(q, m), d)
  PROVE  Contains(q, d) \/ d = m
BY AppendOther

\* ... and what is left of a line was in it, as its head was.
LEMMA TailHas ==
  ASSUME NEW q, IsSeq(q), q # <<>>, NEW d
  PROVE  /\ Contains(Tail(q), d) => Contains(q, d)
         /\ Contains(q, Head(q))
<1>1. Len(q) \in Nat /\ Len(q) > 0 /\ Len(Tail(q)) = Len(q) - 1 /\ Head(q) = q[1]
      /\ \A i \in 1 .. Len(q) - 1 : Tail(q)[i] = q[i + 1]
  BY TailSeq
<1>2. 1 \in 1 .. Len(q) /\ \A i \in 1 .. Len(q) - 1 : i + 1 \in 1 .. Len(q)
  BY <1>1
<1> QED BY <1>1, <1>2 DEF Contains

\* The channels N with one more message
SentOne(N, s, x, m) == [N EXCEPT ![s][x] = Append(@, m)]

\* Sending adds what is sent, ...
LEMMA SendHas ==
  ASSUME NEW N, NetType(Servers, N), NEW s \in Servers, NEW x \in Servers, NEW m,
         NEW a \in Servers, NEW b \in Servers, NEW d, Contains(SentOne(N, s, x, m)[a][b], d)
  PROVE  Contains(N[a][b], d) \/ (a = s /\ b = x /\ d = m)
<1> DEFINE M == SentOne(N, s, x, m)
<1>1. IsSeq(N[a][b])
  BY ChannelSeq
<1>2. (a = s /\ b = x => M[a][b] = Append(N[a][b], m)) /\ (~(a = s /\ b = x) => M[a][b] = N[a][b])
  BY DEF NetType, SentOne
<1> HIDE DEF M
<1>3. CASE a = s /\ b = x
  <2>1. M[a][b] = Append(N[a][b], m)
    BY <1>2, <1>3, Zenon
  <2>2. Contains(Append(N[a][b], m), d)
    BY <2>1, Zenon DEF M
  <2>3. Contains(N[a][b], d) \/ d = m
    BY <1>1, <2>2, AppendHas, Zenon
  <2> QED BY <1>3, <2>3, Zenon
<1>4. CASE ~(a = s /\ b = x)
  <2>1. M[a][b] = N[a][b]
    BY <1>2, <1>4, Zenon
  <2> QED BY <2>1, Zenon DEF M
<1> QED BY <1>3, <1>4, Zenon

\* ... and receiving adds nothing.
LEMMA TakeHas ==
  ASSUME NEW N, NetType(Servers, N), NEW r \in Servers, NEW s \in Servers, N[r][s] # <<>>,
         NEW M, M = [N EXCEPT ![r][s] = Tail(@)],
         NEW a \in Servers, NEW b \in Servers, NEW d, Contains(M[a][b], d)
  PROVE  Contains(N[a][b], d)
<1>1. IsSeq(N[a][b])
  BY ChannelSeq
<1>2. (a = r /\ b = s => M[a][b] = Tail(N[a][b])) /\ (~(a = r /\ b = s) => M[a][b] = N[a][b])
  BY DEF NetType
<1>3. N[a][b] # <<>> => (Contains(Tail(N[a][b]), d) => Contains(N[a][b], d))
  BY <1>1, TailHas
<1> QED BY <1>2, <1>3, Zenon

\* A request of x to y is under way or put aside, ...
RequestAt(N, F, x, y, m) ==
    m \in Requests /\ (Contains(N[x][y], m) \/ Contains(F[y], [msg |-> m, from |-> x]))

\* ... and a response of y to x is under way.
ResponseAt(N, y, x, m) == m \in Responses /\ Contains(N[y][x], m)

\* While one is left its process waits.
LEMMA AwaitedMessage ==
  ASSUME Types, AskedOnce, ~failed, NEW x \in Servers, NEW y \in Servers, NEW m,
         RequestAt(net, deferred, x, y, m) \/ ResponseAt(net, y, x, m)
  PROVE  Waiting(x) /\ y = Head(remote_server[x])
<1>1. /\ IsSeq(net[x][y]) /\ IsSeq(net[y][x])
      /\ IsSeq(deferred[x]) /\ IsSeq(deferred[y])
  BY ChannelsType, ChannelSeq, DeferredLines, LineSeq DEF Types
<1>2. /\ Count(net[x][y], Requests) \in Nat
      /\ Count(deferred[y], RequestsOf(x)) \in Nat
      /\ Count(net[y][x], Responses) \in Nat
      /\ Count(deferred[x], ResponsesOf(y)) \in Nat
  BY <1>1, CountNat
<1>3. RequestCount(net, deferred, x, y) # 0
  <2>1. CASE m \in Requests /\ Contains(net[x][y], m)
    <3>1. Count(net[x][y], Requests) # 0
      BY <1>1, <2>1, CountZero DEF Contains
    <3> QED BY <1>2, <3>1 DEF RequestCount
  <2>2. CASE m \in Requests /\ Contains(deferred[y], [msg |-> m, from |-> x])
    <3>1. [msg |-> m, from |-> x] \in RequestsOf(x)
      BY <2>2 DEF RequestsOf
    <3>2. Count(deferred[y], RequestsOf(x)) # 0
      BY <1>1, <2>2, <3>1, CountZero DEF Contains
    <3> QED BY <1>2, <3>2 DEF RequestCount
  <2>3. CASE ResponseAt(net, y, x, m)
    <3>1. Count(net[y][x], Responses) # 0
      BY <1>1, <2>3, CountZero DEF Contains, ResponseAt
    <3> QED BY <1>2, <3>1 DEF RequestCount
  <2> QED BY <2>1, <2>2, <2>3 DEF RequestAt
<1>4. Awaits(x, y)
  BY <1>3 DEF AskedOnce, AsksOnce, OneIf
<1> QED BY <1>4 DEF Awaits

\* No request or response is in channels M that is not in channels N
NoNew(N, M) ==
    \A a, b \in Servers, d \in Requests \cup Responses : Contains(M[a][b], d) => Contains(N[a][b], d)

\* server_t::process binds the superset that request q came for
Binds(s, q) ==
    /\ IsLocal(s, q.name) /\ q.name \in Names /\ superset[s][q.name] \in Names
    /\ id' = [id EXCEPT ![s][superset[s][q.name]] = q.superset]

\* What is received is no longer under way, and nothing else is.
LEMMA ReceivedNone ==
  ASSUME Types, NEW s \in Servers, NEW r \in Servers, net[r][s] # <<>>
  PROVE  /\ NoNew(net, Received(s, r))
         /\ Contains(net[r][s], Head(net[r][s]))
         /\ Head(net[r][s]) \in Messages /\ Received(s, r) \in Channels
<1>1. NetType(Servers, net) /\ IsSeq(net[r][s])
  BY ChannelsType, ChannelSeq DEF Types
<1>2. Received(s, r) = [net EXCEPT ![r][s] = Tail(@)]
  BY DEF Received
<1>3. Contains(net[r][s], Head(net[r][s]))
  BY <1>1, TailHas
<1>4. NoNew(net, Received(s, r))
  <2> HIDE DEF Received
  <2> QED BY <1>1, <1>2, TakeHas DEF NoNew
<1> QED BY <1>3, <1>4, ReceiveType

\* Processes that connect, and those that begin to listen, send others.
LEMMA SteadyNet ==
  ASSUME ReadyInv, NEW s \in Servers, ServerStep(s), ~ConnectRemoteComponent(s), ~Reprocess(s),
         \A r \in Servers : ~Process(s, r)
  PROVE  NoNew(net, net')
<1>1. Types
  BY DEF ReadyInv, IInv
<1>2. NetType(Servers, net)
  BY <1>1, ChannelsType DEF Types
<1>3. CASE net' = net
  BY <1>3 DEF NoNew
<1>4. CASE ConnectSend(s)
  <2> DEFINE m == ServerConnect(deployment.published[s])
             x == round[s]
  <2>1. x \in Servers /\ net' = SentOne(net, s, x, m)
    BY <1>4 DEF ConnectSend, SentOne
  <2>2. m \notin Requests \cup Responses
    BY <1>1, KindsApart
  <2> HIDE DEF m, x
  <2>3. \A a, b \in Servers : \A d : Contains(net'[a][b], d) => Contains(net[a][b], d) \/ d = m
    BY <1>2, <2>1, SendHas
  <2> QED BY <2>2, <2>3 DEF NoNew
<1>5. ASSUME NEW r \in Servers, ConnectRecv(s, r) \/ RecvResponse(s, r) \/ Reschedule(s, r)
      PROVE  NoNew(net, net')
  <2>1. net[r][s] # <<>> /\ net' = Received(s, r)
    BY <1>5 DEF ConnectRecv, RecvResponse, Reschedule
  <2> QED BY <1>1, <2>1, ReceivedNone
<1>6. CASE Listen(s)
  <2> SUFFICES ASSUME NEW x \in Servers, NEW y \in Servers, NEW d \in Requests \cup Responses,
                      Contains(net'[x][y], d)
               PROVE  Contains(net[x][y], d)
    BY DEF NoNew
  <2>1. net'[x][y] = IF x # s THEN net[x][y]
                     ELSE IF y = s THEN <<>> ELSE Append(net[x][y], ServerReady)
    BY <1>1, <1>6 DEF Listen, Types, Channels
  <2>2. IsSeq(net[x][y])
    BY <1>2, ChannelSeq
  <2>3. ServerReady # d
    BY <1>1, KindsApart
  <2>4. ~Contains(<<>>, d)
    BY DEF Contains
  <2>5. Contains(Append(net[x][y], ServerReady), d) => Contains(net[x][y], d)
    BY <2>2, <2>3, AppendOther
  <2> QED BY <2>1, <2>4, <2>5
<1>7. CASE Configure(s) \/ Create(s) \/ NextSubset(s) \/ ReturnLocally(s)
  <2>1. net' = net
    BY <1>7 DEF Configure, Create, NextSubset, ReturnLocally
  <2> QED BY <1>3, <2>1
<1>8. CASE JobStep(s)
  <2>1. PICK channels \in Channels : Took(s, channels) /\ Sent(s, channels)
    BY <1>1, <1>8, JobStepEffect DEF ReadyInv, IInv
  <2>2. NoNew(net, channels)
    BY <1>1, <2>1, ReceivedNone DEF Took, NoNew
  <2>3. NetType(Servers, channels)
    BY ChannelsType
  <2>4. ASSUME NEW r \in Servers, NEW m \in Messages, m.type \in JobTypes,
               net' = [channels EXCEPT ![s][r] = Append(@, m)]
        PROVE  NoNew(channels, net')
    <3>1. m \notin Requests \cup Responses
      BY <2>4, TypeNames DEF Requests, Responses, JobTypes
    <3>2. net' = SentOne(channels, s, r, m)
      BY <2>4 DEF SentOne
    <3>3. \A a, b \in Servers : \A d : Contains(net'[a][b], d) => Contains(channels[a][b], d) \/ d = m
      BY <2>3, <3>2, SendHas
    <3> QED BY <3>1, <3>3 DEF NoNew
  <2>5. net' = channels => NoNew(channels, net')
    BY DEF NoNew
  <2>6. NoNew(channels, net')
    BY <2>1, <2>4, <2>5 DEF Sent
  <2> QED BY <2>2, <2>6 DEF NoNew
<1> QED BY <1>4, <1>5, <1>6, <1>7, <1>8 DEF ServerStep

\* A server that processes a message sends nothing but the response to it.
LEMMA ProcessSends ==
  ASSUME Types, ~failed, NEW s \in Servers, NEW r \in Servers, NEW m \in Messages,
         NEW N \in Channels, ProcessMessage(s, r, m, N),
         NEW x \in Servers, NEW y \in Servers, NEW d \in Requests \cup Responses,
         Contains(net'[x][y], d)
  PROVE  \/ Contains(N[x][y], d)
         \/ /\ x = s /\ y = r /\ m \in Requests /\ d \in Responses
            /\ Binds(s, m) /\ d = ConnectRemoteRes(id[s][m.name])
<1>1. CASE net' = N
  BY <1>1
<1>2. ASSUME m.type = "CONNECT_REMOTE_COMP_REQ",
             m.name \in Names, Binds(s, m),
             net' = [N EXCEPT ![s][r] = Append(@, ConnectRemoteRes(id[s][m.name]))]
      PROVE  \/ Contains(N[x][y], d)
             \/ /\ x = s /\ y = r /\ m \in Requests /\ d \in Responses
                /\ d = ConnectRemoteRes(id[s][m.name])
  <2> DEFINE a == ConnectRemoteRes(id[s][m.name])
  <2>1. id[s][m.name] \in Nat
    BY <1>2 DEF Types
  <2>2. a \in Responses /\ m \in Requests
    BY <1>2, <2>1, KindsApart
  <2>3. NetType(Servers, N)
    BY ChannelsType
  <2>4. net' = SentOne(N, s, r, a)
    BY <1>2 DEF SentOne
  <2> HIDE DEF a
  <2>5. Contains(N[x][y], d) \/ (x = s /\ y = r /\ d = a)
    BY <2>3, <2>4, SendHas
  <2> QED BY <2>2, <2>5 DEF a
<1>3. \/ net' = N
      \/ /\ m.type = "CONNECT_REMOTE_COMP_REQ"
         /\ m.name \in Names /\ Binds(s, m)
         /\ net' = [N EXCEPT ![s][r] = Append(@, ConnectRemoteRes(id[s][m.name]))]
  BY ProcessCases DEF Binds
<1> QED BY <1>1, <1>2, <1>3

\* A request is sent by connect_remote_component only, ...
LEMMA RequestOrigin ==
  ASSUME ReadyInv, NEW s \in Servers, ServerStep(s), NEW x \in Servers, NEW y \in Servers, NEW m,
         RequestAt(net', deferred', x, y, m)
  PROVE  \/ RequestAt(net, deferred, x, y, m)
         \/ /\ x = s /\ ConnectRemoteComponent(s)
            /\ m = ConnectRemoteReq(id[s][stack[s][2].comp], Head(stack[s]).comp)
<1> DEFINE e == [msg |-> m, from |-> x]
<1>1. Types /\ Connected /\ PastBarrier /\ Nested /\ ~failed
  BY DEF ReadyInv, IInv, ServerStep
<1>2. m \in Requests /\ (Contains(net'[x][y], m) \/ Contains(deferred'[y], e))
  BY DEF RequestAt
<1>3. m \in Messages /\ m \notin Responses /\ IsSeq(deferred[y])
  BY <1>1, <1>2, KindsApart, DeferredLines, LineSeq DEF Requests
<1>4. ASSUME Contains(net'[x][y], m) => Contains(net[x][y], m), deferred' = deferred
      PROVE  RequestAt(net, deferred, x, y, m)
  BY <1>2, <1>4 DEF RequestAt
<1>5. ASSUME NEW r \in Servers, Process(s, r)
      PROVE  RequestAt(net, deferred, x, y, m)
  <2>1. net[r][s] # <<>> /\ deferred' = deferred
        /\ ProcessMessage(s, r, Head(net[r][s]), Received(s, r))
    BY <1>5 DEF Process
  <2>2. NoNew(net, Received(s, r)) /\ Head(net[r][s]) \in Messages /\ Received(s, r) \in Channels
    BY <1>1, <2>1, ReceivedNone
  <2>3. Contains(net'[x][y], m) => Contains(Received(s, r)[x][y], m)
    BY <1>1, <1>2, <1>3, <2>1, <2>2, ProcessSends
  <2>4. Contains(net'[x][y], m) => Contains(net[x][y], m)
    BY <1>2, <2>2, <2>3 DEF NoNew
  <2> QED BY <1>4, <2>1, <2>4
<1>6. ASSUME Reprocess(s)
      PROVE  RequestAt(net, deferred, x, y, m)
  <2> DEFINE f == Head(deferred[s])
  <2>1. deferred[s] # <<>> /\ deferred' = [deferred EXCEPT ![s] = Tail(@)]
        /\ ProcessMessage(s, f.from, f.msg, net)
    BY <1>6 DEF Reprocess
  <2>2. f.msg \in Messages /\ f.from \in Servers
    <3>1. f \in [msg : Messages, from : Servers]
      BY <1>1, <2>1, HeadTailProperties DEF Types
    <3> QED BY <3>1
  <2>3. net \in Channels
    BY <1>1 DEF Types
  <2>4. Contains(net'[x][y], m) => Contains(net[x][y], m)
    <3> HIDE DEF f
    <3> QED BY <1>1, <1>2, <1>3, <2>1, <2>2, <2>3, ProcessSends
  <2>5. Contains(deferred'[y], e) => Contains(deferred[y], e)
    <3>1. deferred'[y] = IF y = s THEN Tail(deferred[y]) ELSE deferred[y]
      BY <1>1, <2>1 DEF Types
    <3>2. deferred[y] # <<>> => (Contains(Tail(deferred[y]), e) => Contains(deferred[y], e))
      BY <1>3, TailHas
    <3> HIDE DEF e
    <3> QED BY <2>1, <3>1, <3>2
  <2> QED BY <1>2, <2>4, <2>5 DEF RequestAt
<1>7. ASSUME NEW r \in Servers, Reschedule(s, r)
      PROVE  RequestAt(net, deferred, x, y, m)
  <2> DEFINE h == [msg |-> Head(net[r][s]), from |-> r]
  <2>1. /\ net[r][s] # <<>> /\ net' = Received(s, r)
        /\ deferred' = [deferred EXCEPT ![s] = Append(@, h)]
    BY <1>7 DEF Reschedule
  <2>2. NoNew(net, Received(s, r)) /\ Contains(net[r][s], Head(net[r][s]))
    BY <1>1, <2>1, ReceivedNone
  <2>3. Contains(net'[x][y], m) => Contains(net[x][y], m)
    BY <1>2, <2>1, <2>2 DEF NoNew
  <2>4. deferred'[y] = IF y = s THEN Append(deferred[y], h) ELSE deferred[y]
    BY <1>1, <2>1 DEF Types
  <2>5. Contains(Append(deferred[y], h), e) => Contains(deferred[y], e) \/ e = h
    <3> HIDE DEF e, h
    <3> QED BY <1>3, AppendHas
  <2>6. e = h => m = Head(net[r][s]) /\ x = r
    <3>1. e.msg = m /\ e.from = x /\ h.msg = Head(net[r][s]) /\ h.from = r
      OBVIOUS
    <3> HIDE DEF e, h
    <3> QED BY <3>1
  <2>7. CASE y = s /\ e = h
    BY <1>2, <2>2, <2>6, <2>7 DEF RequestAt
  <2>8. CASE ~(y = s /\ e = h)
    <3> HIDE DEF h
    <3>1. Contains(deferred'[y], e) => Contains(deferred[y], e)
      <4> HIDE DEF e
      <4> QED BY <2>4, <2>5, <2>8
    <3> QED BY <1>2, <2>3, <3>1 DEF RequestAt
  <2> QED BY <2>7, <2>8
<1>8. CASE ConnectRemoteComponent(s)
  <2> DEFINE p == Head(remote_server[s])
             q == ConnectRemoteReq(id[s][stack[s][2].comp], Head(stack[s]).comp)
  <2>1. deferred' = deferred /\ net' = SentOne(net, s, p, q) /\ stack[s] # <<>>
    BY <1>8 DEF ConnectRemoteComponent, SentOne, Running
  <2>2. p \in Servers
    BY <1>1, <2>1, HasPeer
  <2>3. NetType(Servers, net)
    BY <1>1, ChannelsType DEF Types
  <2> HIDE DEF p, q
  <2>4. Contains(net'[x][y], m) => Contains(net[x][y], m) \/ (x = s /\ m = q)
    BY <2>1, <2>2, <2>3, SendHas
  <2>5. CASE Contains(net'[x][y], m) => Contains(net[x][y], m)
    BY <1>4, <2>1, <2>5
  <2>6. CASE x = s /\ m = q
    BY <1>8, <2>6 DEF q
  <2> QED BY <2>4, <2>5, <2>6
<1>9. ASSUME ~ConnectRemoteComponent(s), ~Reprocess(s),
             \A r \in Servers : ~Process(s, r) /\ ~Reschedule(s, r)
      PROVE  RequestAt(net, deferred, x, y, m)
  <2>1. NoNew(net, net')
    BY <1>9, SteadyNet
  <2>2. deferred' = deferred
    BY <1>1, <1>9, JobStepEffect DEF ServerStep, ConnectSend, ConnectRecv, Configure, Create, NextSubset,
         ReturnLocally, Listen, RecvResponse
  <2>3. Contains(net'[x][y], m) => Contains(net[x][y], m)
    BY <1>2, <2>1 DEF NoNew
  <2> QED BY <1>4, <2>2, <2>3
<1> QED BY <1>5, <1>6, <1>7, <1>8, <1>9

\* ... and a response by a server that listens and binds what it was asked for.
LEMMA ResponseOrigin ==
  ASSUME ReadyInv, NEW s \in Servers, ServerStep(s), NEW x \in Servers, NEW y \in Servers, NEW m,
         ResponseAt(net', y, x, m)
  PROVE  \/ ResponseAt(net, y, x, m)
         \/ /\ y = s /\ phase[s] = "listen" /\ UNCHANGED <<stack, superset, phase, remote_server>>
            /\ \E q \in Messages : /\ RequestAt(net, deferred, x, s, q) /\ Binds(s, q)
                                   /\ m = ConnectRemoteRes(id[s][q.name])
<1>1. Types /\ Connected /\ PastBarrier /\ Nested /\ ~failed
  BY DEF ReadyInv, IInv, ServerStep
<1>2. m \in Responses /\ Contains(net'[y][x], m)
  BY DEF ResponseAt
<1>3. m \in Messages /\ m \notin Requests
  BY <1>1, <1>2, KindsApart DEF Responses
<1>4. ASSUME NEW r \in Servers, Process(s, r), ~Contains(net[y][x], m)
      PROVE  /\ y = s /\ phase[s] = "listen" /\ UNCHANGED <<stack, superset, phase, remote_server>>
             /\ \E q \in Messages : /\ RequestAt(net, deferred, x, s, q) /\ Binds(s, q)
                                    /\ m = ConnectRemoteRes(id[s][q.name])
  <2> DEFINE q == Head(net[r][s])
  <2>1. net[r][s] # <<>> /\ phase[s] = "listen" /\ UNCHANGED <<stack, superset, phase, remote_server>>
        /\ ProcessMessage(s, r, q, Received(s, r))
    BY <1>4 DEF Process, Idle
  <2>2. /\ NoNew(net, Received(s, r)) /\ q \in Messages /\ Received(s, r) \in Channels
        /\ Contains(net[r][s], q)
    BY <1>1, <2>1, ReceivedNone
  <2> HIDE DEF q
  <2>3. ~Contains(Received(s, r)[y][x], m)
    BY <1>2, <1>4, <2>2 DEF NoNew
  <2>4. y = s /\ x = r /\ q \in Requests /\ Binds(s, q) /\ m = ConnectRemoteRes(id[s][q.name])
    BY <1>1, <1>2, <2>1, <2>2, <2>3, ProcessSends
  <2>5. RequestAt(net, deferred, x, s, q)
    BY <2>2, <2>4 DEF RequestAt
  <2> QED BY <2>1, <2>2, <2>4, <2>5
<1>5. ASSUME Reprocess(s), ~Contains(net[y][x], m)
      PROVE  /\ y = s /\ phase[s] = "listen" /\ UNCHANGED <<stack, superset, phase, remote_server>>
             /\ \E q \in Messages : /\ RequestAt(net, deferred, x, s, q) /\ Binds(s, q)
                                    /\ m = ConnectRemoteRes(id[s][q.name])
  <2> DEFINE f == Head(deferred[s])
             q == f.msg
             r == f.from
  <2>1. deferred[s] # <<>> /\ phase[s] = "listen" /\ UNCHANGED <<stack, superset, phase, remote_server>>
        /\ ProcessMessage(s, r, q, net)
    BY <1>5 DEF Reprocess, Idle
  <2>2. q \in Messages /\ r \in Servers /\ f = [msg |-> q, from |-> r]
    <3>1. f \in [msg : Messages, from : Servers]
      BY <1>1, <2>1, HeadTailProperties DEF Types
    <3> QED BY <3>1
  <2>3. net \in Channels /\ Contains(deferred[s], f)
    <3>1. IsSeq(deferred[s])
      BY <1>1, DeferredLines, LineSeq
    <3> QED BY <1>1, <2>1, <3>1, TailHas DEF Types
  <2> HIDE DEF f, q, r
  <2>4. y = s /\ x = r /\ q \in Requests /\ Binds(s, q) /\ m = ConnectRemoteRes(id[s][q.name])
    BY <1>1, <1>2, <1>5, <2>1, <2>2, <2>3, ProcessSends
  <2>5. RequestAt(net, deferred, x, s, q)
    BY <2>2, <2>3, <2>4 DEF RequestAt
  <2> QED BY <2>1, <2>2, <2>4, <2>5
<1>6. CASE ConnectRemoteComponent(s)
  <2> DEFINE p == Head(remote_server[s])
             n == Head(stack[s]).comp
             i == id[s][stack[s][2].comp]
             q == ConnectRemoteReq(i, n)
  <2>1. net' = SentOne(net, s, p, q) /\ Running(s) /\ Len(stack[s]) > 1 /\ stack[s][2].comp # Top
    BY <1>6 DEF ConnectRemoteComponent, SentOne
  <2>2. p \in Servers
    BY <1>1, <2>1, HasPeer, RunningTop
  <2>3. NetType(Servers, net)
    BY <1>1, ChannelsType DEF Types
  <2>4. i \in Nat /\ n \in Names
    <3>1. n \in Names /\ stack[s][2] \in Calls
      BY <1>1, <2>1, RunningTop
    <3>2. stack[s][2].comp \in Names
      BY <2>1, <3>1 DEF Calls
    <3>3. id[s][stack[s][2].comp] \in Nat
      BY <1>1, <3>2 DEF Types
    <3> QED BY <3>1, <3>3
  <2>5. q \notin Responses
    BY <1>1, <2>4, KindsApart
  <2> HIDE DEF p, q
  <2>6. Contains(net[y][x], m)
    BY <1>2, <2>1, <2>2, <2>3, <2>5, SendHas
  <2> QED BY <1>2, <2>6 DEF ResponseAt
<1>7. ASSUME ~ConnectRemoteComponent(s), ~Reprocess(s), \A r \in Servers : ~Process(s, r)
      PROVE  ResponseAt(net, y, x, m)
  <2>1. NoNew(net, net')
    BY <1>7, SteadyNet
  <2> QED BY <1>2, <2>1 DEF NoNew, ResponseAt
<1>8. Contains(net[y][x], m) => ResponseAt(net, y, x, m)
  BY <1>2 DEF ResponseAt
<1> QED BY <1>4, <1>5, <1>6, <1>7, <1>8

-----------------------------------------------------------------------------
\* What both ends know

\* The server that s asks: the first of its list
Peer(s) == Head(remote_server[s])

\* Process x has p, process y listens, has n below its placeholder of p, and
\* knows the ID that x gave p
Known(x, y, n, p) ==
    /\ phase[y] = "listen"
    /\ IsLocal(y, n) /\ superset[y][n] = p
    /\ id[y][n] # Invalid
    /\ id[y][p] = id[x][p]

\* A remote subset that is linked to a local component is bound at both ends.
BoundAt(s, n) ==
    IsRemote(s, n) /\ superset[s][n] # NoComp /\ IsLocal(s, superset[s][n]) =>
        /\ Peer(s) \in Servers \ {s}
        /\ Known(s, Peer(s), n, superset[s][n])
        /\ id[s][n] = id[Peer(s)][n]

\* All of them are, in every process.
Bound == \A s \in Servers : \A n \in Names : BoundAt(s, n)

\* A request is for what its process waits for, ...
FitsRequest(x, m) ==
    /\ Waiting(x)
    /\ m.name = stack[x][1].comp
    /\ m.superset = id[x][stack[x][2].comp]

\* ... and a response is from who knows both ends.
FitsResponse(x, y, m) ==
    /\ Waiting(x) /\ y = Peer(x)
    /\ Known(x, y, stack[x][1].comp, stack[x][2].comp)
    /\ m.id = id[y][stack[x][1].comp]

\* Every request fits, ...
Carries ==
    failed \/ \A x, y \in Servers : \A m \in Messages :
        RequestAt(net, deferred, x, y, m) => FitsRequest(x, m)

\* ... and so does every response.
Answers ==
    failed \/ \A x, y \in Servers : \A m \in Messages :
        ResponseAt(net, y, x, m) => FitsResponse(x, y, m)

\* After the barrier the list of servers is complete, and it stays.
LEMMA PeerStays ==
  ASSUME ReadyInv, NEW s \in Servers, ServerStep(s), NEW x \in Servers, phase[x] # "connect"
  PROVE  /\ remote_server' = remote_server
         /\ Peer(x) \in Servers \ {x}
         /\ Len(remote_server[x]) = NumRanks - 1
<1>1. Types /\ Connected /\ PastBarrier /\ Nested
  BY DEF ReadyInv, IInv
<1>2. \A r \in Servers : round[r] = NumRanks
  BY <1>1 DEF PastBarrier
<1>3. round[s] \notin Servers /\ s # NumRanks
  BY <1>2, RanksAssumption DEF Servers
<1>4. remote_server' = remote_server
  BY <1>1, <1>2, <1>3, AfterBarrier DEF ConnectSend, ConnectRecv
<1>5. Len(remote_server[x]) = NumRanks - 1
  BY <1>1, <1>2, RanksAssumption DEF Connected, Servers
<1>6. Peer(x) = remote_server[x][1] /\ 1 \in 1 .. Len(remote_server[x])
  BY <1>1, <1>5, RanksAssumption DEF Types, Peer
<1>7. remote_server[x][1] \in Servers
  BY <1>1, <1>6, ElementOfSeq DEF Types
<1>8. remote_server[x][1] # x
  BY <1>1, <1>6 DEF Connected
<1> QED BY <1>4, <1>5, <1>6, <1>7, <1>8

\* A server that listens makes no calls: it neither creates nor links components.
LEMMA ListeningStays ==
  ASSUME ReadyInv, NEW s \in Servers, ServerStep(s), NEW y \in Servers, phase[y] = "listen"
  PROVE  /\ stack[y] = <<>> /\ ~Waiting(y)
         /\ phase'[y] = "listen" /\ superset'[y] = superset[y]
         /\ \A n \in Names : IsLocal(y, n) => id'[y][n] = id[y][n]
<1>1. Types /\ PastBarrier /\ Nested /\ Asked /\ InCalls
  BY DEF ReadyInv, IInv
<1>2. stack[y] = <<>> /\ ~Waiting(y) /\ ~Running(y)
  BY <1>1 DEF InCalls, CallingAt, Waiting, Running
<1>3. CASE y # s
  BY <1>1, <1>2, <1>3, OwnState
<1>4. CASE y = s
  <2>1. ~Create(s) /\ ~NextSubset(s) /\ ~ReturnLocally(s) /\ ~ConnectRemoteComponent(s) /\ ~Listen(s)
        /\ \A r \in Servers : ~RecvResponse(s, r)
    BY <1>2, <1>4 DEF Create, NextSubset, ReturnLocally, ConnectRemoteComponent, Listen,
         RecvResponse
  <2>2. phase' = phase /\ superset' = superset
    BY <1>1, <1>4, <2>1, JobStepEffect DEF ServerStep, ConnectSend, ConnectRecv, Configure,
         Reschedule, Process, Reprocess, tree
  <2>3. \A n \in Names : IsLocal(s, n) => id'[s][n] = id[s][n]
    BY <1>1, <2>1, SameLocalIds
  <2> QED BY <1>2, <1>4, <2>2, <2>3
<1> QED BY <1>3, <1>4

\* Who waits waits for a remote subset of a local component.
LEMMA WaitsBelow ==
  ASSUME ReadyInv, AllPlaced, Asking, NEW x \in Servers, Waiting(x)
  PROVE  /\ Len(stack[x]) > 1
         /\ stack[x][1].comp \in Names /\ IsRemote(x, stack[x][1].comp)
         /\ stack[x][2].comp \in Names /\ IsLocal(x, stack[x][2].comp)
         /\ stack[x][1].comp \in Below(deployment, x, stack[x][2].comp)
         /\ superset[x][stack[x][1].comp] = NoComp
         /\ phase[x] = "configure"
<1>1. Len(stack[x]) > 1
  BY DEF Asking, AsksAt
<1>2. stack[x][1].comp \in Names /\ stack[x][1].comp \in Below(deployment, x, stack[x][2].comp)
      /\ superset[x][stack[x][1].comp] = NoComp
  BY <1>1, TopUnlinked DEF AllPlaced
<1>3. phase[x] = "configure"
  BY DEF Waiting, ReadyInv, InCalls, CallingAt
<1> QED BY <1>1, <1>2, <1>3 DEF Asking, AsksAt

\* A request is for what its process waits for, and what the server binds with
\* it is the component of that process.
LEMMA BindsAsker ==
  ASSUME ReadyInv, AllPlaced, Asking, Carries, ~failed, NEW s \in Servers, NEW x \in Servers,
         NEW q \in Messages, RequestAt(net, deferred, x, s, q), Binds(s, q)
  PROVE  /\ Waiting(x)
         /\ q.name = stack[x][1].comp
         /\ superset[s][q.name] = stack[x][2].comp
         /\ q.superset = id[x][stack[x][2].comp]
         /\ x # s
<1>1. FitsRequest(x, q)
  BY DEF Carries
<1>2. Waiting(x) /\ q.name = stack[x][1].comp /\ q.superset = id[x][stack[x][2].comp]
  BY <1>1 DEF FitsRequest
<1>3. /\ q.name \in Below(deployment, x, stack[x][2].comp) /\ stack[x][2].comp \in Names
      /\ IsRemote(x, q.name)
  BY <1>2, WaitsBelow
<1>4. q.name \in Names /\ superset[s][q.name] \in Names /\ superset[s][q.name] # NoComp /\ IsLocal(s, q.name)
  BY NamesAssumption DEF Binds
<1>5. q.name \in Below(deployment, s, superset[s][q.name])
  BY <1>4 DEF ReadyInv, IInv, Nested, NestedAt
<1>6. Types
  BY DEF ReadyInv, IInv
<1>7. superset[s][q.name] = stack[x][2].comp
  BY <1>3, <1>4, <1>5, <1>6, OnePlace
<1> QED BY <1>2, <1>3, <1>4, <1>7 DEF IsLocal

\* The IDs that a step of s changes
LEMMA IdOrigin ==
  ASSUME ReadyInv, NEW s \in Servers, ServerStep(s)
  PROVE  \/ id' = id
         \/ Create(s) \/ \E r \in Servers : RecvResponse(s, r)
         \/ /\ phase[s] = "listen"
            /\ \E x \in Servers, q \in Messages : RequestAt(net, deferred, x, s, q) /\ Binds(s, q)
<1>1. Types /\ Nested /\ ~failed
  BY DEF ReadyInv, IInv, ServerStep
<1>2. ASSUME NEW r \in Servers, NEW q \in Messages, NEW N, ProcessMessage(s, r, q, N)
      PROVE  id' = id \/ (q \in Requests /\ Binds(s, q))
  BY <1>1, <1>2, ProcessCases, KindsApart DEF Binds
<1>3. ASSUME NEW r \in Servers, Process(s, r), id' # id
      PROVE  /\ phase[s] = "listen"
             /\ \E x \in Servers, q \in Messages : RequestAt(net, deferred, x, s, q) /\ Binds(s, q)
  <2> DEFINE q == Head(net[r][s])
  <2>1. net[r][s] # <<>> /\ phase[s] = "listen" /\ ProcessMessage(s, r, q, Received(s, r))
    BY <1>3 DEF Process, Idle
  <2>2. q \in Messages /\ Contains(net[r][s], q)
    BY <1>1, <2>1, ReceivedNone
  <2> HIDE DEF q
  <2>3. q \in Requests /\ Binds(s, q)
    BY <1>2, <1>3, <2>1, <2>2
  <2> QED BY <2>1, <2>2, <2>3 DEF RequestAt
<1>4. ASSUME Reprocess(s), id' # id
      PROVE  /\ phase[s] = "listen"
             /\ \E x \in Servers, q \in Messages : RequestAt(net, deferred, x, s, q) /\ Binds(s, q)
  <2> DEFINE f == Head(deferred[s])
             q == f.msg
             r == f.from
  <2>1. deferred[s] # <<>> /\ phase[s] = "listen" /\ ProcessMessage(s, r, q, net)
    BY <1>4 DEF Reprocess, Idle
  <2>2. q \in Messages /\ r \in Servers /\ f = [msg |-> q, from |-> r]
    <3>1. f \in [msg : Messages, from : Servers]
      BY <1>1, <2>1, HeadTailProperties DEF Types
    <3> QED BY <3>1
  <2>3. Contains(deferred[s], f)
    <3>1. IsSeq(deferred[s])
      BY <1>1, DeferredLines, LineSeq
    <3> QED BY <2>1, <3>1, TailHas
  <2> HIDE DEF f, q, r
  <2>4. q \in Requests /\ Binds(s, q)
    BY <1>2, <1>4, <2>1, <2>2
  <2>5. RequestAt(net, deferred, r, s, q)
    BY <2>2, <2>3, <2>4 DEF RequestAt
  <2> QED BY <2>1, <2>2, <2>4, <2>5
<1>5. CASE \/ ConnectSend(s) \/ Configure(s) \/ NextSubset(s) \/ ReturnLocally(s)
           \/ ConnectRemoteComponent(s) \/ Listen(s)
           \/ \E r \in Servers : ConnectRecv(s, r) \/ Reschedule(s, r)
  BY <1>5 DEF ConnectSend, ConnectRecv, Configure, NextSubset,
      ReturnLocally, ConnectRemoteComponent, Listen, Reschedule, tree
<1>6. JobStep(s) => id' = id
  BY <1>1, JobStepEffect
<1> QED BY <1>3, <1>4, <1>5, <1>6 DEF ServerStep

\* What is local and what is remote depends on the configurations only.
LEMMA SameKinds ==
  ASSUME deployment' = deployment
  PROVE  \A x, n : (IsLocal(x, n)' <=> IsLocal(x, n)) /\ (IsRemote(x, n)' <=> IsRemote(x, n))
BY DEF IsLocal, IsRemote, Listed

\* A listening server keeps the ID that the owner of a component gave it: only
\* its owner asks for a binding.
LEMMA KnownKept ==
  ASSUME ReadyInv, AllPlaced, Asking, Carries, NEW s \in Servers, ServerStep(s),
         NEW x \in Servers, NEW y \in Servers, x # y, NEW n \in Names, NEW p \in Names,
         Known(x, y, n, p), IsLocal(x, p), id'[x][p] = id[x][p]
  PROVE  Known(x, y, n, p)' /\ id'[y][n] = id[y][n]
<1>1. Types /\ Nested /\ ~failed /\ deployment' = deployment
  BY SameDeployment DEF ReadyInv, IInv, ServerStep
<1>2. /\ phase[y] = "listen" /\ IsLocal(y, n) /\ superset[y][n] = p
      /\ id[y][n] # Invalid /\ id[y][p] = id[x][p]
  BY DEF Known
<1>3. /\ ~Waiting(y) /\ stack[y] = <<>>
      /\ phase'[y] = "listen" /\ superset'[y] = superset[y] /\ id'[y][n] = id[y][n]
  BY <1>2, ListeningStays
<1>4. id'[y][p] = id[y][p] \/ id'[y][p] = id[x][p]
  <2>1. CASE y # s
    BY <1>1, <2>1, OwnState
  <2>2. CASE id' = id
    BY <2>2
  <2>3. ASSUME NEW z \in Servers, NEW q \in Messages, RequestAt(net, deferred, z, s, q), Binds(s, q),
               y = s
        PROVE  id'[y][p] = id[y][p] \/ id'[y][p] = id[x][p]
    <3>1. Waiting(z) /\ superset[s][q.name] = stack[z][2].comp /\ q.superset = id[z][stack[z][2].comp]
      BY <1>1, <2>3, BindsAsker
    <3>2. id' = [id EXCEPT ![s][superset[s][q.name]] = q.superset] /\ superset[s][q.name] \in Names
      BY <2>3 DEF Binds
    <3>3. CASE superset[s][q.name] = p
      <4>1. IsLocal(z, p)
        BY <3>1, <3>3, WaitsBelow
      <4>2. z = x
        BY <1>1, <4>1, OneOwner
      <4>3. id'[s][p] = q.superset
        BY <1>1, <3>2, <3>3 DEF Types
      <4> QED BY <2>3, <3>1, <3>3, <4>2, <4>3
    <3>4. CASE superset[s][q.name] # p
      BY <1>1, <2>3, <3>2, <3>4 DEF Types
    <3> QED BY <3>3, <3>4
  <2>4. y = s => ~Create(s) /\ \A r \in Servers : ~RecvResponse(s, r)
    BY <1>3 DEF Create, Running, RecvResponse
  <2> QED BY <2>1, <2>2, <2>3, <2>4, IdOrigin
<1>5. IsLocal(y, n)'
  BY <1>1, <1>2, SameKinds
<1> QED BY <1>2, <1>3, <1>4, <1>5 DEF Known

\* A local component keeps its ID while its process waits.
LEMMA WaitingKeeps ==
  ASSUME ReadyInv, NEW s \in Servers, ServerStep(s), NEW x \in Servers, Waiting(x),
         NEW p \in Names, IsLocal(x, p)
  PROVE  id'[x][p] = id[x][p]
<1>1. Types /\ PastBarrier /\ Nested /\ Asked
  BY DEF ReadyInv, IInv
<1>2. CASE x # s
  BY <1>1, <1>2, OwnState
<1>3. CASE x = s
  <2>1. ~Create(s)
    BY <1>3 DEF Create, Running, Waiting
  <2> QED BY <1>1, <1>3, <2>1, SameLocalIds
<1> QED BY <1>2, <1>3

\* So what was asked stays what its process waits for.
LEMMA FitsStays ==
  ASSUME ReadyInv, AllPlaced, Asking, NEW s \in Servers, ServerStep(s), NEW x \in Servers,
         NEW m, FitsRequest(x, m), Waiting(x)', stack'[x] = stack[x]
  PROVE  FitsRequest(x, m)'
<1>1. stack[x][2].comp \in Names /\ IsLocal(x, stack[x][2].comp) /\ Waiting(x)
  BY WaitsBelow DEF FitsRequest
<1>2. id'[x][stack[x][2].comp] = id[x][stack[x][2].comp]
  BY <1>1, WaitingKeeps
<1> QED BY <1>2 DEF FitsRequest

\* Carries is kept: connect_remote_component asks for what its process then
\* waits for.
LEMMA CarriesStep ==
  ASSUME ReadyInv, ReadyInv', AllPlaced, Asking, AskedOnce', Carries, NEW s \in Servers, ServerStep(s)
  PROVE  Carries'
<1>1. Types /\ Types' /\ ~failed
  BY DEF ReadyInv, IInv, ServerStep
<1> SUFFICES ASSUME ~failed', NEW x \in Servers, NEW y \in Servers, NEW m \in Messages',
                    RequestAt(net, deferred, x, y, m)'
             PROVE  FitsRequest(x, m)'
  BY DEF Carries
<1>2. m \in Messages
  BY DEF Messages
<1>3. RequestAt(net', deferred', x, y, m)
  BY DEF RequestAt, Requests, Messages
<1>4. Waiting(x)'
  <2>1. (Types /\ AskedOnce /\ ~failed /\ RequestAt(net, deferred, x, y, m) => Waiting(x))'
    BY AwaitedMessage, PTL
  <2> QED BY <1>1, <2>1
<1>5. CASE Waiting(x) /\ stack'[x] = stack[x]
  <2>1. ~(x = s /\ ConnectRemoteComponent(s))
    BY <1>5, AsksNow
  <2>2. RequestAt(net, deferred, x, y, m)
    BY <1>3, <2>1, RequestOrigin
  <2>3. FitsRequest(x, m)
    BY <1>1, <1>2, <2>2 DEF Carries
  <2> QED BY <1>4, <1>5, <2>3, FitsStays
<1>6. CASE x = s /\ ConnectRemoteComponent(s)
  <2>1. /\ Waiting(s)' /\ ~Waiting(s) /\ Len(stack[s]) > 1 /\ Head(stack[s]) = stack[s][1]
        /\ stack'[s][1].comp = stack[s][1].comp /\ stack'[s][2].comp = stack[s][2].comp
    BY <1>6, AsksNow
  <2>2. ~RequestAt(net, deferred, x, y, m)
    BY <1>1, <1>2, <1>6, <2>1 DEF Carries, FitsRequest
  <2>3. m = ConnectRemoteReq(id[s][stack[s][2].comp], Head(stack[s]).comp)
    BY <1>3, <2>2, RequestOrigin
  <2>4. id' = id
    BY <1>6 DEF ConnectRemoteComponent, tree
  <2> QED BY <1>6, <2>1, <2>3, <2>4 DEF FitsRequest, ConnectRemoteReq
<1> QED BY <1>1, <1>4, <1>5, <1>6, WaitsOf

\* What was answered stays what its process waits for.
LEMMA AnswerStays ==
  ASSUME ReadyInv, AllPlaced, Asking, Carries, NEW s \in Servers, ServerStep(s),
         NEW x \in Servers, NEW y \in Servers, NEW m, FitsResponse(x, y, m),
         Waiting(x)', stack'[x] = stack[x]
  PROVE  FitsResponse(x, y, m)'
<1> PICK n \in Names, p \in Names : n = stack[x][1].comp /\ p = stack[x][2].comp
  BY WaitsBelow DEF FitsResponse
<1>1. Waiting(x) /\ y = Peer(x) /\ Known(x, y, n, p) /\ m.id = id[y][n]
  BY DEF FitsResponse
<1>2. IsLocal(x, p) /\ phase[x] = "configure"
  BY <1>1, WaitsBelow
<1>3. remote_server' = remote_server /\ y # x
  BY <1>1, <1>2, PeerStays
<1>4. id'[x][p] = id[x][p]
  BY <1>1, <1>2, WaitingKeeps
<1>5. Known(x, y, n, p)' /\ id'[y][n] = id[y][n]
  BY <1>1, <1>2, <1>3, <1>4, KnownKept
<1>6. y = Peer(x)'
  BY <1>1, <1>3 DEF Peer
<1>7. stack'[x][1].comp = n /\ stack'[x][2].comp = p
  OBVIOUS
<1> HIDE DEF Known, Peer, Waiting
<1> QED BY <1>1, <1>5, <1>6, <1>7 DEF FitsResponse, Known

\* Answers is kept: who binds the superset that a request tells it of answers
\* with the ID of its own component.
LEMMA AnswersStep ==
  ASSUME ReadyInv, ReadyInv', AllPlaced, Asking, AskedOnce', Carries, Answers,
         NEW s \in Servers, ServerStep(s)
  PROVE  Answers'
<1>1. Types /\ Types' /\ ~failed /\ PastBarrier /\ Nested /\ InCalls
  BY DEF ReadyInv, IInv, ServerStep
<1> SUFFICES ASSUME ~failed', NEW x \in Servers, NEW y \in Servers, NEW m \in Messages',
                    ResponseAt(net, y, x, m)'
             PROVE  FitsResponse(x, y, m)'
  BY DEF Answers
<1>2. m \in Messages
  BY DEF Messages
<1>3. ResponseAt(net', y, x, m)
  BY DEF ResponseAt, Responses, Messages
<1>4. Waiting(x)' /\ y = Peer(x)'
  <2>1. (Types /\ AskedOnce /\ ~failed /\ ResponseAt(net, y, x, m)
           => Waiting(x) /\ y = Head(remote_server[x]))'
    BY AwaitedMessage, PTL
  <2> QED BY <1>1, <2>1 DEF Peer
<1>5. CASE Waiting(x) /\ stack'[x] = stack[x]
  <2>1. CASE ResponseAt(net, y, x, m)
    <3>1. FitsResponse(x, y, m)
      BY <1>1, <1>2, <2>1 DEF Answers
    <3> QED BY <1>4, <1>5, <3>1, AnswerStays
  <2>2. CASE ~ResponseAt(net, y, x, m)
    <3>1. y = s /\ phase[s] = "listen" /\ remote_server' = remote_server
      BY <1>3, <2>2, ResponseOrigin
    <3>2. PICK q \in Messages : /\ RequestAt(net, deferred, x, s, q) /\ Binds(s, q)
                                /\ m = ConnectRemoteRes(id[s][q.name])
      BY <1>3, <2>2, ResponseOrigin
    <3>3. PICK n \in Names, p \in Names : n = stack[x][1].comp /\ p = stack[x][2].comp
      BY <1>5, WaitsBelow
    <3>4. q.name = n /\ superset[s][n] = p /\ q.superset = id[x][p] /\ x # s
      BY <1>1, <3>2, <3>3, BindsAsker
    <3>5. IsLocal(s, n) /\ id'[s][p] = id[x][p]
      BY <1>1, <3>2, <3>4 DEF Binds, Types
    <3>6. id'[x][p] = id[x][p]
      BY <1>1, <3>4, OwnState
    <3>7. /\ phase'[s] = "listen" /\ superset'[s] = superset[s] /\ id'[s][n] = id[s][n]
      BY <3>1, <3>5, ListeningStays
    <3>8. id[s][n] # Invalid
      BY <3>1, <3>5, ListeningLinked DEF AllPlaced
    <3>9. IsLocal(s, n)'
      BY <1>1, <3>5, SameKinds, SameDeployment
    <3>10. Known(x, s, n, p)'
      BY <3>4, <3>5, <3>6, <3>7, <3>8, <3>9 DEF Known
    <3>11. m.id = id'[s][n]
      BY <3>2, <3>4, <3>7 DEF ConnectRemoteRes
    <3>12. stack'[x][1].comp = n /\ stack'[x][2].comp = p
      BY <1>5, <3>3
    <3> QED BY <1>4, <3>1, <3>10, <3>11, <3>12 DEF FitsResponse, Known
  <2> QED BY <2>1, <2>2
<1>6. CASE x = s /\ ConnectRemoteComponent(s)
  <2>1. ~Waiting(s) /\ phase[s] # "listen"
    BY <1>1, <1>6, AsksNow DEF InCalls, CallingAt, ConnectRemoteComponent, Running
  <2>2. ~ResponseAt(net, y, s, m)
    BY <1>1, <1>2, <2>1 DEF Answers, FitsResponse
  <2>3. phase[s] = "listen"
    BY <1>3, <1>6, <2>2, ResponseOrigin
  <2> QED BY <2>1, <2>3
<1> QED BY <1>1, <1>4, <1>5, <1>6, WaitsOf

\* Nothing but the answer that its process waited for gives a remote component
\* that is linked below a local one its ID, and both keep theirs.
LEMMA BoundKept ==
  ASSUME ReadyInv, AllPlaced, Asking, Carries, Bound, NEW s \in Servers, ServerStep(s),
         NEW x \in Servers, NEW n \in Names, NEW p \in Names,
         IsRemote(x, n), superset[x][n] = p, IsLocal(x, p)
  PROVE  id'[x][p] = id[x][p] /\ id'[x][n] = id[x][n]
<1>1. Types /\ ~failed /\ PastBarrier /\ Nested /\ Asked
  BY DEF ReadyInv, IInv, ServerStep
<1>2. superset[x][n] # NoComp /\ n # p
  BY NamesAssumption DEF IsLocal
<1>3. CASE x # s
  BY <1>1, <1>3, OwnState
<1>4. CASE x = s /\ Create(s)
  <2> DEFINE c == Head(stack[s]).comp
  <2>1. stack[s] # <<>> /\ Head(stack[s]) = stack[s][1] /\ stack[s][1].child = 0
    BY <1>1, <1>4, RunningTop DEF Create
  <2>2. c # p
    BY <1>2, <1>4, <2>1, UncreatedAlone DEF AllPlaced
  <2>3. c # n \/ id' = id
    BY <1>4 DEF Create
  <2>4. id' = id \/ \E v : id' = [id EXCEPT ![s][c] = v]
    BY <1>4 DEF Create, GetNewCompId
  <2> HIDE DEF c
  <2> QED BY <1>1, <1>4, <2>2, <2>3, <2>4 DEF Types
<1>5. CASE x = s /\ ~Create(s)
  <2>1. id'[x][p] = id[x][p]
    BY <1>1, <1>5, SameLocalIds
  <2>2. ASSUME NEW r \in Servers, RecvResponse(s, r)
        PROVE  id'[x][n] = id[x][n]
    <3> DEFINE c == Head(stack[s]).comp
    <3>1. Waiting(s) /\ Head(stack[s]) = stack[s][1]
      BY <1>1, <2>2, WaitingTop DEF RecvResponse
    <3>2. c # n
      BY <1>2, <1>5, <3>1, WaitsBelow
    <3>3. \E v : id' = [id EXCEPT ![s][c] = v]
      BY <2>2 DEF RecvResponse
    <3> HIDE DEF c
    <3> QED BY <1>1, <1>5, <3>2, <3>3 DEF Types
  <2>3. ASSUME NEW z \in Servers, NEW q \in Messages, RequestAt(net, deferred, z, s, q), Binds(s, q)
        PROVE  id'[x][n] = id[x][n]
    <3>1. Waiting(z) /\ superset[s][q.name] = stack[z][2].comp
      BY <1>1, <2>3, BindsAsker
    <3>2. IsLocal(z, superset[s][q.name]) /\ phase[z] = "configure"
      BY <3>1, WaitsBelow
    <3>3. /\ Peer(s) \in Servers /\ phase[Peer(s)] = "listen" /\ IsLocal(Peer(s), n)
      BY <1>2, <1>5 DEF Bound, BoundAt, Known
    <3>4. superset[s][q.name] # n
      BY <1>1, <3>2, <3>3, OneOwner
    <3> DEFINE c == superset[s][q.name]
    <3>5. \E v : id' = [id EXCEPT ![s][c] = v]
      BY <2>3 DEF Binds
    <3>6. c # n
      BY <3>4
    <3>7. id \in [Servers -> [Names -> Nat]]
      BY <1>1, FunctionTypes
    <3> HIDE DEF c
    <3> QED BY <1>1, <1>5, <3>5, <3>6, <3>7
  <2> QED BY <1>5, <2>1, <2>2, <2>3, IdOrigin
<1> QED BY <1>3, <1>4, <1>5

\* Bound is kept: a remote subset of a local component is linked when its
\* process is told its ID, and that is who asked for it.
LEMMA BoundStep ==
  ASSUME ReadyInv, ReadyInv', AllPlaced, Asking, Carries, Answers, Bound,
         NEW s \in Servers, ServerStep(s)
  PROVE  Bound'
<1>1. Types /\ Types' /\ ~failed /\ PastBarrier /\ Nested
  BY DEF ReadyInv, IInv, ServerStep
<1>2. deployment' = deployment
  BY SameDeployment
<1> SUFFICES ASSUME NEW x \in Servers, NEW n \in Names, IsRemote(x, n)',
                    superset'[x][n] # NoComp, IsLocal(x, superset[x][n])'
             PROVE  BoundAt(x, n)'
  BY DEF Bound, BoundAt
<1>3. PICK p \in Names : p = superset'[x][n]
  BY <1>1 DEF Types
<1>4. IsRemote(x, n) /\ IsLocal(x, p)
  <2>1. IsLocal(x, p)'
    BY <1>3 DEF IsLocal, IsRemote, Listed
  <2> QED BY <1>2, <2>1, SameKinds

<1>5. ASSUME NEW y \in Servers, y # x, y = Peer(x)', Known(x, y, n, p)', id'[x][n] = id'[y][n]
      PROVE  BoundAt(x, n)'
  BY <1>3, <1>5 DEF BoundAt, Known
<1>6. CASE superset[x][n] = p
  <2>1. superset[x][n] # NoComp
    BY <1>6, NamesAssumption
  <2>2. phase[x] # "connect"
    BY <2>1, UnlinkedFirst DEF AllPlaced
  <2>3. PICK y \in Servers : y # x /\ y = Peer(x) /\ remote_server' = remote_server
    BY <2>2, PeerStays
  <2>4. Known(x, y, n, p) /\ id[x][n] = id[y][n]
    BY <1>4, <1>6, <2>1, <2>3 DEF Bound, BoundAt
  <2>5. id'[x][p] = id[x][p] /\ id'[x][n] = id[x][n]
    BY <1>4, <1>6, BoundKept
  <2>6. Known(x, y, n, p)' /\ id'[y][n] = id[y][n]
    BY <1>4, <2>3, <2>4, <2>5, KnownKept
  <2>7. y = Peer(x)'
    BY <2>3 DEF Peer
  <2> QED BY <1>5, <2>3, <2>4, <2>5, <2>6, <2>7
<1>7. CASE superset[x][n] # p
  <2>1. x = s /\ superset' # superset
    BY <1>1, <1>3, <1>7, OwnState
  <2>2. ASSUME AddSubset(s)
        PROVE  n = Head(stack[s]).comp /\ p = stack[s][2].comp
    BY <1>1, <1>3, <1>7, <2>1, <2>2 DEF AddSubset, Types
  <2>3. ~ReturnLocally(s)
    BY <1>4, <2>1, <2>2, NamesAssumption DEF ReturnLocally, IsLocal
  <2>4. \E r \in Servers : RecvResponse(s, r)
    BY <1>1, <2>1, <2>3, JobStepEffect DEF ServerStep, ConnectSend, ConnectRecv, Configure, Create,
       NextSubset, ConnectRemoteComponent, Listen, Reschedule, Process, Reprocess, tree
  <2>5. PICK r \in Servers : RecvResponse(s, r)
    BY <2>4
  <2> DEFINE m == Head(net[r][s])
  <2>6. /\ Waiting(s) /\ net[r][s] # <<>> /\ m.type = "CONNECT_REMOTE_COMP_RES" /\ AddSubset(s)
        /\ id' = [id EXCEPT ![s][Head(stack[s]).comp] = m.id]
        /\ phase' = phase /\ remote_server' = remote_server
    BY <2>5 DEF RecvResponse
  <2>7. m \in Messages /\ ResponseAt(net, r, s, m)
    BY <1>1, <2>6, ReceivedNone, KindsApart DEF ResponseAt
  <2> HIDE DEF m
  <2>8. FitsResponse(s, r, m)
    BY <1>1, <2>7 DEF Answers
  <2>9. n = stack[s][1].comp /\ p = stack[s][2].comp /\ Head(stack[s]).comp = n
    BY <1>1, <2>2, <2>6, WaitingTop
  <2>10. r = Peer(s) /\ Known(s, r, n, p) /\ m.id = id[r][n]
    BY <2>8, <2>9 DEF FitsResponse
  <2>11. r # s
    BY <2>6, <2>10, WaitsBelow, PeerStays
  <2>12. superset'[r] = superset[r] /\ id'[r] = id[r] /\ id'[s][n] = m.id /\ r = Peer(s)'
    <3>1. superset'[r] = superset[r] /\ id'[r] = id[r]
      BY <1>1, <2>11, OwnState
    <3>2. id \in [Servers -> [Names -> Nat]]
      BY <1>1, FunctionTypes
    <3>3. id'[s][n] = m.id
      BY <1>1, <2>6, <2>9, <3>2
    <3>4. r = Peer(s)'
      BY <2>6, <2>10 DEF Peer
    <3> QED BY <3>1, <3>3, <3>4
  <2>13. id'[s][p] = id[s][p]
    BY <1>4, <2>1, <2>6, WaitingKeeps
  <2>14. IsLocal(r, n)'
    BY <1>2, <2>10, SameKinds DEF Known
  <2>15. Known(s, r, n, p)'
    BY <2>6, <2>10, <2>12, <2>13, <2>14 DEF Known
  <2> QED BY <1>5, <2>1, <2>10, <2>11, <2>12, <2>15
<1> QED BY <1>6, <1>7

\* The invariant behind ListeningMeansBound
BindInv == ReadyInv /\ AskedOnce /\ AllPlaced /\ Asking /\ Carries /\ Answers /\ Bound

\* The initial states satisfy it: nobody has created or asked for anything.
LEMMA BindInvInit ==
  ASSUME Init
  PROVE  BindInv
<1>1. ReadyInv /\ AskedOnce
  BY ReadyInvInit, AskedOnceInit
<1>2. ASSUME NEW s \in Servers
      PROVE  PlacedAt(s) /\ ~Waiting(s)
  <2>1. /\ stack[s] = <<>> /\ phase[s] = "connect" /\ component_count[s] = 0
        /\ \A n \in Names : id[s][n] = Invalid /\ superset[s][n] = NoComp
    BY DEF Init
  <2>2. CreatedNames(s) = {}
    BY <2>1 DEF CreatedNames
  <2>3. Cardinality(CreatedNames(s)) = 0
    BY <2>2, FS_EmptySet
  <2>4. NumbersAt(s, {})
    BY <2>1, <2>2, <2>3 DEF NumbersAt, Begun
  <2>5. LinkedAt(s, {})
    <3>1. \A c \in Names : Below(deployment, s, c) \subseteq Names
      BY <1>1, DeploymentTypes DEF ReadyInv, IInv
    <3> QED BY <2>1, <3>1 DEF LinkedAt
  <2>6. Walk(deployment, s, stack[s], {})
    BY <2>1, WalkNone
  <2>7. Placed(s, {})
    BY <2>1, <2>4, <2>5, <2>6 DEF Placed
  <2> QED BY <2>1, <2>7 DEF PlacedAt, Waiting
<1>3. AllPlaced /\ Asking
  BY <1>2 DEF AllPlaced, Asking, AsksAt
<1>4. Types /\ (failed \/ \A x, y \in Servers, m \in Messages :
                  ~RequestAt(net, deferred, x, y, m) /\ ~ResponseAt(net, y, x, m))
  BY <1>1, <1>2, AwaitedMessage DEF ReadyInv, IInv
<1>5. Carries /\ Answers
  BY <1>4 DEF Carries, Answers
<1>6. Bound
  BY DEF Bound, BoundAt, Init
<1> QED BY <1>1, <1>3, <1>5, <1>6 DEF BindInv

\* Every step keeps it.
LEMMA BindInvStep ==
  ASSUME BindInv, [Next]_vars
  PROVE  BindInv'
<1>1. ReadyInv' /\ AskedOnce'
  BY ReadyInvStep, AskedOnceStep DEF BindInv
<1>2. CASE Next
  <2>1. PICK s \in Servers : ServerStep(s)
    BY <1>2 DEF Next
  <2>2. Types'
    BY <1>1 DEF ReadyInv, IInv
  <2>3. AllPlaced'
    BY <2>1, AllPlacedStep DEF BindInv
  <2>4. Asking'
    BY <2>1, <2>2, AskingStep DEF BindInv
  <2>5. Carries'
    BY <1>1, <2>1, CarriesStep DEF BindInv
  <2>6. Answers'
    BY <1>1, <2>1, AnswersStep DEF BindInv
  <2>7. Bound'
    BY <1>1, <2>1, BoundStep DEF BindInv
  <2> QED BY <1>1, <2>3, <2>4, <2>5, <2>6, <2>7 DEF BindInv
<1>3. CASE UNCHANGED vars
  <2>1. UNCHANGED <<deployment, net, phase, remote_server, stack, component_count, id, superset,
                    deferred, failed>>
    BY <1>3 DEF vars, tree
  <2>2. \A s, n : (IsLocal(s, n)' <=> IsLocal(s, n)) /\ (IsRemote(s, n)' <=> IsRemote(s, n))
    BY <2>1, SameKinds
  <2>3. \A s : CreatedNames(s)' = CreatedNames(s)
    BY <2>1, <2>2 DEF CreatedNames
  <2>4. \A s, D : Placed(s, D)' <=> Placed(s, D)
    BY <2>1, <2>2, <2>3 DEF Placed, LinkedAt, NumbersAt
  <2>5. AllPlaced'
    BY <2>4 DEF BindInv, AllPlaced, PlacedAt
  <2>6. \A s : (Waiting(s)' <=> Waiting(s)) /\ Peer(s)' = Peer(s)
    BY <2>1 DEF Waiting, Peer
  <2>7. Asking'
    BY <2>1, <2>2, <2>6 DEF BindInv, Asking, AsksAt, Subset
  <2>8. \A x, y, n, p : Known(x, y, n, p)' <=> Known(x, y, n, p)
    BY <2>1, <2>2 DEF Known
  <2>9. Carries'
    BY <2>1, <2>6 DEF BindInv, Carries, FitsRequest
  <2>10. Answers'
    BY <2>1, <2>6, <2>8 DEF BindInv, Answers, FitsResponse
  <2>11. Bound'
    BY <2>1, <2>2, <2>6, <2>8 DEF BindInv, Bound, BoundAt
  <2> QED BY <1>1, <2>5, <2>7, <2>9, <2>10, <2>11 DEF BindInv
<1> QED BY <1>2, <1>3

\* Where a server listens all its components are linked, and so its remote
\* subsets are bound.
LEMMA BindInvBound ==
  ASSUME BindInv
  PROVE  ListeningMeansBound
<1>1. Types
  BY DEF BindInv, ReadyInv, IInv
<1> SUFFICES ASSUME NEW s \in Servers, phase[s] = "listen", NEW n \in RemoteSubsets(s)
             PROVE  LET r == Head(remote_server[s]) IN
                    /\ phase[r] = "listen" /\ IsLocal(r, n)
                    /\ id[s][n] = id[r][n] /\ id[r][n] # Invalid
                    /\ id[r][superset[r][n]] = id[s][superset[s][n]]
  BY DEF ListeningMeansBound
<1>2. PICK p \in Names : IsLocal(s, p) /\ n \in Below(deployment, s, p)
  BY DEF RemoteSubsets
<1>3. n \in Names /\ IsRemote(s, n)
  BY <1>1, DeploymentTypes DEF RemoteSubsets, IsRemote
<1>4. superset[s][n] = p
  BY <1>2, ListeningLinked DEF BindInv, AllPlaced
<1>5. superset[s][n] # NoComp
  BY <1>4, NamesAssumption
<1>6. BoundAt(s, n)
  BY <1>3 DEF BindInv, Bound
<1>7. Known(s, Peer(s), n, p) /\ id[s][n] = id[Peer(s)][n]
  BY <1>2, <1>3, <1>4, <1>5, <1>6 DEF BoundAt
<1> QED BY <1>4, <1>7 DEF Known, Peer

\* What ServerRpc starts from: wherever a server listens, both ends of each of
\* its remote subsets know each other's ID (kitfox.cc:725-739), in whatever
\* order the processes connected, asked and put requests aside, and however
\* far the others have come.
THEOREM ListeningServersBound == Spec => []ListeningMeansBound
<1>1. Init => BindInv
  BY BindInvInit
<1>2. BindInv /\ [Next]_vars => BindInv'
  BY BindInvStep
<1>3. BindInv => ListeningMeansBound
  BY BindInvBound
<1> QED BY <1>1, <1>2, <1>3, PTL DEF Spec

-----------------------------------------------------------------------------
\* Exits while components are connected, numbered and bound

\* create_pseudo_component gives an ID to what has none.
LEMMA CreatesNew ==
  ASSUME ReadyInv, NEW s \in Servers, ServerStep(s), Create(s), PlacedAt(s),
         NEW n, n = Head(stack[s]).comp, ~IsRemote(s, n)
  PROVE  n \in Names /\ IsLocal(s, n) /\ n \notin CreatedNames(s)
<1> DEFINE q == stack[s]
<1>1. Running(s) /\ q[1].child = 0 /\ Head(q) = q[1]
  BY RunningTop DEF Create, ReadyInv, IInv
<1>2. Len(q) \in Nat /\ Len(q) > 0 /\ q \in Seq(Calls) /\ deployment \in Deployments
  BY <1>1, RunningTop, RootedCalls DEF ReadyInv, IInv, Types
<1>3. 1 \in 1 .. Len(q)
  BY <1>2
<1>4. Len(q) > 1
  BY <1>1, <1>2, <1>3 DEF ReadyInv, IInv, Nested, NestedAt
<1>5. n \in Names
  BY <1>1, <1>4, RunningTop DEF ReadyInv, IInv
<1>6. PICK D \in SUBSET Names : Placed(s, D)
  BY DEF PlacedAt
<1>7. n \notin D /\ n \in Below(deployment, s, q[2].comp) /\ q[2].comp \in Names \cup {Top}
  BY <1>1, <1>2, <1>4, <1>6, NotFinished DEF Placed
<1>8. IsLocal(s, n)
  BY <1>7 DEF IsLocal, Listed
<1>9. ~Begun(q, n)
  <2>1. \A i \in 1 .. Len(q) : q[i].comp = n => i = 1
    BY <1>1, <1>3, <1>6 DEF Placed, Walk, Apart
  <2> QED BY <1>1, <2>1 DEF Begun
<1>10. n \notin CreatedNames(s)
  BY <1>6, <1>7, <1>9 DEF Placed, NumbersAt
<1> QED BY <1>5, <1>8, <1>10

\* A range as large as the components of a process is not exhausted: there is
\* one more to number than get_new_comp_id has given IDs.
LEMMA RangeSuffices ==
  ASSUME ReadyInv, NEW s \in Servers, ServerStep(s), Create(s), PlacedAt(s),
         Cardinality({n \in Names : IsLocal(s, n)})
           <= deployment.configured[s][2] - deployment.configured[s][1]
  PROVE  failed' = failed
<1>1. CASE IsRemote(s, Head(stack[s]).comp)
  BY <1>1 DEF Create
<1>2. CASE ~IsRemote(s, Head(stack[s]).comp)
  <2> DEFINE n == Head(stack[s]).comp
             L == {m \in Names : IsLocal(s, m)}
             C == CreatedNames(s)
             low == deployment.configured[s][1]
             high == deployment.configured[s][2]
             k == component_count[s]
  <2>1. n \in L /\ n \notin C
    BY <1>2, CreatesNew
  <2>2. C \cup {n} \subseteq L /\ L \subseteq Names
    BY <2>1 DEF CreatedNames
  <2>3. IsFiniteSet(L)
    BY <2>2, NamesAssumption, FS_Subset
  <2>4. IsFiniteSet(C) /\ IsFiniteSet(C \cup {n}) /\ Cardinality(C \cup {n}) <= Cardinality(L)
    BY <2>2, <2>3, FS_Subset
  <2>5. Cardinality(C \cup {n}) = Cardinality(C) + 1 /\ Cardinality(C) \in Nat /\ Cardinality(L) \in Nat
    BY <2>1, <2>3, <2>4, FS_AddElement, FS_CardinalityType
  <2>6. k <= Cardinality(C)
    BY DEF PlacedAt, Placed, NumbersAt, ServerStep
  <2>7. k \in Nat /\ low \in Nat /\ high \in Nat
    <3>1. deployment.configured[s] \in Nat \X Nat
      BY DeploymentTypes DEF Ranges, ReadyInv, IInv
    <3> QED BY <3>1 DEF ReadyInv, IInv, Types
  <2>8. GetNewCompId(s, n)
    BY <1>2 DEF Create
  <2>9. component_count'[s] = k + 1
    BY <2>8 DEF GetNewCompId, ReadyInv, IInv, Types
  <2>10. k + 1 # high - low + 1
    <3> HIDE DEF k, low, high, L, C, n
    <3>1. Cardinality(L) <= high - low
      BY DEF L, low, high
    <3> QED BY <2>4, <2>5, <2>6, <2>7, <3>1
  <2> QED BY <2>8, <2>9, <2>10 DEF GetNewCompId
<1> QED BY <1>1, <1>2

\* is_disjoint passes disjoint ranges.
LEMMA DisjointConnect ==
  ASSUME ReadyInv, NEW s \in Servers, ServerStep(s), NEW r \in Servers, ConnectRecv(s, r),
         \A x, y \in Servers :
           x # y => IsDisjoint(deployment.published[y], deployment.published[x])
  PROVE  failed' = failed
<1>1. r # s /\ Head(net[r][s]).range = deployment.published[r]
  BY FirstMessage DEF ReadyInv, IInv, ServerStep
<1> QED BY <1>1 DEF ConnectRecv

\* A process with a remote subset that is not local to the first server of its
\* list
AsksOther(s) == \E n \in RemoteSubsets(s) : ~IsLocal(Peer(s), n)

\* Whoever is refused asked a server that does not have the component: in one
\* that listens every local component has its superset.
LEMMA WrongRequest ==
  ASSUME BindInv, NEW s \in Servers, ServerStep(s), phase[s] = "listen",
         NEW x \in Servers, NEW m \in Messages, RequestAt(net, deferred, x, s, m),
         ~(IsLocal(s, m.name) /\ superset[s][m.name] # NoComp)
  PROVE  AsksOther(x)
<1>1. Types /\ ~failed /\ ReadyInv /\ AllPlaced /\ Asking
  BY DEF BindInv, ReadyInv, IInv, ServerStep
<1>2. s = Head(remote_server[x])
  BY <1>1, AwaitedMessage DEF BindInv
<1>3. FitsRequest(x, m)
  BY <1>1 DEF BindInv, Carries
<1>4. PICK n \in Names, p \in Names : n = stack[x][1].comp /\ p = stack[x][2].comp
  BY <1>1, <1>3, WaitsBelow DEF FitsRequest
<1>5. /\ m.name = n /\ IsRemote(x, n) /\ IsLocal(x, p) /\ n \in Below(deployment, x, p)
      /\ phase[x] = "configure"
  BY <1>1, <1>3, <1>4, WaitsBelow DEF FitsRequest
<1>6. n \in RemoteSubsets(x)
  BY <1>5 DEF RemoteSubsets, IsRemote
<1>7. ~IsLocal(s, n)
  <2> SUFFICES ASSUME IsLocal(s, n)
               PROVE  FALSE
    OBVIOUS
  <2>1. PICK c \in Names \cup {Top} : n \in Below(deployment, s, c)
    BY DEF IsLocal, Listed
  <2>2. p = c
    BY <1>1, <1>5, <2>1, OnePlace
  <2>3. superset[s][n] = p
    BY <1>1, <2>1, <2>2, ListeningLinked DEF AllPlaced
  <2> QED BY <1>5, <2>3, NamesAssumption
<1> QED BY <1>2, <1>6, <1>7 DEF AsksOther, Peer

\* server_t::process knows all messages that a listening server can get.
LEMMA ProcessFails ==
  ASSUME NEW s \in Servers, NEW r, NEW m, NEW N, ProcessMessage(s, r, m, N),
         m.type \in {"SERVER_READY", "CONNECT_REMOTE_COMP_REQ"}, ~failed, failed'
  PROVE  /\ m.type = "CONNECT_REMOTE_COMP_REQ"
         /\ ~(IsLocal(s, m.name) /\ superset[s][m.name] # NoComp)
BY DEF ProcessMessage, ConnectRemote

\* What connect_remote_component asks another server
IsRequest(m) == m.type = "CONNECT_REMOTE_COMP_REQ"

\* Process s takes a connection, creates a component, or answers the request of
\* one that binds its remote subset.
Binding(s) ==
    \/ \E r \in Servers : ConnectRecv(s, r)
    \/ Create(s)
    \/ \E r \in Servers : Process(s, r) /\ IsRequest(Head(net[r][s]))
    \/ Reprocess(s) /\ IsRequest(Head(deferred[s]).msg)

\* A deployment without mistakes connects, and has IDs for all its components:
\* only connect_remote_component exits, in a server that is not the owner and
\* was asked because it connected first.
BindingExits ==
    \A s \in Servers : ~failed /\ failed' /\ Sound /\ Binding(s) => \E x \in Servers : AsksOther(x)

LEMMA BindingFails ==
  ASSUME BindInv, [Next]_vars
  PROVE  BindingExits
<1> SUFFICES ASSUME NEW s \in Servers, ~failed, failed', Sound, Binding(s)
             PROVE  \E x \in Servers : AsksOther(x)
  BY DEF BindingExits
<1>1. Types /\ ReadyInv /\ AllPlaced
  BY DEF BindInv, ReadyInv, IInv
<1>2. ServerStep(s)
  BY DEF Binding, ServerStep
<1>3. ~Create(s)
  BY <1>1, <1>2, RangeSuffices DEF Sound, AllPlaced
<1>4. \A r \in Servers : ~ConnectRecv(s, r)
  BY <1>1, <1>2, DisjointConnect DEF Sound
<1>5. ASSUME NEW r \in Servers, Process(s, r), IsRequest(Head(net[r][s]))
      PROVE  \E x \in Servers : AsksOther(x)
  <2> DEFINE m == Head(net[r][s])
  <2>1. phase[s] = "listen" /\ net[r][s] # <<>> /\ ProcessMessage(s, r, m, Received(s, r))
    BY <1>5 DEF Process, Idle
  <2>2. m \in Messages /\ Contains(net[r][s], m)
    BY <1>1, <2>1, ReceivedNone
  <2>3. m.type = "CONNECT_REMOTE_COMP_REQ"
    BY <1>5 DEF IsRequest
  <2> HIDE DEF m
  <2>4. ~(IsLocal(s, m.name) /\ superset[s][m.name] # NoComp)
    BY <2>1, <2>3, ProcessFails
  <2>5. RequestAt(net, deferred, r, s, m)
    BY <1>1, <2>2, <2>3, KindsApart DEF RequestAt
  <2> QED BY <1>2, <2>1, <2>2, <2>4, <2>5, WrongRequest
<1>6. ASSUME Reprocess(s), IsRequest(Head(deferred[s]).msg)
      PROVE  \E x \in Servers : AsksOther(x)
  <2> DEFINE f == Head(deferred[s])
             m == f.msg
             r == f.from
  <2>1. phase[s] = "listen" /\ deferred[s] # <<>> /\ ProcessMessage(s, r, m, net)
    BY <1>6 DEF Reprocess, Idle
  <2>2. m \in Messages /\ r \in Servers /\ f = [msg |-> m, from |-> r]
    <3>1. f \in [msg : Messages, from : Servers]
      BY <1>1, <2>1, HeadTailProperties DEF Types
    <3> QED BY <3>1
  <2>3. Contains(deferred[s], f)
    <3>1. IsSeq(deferred[s])
      BY <1>1, DeferredLines, LineSeq
    <3> QED BY <2>1, <3>1, TailHas
  <2>4. m.type = "CONNECT_REMOTE_COMP_REQ"
    BY <1>6 DEF IsRequest
  <2> HIDE DEF f, m, r
  <2>5. ~(IsLocal(s, m.name) /\ superset[s][m.name] # NoComp)
    BY <2>1, <2>4, ProcessFails
  <2>6. RequestAt(net, deferred, r, s, m)
    BY <1>1, <2>2, <2>3, <2>4, KindsApart DEF RequestAt
  <2> QED BY <1>2, <2>1, <2>2, <2>5, <2>6, WrongRequest
<1> QED BY <1>3, <1>4, <1>5, <1>6 DEF Binding

\* A deployment without mistakes never exits in connect_server (is_disjoint) or
\* in get_new_comp_id, and in connect_remote_component (kitfox.cc:690-720) only
\* when a process has asked the first server of its list for a component of
\* another, for every number of processes and every tree of components.
\* init_pseudo_component has exits of its own, which are not among these.
THEOREM BindingExitsAtWrongPeer == Spec => [][BindingExits]_vars
<1>1. Init => BindInv
  BY BindInvInit
<1>2. BindInv /\ [Next]_vars => BindInv'
  BY BindInvStep
<1>3. BindInv /\ [Next]_vars => BindingExits
  BY BindingFails
<1> QED BY <1>1, <1>2, <1>3, PTL DEF Spec

=============================================================================
