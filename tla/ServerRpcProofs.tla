-------------------------- MODULE ServerRpcProofs ---------------------------
(***************************************************************************)
(* Proofs about ServerRpc, for every number of servers and clients, every  *)
(* tree of components and everything the clients may ask for: the types,   *)
(* that no call between servers is lost (NoCallLost), that no server is    *)
(* forgotten (NoReadyLost), and, where no server is asked while it runs a  *)
(* call that its client does not wait for, that a client is sent nothing   *)
(* that it does not wait for (OnlyAwaitedReplies).                         *)
(*                                                                         *)
(* All say of counters and call stacks where the messages are that they    *)
(* stand for.  That is inductive once it is known who calls whom: a server *)
(* sends requests to its first peer only, of components that are local     *)
(* there (Mail), and a wait is always on top of the call that waits        *)
(* (Stacked).                                                              *)
(***************************************************************************)
EXTENDS ServerRpc, MessageLemmas

\* The components of a server, and those its calls may be about
Local(s)   == {c \in Components : Owner[c] = s}
Reaches(s) == {c \in Components : Owner[c] \in {s, Peer[s]}}

\* What a server may receive from another, and from a client
RequestsTo(s) == [type : RequestTypes, comp : Local(s), wait : {TRUE}]
CallsTo(s)    == [type : RequestTypes, comp : Reaches(s), wait : BOOLEAN]
Mail(s)       == RequestsTo(s) \cup ResponseMessages \cup {ServerReady}

\* The frames of the call stack of s
Data == Nat \cup {NoData}

ProcessFrames(s) ==
    [fn : {"process"}, msg : CallsTo(s), from : Servers \cup Clients, data : Data,
     at : {"sync", "pull", "power", "respond"}]

SyncFrames(s) ==
    [fn : {"synchronize_data"}, comp : Reaches(s), child : Nat \ {0},
     at : {"entry", "sync", "pull"}, sum : Nat]

RecvFrames == [fn : {"MPI_Recv"}, type : ResponseTypes]

Frames(s) == ProcessFrames(s) \cup SyncFrames(s) \cup RecvFrames

\* A server that calls waits; sub-components are those of local components
FrameAt(s, f) ==
    /\ f.fn = "process" /\ f.from \in Servers => f.msg.wait
    /\ f.fn = "synchronize_data" =>
         /\ f.at # "entry" => f.comp \in Local(s)
         /\ f.at = "pull" => f.child <= Len(Children[f.comp])

\* A wait and a synchronize_data are on top of a call that is not at its end
Stacked(s, q) ==
    \A i \in 1 .. Len(q) :
      /\ FrameAt(s, q[i])
      /\ q[i].fn # "process" => i < Len(q) /\ q[i + 1].fn # "MPI_Recv"
      /\ i > 1 /\ q[i].fn = "synchronize_data" => q[i].at = "pull"

Framed(s, q) == q \in Seq(Frames(s)) /\ Stacked(s, q)

\* A frame that can be put on top of the calls q
Placed(s, f, q) ==
    /\ FrameAt(s, f)
    /\ f.fn # "process" => q # <<>> /\ Head(q).fn # "MPI_Recv"
    /\ q # <<>> /\ Head(q).fn = "synchronize_data" => Head(q).at = "pull"

\* The types, stronger than TypeOK; those of ready are in Announcing
Mailed(N) ==
    /\ N \in [Servers -> [Servers -> Seq(Messages)]]
    /\ \A r, s \in Servers : N[r][s] \in Seq(Mail(s))

Calling(S) ==
    /\ S = [s \in Servers |-> S[s]]
    /\ \A s \in Servers : Framed(s, S[s])

ServersTyped ==
    /\ deferred \in [Servers -> Seq([msg : Messages \ RequestMessages, from : Servers])]
    /\ responds \in [Servers -> BOOLEAN]
    /\ sendbuf \in [Servers -> Messages]
    /\ power \in [Components -> Data]
    /\ failed \in BOOLEAN

ClientsTyped ==
    /\ inbox \in [Clients -> Seq(RequestMessages)]
    /\ todo \in [Clients -> Seq(RequestMessages)]
    /\ \A k \in Clients : inbox[k] \in Seq(CallsTo(Home[k])) /\ todo[k] \in Seq(CallsTo(Home[k]))
    /\ waiting \in [Clients -> ResponseTypes \cup {NoCall}]
    /\ answer \in [Clients -> Data]

Types ==
    /\ Mailed(net)
    /\ Calling(stack)
    /\ reply \in [Clients -> Seq(Messages)]
    /\ ServersTyped
    /\ ClientsTyped

\* No server is expected any more to announce itself but by a message
Announcing == Announced(Servers, ServerReady, net, [r \in Servers |-> {}], deferred, ready)

-----------------------------------------------------------------------------
\* Messages and components

LEMMA MessageKinds ==
  /\ RequestTypes = {"SYNCHRONIZE_DATA_REQ", "SYNCHRONIZE_AND_PULL_DATA_REQ",
                     "PULL_DATA_REQ", "CALCULATE_POWER_REQ"}
  /\ ResponseTypes = {"SYNCHRONIZE_DATA_RES", "SYNCHRONIZE_AND_PULL_DATA_RES",
                      "PULL_DATA_RES", "CALCULATE_POWER_RES"}
  /\ \A t \in RequestTypes : ResponseTo[t] \in ResponseTypes
BY DEF RequestTypes, ResponseTypes, ResponseTo

\* A message is of one of three kinds.
LEMMA KindOf ==
  ASSUME NEW m \in Messages
  PROVE  /\ IsRequest(m) <=> m \in RequestMessages
         /\ IsResponse(m) <=> m \in ResponseMessages
         /\ m = ServerReady <=> ~IsRequest(m) /\ ~IsResponse(m)
         /\ ~(IsRequest(m) /\ IsResponse(m))
BY MessageKinds DEF Messages, RequestMessages, ResponseMessages, ServerReady, IsRequest, IsResponse

LEMMA MailMessages ==
  ASSUME NEW s
  PROVE  /\ \A m \in Mail(s) : m \in Messages
         /\ \A m \in CallsTo(s) : m \in RequestMessages
         /\ \A m \in Mail(s) : IsRequest(m) => m \in RequestsTo(s)
         /\ \A m \in RequestsTo(s) : m \in CallsTo(s) /\ m.wait
<1>1. \A m \in RequestsTo(s) : m \in CallsTo(s) /\ m.wait /\ m \in RequestMessages
  BY DEF RequestsTo, CallsTo, Local, Reaches, RequestMessages
<1>2. \A m \in CallsTo(s) : m \in RequestMessages
  BY DEF CallsTo, Reaches, RequestMessages
<1>3. \A m \in Mail(s) : m \in Messages
  BY <1>1 DEF Mail, Messages
<1>4. \A m \in Mail(s) : IsRequest(m) => m \in RequestsTo(s)
  <2>1. ServerReady \in Messages /\ \A m \in ResponseMessages : m \in Messages
    BY DEF Messages
  <2>2. ~IsRequest(ServerReady) /\ \A m \in ResponseMessages : ~IsRequest(m)
    BY <2>1, KindOf
  <2> QED BY <2>2 DEF Mail
<1> QED BY <1>1, <1>2, <1>3, <1>4

\* A call that leaves the server goes to its first peer.
LEMMA CallsPeer ==
  ASSUME NEW s \in Servers, NEW c \in Reaches(s), Owner[c] # s, NEW type \in RequestTypes
  PROVE  /\ Owner[c] = Peer[s] /\ Peer[s] \in Servers
         /\ Request(type, c) \in Mail(Peer[s])
         /\ Request(type, c) \in RequestMessages
BY DeploymentAssumption DEF Reaches, Request, Mail, RequestsTo, Local, RequestMessages

LEMMA ChildReached ==
  ASSUME NEW s \in Servers, NEW c \in Local(s), NEW i \in Nat \ {0}, i <= Len(Children[c])
  PROVE  Children[c][i] \in Reaches(s)
<1>1. c \in Components /\ Owner[c] = s /\ Children[c] \in Seq(Components)
  BY TreeAssumption DEF Local
<1>2. i \in DOMAIN Children[c] /\ Children[c][i] \in Components
  BY <1>1
<1> QED BY <1>1, <1>2, DeploymentAssumption DEF Reaches

-----------------------------------------------------------------------------
\* Call stacks

LEMMA FramesSeq ==
  ASSUME NEW s, NEW q, Framed(s, q)
  PROVE  IsSeq(q)
BY DEF Framed, IsSeq

\* A frame that fits is put on top.
LEMMA PushFrame ==
  ASSUME NEW s, NEW q, Framed(s, q), NEW f \in Frames(s), Placed(s, f, q)
  PROVE  /\ Framed(s, <<f>> \o q)
         /\ <<f>> \o q # <<>>
         /\ Head(<<f>> \o q) = f
         /\ Tail(<<f>> \o q) = q
<1> DEFINE p == <<f>> \o q
           F == Frames(s)
<1>1. q \in Seq(F) /\ Stacked(s, q)
  BY DEF Framed
<1>2. IsSeq(q)
  BY FramesSeq
<1>3. p # <<>> /\ Head(p) = f /\ Tail(p) = q
  BY <1>2, PushSeq
<1> HIDE DEF F
<1>4. p \in Seq(F)
  BY <1>1 DEF F
<1> HIDE DEF p
<1>5. /\ Len(p) = Len(q) + 1 /\ Len(q) \in Nat
      /\ p[1] = f
      /\ \A i \in 1 .. Len(q) : p[i + 1] = q[i]
  BY <1>1, <1>3, <1>4
<1>6. Stacked(s, p)
  <2> SUFFICES ASSUME NEW i \in 1 .. Len(p)
               PROVE  /\ FrameAt(s, p[i])
                      /\ p[i].fn # "process" => i < Len(p) /\ p[i + 1].fn # "MPI_Recv"
                      /\ i > 1 /\ p[i].fn = "synchronize_data" => p[i].at = "pull"
    BY DEF Stacked
  <2>1. CASE i = 1
    <3>1. CASE q = <<>>
      BY <1>5, <2>1, <3>1 DEF Placed
    <3>2. CASE q # <<>>
      <4>1. Len(q) > 0 /\ q[1] = Head(q)
        BY <1>1, <3>2
      <4>2. p[2] = Head(q)
        BY <1>5, <4>1
      <4> QED BY <1>5, <2>1, <4>1, <4>2 DEF Placed
    <3> QED BY <3>1, <3>2
  <2>2. CASE i # 1
    <3>1. i - 1 \in 1 .. Len(q) /\ i = (i - 1) + 1
      BY <1>5, <2>2
    <3>2. p[i] = q[i - 1]
      BY <1>5, <3>1
    <3>3. /\ FrameAt(s, q[i - 1])
          /\ q[i - 1].fn # "process" => i - 1 < Len(q) /\ q[(i - 1) + 1].fn # "MPI_Recv"
          /\ i - 1 > 1 /\ q[i - 1].fn = "synchronize_data" => q[i - 1].at = "pull"
      BY <1>1, <3>1 DEF Stacked
    <3>4. i - 1 < Len(q) => p[i + 1] = q[(i - 1) + 1]
      BY <1>5, <3>1
    <3>5. i - 1 = 1 /\ q[i - 1].fn = "synchronize_data" => q[i - 1].at = "pull"
      <4>1. Len(q) > 0 => q[1] = Head(q) /\ q # <<>>
        BY <1>1
      <4> QED BY <1>5, <3>1, <4>1 DEF Placed
    <3> QED BY <1>5, <3>1, <3>2, <3>3, <3>4, <3>5
  <2> QED BY <2>1, <2>2
<1> QED BY <1>3, <1>4, <1>6 DEF Framed, p, F

\* The top frame of a stack fits on those below it.
LEMMA PopFrame ==
  ASSUME NEW s, NEW q, Framed(s, q), q # <<>>
  PROVE  /\ Head(q) \in Frames(s)
         /\ Framed(s, Tail(q))
         /\ Placed(s, Head(q), Tail(q))
<1> DEFINE t == Tail(q)
           F == Frames(s)
<1>1. q \in Seq(F) /\ Stacked(s, q)
  BY DEF Framed
<1> HIDE DEF F
<1>2. /\ Head(q) \in F /\ t \in Seq(F)
      /\ Len(q) \in Nat /\ Len(q) > 0 /\ Len(t) = Len(q) - 1
      /\ Head(q) = q[1]
      /\ \A i \in 1 .. Len(t) : t[i] = q[i + 1]
  BY <1>1, HeadTailProperties
<1>3. t # <<>> => Len(t) > 0 /\ Head(t) = t[1]
  BY <1>2
<1> HIDE DEF t
<1>4. Stacked(s, t)
  <2> SUFFICES ASSUME NEW i \in 1 .. Len(t)
               PROVE  /\ FrameAt(s, t[i])
                      /\ t[i].fn # "process" => i < Len(t) /\ t[i + 1].fn # "MPI_Recv"
                      /\ i > 1 /\ t[i].fn = "synchronize_data" => t[i].at = "pull"
    BY DEF Stacked
  <2>1. i + 1 \in 1 .. Len(q) /\ t[i] = q[i + 1]
    BY <1>2
  <2>2. /\ FrameAt(s, q[i + 1])
        /\ q[i + 1].fn # "process" => i + 1 < Len(q) /\ q[(i + 1) + 1].fn # "MPI_Recv"
        /\ i + 1 > 1 /\ q[i + 1].fn = "synchronize_data" => q[i + 1].at = "pull"
    BY <1>1, <2>1 DEF Stacked
  <2>3. i + 1 < Len(q) => i < Len(t) /\ t[i + 1] = q[(i + 1) + 1]
    BY <1>2
  <2> QED BY <2>1, <2>2, <2>3
<1>5. Placed(s, Head(q), t)
  <2>1. /\ FrameAt(s, q[1])
        /\ q[1].fn # "process" => 1 < Len(q) /\ q[1 + 1].fn # "MPI_Recv"
    BY <1>1, <1>2 DEF Stacked
  <2>2. Len(t) > 0 => t[1] = q[2] /\ t # <<>>
    BY <1>2
  <2>3. Len(t) > 0 /\ q[2].fn = "synchronize_data" => q[2].at = "pull"
    <3>1. Len(t) > 0 => 2 \in 1 .. Len(q)
      BY <1>2
    <3> QED BY <1>1, <3>1 DEF Stacked
  <2> QED BY <1>2, <1>3, <2>1, <2>2, <2>3 DEF Placed
<1> QED BY <1>2, <1>4, <1>5 DEF Framed, t, F

LEMMA PushTwo ==
  ASSUME NEW q, IsSeq(q), NEW a, NEW b
  PROVE  <<a, b>> \o q = <<a>> \o (<<b>> \o q)
<1>1. PICK S : q \in Seq(S)
  BY DEF IsSeq
<1> DEFINE U == S \cup {a, b}
<1>2. q \in Seq(U) /\ <<a>> \in Seq(U) /\ <<b>> \in Seq(U)
  BY <1>1
<1>3. a \in U /\ b \in U
  OBVIOUS
<1> HIDE DEF U
<1>4. <<a, b>> = <<a>> \o <<b>>
  <2>1. <<a, b>> \in Seq(U) /\ Len(<<a, b>>) = 2 /\ <<a, b>>[1] = a /\ <<a, b>>[2] = b
    BY <1>2, <1>3
  <2>2. Len(<<a>>) = 1 /\ Len(<<b>>) = 1 /\ <<a>>[1] = a /\ <<b>>[1] = b
    BY <1>2
  <2> DEFINE c == <<a>> \o <<b>>
  <2>3. c \in Seq(U) /\ Len(c) = 2 /\ c[1] = a /\ c[2] = b
    BY <1>2, <2>2, ConcatProperties
  <2> HIDE DEF c
  <2>4. \A i \in 1 .. 2 : i = 1 \/ i = 2
    OBVIOUS
  <2>5. <<a, b>> = c
    BY <2>1, <2>3, <2>4, SeqEqual
  <2> QED BY <2>5 DEF c
<1> QED BY <1>2, <1>4, ConcatAssociative

LEMMA ExceptAt ==
  ASSUME NEW V, NEW f, f = [v \in V |-> f[v]], NEW s \in V, NEW e, NEW g, g = [f EXCEPT ![s] = e]
  PROVE  /\ g = [v \in V |-> g[v]]
         /\ g[s] = e
         /\ \A v \in V : v # s => g[v] = f[v]
OBVIOUS

\* A server's own stack changes, and no other.
LEMMA CallingStack ==
  ASSUME NEW S, Calling(S), NEW s \in Servers, NEW q, Framed(s, q),
         NEW R, R = [S EXCEPT ![s] = q]
  PROVE  Calling(R) /\ R[s] = q /\ \A x \in Servers : x # s => R[x] = S[x]
<1>1. /\ R = [x \in Servers |-> R[x]]
      /\ R[s] = q
      /\ \A x \in Servers : x # s => R[x] = S[x]
  BY ExceptAt DEF Calling
<1>2. ASSUME NEW x \in Servers
      PROVE  Framed(x, R[x])
  BY <1>1 DEF Calling
<1> QED BY <1>1, <1>2 DEF Calling

\* The channels are typed by the server that reads them.
LEMMA MailSent ==
  ASSUME NEW N, Mailed(N), NEW s \in Servers, NEW x \in Servers, NEW m \in Mail(x),
         NEW M, M = [N EXCEPT ![s][x] = Append(@, m)]
  PROVE  Mailed(M)
<1>1. m \in Messages
  BY MailMessages
<1>2. M \in [Servers -> [Servers -> Seq(Messages)]]
  BY <1>1 DEF Mailed
<1>3. ASSUME NEW a \in Servers, NEW b \in Servers
      PROVE  M[a][b] \in Seq(Mail(b))
  <2>1. N[a][b] \in Seq(Mail(b))
    BY DEF Mailed
  <2>2. M[a][b] = IF a = s /\ b = x THEN Append(N[a][b], m) ELSE N[a][b]
    BY DEF Mailed
  <2> QED BY <2>1, <2>2
<1> QED BY <1>2, <1>3 DEF Mailed

LEMMA MailTaken ==
  ASSUME NEW N, Mailed(N), NEW r \in Servers, NEW s \in Servers, N[r][s] # <<>>,
         NEW M, M = [N EXCEPT ![r][s] = Tail(@)]
  PROVE  /\ Mailed(M)
         /\ Head(N[r][s]) \in Mail(s)
         /\ Head(N[r][s]) \in Messages
         /\ IsRequest(Head(N[r][s])) => Head(N[r][s]) \in RequestsTo(s)
<1>1. N[r][s] \in Seq(Mail(s)) /\ N[r][s] \in Seq(Messages)
  BY DEF Mailed
<1>2. M \in [Servers -> [Servers -> Seq(Messages)]]
  <2>1. Tail(N[r][s]) \in Seq(Messages)
    BY <1>1
  <2> QED BY <2>1 DEF Mailed
<1>3. ASSUME NEW a \in Servers, NEW b \in Servers
      PROVE  M[a][b] \in Seq(Mail(b))
  <2>1. N[a][b] \in Seq(Mail(b))
    BY DEF Mailed
  <2>2. M[a][b] = IF a = r /\ b = s THEN Tail(N[a][b]) ELSE N[a][b]
    BY DEF Mailed
  <2> QED BY <2>1, <2>2
<1>4. Head(N[r][s]) \in Mail(s)
  BY <1>1
<1> QED BY <1>2, <1>3, <1>4, MailMessages DEF Mailed

LEMMA MailedType ==
  ASSUME NEW N, Mailed(N)
  PROVE  NetType(Servers, N)
BY DEF Mailed, NetType

\* The call on top tells what is below it.
LEMMA TopFrame ==
  ASSUME Types, NEW s \in Servers, stack[s] # <<>>
  PROVE  /\ Framed(s, stack[s]) /\ Framed(s, Callers(s))
         /\ Top(s) \in Frames(s) /\ Placed(s, Top(s), Callers(s))
         /\ Top(s).fn = "process" => Top(s) \in ProcessFrames(s)
         /\ Top(s).fn = "synchronize_data" => Top(s) \in SyncFrames(s)
         /\ Top(s).fn = "MPI_Recv" => Top(s) \in RecvFrames
<1>1. Framed(s, stack[s])
  BY DEF Types, Calling
<1>2. Top(s) \in Frames(s) /\ Framed(s, Callers(s)) /\ Placed(s, Top(s), Callers(s))
  BY <1>1, PopFrame DEF Top, Callers
<1>3. \A f \in Frames(s) : /\ f.fn = "process" => f \in ProcessFrames(s)
                           /\ f.fn = "synchronize_data" => f \in SyncFrames(s)
                           /\ f.fn = "MPI_Recv" => f \in RecvFrames
  BY DEF Frames, ProcessFrames, SyncFrames, RecvFrames
<1> QED BY <1>1, <1>2, <1>3

\* process() starts on a request at the first step of its handler.
LEMMA ProcessFrame ==
  ASSUME NEW s \in Servers, NEW m \in CallsTo(s), NEW from \in Servers \cup Clients,
         from \in Servers => m.wait
  PROVE  /\ Process(m, from) \in ProcessFrames(s)
         /\ Process(m, from).fn = "process" /\ Process(m, from).from = from
         /\ FrameAt(s, Process(m, from))
<1> DEFINE at == CASE m.type = "SYNCHRONIZE_DATA_REQ"          -> "sync"
                   [] m.type = "SYNCHRONIZE_AND_PULL_DATA_REQ" -> "sync"
                   [] m.type = "PULL_DATA_REQ"                 -> "pull"
                   [] m.type = "CALCULATE_POWER_REQ"           -> "power"
<1>1. m.type \in RequestTypes
  BY DEF CallsTo
<1>2. at \in {"sync", "pull", "power", "respond"}
  BY <1>1, MessageKinds, Zenon
<1> HIDE DEF at
<1>3. Process(m, from) = [fn |-> "process", msg |-> m, from |-> from, data |-> NoData, at |-> at]
  BY DEF Process, at
<1> QED BY <1>2, <1>3 DEF ProcessFrames, FrameAt, Data

LEMMA StartFrame ==
  ASSUME NEW s \in Servers, NEW q, Framed(s, q), q # <<>> => Head(q).fn = "MPI_Recv",
         NEW m \in CallsTo(s), NEW from \in Servers \cup Clients, from \in Servers => m.wait
  PROVE  Framed(s, <<Process(m, from)>> \o q)
<1>1. /\ Process(m, from) \in ProcessFrames(s)
      /\ Process(m, from).fn = "process"
      /\ FrameAt(s, Process(m, from))
  BY ProcessFrame
<1> DEFINE f == Process(m, from)
<1> HIDE DEF f
<1>2. f \in Frames(s) /\ Placed(s, f, q)
  BY <1>1 DEF Frames, Placed, f
<1> QED BY <1>2, PushFrame DEF f

-----------------------------------------------------------------------------
\* Every step keeps the types

\* A step inside s, but for what it sends to other servers
LEMMA InsideTypes ==
  ASSUME Types, NEW s \in Servers, NEW q, Framed(s, q), stack' = [stack EXCEPT ![s] = q],
         Mailed(net'), reply' \in [Clients -> Seq(Messages)], ServersTyped',
         UNCHANGED <<inbox, clients>>
  PROVE  Types'
<1>1. Calling(stack')
  BY CallingStack DEF Types
<1>2. ClientsTyped'
  BY DEF Types, ClientsTyped, clients
<1> QED BY <1>1, <1>2 DEF Types

LEMMA ContinueTypes ==
  ASSUME Types, NEW s \in Servers, NEW q, Framed(s, q), Continue(s, q)
  PROVE  Types'
<1>1. UNCHANGED <<net, inbox, reply, responds, deferred, sendbuf, power, clients, failed>>
  BY DEF Continue, channels, memory
<1>2. ServersTyped' /\ Mailed(net') /\ reply' \in [Clients -> Seq(Messages)]
  BY <1>1 DEF Types, ServersTyped
<1> QED BY <1>1, <1>2, InsideTypes DEF Continue

\* A call of another server waits on top of the calls in progress.
LEMMA WaitFrame ==
  ASSUME NEW s \in Servers, NEW q, Framed(s, q), q # <<>>, Head(q).fn # "MPI_Recv",
         Head(q).fn = "synchronize_data" => Head(q).at = "pull", NEW type \in RequestTypes
  PROVE  /\ Framed(s, <<Recv(ResponseTo[type])>> \o q)
         /\ Recv(ResponseTo[type]) \in RecvFrames
<1> DEFINE f == Recv(ResponseTo[type])
<1>1. f \in RecvFrames /\ f.fn = "MPI_Recv"
  BY MessageKinds DEF Recv, RecvFrames
<1> HIDE DEF f
<1>2. f \in Frames(s) /\ Placed(s, f, q)
  BY <1>1 DEF Frames, Placed, FrameAt
<1> QED BY <1>1, <1>2, PushFrame DEF f

LEMMA CallServerTypes ==
  ASSUME Types, NEW s \in Servers, NEW type \in RequestTypes, NEW c \in Reaches(s), Owner[c] # s,
         NEW q, Framed(s, q), q # <<>>, Head(q).fn # "MPI_Recv",
         Head(q).fn = "synchronize_data" => Head(q).at = "pull",
         CallServer(s, type, c, q)
  PROVE  Types'
<1>1. /\ Owner[c] \in Servers
      /\ Request(type, c) \in Mail(Owner[c]) /\ Request(type, c) \in Messages
  BY CallsPeer DEF Messages
<1>2. /\ net' = [net EXCEPT ![s][Owner[c]] = Append(@, Request(type, c))]
      /\ sendbuf' = [sendbuf EXCEPT ![s] = Request(type, c)]
      /\ stack' = [stack EXCEPT ![s] = <<Recv(ResponseTo[type])>> \o q]
      /\ UNCHANGED <<inbox, reply, responds, deferred, power, clients, failed>>
  BY DEF CallServer
<1>3. Mailed(net')
  BY <1>1, <1>2, MailSent DEF Types
<1>4. ServersTyped' /\ reply' \in [Clients -> Seq(Messages)]
  BY <1>1, <1>2 DEF Types, ServersTyped
<1>5. Framed(s, <<Recv(ResponseTo[type])>> \o q)
  BY WaitFrame
<1> QED BY <1>2, <1>3, <1>4, <1>5, InsideTypes

\* process() starts on a message of a server, or is done with it at once.
LEMMA StartTypes ==
  ASSUME Types, NEW s \in Servers, NEW q, Framed(s, q), q # <<>> => Head(q).fn = "MPI_Recv",
         q = stack[s], NEW m \in Messages, NEW from \in Servers \cup Clients,
         IsRequest(m) => m \in CallsTo(s) /\ (from \in Servers => m.wait),
         StartProcess(s, m, from, q)
  PROVE  Calling(stack') /\ responds' \in [Servers -> BOOLEAN] /\ failed' \in BOOLEAN
<1> DEFINE p == IF IsRequest(m) THEN <<Process(m, from)>> \o q ELSE stack[s]
<1>1. Framed(s, p)
  BY StartFrame
<1>2. stack' = [stack EXCEPT ![s] = p]
  BY DEF StartProcess
<1> HIDE DEF p
<1>3. Calling(stack')
  BY <1>1, <1>2, CallingStack DEF Types
<1>4. responds' \in [Servers -> BOOLEAN] /\ failed' \in BOOLEAN
  BY DEF StartProcess, Types, ServersTyped, IsResponse
<1> QED BY <1>3, <1>4

\* An idle server has no call in progress; a waiting one waits on top.
LEMMA OnTop ==
  ASSUME Types, NEW s \in Servers, Idle(s) \/ Running(s, "MPI_Recv")
  PROVE  /\ Framed(s, stack[s])
         /\ stack[s] # <<>> => Head(stack[s]).fn = "MPI_Recv"
BY DEF Types, Calling, Idle, Running, Top

LEMMA HearServerTypes ==
  ASSUME Types, NEW s \in Servers, NEW r \in Servers, ListenServer(s, r) \/ RecvRequest(s, r)
  PROVE  Types'
<1> DEFINE m == Head(net[r][s])
<1>1. /\ net[r][s] # <<>> /\ net' = [net EXCEPT ![r][s] = Tail(@)]
      /\ StartProcess(s, m, r, stack[s])
      /\ Idle(s) \/ Running(s, "MPI_Recv")
      /\ UNCHANGED <<inbox, reply, deferred, sendbuf, power, clients>>
  BY DEF ListenServer, RecvRequest, Idle
<1>2. /\ Mailed(net') /\ m \in Messages
      /\ IsRequest(m) => m \in RequestsTo(s)
  BY <1>1, MailTaken DEF Types
<1>3. IsRequest(m) => m \in CallsTo(s) /\ m.wait
  BY <1>2, MailMessages
<1> HIDE DEF m
<1>4. /\ Framed(s, stack[s])
      /\ stack[s] # <<>> => Head(stack[s]).fn = "MPI_Recv"
  BY <1>1, OnTop
<1>5. Calling(stack') /\ responds' \in [Servers -> BOOLEAN] /\ failed' \in BOOLEAN
  BY <1>1, <1>2, <1>3, <1>4, StartTypes
<1>6. ServersTyped' /\ ClientsTyped' /\ reply' \in [Clients -> Seq(Messages)]
  BY <1>1, <1>5 DEF Types, ServersTyped, ClientsTyped, clients
<1> QED BY <1>2, <1>5, <1>6 DEF Types

LEMMA ListenClientTypes ==
  ASSUME Types, NEW s \in Servers, NEW k \in Clients, ListenClient(s, k)
  PROVE  Types'
<1> DEFINE m == Head(inbox[k])
<1>1. /\ inbox[k] # <<>> /\ inbox' = [inbox EXCEPT ![k] = Tail(@)] /\ Home[k] = s
      /\ StartProcess(s, m, k, stack[s])
      /\ Idle(s)
      /\ UNCHANGED <<net, reply, deferred, sendbuf, power, clients>>
  BY DEF ListenClient, Idle
<1>2. /\ m \in CallsTo(s)
      /\ Tail(inbox[k]) \in Seq(CallsTo(s)) /\ Tail(inbox[k]) \in Seq(RequestMessages)
  BY <1>1 DEF Types, ClientsTyped
<1>3. m \in Messages
  BY <1>2, MailMessages DEF Messages
<1>4. k \notin Servers
  BY RpcAssumption
<1> HIDE DEF m
<1>5. /\ Framed(s, stack[s])
      /\ stack[s] # <<>> => Head(stack[s]).fn = "MPI_Recv"
  BY <1>1, OnTop
<1>6. Calling(stack') /\ responds' \in [Servers -> BOOLEAN] /\ failed' \in BOOLEAN
  BY <1>1, <1>2, <1>3, <1>4, <1>5, StartTypes
<1>7. ServersTyped' /\ reply' \in [Clients -> Seq(Messages)]
  BY <1>1, <1>6 DEF Types, ServersTyped
<1>8. ClientsTyped'
  BY <1>1, <1>2 DEF Types, ClientsTyped, clients
<1>9. Mailed(net')
  BY <1>1 DEF Types
<1> QED BY <1>6, <1>7, <1>8, <1>9 DEF Types

\* What was put aside is no request.
LEMMA AsideMessage ==
  ASSUME Types, NEW s \in Servers, deferred[s] # <<>>
  PROVE  /\ Head(deferred[s]).msg \in Messages /\ Head(deferred[s]).from \in Servers
         /\ ~IsRequest(Head(deferred[s]).msg)
         /\ Tail(deferred[s]) \in Seq([msg : Messages \ RequestMessages, from : Servers])
<1> DEFINE E == [msg : Messages \ RequestMessages, from : Servers]
<1>1. \A e \in E : e.msg \in Messages /\ e.msg \notin RequestMessages /\ e.from \in Servers
  OBVIOUS
<1>2. deferred[s] \in Seq(E)
  BY DEF Types, ServersTyped
<1> HIDE DEF E
<1>3. Head(deferred[s]) \in E /\ Tail(deferred[s]) \in Seq(E)
  BY <1>2
<1>4. Head(deferred[s]).msg \in Messages /\ Head(deferred[s]).msg \notin RequestMessages
      /\ Head(deferred[s]).from \in Servers
  BY <1>1, <1>3
<1> QED BY <1>3, <1>4, KindOf DEF E

LEMMA ReprocessTypes ==
  ASSUME Types, NEW s \in Servers, Reprocess(s)
  PROVE  Types'
<1> DEFINE m == Head(deferred[s]).msg
           E == [msg : Messages \ RequestMessages, from : Servers]
<1>1. /\ deferred[s] # <<>> /\ deferred' = [deferred EXCEPT ![s] = Tail(@)]
      /\ StartProcess(s, m, Head(deferred[s]).from, stack[s])
      /\ Idle(s)
      /\ UNCHANGED <<net, inbox, reply, sendbuf, power, clients>>
  BY DEF Reprocess, Idle, channels
<1>2. /\ m \in Messages /\ Head(deferred[s]).from \in Servers /\ ~IsRequest(m)
      /\ Tail(deferred[s]) \in Seq(E)
  BY <1>1, AsideMessage
<1> HIDE DEF m
<1>3. /\ Framed(s, stack[s])
      /\ stack[s] # <<>> => Head(stack[s]).fn = "MPI_Recv"
  BY <1>1, OnTop
<1>4. Calling(stack') /\ responds' \in [Servers -> BOOLEAN] /\ failed' \in BOOLEAN
  BY <1>1, <1>2, <1>3, StartTypes
<1>5. deferred' \in [Servers -> Seq(E)]
  <2>1. deferred \in [Servers -> Seq(E)]
    BY DEF Types, ServersTyped
  <2> HIDE DEF E
  <2> QED BY <1>1, <1>2, <2>1
<1>6. ServersTyped' /\ reply' \in [Clients -> Seq(Messages)]
  BY <1>1, <1>4, <1>5 DEF Types, ServersTyped
<1>7. ClientsTyped' /\ Mailed(net')
  BY <1>1 DEF Types, ClientsTyped, clients
<1> QED BY <1>4, <1>6, <1>7 DEF Types

LEMMA RecvOtherTypes ==
  ASSUME Types, NEW s \in Servers, NEW r \in Servers, RecvOther(s, r)
  PROVE  Types'
<1> DEFINE m == Head(net[r][s])
           e == [msg |-> m, from |-> r]
           E == [msg : Messages \ RequestMessages, from : Servers]
<1>1. /\ net[r][s] # <<>> /\ net' = [net EXCEPT ![r][s] = Tail(@)]
      /\ ~IsRequest(m)
      /\ deferred' = [deferred EXCEPT ![s] = Append(@, e)]
      /\ UNCHANGED <<inbox, reply, stack, responds, sendbuf, power, clients, failed>>
  BY DEF RecvOther
<1>2. Mailed(net') /\ m \in Messages
  BY <1>1, MailTaken DEF Types
<1>3. e \in E
  BY <1>1, <1>2, KindOf
<1>4. deferred' \in [Servers -> Seq(E)]
  <2>1. deferred \in [Servers -> Seq(E)]
    BY DEF Types, ServersTyped
  <2> HIDE DEF E, e
  <2> QED BY <1>1, <1>3, <2>1
<1>5. ServersTyped' /\ reply' \in [Clients -> Seq(Messages)] /\ Calling(stack')
  BY <1>1, <1>4 DEF Types, ServersTyped
<1>6. ClientsTyped'
  BY <1>1 DEF Types, ClientsTyped, clients
<1> QED BY <1>2, <1>5, <1>6 DEF Types

\* The call on top goes on: another frame of the same function replaces it.
LEMMA SwapFrame ==
  ASSUME Types, NEW s \in Servers, stack[s] # <<>>, NEW f \in Frames(s), FrameAt(s, f),
         f.fn = Top(s).fn
  PROVE  /\ Framed(s, <<f>> \o Callers(s))
         /\ <<f>> \o Callers(s) # <<>>
         /\ Head(<<f>> \o Callers(s)) = f
<1>1. Framed(s, Callers(s)) /\ Placed(s, Top(s), Callers(s))
  BY TopFrame
<1>2. Placed(s, f, Callers(s))
  BY <1>1 DEF Placed
<1> QED BY <1>1, <1>2, PushFrame

\* A datum is added to the sum, and the next sub-component is synchronized.
LEMMA AddTyped ==
  ASSUME NEW s, NEW f \in SyncFrames(s), NEW d \in Nat, NEW g, g = Add(f, d)
  PROVE  /\ g \in SyncFrames(s)
         /\ g.fn = "synchronize_data" /\ f.fn = "synchronize_data"
         /\ g.comp = f.comp /\ g.at = "sync"
<1>1. g = [f EXCEPT !.sum = f.sum + d, !.child = f.child + 1, !.at = "sync"]
  BY DEF Add
<1>2. f.sum + d \in Nat /\ f.child + 1 \in Nat \ {0}
  BY DEF SyncFrames
<1> QED BY <1>1, <1>2 DEF SyncFrames

\* The call under a wait, when the awaited response m is there
Caller(s) == Head(Callers(s))

NoDatum(s, m) == m.type = "PULL_DATA_RES" /\ m.data = NoData /\ Caller(s).fn # "process"

LEMMA ReturnedFrame ==
  ASSUME Types, NEW s \in Servers, Running(s, "MPI_Recv"), NEW m \in ResponseMessages,
         ~NoDatum(s, m)
  PROVE  /\ Callers(s) # <<>> /\ Framed(s, Callers(s))
         /\ Caller(s) \in ProcessFrames(s) \cup SyncFrames(s)
         /\ Returned(Caller(s), m) \in Frames(s)
         /\ Returned(Caller(s), m).fn = Caller(s).fn
         /\ Caller(s).fn = "process" => Returned(Caller(s), m).from = Caller(s).from
         /\ Framed(s, <<Returned(Caller(s), m)>> \o Tail(Callers(s)))
<1> DEFINE f == Caller(s)
           g == Returned(f, m)
<1>1. /\ Callers(s) # <<>> /\ f.fn # "MPI_Recv"
      /\ f.fn = "synchronize_data" => f.at = "pull"
  BY TopFrame DEF Running, Placed, Caller
<1>2. Framed(s, Callers(s))
  BY TopFrame DEF Running
<1>3. /\ f \in Frames(s) /\ Framed(s, Tail(Callers(s)))
      /\ Placed(s, f, Tail(Callers(s)))
  BY <1>1, <1>2, PopFrame DEF Caller
<1>4. f \in ProcessFrames(s) \cup SyncFrames(s)
  BY <1>1, <1>3 DEF Frames, RecvFrames
<1>5. m.data \in Data
  BY DEF ResponseMessages, Data
<1>6. FrameAt(s, f)
  BY <1>3 DEF Placed
<1>7. /\ g \in Frames(s) /\ g.fn = f.fn /\ FrameAt(s, g)
      /\ f.fn = "process" => g.from = f.from
  <2>1. CASE m.type # "PULL_DATA_RES"
    <3>1. g = f
      BY <2>1, Zenon DEF Returned
    <3> QED BY <1>3, <1>6, <3>1
  <2>2. CASE m.type = "PULL_DATA_RES" /\ f.fn = "process"
    <3>1. g = [f EXCEPT !.data = m.data]
      BY <2>2, Zenon DEF Returned
    <3>2. f \in ProcessFrames(s)
      BY <1>4, <2>2 DEF SyncFrames
    <3>3. g \in ProcessFrames(s) /\ g.fn = f.fn /\ g.from = f.from /\ g.msg = f.msg
      BY <1>5, <3>1, <3>2 DEF ProcessFrames
    <3> QED BY <1>6, <2>2, <3>3 DEF FrameAt, Frames
  <2>3. CASE m.type = "PULL_DATA_RES" /\ f.fn # "process"
    <3>1. g = Add(f, m.data)
      BY <2>3, Zenon DEF Returned
    <3>2. f \in SyncFrames(s)
      BY <1>4, <2>3 DEF ProcessFrames
    <3>3. m.data \in Nat
      BY <1>5, <2>3 DEF NoDatum, Data
    <3>5. /\ g \in SyncFrames(s) /\ g.fn = "synchronize_data" /\ f.fn = "synchronize_data"
          /\ g.comp = f.comp /\ g.at = "sync"
      BY <3>1, <3>2, <3>3, AddTyped
    <3>6. f.comp \in Local(s)
      BY <1>1, <1>6, <3>5 DEF FrameAt
    <3> QED BY <2>3, <3>5, <3>6 DEF FrameAt, Frames
  <2> QED BY <2>1, <2>2, <2>3
<1> HIDE DEF f, g
<1>8. Placed(s, g, Tail(Callers(s)))
  BY <1>3, <1>7 DEF Placed
<1>9. Framed(s, <<g>> \o Tail(Callers(s)))
  BY <1>3, <1>7, <1>8, PushFrame
<1> QED BY <1>1, <1>2, <1>4, <1>7, <1>9 DEF f, g

LEMMA RecvResponseTypes ==
  ASSUME Types, NEW s \in Servers, NEW r \in Servers, RecvResponse(s, r)
  PROVE  Types'
<1> DEFINE m == Head(net[r][s])
<1>1. /\ net[r][s] # <<>> /\ net' = [net EXCEPT ![r][s] = Tail(@)]
      /\ Running(s, "MPI_Recv") /\ m.type = Top(s).type
      /\ \/ NoDatum(s, m) /\ failed' = TRUE /\ UNCHANGED stack
         \/ /\ ~NoDatum(s, m)
            /\ stack' = [stack EXCEPT ![s] = <<Returned(Caller(s), m)>> \o Tail(Callers(s))]
            /\ UNCHANGED failed
      /\ UNCHANGED <<inbox, reply, responds, deferred, sendbuf, power, clients>>
  BY DEF RecvResponse, Awaited, NoDatum, Caller, memory
<1>2. Mailed(net') /\ m \in Messages
  BY <1>1, MailTaken DEF Types
<1>3. m \in ResponseMessages
  <2>1. Top(s) \in RecvFrames
    BY <1>1, TopFrame DEF Running
  <2> QED BY <1>1, <1>2, <2>1, KindOf DEF RecvFrames, IsResponse
<1> HIDE DEF m
<1>4. ServersTyped' /\ reply' \in [Clients -> Seq(Messages)]
  BY <1>1 DEF Types, ServersTyped
<1>5. ClientsTyped'
  BY <1>1 DEF Types, ClientsTyped, clients
<1>6. Calling(stack')
  <2>1. CASE ~NoDatum(s, m)
    <3>1. Framed(s, <<Returned(Caller(s), m)>> \o Tail(Callers(s)))
      BY <1>1, <1>3, <2>1, ReturnedFrame
    <3>2. stack' = [stack EXCEPT ![s] = <<Returned(Caller(s), m)>> \o Tail(Callers(s))]
      BY <1>1, <2>1
    <3>3. Calling(stack)
      BY DEF Types
    <3> QED BY <3>1, <3>2, <3>3, CallingStack
  <2>2. CASE NoDatum(s, m)
    BY <1>1, <2>2 DEF Types
  <2> QED BY <2>1, <2>2
<1> QED BY <1>2, <1>4, <1>5, <1>6 DEF Types

\* A synchronize_data that has a component of its own
LEMMA SyncTop ==
  ASSUME Types, NEW s \in Servers, Running(s, "synchronize_data")
  PROVE  /\ Top(s) \in SyncFrames(s) /\ Top(s).comp \in Reaches(s)
         /\ Top(s).child \in Nat \ {0} /\ Top(s).sum \in Nat
         /\ stack[s] # <<>> /\ Callers(s) # <<>>
         /\ Framed(s, stack[s]) /\ Framed(s, Callers(s))
         /\ Head(Callers(s)).fn # "MPI_Recv"
         /\ Head(Callers(s)).fn = "synchronize_data" => Head(Callers(s)).at = "pull"
         /\ Top(s).at # "entry" => Top(s).comp \in Local(s)
         /\ Top(s).at = "pull" => Top(s).child <= Len(Children[Top(s).comp])
<1>1. stack[s] # <<>> /\ Top(s).fn = "synchronize_data"
  BY DEF Running
<1>2. /\ Framed(s, stack[s]) /\ Framed(s, Callers(s))
      /\ Placed(s, Top(s), Callers(s)) /\ Top(s) \in SyncFrames(s)
  BY <1>1, TopFrame
<1>3. /\ Top(s).comp \in Reaches(s) /\ Top(s).child \in Nat \ {0} /\ Top(s).sum \in Nat
  BY <1>2 DEF SyncFrames
<1> QED BY <1>1, <1>2, <1>3 DEF Placed, FrameAt

LEMMA SyncEntryTypes ==
  ASSUME Types, NEW s \in Servers, SyncEntry(s)
  PROVE  Types'
<1> DEFINE c == Top(s).comp
           g == [Top(s) EXCEPT !.at = "sync"]
<1>1. Running(s, "synchronize_data") /\ Top(s).at = "entry"
  BY DEF SyncEntry
<1>2. /\ Top(s) \in SyncFrames(s) /\ c \in Reaches(s)
      /\ stack[s] # <<>> /\ Callers(s) # <<>> /\ Framed(s, Callers(s))
      /\ Head(Callers(s)).fn # "MPI_Recv"
      /\ Head(Callers(s)).fn = "synchronize_data" => Head(Callers(s)).at = "pull"
  BY <1>1, SyncTop
<1>3. CASE Owner[c] # s
  <2>1. CallServer(s, "SYNCHRONIZE_DATA_REQ", c, Callers(s))
    BY <1>3, Zenon DEF SyncEntry
  <2>2. "SYNCHRONIZE_DATA_REQ" \in RequestTypes
    BY MessageKinds
  <2> HIDE DEF c
  <2> QED BY <1>2, <1>3, <2>1, <2>2, CallServerTypes
<1>4. CASE Owner[c] = s /\ (Leaf(c) \/ power[c] # NoData)
  <2>1. Continue(s, Callers(s))
    BY <1>4, Zenon DEF SyncEntry
  <2> QED BY <1>2, <2>1, ContinueTypes
<1>5. CASE Owner[c] = s /\ ~(Leaf(c) \/ power[c] # NoData)
  <2>1. Continue(s, <<g>> \o Callers(s))
    BY <1>5, Zenon DEF SyncEntry
  <2>2. c \in Local(s)
    BY <1>2, <1>5 DEF Local, Reaches
  <2>3. g \in SyncFrames(s) /\ g.fn = Top(s).fn /\ g.fn = "synchronize_data"
        /\ g.comp = c /\ g.at = "sync"
    BY <1>2 DEF SyncFrames
  <2> HIDE DEF g, c
  <2>4. g \in Frames(s) /\ FrameAt(s, g)
    BY <2>2, <2>3 DEF Frames, FrameAt
  <2> QED BY <1>2, <2>1, <2>3, <2>4, SwapFrame, ContinueTypes
<1> QED BY <1>3, <1>4, <1>5

\* The frames of a synchronize_data that calls itself for a sub-component
LEMMA SyncChildFrames ==
  ASSUME Types, NEW s \in Servers, Running(s, "synchronize_data"), Top(s).at = "sync",
         Top(s).child <= Len(Children[Top(s).comp])
  PROVE  LET f == Top(s)
             g == [f EXCEPT !.at = "pull"]
             d == SynchronizeData(Children[f.comp][f.child])
         IN  /\ g \in SyncFrames(s) /\ d \in SyncFrames(s)
             /\ Framed(s, <<g>> \o Callers(s))
             /\ Framed(s, <<d>> \o (<<g>> \o Callers(s)))
<1> DEFINE f == Top(s)
           g == [f EXCEPT !.at = "pull"]
           c == Children[f.comp][f.child]
           d == SynchronizeData(c)
<1>1. /\ f \in SyncFrames(s) /\ f.child \in Nat \ {0} /\ f.comp \in Local(s)
      /\ stack[s] # <<>>
  BY SyncTop
<1>2. c \in Reaches(s)
  BY <1>1, ChildReached
<1>3. /\ g \in SyncFrames(s) /\ g.fn = f.fn /\ g.fn = "synchronize_data"
      /\ g.comp = f.comp /\ g.child = f.child /\ g.at = "pull"
  BY <1>1 DEF SyncFrames
<1>4. d \in SyncFrames(s) /\ d.fn = "synchronize_data" /\ d.at = "entry"
  <2> HIDE DEF c
  <2> QED BY <1>2 DEF SyncFrames, SynchronizeData
<1> HIDE DEF g, d
<1>5. g \in Frames(s) /\ FrameAt(s, g)
  BY <1>1, <1>3 DEF Frames, FrameAt
<1>6. /\ Framed(s, <<g>> \o Callers(s))
      /\ <<g>> \o Callers(s) # <<>>
      /\ Head(<<g>> \o Callers(s)) = g
  BY <1>1, <1>3, <1>5, SwapFrame
<1>7. d \in Frames(s) /\ Placed(s, d, <<g>> \o Callers(s))
  BY <1>3, <1>4, <1>6 DEF Frames, Placed, FrameAt
<1>8. Framed(s, <<d>> \o (<<g>> \o Callers(s)))
  BY <1>6, <1>7, PushFrame
<1> QED BY <1>3, <1>4, <1>6, <1>8 DEF g, d

LEMMA SyncChildTypes ==
  ASSUME Types, NEW s \in Servers, SyncChild(s)
  PROVE  Types'
<1> DEFINE f == Top(s)
           g == [f EXCEPT !.at = "pull"]
           d == SynchronizeData(Children[f.comp][f.child])
<1>1. /\ Running(s, "synchronize_data") /\ f.at = "sync"
      /\ f.child <= Len(Children[f.comp])
      /\ Continue(s, <<d, g>> \o Callers(s))
  BY DEF SyncChild
<1>2. Framed(s, <<d>> \o (<<g>> \o Callers(s)))
  BY <1>1, SyncChildFrames
<1>3. IsSeq(Callers(s))
  BY <1>1, SyncTop, FramesSeq
<1> HIDE DEF d, g
<1>4. <<d, g>> \o Callers(s) = <<d>> \o (<<g>> \o Callers(s))
  BY <1>3, PushTwo
<1> QED BY <1>1, <1>2, <1>4, ContinueTypes

LEMMA AddFrame ==
  ASSUME Types, NEW s \in Servers, Running(s, "synchronize_data"), Top(s).at = "pull", NEW d \in Nat
  PROVE  /\ Add(Top(s), d) \in SyncFrames(s)
         /\ Framed(s, <<Add(Top(s), d)>> \o Callers(s))
<1> DEFINE f == Top(s)
           g == Add(f, d)
<1>1. f \in SyncFrames(s) /\ f.comp \in Local(s) /\ stack[s] # <<>>
  BY SyncTop
<1>2. g = Add(f, d)
  OBVIOUS
<1> HIDE DEF g
<1>3. /\ g \in SyncFrames(s) /\ g.fn = f.fn /\ g.fn = "synchronize_data"
      /\ g.comp = f.comp /\ g.at = "sync"
  BY <1>1, <1>2, AddTyped
<1>4. g \in Frames(s) /\ FrameAt(s, g)
  BY <1>1, <1>3 DEF Frames, FrameAt
<1>5. Framed(s, <<g>> \o Callers(s))
  BY <1>1, <1>3, <1>4, SwapFrame
<1> QED BY <1>3, <1>5 DEF g

LEMMA PullChildTypes ==
  ASSUME Types, NEW s \in Servers, PullChild(s)
  PROVE  Types'
<1> DEFINE f == Top(s)
           c == Children[f.comp][f.child]
<1>1. Running(s, "synchronize_data") /\ f.at = "pull"
  BY DEF PullChild
<1>2. /\ f \in SyncFrames(s) /\ f.child \in Nat \ {0} /\ f.comp \in Local(s)
      /\ f.child <= Len(Children[f.comp])
      /\ stack[s] # <<>> /\ Framed(s, stack[s])
      /\ f.fn = "synchronize_data"
  BY <1>1, SyncTop DEF Running
<1>3. c \in Reaches(s)
  BY <1>2, ChildReached
<1>4. power[c] \in Data
  BY <1>3 DEF Types, ServersTyped, Reaches
<1>5. CASE Owner[c] # s
  <2>1. CallServer(s, "PULL_DATA_REQ", c, stack[s])
    BY <1>5, Zenon DEF PullChild
  <2>2. "PULL_DATA_REQ" \in RequestTypes
    BY MessageKinds
  <2>3. Head(stack[s]).fn # "MPI_Recv" /\ Head(stack[s]).at = "pull"
    BY <1>1, <1>2 DEF Top
  <2> HIDE DEF c
  <2> QED BY <1>2, <1>3, <1>5, <2>1, <2>2, <2>3, CallServerTypes
<1>6. CASE Owner[c] = s /\ power[c] = NoData
  <2>1. Error
    BY <1>6, Zenon DEF PullChild
  <2>2. failed' = TRUE /\ UNCHANGED <<net, reply, stack, deferred, responds, sendbuf, power>>
        /\ UNCHANGED <<inbox, todo, waiting, answer>>
    BY <2>1 DEF Error, channels, memory, clients
  <2> QED BY <2>2 DEF Types, ServersTyped, ClientsTyped
<1>7. CASE Owner[c] = s /\ power[c] # NoData
  <2>1. Continue(s, <<Add(f, power[c])>> \o Callers(s))
    BY <1>7, Zenon DEF PullChild
  <2>2. power[c] \in Nat
    BY <1>4, <1>7 DEF Data
  <2> HIDE DEF c
  <2>3. Framed(s, <<Add(f, power[c])>> \o Callers(s))
    BY <1>1, <2>2, AddFrame
  <2> QED BY <2>1, <2>3, ContinueTypes
<1> QED BY <1>5, <1>6, <1>7

LEMMA SyncReturnTypes ==
  ASSUME Types, NEW s \in Servers, SyncReturn(s)
  PROVE  Types'
<1> DEFINE f == Top(s)
<1>1. /\ Running(s, "synchronize_data")
      /\ power' = [power EXCEPT ![f.comp] = f.sum]
      /\ stack' = [stack EXCEPT ![s] = Callers(s)]
      /\ UNCHANGED <<net, inbox, reply, responds, deferred, sendbuf, clients, failed>>
  BY DEF SyncReturn, channels, memory
<1>2. f.sum \in Nat /\ Framed(s, Callers(s))
  BY <1>1, SyncTop
<1> HIDE DEF f
<1>3. ServersTyped' /\ reply' \in [Clients -> Seq(Messages)] /\ Mailed(net')
  BY <1>1, <1>2 DEF Types, ServersTyped, Data
<1> QED BY <1>1, <1>2, <1>3, InsideTypes

\* A process() that runs the next step of its handler
LEMMA ProcessTop ==
  ASSUME Types, NEW s \in Servers, Running(s, "process")
  PROVE  /\ Top(s) \in ProcessFrames(s) /\ Top(s).msg \in CallsTo(s)
         /\ Top(s).msg.comp \in Reaches(s) /\ Top(s).msg.type \in RequestTypes
         /\ Top(s).from \in Servers \cup Clients /\ Top(s).data \in Data
         /\ Top(s).from \in Servers => Top(s).msg.wait
         /\ Top(s).msg.wait \in BOOLEAN
         /\ stack[s] # <<>> /\ Framed(s, stack[s]) /\ Framed(s, Callers(s))
<1>1. stack[s] # <<>> /\ Top(s).fn = "process"
  BY DEF Running
<1>2. /\ Framed(s, stack[s]) /\ Framed(s, Callers(s))
      /\ Placed(s, Top(s), Callers(s)) /\ Top(s) \in ProcessFrames(s)
  BY <1>1, TopFrame
<1>3. /\ Top(s).msg \in CallsTo(s) /\ Top(s).from \in Servers \cup Clients /\ Top(s).data \in Data
  BY <1>2 DEF ProcessFrames
<1>4. /\ Top(s).msg.comp \in Reaches(s) /\ Top(s).msg.type \in RequestTypes
      /\ Top(s).msg.wait \in BOOLEAN
  BY <1>3 DEF CallsTo
<1> QED BY <1>1, <1>2, <1>3, <1>4 DEF Placed, FrameAt

LEMMA SwapProcess ==
  ASSUME Types, NEW s \in Servers, Running(s, "process"), NEW f \in ProcessFrames(s),
         f.msg = Top(s).msg, f.from = Top(s).from
  PROVE  /\ Framed(s, <<f>> \o Callers(s))
         /\ <<f>> \o Callers(s) # <<>>
         /\ Head(<<f>> \o Callers(s)) = f
         /\ f.fn = "process"
<1>1. f.fn = "process" /\ f.fn = Top(s).fn /\ stack[s] # <<>>
  BY DEF ProcessFrames, Running
<1>2. f \in Frames(s) /\ FrameAt(s, f)
  BY <1>1, ProcessTop DEF Frames, FrameAt
<1> QED BY <1>1, <1>2, SwapFrame

\* The next step of the handler, and the datum it may have read
LEMMA NextAt ==
  ASSUME NEW s, NEW f \in ProcessFrames(s), NEW at \in {"sync", "pull", "power", "respond"}
  PROVE  /\ [f EXCEPT !.at = at] \in ProcessFrames(s)
         /\ [f EXCEPT !.at = at].msg = f.msg /\ [f EXCEPT !.at = at].from = f.from
BY DEF ProcessFrames

LEMMA DatumRead ==
  ASSUME NEW s, NEW f \in ProcessFrames(s), NEW d \in Data
  PROVE  /\ [f EXCEPT !.at = "respond", !.data = d] \in ProcessFrames(s)
         /\ [f EXCEPT !.at = "respond", !.data = d].msg = f.msg
         /\ [f EXCEPT !.at = "respond", !.data = d].from = f.from
BY DEF ProcessFrames

LEMMA HandleSyncFrames ==
  ASSUME Types, NEW s \in Servers, Running(s, "process"), NEW at \in {"respond", "pull"}
  PROVE  LET f == Top(s)
             g == [f EXCEPT !.at = at]
             d == SynchronizeData(f.msg.comp)
         IN  /\ g \in ProcessFrames(s) /\ g.from = f.from /\ d \in SyncFrames(s)
             /\ Framed(s, <<g>> \o Callers(s))
             /\ Framed(s, <<d>> \o (<<g>> \o Callers(s)))
<1> DEFINE f == Top(s)
           g == [f EXCEPT !.at = at]
           d == SynchronizeData(f.msg.comp)
<1>1. f \in ProcessFrames(s) /\ f.msg.comp \in Reaches(s)
  BY ProcessTop
<1>2. g \in ProcessFrames(s) /\ g.msg = f.msg /\ g.from = f.from
  BY <1>1, NextAt
<1>3. d \in SyncFrames(s) /\ d.fn = "synchronize_data" /\ d.at = "entry"
  BY <1>1 DEF SyncFrames, SynchronizeData
<1> HIDE DEF g, d
<1>4. /\ Framed(s, <<g>> \o Callers(s))
      /\ <<g>> \o Callers(s) # <<>>
      /\ Head(<<g>> \o Callers(s)) = g
      /\ g.fn = "process"
  BY <1>1, <1>2, SwapProcess
<1>5. d \in Frames(s) /\ Placed(s, d, <<g>> \o Callers(s))
  BY <1>3, <1>4 DEF Frames, Placed, FrameAt
<1>6. Framed(s, <<d>> \o (<<g>> \o Callers(s)))
  BY <1>4, <1>5, PushFrame
<1> QED BY <1>2, <1>3, <1>4, <1>6 DEF g, d

LEMMA HandleSyncTypes ==
  ASSUME Types, NEW s \in Servers, HandleSync(s)
  PROVE  Types'
<1> DEFINE f == Top(s)
           at == IF f.msg.type = "SYNCHRONIZE_DATA_REQ" THEN "respond" ELSE "pull"
           g == [f EXCEPT !.at = at]
           d == SynchronizeData(f.msg.comp)
<1>1. Running(s, "process") /\ Continue(s, <<d, g>> \o Callers(s))
  BY DEF HandleSync
<1>2. at \in {"respond", "pull"}
  OBVIOUS
<1> HIDE DEF at
<1>3. Framed(s, <<d>> \o (<<g>> \o Callers(s)))
  BY <1>1, <1>2, HandleSyncFrames
<1>4. IsSeq(Callers(s))
  BY <1>1, ProcessTop, FramesSeq
<1> HIDE DEF d, g
<1>5. <<d, g>> \o Callers(s) = <<d>> \o (<<g>> \o Callers(s))
  BY <1>4, PushTwo
<1> QED BY <1>1, <1>3, <1>5, ContinueTypes

LEMMA HandlePullTypes ==
  ASSUME Types, NEW s \in Servers, HandlePull(s)
  PROVE  Types'
<1> DEFINE f == Top(s)
           c == f.msg.comp
           g == [f EXCEPT !.at = "respond"]
           h == [f EXCEPT !.at = "respond", !.data = power[c]]
<1>1. /\ Running(s, "process")
      /\ IF Owner[c] = s THEN Continue(s, <<h>> \o Callers(s))
                         ELSE CallServer(s, "PULL_DATA_REQ", c, <<g>> \o Callers(s))
  BY DEF HandlePull
<1>2. f \in ProcessFrames(s) /\ c \in Reaches(s)
  BY <1>1, ProcessTop
<1>3. power[c] \in Data
  BY <1>2 DEF Types, ServersTyped, Reaches
<1>4. /\ g \in ProcessFrames(s) /\ g.msg = f.msg /\ g.from = f.from
      /\ h \in ProcessFrames(s) /\ h.msg = f.msg /\ h.from = f.from
  <2> HIDE DEF c
  <2>1. g \in ProcessFrames(s) /\ g.msg = f.msg /\ g.from = f.from
    BY <1>2, NextAt
  <2>2. h \in ProcessFrames(s) /\ h.msg = f.msg /\ h.from = f.from
    BY <1>2, <1>3, DatumRead
  <2> QED BY <2>1, <2>2
<1> HIDE DEF g, h, c
<1>5. CASE Owner[c] = s
  <2>1. Framed(s, <<h>> \o Callers(s))
    BY <1>1, <1>4, SwapProcess
  <2> QED BY <1>1, <1>5, <2>1, ContinueTypes
<1>6. CASE Owner[c] # s
  <2>1. /\ Framed(s, <<g>> \o Callers(s))
        /\ <<g>> \o Callers(s) # <<>>
        /\ Head(<<g>> \o Callers(s)).fn = "process"
    BY <1>1, <1>4, SwapProcess
  <2>2. "PULL_DATA_REQ" \in RequestTypes
    BY MessageKinds
  <2> QED BY <1>1, <1>2, <1>6, <2>1, <2>2, CallServerTypes
<1> QED BY <1>5, <1>6

LEMMA HandlePowerTypes ==
  ASSUME Types, NEW s \in Servers, HandlePower(s)
  PROVE  Types'
<1> DEFINE f == Top(s)
           c == f.msg.comp
           g == [f EXCEPT !.at = "respond"]
           q == <<g>> \o Callers(s)
<1>1. /\ Running(s, "process")
      /\ IF Owner[c] # s
           THEN CallServer(s, "CALCULATE_POWER_REQ", c, q)
           ELSE /\ power' = [power EXCEPT ![c] = Watts[c]]
                /\ stack' = [stack EXCEPT ![s] = q]
                /\ UNCHANGED <<channels, memory, clients, failed>>
  BY DEF HandlePower
<1>2. f \in ProcessFrames(s) /\ c \in Reaches(s)
  BY <1>1, ProcessTop
<1>3. g \in ProcessFrames(s) /\ g.msg = f.msg /\ g.from = f.from
  BY <1>2, NextAt
<1> HIDE DEF g, c
<1>4. Framed(s, q) /\ q # <<>> /\ Head(q).fn = "process"
  BY <1>1, <1>3, SwapProcess
<1> HIDE DEF q
<1>5. CASE Owner[c] # s
  <2>1. "CALCULATE_POWER_REQ" \in RequestTypes
    BY MessageKinds
  <2> QED BY <1>1, <1>2, <1>4, <1>5, <2>1, CallServerTypes
<1>6. CASE Owner[c] = s
  <2>1. /\ power' = [power EXCEPT ![c] = Watts[c]]
        /\ stack' = [stack EXCEPT ![s] = q]
        /\ UNCHANGED <<net, inbox, reply, responds, deferred, sendbuf, clients, failed>>
    BY <1>1, <1>6 DEF channels, memory
  <2>2. Watts[c] \in Nat
    BY <1>2, TreeAssumption DEF Reaches
  <2>3. power' \in [Components -> Data]
    BY <2>1, <2>2 DEF Types, ServersTyped, Data
  <2>4. ServersTyped' /\ reply' \in [Clients -> Seq(Messages)] /\ Mailed(net')
    BY <2>1, <2>3 DEF Types, ServersTyped
  <2> QED BY <1>4, <2>1, <2>4, InsideTypes
<1> QED BY <1>5, <1>6

\* What process() sends at its end: the response, if the caller waits for one
LEMMA RespondMessage ==
  ASSUME Types, NEW s \in Servers, Respond(s),
         NEW m, m = IF Top(s).msg.wait THEN Response(ResponseTo[Top(s).msg.type], Top(s).data)
                                       ELSE sendbuf[s]
  PROVE  /\ m \in Messages
         /\ Top(s).from \in Servers => m \in ResponseMessages /\ responds'[s]
         /\ \A x : m \in ResponseMessages => m \in Mail(x)
<1>1. Running(s, "process") /\ responds' = [responds EXCEPT ![s] = @ \/ Top(s).msg.wait]
  BY DEF Respond
<1>2. /\ Top(s).msg.type \in RequestTypes /\ Top(s).data \in Data
      /\ Top(s).from \in Servers => Top(s).msg.wait
  BY <1>1, ProcessTop
<1>3. Response(ResponseTo[Top(s).msg.type], Top(s).data) \in ResponseMessages
  BY <1>2, MessageKinds DEF Response, ResponseMessages, Data
<1>4. sendbuf[s] \in Messages /\ responds \in [Servers -> BOOLEAN]
  BY DEF Types, ServersTyped
<1>5. Top(s).from \in Servers => responds'[s]
  BY <1>1, <1>2, <1>4
<1> QED BY <1>2, <1>3, <1>4, <1>5 DEF Messages, Mail

LEMMA RespondTypes ==
  ASSUME Types, NEW s \in Servers, Respond(s)
  PROVE  Types'
<1> DEFINE f == Top(s)
           m == IF f.msg.wait THEN Response(ResponseTo[f.msg.type], f.data) ELSE sendbuf[s]
<1>1. /\ Running(s, "process")
      /\ sendbuf' = [sendbuf EXCEPT ![s] = m]
      /\ responds' = [responds EXCEPT ![s] = @ \/ f.msg.wait]
      /\ IF responds'[s] THEN SendTo(s, f.from, m) ELSE UNCHANGED <<net, reply>>
      /\ stack' = [stack EXCEPT ![s] = Callers(s)]
      /\ UNCHANGED <<inbox, deferred, power, clients, failed>>
  BY DEF Respond
<1>2. /\ m \in Messages
      /\ f.from \in Servers => m \in Mail(f.from) /\ responds'[s]
  BY RespondMessage
<1>3. /\ Framed(s, Callers(s)) /\ f.from \in Servers \cup Clients
      /\ f.msg.wait \in BOOLEAN
  BY <1>1, ProcessTop
<1>4. ServersTyped'
  BY <1>1, <1>2, <1>3 DEF Types, ServersTyped
<1> HIDE DEF m
<1>5. Mailed(net') /\ reply' \in [Clients -> Seq(Messages)]
  <2>1. CASE f.from \in Servers
    <3>1. net' = [net EXCEPT ![s][f.from] = Append(@, m)] /\ reply' = reply
      BY <1>1, <1>2, <2>1 DEF SendTo
    <3> QED BY <1>2, <2>1, <3>1, MailSent DEF Types
  <2>2. CASE f.from \notin Servers /\ responds'[s]
    <3>1. reply' = [reply EXCEPT ![f.from] = Append(@, m)] /\ net' = net
      BY <1>1, <2>2 DEF SendTo
    <3> QED BY <1>2, <1>3, <2>2, <3>1 DEF Types
  <2>3. CASE ~responds'[s]
    BY <1>1, <2>3 DEF Types
  <2> QED BY <2>1, <2>2, <2>3
<1> QED BY <1>1, <1>3, <1>4, <1>5, InsideTypes

LEMMA ClientTypes ==
  ASSUME Types, NEW k \in Clients, ClientCall(k) \/ ClientReturn(k)
  PROVE  Types'
<1>1. CASE ClientCall(k)
  <2> DEFINE m == Head(todo[k])
  <2>1. /\ todo[k] # <<>>
        /\ todo' = [todo EXCEPT ![k] = Tail(@)]
        /\ inbox' = [inbox EXCEPT ![k] = Append(@, m)]
        /\ waiting' = [waiting EXCEPT ![k] = IF m.wait THEN ResponseTo[m.type] ELSE NoCall]
        /\ UNCHANGED <<net, reply, stack, responds, deferred, sendbuf, power, answer, failed>>
    BY <1>1 DEF ClientCall, memory
  <2>2. todo[k] \in Seq(CallsTo(Home[k])) /\ todo[k] \in Seq(RequestMessages)
    BY DEF Types, ClientsTyped
  <2>3. /\ m \in CallsTo(Home[k]) /\ Tail(todo[k]) \in Seq(CallsTo(Home[k]))
        /\ m \in RequestMessages /\ Tail(todo[k]) \in Seq(RequestMessages)
    BY <2>1, <2>2, HeadTailProperties
  <2>4. ResponseTo[m.type] \in ResponseTypes
    BY <2>3, MessageKinds DEF RequestMessages
  <2> HIDE DEF m
  <2>5. /\ inbox' \in [Clients -> Seq(RequestMessages)]
        /\ todo' \in [Clients -> Seq(RequestMessages)]
        /\ waiting' \in [Clients -> ResponseTypes \cup {NoCall}]
    BY <2>1, <2>3, <2>4 DEF Types, ClientsTyped
  <2>6. ASSUME NEW x \in Clients
        PROVE  inbox'[x] \in Seq(CallsTo(Home[x])) /\ todo'[x] \in Seq(CallsTo(Home[x]))
    <3>1. inbox[x] \in Seq(CallsTo(Home[x])) /\ todo[x] \in Seq(CallsTo(Home[x]))
      BY DEF Types, ClientsTyped
    <3>2. /\ inbox'[x] = IF x = k THEN Append(inbox[x], m) ELSE inbox[x]
          /\ todo'[x] = IF x = k THEN Tail(todo[k]) ELSE todo[x]
      BY <2>1 DEF Types, ClientsTyped
    <3>3. CASE x = k
      BY <2>3, <3>1, <3>2, <3>3, AppendProperties
    <3>4. CASE x # k
      BY <3>1, <3>2, <3>4
    <3> QED BY <3>3, <3>4
  <2>7. ClientsTyped'
    BY <2>1, <2>5, <2>6 DEF Types, ClientsTyped
  <2> QED BY <2>1, <2>7 DEF Types, ServersTyped
<1>2. CASE ClientReturn(k)
  <2> DEFINE m == Head(reply[k])
  <2>1. /\ reply[k] # <<>>
        /\ waiting[k] # NoCall
        /\ reply' = [reply EXCEPT ![k] = Tail(@)]
        /\ waiting' = [waiting EXCEPT ![k] = NoCall]
        /\ failed' = (m.type # waiting[k])
        /\ answer' = [answer EXCEPT ![k] =
                         IF m.type = waiting[k] /\ m.data # NoData THEN m.data ELSE @]
        /\ UNCHANGED <<net, inbox, stack, responds, deferred, sendbuf, power, todo>>
    BY <1>2 DEF ClientReturn, memory
  <2>2. reply[k] \in Seq(Messages) /\ waiting[k] \in ResponseTypes
    BY <2>1 DEF Types, ClientsTyped
  <2>3. m \in Messages /\ Tail(reply[k]) \in Seq(Messages)
    BY <2>1, <2>2
  <2> HIDE DEF m
  <2>4. m.type = waiting[k] => m.data \in Data
    <3>1. m.type = waiting[k] => m \in ResponseMessages
      BY <2>2, <2>3, KindOf DEF IsResponse
    <3> QED BY <3>1 DEF ResponseMessages, Data
  <2>5. answer' \in [Clients -> Data] /\ waiting' \in [Clients -> ResponseTypes \cup {NoCall}]
    BY <2>1, <2>4 DEF Types, ClientsTyped
  <2>6. ClientsTyped'
    BY <2>1, <2>5 DEF Types, ClientsTyped
  <2>7. ServersTyped' /\ reply' \in [Clients -> Seq(Messages)]
    BY <2>1, <2>3 DEF Types, ServersTyped
  <2> QED BY <2>1, <2>6, <2>7 DEF Types
<1> QED BY <1>1, <1>2

LEMMA TypesStep ==
  ASSUME Types, [Next]_vars
  PROVE  Types'
<1>1. ASSUME NEW s \in Servers, ServerStep(s)
      PROVE  Types'
  BY <1>1, HearServerTypes, RecvOtherTypes, RecvResponseTypes, ListenClientTypes, ReprocessTypes,
     SyncEntryTypes, SyncChildTypes, PullChildTypes, SyncReturnTypes,
     HandleSyncTypes, HandlePullTypes, HandlePowerTypes, RespondTypes DEF ServerStep
<1>2. CASE UNCHANGED vars
  BY <1>2 DEF Types, ServersTyped, ClientsTyped, vars, channels, memory, clients
<1> QED BY <1>1, <1>2, ClientTypes DEF Next

LEMMA TypesInit ==
  ASSUME Init
  PROVE  Types
<1>1. \A S : <<>> \in Seq(S)
  OBVIOUS
<1>2. ServerReady \in Messages /\ \A s : ServerReady \in Mail(s)
  BY DEF Messages, Mail
<1>3. Mailed(net)
  BY <1>1, <1>2 DEF Init, Mailed
<1>4. Calling(stack)
  <2>1. \A s : Framed(s, <<>>)
    BY <1>1 DEF Framed, Stacked
  <2> QED BY <2>1 DEF Init, Calling
<1>5. ServersTyped
  <2>1. Response("SYNCHRONIZE_DATA_RES", NoData) \in Messages
    BY MessageKinds DEF Response, Messages, ResponseMessages
  <2> QED BY <1>1, <2>1 DEF Init, ServersTyped, Data
<1>6. ClientsTyped
  <2>1. todo \in [Clients -> Seq(RequestMessages)]
    BY ProgramsAssumption DEF Init
  <2>2. ASSUME NEW k \in Clients
        PROVE  todo[k] \in Seq(CallsTo(Home[k]))
    <3>1. /\ todo[k] \in Seq(RequestMessages)
          /\ \A i \in DOMAIN todo[k] : Owner[todo[k][i].comp] \in {Home[k], Peer[Home[k]]}
      BY <2>1, ProgramsAssumption DEF Init
    <3>2. /\ Len(todo[k]) \in Nat /\ DOMAIN todo[k] = 1 .. Len(todo[k])
          /\ \A i \in 1 .. Len(todo[k]) : todo[k][i] \in RequestMessages
      BY <3>1, LenProperties, ElementOfSeq
    <3>3. \A i \in 1 .. Len(todo[k]) : todo[k][i] \in CallsTo(Home[k])
      BY <3>1, <3>2 DEF CallsTo, Reaches, RequestMessages
    <3> QED BY <3>1, <3>2, <3>3
  <2> QED BY <1>1, <2>1, <2>2 DEF Init, ClientsTyped, Data
<1> QED BY <1>1, <1>3, <1>4, <1>5, <1>6 DEF Init, Types

-----------------------------------------------------------------------------
\* Every server hears of every other once

LEMMA AnnouncingTypes ==
  ASSUME Announcing
  PROVE  NetType(Servers, net) /\ ready \in [Servers -> Nat]
BY DEF Announcing, Announced, MailTypes

\* Requests and responses announce nothing.
LEMMA SentAnnounces ==
  ASSUME Announcing, NEW s \in Servers, NEW x, NEW m, m # ServerReady,
         net' = [net EXCEPT ![s][x] = Append(@, m)], UNCHANGED <<deferred, ready>>
  PROVE  Announcing'
<1> DEFINE L == [r \in Servers |-> {}]
<1>1. Announced(Servers, ServerReady, net, L, deferred, ready)
  BY DEF Announcing
<1>2. NetType(Servers, net)
  BY AnnouncingTypes
<1> HIDE DEF L
<1>3. Quiet(Servers, ServerReady, net, [net EXCEPT ![s][x] = Append(@, m)])
  BY <1>2, SendQuiet
<1>4. Announced(Servers, ServerReady, net', L, deferred, ready)
  BY <1>1, <1>3, QuietAnnounced
<1> QED BY <1>4 DEF Announcing, L

LEMMA StartReady ==
  ASSUME NEW s, NEW m, NEW from, NEW q, StartProcess(s, m, from, q), ready \in [Servers -> Nat]
  PROVE  /\ m = ServerReady => ready' = [ready EXCEPT ![s] = @ - 1]
         /\ m # ServerReady => ready' = ready
BY DEF StartProcess

LEMMA HearServerAnnounces ==
  ASSUME Announcing, NEW s \in Servers, NEW r \in Servers, ListenServer(s, r) \/ RecvRequest(s, r)
  PROVE  Announcing'
<1> DEFINE L == [x \in Servers |-> {}]
           m == Head(net[r][s])
           M == [net EXCEPT ![r][s] = Tail(@)]
<1>1. /\ net[r][s] # <<>> /\ net' = M
      /\ StartProcess(s, m, r, stack[s])
      /\ deferred' = deferred
  BY DEF ListenServer, RecvRequest, Idle
<1>2. Announced(Servers, ServerReady, net, L, deferred, ready)
  BY DEF Announcing
<1>3. NetType(Servers, net) /\ ready \in [Servers -> Nat]
  BY AnnouncingTypes
<1> HIDE DEF L
<1>4. Announced(Servers, ServerReady, M, L, deferred, ready')
  <2>1. CASE m = ServerReady
    <3>1. ready' = [ready EXCEPT ![s] = @ - 1]
      BY <1>1, <1>3, <2>1, StartReady
    <3>2. Announced(Servers, ServerReady, M, L, deferred, [ready EXCEPT ![s] = @ - 1])
      BY <1>1, <1>2, <2>1, RpcAssumption, TakeLastWord
    <3> QED BY <3>1, <3>2
  <2>2. CASE m # ServerReady
    <3>1. ready' = ready
      BY <1>1, <1>3, <2>2, StartReady
    <3>2. Quiet(Servers, ServerReady, net, M)
      BY <1>1, <1>3, <2>2, TakeQuiet
    <3> HIDE DEF M
    <3>3. Announced(Servers, ServerReady, M, L, deferred, ready)
      BY <1>2, <3>2, QuietAnnounced
    <3> QED BY <3>1, <3>3
  <2> QED BY <2>1, <2>2
<1> QED BY <1>1, <1>4 DEF Announcing, L

LEMMA ReprocessAnnounces ==
  ASSUME Announcing, NEW s \in Servers, Reprocess(s)
  PROVE  Announcing'
<1> DEFINE L == [x \in Servers |-> {}]
           m == Head(deferred[s]).msg
           G == [deferred EXCEPT ![s] = Tail(@)]
<1>1. /\ deferred[s] # <<>> /\ deferred' = G /\ net' = net
      /\ StartProcess(s, m, Head(deferred[s]).from, <<>>)
  BY DEF Reprocess, channels
<1>2. Announced(Servers, ServerReady, net, L, deferred, ready)
  BY DEF Announcing
<1>3. ready \in [Servers -> Nat]
  BY AnnouncingTypes
<1> HIDE DEF L
<1>4. Announced(Servers, ServerReady, net, L, G, ready')
  <2>1. CASE m = ServerReady
    <3>1. ready' = [ready EXCEPT ![s] = @ - 1]
      BY <1>1, <1>3, <2>1, StartReady
    <3>2. Announced(Servers, ServerReady, net, L, G, [ready EXCEPT ![s] = @ - 1])
      BY <1>1, <1>2, <2>1, RpcAssumption, ResumeLastWord
    <3> QED BY <3>1, <3>2
  <2>2. CASE m # ServerReady
    <3>1. ready' = ready
      BY <1>1, <1>3, <2>2, StartReady
    <3>2. Announced(Servers, ServerReady, net, L, G, ready)
      BY <1>1, <1>2, <2>2, ResumeQuiet
    <3> QED BY <3>1, <3>2
  <2> QED BY <2>1, <2>2
<1> QED BY <1>1, <1>4 DEF Announcing, L

LEMMA RecvOtherAnnounces ==
  ASSUME Announcing, NEW s \in Servers, NEW r \in Servers, RecvOther(s, r)
  PROVE  Announcing'
<1> DEFINE L == [x \in Servers |-> {}]
           M == [net EXCEPT ![r][s] = Tail(@)]
           G == [deferred EXCEPT ![s] = Append(@, [msg |-> Head(net[r][s]), from |-> r])]
<1>1. net[r][s] # <<>> /\ net' = M /\ deferred' = G /\ ready' = ready
  BY DEF RecvOther
<1>2. Announced(Servers, ServerReady, net, L, deferred, ready)
  BY DEF Announcing
<1> HIDE DEF L
<1>3. Announced(Servers, ServerReady, M, L, G, ready)
  BY <1>1, <1>2, PutAside
<1> QED BY <1>1, <1>3 DEF Announcing, L

\* The response that is awaited announces nothing.
LEMMA RecvResponseAnnounces ==
  ASSUME Types, Announcing, NEW s \in Servers, NEW r \in Servers, RecvResponse(s, r)
  PROVE  Announcing'
<1> DEFINE L == [x \in Servers |-> {}]
           m == Head(net[r][s])
           M == [net EXCEPT ![r][s] = Tail(@)]
<1>1. /\ net[r][s] # <<>> /\ net' = M /\ deferred' = deferred /\ ready' = ready
      /\ Running(s, "MPI_Recv") /\ m.type = Top(s).type
  BY DEF RecvResponse, Awaited, memory
<1>2. m \in Messages /\ Top(s) \in RecvFrames
  BY <1>1, MailTaken, TopFrame DEF Types, Running
<1>3. m # ServerReady
  BY <1>1, <1>2, KindOf DEF RecvFrames, IsResponse
<1>4. Announced(Servers, ServerReady, net, L, deferred, ready)
  BY DEF Announcing
<1>5. NetType(Servers, net)
  BY AnnouncingTypes
<1> HIDE DEF L
<1>6. Quiet(Servers, ServerReady, net, M)
  BY <1>1, <1>3, <1>5, TakeQuiet
<1> HIDE DEF M
<1>7. Announced(Servers, ServerReady, M, L, deferred, ready)
  BY <1>4, <1>6, QuietAnnounced
<1> QED BY <1>1, <1>7 DEF Announcing, L

LEMMA CallServerAnnounces ==
  ASSUME Announcing, NEW s \in Servers, NEW type \in RequestTypes, NEW c, NEW q,
         CallServer(s, type, c, q)
  PROVE  Announcing'
<1>1. Request(type, c) # ServerReady
  BY MessageKinds DEF Request, ServerReady
<1>2. net' = [net EXCEPT ![s][Owner[c]] = Append(@, Request(type, c))] /\ UNCHANGED <<deferred, ready>>
  BY DEF CallServer
<1> QED BY <1>1, <1>2, SentAnnounces

LEMMA ContinueAnnounces ==
  ASSUME Announcing, UNCHANGED <<net, deferred, ready>>
  PROVE  Announcing'
BY DEF Announcing

\* The calls of the servers and their responses
LEMMA RunningAnnounces ==
  ASSUME Types, Announcing, NEW s \in Servers,
         \/ SyncEntry(s) \/ SyncChild(s) \/ PullChild(s) \/ SyncReturn(s)
         \/ HandleSync(s) \/ HandlePull(s) \/ HandlePower(s) \/ Respond(s)
  PROVE  Announcing'
<1>1. {"SYNCHRONIZE_DATA_REQ", "PULL_DATA_REQ", "CALCULATE_POWER_REQ"} \subseteq RequestTypes
  BY MessageKinds
<1>2. ASSUME NEW q, Continue(s, q)
      PROVE  Announcing'
  BY <1>2, ContinueAnnounces DEF Continue, channels, memory
<1>3. CASE SyncEntry(s)
  <2> DEFINE c == Top(s).comp
  <2>1. \/ CallServer(s, "SYNCHRONIZE_DATA_REQ", c, Callers(s))
        \/ Continue(s, Callers(s))
        \/ Continue(s, <<[Top(s) EXCEPT !.at = "sync"]>> \o Callers(s))
    <3>1. CASE Owner[c] # s
      BY <1>3, <3>1, Zenon DEF SyncEntry
    <3>2. CASE Owner[c] = s /\ (Leaf(c) \/ power[c] # NoData)
      BY <1>3, <3>2, Zenon DEF SyncEntry
    <3>3. CASE Owner[c] = s /\ ~(Leaf(c) \/ power[c] # NoData)
      BY <1>3, <3>3, Zenon DEF SyncEntry
    <3> QED BY <3>1, <3>2, <3>3
  <2> QED BY <1>1, <1>2, <2>1, CallServerAnnounces
<1>4. CASE SyncChild(s) \/ HandleSync(s)
  BY <1>2, <1>4 DEF SyncChild, HandleSync
<1>5. CASE PullChild(s)
  <2> DEFINE c == Children[Top(s).comp][Top(s).child]
  <2>1. \/ CallServer(s, "PULL_DATA_REQ", c, stack[s])
        \/ Continue(s, <<Add(Top(s), power[c])>> \o Callers(s))
        \/ Error
    <3>1. CASE Owner[c] # s
      BY <1>5, <3>1, Zenon DEF PullChild
    <3>2. CASE Owner[c] = s /\ power[c] = NoData
      BY <1>5, <3>2, Zenon DEF PullChild
    <3>3. CASE Owner[c] = s /\ power[c] # NoData
      BY <1>5, <3>3, Zenon DEF PullChild
    <3> QED BY <3>1, <3>2, <3>3
  <2>2. Error => Announcing'
    BY ContinueAnnounces DEF Error, channels, memory
  <2> QED BY <1>1, <1>2, <2>1, <2>2, CallServerAnnounces
<1>6. CASE SyncReturn(s)
  BY <1>6, ContinueAnnounces DEF SyncReturn, channels, memory
<1>7. CASE HandlePull(s)
  BY <1>1, <1>2, <1>7, CallServerAnnounces DEF HandlePull
<1>8. CASE HandlePower(s)
  <2>1. \/ \E q : CallServer(s, "CALCULATE_POWER_REQ", Top(s).msg.comp, q)
        \/ UNCHANGED <<net, deferred, ready>>
    BY <1>8 DEF HandlePower, channels, memory
  <2> QED BY <1>1, <2>1, CallServerAnnounces, ContinueAnnounces
<1>9. CASE Respond(s)
  <2> DEFINE f == Top(s)
             m == IF f.msg.wait THEN Response(ResponseTo[f.msg.type], f.data) ELSE sendbuf[s]
  <2>1. /\ f.from \in Servers => m \in ResponseMessages
        /\ IF responds'[s] THEN SendTo(s, f.from, m) ELSE UNCHANGED <<net, reply>>
        /\ UNCHANGED <<deferred, ready>>
    BY <1>9, RespondMessage DEF Respond
  <2>2. \A n \in ResponseMessages : n # ServerReady
    BY MessageKinds DEF ResponseMessages, ServerReady
  <2> HIDE DEF m
  <2>3. CASE net' = net
    BY <2>1, <2>3, ContinueAnnounces
  <2>4. CASE net' # net
    <3>1. m # ServerReady /\ net' = [net EXCEPT ![s][f.from] = Append(@, m)]
      BY <2>1, <2>2, <2>4 DEF SendTo
    <3> QED BY <2>1, <3>1, SentAnnounces
  <2> QED BY <2>3, <2>4
<1> QED BY <1>3, <1>4, <1>5, <1>6, <1>7, <1>8, <1>9

LEMMA AnnouncingStep ==
  ASSUME Types, Announcing, [Next]_vars
  PROVE  Announcing'
<1>1. ASSUME NEW s \in Servers, ServerStep(s)
      PROVE  Announcing'
  <2>1. ASSUME NEW k \in Clients, ListenClient(s, k)
        PROVE  Announcing'
    <3> DEFINE m == Head(inbox[k])
    <3>1. /\ inbox[k] # <<>> /\ StartProcess(s, m, k, <<>>) /\ UNCHANGED <<net, deferred>>
      BY <2>1 DEF ListenClient
    <3>2. m \in RequestMessages
      BY <3>1 DEF Types, ClientsTyped
    <3>3. m # ServerReady
      BY <3>2, MessageKinds DEF RequestMessages, ServerReady
    <3> HIDE DEF m
    <3>4. ready' = ready
      BY <3>1, <3>3, AnnouncingTypes, StartReady
    <3> QED BY <3>1, <3>4, ContinueAnnounces
  <2> QED BY <1>1, <2>1, HearServerAnnounces, ReprocessAnnounces, RecvOtherAnnounces,
             RecvResponseAnnounces, RunningAnnounces DEF ServerStep
<1>2. ASSUME NEW k \in Clients, ClientCall(k) \/ ClientReturn(k)
      PROVE  Announcing'
  BY <1>2, ContinueAnnounces DEF ClientCall, ClientReturn, memory
<1>3. CASE UNCHANGED vars
  BY <1>3, ContinueAnnounces DEF vars, channels, memory
<1> QED BY <1>1, <1>2, <1>3 DEF Next

LEMMA AnnouncingInit ==
  ASSUME Init
  PROVE  Announcing
<1> DEFINE L == [r \in Servers |-> {}]
           d == ServerReady
<1>1. /\ net = [s \in Servers |-> [r \in Servers |-> IF r = s THEN <<>> ELSE <<d>>]]
      /\ deferred = [s \in Servers |-> <<>>]
      /\ ready = [s \in Servers |-> Cardinality(Servers) - 1]
  BY DEF Init
<1>2. /\ \A x : ~Contains(<<>>, x) /\ Once(<<>>, x)
      /\ Contains(<<d>>, d) /\ Once(<<d>>, d)
  <2> HIDE DEF d
  <2> QED BY DEF Contains, Once
<1>3. ASSUME NEW s \in Servers
      PROVE  /\ Expected(Servers, d, net, L, deferred, s) = Servers \ {s}
             /\ Cardinality(Servers \ {s}) = Cardinality(Servers) - 1
             /\ Cardinality(Servers) - 1 \in Nat
  <2>1. /\ Cardinality(Servers \ {s}) = Cardinality(Servers) - 1
        /\ Cardinality(Servers \ {s}) \in Nat
    BY RpcAssumption, FS_RemoveElement, FS_CardinalityType
  <2>2. \A r \in Servers \ {s} : Told(d, net, deferred, r, s)
    <3> HIDE DEF d
    <3> QED BY <1>1, <1>2 DEF Told
  <2>3. Expected(Servers, d, net, L, deferred, s) = Servers \ {s}
    BY <2>2 DEF Expected
  <2> QED BY <2>1, <2>3
<1>4. MailTypes(Servers, net, L, deferred, ready)
  <2>1. NetType(Servers, net)
    <3>1. net \in [Servers -> [Servers -> Seq({d})]]
      <4> HIDE DEF d
      <4>1. <<>> \in Seq({d}) /\ <<d>> \in Seq({d})
        OBVIOUS
      <4> QED BY <1>1, <4>1
    <3> QED BY <3>1 DEF NetType
  <2>2. DeferredType(Servers, deferred)
    <3>1. \A S : deferred \in [Servers -> Seq([msg : S, from : Servers])]
      BY <1>1
    <3> QED BY <3>1 DEF DeferredType
  <2>3. L \in [Servers -> SUBSET Servers] /\ ready \in [Servers -> Nat]
    BY <1>1, <1>3
  <2> QED BY <2>1, <2>2, <2>3 DEF MailTypes
<1>5. AllTellOnce(Servers, d, net, L, deferred)
  <2>1. ASSUME NEW r \in Servers, NEW s \in Servers
        PROVE  TellsOnce(d, net, L, deferred, r, s) /\ ~Told(d, net, deferred, s, s)
    <3> HIDE DEF d
    <3> QED BY <1>1, <1>2 DEF TellsOnce, Told
  <2>2. \A s \in Servers : s \notin L[s]
    OBVIOUS
  <2> QED BY <2>1, <2>2 DEF AllTellOnce
<1>6. AllCount(Servers, d, net, L, deferred, ready)
  BY <1>1, <1>3 DEF AllCount
<1> QED BY <1>4, <1>5, <1>6 DEF Announcing, Announced

-----------------------------------------------------------------------------
\* The types, and what ready_count counts

LEMMA TypesHold ==
  ASSUME Types, Announcing
  PROVE  TypeOK
<1>1. ASSUME NEW s \in Servers, NEW r \in Servers
      PROVE  net[s][r] \in Seq(Messages)
  BY DEF Types, Mailed
<1>2. ASSUME NEW k \in Clients
      PROVE  inbox[k] \in Seq(RequestMessages) /\ reply[k] \in Seq(Messages)
  BY DEF Types, ClientsTyped
<1>3. ASSUME NEW s \in Servers
      PROVE  /\ \A i \in DOMAIN stack[s] :
                  /\ stack[s][i].fn \in {"process", "synchronize_data", "MPI_Recv"}
                  /\ stack[s][i].fn = "MPI_Recv" => i < Len(stack[s])
             /\ deferred[s] \in Seq([msg : Messages \ RequestMessages, from : Servers])
             /\ sendbuf[s] \in Messages
  <2>1. Framed(s, stack[s])
    BY DEF Types, Calling
  <2>2. /\ DOMAIN stack[s] = 1 .. Len(stack[s])
        /\ \A i \in 1 .. Len(stack[s]) : stack[s][i] \in Frames(s)
    BY <2>1, LenProperties, ElementOfSeq DEF Framed
  <2>3. \A f \in Frames(s) : f.fn \in {"process", "synchronize_data", "MPI_Recv"}
    BY DEF Frames, ProcessFrames, SyncFrames, RecvFrames
  <2>4. \A i \in 1 .. Len(stack[s]) : stack[s][i].fn = "MPI_Recv" => i < Len(stack[s])
    BY <2>1 DEF Framed, Stacked
  <2>5. deferred[s] \in Seq([msg : Messages \ RequestMessages, from : Servers])
        /\ sendbuf[s] \in Messages
    BY DEF Types, ServersTyped
  <2> QED BY <2>2, <2>3, <2>4, <2>5
<1>4. ready \in [Servers -> 0 .. Cardinality(Servers) - 1]
  <2>1. ready \in [Servers -> Nat]
    BY AnnouncingTypes
  <2>2. ASSUME NEW s \in Servers
        PROVE  ready[s] <= Cardinality(Servers) - 1
    <3> DEFINE C == Expected(Servers, ServerReady, net, [r \in Servers |-> {}], deferred, s)
    <3>1. ready[s] = Cardinality(C)
      BY DEF Announcing, Announced, AllCount
    <3>2. C \subseteq Servers \ {s}
      BY DEF Expected
    <3> HIDE DEF C
    <3>3. /\ IsFiniteSet(Servers \ {s})
          /\ Cardinality(Servers \ {s}) = Cardinality(Servers) - 1
      BY RpcAssumption, FS_RemoveElement
    <3> QED BY <3>1, <3>2, <3>3, FS_Subset
  <2>3. Cardinality(Servers) \in Nat
    BY RpcAssumption, FS_CardinalityType
  <2> QED BY <2>1, <2>2, <2>3
<1>5. /\ responds \in [Servers -> BOOLEAN]
      /\ power \in [Components -> Nat \cup {NoData}]
      /\ waiting \in [Clients -> ResponseTypes \cup {NoCall}]
      /\ answer \in [Clients -> Nat \cup {NoData}]
      /\ todo \in [Clients -> Seq(RequestMessages)]
      /\ failed \in BOOLEAN
  BY DEF Types, ServersTyped, ClientsTyped, Data
<1> QED BY <1>1, <1>2, <1>3, <1>4, <1>5 DEF TypeOK

\* The calls in progress are frames of process, synchronize_data and MPI_Recv, a
\* wait is on top of the call that waits, whatever is sent has the type its
\* receiver reads it as, and ready_count never falls below zero.
THEOREM RpcTypes == Spec => []TypeOK
<1>1. Init => Types /\ Announcing
  BY TypesInit, AnnouncingInit
<1>2. (Types /\ Announcing) /\ [Next]_vars => (Types /\ Announcing)'
  BY TypesStep, AnnouncingStep
<1>3. Types /\ Announcing => TypeOK
  BY TypesHold
<1> QED BY <1>1, <1>2, <1>3, PTL DEF Spec

\* What is in a sequence once at most is counted once, if it is there.
LEMMA CountOnce ==
  ASSUME NEW q, IsSeq(q), NEW m, Once(q, m)
  PROVE  Count(q, {m}) = OneIf(Contains(q, m))
<1>1. CASE Contains(q, m)
  <2>1. PICK i \in 1 .. Len(q) : q[i] = m
    BY <1>1 DEF Contains
  <2>2. Positions(q, {m}) = {i}
    BY <2>1 DEF Positions, Once
  <2>3. Cardinality({i}) = 1
    BY FS_Singleton
  <2> QED BY <1>1, <2>2, <2>3 DEF Count, OneIf
<1>2. CASE ~Contains(q, m)
  <2>1. \A i \in 1 .. Len(q) : q[i] \notin {m}
    BY <1>2 DEF Contains
  <2>2. Count(q, {m}) = 0
    BY <2>1, CountZero
  <2> QED BY <1>2, <2>2 DEF OneIf
<1> QED BY <1>1, <1>2

\* What Unheard counts are the announcements under way and put aside.
LEMMA UnheardCounts ==
  ASSUME Types, NEW r \in Servers, NEW s \in Servers
  PROVE  Unheard(r, s) = Count(net[r][s], {ServerReady})
                       + Count(deferred[s], {Aside(ServerReady, r)})
<1>1. net[r][s] \in Seq(Messages)
  BY DEF Types, Mailed
<1>2. {i \in DOMAIN net[r][s] : net[r][s][i] = ServerReady} = Positions(net[r][s], {ServerReady})
  BY <1>1, LenProperties DEF Positions
<1>3. {i \in DOMAIN deferred[s] : deferred[s][i].from = r /\ deferred[s][i].msg = ServerReady}
        = Positions(deferred[s], {Aside(ServerReady, r)})
  <2> DEFINE E == [msg : Messages \ RequestMessages, from : Servers]
  <2>1. \A e \in E : e.from = r /\ e.msg = ServerReady <=> e = Aside(ServerReady, r)
    BY DEF Aside
  <2>2. deferred[s] \in Seq(E)
    BY DEF Types, ServersTyped
  <2> HIDE DEF E
  <2>3. DOMAIN deferred[s] = 1 .. Len(deferred[s])
        /\ \A i \in 1 .. Len(deferred[s]) : deferred[s][i] \in E
    BY <2>2, LenProperties, ElementOfSeq
  <2> QED BY <2>1, <2>3 DEF Positions
<1> QED BY <1>2, <1>3 DEF Unheard, NumberOf, Count

LEMMA AnnouncedReady ==
  ASSUME Types, Announcing
  PROVE  NoReadyLost
<1> DEFINE d == ServerReady
           L == [r \in Servers |-> {}]
<1> SUFFICES ASSUME NEW s \in Servers
             PROVE  /\ \A r \in Servers : Unheard(r, s) <= 1
                    /\ ready[s] = Cardinality({r \in Servers : Unheard(r, s) = 1})
  BY DEF NoReadyLost
<1>1. /\ \A r \in Servers : TellsOnce(d, net, L, deferred, r, s)
      /\ ~Told(d, net, deferred, s, s)
      /\ ready[s] = Cardinality(Expected(Servers, d, net, L, deferred, s))
  BY DEF Announcing, Announced, AllTellOnce, AllCount
<1>2. ASSUME NEW r \in Servers
      PROVE  Unheard(r, s) = OneIf(Told(d, net, deferred, r, s))
  <2>1. Unheard(r, s) = Count(net[r][s], {d}) + Count(deferred[s], {Aside(d, r)})
    BY UnheardCounts
  <2>2. IsSeq(net[r][s]) /\ IsSeq(deferred[s])
    BY ChannelSeq, AsideSeq DEF Announcing, Announced, MailTypes
  <2>3. TellsOnce(d, net, L, deferred, r, s)
    BY <1>1
  <2> HIDE DEF d, L
  <2>4. /\ Count(net[r][s], {d}) = OneIf(Contains(net[r][s], d))
        /\ Count(deferred[s], {Aside(d, r)}) = OneIf(Contains(deferred[s], Aside(d, r)))
    BY <2>2, <2>3, CountOnce DEF TellsOnce
  <2> QED BY <2>1, <2>3, <2>4 DEF TellsOnce, Told, OneIf
<1>3. Expected(Servers, d, net, L, deferred, s) = {r \in Servers : Told(d, net, deferred, r, s)}
  BY <1>1 DEF Expected
<1>4. {r \in Servers : Unheard(r, s) = 1} = {r \in Servers : Told(d, net, deferred, r, s)}
  BY <1>2 DEF OneIf
<1>5. \A r \in Servers : Unheard(r, s) <= 1
  BY <1>2 DEF OneIf
<1> QED BY <1>1, <1>3, <1>4, <1>5

\* No server is forgotten, or counted twice, while servers wait for responses
\* and put aside what they receive meanwhile: clients are served as soon as all
\* servers are known to be ready, and never before.
THEOREM ReadyKept == Spec => []NoReadyLost
<1>1. Init => Types /\ Announcing
  BY TypesInit, AnnouncingInit
<1>2. (Types /\ Announcing) /\ [Next]_vars => (Types /\ Announcing)'
  BY TypesStep, AnnouncingStep
<1>3. Types /\ Announcing => NoReadyLost
  BY AnnouncedReady
<1> QED BY <1>1, <1>2, <1>3, PTL DEF Spec

-----------------------------------------------------------------------------
\* The calls of the servers, counted: the frames of process() that run for
\* server x, and the responses that a server has put aside

CallsOf(x) ==
    [fn : {"process"}, msg : RequestMessages, from : {x}, data : Data,
     at : {"sync", "pull", "power", "respond"}]

AsideResponses == [msg : ResponseMessages, from : Servers]

\* What s has asked of r and not got, and what it waits for: one of each
\* response, and it waits for its first peer only
Open(N, S, F, s, r) ==
      Count(N[s][r], RequestMessages)
    + Count(S[r], CallsOf(s))
    + Count(N[r][s], ResponseMessages)
    + (IF r = Peer[s] THEN Count(F[s], AsideResponses) ELSE 0)

Owed(S, s, r) == IF r = Peer[s] THEN Count(S[s], RecvFrames) ELSE 0

Balanced(N, S, F) == \A s, r \in Servers : Open(N, S, F, s, r) = Owed(S, s, r)

CallsBalanced == failed \/ Balanced(net, stack, deferred)

\* The changes of channels N to M: a request or a response more
NetSame(N, M) ==
    \A a, b \in Servers : /\ Count(M[a][b], RequestMessages) = Count(N[a][b], RequestMessages)
                          /\ Count(M[a][b], ResponseMessages) = Count(N[a][b], ResponseMessages)

Asked(N, M, s, x) ==
    \A a, b \in Servers :
      /\ Count(M[a][b], RequestMessages) = Count(N[a][b], RequestMessages) + OneIf(a = s /\ b = x)
      /\ Count(M[a][b], ResponseMessages) = Count(N[a][b], ResponseMessages)

Answered(N, M, s, x) ==
    \A a, b \in Servers :
      /\ Count(M[a][b], RequestMessages) = Count(N[a][b], RequestMessages)
      /\ Count(M[a][b], ResponseMessages) = Count(N[a][b], ResponseMessages) + OneIf(a = s /\ b = x)

\* The changes of the stacks S to R: a process() for x, or a wait more in s
StackSame(S, R) ==
    \A y \in Servers : /\ Count(R[y], RecvFrames) = Count(S[y], RecvFrames)
                       /\ \A z \in Servers : Count(R[y], CallsOf(z)) = Count(S[y], CallsOf(z))

Serves(S, R, s, x) ==
    \A y \in Servers :
      /\ Count(R[y], RecvFrames) = Count(S[y], RecvFrames)
      /\ \A z \in Servers : Count(R[y], CallsOf(z)) = Count(S[y], CallsOf(z)) + OneIf(y = s /\ z = x)

WaitsMore(S, R, s) ==
    \A y \in Servers :
      /\ Count(R[y], RecvFrames) = Count(S[y], RecvFrames) + OneIf(y = s)
      /\ \A z \in Servers : Count(R[y], CallsOf(z)) = Count(S[y], CallsOf(z))

\* The change of what is put aside: a response more in s
AsideSame(F, G) ==
    \A y \in Servers : Count(G[y], AsideResponses) = Count(F[y], AsideResponses)

AsideMore(F, G, s) ==
    \A y \in Servers : Count(G[y], AsideResponses) = Count(F[y], AsideResponses) + OneIf(y = s)

Numbers(N, S, F) ==
    \A x, y \in Servers :
      /\ Count(N[x][y], RequestMessages) \in Nat /\ Count(N[x][y], ResponseMessages) \in Nat
      /\ Count(S[x], RecvFrames) \in Nat /\ Count(S[x], CallsOf(y)) \in Nat
      /\ Count(F[x], AsideResponses) \in Nat

LEMMA NumbersType ==
  ASSUME NEW N, Mailed(N), NEW S, Calling(S), NEW F, Lines(Servers, F)
  PROVE  Numbers(N, S, F)
<1> SUFFICES ASSUME NEW x \in Servers, NEW y \in Servers
             PROVE  /\ Count(N[x][y], RequestMessages) \in Nat /\ Count(N[x][y], ResponseMessages) \in Nat
                    /\ Count(S[x], RecvFrames) \in Nat /\ Count(S[x], CallsOf(y)) \in Nat
                    /\ Count(F[x], AsideResponses) \in Nat
  BY DEF Numbers
<1>1. IsSeq(N[x][y])
  BY MailedType, ChannelSeq
<1>2. IsSeq(S[x])
  BY FramesSeq DEF Calling
<1>3. IsSeq(F[x])
  BY LineSeq
<1> QED BY <1>1, <1>2, <1>3, CountNat

LEMMA NothingBalanced ==
  ASSUME NEW N, NEW S, NEW F, Balanced(N, S, F),
         NEW M, NetSame(N, M), NEW R, StackSame(S, R), NEW G, AsideSame(F, G)
  PROVE  Balanced(M, R, G)
<1> SUFFICES ASSUME NEW x \in Servers, NEW y \in Servers
             PROVE  Open(M, R, G, x, y) = Owed(R, x, y)
  BY DEF Balanced
<1>1. Open(N, S, F, x, y) = Owed(S, x, y)
  BY DEF Balanced
<1>2. Open(M, R, G, x, y) = Open(N, S, F, x, y)
  BY DEF Open, NetSame, StackSame, AsideSame
<1>3. Owed(R, x, y) = Owed(S, x, y)
  BY DEF Owed, StackSame
<1> QED BY <1>1, <1>2, <1>3

\* A request that is received is processed.
LEMMA HeardBalanced ==
  ASSUME NEW N, NEW S, NEW F, Numbers(N, S, F), Balanced(N, S, F),
         NEW M, NEW R, Numbers(M, R, F),
         NEW s \in Servers, NEW r \in Servers, Asked(M, N, r, s), Serves(S, R, s, r)
  PROVE  Balanced(M, R, F)
<1> SUFFICES ASSUME NEW x \in Servers, NEW y \in Servers
             PROVE  Open(M, R, F, x, y) = Owed(R, x, y)
  BY DEF Balanced
<1>1. Open(N, S, F, x, y) = Owed(S, x, y)
  BY DEF Balanced
<1>2. /\ Count(N[x][y], RequestMessages) = Count(M[x][y], RequestMessages) + OneIf(x = r /\ y = s)
      /\ Count(N[y][x], ResponseMessages) = Count(M[y][x], ResponseMessages)
      /\ Count(R[y], CallsOf(x)) = Count(S[y], CallsOf(x)) + OneIf(y = s /\ x = r)
  BY DEF Asked, Serves
<1>3. Owed(R, x, y) = Owed(S, x, y)
  BY DEF Owed, Serves
<1>4. /\ Count(M[x][y], RequestMessages) \in Nat /\ Count(M[y][x], ResponseMessages) \in Nat
      /\ Count(S[y], CallsOf(x)) \in Nat /\ Count(F[x], AsideResponses) \in Nat
  BY DEF Numbers
<1>5. Open(M, R, F, x, y) = Open(N, S, F, x, y)
  BY <1>2, <1>4 DEF Open, OneIf
<1> QED BY <1>1, <1>3, <1>5

\* A server that asks its first peer waits.
LEMMA AskedBalanced ==
  ASSUME NEW N, NEW S, NEW F, Numbers(N, S, F), Balanced(N, S, F),
         NEW M, NEW R, NEW s \in Servers, Asked(N, M, s, Peer[s]), WaitsMore(S, R, s)
  PROVE  Balanced(M, R, F)
<1> SUFFICES ASSUME NEW x \in Servers, NEW y \in Servers
             PROVE  Open(M, R, F, x, y) = Owed(R, x, y)
  BY DEF Balanced
<1>1. Open(N, S, F, x, y) = Owed(S, x, y)
  BY DEF Balanced
<1>2. /\ Count(M[x][y], RequestMessages) = Count(N[x][y], RequestMessages) + OneIf(x = s /\ y = Peer[s])
      /\ Count(M[y][x], ResponseMessages) = Count(N[y][x], ResponseMessages)
      /\ Count(R[y], CallsOf(x)) = Count(S[y], CallsOf(x))
      /\ Count(R[x], RecvFrames) = Count(S[x], RecvFrames) + OneIf(x = s)
  BY DEF Asked, WaitsMore
<1>3. /\ Count(N[x][y], RequestMessages) \in Nat /\ Count(N[y][x], ResponseMessages) \in Nat
      /\ Count(S[y], CallsOf(x)) \in Nat /\ Count(F[x], AsideResponses) \in Nat
      /\ Count(S[x], RecvFrames) \in Nat
  BY DEF Numbers
<1>4. CASE x = s /\ y = Peer[s]
  BY <1>1, <1>2, <1>3, <1>4 DEF Open, Owed, OneIf
<1>5. CASE ~(x = s /\ y = Peer[s])
  BY <1>1, <1>2, <1>3, <1>5 DEF Open, Owed, OneIf
<1> QED BY <1>4, <1>5

\* A process() that ends has sent the response.
LEMMA AnsweredBalanced ==
  ASSUME NEW N, NEW S, NEW F, Numbers(N, S, F), Balanced(N, S, F),
         NEW M, NEW R, Numbers(M, R, F),
         NEW s \in Servers, NEW x \in Servers, Answered(N, M, s, x), Serves(R, S, s, x)
  PROVE  Balanced(M, R, F)
<1> SUFFICES ASSUME NEW a \in Servers, NEW b \in Servers
             PROVE  Open(M, R, F, a, b) = Owed(R, a, b)
  BY DEF Balanced
<1>1. Open(N, S, F, a, b) = Owed(S, a, b)
  BY DEF Balanced
<1>2. /\ Count(M[a][b], RequestMessages) = Count(N[a][b], RequestMessages)
      /\ Count(M[b][a], ResponseMessages) = Count(N[b][a], ResponseMessages) + OneIf(b = s /\ a = x)
      /\ Count(S[b], CallsOf(a)) = Count(R[b], CallsOf(a)) + OneIf(b = s /\ a = x)
  BY DEF Answered, Serves
<1>3. Owed(R, a, b) = Owed(S, a, b)
  BY DEF Owed, Serves
<1>4. /\ Count(N[a][b], RequestMessages) \in Nat /\ Count(N[b][a], ResponseMessages) \in Nat
      /\ Count(R[b], CallsOf(a)) \in Nat /\ Count(F[a], AsideResponses) \in Nat
  BY DEF Numbers
<1>5. Open(M, R, F, a, b) = Open(N, S, F, a, b)
  BY <1>2, <1>4 DEF Open, OneIf
<1> QED BY <1>1, <1>3, <1>5

\* A response comes from the first peer, as nothing is open anywhere else.
LEMMA ResponseOfPeer ==
  ASSUME NEW N, NEW S, NEW F, Numbers(N, S, F), Balanced(N, S, F),
         NEW M, NEW T, NEW G, Numbers(M, T, G), NEW s \in Servers, NEW r \in Servers, Answered(M, N, r, s)
  PROVE  r = Peer[s]
<1>1. Open(N, S, F, s, r) = Owed(S, s, r)
  BY DEF Balanced
<1>2. Count(N[r][s], ResponseMessages) = Count(M[r][s], ResponseMessages) + 1
  BY DEF Answered, OneIf
<1>3. /\ Count(N[s][r], RequestMessages) \in Nat /\ Count(M[r][s], ResponseMessages) \in Nat
      /\ Count(S[r], CallsOf(s)) \in Nat
  BY DEF Numbers
<1> QED BY <1>1, <1>2, <1>3 DEF Open, Owed

\* A response that is put aside is still there.
LEMMA AsideBalanced ==
  ASSUME NEW N, NEW S, NEW F, Numbers(N, S, F), Balanced(N, S, F),
         NEW M, NEW G, Numbers(M, S, G),
         NEW s \in Servers, NEW r \in Servers, Answered(M, N, r, s), AsideMore(F, G, s)
  PROVE  Balanced(M, S, G)
<1> SUFFICES ASSUME NEW x \in Servers, NEW y \in Servers
             PROVE  Open(M, S, G, x, y) = Owed(S, x, y)
  BY DEF Balanced
<1>1. Open(N, S, F, x, y) = Owed(S, x, y)
  BY DEF Balanced
<1>2. r = Peer[s]
  BY ResponseOfPeer
<1>3. /\ Count(N[x][y], RequestMessages) = Count(M[x][y], RequestMessages)
      /\ Count(N[y][x], ResponseMessages) = Count(M[y][x], ResponseMessages) + OneIf(y = r /\ x = s)
      /\ Count(G[x], AsideResponses) = Count(F[x], AsideResponses) + OneIf(x = s)
  BY DEF Answered, AsideMore
<1>4. /\ Count(M[x][y], RequestMessages) \in Nat /\ Count(M[y][x], ResponseMessages) \in Nat
      /\ Count(S[y], CallsOf(x)) \in Nat /\ Count(F[x], AsideResponses) \in Nat
  BY DEF Numbers
<1>5. Open(M, S, G, x, y) = Open(N, S, F, x, y)
  <2>1. CASE x = s
    BY <1>2, <1>3, <1>4, <2>1 DEF Open, OneIf
  <2>2. CASE x # s
    BY <1>3, <1>4, <2>2 DEF Open, OneIf
  <2> QED BY <2>1, <2>2
<1> QED BY <1>1, <1>5

LEMMA OneLess ==
  ASSUME NEW a \in Nat, NEW b \in Nat, NEW c \in Nat, NEW d \in Nat, NEW w \in Nat,
         a + b + (c + 1) + d = w + 1
  PROVE  a + b + c + d = w
OBVIOUS

\* A response that is awaited ends a wait.
LEMMA ReturnedBalanced ==
  ASSUME NEW N, NEW S, NEW F, Numbers(N, S, F), Balanced(N, S, F),
         NEW M, NEW R, Numbers(M, R, F),
         NEW s \in Servers, NEW r \in Servers, Answered(M, N, r, s), WaitsMore(R, S, s)
  PROVE  Balanced(M, R, F)
<1> SUFFICES ASSUME NEW x \in Servers, NEW y \in Servers
             PROVE  Open(M, R, F, x, y) = Owed(R, x, y)
  BY DEF Balanced
<1>1. Open(N, S, F, x, y) = Owed(S, x, y)
  BY DEF Balanced
<1>2. r = Peer[s]
  BY ResponseOfPeer
<1>3. /\ Count(N[x][y], RequestMessages) = Count(M[x][y], RequestMessages)
      /\ Count(N[y][x], ResponseMessages) = Count(M[y][x], ResponseMessages) + OneIf(y = r /\ x = s)
      /\ Count(S[y], CallsOf(x)) = Count(R[y], CallsOf(x))
      /\ Count(S[x], RecvFrames) = Count(R[x], RecvFrames) + OneIf(x = s)
  BY DEF Answered, WaitsMore
<1>4. /\ Count(M[x][y], RequestMessages) \in Nat /\ Count(M[y][x], ResponseMessages) \in Nat
      /\ Count(R[y], CallsOf(x)) \in Nat /\ Count(F[x], AsideResponses) \in Nat
      /\ Count(R[x], RecvFrames) \in Nat
  BY DEF Numbers
<1>5. CASE x = s /\ y = r
  <2>1. /\ Count(N[y][x], ResponseMessages) = Count(M[y][x], ResponseMessages) + 1
        /\ Count(S[x], RecvFrames) = Count(R[x], RecvFrames) + 1
    BY <1>3, <1>5 DEF OneIf
  <2>2. Count(N[x][y], RequestMessages) + Count(S[y], CallsOf(x)) + Count(N[y][x], ResponseMessages)
          + Count(F[x], AsideResponses) = Count(S[x], RecvFrames)
    BY <1>1, <1>2, <1>5 DEF Open, Owed
  <2>3. Count(M[x][y], RequestMessages) + Count(R[y], CallsOf(x)) + Count(M[y][x], ResponseMessages)
          + Count(F[x], AsideResponses) = Count(R[x], RecvFrames)
    <3>1. Count(M[x][y], RequestMessages) + Count(R[y], CallsOf(x))
            + (Count(M[y][x], ResponseMessages) + 1) + Count(F[x], AsideResponses)
          = Count(R[x], RecvFrames) + 1
      BY <1>3, <2>1, <2>2
    <3> QED BY <1>4, <3>1, OneLess
  <2> QED BY <1>2, <1>5, <2>3 DEF Open, Owed
<1>6. CASE ~(x = s /\ y = r)
  BY <1>1, <1>2, <1>3, <1>4, <1>6 DEF Open, Owed, OneIf
<1> QED BY <1>5, <1>6

-----------------------------------------------------------------------------
\* What the steps change

LEMMA FrameKinds ==
  ASSUME NEW s
  PROVE  /\ \A f \in SyncFrames(s) : f \notin RecvFrames /\ \A x : f \notin CallsOf(x)
         /\ \A f \in RecvFrames : \A x : f \notin CallsOf(x)
         /\ \A f \in ProcessFrames(s) : f \notin RecvFrames /\ \A x : f \in CallsOf(x) <=> f.from = x
<1>1. \A f \in SyncFrames(s) : f \notin RecvFrames /\ \A x : f \notin CallsOf(x)
  BY DEF SyncFrames, RecvFrames, CallsOf
<1>2. \A f \in RecvFrames : \A x : f \notin CallsOf(x)
  BY DEF RecvFrames, CallsOf
<1>3. ASSUME NEW f \in ProcessFrames(s)
      PROVE  f \notin RecvFrames /\ \A x : f \in CallsOf(x) <=> f.from = x
  <2>1. f.msg \in RequestMessages
    BY MailMessages DEF ProcessFrames
  <2> QED BY <2>1 DEF ProcessFrames, RecvFrames, CallsOf
<1> QED BY <1>1, <1>2, <1>3

\* A stack p becomes q: the same waits and calls of process(), or f more
SameCalls(p, q) ==
    /\ Count(q, RecvFrames) = Count(p, RecvFrames)
    /\ \A z \in Servers : Count(q, CallsOf(z)) = Count(p, CallsOf(z))

OneMore(p, q, f) ==
    /\ Count(q, RecvFrames) = Count(p, RecvFrames) + OneIf(f \in RecvFrames)
    /\ \A z \in Servers : Count(q, CallsOf(z)) = Count(p, CallsOf(z)) + OneIf(f \in CallsOf(z))

LEMMA PushMore ==
  ASSUME NEW q, IsSeq(q), NEW f
  PROVE  OneMore(q, <<f>> \o q, f)
BY CountPush DEF OneMore

LEMMA PopMore ==
  ASSUME NEW q, IsSeq(q), q # <<>>
  PROVE  OneMore(Tail(q), q, Head(q))
BY CountTail DEF OneMore

LEMMA PushSame ==
  ASSUME NEW q, IsSeq(q), NEW s, NEW f \in SyncFrames(s)
  PROVE  SameCalls(q, <<f>> \o q)
<1>1. OneMore(q, <<f>> \o q, f)
  BY PushMore
<1>2. f \notin RecvFrames /\ \A x : f \notin CallsOf(x)
  BY FrameKinds
<1>3. \A T : Count(q, T) \in Nat
  BY CountNat
<1> QED BY <1>1, <1>2, <1>3 DEF OneMore, SameCalls, OneIf

LEMMA PopSame ==
  ASSUME NEW q, IsSeq(q), q # <<>>, NEW s, Head(q) \in SyncFrames(s)
  PROVE  SameCalls(q, Tail(q))
<1>1. OneMore(Tail(q), q, Head(q))
  BY PopMore
<1>2. Head(q) \notin RecvFrames /\ \A x : Head(q) \notin CallsOf(x)
  BY FrameKinds
<1>3. \A T : Count(Tail(q), T) \in Nat
  BY TailSeq, CountNat
<1> QED BY <1>1, <1>2, <1>3 DEF OneMore, SameCalls, OneIf

\* The call on top goes on.
LEMMA SwapSame ==
  ASSUME NEW q, IsSeq(q), q # <<>>, NEW s, NEW f,
         \/ f \in SyncFrames(s) /\ Head(q) \in SyncFrames(s)
         \/ f \in ProcessFrames(s) /\ Head(q) \in ProcessFrames(s) /\ f.from = Head(q).from
  PROVE  SameCalls(q, <<f>> \o Tail(q))
<1>1. OneMore(Tail(q), q, Head(q))
  BY PopMore
<1>2. OneMore(Tail(q), <<f>> \o Tail(q), f)
  BY TailSeq, PushMore
<1>3. /\ f \in RecvFrames <=> Head(q) \in RecvFrames
      /\ \A z \in Servers : f \in CallsOf(z) <=> Head(q) \in CallsOf(z)
  BY FrameKinds
<1>4. /\ OneIf(f \in RecvFrames) = OneIf(Head(q) \in RecvFrames)
      /\ \A z \in Servers : OneIf(f \in CallsOf(z)) = OneIf(Head(q) \in CallsOf(z))
  BY <1>3 DEF OneIf
<1> QED BY <1>1, <1>2, <1>4 DEF OneMore, SameCalls

LEMMA SameTwice ==
  ASSUME NEW p, NEW q, NEW r, SameCalls(p, q)
  PROVE  /\ SameCalls(q, r) => SameCalls(p, r)
         /\ \A f : OneMore(q, r, f) => OneMore(p, r, f)
         /\ \A f : OneMore(r, p, f) => OneMore(r, q, f)
         /\ \A f : OneMore(p, r, f) => OneMore(q, r, f)
BY DEF SameCalls, OneMore

\* The stacks of the other servers stay.
LEMMA StackChanges ==
  ASSUME NEW S, Calling(S), NEW s \in Servers, NEW q, IsSeq(q), NEW R, R = [S EXCEPT ![s] = q]
  PROVE  /\ SameCalls(S[s], q) => StackSame(S, R)
         /\ \A f \in RecvFrames : /\ OneMore(S[s], q, f) => WaitsMore(S, R, s)
                                  /\ OneMore(q, S[s], f) => WaitsMore(R, S, s)
         /\ \A f \in ProcessFrames(s) : /\ OneMore(S[s], q, f) => Serves(S, R, s, f.from)
                                        /\ OneMore(q, S[s], f) => Serves(R, S, s, f.from)
<1>1. R[s] = q /\ \A y \in Servers : y # s => R[y] = S[y]
  BY ExceptAt DEF Calling
<1>2. /\ \A y \in Servers : \A T : Count(S[y], T) \in Nat
      /\ \A T : Count(q, T) \in Nat
  BY FramesSeq, CountNat DEF Calling
<1>3. SameCalls(S[s], q) => StackSame(S, R)
  BY <1>1 DEF SameCalls, StackSame
<1>4. ASSUME NEW f \in RecvFrames
      PROVE  /\ OneMore(S[s], q, f) => WaitsMore(S, R, s)
             /\ OneMore(q, S[s], f) => WaitsMore(R, S, s)
  <2>1. \A z \in Servers : f \notin CallsOf(z)
    BY FrameKinds
  <2>2. ASSUME OneMore(S[s], q, f)
        PROVE  WaitsMore(S, R, s)
    <3>1. SUFFICES ASSUME NEW y \in Servers
                   PROVE  /\ Count(R[y], RecvFrames) = Count(S[y], RecvFrames) + OneIf(y = s)
                          /\ \A z \in Servers : Count(R[y], CallsOf(z)) = Count(S[y], CallsOf(z))
      BY DEF WaitsMore
    <3>2. CASE y = s
      BY <1>1, <1>2, <2>1, <2>2, <3>2 DEF OneMore, OneIf
    <3>3. CASE y # s
      BY <1>1, <1>2, <3>3 DEF OneIf
    <3> QED BY <3>2, <3>3
  <2>3. ASSUME OneMore(q, S[s], f)
        PROVE  WaitsMore(R, S, s)
    <3>1. SUFFICES ASSUME NEW y \in Servers
                   PROVE  /\ Count(S[y], RecvFrames) = Count(R[y], RecvFrames) + OneIf(y = s)
                          /\ \A z \in Servers : Count(S[y], CallsOf(z)) = Count(R[y], CallsOf(z))
      BY DEF WaitsMore
    <3>2. CASE y = s
      BY <1>1, <1>2, <2>1, <2>3, <3>2 DEF OneMore, OneIf
    <3>3. CASE y # s
      BY <1>1, <1>2, <3>3 DEF OneIf
    <3> QED BY <3>2, <3>3
  <2> QED BY <2>2, <2>3
<1>5. ASSUME NEW f \in ProcessFrames(s)
      PROVE  /\ OneMore(S[s], q, f) => Serves(S, R, s, f.from)
             /\ OneMore(q, S[s], f) => Serves(R, S, s, f.from)
  <2>1. f \notin RecvFrames /\ \A z \in Servers : f \in CallsOf(z) <=> f.from = z
    BY FrameKinds
  <2>2. ASSUME OneMore(S[s], q, f)
        PROVE  Serves(S, R, s, f.from)
    <3>1. SUFFICES ASSUME NEW y \in Servers, NEW z \in Servers
                   PROVE  /\ Count(R[y], RecvFrames) = Count(S[y], RecvFrames)
                          /\ Count(R[y], CallsOf(z)) = Count(S[y], CallsOf(z)) + OneIf(y = s /\ z = f.from)
      BY DEF Serves
    <3>2. CASE y = s
      BY <1>1, <1>2, <2>1, <2>2, <3>2 DEF OneMore, OneIf
    <3>3. CASE y # s
      BY <1>1, <1>2, <3>3 DEF OneIf
    <3> QED BY <3>2, <3>3
  <2>3. ASSUME OneMore(q, S[s], f)
        PROVE  Serves(R, S, s, f.from)
    <3>1. SUFFICES ASSUME NEW y \in Servers, NEW z \in Servers
                   PROVE  /\ Count(S[y], RecvFrames) = Count(R[y], RecvFrames)
                          /\ Count(S[y], CallsOf(z)) = Count(R[y], CallsOf(z)) + OneIf(y = s /\ z = f.from)
      BY DEF Serves
    <3>2. CASE y = s
      BY <1>1, <1>2, <2>1, <2>3, <3>2 DEF OneMore, OneIf
    <3>3. CASE y # s
      BY <1>1, <1>2, <3>3 DEF OneIf
    <3> QED BY <3>2, <3>3
  <2> QED BY <2>2, <2>3
<1> QED BY <1>3, <1>4, <1>5

\* The channels: what is sent, and what is taken
LEMMA SendsKind ==
  ASSUME NEW N, NEW M, NEW s, NEW x, NEW m,
         Sends(Servers, N, M, s, x, m, RequestMessages), Sends(Servers, N, M, s, x, m, ResponseMessages),
         \A a, b \in Servers : \A T : Count(N[a][b], T) \in Nat,
         ~(m \in RequestMessages /\ m \in ResponseMessages)
  PROVE  /\ m \in RequestMessages => Asked(N, M, s, x)
         /\ m \in ResponseMessages => Answered(N, M, s, x)
<1>1. m \in RequestMessages => Asked(N, M, s, x)
  BY DEF Sends, Asked, OneIf
<1>2. m \in ResponseMessages => Answered(N, M, s, x)
  BY DEF Sends, Answered, OneIf
<1> QED BY <1>1, <1>2

LEMMA SentChanges ==
  ASSUME NEW N, Mailed(N), NEW s \in Servers, NEW x \in Servers, NEW m \in Messages,
         NEW M, M = [N EXCEPT ![s][x] = Append(@, m)]
  PROVE  /\ m \in RequestMessages => Asked(N, M, s, x)
         /\ m \in ResponseMessages => Answered(N, M, s, x)
<1>1. /\ Sends(Servers, N, M, s, x, m, RequestMessages)
      /\ Sends(Servers, N, M, s, x, m, ResponseMessages)
  BY MailedType, SendCount
<1>2. ~(m \in RequestMessages /\ m \in ResponseMessages)
  BY KindOf
<1>3. \A a, b \in Servers : \A T : Count(N[a][b], T) \in Nat
  BY MailedType, ChannelSeq, CountNat
<1> QED BY <1>1, <1>2, <1>3, SendsKind

LEMMA ReceivesKind ==
  ASSUME NEW N, NEW M, NEW r, NEW s, NEW m, m = Head(N[r][s]),
         Receives(Servers, N, M, r, s, RequestMessages), Receives(Servers, N, M, r, s, ResponseMessages),
         \A a, b \in Servers : \A T : Count(M[a][b], T) \in Nat
  PROVE  /\ m \in RequestMessages /\ m \notin ResponseMessages => Asked(M, N, r, s)
         /\ m \notin RequestMessages /\ m \in ResponseMessages => Answered(M, N, r, s)
         /\ m \notin RequestMessages /\ m \notin ResponseMessages => NetSame(N, M)
<1>1. ASSUME NEW a \in Servers, NEW b \in Servers
      PROVE  /\ Count(N[a][b], RequestMessages)
                  = Count(M[a][b], RequestMessages) + OneIf(a = r /\ b = s /\ m \in RequestMessages)
             /\ Count(N[a][b], ResponseMessages)
                  = Count(M[a][b], ResponseMessages) + OneIf(a = r /\ b = s /\ m \in ResponseMessages)
  BY DEF Receives
<1>2. m \in RequestMessages /\ m \notin ResponseMessages => Asked(M, N, r, s)
  BY <1>1 DEF Asked, OneIf
<1>3. m \notin RequestMessages /\ m \in ResponseMessages => Answered(M, N, r, s)
  BY <1>1 DEF Answered, OneIf
<1>4. m \notin RequestMessages /\ m \notin ResponseMessages => NetSame(N, M)
  BY <1>1 DEF NetSame, OneIf
<1> QED BY <1>2, <1>3, <1>4

LEMMA TakenChanges ==
  ASSUME NEW N, Mailed(N), NEW r \in Servers, NEW s \in Servers, N[r][s] # <<>>,
         NEW M, M = [N EXCEPT ![r][s] = Tail(@)]
  PROVE  /\ Head(N[r][s]) \in RequestMessages => Asked(M, N, r, s)
         /\ Head(N[r][s]) \in ResponseMessages => Answered(M, N, r, s)
         /\ Head(N[r][s]) = ServerReady => NetSame(N, M)
<1> DEFINE m == Head(N[r][s])
<1>1. /\ Receives(Servers, N, M, r, s, RequestMessages)
      /\ Receives(Servers, N, M, r, s, ResponseMessages)
  BY MailedType, ReceiveCount
<1>2. Mailed(M) /\ m \in Messages
  BY MailTaken
<1>3. /\ ~(m \in RequestMessages /\ m \in ResponseMessages)
      /\ m = ServerReady => m \notin RequestMessages /\ m \notin ResponseMessages
  BY <1>2, KindOf
<1>4. \A a, b \in Servers : \A T : Count(M[a][b], T) \in Nat
  BY <1>2, MailedType, ChannelSeq, CountNat
<1> QED BY <1>1, <1>3, <1>4, ReceivesKind

\* What is put aside, and what reprocess takes
LEMMA AsideChanges ==
  ASSUME Types, NEW s \in Servers
  PROVE  /\ Lines(Servers, deferred)
         /\ \A r \in Servers, m \in Messages :
              deferred' = [deferred EXCEPT ![s] = Append(@, [msg |-> m, from |-> r])] =>
                /\ m \in ResponseMessages => AsideMore(deferred, deferred', s)
                /\ m = ServerReady => AsideSame(deferred, deferred')
         /\ deferred[s] # <<>> /\ deferred' = [deferred EXCEPT ![s] = Tail(@)]
              /\ Head(deferred[s]).msg = ServerReady => AsideSame(deferred, deferred')
<1> DEFINE E == [msg : Messages \ RequestMessages, from : Servers]
<1>1. Lines(Servers, deferred)
  <2>1. deferred \in [Servers -> Seq(E)]
    BY DEF Types, ServersTyped
  <2> HIDE DEF E
  <2> QED BY <2>1 DEF Lines
<1>2. \A y \in Servers : Count(deferred[y], AsideResponses) \in Nat
  BY <1>1, LineSeq, CountNat
<1>3. ServerReady \notin ResponseMessages
  BY MessageKinds DEF ServerReady, ResponseMessages
<1>4. ASSUME NEW r \in Servers, NEW m \in Messages,
             deferred' = [deferred EXCEPT ![s] = Append(@, [msg |-> m, from |-> r])]
      PROVE  /\ m \in ResponseMessages => AsideMore(deferred, deferred', s)
             /\ m = ServerReady => AsideSame(deferred, deferred')
  <2> DEFINE e == [msg |-> m, from |-> r]
  <2>1. e \in AsideResponses <=> m \in ResponseMessages
    BY DEF AsideResponses
  <2>2. \A y \in Servers : Count(deferred'[y], AsideResponses)
                             = Count(deferred[y], AsideResponses) + OneIf(y = s /\ e \in AsideResponses)
    <3> HIDE DEF e
    <3>1. Appends(Servers, deferred, deferred', s, e, AsideResponses)
      BY <1>1, <1>4, AppendLine DEF e
    <3> QED BY <3>1 DEF Appends
  <2> HIDE DEF e
  <2> QED BY <1>2, <1>3, <2>1, <2>2 DEF AsideMore, AsideSame, OneIf
<1>5. ASSUME deferred[s] # <<>>, deferred' = [deferred EXCEPT ![s] = Tail(@)],
             Head(deferred[s]).msg = ServerReady
      PROVE  AsideSame(deferred, deferred')
  <2>1. Head(deferred[s]) \notin AsideResponses
    BY <1>3, <1>5 DEF AsideResponses
  <2>2. Takes(Servers, deferred, deferred', s, AsideResponses)
    BY <1>1, <1>5, TakeLine
  <2>3. \A y \in Servers : Count(deferred[y], AsideResponses) = Count(deferred'[y], AsideResponses) + 0
    BY <2>1, <2>2 DEF Takes, OneIf
  <2>4. \A y \in Servers : Count(deferred'[y], AsideResponses) \in Nat
    <3>1. Lines(Servers, deferred')
      <4>1. deferred \in [Servers -> Seq(E)] /\ Tail(deferred[s]) \in Seq(E)
        BY <1>5, AsideMessage DEF Types, ServersTyped
      <4> HIDE DEF E
      <4>2. deferred' \in [Servers -> Seq(E)]
        BY <1>5, <4>1
      <4> QED BY <4>2 DEF Lines
    <3> QED BY <3>1, LineSeq, CountNat
  <2> QED BY <2>3, <2>4 DEF AsideSame
<1> QED BY <1>1, <1>4, <1>5

LEMMA NumbersNow ==
  ASSUME NEW N, Mailed(N), NEW S, Calling(S),
         NEW F, F \in [Servers -> Seq([msg : Messages \ RequestMessages, from : Servers])]
  PROVE  Numbers(N, S, F)
<1> DEFINE E == [msg : Messages \ RequestMessages, from : Servers]
<1>1. F \in [Servers -> Seq(E)]
  OBVIOUS
<1> HIDE DEF E
<1>2. Lines(Servers, F)
  BY <1>1 DEF Lines
<1> QED BY <1>2, NumbersType

LEMMA NothingChanges ==
  /\ \A N : NetSame(N, N)
  /\ \A F : AsideSame(F, F)
  /\ \A S : StackSame(S, S)
BY DEF NetSame, AsideSame, StackSame

\* A step inside a server that neither calls another nor ends a call
LEMMA InsideCalls ==
  ASSUME Types, Balanced(net, stack, deferred), NEW s \in Servers,
         NEW q, IsSeq(q), SameCalls(stack[s], q), stack' = [stack EXCEPT ![s] = q],
         UNCHANGED <<net, deferred>>
  PROVE  Balanced(net, stack, deferred)'
<1>1. StackSame(stack, stack')
  BY StackChanges DEF Types
<1> QED BY <1>1, NothingBalanced, NothingChanges

LEMMA CallServerCalls ==
  ASSUME Types, Balanced(net, stack, deferred), NEW s \in Servers,
         NEW type \in RequestTypes, NEW c \in Reaches(s), Owner[c] # s,
         NEW q, IsSeq(q), SameCalls(stack[s], q), CallServer(s, type, c, q)
  PROVE  Balanced(net, stack, deferred)'
<1> DEFINE f == Recv(ResponseTo[type])
           m == Request(type, c)
<1>1. /\ net' = [net EXCEPT ![s][Peer[s]] = Append(@, m)]
      /\ stack' = [stack EXCEPT ![s] = <<f>> \o q]
      /\ deferred' = deferred
      /\ Peer[s] \in Servers /\ m \in RequestMessages /\ m \in Messages
  BY CallsPeer DEF CallServer, Messages
<1>2. f \in RecvFrames
  BY MessageKinds DEF Recv, RecvFrames
<1> HIDE DEF f, m
<1>3. Asked(net, net', s, Peer[s])
  BY <1>1, SentChanges DEF Types
<1>4. OneMore(stack[s], <<f>> \o q, f) /\ IsSeq(<<f>> \o q)
  BY PushMore, PushSeq, SameTwice
<1>5. WaitsMore(stack, stack', s)
  BY <1>1, <1>2, <1>4, StackChanges DEF Types
<1>6. Numbers(net, stack, deferred)
  BY NumbersNow DEF Types, ServersTyped
<1> QED BY <1>1, <1>3, <1>5, <1>6, AskedBalanced

\* A request of another server is processed, and SERVER_READY at once; any
\* response that is not awaited ends in an error.
LEMMA HearServerCalls ==
  ASSUME Types, Types', Balanced(net, stack, deferred), NEW s \in Servers, NEW r \in Servers,
         ListenServer(s, r) \/ RecvRequest(s, r)
  PROVE  CallsBalanced'
<1> DEFINE m == Head(net[r][s])
           f == Process(m, r)
<1>1. /\ net[r][s] # <<>> /\ net' = [net EXCEPT ![r][s] = Tail(@)]
      /\ StartProcess(s, m, r, stack[s])
      /\ deferred' = deferred
  BY DEF ListenServer, RecvRequest, Idle
<1>2. /\ m \in Messages /\ Mailed(net) /\ Calling(stack)
      /\ IsRequest(m) => m \in RequestsTo(s)
  BY <1>1, MailTaken DEF Types
<1>3. /\ m \in RequestMessages => Asked(net', net, r, s)
      /\ m = ServerReady => NetSame(net, net')
  BY <1>1, <1>2, TakenChanges
<1>4. CASE IsRequest(m)
  <2>1. m \in CallsTo(s) /\ m.wait /\ m \in RequestMessages
    BY <1>2, <1>4, MailMessages
  <2> HIDE DEF m
  <2>2. f \in ProcessFrames(s) /\ f.from = r
    BY <2>1, ProcessFrame
  <2>3. stack' = [stack EXCEPT ![s] = <<f>> \o stack[s]]
    BY <1>1, <1>4 DEF StartProcess
  <2>4. IsSeq(stack[s])
    BY <1>2, FramesSeq DEF Calling
  <2> HIDE DEF f
  <2>5. OneMore(stack[s], <<f>> \o stack[s], f) /\ IsSeq(<<f>> \o stack[s])
    BY <2>4, PushMore, PushSeq
  <2>6. Serves(stack, stack', s, r)
    BY <1>2, <2>2, <2>3, <2>5, StackChanges
  <2>7. Numbers(net, stack, deferred) /\ Numbers(net', stack', deferred')
    BY NumbersNow DEF Types, ServersTyped
  <2>8. Balanced(net', stack', deferred')
    BY <1>1, <1>3, <2>1, <2>6, <2>7, HeardBalanced
  <2> QED BY <2>8 DEF CallsBalanced
<1>5. CASE IsResponse(m)
  BY <1>1, <1>5 DEF StartProcess, CallsBalanced
<1>6. CASE ~IsRequest(m) /\ ~IsResponse(m)
  <2>1. m = ServerReady
    BY <1>2, <1>6, KindOf
  <2>2. stack' = [stack EXCEPT ![s] = stack[s]]
    BY <1>1, <1>6 DEF StartProcess
  <2>3. StackSame(stack, stack')
    BY <1>2, <2>2, ExceptAt DEF Calling, StackSame
  <2>4. Balanced(net', stack', deferred')
    BY <1>1, <1>3, <2>1, <2>3, NothingBalanced, NothingChanges
  <2> QED BY <2>4 DEF CallsBalanced
<1> QED BY <1>4, <1>5, <1>6

\* A client is no server, and is sent its response over INTER_COMM.
LEMMA ListenClientCalls ==
  ASSUME Types, Balanced(net, stack, deferred), NEW s \in Servers, NEW k \in Clients,
         ListenClient(s, k)
  PROVE  Balanced(net, stack, deferred)'
<1> DEFINE m == Head(inbox[k])
           f == Process(m, k)
<1>1. /\ inbox[k] # <<>> /\ Home[k] = s
      /\ StartProcess(s, m, k, stack[s])
      /\ UNCHANGED <<net, deferred>>
  BY DEF ListenClient, Idle
<1>2. m \in CallsTo(s) /\ k \notin Servers
  BY <1>1, RpcAssumption DEF Types, ClientsTyped
<1>3. IsRequest(m)
  BY <1>2 DEF CallsTo, IsRequest
<1>4. stack' = [stack EXCEPT ![s] = <<f>> \o stack[s]]
  BY <1>1, <1>3 DEF StartProcess
<1>5. Calling(stack) /\ IsSeq(stack[s])
  BY FramesSeq DEF Types, Calling
<1> HIDE DEF m
<1>6. f \in ProcessFrames(s) /\ f.from = k
  BY <1>2, ProcessFrame
<1> HIDE DEF f
<1>7. OneMore(stack[s], <<f>> \o stack[s], f) /\ IsSeq(<<f>> \o stack[s])
  BY <1>5, PushMore, PushSeq
<1>8. Serves(stack, stack', s, k)
  BY <1>4, <1>5, <1>6, <1>7, StackChanges
<1>9. StackSame(stack, stack')
  <2>1. \A y \in Servers : \A T : Count(stack[y], T) \in Nat
    BY <1>5, FramesSeq, CountNat DEF Calling
  <2> QED BY <1>2, <1>8, <2>1 DEF Serves, StackSame, OneIf
<1> QED BY <1>1, <1>9, NothingBalanced, NothingChanges

LEMMA ReprocessCalls ==
  ASSUME Types, Balanced(net, stack, deferred), NEW s \in Servers, Reprocess(s)
  PROVE  CallsBalanced'
<1> DEFINE m == Head(deferred[s]).msg
<1>1. /\ deferred[s] # <<>> /\ deferred' = [deferred EXCEPT ![s] = Tail(@)] /\ net' = net
      /\ StartProcess(s, m, Head(deferred[s]).from, stack[s])
  BY DEF Reprocess, Idle, channels
<1>2. m \in Messages /\ ~IsRequest(m)
  BY <1>1, AsideMessage
<1>3. CASE IsResponse(m)
  BY <1>1, <1>3 DEF StartProcess, CallsBalanced
<1>4. CASE ~IsResponse(m)
  <2>1. m = ServerReady
    BY <1>2, <1>4, KindOf
  <2>2. stack' = [stack EXCEPT ![s] = stack[s]]
    BY <1>1, <1>2 DEF StartProcess
  <2>3. StackSame(stack, stack')
    BY <2>2, ExceptAt DEF Types, Calling, StackSame
  <2>4. AsideSame(deferred, deferred')
    BY <1>1, <2>1, AsideChanges
  <2>5. Balanced(net', stack', deferred')
    BY <1>1, <2>3, <2>4, NothingBalanced, NothingChanges
  <2> QED BY <2>5 DEF CallsBalanced
<1> QED BY <1>3, <1>4

LEMMA RecvOtherCalls ==
  ASSUME Types, Types', Balanced(net, stack, deferred), NEW s \in Servers, NEW r \in Servers,
         RecvOther(s, r)
  PROVE  Balanced(net, stack, deferred)'
<1> DEFINE m == Head(net[r][s])
<1>1. /\ net[r][s] # <<>> /\ net' = [net EXCEPT ![r][s] = Tail(@)]
      /\ ~IsRequest(m)
      /\ deferred' = [deferred EXCEPT ![s] = Append(@, [msg |-> m, from |-> r])]
      /\ stack' = stack
  BY DEF RecvOther
<1>2. m \in Messages /\ Mailed(net)
  BY <1>1, MailTaken DEF Types
<1>3. /\ m \in ResponseMessages => Answered(net', net, r, s)
      /\ m = ServerReady => NetSame(net, net')
  BY <1>1, <1>2, TakenChanges
<1> HIDE DEF m
<1>4. /\ m \in ResponseMessages => AsideMore(deferred, deferred', s)
      /\ m = ServerReady => AsideSame(deferred, deferred')
  BY <1>1, <1>2, AsideChanges
<1>5. CASE m \in ResponseMessages
  <2>1. Numbers(net, stack, deferred) /\ Numbers(net', stack', deferred')
    BY NumbersNow DEF Types, ServersTyped
  <2> QED BY <1>1, <1>3, <1>4, <1>5, <2>1, AsideBalanced
<1>6. CASE m \notin ResponseMessages
  <2>1. m = ServerReady
    BY <1>1, <1>2, <1>6, KindOf
  <2> QED BY <1>1, <1>3, <1>4, <2>1, NothingBalanced, NothingChanges
<1> QED BY <1>5, <1>6

LEMMA RecvResponseCalls ==
  ASSUME Types, Types', Balanced(net, stack, deferred), NEW s \in Servers, NEW r \in Servers,
         RecvResponse(s, r)
  PROVE  CallsBalanced'
<1> DEFINE m == Head(net[r][s])
           f == Caller(s)
           g == Returned(f, m)
           q == <<g>> \o Tail(Callers(s))
<1>1. /\ net[r][s] # <<>> /\ net' = [net EXCEPT ![r][s] = Tail(@)]
      /\ Running(s, "MPI_Recv") /\ m.type = Top(s).type
      /\ deferred' = deferred
      /\ \/ failed' = TRUE
         \/ ~NoDatum(s, m) /\ stack' = [stack EXCEPT ![s] = q]
  BY DEF RecvResponse, Awaited, NoDatum, Caller, memory
<1>2. m \in Messages /\ Mailed(net) /\ Calling(stack) /\ Top(s) \in RecvFrames /\ stack[s] # <<>>
  BY <1>1, MailTaken, TopFrame DEF Types, Running
<1>3. m \in ResponseMessages
  BY <1>1, <1>2, KindOf DEF RecvFrames, IsResponse
<1>4. Answered(net', net, r, s)
  BY <1>1, <1>2, <1>3, TakenChanges
<1> HIDE DEF m
<1>5. CASE ~NoDatum(s, m) /\ stack' = [stack EXCEPT ![s] = q]
  <2>1. /\ Callers(s) # <<>> /\ Framed(s, Callers(s)) /\ Framed(s, q)
        /\ f \in ProcessFrames(s) \cup SyncFrames(s)
        /\ g \in Frames(s) /\ g.fn = f.fn
        /\ f.fn = "process" => g.from = f.from
    BY <1>1, <1>3, <1>5, ReturnedFrame
  <2> HIDE DEF g, f
  <2>2. \/ g \in SyncFrames(s) /\ f \in SyncFrames(s)
        \/ g \in ProcessFrames(s) /\ f \in ProcessFrames(s) /\ g.from = f.from
    BY <2>1 DEF Frames, ProcessFrames, SyncFrames, RecvFrames
  <2>3. IsSeq(stack[s]) /\ IsSeq(Callers(s)) /\ IsSeq(q)
    BY <1>2, <2>1, FramesSeq DEF Calling
  <2>4. SameCalls(Callers(s), q)
    BY <2>1, <2>2, <2>3, SwapSame DEF f, Caller
  <2> HIDE DEF q
  <2>5. OneMore(Callers(s), stack[s], Top(s))
    BY <1>2, <2>3, PopMore DEF Callers, Top
  <2>6. OneMore(q, stack[s], Top(s))
    BY <2>4, <2>5, SameTwice
  <2>7. WaitsMore(stack', stack, s)
    BY <1>2, <1>5, <2>3, <2>6, StackChanges
  <2>8. Numbers(net, stack, deferred) /\ Numbers(net', stack', deferred')
    BY NumbersNow DEF Types, ServersTyped
  <2>9. Balanced(net', stack', deferred')
    BY <1>1, <1>4, <2>7, <2>8, ReturnedBalanced
  <2> QED BY <2>9 DEF CallsBalanced
<1> QED BY <1>1, <1>5 DEF CallsBalanced

\* The calls of kitfox_t inside a server: synchronize_data
LEMMA ContinueCalls ==
  ASSUME Types, Balanced(net, stack, deferred), NEW s \in Servers,
         NEW q, IsSeq(q), SameCalls(stack[s], q), Continue(s, q)
  PROVE  Balanced(net, stack, deferred)'
<1>1. stack' = [stack EXCEPT ![s] = q] /\ UNCHANGED <<net, deferred>>
  BY DEF Continue, channels, memory
<1> QED BY <1>1, InsideCalls

LEMMA SyncEntryCalls ==
  ASSUME Types, Balanced(net, stack, deferred), NEW s \in Servers, SyncEntry(s)
  PROVE  Balanced(net, stack, deferred)'
<1> DEFINE c == Top(s).comp
           g == [Top(s) EXCEPT !.at = "sync"]
<1>1. Running(s, "synchronize_data")
  BY DEF SyncEntry
<1>2. Top(s) \in SyncFrames(s) /\ c \in Reaches(s) /\ stack[s] # <<>>
  BY <1>1, SyncTop
<1>3. IsSeq(stack[s]) /\ IsSeq(Callers(s))
  BY <1>1, SyncTop, FramesSeq
<1>4. SameCalls(stack[s], Callers(s))
  BY <1>2, <1>3, PopSame DEF Top, Callers
<1>5. CASE Owner[c] # s
  <2>1. CallServer(s, "SYNCHRONIZE_DATA_REQ", c, Callers(s))
    BY <1>5, Zenon DEF SyncEntry
  <2>2. "SYNCHRONIZE_DATA_REQ" \in RequestTypes
    BY MessageKinds
  <2> HIDE DEF c
  <2> QED BY <1>2, <1>3, <1>4, <1>5, <2>1, <2>2, CallServerCalls
<1>6. CASE Owner[c] = s /\ (Leaf(c) \/ power[c] # NoData)
  <2>1. Continue(s, Callers(s))
    BY <1>6, Zenon DEF SyncEntry
  <2> QED BY <1>3, <1>4, <2>1, ContinueCalls
<1>7. CASE Owner[c] = s /\ ~(Leaf(c) \/ power[c] # NoData)
  <2>1. Continue(s, <<g>> \o Callers(s))
    BY <1>7, Zenon DEF SyncEntry
  <2>2. g \in SyncFrames(s)
    BY <1>2 DEF SyncFrames
  <2> HIDE DEF g
  <2>3. SameCalls(stack[s], <<g>> \o Callers(s)) /\ IsSeq(<<g>> \o Callers(s))
    BY <1>2, <1>3, <2>2, SwapSame, PushSeq DEF Top, Callers
  <2> QED BY <2>1, <2>3, ContinueCalls
<1> QED BY <1>5, <1>6, <1>7

LEMMA SyncChildCalls ==
  ASSUME Types, Balanced(net, stack, deferred), NEW s \in Servers, SyncChild(s)
  PROVE  Balanced(net, stack, deferred)'
<1> DEFINE f == Top(s)
           g == [f EXCEPT !.at = "pull"]
           d == SynchronizeData(Children[f.comp][f.child])
           p == <<g>> \o Callers(s)
<1>1. /\ Running(s, "synchronize_data") /\ f.at = "sync"
      /\ f.child <= Len(Children[f.comp])
      /\ Continue(s, <<d, g>> \o Callers(s))
  BY DEF SyncChild
<1>2. f \in SyncFrames(s) /\ stack[s] # <<>> /\ IsSeq(stack[s]) /\ IsSeq(Callers(s))
  BY <1>1, SyncTop, FramesSeq
<1>3. g \in SyncFrames(s) /\ d \in SyncFrames(s)
  BY <1>1, SyncChildFrames
<1> HIDE DEF d, g
<1>4. SameCalls(stack[s], p) /\ IsSeq(p)
  BY <1>2, <1>3, SwapSame, PushSeq DEF Top, Callers
<1>5. <<d, g>> \o Callers(s) = <<d>> \o p
  BY <1>2, PushTwo
<1> HIDE DEF p
<1>6. SameCalls(stack[s], <<d>> \o p) /\ IsSeq(<<d>> \o p)
  BY <1>3, <1>4, PushSame, PushSeq, SameTwice
<1> QED BY <1>1, <1>5, <1>6, ContinueCalls

LEMMA PullChildCalls ==
  ASSUME Types, Balanced(net, stack, deferred), NEW s \in Servers, PullChild(s)
  PROVE  CallsBalanced'
<1> DEFINE f == Top(s)
           c == Children[f.comp][f.child]
<1>1. Running(s, "synchronize_data") /\ f.at = "pull"
  BY DEF PullChild
<1>2. /\ f \in SyncFrames(s) /\ f.child \in Nat \ {0} /\ f.comp \in Local(s)
      /\ f.child <= Len(Children[f.comp])
      /\ stack[s] # <<>> /\ IsSeq(stack[s]) /\ IsSeq(Callers(s))
  BY <1>1, SyncTop, FramesSeq
<1>3. c \in Reaches(s)
  BY <1>2, ChildReached
<1>4. power[c] \in Data
  BY <1>3 DEF Types, ServersTyped, Reaches
<1>5. CASE Owner[c] # s
  <2>1. CallServer(s, "PULL_DATA_REQ", c, stack[s])
    BY <1>5, Zenon DEF PullChild
  <2>2. "PULL_DATA_REQ" \in RequestTypes
    BY MessageKinds
  <2>3. SameCalls(stack[s], stack[s])
    BY DEF SameCalls
  <2> HIDE DEF c
  <2>4. Balanced(net, stack, deferred)'
    BY <1>2, <1>3, <1>5, <2>1, <2>2, <2>3, CallServerCalls
  <2> QED BY <2>4 DEF CallsBalanced
<1>6. CASE Owner[c] = s /\ power[c] = NoData
  <2>1. Error
    BY <1>6, Zenon DEF PullChild
  <2> QED BY <2>1 DEF Error, CallsBalanced
<1>7. CASE Owner[c] = s /\ power[c] # NoData
  <2>1. Continue(s, <<Add(f, power[c])>> \o Callers(s))
    BY <1>7, Zenon DEF PullChild
  <2>2. power[c] \in Nat
    BY <1>4, <1>7 DEF Data
  <2> DEFINE g == Add(f, power[c])
  <2>3. g \in SyncFrames(s)
    <3> HIDE DEF c
    <3> QED BY <1>1, <2>2, AddFrame
  <2> HIDE DEF g
  <2>4. SameCalls(stack[s], <<g>> \o Callers(s)) /\ IsSeq(<<g>> \o Callers(s))
    BY <1>2, <2>3, SwapSame, PushSeq DEF Top, Callers
  <2>5. Balanced(net, stack, deferred)'
    BY <2>1, <2>4, ContinueCalls DEF g
  <2> QED BY <2>5 DEF CallsBalanced
<1> QED BY <1>5, <1>6, <1>7

LEMMA SyncReturnCalls ==
  ASSUME Types, Balanced(net, stack, deferred), NEW s \in Servers, SyncReturn(s)
  PROVE  Balanced(net, stack, deferred)'
<1>1. /\ Running(s, "synchronize_data")
      /\ stack' = [stack EXCEPT ![s] = Callers(s)] /\ UNCHANGED <<net, deferred>>
  BY DEF SyncReturn, channels, memory
<1>2. Top(s) \in SyncFrames(s) /\ stack[s] # <<>> /\ IsSeq(stack[s]) /\ IsSeq(Callers(s))
  BY <1>1, SyncTop, FramesSeq
<1>3. SameCalls(stack[s], Callers(s))
  BY <1>2, PopSame DEF Top, Callers
<1> QED BY <1>1, <1>2, <1>3, InsideCalls

\* The handlers: process() goes on, above the calls of others that it waits for
LEMMA HandleSyncCalls ==
  ASSUME Types, Balanced(net, stack, deferred), NEW s \in Servers, HandleSync(s)
  PROVE  Balanced(net, stack, deferred)'
<1> DEFINE f == Top(s)
           at == IF f.msg.type = "SYNCHRONIZE_DATA_REQ" THEN "respond" ELSE "pull"
           g == [f EXCEPT !.at = at]
           d == SynchronizeData(f.msg.comp)
           p == <<g>> \o Callers(s)
<1>1. Running(s, "process") /\ Continue(s, <<d, g>> \o Callers(s))
  BY DEF HandleSync
<1>2. f \in ProcessFrames(s) /\ stack[s] # <<>> /\ IsSeq(stack[s]) /\ IsSeq(Callers(s))
  BY <1>1, ProcessTop, FramesSeq
<1>3. at \in {"respond", "pull"}
  OBVIOUS
<1> HIDE DEF at
<1>4. g \in ProcessFrames(s) /\ g.from = f.from /\ d \in SyncFrames(s)
  BY <1>1, <1>3, HandleSyncFrames
<1> HIDE DEF d, g
<1>5. SameCalls(stack[s], p) /\ IsSeq(p)
  BY <1>2, <1>4, SwapSame, PushSeq DEF Top, Callers
<1>6. <<d, g>> \o Callers(s) = <<d>> \o p
  BY <1>2, PushTwo
<1> HIDE DEF p
<1>7. SameCalls(stack[s], <<d>> \o p) /\ IsSeq(<<d>> \o p)
  BY <1>4, <1>5, PushSame, PushSeq, SameTwice
<1> QED BY <1>1, <1>6, <1>7, ContinueCalls

LEMMA HandlePullCalls ==
  ASSUME Types, Balanced(net, stack, deferred), NEW s \in Servers, HandlePull(s)
  PROVE  Balanced(net, stack, deferred)'
<1> DEFINE f == Top(s)
           c == f.msg.comp
           g == [f EXCEPT !.at = "respond"]
           h == [f EXCEPT !.at = "respond", !.data = power[c]]
<1>1. /\ Running(s, "process")
      /\ IF Owner[c] = s THEN Continue(s, <<h>> \o Callers(s))
                         ELSE CallServer(s, "PULL_DATA_REQ", c, <<g>> \o Callers(s))
  BY DEF HandlePull
<1>2. /\ f \in ProcessFrames(s) /\ c \in Reaches(s)
      /\ stack[s] # <<>> /\ IsSeq(stack[s]) /\ IsSeq(Callers(s))
  BY <1>1, ProcessTop, FramesSeq
<1>3. power[c] \in Data
  BY <1>2 DEF Types, ServersTyped, Reaches
<1>4. /\ g \in ProcessFrames(s) /\ g.from = f.from
      /\ h \in ProcessFrames(s) /\ h.from = f.from
  <2> HIDE DEF c
  <2>1. g \in ProcessFrames(s) /\ g.from = f.from
    BY <1>2, NextAt
  <2>2. h \in ProcessFrames(s) /\ h.from = f.from
    BY <1>2, <1>3, DatumRead
  <2> QED BY <2>1, <2>2
<1> HIDE DEF g, h, c
<1>5. CASE Owner[c] = s
  <2>1. SameCalls(stack[s], <<h>> \o Callers(s)) /\ IsSeq(<<h>> \o Callers(s))
    BY <1>2, <1>4, SwapSame, PushSeq DEF Top, Callers
  <2> QED BY <1>1, <1>5, <2>1, ContinueCalls
<1>6. CASE Owner[c] # s
  <2>1. SameCalls(stack[s], <<g>> \o Callers(s)) /\ IsSeq(<<g>> \o Callers(s))
    BY <1>2, <1>4, SwapSame, PushSeq DEF Top, Callers
  <2>2. "PULL_DATA_REQ" \in RequestTypes
    BY MessageKinds
  <2> QED BY <1>1, <1>2, <1>6, <2>1, <2>2, CallServerCalls
<1> QED BY <1>5, <1>6

LEMMA HandlePowerCalls ==
  ASSUME Types, Balanced(net, stack, deferred), NEW s \in Servers, HandlePower(s)
  PROVE  Balanced(net, stack, deferred)'
<1> DEFINE f == Top(s)
           c == f.msg.comp
           g == [f EXCEPT !.at = "respond"]
           q == <<g>> \o Callers(s)
<1>1. /\ Running(s, "process")
      /\ IF Owner[c] # s
           THEN CallServer(s, "CALCULATE_POWER_REQ", c, q)
           ELSE stack' = [stack EXCEPT ![s] = q] /\ UNCHANGED <<net, deferred>>
  BY DEF HandlePower, channels, memory
<1>2. /\ f \in ProcessFrames(s) /\ c \in Reaches(s)
      /\ stack[s] # <<>> /\ IsSeq(stack[s]) /\ IsSeq(Callers(s))
  BY <1>1, ProcessTop, FramesSeq
<1>3. g \in ProcessFrames(s) /\ g.from = f.from
  BY <1>2, NextAt
<1> HIDE DEF g, c
<1>4. SameCalls(stack[s], q) /\ IsSeq(q)
  BY <1>2, <1>3, SwapSame, PushSeq DEF Top, Callers
<1> HIDE DEF q
<1>5. CASE Owner[c] # s
  <2>1. "CALCULATE_POWER_REQ" \in RequestTypes
    BY MessageKinds
  <2> QED BY <1>1, <1>2, <1>4, <1>5, <2>1, CallServerCalls
<1>6. CASE Owner[c] = s
  BY <1>1, <1>4, <1>6, InsideCalls
<1> QED BY <1>5, <1>6

\* A call of process() ends: another server is sent its response.
LEMMA RespondCalls ==
  ASSUME Types, Types', Balanced(net, stack, deferred), NEW s \in Servers, Respond(s)
  PROVE  Balanced(net, stack, deferred)'
<1> DEFINE f == Top(s)
           x == f.from
           q == Callers(s)
           m == IF f.msg.wait THEN Response(ResponseTo[f.msg.type], f.data) ELSE sendbuf[s]
<1>1. /\ Running(s, "process")
      /\ IF responds'[s] THEN SendTo(s, x, m) ELSE UNCHANGED <<net, reply>>
      /\ stack' = [stack EXCEPT ![s] = q]
      /\ UNCHANGED deferred
  BY DEF Respond
<1>2. /\ m \in Messages
      /\ x \in Servers => m \in ResponseMessages /\ responds'[s]
  BY RespondMessage
<1>3. /\ f \in ProcessFrames(s) /\ x \in Servers \cup Clients
      /\ stack[s] # <<>> /\ IsSeq(stack[s]) /\ IsSeq(q)
  BY <1>1, ProcessTop, FramesSeq
<1>4. Mailed(net) /\ Calling(stack) /\ Calling(stack')
  BY DEF Types
<1> HIDE DEF m
<1>5. OneMore(q, stack[s], f)
  BY <1>3, PopMore DEF Top, Callers
<1>6. Serves(stack', stack, s, x)
  <2> HIDE DEF f, q
  <2>1. Serves(stack', stack, s, f.from)
    BY <1>1, <1>3, <1>4, <1>5, StackChanges
  <2> QED BY <2>1
<1> HIDE DEF f, q, x
<1>7. CASE x \in Servers
  <2>1. net' = [net EXCEPT ![s][x] = Append(@, m)]
    BY <1>1, <1>2, <1>7 DEF SendTo
  <2>2. Answered(net, net', s, x)
    BY <1>2, <1>4, <1>7, <2>1, SentChanges
  <2>3. Numbers(net, stack, deferred) /\ Numbers(net', stack', deferred')
    BY NumbersNow DEF Types, ServersTyped
  <2> QED BY <1>1, <1>6, <1>7, <2>2, <2>3, AnsweredBalanced
<1>8. CASE x \notin Servers
  <2>1. net' = net
    BY <1>1, <1>8 DEF SendTo
  <2>2. \A y \in Servers : \A T : Count(stack'[y], T) \in Nat
    BY <1>4, FramesSeq, CountNat DEF Calling
  <2>3. StackSame(stack', stack)
    BY <1>6, <1>8, <2>2 DEF Serves, StackSame, OneIf
  <2>4. StackSame(stack, stack')
    BY <2>3 DEF StackSame
  <2> QED BY <1>1, <2>1, <2>4, NothingBalanced, NothingChanges
<1> QED BY <1>7, <1>8

LEMMA CallsStep ==
  ASSUME Types, Types', CallsBalanced, [Next]_vars
  PROVE  CallsBalanced'
<1>1. CASE UNCHANGED vars
  BY <1>1 DEF vars, channels, memory, CallsBalanced, Balanced, Open, Owed
<1>2. ASSUME NEW s \in Servers, ServerStep(s)
      PROVE  CallsBalanced'
  <2>1. ~failed
    BY <1>2 DEF ServerStep, ListenServer, ListenClient, Reprocess, RecvRequest, RecvOther, RecvResponse,
       SyncEntry, SyncChild, PullChild, SyncReturn, HandleSync, HandlePull, HandlePower, Respond,
       Idle, Running
  <2>2. Balanced(net, stack, deferred)
    BY <2>1 DEF CallsBalanced
  <2>3. \/ CallsBalanced'
        \/ Balanced(net, stack, deferred)'
    BY <1>2, <2>2, HearServerCalls, RecvOtherCalls, RecvResponseCalls, ListenClientCalls, ReprocessCalls,
       SyncEntryCalls, SyncChildCalls, PullChildCalls, SyncReturnCalls,
       HandleSyncCalls, HandlePullCalls, HandlePowerCalls, RespondCalls DEF ServerStep
  <2> QED BY <2>3 DEF CallsBalanced
<1>3. ASSUME NEW k \in Clients, ClientCall(k) \/ ClientReturn(k)
      PROVE  CallsBalanced'
  <2>1. ~failed /\ UNCHANGED <<net, stack, deferred>>
    BY <1>3 DEF ClientCall, ClientReturn, memory
  <2> QED BY <2>1 DEF CallsBalanced, Balanced, Open, Owed
<1> QED BY <1>1, <1>2, <1>3 DEF Next

\* At first no server calls another: each has only been told who is ready.
LEMMA CallsInit ==
  ASSUME Init
  PROVE  CallsBalanced
<1>1. ServerReady \notin RequestMessages /\ ServerReady \notin ResponseMessages
  BY MessageKinds DEF ServerReady, RequestMessages, ResponseMessages
<1>2. \A T : Count(<<>>, T) = 0
  BY CountEmpty
<1>3. ASSUME NEW T, ServerReady \notin T
      PROVE  Count(<<ServerReady>>, T) = 0
  <2> DEFINE d == ServerReady
  <2>1. d \notin T
    BY <1>3
  <2> HIDE DEF d
  <2>2. <<d>> = Append(<<>>, d)
    OBVIOUS
  <2>3. IsSeq(<<>>)
    BY DEF IsSeq
  <2>4. Count(Append(<<>>, d), T) = Count(<<>>, T) + OneIf(d \in T)
    BY <2>3, CountAppend
  <2>5. Count(<<d>>, T) = 0
    BY <1>2, <2>1, <2>2, <2>4 DEF OneIf
  <2> QED BY <2>5 DEF d
<1>4. ASSUME NEW s \in Servers, NEW r \in Servers
      PROVE  /\ Count(net[s][r], RequestMessages) = 0 /\ Count(net[s][r], ResponseMessages) = 0
             /\ Count(stack[s], CallsOf(r)) = 0 /\ Count(stack[s], RecvFrames) = 0
             /\ Count(deferred[s], AsideResponses) = 0
  <2>1. net[s][r] = <<>> \/ net[s][r] = <<ServerReady>>
    BY DEF Init
  <2>2. stack[s] = <<>> /\ deferred[s] = <<>>
    BY DEF Init
  <2>3. Count(net[s][r], RequestMessages) = 0 /\ Count(net[s][r], ResponseMessages) = 0
    BY <1>1, <1>2, <1>3, <2>1
  <2> QED BY <1>2, <2>2, <2>3
<1>5. Balanced(net, stack, deferred)
  <2> SUFFICES ASSUME NEW s \in Servers, NEW r \in Servers
               PROVE  Open(net, stack, deferred, s, r) = Owed(stack, s, r)
    BY DEF Balanced
  <2> QED BY <1>4 DEF Open, Owed
<1> QED BY <1>5 DEF CallsBalanced

\* The counts of NoCallLost
LEMMA CallCounts ==
  ASSUME Types, NEW s \in Servers, NEW r \in Servers
  PROVE  /\ Waits(s) = Count(stack[s], RecvFrames)
         /\ Pending(s, r) = Count(net[s][r], RequestMessages) + Count(stack[r], CallsOf(s))
                          + Count(net[r][s], ResponseMessages)
         /\ NumberOf(deferred[s], LAMBDA d : IsResponse(d.msg)) = Count(deferred[s], AsideResponses)
<1>1. ASSUME NEW x \in Servers
      PROVE  /\ {i \in DOMAIN stack[x] : stack[x][i].fn = "MPI_Recv"} = Positions(stack[x], RecvFrames)
             /\ {i \in DOMAIN stack[x] : stack[x][i].fn = "process" /\ stack[x][i].from = s}
                  = Positions(stack[x], CallsOf(s))
  <2>1. Framed(x, stack[x])
    BY DEF Types, Calling
  <2>2. /\ DOMAIN stack[x] = 1 .. Len(stack[x])
        /\ \A i \in 1 .. Len(stack[x]) : stack[x][i] \in Frames(x)
    BY <2>1, LenProperties, ElementOfSeq DEF Framed
  <2>3. ASSUME NEW f \in Frames(x)
        PROVE  /\ f.fn = "MPI_Recv" <=> f \in RecvFrames
               /\ f.fn = "process" /\ f.from = s <=> f \in CallsOf(s)
    <3>1. CASE f \in ProcessFrames(x)
      <4>1. f.fn = "process"
        BY <3>1 DEF ProcessFrames
      <4> QED BY <3>1, <4>1, FrameKinds
    <3>2. CASE f \in SyncFrames(x)
      <4>1. f.fn = "synchronize_data"
        BY <3>2 DEF SyncFrames
      <4> QED BY <3>2, <4>1, FrameKinds
    <3>3. CASE f \in RecvFrames
      <4>1. f.fn = "MPI_Recv"
        BY <3>3 DEF RecvFrames
      <4> QED BY <3>3, <4>1, FrameKinds
    <3> QED BY <3>1, <3>2, <3>3 DEF Frames
  <2> QED BY <2>2, <2>3 DEF Positions
<1>2. ASSUME NEW x \in Servers, NEW y \in Servers
      PROVE  /\ {i \in DOMAIN net[x][y] : IsRequest(net[x][y][i])} = Positions(net[x][y], RequestMessages)
             /\ {i \in DOMAIN net[x][y] : IsResponse(net[x][y][i])} = Positions(net[x][y], ResponseMessages)
  <2>1. net[x][y] \in Seq(Messages)
    BY DEF Types, Mailed
  <2>2. /\ DOMAIN net[x][y] = 1 .. Len(net[x][y])
        /\ \A i \in 1 .. Len(net[x][y]) : net[x][y][i] \in Messages
    BY <2>1, LenProperties, ElementOfSeq
  <2> QED BY <2>2, KindOf DEF Positions
<1>3. {i \in DOMAIN deferred[s] : IsResponse(deferred[s][i].msg)} = Positions(deferred[s], AsideResponses)
  <2> DEFINE E == [msg : Messages \ RequestMessages, from : Servers]
  <2>1. ASSUME NEW e \in E
        PROVE  IsResponse(e.msg) <=> e \in AsideResponses
    <3>1. e.msg \in Messages
      OBVIOUS
    <3>2. IsResponse(e.msg) <=> e.msg \in ResponseMessages
      BY <3>1, KindOf
    <3> QED BY <3>2 DEF AsideResponses
  <2>2. deferred[s] \in Seq(E)
    BY DEF Types, ServersTyped
  <2> HIDE DEF E
  <2>3. DOMAIN deferred[s] = 1 .. Len(deferred[s])
        /\ \A i \in 1 .. Len(deferred[s]) : deferred[s][i] \in E
    BY <2>2, LenProperties, ElementOfSeq
  <2> QED BY <2>1, <2>3 DEF Positions
<1>4. Waits(s) = Count(stack[s], RecvFrames)
  BY <1>1 DEF Waits, NumberOf, Count
<1>5. NumberOf(deferred[s], LAMBDA d : IsResponse(d.msg)) = Count(deferred[s], AsideResponses)
  BY <1>3 DEF NumberOf, Count
<1>6. Pending(s, r) = Count(net[s][r], RequestMessages) + Count(stack[r], CallsOf(s))
                    + Count(net[r][s], ResponseMessages)
  BY <1>1, <1>2 DEF Pending, NumberOf, Count
<1> QED BY <1>4, <1>5, <1>6

LEMMA BalancedCalls ==
  ASSUME Types, CallsBalanced
  PROVE  NoCallLost
<1> SUFFICES ASSUME ~failed, NEW s \in Servers
             PROVE  /\ Waits(s) = Pending(s, Peer[s])
                                + NumberOf(deferred[s], LAMBDA d : IsResponse(d.msg))
                    /\ \A r \in Servers : r # Peer[s] => Pending(s, r) = 0
  BY DEF NoCallLost
<1>1. \A r \in Servers : Open(net, stack, deferred, s, r) = Owed(stack, s, r)
  BY DEF CallsBalanced, Balanced
<1>2. Peer[s] \in Servers
  BY DeploymentAssumption
<1>3. Waits(s) = Pending(s, Peer[s]) + NumberOf(deferred[s], LAMBDA d : IsResponse(d.msg))
  <2>1. Open(net, stack, deferred, s, Peer[s]) = Owed(stack, s, Peer[s])
    BY <1>1, <1>2
  <2>2. Open(net, stack, deferred, s, Peer[s])
          = Count(net[s][Peer[s]], RequestMessages) + Count(stack[Peer[s]], CallsOf(s))
          + Count(net[Peer[s]][s], ResponseMessages) + Count(deferred[s], AsideResponses)
    BY DEF Open
  <2>3. Owed(stack, s, Peer[s]) = Count(stack[s], RecvFrames)
    BY DEF Owed
  <2> QED BY <1>2, <2>1, <2>2, <2>3, CallCounts
<1>4. ASSUME NEW r \in Servers, r # Peer[s]
      PROVE  Pending(s, r) = 0
  <2>1. Numbers(net, stack, deferred)
    BY NumbersNow DEF Types, ServersTyped
  <2>2. /\ Count(net[s][r], RequestMessages) \in Nat /\ Count(stack[r], CallsOf(s)) \in Nat
        /\ Count(net[r][s], ResponseMessages) \in Nat
    BY <2>1 DEF Numbers
  <2>3. Pending(s, r) = Count(net[s][r], RequestMessages) + Count(stack[r], CallsOf(s))
                      + Count(net[r][s], ResponseMessages)
    BY CallCounts
  <2>4. Open(net, stack, deferred, s, r) = Count(net[s][r], RequestMessages) + Count(stack[r], CallsOf(s))
                                         + Count(net[r][s], ResponseMessages) + 0
    BY <1>4 DEF Open
  <2>5. Owed(stack, s, r) = 0
    BY <1>4 DEF Owed
  <2> QED BY <1>1, <2>2, <2>3, <2>4, <2>5
<1> QED BY <1>3, <1>4

\* No call between servers is lost or answered twice, however requests cross
\* while both sides wait: every wait of MPI_Recv has its request on the way, its
\* call of process() in progress, or its response on the way or put aside, and
\* nothing is open but what a server waits for.
THEOREM CallsKept == Spec => []NoCallLost
<1>1. Init => Types /\ CallsBalanced
  BY TypesInit, CallsInit
<1>2. (Types /\ CallsBalanced) /\ [Next]_vars => (Types /\ CallsBalanced)'
  BY TypesStep, CallsStep
<1>3. Types /\ CallsBalanced => NoCallLost
  BY BalancedCalls
<1> QED BY <1>1, <1>2, <1>3, PTL DEF Spec

-----------------------------------------------------------------------------
\* Whose responses the clients get

\* No other server calls s, and no client of another server asks for what it has.
Unasked(s) ==
    /\ \A c \in Components : \A i \in DOMAIN Children[c] :
         Owner[Children[c][i]] = s => Owner[c] = s
    /\ \A p \in Programs, k \in Clients : \A i \in DOMAIN p[k] :
         Owner[p[k][i].comp] = s => Home[k] = s

\* A client that does not wait for its response asks for a component of its own
\* server, or this server is not called by another while it calculates.
Undisturbed ==
    \A p \in Programs, k \in Clients : \A i \in DOMAIN p[k] :
        p[k][i].wait \/ Owner[p[k][i].comp] = Home[k] \/ Unasked(Home[k])

\* What a call of s may be about
Asks(s, c) == Owner[c] = s \/ ~Unasked(Owner[c])

\* What a client asks its server for
Orders(k) ==
    {m \in CallsTo(Home[k]) :
        /\ Asks(Home[k], m.comp)
        /\ ~m.wait => /\ m.type = "CALCULATE_POWER_REQ"
                      /\ Owner[m.comp] = Home[k] \/ Unasked(Home[k])}

\* The frames of a server that is waited for, and of one that is not
Careful(s) ==
    {f \in ProcessFrames(s) : /\ f.msg.wait /\ Asks(s, f.msg.comp)
                              /\ f.from \in Clients => Home[f.from] = s}
    \cup {f \in SyncFrames(s) : Asks(s, f.comp)}
    \cup RecvFrames

Hasty(s) ==
    {f \in ProcessFrames(s) : /\ ~f.msg.wait /\ Asks(s, f.msg.comp)
                              /\ f.at \in {"power", "respond"}
                              /\ Owner[f.msg.comp] = s \/ Unasked(s)}

\* A call that nobody waits for runs alone, and client_response stays FALSE: it
\* calls another server only if no other calls it meanwhile.
Apart(s, q, b) ==
    \/ q \in Seq(Careful(s))
    \/ ~b /\ \E f \in Hasty(s) :
               \/ q = <<f>>
               \/ Unasked(s) /\ \E g \in RecvFrames : q = <<g>> \o <<f>>

\* The calls that client k waits for: under way, in progress, answered
WaitedCalls == [type : RequestTypes, comp : Components, wait : {TRUE}]

Handling(k) ==
    [fn : {"process"}, msg : WaitedCalls, from : {k}, data : Data,
     at : {"sync", "pull", "power", "respond"}]

Due(I, S, R, W) ==
    \A k \in Clients :
        Count(I[k], WaitedCalls) + Count(S[Home[k]], Handling(k)) + Len(R[k])
          = OneIf(W[k] # NoCall)

Ordered     == \A k \in Clients : inbox[k] \in Seq(Orders(k)) /\ todo[k] \in Seq(Orders(k))
Unasking(N) == \A r, s \in Servers : Unasked(s) => N[r][s] \in Seq(Messages \ RequestMessages)
AllApart    == \A s \in Servers : Apart(s, stack[s], responds[s])

Replies == Ordered /\ Unasking(net) /\ AllApart /\ Due(inbox, stack, reply, waiting)

-----------------------------------------------------------------------------
\* Only a call of process() that is waited for is handled for a client.
LEMMA HandlingKinds ==
  ASSUME NEW s, NEW k
  PROVE  /\ \A f \in SyncFrames(s) \cup RecvFrames : f \notin Handling(k)
         /\ \A f \in ProcessFrames(s) : f \in Handling(k) <=> f.from = k /\ f.msg.wait
         /\ \A m \in RequestMessages : m \in WaitedCalls <=> m.wait
<1>1. \A f \in SyncFrames(s) \cup RecvFrames : f \notin Handling(k)
  BY DEF SyncFrames, RecvFrames, Handling
<1>2. ASSUME NEW m \in RequestMessages
      PROVE  m \in WaitedCalls <=> m.wait
  BY DEF RequestMessages, WaitedCalls
<1>3. ASSUME NEW f \in ProcessFrames(s)
      PROVE  f \in Handling(k) <=> f.from = k /\ f.msg.wait
  <2>1. f.msg \in RequestMessages
    BY MailMessages DEF ProcessFrames
  <2>2. f.msg \in WaitedCalls <=> f.msg.wait
    BY <1>2, <2>1
  <2> HIDE DEF WaitedCalls
  <2> QED BY <2>2 DEF ProcessFrames, Handling
<1> QED BY <1>1, <1>2, <1>3

\* The calls in progress of the clients stay the same.
SameHandling(p, q) == \A k \in Clients : Count(q, Handling(k)) = Count(p, Handling(k))

\* A frame is put on a stack, taken off, or takes the place of the one on top.
LEMMA PushHandling ==
  ASSUME NEW q, IsSeq(q), NEW f
  PROVE  /\ \A k : Count(<<f>> \o q, Handling(k)) = Count(q, Handling(k)) + OneIf(f \in Handling(k))
         /\ (\A k \in Clients : f \notin Handling(k)) => SameHandling(q, <<f>> \o q)
<1>1. \A T : Count(<<f>> \o q, T) = Count(q, T) + OneIf(f \in T) /\ Count(q, T) \in Nat
  BY CountPush, CountNat
<1> QED BY <1>1 DEF SameHandling, OneIf

LEMMA PopHandling ==
  ASSUME NEW q, IsSeq(q), q # <<>>
  PROVE  /\ \A k : Count(q, Handling(k)) = Count(Tail(q), Handling(k)) + OneIf(Head(q) \in Handling(k))
         /\ (\A k \in Clients : Head(q) \notin Handling(k)) => SameHandling(q, Tail(q))
<1>1. \A T : Count(q, T) = Count(Tail(q), T) + OneIf(Head(q) \in T) /\ Count(Tail(q), T) \in Nat
  BY CountTail, CountNat, TailSeq
<1> QED BY <1>1 DEF SameHandling, OneIf

LEMMA SwapHandling ==
  ASSUME NEW q, IsSeq(q), q # <<>>, NEW f,
         \A k \in Clients : f \in Handling(k) <=> Head(q) \in Handling(k)
  PROVE  SameHandling(q, <<f>> \o Tail(q))
<1>1. \A k : Count(q, Handling(k)) = Count(Tail(q), Handling(k)) + OneIf(Head(q) \in Handling(k))
  BY PopHandling
<1>2. \A k : Count(<<f>> \o Tail(q), Handling(k)) = Count(Tail(q), Handling(k)) + OneIf(f \in Handling(k))
  BY PushHandling, TailSeq
<1> QED BY <1>1, <1>2 DEF SameHandling, OneIf

LEMMA SameHandlingTwice ==
  ASSUME NEW p, NEW q, NEW r, SameHandling(p, q), SameHandling(q, r)
  PROVE  SameHandling(p, r)
BY DEF SameHandling

\* Frames put on a careful stack
LEMMA CarefulStack ==
  ASSUME NEW s, NEW q \in Seq(Careful(s))
  PROVE  /\ IsSeq(q)
         /\ \A f \in Careful(s) : <<f>> \o q \in Seq(Careful(s))
         /\ q # <<>> => Head(q) \in Careful(s) /\ Tail(q) \in Seq(Careful(s))
<1> DEFINE C == Careful(s)
<1> HIDE DEF C
<1>1. q \in Seq(C)
  BY DEF C
<1>2. IsSeq(q) /\ \A f \in C : <<f>> \o q \in Seq(C)
  BY <1>1 DEF IsSeq
<1>3. q # <<>> => Head(q) \in C /\ Tail(q) \in Seq(C)
  BY <1>1, HeadTailProperties
<1> QED BY <1>2, <1>3 DEF C

\* The sub-components of local components may be asked for.
LEMMA ChildAsked ==
  ASSUME NEW s \in Servers, NEW c \in Local(s), NEW i \in Nat \ {0}, i <= Len(Children[c])
  PROVE  Asks(s, Children[c][i])
<1>1. c \in Components /\ Owner[c] = s /\ Children[c] \in Seq(Components)
  BY TreeAssumption DEF Local
<1>2. i \in DOMAIN Children[c]
  BY <1>1
<1> QED BY <1>1, <1>2 DEF Asks, Unasked

\* A step inside s, but for what it sends to other servers
LEMMA InsideReplies ==
  ASSUME Types, Replies, NEW s \in Servers, NEW q, IsSeq(q), SameHandling(stack[s], q),
         stack' = [stack EXCEPT ![s] = q], Apart(s, q, responds'[s]),
         \A x \in Servers : x # s => responds'[x] = responds[x],
         Unasking(net'), UNCHANGED <<inbox, reply, waiting, todo>>
  PROVE  Replies'
<1>1. stack'[s] = q /\ \A x \in Servers : x # s => stack'[x] = stack[x]
  BY ExceptAt DEF Types, Calling
<1>2. AllApart'
  BY <1>1 DEF AllApart, Replies
<1>3. \A k \in Clients : Count(stack'[Home[k]], Handling(k)) = Count(stack[Home[k]], Handling(k))
  BY <1>1, RpcAssumption DEF SameHandling
<1>4. Due(inbox, stack, reply, waiting)'
  BY <1>3 DEF Replies, Due
<1>5. Ordered'
  BY DEF Replies, Ordered
<1> QED BY <1>2, <1>4, <1>5 DEF Replies

\* A step inside a server that neither calls another nor ends a call
LEMMA ContinueReplies ==
  ASSUME Types, Replies, NEW s \in Servers, NEW q, IsSeq(q), SameHandling(stack[s], q),
         Apart(s, q, responds[s]), Continue(s, q)
  PROVE  Replies'
<1>1. /\ stack' = [stack EXCEPT ![s] = q]
      /\ UNCHANGED <<net, inbox, reply, waiting, todo, responds>>
  BY DEF Continue, channels, memory, clients
<1>2. Unasking(net')
  BY <1>1 DEF Replies
<1> QED BY <1>1, <1>2, InsideReplies

\* A call goes to a server that may be asked.
LEMMA UnaskingSent ==
  ASSUME NEW N, Mailed(N), Unasking(N), NEW s \in Servers, NEW x \in Servers, NEW m \in Messages,
         ~Unasked(x) \/ m \notin RequestMessages, NEW M, M = [N EXCEPT ![s][x] = Append(@, m)]
  PROVE  Unasking(M)
<1> SUFFICES ASSUME NEW a \in Servers, NEW b \in Servers, Unasked(b)
             PROVE  M[a][b] \in Seq(Messages \ RequestMessages)
  BY DEF Unasking
<1>1. N[a][b] \in Seq(Messages \ RequestMessages)
  BY DEF Unasking
<1>2. M[a][b] = IF a = s /\ b = x THEN Append(N[a][b], m) ELSE N[a][b]
  BY DEF Mailed
<1> HIDE DEF Messages, RequestMessages
<1> QED BY <1>1, <1>2

\* A request that arrives is for a server that may be asked.
LEMMA UnaskingTaken ==
  ASSUME NEW N, Mailed(N), Unasking(N), NEW r \in Servers, NEW s \in Servers, N[r][s] # <<>>,
         NEW M, M = [N EXCEPT ![r][s] = Tail(@)]
  PROVE  /\ Unasking(M)
         /\ IsRequest(Head(N[r][s])) => ~Unasked(s)
<1>1. Unasking(M)
  <2> SUFFICES ASSUME NEW a \in Servers, NEW b \in Servers, Unasked(b)
               PROVE  M[a][b] \in Seq(Messages \ RequestMessages)
    BY DEF Unasking
  <2>1. N[a][b] \in Seq(Messages \ RequestMessages)
    BY DEF Unasking
  <2>2. M[a][b] = IF a = r /\ b = s THEN Tail(N[r][s]) ELSE N[a][b]
    BY DEF Mailed
  <2> QED BY <2>1, <2>2
<1>2. ASSUME Unasked(s)
      PROVE  ~IsRequest(Head(N[r][s]))
  <2>1. N[r][s] \in Seq(Messages \ RequestMessages)
    BY <1>2 DEF Unasking
  <2>2. Head(N[r][s]) \in Messages \ RequestMessages
    BY <2>1, HeadTailProperties
  <2> QED BY <2>2, KindOf
<1> QED BY <1>1, <1>2

\* A server calls its peer: no client is concerned.
LEMMA CallServerReplies ==
  ASSUME Types, Replies, NEW s \in Servers,
         NEW type \in RequestTypes, NEW c \in Reaches(s), Owner[c] # s, Asks(s, c),
         NEW q, IsSeq(q), SameHandling(stack[s], q), CallServer(s, type, c, q),
         \A f \in RecvFrames : Apart(s, <<f>> \o q, responds[s])
  PROVE  Replies'
<1> DEFINE f == Recv(ResponseTo[type])
           m == Request(type, c)
<1>1. /\ net' = [net EXCEPT ![s][Peer[s]] = Append(@, m)]
      /\ stack' = [stack EXCEPT ![s] = <<f>> \o q]
      /\ UNCHANGED <<inbox, reply, waiting, todo, responds>>
      /\ Peer[s] \in Servers /\ m \in RequestMessages /\ m \in Messages
  BY CallsPeer DEF CallServer, Messages, clients
<1>2. f \in RecvFrames
  BY MessageKinds DEF Recv, RecvFrames
<1>3. ~Unasked(Peer[s])
  BY CallsPeer DEF Asks
<1> HIDE DEF f, m
<1>4. Unasking(net')
  BY <1>1, <1>3, UnaskingSent DEF Types, Replies
<1>5. \A k : f \notin Handling(k)
  BY <1>2, HandlingKinds
<1>6. SameHandling(q, <<f>> \o q) /\ IsSeq(<<f>> \o q)
  BY <1>5, PushHandling, PushSeq
<1>7. SameHandling(stack[s], <<f>> \o q)
  BY <1>6, SameHandlingTwice
<1>8. Apart(s, <<f>> \o q, responds'[s])
  BY <1>1, <1>2
<1> QED BY <1>1, <1>4, <1>6, <1>7, <1>8, InsideReplies

-----------------------------------------------------------------------------
\* What is on top of a stack, if it is the one of a client that does not wait

LEMMA ApartTop ==
  ASSUME Types, Replies, NEW s \in Servers, stack[s] # <<>>
  PROVE  \/ /\ stack[s] \in Seq(Careful(s))
            /\ Top(s) \in Careful(s) /\ Callers(s) \in Seq(Careful(s))
         \/ ~responds[s] /\ Callers(s) = <<>> /\ Top(s) \in Hasty(s)
         \/ /\ ~responds[s] /\ Unasked(s) /\ Top(s) \in RecvFrames
            /\ \E f \in Hasty(s) : Callers(s) = <<f>> /\ Caller(s) = f /\ Tail(Callers(s)) = <<>>
<1>1. Apart(s, stack[s], responds[s])
  BY DEF Replies, AllApart
<1>2. CASE stack[s] \in Seq(Careful(s))
  BY <1>2, CarefulStack DEF Top, Callers
<1>3. \A f : Head(<<f>>) = f /\ Tail(<<f>>) = <<>>
  OBVIOUS
<1>4. ASSUME ~responds[s], NEW f \in Hasty(s), stack[s] = <<f>>
      PROVE  ~responds[s] /\ Callers(s) = <<>> /\ Top(s) \in Hasty(s)
  BY <1>3, <1>4 DEF Top, Callers
<1>5. ASSUME ~responds[s], Unasked(s), NEW f \in Hasty(s), NEW g \in RecvFrames,
             stack[s] = <<g>> \o <<f>>
      PROVE  /\ Top(s) \in RecvFrames
             /\ Callers(s) = <<f>> /\ Caller(s) = f /\ Tail(Callers(s)) = <<>>
  <2>1. IsSeq(<<f>>)
    BY DEF IsSeq
  <2>2. Head(<<g>> \o <<f>>) = g /\ Tail(<<g>> \o <<f>>) = <<f>>
    BY <2>1, PushSeq
  <2> QED BY <1>3, <1>5, <2>2 DEF Top, Callers, Caller
<1> QED BY <1>1, <1>2, <1>4, <1>5 DEF Apart

\* Only a call that is waited for synchronizes.
LEMMA SyncApart ==
  ASSUME Types, Replies, NEW s \in Servers, Running(s, "synchronize_data")
  PROVE  /\ stack[s] \in Seq(Careful(s)) /\ Callers(s) \in Seq(Careful(s))
         /\ Asks(s, Top(s).comp)
         /\ \A k : Top(s) \notin Handling(k)
<1>1. Top(s) \in SyncFrames(s) /\ stack[s] # <<>> /\ Top(s).fn = "synchronize_data"
  BY SyncTop DEF Running
<1>2. Top(s) \notin Hasty(s) /\ Top(s) \notin RecvFrames /\ Top(s) \notin ProcessFrames(s)
  BY <1>1 DEF Hasty, ProcessFrames, RecvFrames
<1>3. Top(s) \in Careful(s) /\ stack[s] \in Seq(Careful(s)) /\ Callers(s) \in Seq(Careful(s))
  BY <1>1, <1>2, ApartTop
<1>4. Asks(s, Top(s).comp)
  BY <1>2, <1>3 DEF Careful
<1> QED BY <1>1, <1>3, <1>4, HandlingKinds

\* The frames of synchronize_data and MPI_Recv on a careful stack
LEMMA SyncCareful ==
  ASSUME NEW s, NEW f \in SyncFrames(s), Asks(s, f.comp)
  PROVE  f \in Careful(s)
BY DEF Careful

LEMMA RecvCareful ==
  ASSUME NEW s, NEW q \in Seq(Careful(s)), NEW b
  PROVE  \A f \in RecvFrames : Apart(s, <<f>> \o q, b)
<1> SUFFICES ASSUME NEW f \in RecvFrames
             PROVE  Apart(s, <<f>> \o q, b)
  OBVIOUS
<1>1. f \in Careful(s)
  BY DEF Careful
<1>2. <<f>> \o q \in Seq(Careful(s))
  BY <1>1, CarefulStack
<1> QED BY <1>2 DEF Apart

\* synchronize_data goes on with its own components and their subsets.
LEMMA SwapSync ==
  ASSUME Types, Replies, NEW s \in Servers, Running(s, "synchronize_data"),
         NEW f \in SyncFrames(s), Asks(s, f.comp), NEW q, q = <<f>> \o Callers(s)
  PROVE  IsSeq(q) /\ SameHandling(stack[s], q) /\ q \in Seq(Careful(s))
<1>1. /\ stack[s] # <<>> /\ IsSeq(stack[s]) /\ Callers(s) \in Seq(Careful(s))
      /\ \A k : Top(s) \notin Handling(k)
  BY SyncTop, FramesSeq, SyncApart
<1>2. \A k : f \notin Handling(k)
  BY HandlingKinds
<1>3. SameHandling(stack[s], q)
  BY <1>1, <1>2, SwapHandling DEF Top, Callers
<1>4. q \in Seq(Careful(s))
  BY <1>1, SyncCareful, CarefulStack
<1> QED BY <1>3, <1>4, CarefulStack

\* The calls of kitfox_t inside a server: synchronize_data
LEMMA SyncEntryReplies ==
  ASSUME Types, Replies, NEW s \in Servers, SyncEntry(s)
  PROVE  Replies'
<1> DEFINE c == Top(s).comp
           g == [Top(s) EXCEPT !.at = "sync"]
<1>1. Running(s, "synchronize_data")
  BY DEF SyncEntry
<1>2. /\ Top(s) \in SyncFrames(s) /\ c \in Reaches(s) /\ stack[s] # <<>>
      /\ IsSeq(stack[s]) /\ IsSeq(Callers(s))
  BY <1>1, SyncTop, FramesSeq
<1>3. Callers(s) \in Seq(Careful(s)) /\ Asks(s, c) /\ \A k : Top(s) \notin Handling(k)
  BY <1>1, SyncApart
<1>4. SameHandling(stack[s], Callers(s)) /\ Apart(s, Callers(s), responds[s])
  BY <1>2, <1>3, PopHandling DEF Top, Callers, Apart
<1>5. CASE Owner[c] # s
  <2>1. CallServer(s, "SYNCHRONIZE_DATA_REQ", c, Callers(s))
    BY <1>5, Zenon DEF SyncEntry
  <2>2. "SYNCHRONIZE_DATA_REQ" \in RequestTypes
    BY MessageKinds
  <2>3. \A f \in RecvFrames : Apart(s, <<f>> \o Callers(s), responds[s])
    BY <1>3, RecvCareful
  <2> HIDE DEF c
  <2> QED BY <1>2, <1>3, <1>4, <1>5, <2>1, <2>2, <2>3, CallServerReplies
<1>6. CASE Owner[c] = s /\ (Leaf(c) \/ power[c] # NoData)
  <2>1. Continue(s, Callers(s))
    BY <1>6, Zenon DEF SyncEntry
  <2> QED BY <1>2, <1>4, <2>1, ContinueReplies
<1>7. CASE Owner[c] = s /\ ~(Leaf(c) \/ power[c] # NoData)
  <2>1. Continue(s, <<g>> \o Callers(s))
    BY <1>7, Zenon DEF SyncEntry
  <2>2. g \in SyncFrames(s) /\ g.comp = c
    BY <1>2 DEF SyncFrames
  <2> HIDE DEF g, c
  <2> DEFINE q == <<g>> \o Callers(s)
  <2>3. IsSeq(q) /\ SameHandling(stack[s], q) /\ q \in Seq(Careful(s))
    BY <1>1, <1>3, <2>2, SwapSync
  <2>4. Apart(s, q, responds[s])
    BY <2>3 DEF Apart
  <2> QED BY <2>1, <2>3, <2>4, ContinueReplies
<1> QED BY <1>5, <1>6, <1>7

LEMMA SyncChildReplies ==
  ASSUME Types, Replies, NEW s \in Servers, SyncChild(s)
  PROVE  Replies'
<1> DEFINE f == Top(s)
           g == [f EXCEPT !.at = "pull"]
           c == Children[f.comp][f.child]
           d == SynchronizeData(c)
           p == <<g>> \o Callers(s)
<1>1. /\ Running(s, "synchronize_data") /\ f.at = "sync"
      /\ f.child <= Len(Children[f.comp])
      /\ Continue(s, <<d, g>> \o Callers(s))
  BY DEF SyncChild
<1>2. /\ f \in SyncFrames(s) /\ f.child \in Nat \ {0} /\ f.comp \in Local(s)
      /\ stack[s] # <<>> /\ IsSeq(stack[s]) /\ IsSeq(Callers(s))
  BY <1>1, SyncTop, FramesSeq
<1>3. g \in SyncFrames(s) /\ d \in SyncFrames(s)
  BY <1>1, SyncChildFrames
<1>4. Asks(s, f.comp) /\ Asks(s, c)
  BY <1>1, <1>2, SyncApart, ChildAsked
<1>5. g.comp = f.comp /\ d.comp = c
  BY <1>2 DEF SyncFrames, SynchronizeData
<1> HIDE DEF d, g, c
<1>6. IsSeq(p) /\ SameHandling(stack[s], p) /\ p \in Seq(Careful(s))
  BY <1>1, <1>3, <1>4, <1>5, SwapSync
<1>7. <<d, g>> \o Callers(s) = <<d>> \o p
  BY <1>2, PushTwo
<1> HIDE DEF p
<1>8. d \in Careful(s) /\ \A k : d \notin Handling(k)
  BY <1>3, <1>4, <1>5, SyncCareful, HandlingKinds
<1>9. SameHandling(stack[s], <<d>> \o p) /\ IsSeq(<<d>> \o p)
  BY <1>6, <1>8, PushHandling, PushSeq, SameHandlingTwice
<1>10. <<d>> \o p \in Seq(Careful(s))
  BY <1>6, <1>8, CarefulStack
<1>11. Apart(s, <<d>> \o p, responds[s])
  BY <1>10 DEF Apart
<1> QED BY <1>1, <1>7, <1>9, <1>11, ContinueReplies

LEMMA PullChildReplies ==
  ASSUME Types, Replies, NEW s \in Servers, PullChild(s)
  PROVE  Replies'
<1> DEFINE f == Top(s)
           c == Children[f.comp][f.child]
<1>1. Running(s, "synchronize_data") /\ f.at = "pull"
  BY DEF PullChild
<1>2. /\ f \in SyncFrames(s) /\ f.child \in Nat \ {0} /\ f.comp \in Local(s)
      /\ f.child <= Len(Children[f.comp])
      /\ stack[s] # <<>> /\ IsSeq(stack[s]) /\ IsSeq(Callers(s))
  BY <1>1, SyncTop, FramesSeq
<1>3. c \in Reaches(s) /\ Asks(s, c)
  BY <1>2, ChildReached, ChildAsked
<1>4. power[c] \in Data
  BY <1>3 DEF Types, ServersTyped, Reaches
<1>5. stack[s] \in Seq(Careful(s)) /\ Asks(s, f.comp)
  BY <1>1, SyncApart
<1>6. CASE Owner[c] # s
  <2>1. CallServer(s, "PULL_DATA_REQ", c, stack[s])
    BY <1>6, Zenon DEF PullChild
  <2>2. "PULL_DATA_REQ" \in RequestTypes
    BY MessageKinds
  <2>3. SameHandling(stack[s], stack[s])
    BY DEF SameHandling
  <2>4. \A g \in RecvFrames : Apart(s, <<g>> \o stack[s], responds[s])
    BY <1>5, RecvCareful
  <2> HIDE DEF c
  <2> QED BY <1>2, <1>3, <1>6, <2>1, <2>2, <2>3, <2>4, CallServerReplies
<1>7. CASE Owner[c] = s /\ power[c] = NoData
  <2>1. Error
    BY <1>7, Zenon DEF PullChild
  <2> QED BY <2>1 DEF Error, channels, memory, clients, Replies, Ordered, AllApart
<1>8. CASE Owner[c] = s /\ power[c] # NoData
  <2>1. Continue(s, <<Add(f, power[c])>> \o Callers(s))
    BY <1>8, Zenon DEF PullChild
  <2>2. power[c] \in Nat
    BY <1>4, <1>8 DEF Data
  <2> DEFINE g == Add(f, power[c])
             q == <<g>> \o Callers(s)
  <2>3. g \in SyncFrames(s) /\ g.comp = f.comp
    <3>1. \A x \in Nat : Add(f, x) \in SyncFrames(s) /\ Add(f, x).comp = f.comp
      <4> SUFFICES ASSUME NEW x \in Nat, NEW y, y = Add(f, x)
                   PROVE  y \in SyncFrames(s) /\ y.comp = f.comp
        OBVIOUS
      <4>1. f \in SyncFrames(s)
        BY <1>2
      <4> HIDE DEF f
      <4> QED BY <4>1, AddTyped
    <3> HIDE DEF c, f
    <3> QED BY <2>2, <3>1
  <2> HIDE DEF g
  <2>4. IsSeq(q) /\ SameHandling(stack[s], q) /\ q \in Seq(Careful(s))
    BY <1>1, <1>5, <2>3, SwapSync
  <2>5. Apart(s, q, responds[s])
    BY <2>4 DEF Apart
  <2> QED BY <2>1, <2>4, <2>5, ContinueReplies DEF g
<1> QED BY <1>6, <1>7, <1>8

LEMMA SyncReturnReplies ==
  ASSUME Types, Replies, NEW s \in Servers, SyncReturn(s)
  PROVE  Replies'
<1>1. /\ Running(s, "synchronize_data")
      /\ stack' = [stack EXCEPT ![s] = Callers(s)]
      /\ UNCHANGED <<net, inbox, reply, waiting, todo, responds>>
  BY DEF SyncReturn, channels, memory, clients
<1>2. stack[s] # <<>> /\ IsSeq(stack[s]) /\ IsSeq(Callers(s))
  BY <1>1, SyncTop, FramesSeq
<1>3. Callers(s) \in Seq(Careful(s)) /\ \A k : Top(s) \notin Handling(k)
  BY <1>1, SyncApart
<1>4. SameHandling(stack[s], Callers(s)) /\ Apart(s, Callers(s), responds'[s])
  BY <1>2, <1>3, PopHandling DEF Top, Callers, Apart
<1>5. Unasking(net')
  BY <1>1 DEF Replies
<1> QED BY <1>1, <1>2, <1>4, <1>5, InsideReplies

-----------------------------------------------------------------------------
\* The handlers

\* The call of process() on top is careful, or alone.
LEMMA ProcessApart ==
  ASSUME Types, Replies, NEW s \in Servers, Running(s, "process")
  PROVE  /\ Asks(s, Top(s).msg.comp)
         /\ \/ /\ stack[s] \in Seq(Careful(s)) /\ Callers(s) \in Seq(Careful(s))
               /\ Top(s).msg.wait /\ (Top(s).from \in Clients => Home[Top(s).from] = s)
            \/ ~responds[s] /\ Callers(s) = <<>> /\ Top(s) \in Hasty(s)
<1>1. Top(s) \in ProcessFrames(s) /\ stack[s] # <<>> /\ Top(s).fn = "process"
  BY ProcessTop DEF Running
<1>2. Top(s) \notin RecvFrames /\ Top(s) \notin SyncFrames(s)
  BY <1>1 DEF SyncFrames, RecvFrames
<1>3. \/ /\ stack[s] \in Seq(Careful(s))
         /\ Top(s) \in Careful(s) /\ Callers(s) \in Seq(Careful(s))
      \/ ~responds[s] /\ Callers(s) = <<>> /\ Top(s) \in Hasty(s)
  BY <1>1, <1>2, ApartTop
<1>4. Top(s) \in Careful(s) => /\ Asks(s, Top(s).msg.comp) /\ Top(s).msg.wait
                               /\ Top(s).from \in Clients => Home[Top(s).from] = s
  BY <1>2 DEF Careful
<1>5. Top(s) \in Hasty(s) => Asks(s, Top(s).msg.comp)
  BY DEF Hasty
<1> QED BY <1>3, <1>4, <1>5

\* The handler goes on with the same message.
LEMMA SwapReplies ==
  ASSUME Types, Replies, NEW s \in Servers, Running(s, "process"),
         NEW f \in ProcessFrames(s), f.msg = Top(s).msg, f.from = Top(s).from,
         f.at \in {"power", "respond"} \/ Top(s) \notin Hasty(s), NEW q, q = <<f>> \o Callers(s)
  PROVE  /\ IsSeq(q) /\ SameHandling(stack[s], q) /\ Apart(s, q, responds[s])
         /\ Top(s) \notin Hasty(s) => q \in Seq(Careful(s))
         /\ Top(s) \in Hasty(s) => ~responds[s] /\ f \in Hasty(s) /\ q = <<f>>
<1>1. Top(s) \in ProcessFrames(s) /\ stack[s] # <<>> /\ IsSeq(stack[s]) /\ IsSeq(Callers(s))
  BY ProcessTop, FramesSeq
<1>2. \A k \in Clients : f \in Handling(k) <=> Top(s) \in Handling(k)
  BY <1>1, HandlingKinds
<1>3. SameHandling(stack[s], q) /\ IsSeq(q)
  BY <1>1, <1>2, SwapHandling, PushSeq DEF Top, Callers
<1>4. CASE Top(s) \notin Hasty(s)
  <2>1. /\ Callers(s) \in Seq(Careful(s)) /\ Asks(s, f.msg.comp)
        /\ f.msg.wait /\ (f.from \in Clients => Home[f.from] = s)
    BY <1>4, ProcessApart
  <2>2. f \in Careful(s)
    BY <2>1 DEF Careful
  <2>3. q \in Seq(Careful(s))
    BY <2>1, <2>2, CarefulStack
  <2> QED BY <1>3, <1>4, <2>3 DEF Apart
<1>5. CASE Top(s) \in Hasty(s)
  <2>1. ~Top(s).msg.wait
    BY <1>5 DEF Hasty
  <2>2. ~responds[s] /\ Callers(s) = <<>>
    BY <2>1, ProcessApart
  <2>3. f \in Hasty(s)
    BY <1>5 DEF Hasty
  <2>4. q = <<f>>
    BY <2>2
  <2> QED BY <1>3, <1>5, <2>2, <2>3, <2>4 DEF Apart
<1> QED BY <1>4, <1>5

\* A call that nobody waits for calculates a power and nothing else.
LEMMA HandleSyncReplies ==
  ASSUME Types, Replies, NEW s \in Servers, HandleSync(s)
  PROVE  Replies'
<1> DEFINE f == Top(s)
           at == IF f.msg.type = "SYNCHRONIZE_DATA_REQ" THEN "respond" ELSE "pull"
           g == [f EXCEPT !.at = at]
           d == SynchronizeData(f.msg.comp)
           p == <<g>> \o Callers(s)
<1>1. Running(s, "process") /\ f.at = "sync" /\ Continue(s, <<d, g>> \o Callers(s))
  BY DEF HandleSync
<1>2. f \in ProcessFrames(s) /\ stack[s] # <<>> /\ IsSeq(stack[s]) /\ IsSeq(Callers(s))
  BY <1>1, ProcessTop, FramesSeq
<1>3. at \in {"respond", "pull"}
  OBVIOUS
<1> HIDE DEF at
<1>4. g \in ProcessFrames(s) /\ g.from = f.from /\ d \in SyncFrames(s)
  BY <1>1, <1>3, HandleSyncFrames
<1>5. g.msg = f.msg /\ d.comp = f.msg.comp
  BY <1>2 DEF ProcessFrames, SynchronizeData
<1>6. f \notin Hasty(s) /\ Asks(s, f.msg.comp)
  BY <1>1, ProcessApart DEF Hasty
<1> HIDE DEF d, g
<1>7. IsSeq(p) /\ SameHandling(stack[s], p) /\ p \in Seq(Careful(s))
  BY <1>1, <1>4, <1>5, <1>6, SwapReplies
<1>8. <<d, g>> \o Callers(s) = <<d>> \o p
  BY <1>2, PushTwo
<1> HIDE DEF p
<1>9. d \in Careful(s) /\ \A k : d \notin Handling(k)
  BY <1>4, <1>5, <1>6, SyncCareful, HandlingKinds
<1>10. SameHandling(stack[s], <<d>> \o p) /\ IsSeq(<<d>> \o p)
  BY <1>7, <1>9, PushHandling, PushSeq, SameHandlingTwice
<1>11. <<d>> \o p \in Seq(Careful(s))
  BY <1>7, <1>9, CarefulStack
<1>12. Apart(s, <<d>> \o p, responds[s])
  BY <1>11 DEF Apart
<1> QED BY <1>1, <1>8, <1>10, <1>12, ContinueReplies

LEMMA HandlePullReplies ==
  ASSUME Types, Replies, NEW s \in Servers, HandlePull(s)
  PROVE  Replies'
<1> DEFINE f == Top(s)
           c == f.msg.comp
           g == [f EXCEPT !.at = "respond"]
           h == [f EXCEPT !.at = "respond", !.data = power[c]]
<1>1. /\ Running(s, "process") /\ f.at = "pull"
      /\ IF Owner[c] = s THEN Continue(s, <<h>> \o Callers(s))
                         ELSE CallServer(s, "PULL_DATA_REQ", c, <<g>> \o Callers(s))
  BY DEF HandlePull
<1>2. f \in ProcessFrames(s) /\ c \in Reaches(s)
  BY <1>1, ProcessTop
<1>3. power[c] \in Data
  BY <1>2 DEF Types, ServersTyped, Reaches
<1>4. /\ g \in ProcessFrames(s) /\ g.msg = f.msg /\ g.from = f.from
      /\ h \in ProcessFrames(s) /\ h.msg = f.msg /\ h.from = f.from
  <2> HIDE DEF c
  <2>1. g \in ProcessFrames(s) /\ g.msg = f.msg /\ g.from = f.from
    BY <1>2, NextAt
  <2>2. h \in ProcessFrames(s) /\ h.msg = f.msg /\ h.from = f.from
    BY <1>2, <1>3, DatumRead
  <2> QED BY <2>1, <2>2
<1>5. f \notin Hasty(s) /\ Asks(s, c)
  BY <1>1, ProcessApart DEF Hasty
<1> HIDE DEF g, h, c
<1>6. CASE Owner[c] = s
  <2> DEFINE q == <<h>> \o Callers(s)
  <2>1. SameHandling(stack[s], q) /\ IsSeq(q) /\ Apart(s, q, responds[s])
    BY <1>1, <1>4, <1>5, SwapReplies
  <2> QED BY <1>1, <1>6, <2>1, ContinueReplies
<1>7. CASE Owner[c] # s
  <2> DEFINE q == <<g>> \o Callers(s)
  <2>1. SameHandling(stack[s], q) /\ IsSeq(q) /\ q \in Seq(Careful(s))
    BY <1>1, <1>4, <1>5, SwapReplies
  <2>2. "PULL_DATA_REQ" \in RequestTypes
    BY MessageKinds
  <2>3. \A x \in RecvFrames : Apart(s, <<x>> \o q, responds[s])
    BY <2>1, RecvCareful
  <2> QED BY <1>1, <1>2, <1>5, <1>7, <2>1, <2>2, <2>3, CallServerReplies
<1> QED BY <1>6, <1>7

\* Only here a call that nobody waits for may call another server.
LEMMA HandlePowerReplies ==
  ASSUME Types, Replies, NEW s \in Servers, HandlePower(s)
  PROVE  Replies'
<1> DEFINE f == Top(s)
           c == f.msg.comp
           g == [f EXCEPT !.at = "respond"]
           q == <<g>> \o Callers(s)
<1>1. /\ Running(s, "process")
      /\ IF Owner[c] # s
           THEN CallServer(s, "CALCULATE_POWER_REQ", c, q)
           ELSE /\ stack' = [stack EXCEPT ![s] = q]
                /\ UNCHANGED <<net, inbox, reply, waiting, todo, responds>>
  BY DEF HandlePower, channels, memory, clients
<1>2. f \in ProcessFrames(s) /\ c \in Reaches(s) /\ Asks(s, c)
  BY <1>1, ProcessTop, ProcessApart
<1>3. g \in ProcessFrames(s) /\ g.msg = f.msg /\ g.from = f.from /\ g.at = "respond"
  BY <1>2, NextAt DEF ProcessFrames
<1>4. f \in Hasty(s) => Owner[c] = s \/ Unasked(s)
  BY DEF Hasty
<1> HIDE DEF g, c
<1>5. /\ SameHandling(stack[s], q) /\ IsSeq(q) /\ Apart(s, q, responds[s])
      /\ f \notin Hasty(s) => q \in Seq(Careful(s))
      /\ f \in Hasty(s) => ~responds[s] /\ g \in Hasty(s) /\ q = <<g>>
  BY <1>1, <1>3, SwapReplies
<1> HIDE DEF q
<1>6. CASE Owner[c] # s
  <2>1. "CALCULATE_POWER_REQ" \in RequestTypes
    BY MessageKinds
  <2>2. \A x \in RecvFrames : Apart(s, <<x>> \o q, responds[s])
    <3>1. CASE f \notin Hasty(s)
      BY <1>5, <3>1, RecvCareful
    <3>2. CASE f \in Hasty(s)
      BY <1>4, <1>5, <1>6, <3>2 DEF Apart
    <3> QED BY <3>1, <3>2
  <2> QED BY <1>1, <1>2, <1>5, <1>6, <2>1, <2>2, CallServerReplies
<1>7. CASE Owner[c] = s
  <2>1. Unasking(net') /\ Apart(s, q, responds'[s])
    BY <1>1, <1>5, <1>7 DEF Replies
  <2> QED BY <1>1, <1>5, <1>7, <2>1, InsideReplies
<1> QED BY <1>6, <1>7

-----------------------------------------------------------------------------
\* Requests and responses of the other servers

\* process() starts on a request.
LEMMA StartCareful ==
  ASSUME NEW s \in Servers, NEW m \in CallsTo(s), NEW from \in Servers \cup Clients,
         from \in Servers => m.wait, Asks(s, m.comp), from \in Clients => Home[from] = s
  PROVE  /\ m.wait => Process(m, from) \in Careful(s)
         /\ \A k : Process(m, from) \in Handling(k) <=> from = k /\ m.wait
         /\ /\ ~m.wait /\ m.type = "CALCULATE_POWER_REQ"
            /\ Owner[m.comp] = s \/ Unasked(s)
            => Process(m, from) \in Hasty(s)
<1> DEFINE f == Process(m, from)
<1>1. f \in ProcessFrames(s) /\ f.msg = m /\ f.from = from
  BY ProcessFrame DEF Process
<1>2. m.type = "CALCULATE_POWER_REQ" => f.at = "power"
  BY DEF Process
<1> HIDE DEF f
<1>3. m.wait => f \in Careful(s)
  BY <1>1 DEF Careful
<1>4. \A k : f \in Handling(k) <=> from = k /\ m.wait
  BY <1>1, HandlingKinds
<1>5. ~m.wait /\ m.type = "CALCULATE_POWER_REQ" /\ (Owner[m.comp] = s \/ Unasked(s)) => f \in Hasty(s)
  BY <1>1, <1>2 DEF Hasty
<1> QED BY <1>3, <1>4, <1>5 DEF f

\* A request of another server arrives only where every call is waited for.
LEMMA HearServerReplies ==
  ASSUME Types, Replies, NEW s \in Servers, NEW r \in Servers, ListenServer(s, r) \/ RecvRequest(s, r)
  PROVE  Replies'
<1> DEFINE m == Head(net[r][s])
           f == Process(m, r)
<1>1. /\ net[r][s] # <<>> /\ net' = [net EXCEPT ![r][s] = Tail(@)]
      /\ StartProcess(s, m, r, stack[s])
      /\ stack[s] = <<>> \/ IsRequest(m)
      /\ UNCHANGED <<inbox, reply, waiting, todo>>
  BY DEF ListenServer, RecvRequest, Idle, clients
<1>2. /\ m \in Messages
      /\ IsRequest(m) => m \in RequestsTo(s)
  BY <1>1, MailTaken DEF Types
<1>3. Unasking(net') /\ (IsRequest(m) => ~Unasked(s))
  BY <1>1, UnaskingTaken DEF Types, Replies
<1>4. /\ responds'[s] = FALSE
      /\ \A x \in Servers : x # s => responds'[x] = responds[x]
  BY <1>1 DEF StartProcess, Types, ServersTyped
<1>5. stack[s] \in Seq(Careful(s))
  <2>1. CASE stack[s] = <<>>
    BY <2>1
  <2>2. CASE stack[s] # <<>> /\ ~Unasked(s)
    <3>1. Running(s, "MPI_Recv")
      BY <1>1, <2>2 DEF ListenServer, RecvRequest, Idle
    <3>2. Top(s) \notin Hasty(s)
      BY <3>1 DEF Running, Hasty, ProcessFrames
    <3> QED BY <2>2, <3>2, ApartTop
  <2> QED BY <1>1, <1>3, <2>1, <2>2
<1>6. IsSeq(stack[s])
  BY <1>5, CarefulStack
<1>7. CASE IsRequest(m)
  <2>1. m \in CallsTo(s) /\ m.wait /\ Owner[m.comp] = s
    BY <1>2, <1>7, MailMessages DEF RequestsTo, Local
  <2>2. r \notin Clients
    BY RpcAssumption
  <2> HIDE DEF m
  <2>3. f \in Careful(s) /\ \A k \in Clients : f \notin Handling(k)
    BY <2>1, <2>2, StartCareful DEF Asks
  <2>4. stack' = [stack EXCEPT ![s] = <<f>> \o stack[s]]
    BY <1>1, <1>7 DEF StartProcess
  <2> HIDE DEF f
  <2>5. SameHandling(stack[s], <<f>> \o stack[s]) /\ IsSeq(<<f>> \o stack[s])
    BY <1>6, <2>3, PushHandling, PushSeq
  <2>6. <<f>> \o stack[s] \in Seq(Careful(s))
    BY <1>5, <2>3, CarefulStack
  <2>7. Apart(s, <<f>> \o stack[s], responds'[s])
    BY <2>6 DEF Apart
  <2> QED BY <1>1, <1>3, <1>4, <2>4, <2>5, <2>7, InsideReplies
<1>8. CASE ~IsRequest(m)
  <2>1. stack' = [stack EXCEPT ![s] = stack[s]]
    BY <1>1, <1>8 DEF StartProcess
  <2>2. SameHandling(stack[s], stack[s]) /\ Apart(s, stack[s], responds'[s])
    BY <1>5 DEF SameHandling, Apart
  <2> QED BY <1>1, <1>3, <1>4, <1>6, <2>1, <2>2, InsideReplies
<1> QED BY <1>7, <1>8

\* What was put aside is no request of a client.
LEMMA ReprocessReplies ==
  ASSUME Types, Replies, NEW s \in Servers, Reprocess(s)
  PROVE  Replies'
<1> DEFINE m == Head(deferred[s]).msg
<1>1. /\ deferred[s] # <<>> /\ stack[s] = <<>>
      /\ StartProcess(s, m, Head(deferred[s]).from, stack[s])
      /\ UNCHANGED <<net, inbox, reply, waiting, todo>>
  BY DEF Reprocess, Idle, channels, clients
<1>2. ~IsRequest(m)
  BY <1>1, AsideMessage
<1> HIDE DEF m
<1>3. \A x \in Servers : x # s => responds'[x] = responds[x]
  BY <1>1 DEF StartProcess, Types, ServersTyped
<1>4. stack' = [stack EXCEPT ![s] = stack[s]]
  BY <1>1, <1>2 DEF StartProcess
<1>5. IsSeq(stack[s]) /\ Apart(s, stack[s], responds'[s])
  BY <1>1 DEF IsSeq, Apart
<1>6. SameHandling(stack[s], stack[s]) /\ Unasking(net')
  BY <1>1 DEF SameHandling, Replies
<1> QED BY <1>1, <1>3, <1>4, <1>5, <1>6, InsideReplies

LEMMA RecvOtherReplies ==
  ASSUME Types, Replies, NEW s \in Servers, NEW r \in Servers, RecvOther(s, r)
  PROVE  Replies'
<1>1. /\ net[r][s] # <<>> /\ net' = [net EXCEPT ![r][s] = Tail(@)]
      /\ UNCHANGED <<inbox, reply, stack, responds, waiting, todo>>
  BY DEF RecvOther, clients
<1>2. Unasking(net')
  BY <1>1, UnaskingTaken DEF Types, Replies
<1> QED BY <1>1, <1>2 DEF Replies, Ordered, AllApart

\* The call that waited goes on.
LEMMA RecvResponseReplies ==
  ASSUME Types, Replies, NEW s \in Servers, NEW r \in Servers, RecvResponse(s, r)
  PROVE  Replies'
<1> DEFINE m == Head(net[r][s])
           f == Caller(s)
           g == Returned(f, m)
           q == <<g>> \o Tail(Callers(s))
<1>1. /\ net[r][s] # <<>> /\ net' = [net EXCEPT ![r][s] = Tail(@)]
      /\ Running(s, "MPI_Recv") /\ m.type = Top(s).type
      /\ UNCHANGED <<inbox, reply, waiting, todo, responds>>
      /\ \/ UNCHANGED stack
         \/ ~NoDatum(s, m) /\ stack' = [stack EXCEPT ![s] = q]
  BY DEF RecvResponse, Awaited, NoDatum, Caller, memory, clients
<1>2. m \in Messages /\ Top(s) \in RecvFrames /\ stack[s] # <<>>
  BY <1>1, MailTaken, TopFrame DEF Types, Running
<1>3. m \in ResponseMessages
  BY <1>1, <1>2, KindOf DEF RecvFrames, IsResponse
<1>4. Unasking(net')
  BY <1>1, UnaskingTaken DEF Types, Replies
<1>5. CASE UNCHANGED stack
  BY <1>1, <1>4, <1>5 DEF Replies, Ordered, AllApart
<1>6. CASE ~NoDatum(s, m) /\ stack' = [stack EXCEPT ![s] = q]
  <2>1. /\ Callers(s) # <<>> /\ Framed(s, Callers(s)) /\ Framed(s, q)
        /\ f \in ProcessFrames(s) \cup SyncFrames(s)
        /\ g \in Frames(s) /\ g.fn = f.fn
        /\ f.fn = "process" => g.from = f.from
    BY <1>1, <1>3, <1>6, ReturnedFrame
  <2>2. /\ f \in ProcessFrames(s) => g \in ProcessFrames(s) /\ g.msg = f.msg /\ g.from = f.from
                                     /\ g.at = f.at
        /\ f \in SyncFrames(s) => g \in SyncFrames(s) /\ g.comp = f.comp
    <3>1. CASE f \in ProcessFrames(s)
      <4>1. f.fn = "process"
        BY <3>1 DEF ProcessFrames
      <4>2. g = f \/ g = [f EXCEPT !.data = m.data]
        <5> HIDE DEF f, m
        <5>1. CASE m.type # "PULL_DATA_RES"
          BY <5>1, Zenon DEF Returned
        <5>2. CASE m.type = "PULL_DATA_RES"
          BY <4>1, <5>2, Zenon DEF Returned
        <5> QED BY <5>1, <5>2
      <4>3. g \in ProcessFrames(s)
        BY <2>1, <4>1 DEF Frames, SyncFrames, RecvFrames
      <4>4. g.msg = f.msg /\ g.from = f.from /\ g.at = f.at
        <5> HIDE DEF f, m, g
        <5> QED BY <3>1, <4>2 DEF ProcessFrames
      <4>5. f \notin SyncFrames(s)
        BY <4>1 DEF SyncFrames
      <4> QED BY <4>3, <4>4, <4>5
    <3>2. CASE f \in SyncFrames(s)
      <4>1. f.fn = "synchronize_data"
        BY <3>2 DEF SyncFrames
      <4>2. g = f \/ g = Add(f, m.data)
        <5> HIDE DEF f, m
        <5>1. CASE m.type # "PULL_DATA_RES"
          BY <5>1, Zenon DEF Returned
        <5>2. CASE m.type = "PULL_DATA_RES"
          BY <4>1, <5>2, Zenon DEF Returned
        <5> QED BY <5>1, <5>2
      <4>3. g \in SyncFrames(s)
        BY <2>1, <4>1 DEF Frames, ProcessFrames, RecvFrames
      <4>4. g.comp = f.comp
        <5> HIDE DEF f, m, g
        <5> QED BY <3>2, <4>2 DEF SyncFrames, Add
      <4>5. f \notin ProcessFrames(s)
        BY <4>1 DEF ProcessFrames
      <4> QED BY <4>3, <4>4, <4>5
    <3> QED BY <2>1, <3>1, <3>2
  <2>3. \A k : Top(s) \notin Handling(k)
    BY <1>2, HandlingKinds
  <2>4. \A k : g \in Handling(k) <=> f \in Handling(k)
    <3> HIDE DEF f, g
    <3> QED BY <2>1, <2>2, HandlingKinds
  <2>5. IsSeq(stack[s]) /\ IsSeq(Callers(s)) /\ IsSeq(q)
    BY <1>2, <2>1, FramesSeq DEF Types, Calling
  <2>6. SameHandling(stack[s], Callers(s))
    BY <1>2, <2>3, <2>5, PopHandling DEF Callers, Top
  <2>7. SameHandling(Callers(s), q)
    BY <2>1, <2>4, <2>5, SwapHandling DEF Caller
  <2> HIDE DEF g
  <2>8. Apart(s, q, responds[s])
    <3>1. CASE Callers(s) \in Seq(Careful(s))
      <4>1. f \in Careful(s) /\ Tail(Callers(s)) \in Seq(Careful(s))
        BY <2>1, <3>1, CarefulStack DEF Caller
      <4>2. g \in Careful(s)
        <5> HIDE DEF f
        <5>1. CASE f \in ProcessFrames(s)
          <6>1. f \notin SyncFrames(s) \cup RecvFrames
            BY <5>1 DEF ProcessFrames, SyncFrames, RecvFrames
          <6> QED BY <2>2, <4>1, <5>1, <6>1 DEF Careful
        <5>2. CASE f \in SyncFrames(s)
          <6>1. f \notin ProcessFrames(s) /\ f \notin RecvFrames
            BY <5>2 DEF ProcessFrames, SyncFrames, RecvFrames
          <6> QED BY <2>2, <4>1, <5>2, <6>1 DEF Careful
        <5> QED BY <2>1, <5>1, <5>2
      <4> QED BY <4>1, <4>2, CarefulStack DEF Apart
    <3>2. CASE ~responds[s] /\ f \in Hasty(s) /\ Tail(Callers(s)) = <<>>
      <4>1. g \in Hasty(s)
        <5> HIDE DEF f
        <5> QED BY <2>2, <3>2 DEF Hasty
      <4>2. q = <<g>>
        <5>1. \A x : <<x>> \o <<>> = <<x>>
          OBVIOUS
        <5> QED BY <3>2, <5>1
      <4> QED BY <3>2, <4>1, <4>2 DEF Apart
    <3>3. Top(s) \notin Hasty(s)
      BY <1>2 DEF RecvFrames, Hasty, ProcessFrames
    <3> QED BY <1>2, <3>1, <3>2, <3>3, ApartTop
  <2> HIDE DEF q
  <2>9. SameHandling(stack[s], q)
    BY <2>6, <2>7, SameHandlingTwice
  <2> QED BY <1>1, <1>4, <1>6, <2>5, <2>8, <2>9, InsideReplies
<1> QED BY <1>1, <1>5, <1>6

-----------------------------------------------------------------------------
\* The clients

\* The numbers that Due adds up
LEMMA WaitedCount ==
  ASSUME NEW k \in Clients, Types
  PROVE  /\ IsSeq(inbox[k]) /\ Count(inbox[k], WaitedCalls) \in Nat
         /\ IsSeq(stack[Home[k]]) /\ Count(stack[Home[k]], Handling(k)) \in Nat
         /\ Len(reply[k]) \in Nat /\ (reply[k] # <<>> <=> Len(reply[k]) > 0)
<1>1. inbox[k] \in Seq(RequestMessages) /\ reply[k] \in Seq(Messages)
  BY DEF Types, ClientsTyped
<1>2. IsSeq(stack[Home[k]])
  BY RpcAssumption, FramesSeq DEF Types, Calling
<1>3. IsSeq(inbox[k])
  BY <1>1 DEF IsSeq
<1>4. Len(reply[k]) \in Nat /\ (reply[k] # <<>> <=> Len(reply[k]) > 0)
  BY <1>1
<1> QED BY <1>2, <1>3, <1>4, CountNat

\* A call of a client starts on the empty stack of its server.
LEMMA ListenClientReplies ==
  ASSUME Types, Replies, NEW s \in Servers, NEW k \in Clients, ListenClient(s, k)
  PROVE  Replies'
<1> DEFINE m == Head(inbox[k])
           f == Process(m, k)
           q == <<f>> \o <<>>
<1>1. /\ inbox[k] # <<>> /\ Home[k] = s /\ stack[s] = <<>>
      /\ inbox' = [inbox EXCEPT ![k] = Tail(@)]
      /\ StartProcess(s, m, k, <<>>)
      /\ UNCHANGED <<net, reply, waiting, todo>>
  BY DEF ListenClient, Idle, clients
<1>2. /\ inbox[k] \in Seq(Orders(k))
      /\ m \in Orders(k) /\ Tail(inbox[k]) \in Seq(Orders(k))
  BY <1>1, HeadTailProperties DEF Replies, Ordered
<1>3. /\ m \in CallsTo(s) /\ m \in RequestMessages /\ Asks(s, m.comp) /\ m.wait \in BOOLEAN
      /\ ~m.wait => m.type = "CALCULATE_POWER_REQ" /\ (Owner[m.comp] = s \/ Unasked(s))
  BY <1>1, <1>2, MailMessages DEF Orders, CallsTo
<1>4. IsRequest(m) /\ k \notin Servers
  BY <1>3, RpcAssumption DEF CallsTo, IsRequest
<1>5. /\ stack' = [stack EXCEPT ![s] = q]
      /\ responds'[s] = FALSE
      /\ \A x \in Servers : x # s => responds'[x] = responds[x]
  BY <1>1, <1>4 DEF StartProcess, Types, ServersTyped
<1>6. Count(inbox[k], WaitedCalls) = Count(Tail(inbox[k]), WaitedCalls) + OneIf(m.wait)
  <2>1. m \in WaitedCalls <=> m.wait
    BY <1>3, HandlingKinds
  <2> QED BY <1>1, <2>1, CountTail, WaitedCount DEF OneIf
<1>7. /\ m.wait => f \in Careful(s)
      /\ \A x : f \in Handling(x) <=> k = x /\ m.wait
      /\ ~m.wait => f \in Hasty(s)
  <2> HIDE DEF m
  <2> QED BY <1>1, <1>3, <1>4, StartCareful
<1> HIDE DEF m, f
<1>8. <<>> \in Seq(Careful(s)) /\ IsSeq(<<>>) /\ \A x : <<x>> \o <<>> = <<x>>
  BY DEF IsSeq
<1>9. Apart(s, q, responds'[s])
  <2>1. CASE m.wait
    BY <1>7, <1>8, <2>1, CarefulStack DEF Apart
  <2>2. CASE ~m.wait
    BY <1>5, <1>7, <1>8, <2>2 DEF Apart
  <2> QED BY <2>1, <2>2
<1>10. \A x : Count(q, Handling(x)) = Count(<<>>, Handling(x)) + OneIf(k = x /\ m.wait)
  <2>1. \A x : Count(q, Handling(x)) = Count(<<>>, Handling(x)) + OneIf(f \in Handling(x))
    BY <1>8, PushHandling
  <2> QED BY <1>7, <2>1 DEF OneIf
<1> HIDE DEF q
<1>11. stack'[s] = q /\ \A x \in Servers : x # s => stack'[x] = stack[x]
  BY <1>5, ExceptAt DEF Types, Calling
<1>12. AllApart'
  BY <1>5, <1>9, <1>11 DEF AllApart, Replies
<1>13. /\ inbox'[k] = Tail(inbox[k])
       /\ \A x \in Clients : x # k => inbox'[x] = inbox[x]
  BY <1>1 DEF Types, ClientsTyped
<1>14. Due(inbox, stack, reply, waiting)'
  <2> SUFFICES ASSUME NEW x \in Clients
               PROVE  Count(inbox'[x], WaitedCalls) + Count(stack'[Home[x]], Handling(x)) + Len(reply[x])
                        = OneIf(waiting[x] # NoCall)
    BY <1>1 DEF Due
  <2>1. Count(inbox[x], WaitedCalls) + Count(stack[Home[x]], Handling(x)) + Len(reply[x])
          = OneIf(waiting[x] # NoCall)
    BY DEF Replies, Due
  <2>2. Home[x] \in Servers
    BY RpcAssumption
  <2>3. CASE x = k
    <3>1. Count(stack'[Home[x]], Handling(x)) = Count(stack[Home[x]], Handling(x)) + OneIf(m.wait)
      BY <1>1, <1>10, <1>11, <2>3 DEF OneIf
    <3>2. Count(inbox[x], WaitedCalls) = Count(inbox'[x], WaitedCalls) + OneIf(m.wait)
      BY <1>6, <1>13, <2>3
    <3>3. IsSeq(inbox'[x])
      BY <1>2, <1>13, <2>3 DEF IsSeq
    <3>4. /\ Count(inbox'[x], WaitedCalls) \in Nat /\ Count(stack[Home[x]], Handling(x)) \in Nat
          /\ Len(reply[x]) \in Nat /\ OneIf(m.wait) \in Nat
      BY <3>3, CountNat, WaitedCount DEF OneIf
    <3> HIDE DEF Due
    <3> QED BY <2>1, <3>1, <3>2, <3>4
  <2>4. CASE x # k
    <3>1. Count(stack'[Home[x]], Handling(x)) = Count(stack[Home[x]], Handling(x))
      <4>1. CASE Home[x] = s
        <5>1. Count(q, Handling(x)) = Count(<<>>, Handling(x)) + 0
          BY <1>10, <2>4 DEF OneIf
        <5>2. Count(<<>>, Handling(x)) \in Nat
          BY <1>8, CountNat
        <5> QED BY <1>1, <1>11, <4>1, <5>1, <5>2
      <4>2. CASE Home[x] # s
        BY <1>11, <2>2, <4>2
      <4> QED BY <4>1, <4>2
    <3> QED BY <1>13, <2>1, <2>4, <3>1
  <2> QED BY <2>3, <2>4
<1>15. Ordered'
  <2> SUFFICES ASSUME NEW x \in Clients
               PROVE  inbox'[x] \in Seq(Orders(x)) /\ todo'[x] \in Seq(Orders(x))
    BY DEF Ordered
  <2> QED BY <1>1, <1>2, <1>13 DEF Replies, Ordered
<1>16. Unasking(net)'
  BY <1>1 DEF Replies
<1> QED BY <1>12, <1>14, <1>15, <1>16 DEF Replies

\* A client is sent a message only if it waits for the response.
LEMMA RespondReplies ==
  ASSUME Types, Replies, NEW s \in Servers, Respond(s)
  PROVE  Replies'
<1> DEFINE f == Top(s)
           k == f.from
           q == Callers(s)
           m == IF f.msg.wait THEN Response(ResponseTo[f.msg.type], f.data) ELSE sendbuf[s]
<1>1. /\ Running(s, "process")
      /\ responds' = [responds EXCEPT ![s] = @ \/ f.msg.wait]
      /\ IF responds'[s] THEN SendTo(s, k, m) ELSE UNCHANGED <<net, reply>>
      /\ stack' = [stack EXCEPT ![s] = q]
      /\ UNCHANGED <<inbox, waiting, todo>>
  BY DEF Respond, clients
<1>2. /\ m \in Messages
      /\ k \in Servers => m \in ResponseMessages /\ responds'[s]
  BY RespondMessage
<1>3. /\ f \in ProcessFrames(s) /\ k \in Servers \cup Clients
      /\ k \in Servers => f.msg.wait
      /\ stack[s] # <<>> /\ IsSeq(stack[s]) /\ IsSeq(q)
  BY <1>1, ProcessTop, FramesSeq
<1>4. /\ responds'[s] = (responds[s] \/ f.msg.wait)
      /\ \A x \in Servers : x # s => responds'[x] = responds[x]
  BY <1>1 DEF Types, ServersTyped
<1>5. \/ q \in Seq(Careful(s)) /\ f.msg.wait /\ (k \in Clients => Home[k] = s)
      \/ ~responds[s] /\ q = <<>> /\ ~f.msg.wait
  <2>1. f \in Hasty(s) => ~f.msg.wait
    BY DEF Hasty
  <2> QED BY <1>1, <2>1, ProcessApart
<1>6. Apart(s, q, responds'[s])
  <2>1. <<>> \in Seq(Careful(s))
    OBVIOUS
  <2> QED BY <1>5, <2>1 DEF Apart
<1>7. \A x : f \in Handling(x) <=> k = x /\ f.msg.wait
  <2> HIDE DEF f
  <2> QED BY <1>3, HandlingKinds
<1>8. \A x : Count(stack[s], Handling(x)) = Count(q, Handling(x)) + OneIf(k = x /\ f.msg.wait)
  <2>1. \A x : Count(stack[s], Handling(x)) = Count(q, Handling(x)) + OneIf(f \in Handling(x))
    BY <1>3, PopHandling DEF Top, Callers
  <2> QED BY <1>7, <2>1 DEF OneIf
<1>9. \A x : Count(q, Handling(x)) \in Nat
  BY <1>3, CountNat
<1> HIDE DEF m, k, q
<1>10. CASE ~(k \in Clients /\ f.msg.wait)
  <2>1. \A x \in Clients : ~(k = x /\ f.msg.wait)
    BY <1>10
  <2>2. SameHandling(stack[s], q)
    <3> HIDE DEF f
    <3> QED BY <1>8, <1>9, <2>1 DEF SameHandling, OneIf
  <2>3. reply' = reply /\ Unasking(net')
    <3>1. CASE k \in Servers
      <4>1. net' = [net EXCEPT ![s][k] = Append(@, m)] /\ reply' = reply
        BY <1>1, <1>2, <3>1 DEF SendTo
      <4>2. m \notin RequestMessages
        BY <1>2, <3>1, KindOf
      <4> QED BY <1>2, <3>1, <4>1, <4>2, UnaskingSent DEF Types, Replies
    <3>2. CASE k \notin Servers
      <4>1. ~responds'[s]
        BY <1>3, <1>4, <1>5, <1>10, <3>2
      <4> QED BY <1>1, <4>1 DEF Replies
    <3> QED BY <3>1, <3>2
  <2> QED BY <1>1, <1>3, <1>4, <1>6, <2>2, <2>3, InsideReplies
<1>11. CASE k \in Clients /\ f.msg.wait
  <2>1. Home[k] = s /\ k \notin Servers /\ responds'[s]
    BY <1>4, <1>5, <1>11, RpcAssumption
  <2>2. reply' = [reply EXCEPT ![k] = Append(@, m)] /\ net' = net
    BY <1>1, <2>1 DEF SendTo
  <2>3. stack'[s] = q /\ \A x \in Servers : x # s => stack'[x] = stack[x]
    BY <1>1, ExceptAt DEF Types, Calling
  <2>4. AllApart'
    BY <1>4, <1>6, <2>3 DEF AllApart, Replies
  <2>5. reply \in [Clients -> Seq(Messages)]
    BY DEF Types
  <2>6. Len(reply'[k]) = Len(reply[k]) + 1 /\ \A x \in Clients : x # k => reply'[x] = reply[x]
    <3>1. reply[k] \in Seq(Messages)
      BY <1>11, <2>5
    <3>2. reply'[k] = Append(reply[k], m) /\ \A x \in Clients : x # k => reply'[x] = reply[x]
      BY <1>11, <2>2, <2>5
    <3> QED BY <1>2, <3>1, <3>2, AppendProperties
  <2>7. Due(inbox, stack, reply, waiting)'
    <3> SUFFICES ASSUME NEW x \in Clients
                 PROVE  Count(inbox[x], WaitedCalls) + Count(stack'[Home[x]], Handling(x)) + Len(reply'[x])
                          = OneIf(waiting[x] # NoCall)
      BY <1>1 DEF Due
    <3>1. Count(inbox[x], WaitedCalls) + Count(stack[Home[x]], Handling(x)) + Len(reply[x])
            = OneIf(waiting[x] # NoCall)
      BY DEF Replies, Due
    <3>2. Home[x] \in Servers
      BY RpcAssumption
    <3>3. CASE x = k
      <4>1. Count(stack[Home[x]], Handling(x)) = Count(stack'[Home[x]], Handling(x)) + 1
        <5>1. Count(stack[s], Handling(k)) = Count(q, Handling(k)) + OneIf(k = k /\ f.msg.wait)
          BY <1>8
        <5>2. OneIf(k = k /\ f.msg.wait) = 1
          BY <1>11 DEF OneIf
        <5> QED BY <2>1, <2>3, <3>3, <5>1, <5>2
      <4>2. Count(stack'[Home[x]], Handling(x)) \in Nat
        BY <1>9, <2>1, <2>3, <3>3
      <4>3. Len(reply'[x]) = Len(reply[x]) + 1
        BY <2>6, <3>3
      <4> QED BY <3>1, <4>1, <4>2, <4>3, WaitedCount
    <3>4. CASE x # k
      <4>1. Count(stack'[Home[x]], Handling(x)) = Count(stack[Home[x]], Handling(x))
        <5>1. CASE Home[x] = s
          <6>1. Count(stack[s], Handling(x)) = Count(q, Handling(x)) + OneIf(k = x /\ f.msg.wait)
            BY <1>8
          <6>2. OneIf(k = x /\ f.msg.wait) = 0
            BY <3>4 DEF OneIf
          <6>3. Count(stack[s], Handling(x)) = Count(q, Handling(x))
            BY <1>9, <6>1, <6>2
          <6> QED BY <2>3, <5>1, <6>3
        <5>2. CASE Home[x] # s
          BY <2>3, <3>2, <5>2
        <5> QED BY <5>1, <5>2
      <4> QED BY <2>6, <3>1, <3>4, <4>1
    <3> QED BY <3>3, <3>4
  <2>8. Ordered' /\ Unasking(net)'
    BY <1>1, <2>2 DEF Replies, Ordered
  <2> QED BY <2>4, <2>7, <2>8 DEF Replies
<1> QED BY <1>10, <1>11

\* A client calls, and has its response.
LEMMA ClientCallReplies ==
  ASSUME Types, Replies, NEW k \in Clients, ClientCall(k)
  PROVE  Replies'
<1> DEFINE m == Head(todo[k])
<1>1. /\ waiting[k] = NoCall /\ todo[k] # <<>>
      /\ todo' = [todo EXCEPT ![k] = Tail(@)]
      /\ inbox' = [inbox EXCEPT ![k] = Append(@, m)]
      /\ waiting' = [waiting EXCEPT ![k] = IF m.wait THEN ResponseTo[m.type] ELSE NoCall]
      /\ UNCHANGED <<net, reply, stack, responds>>
  BY DEF ClientCall, memory
<1>2. m \in Orders(k) /\ Tail(todo[k]) \in Seq(Orders(k)) /\ inbox[k] \in Seq(Orders(k))
  BY <1>1, HeadTailProperties DEF Replies, Ordered
<1>3. m \in RequestMessages
  BY <1>2, MailMessages DEF Orders
<1>4. m \in WaitedCalls <=> m.wait
  BY <1>3, HandlingKinds
<1>5. ResponseTo[m.type] # NoCall
  <2>1. m.type \in RequestTypes
    BY <1>3 DEF RequestMessages
  <2> QED BY <2>1, MessageKinds DEF NoCall
<1> HIDE DEF m
<1>6. /\ inbox'[k] = Append(inbox[k], m) /\ todo'[k] = Tail(todo[k])
      /\ waiting'[k] = IF m.wait THEN ResponseTo[m.type] ELSE NoCall
      /\ \A x \in Clients : x # k => /\ inbox'[x] = inbox[x] /\ todo'[x] = todo[x]
                                     /\ waiting'[x] = waiting[x]
  BY <1>1 DEF Types, ClientsTyped
<1>7. Ordered'
  <2> SUFFICES ASSUME NEW x \in Clients
               PROVE  inbox'[x] \in Seq(Orders(x)) /\ todo'[x] \in Seq(Orders(x))
    BY DEF Ordered
  <2>1. CASE x = k
    <3>1. Append(inbox[k], m) \in Seq(Orders(k))
      BY <1>2, AppendProperties
    <3> QED BY <1>2, <1>6, <2>1, <3>1
  <2>2. CASE x # k
    BY <1>6, <2>2 DEF Replies, Ordered
  <2> QED BY <2>1, <2>2
<1>8. Due(inbox, stack, reply, waiting)'
  <2> SUFFICES ASSUME NEW x \in Clients
               PROVE  Count(inbox'[x], WaitedCalls) + Count(stack[Home[x]], Handling(x)) + Len(reply[x])
                        = OneIf(waiting'[x] # NoCall)
    BY <1>1 DEF Due
  <2>1. Count(inbox[x], WaitedCalls) + Count(stack[Home[x]], Handling(x)) + Len(reply[x])
          = OneIf(waiting[x] # NoCall)
    BY DEF Replies, Due
  <2>2. CASE x = k
    <3>1. Count(inbox'[k], WaitedCalls) = Count(inbox[k], WaitedCalls) + OneIf(m.wait)
      <4>1. Count(Append(inbox[k], m), WaitedCalls) = Count(inbox[k], WaitedCalls) + OneIf(m \in WaitedCalls)
        BY WaitedCount, CountAppend
      <4> QED BY <1>4, <1>6, <4>1 DEF OneIf
    <3>2. OneIf(waiting[k] # NoCall) = 0 /\ OneIf(waiting'[k] # NoCall) = OneIf(m.wait)
      BY <1>1, <1>5, <1>6 DEF OneIf
    <3>3. OneIf(m.wait) \in Nat
      BY DEF OneIf
    <3> QED BY <2>1, <2>2, <3>1, <3>2, <3>3, WaitedCount
  <2>3. CASE x # k
    BY <1>6, <2>1, <2>3
  <2> QED BY <2>2, <2>3
<1>9. AllApart' /\ Unasking(net)'
  BY <1>1 DEF AllApart, Replies
<1> QED BY <1>7, <1>8, <1>9 DEF Replies

LEMMA ClientReturnReplies ==
  ASSUME Types, Replies, NEW k \in Clients, ClientReturn(k)
  PROVE  Replies'
<1>1. /\ waiting[k] # NoCall /\ reply[k] # <<>>
      /\ reply' = [reply EXCEPT ![k] = Tail(@)]
      /\ waiting' = [waiting EXCEPT ![k] = NoCall]
      /\ UNCHANGED <<net, inbox, stack, responds, todo>>
  BY DEF ClientReturn, memory
<1>2. /\ reply'[k] = Tail(reply[k]) /\ waiting'[k] = NoCall
      /\ \A x \in Clients : x # k => reply'[x] = reply[x] /\ waiting'[x] = waiting[x]
  BY <1>1 DEF Types, ClientsTyped
<1>3. Len(reply'[k]) = Len(reply[k]) - 1
  <2>1. reply[k] \in Seq(Messages)
    BY DEF Types
  <2> QED BY <1>1, <1>2, <2>1, HeadTailProperties
<1>4. Due(inbox, stack, reply, waiting)'
  <2> SUFFICES ASSUME NEW x \in Clients
               PROVE  Count(inbox[x], WaitedCalls) + Count(stack[Home[x]], Handling(x)) + Len(reply'[x])
                        = OneIf(waiting'[x] # NoCall)
    BY <1>1 DEF Due
  <2>1. Count(inbox[x], WaitedCalls) + Count(stack[Home[x]], Handling(x)) + Len(reply[x])
          = OneIf(waiting[x] # NoCall)
    BY DEF Replies, Due
  <2>2. CASE x = k
    <3>1. OneIf(waiting[k] # NoCall) = 1 /\ OneIf(waiting'[k] # NoCall) = 0
      BY <1>1, <1>2 DEF OneIf
    <3> QED BY <1>3, <2>1, <2>2, <3>1, WaitedCount
  <2>3. CASE x # k
    BY <1>2, <2>1, <2>3
  <2> QED BY <2>2, <2>3
<1>5. Ordered' /\ AllApart' /\ Unasking(net)'
  BY <1>1 DEF Ordered, AllApart, Replies
<1> QED BY <1>4, <1>5 DEF Replies

\* Replies is kept by every step, and holds at first if nobody is disturbed.
LEMMA RepliesStep ==
  ASSUME Types, Replies, [Next]_vars
  PROVE  Replies'
<1>1. ASSUME NEW s \in Servers, ServerStep(s)
      PROVE  Replies'
  BY <1>1, HearServerReplies, RecvOtherReplies, RecvResponseReplies, ListenClientReplies, ReprocessReplies,
     SyncEntryReplies, SyncChildReplies, PullChildReplies, SyncReturnReplies,
     HandleSyncReplies, HandlePullReplies, HandlePowerReplies, RespondReplies DEF ServerStep
<1>2. CASE UNCHANGED vars
  BY <1>2 DEF Replies, Ordered, AllApart, vars, channels, memory, clients
<1> QED BY <1>1, <1>2, ClientCallReplies, ClientReturnReplies DEF Next

LEMMA RepliesInit ==
  ASSUME Undisturbed, Init
  PROVE  Replies
<1>1. \A S : <<>> \in Seq(S)
  OBVIOUS
<1>2. Ordered
  <2> SUFFICES ASSUME NEW k \in Clients
               PROVE  todo[k] \in Seq(Orders(k))
    BY <1>1 DEF Init, Ordered
  <2>1. /\ todo[k] \in Seq(CallsTo(Home[k])) /\ todo \in Programs
        /\ Home[k] \in Servers
    BY TypesInit, RpcAssumption DEF Types, ClientsTyped, Init
  <2>2. /\ Len(todo[k]) \in Nat /\ DOMAIN todo[k] = 1 .. Len(todo[k])
        /\ \A i \in 1 .. Len(todo[k]) : todo[k][i] \in CallsTo(Home[k])
    BY <2>1, LenProperties, ElementOfSeq
  <2>3. ASSUME NEW i \in 1 .. Len(todo[k])
        PROVE  todo[k][i] \in Orders(k)
    <3> DEFINE m == todo[k][i]
    <3>1. m \in CallsTo(Home[k]) /\ i \in DOMAIN todo[k]
      BY <2>2
    <3>2. Asks(Home[k], m.comp)
      BY <2>1, <3>1 DEF Asks, Unasked
    <3>3. m.wait \/ m.type = "CALCULATE_POWER_REQ"
      BY <2>1, <3>1, ProgramsAssumption
    <3>4. m.wait \/ Owner[m.comp] = Home[k] \/ Unasked(Home[k])
      BY <2>1, <3>1 DEF Undisturbed
    <3> HIDE DEF m
    <3>5. m \in Orders(k)
      BY <3>1, <3>2, <3>3, <3>4 DEF Orders
    <3> QED BY <3>5 DEF m
  <2> QED BY <2>1, <2>2, <2>3
<1>3. Unasking(net)
  <2>1. ServerReady \in Messages \ RequestMessages
    BY MessageKinds DEF ServerReady, Messages, RequestMessages
  <2> SUFFICES ASSUME NEW r \in Servers, NEW s \in Servers
               PROVE  net[r][s] \in Seq(Messages \ RequestMessages)
    BY DEF Unasking
  <2>2. net[r][s] = <<>> \/ net[r][s] = <<ServerReady>>
    BY DEF Init
  <2> DEFINE d == ServerReady
  <2> HIDE DEF d
  <2>3. \A S : \A x \in S : <<x>> \in Seq(S)
    OBVIOUS
  <2> QED BY <1>1, <2>1, <2>2, <2>3
<1>4. AllApart
  BY <1>1 DEF Init, AllApart, Apart
<1>5. Due(inbox, stack, reply, waiting)
  <2> SUFFICES ASSUME NEW k \in Clients
               PROVE  Count(inbox[k], WaitedCalls) + Count(stack[Home[k]], Handling(k)) + Len(reply[k])
                        = OneIf(waiting[k] # NoCall)
    BY DEF Due
  <2>1. inbox[k] = <<>> /\ stack[Home[k]] = <<>> /\ reply[k] = <<>> /\ waiting[k] = NoCall
    BY RpcAssumption DEF Init
  <2>2. Count(<<>>, WaitedCalls) = 0 /\ Count(<<>>, Handling(k)) = 0 /\ Len(<<>>) = 0
    BY CountEmpty
  <2> QED BY <2>1, <2>2 DEF OneIf
<1> QED BY <1>2, <1>3, <1>4, <1>5 DEF Replies

\* A reply is one that is due.
LEMMA RepliesDue ==
  ASSUME Types, Replies
  PROVE  OnlyAwaitedReplies
<1> SUFFICES ASSUME NEW k \in Clients, reply[k] # <<>>
             PROVE  waiting[k] # NoCall /\ Len(reply[k]) = 1
  BY DEF OnlyAwaitedReplies
<1>1. Count(inbox[k], WaitedCalls) + Count(stack[Home[k]], Handling(k)) + Len(reply[k])
        = OneIf(waiting[k] # NoCall)
  BY DEF Replies, Due
<1>2. /\ Count(inbox[k], WaitedCalls) \in Nat /\ Count(stack[Home[k]], Handling(k)) \in Nat
      /\ Len(reply[k]) \in Nat /\ Len(reply[k]) > 0
  BY WaitedCount
<1> HIDE DEF WaitedCalls
<1>3. OneIf(waiting[k] # NoCall) = 0 \/ OneIf(waiting[k] # NoCall) = 1
  BY DEF OneIf
<1>4. \A a, b, c \in Nat : c > 0 => /\ a + b + c # 0
                                    /\ a + b + c = 1 => c = 1
  OBVIOUS
<1> DEFINE a == Count(inbox[k], WaitedCalls)
           b == Count(stack[Home[k]], Handling(k))
           c == Len(reply[k])
           n == OneIf(waiting[k] # NoCall)
<1>5. a \in Nat /\ b \in Nat /\ c \in Nat /\ c > 0 /\ a + b + c = n /\ (n = 0 \/ n = 1)
  BY <1>1, <1>2, <1>3
<1> HIDE DEF a, b, c, n
<1>6. n = 1 /\ c = 1
  BY <1>4, <1>5
<1> QED BY <1>6 DEF OneIf, n, c

\* Where nobody is disturbed no server ever sends a client a message that no
\* call of the client waits for, whatever else the clients ask for at once.
THEOREM RepliesAwaited == Undisturbed => (Spec => []OnlyAwaitedReplies)
<1> SUFFICES ASSUME Undisturbed
             PROVE  Spec => []OnlyAwaitedReplies
  OBVIOUS
<1>1. Init => Types /\ Replies
  BY TypesInit, RepliesInit
<1>2. (Types /\ Replies) /\ [Next]_vars => (Types /\ Replies)'
  BY TypesStep, RepliesStep
<1>3. Types /\ Replies => OnlyAwaitedReplies
  BY RepliesDue
<1> QED BY <1>1, <1>2, <1>3, PTL DEF Spec

=============================================================================
