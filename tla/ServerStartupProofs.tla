------------------------ MODULE ServerStartupProofs -------------------------
(***************************************************************************)
(* That no two components get one ID, for every number of processes and    *)
(* every deployment. That IDs come from disjoint ranges is not inductive   *)
(* by itself: what is_disjoint has compared are the ranges of those who    *)
(* have connected (Connected, Connecting), which is everybody before the   *)
(* first ID is given (PastBarrier, Numbered), and an ID that arrives from  *)
(* another process must never be written over that of a local component    *)
(* (Nested, Asked), whatever init_pseudo_component sends (JobStepEffect).  *)
(***************************************************************************)
EXTENDS ServerStartup, FiniteSetTheorems, SequenceTheorems, TLAPS

Calls == [comp : Names \cup {Top}, child : Nat, waits : BOOLEAN]

Channels == [Servers -> [Servers -> Seq(Messages)]]

Types ==
    /\ deployment \in Deployments
    /\ net \in Channels
    /\ round \in [Servers -> 0 .. NumRanks]
    /\ phase \in [Servers -> {"connect", "configure", "listen"}]
    /\ remote_server \in [Servers -> Seq(Servers)]
    /\ stack \in [Servers -> Seq(Calls)]
    /\ component_count \in [Servers -> Nat]
    /\ id \in [Servers -> [Names -> Nat]]
    /\ superset \in [Servers -> [Names -> Names \cup {NoComp}]]
    /\ jobs \in [Servers -> Seq(Jobs)]
    /\ deferred \in [Servers -> Seq([msg : Messages, from : Servers])]
    /\ failed \in BOOLEAN

\* Who is in remote_server[s] connected once, with a disjoint range
Connected ==
    \A s \in Servers :
      /\ \A i \in 1 .. Len(remote_server[s]) :
           LET r == remote_server[s][i] IN
           /\ r # s
           /\ IsDisjoint(deployment.published[r], deployment.published[s])
           /\ round[r] > s
      /\ \A i, j \in 1 .. Len(remote_server[s]) :
           remote_server[s][i] = remote_server[s][j] => i = j
      /\ round[s] > s => Len(remote_server[s]) = NumRanks - 1

\* s has heard from r
HeardFrom(s, r) == \E i \in 1 .. Len(remote_server[s]) : remote_server[s][i] = r

\* Before the barrier the only message from r to s is the one of round s
Connecting ==
    \/ failed
    \/ \E r \in Servers : phase[r] # "connect"
    \/ \A r, s \in Servers :
         net[r][s] = IF r # s /\ round[r] > s /\ ~HeardFrom(s, r)
                       THEN <<ServerConnect(deployment.published[r])>>
                       ELSE <<>>

PastBarrier ==
    \A s \in Servers : phase[s] # "connect" => \A r \in Servers : round[r] = NumRanks

\* The calls in progress follow the configuration from its top to a component
NestedAt(s) ==
  /\ stack[s] # <<>> \/ jobs[s] # <<>> => phase[s] # "connect"
  /\ \A i \in 1 .. Len(stack[s]) :
       /\ stack[s][i].comp = Top <=> i = Len(stack[s])
       /\ i < Len(stack[s]) => stack[s][i].comp \in Below(deployment, s, stack[s][i + 1].comp)
       /\ stack[s][i].child = 0 => i < Len(stack[s])
       /\ stack[s][i].waits => stack[s][i].comp \in deployment.remote[s]
  /\ \A n \in Names : superset[s][n] # NoComp =>
       superset[s][n] \in Names /\ n \in Below(deployment, s, superset[s][n])

Nested == \A s \in Servers : NestedAt(s)

\* Whoever asks has a local component above the remote one
AskedIn(r, q) ==
    \A i \in 1 .. Len(q) :
        q[i].type = "CONNECT_REMOTE_COMP_REQ" => q[i].name \in RemoteSubsets(r)

AskedAside(q) ==
    \A i \in 1 .. Len(q) :
        q[i].msg.type = "CONNECT_REMOTE_COMP_REQ" => q[i].msg.name \in RemoteSubsets(q[i].from)

Asked == \A r, s \in Servers : AskedIn(r, net[r][s]) /\ AskedAside(deferred[s])

\* Local components are numbered upwards within the range
NumberedAt(s) ==
    LET range == deployment.configured[s] IN
    /\ failed \/ component_count[s] <= range[2] - range[1]
    /\ \A n \in Names : IsLocal(s, n) /\ id[s][n] # Invalid =>
         /\ phase[s] # "connect"
         /\ range[1] <= id[s][n] /\ id[s][n] <= range[2]
         /\ id[s][n] < range[1] + component_count[s]
    /\ \A m, n \in Names :
         /\ IsLocal(s, m) /\ IsLocal(s, n)
         /\ id[s][m] = id[s][n] /\ id[s][m] # Invalid
         => m = n

Numbered == \A s \in Servers : NumberedAt(s)

IInv == Types /\ Connected /\ Connecting /\ PastBarrier /\ Nested /\ Asked /\ Numbered

-----------------------------------------------------------------------------

\* The configurations are lists of names and pairs of numbers.
LEMMA DeploymentTypes ==
  ASSUME Types, NEW s \in Servers
  PROVE  /\ \A n \in Names \cup {Top} :
              Subset(s, n) \in Seq(Names) /\ Below(deployment, s, n) \subseteq Names
         /\ deployment.published[s] \in Ranges
         /\ deployment.configured[s] \in Ranges
         /\ deployment.remote[s] \subseteq Names
         /\ \A n \in Names : deployment.floorplan[s][n] \in Seq(Names)
<1>1. /\ deployment.subset \in [Servers -> [Names \cup {Top} -> Seq(Names)]]
      /\ deployment.remote \in [Servers -> SUBSET Names]
      /\ deployment.floorplan \in [Servers -> [Names -> Seq(Names)]]
      /\ deployment.published \in [Servers -> Ranges]
      /\ deployment.configured \in [Servers -> Ranges]
  BY DeploymentsAssumption DEF Types
<1>2. ASSUME NEW n \in Names \cup {Top}
      PROVE  Subset(s, n) \in Seq(Names) /\ Below(deployment, s, n) \subseteq Names
  <2>1. deployment.subset[s][n] \in Seq(Names)
    BY <1>1
  <2>2. \A i \in DOMAIN deployment.subset[s][n] : deployment.subset[s][n][i] \in Names
    BY <2>1
  <2> QED BY <2>1, <2>2 DEF Subset, Below
<1> QED BY <1>1, <1>2

\* A name that two configurations list is below the same component in both,
\* and local in one of them at most.
LEMMA OnePlace ==
  ASSUME Types, NEW s \in Servers, NEW r \in Servers,
         NEW p \in Names \cup {Top}, NEW q \in Names \cup {Top}, NEW n \in Names,
         n \in Below(deployment, s, p), n \in Below(deployment, r, q)
  PROVE  p = q /\ (s = r \/ n \in deployment.remote[s] \cup deployment.remote[r])
BY DeploymentsAssumption DEF Types

\* A component is local to one process only.
LEMMA OneOwner ==
  ASSUME Types, NEW s \in Servers, NEW r \in Servers, NEW n \in Names,
         IsLocal(s, n), IsLocal(r, n)
  PROVE  s = r
<1>1. PICK p \in Names \cup {Top} : n \in Below(deployment, s, p)
  BY DEF IsLocal, Listed
<1>2. PICK q \in Names \cup {Top} : n \in Below(deployment, r, q)
  BY DEF IsLocal, Listed
<1>3. s = r \/ n \in deployment.remote[s] \cup deployment.remote[r]
  BY <1>1, <1>2, OnePlace
<1> QED BY <1>3 DEF IsLocal, IsRemote

\* After the barrier every process has heard from all others: with NumRanks - 1
\* different servers in its list none is left out.
LEMMA EveryoneHeard ==
  ASSUME Types, Connected, \A x \in Servers : round[x] = NumRanks,
         NEW r \in Servers, NEW s \in Servers, r # s
  PROVE  HeardFrom(s, r)
<1> DEFINE others == Servers \ {s, r}
           places == 1 .. NumRanks - 1
<1>1. Len(remote_server[s]) = NumRanks - 1
  BY RanksAssumption DEF Connected, Servers
<1>2. remote_server[s] \in [places -> Servers]
  BY <1>1, LenProperties DEF Types
<1>3. \E i \in places : remote_server[s][i] = r
  <2> SUFFICES ASSUME \A i \in places : remote_server[s][i] # r
               PROVE  FALSE
    OBVIOUS
  <2>1. remote_server[s] \in [places -> others]
    BY <1>1, <1>2 DEF Connected
  <2>2. IsFiniteSet(Servers) /\ Cardinality(Servers) = NumRanks
    BY FS_Interval, RanksAssumption DEF Servers
  <2>3. IsFiniteSet(Servers \ {s}) /\ Cardinality(Servers \ {s}) = NumRanks - 1
    BY <2>2, FS_RemoveElement
  <2>4. IsFiniteSet(others) /\ Cardinality(others) = NumRanks - 2
    <3>1. others = (Servers \ {s}) \ {r} /\ r \in Servers \ {s}
      OBVIOUS
    <3>2. /\ IsFiniteSet((Servers \ {s}) \ {r})
          /\ Cardinality((Servers \ {s}) \ {r}) = Cardinality(Servers \ {s}) - 1
      BY <2>3, <3>1, FS_RemoveElement, Zenon
    <3>3. NumRanks - 1 - 1 = NumRanks - 2
      BY RanksAssumption
    <3> HIDE DEF others
    <3> QED BY <2>3, <3>1, <3>2, <3>3
  <2>5. IsFiniteSet(places) /\ Cardinality(places) = NumRanks - 1
    BY FS_Interval, RanksAssumption
  <2>6. \E i, j \in places : i # j /\ remote_server[s][i] = remote_server[s][j]
    BY <2>1, <2>4, <2>5, FS_PigeonHole, RanksAssumption
  <2> QED BY <2>6, <1>1, <1>2 DEF Connected
<1> QED BY <1>1, <1>3 DEF HeardFrom

\* ... and so their ranges are disjoint.
LEMMA AllDisjoint ==
  ASSUME Types, Connected, \A x \in Servers : round[x] = NumRanks,
         NEW r \in Servers, NEW s \in Servers, r # s
  PROVE  IsDisjoint(deployment.published[r], deployment.published[s])
BY EveryoneHeard DEF Connected, HeardFrom

-----------------------------------------------------------------------------
\* Types.  ready_count is left out: that it stays a count needs that every
\* server announces itself once, and nothing below depends on it.

\* The types of the messages that jobs are about.
JobTypes == UrgentTypes \cup ResultTypes

LEMMA TypeNames ==
  /\ UrgentTypes = {"GET_COMP_ID_REQ", "SYNCHRONIZE_DATA_REQ", "PULL_DATA_REQ"}
  /\ ResultTypes = {"GET_COMP_ID_RES", "SYNCHRONIZE_DATA_RES", "PULL_DATA_RES"}
  /\ ResponseTo \in [UrgentTypes -> ResultTypes]
  /\ NoCall \notin ResultTypes
<1>1. UrgentTypes = {"GET_COMP_ID_REQ", "SYNCHRONIZE_DATA_REQ", "PULL_DATA_REQ"}
  BY DEF UrgentTypes, ResponseTo
<1>2. /\ ResponseTo["GET_COMP_ID_REQ"] = "GET_COMP_ID_RES"
      /\ ResponseTo["SYNCHRONIZE_DATA_REQ"] = "SYNCHRONIZE_DATA_RES"
      /\ ResponseTo["PULL_DATA_REQ"] = "PULL_DATA_RES"
  BY DEF ResponseTo
<1>3. ResultTypes = {"GET_COMP_ID_RES", "SYNCHRONIZE_DATA_RES", "PULL_DATA_RES"}
  BY <1>1, <1>2 DEF ResultTypes
<1>4. ResponseTo \in [UrgentTypes -> ResultTypes]
  BY <1>1, <1>2, <1>3 DEF ResponseTo
<1> QED BY <1>1, <1>3, <1>4 DEF NoCall

\* What servers send are messages.
LEMMA MessageTypes ==
  ASSUME Types
  PROVE  /\ ServerReady \in Messages
         /\ \A s \in Servers : ServerConnect(deployment.published[s]) \in Messages
         /\ \A n \in Names, i \in Nat : ConnectRemoteReq(i, n) \in Messages
         /\ \A i \in Nat : ConnectRemoteRes(i) \in Messages
         /\ \A n \in Names : Request("GET_COMP_ID_REQ", n) \in Messages
         /\ \A i \in Nat : /\ Request("SYNCHRONIZE_DATA_REQ", i) \in Messages
                            /\ Request("PULL_DATA_REQ", i) \in Messages
         /\ \A type \in UrgentTypes, ok \in BOOLEAN : Result(type, ok) \in Messages
<1>1. deployment \in Deployments
  BY DEF Types
<1>2. ASSUME NEW s \in Servers
      PROVE  ServerConnect(deployment.published[s]) \in Messages
  <2>1. deployment.published[s] \in {d.published[x] : d \in Deployments, x \in Servers}
    BY <1>1
  <2> QED BY <2>1 DEF Messages
<1>3. ServerReady \in Messages
  BY DEF Messages
<1>4. \A n \in Names, i \in Nat : ConnectRemoteReq(i, n) \in Messages
  BY DEF Messages, ConnectRemoteReq
<1>5. \A i \in Nat : ConnectRemoteRes(i) \in Messages
  BY DEF Messages, ConnectRemoteRes
<1>6. /\ \A n \in Names : Request("GET_COMP_ID_REQ", n) \in Messages
      /\ \A i \in Nat : /\ Request("SYNCHRONIZE_DATA_REQ", i) \in Messages
                         /\ Request("PULL_DATA_REQ", i) \in Messages
  BY DEF Messages, Request
<1>7. \A type \in UrgentTypes, ok \in BOOLEAN : Result(type, ok) \in Messages
  BY DEF Messages, Result, ResultTypes
<1> QED BY <1>2, <1>3, <1>4, <1>5, <1>6, <1>7

\* Messages of a type carry the fields of that type.
LEMMA MessageFields ==
  ASSUME NEW m \in Messages
  PROVE  /\ m.type \in {"SERVER_READY", "SERVER_CONNECT", "CONNECT_REMOTE_COMP_REQ",
                        "CONNECT_REMOTE_COMP_RES"} \cup JobTypes
         /\ m.type = "CONNECT_REMOTE_COMP_REQ" => m.superset \in Nat /\ m.name \in Names
         /\ m.type = "CONNECT_REMOTE_COMP_RES" => m.id \in Nat
         /\ m.type = "GET_COMP_ID_REQ" => m.of \in Names
         /\ m.type \in {"SYNCHRONIZE_DATA_REQ", "PULL_DATA_REQ"} => m.of \in Nat
         /\ m.type \in ResultTypes => m.ok \in BOOLEAN
BY TypeNames DEF Messages, ServerReady, ServerConnect, JobTypes

\* Sending a message keeps the types of the channels.
LEMMA SendType ==
  ASSUME NEW channels \in Channels, NEW s \in Servers, NEW r \in Servers, NEW m \in Messages
  PROVE  [channels EXCEPT ![s][r] = Append(@, m)] \in Channels
<1>1. Append(channels[s][r], m) \in Seq(Messages)
  BY AppendProperties DEF Channels
<1> QED BY <1>1 DEF Channels

\* What is received is a message, and the rest of the channel stays.
LEMMA ReceiveType ==
  ASSUME Types, NEW s \in Servers, NEW r \in Servers, net[r][s] # <<>>
  PROVE  Head(net[r][s]) \in Messages /\ Received(s, r) \in Channels
<1>1. net[r][s] \in Seq(Messages)
  BY DEF Types, Channels
<1>2. Head(net[r][s]) \in Messages /\ Tail(net[r][s]) \in Seq(Messages)
  BY <1>1, HeadTailProperties
<1> QED BY <1>2 DEF Types, Channels, Received

\* A call begins: it becomes the innermost one.
LEMMA Push ==
  ASSUME NEW S, NEW q \in Seq(S), NEW c \in S
  PROVE  /\ <<c>> \o q \in Seq(S)
         /\ Len(<<c>> \o q) = Len(q) + 1
         /\ (<<c>> \o q)[1] = c
         /\ \A i \in 2 .. Len(q) + 1 : (<<c>> \o q)[i] = q[i - 1]
<1>1. <<c>> \in Seq(S) /\ Len(<<c>>) = 1 /\ <<c>>[1] = c
  OBVIOUS
<1>2. Len(q) \in Nat
  BY LenProperties
<1> QED BY <1>1, <1>2, ConcatProperties

\* The innermost call is replaced by what it has become.
LEMMA ReplaceTop ==
  ASSUME NEW S, NEW q \in Seq(S), NEW c \in S, q # <<>>
  PROVE  /\ <<c>> \o Tail(q) \in Seq(S)
         /\ Len(<<c>> \o Tail(q)) = Len(q)
         /\ (<<c>> \o Tail(q))[1] = c
         /\ \A i \in 2 .. Len(q) : (<<c>> \o Tail(q))[i] = q[i]
<1>1. /\ Tail(q) \in Seq(S)
      /\ Len(Tail(q)) = Len(q) - 1
      /\ \A i \in 1 .. Len(Tail(q)) : Tail(q)[i] = q[i + 1]
  BY HeadTailProperties
<1>2. Len(q) \in Nat /\ Len(q) > 0
  BY EmptySeq, LenProperties
<1> QED BY <1>1, <1>2, Push

\* The innermost call goes and its caller is replaced by what it has become.
LEMMA DropTop ==
  ASSUME NEW S, NEW q \in Seq(S), NEW c \in S, Len(q) > 1
  PROVE  LET r == <<c>> \o SubSeq(q, 3, Len(q)) IN
         /\ r \in Seq(S)
         /\ Len(r) = Len(q) - 1
         /\ r[1] = c
         /\ \A i \in 2 .. Len(q) - 1 : r[i] = q[i + 1]
<1> DEFINE rest == SubSeq(q, 3, Len(q))
<1>1. Len(q) \in Nat
  BY LenProperties
<1>2. /\ rest \in Seq(S)
      /\ Len(rest) = Len(q) - 2
      /\ \A i \in 1 .. Len(rest) : rest[i] = q[i + 2]
  <2>1. \A i \in 3 .. Len(q) : q[i] \in S
    BY <1>1, ElementOfSeq
  <2>2. rest \in Seq(S)
    BY <1>1, <2>1, SubSeqProperties
  <2>3. Len(rest) = IF 3 <= Len(q) THEN Len(q) - 3 + 1 ELSE 0
    BY <1>1, <2>1, SubSeqProperties
  <2>4. \A i \in 1 .. Len(q) - 3 + 1 : rest[i] = q[3 + i - 1]
    BY <1>1, <2>1, SubSeqProperties
  <2> HIDE DEF rest
  <2>5. Len(rest) = Len(q) - 2
    <3>1. \A n \in Nat : n > 1 => (IF 3 <= n THEN n - 3 + 1 ELSE 0) = n - 2
      OBVIOUS
    <3> QED BY <1>1, <2>3, <3>1, Zenon
  <2>6. ASSUME NEW i \in 1 .. Len(q) - 2
        PROVE  rest[i] = q[i + 2]
    <3>1. i \in 1 .. Len(q) - 3 + 1 /\ 3 + i - 1 = i + 2
      BY <1>1
    <3>2. rest[i] = q[3 + i - 1]
      BY <2>4, <3>1, Zenon
    <3> QED BY <3>1, <3>2, Zenon
  <2> QED BY <2>2, <2>5, <2>6
<1> HIDE DEF rest
<1>3. \A i \in 2 .. Len(rest) + 1 : (<<c>> \o rest)[i] = rest[i - 1]
  BY <1>2, Push
<1>4. /\ <<c>> \o rest \in Seq(S) /\ Len(<<c>> \o rest) = Len(rest) + 1 /\ (<<c>> \o rest)[1] = c
  BY <1>2, Push
<1> QED BY <1>1, <1>2, <1>3, <1>4 DEF rest

\* A process creates components after the barrier.
LEMMA Creating ==
  ASSUME Types, PastBarrier, Nested, NEW s \in Servers, stack[s] # <<>>
  PROVE  /\ stack[s] \in Seq(Calls)
         /\ Head(stack[s]) = stack[s][1]
         /\ stack[s][1] \in Calls
         /\ Len(stack[s]) \in Nat /\ Len(stack[s]) > 0
         /\ phase[s] # "connect"
         /\ \A r \in Servers : round[r] = NumRanks
<1>1. stack[s] \in Seq(Calls)
  BY DEF Types
<1>2. Len(stack[s]) \in Nat /\ Len(stack[s]) > 0
  BY <1>1, EmptySeq, LenProperties
<1>3. Head(stack[s]) = stack[s][1] /\ Head(stack[s]) \in Calls
  BY <1>1, HeadTailProperties
<1> QED BY <1>1, <1>2, <1>3 DEF Nested, NestedAt, PastBarrier

\* What the step of create_pseudo_component does to the stack, and to what
\* it calls.
LEMMA RunningTop ==
  ASSUME Types, PastBarrier, Nested, NEW s \in Servers, Running(s)
  PROVE  /\ stack[s] # <<>>
         /\ stack[s][1] \in Calls /\ Head(stack[s]) = stack[s][1]
         /\ ~stack[s][1].waits
         /\ Len(stack[s]) \in Nat /\ Len(stack[s]) > 0
         /\ stack[s][1].comp # Top => stack[s][1].comp \in Names /\ Len(stack[s]) > 1
         /\ Len(stack[s]) > 1 => /\ stack[s][1].comp \in Names
                                 /\ stack[s][2] \in Calls
<1>1. stack[s] # <<>> /\ ~Head(stack[s]).waits
  BY DEF Running
<1>2. /\ stack[s] \in Seq(Calls)
      /\ Head(stack[s]) = stack[s][1]
      /\ stack[s][1] \in Calls
      /\ Len(stack[s]) \in Nat /\ Len(stack[s]) > 0
  BY <1>1, Creating
<1>3. 1 \in 1 .. Len(stack[s])
  BY <1>2
<1>4. stack[s][1].comp = Top <=> 1 = Len(stack[s])
  BY <1>2, <1>3 DEF Nested, NestedAt
<1>5. Len(stack[s]) > 1 => stack[s][2] \in Calls
  BY <1>2, ElementOfSeq
<1>6. stack[s][1].comp \in Names \cup {Top}
  BY <1>2 DEF Calls
<1>7. ~stack[s][1].waits
  BY <1>1, <1>2
<1>8. 1 # Len(stack[s]) <=> Len(stack[s]) > 1
  <2>1. \A n \in Nat : n > 0 => (1 # n <=> n > 1)
    OBVIOUS
  <2> QED BY <1>2, <2>1, Zenon
<1>9. stack[s][1].comp # Top <=> Len(stack[s]) > 1
  BY <1>4, <1>8, Zenon
<1> QED BY <1>1, <1>2, <1>5, <1>6, <1>7, <1>9, Zenon

\* A process waits in the call of a remote component.
LEMMA WaitingTop ==
  ASSUME Types, PastBarrier, Nested, NEW s \in Servers, Waiting(s)
  PROVE  /\ stack[s] # <<>>
         /\ Len(stack[s]) > 1 /\ Head(stack[s]) = stack[s][1] /\ stack[s][1] \in Calls
         /\ stack[s][1].comp \in Names /\ IsRemote(s, stack[s][1].comp)
<1>1. /\ stack[s] # <<>>
      /\ stack[s] \in Seq(Calls)
      /\ Head(stack[s]) = stack[s][1]
      /\ stack[s][1] \in Calls
      /\ Len(stack[s]) \in Nat /\ Len(stack[s]) > 0
  BY Creating DEF Waiting
<1>2. stack[s][1].waits
  BY <1>1 DEF Waiting
<1>3. 1 \in 1 .. Len(stack[s])
  BY <1>1
<1>4. stack[s][1].comp \in deployment.remote[s]
  BY <1>2, <1>3 DEF Nested, NestedAt
<1>5. stack[s][1].comp \in Names
  BY <1>4, DeploymentTypes
<1>6. 1 # Len(stack[s])
  <2>1. stack[s][1].comp # Top
    BY <1>5, NamesAssumption
  <2> QED BY <1>3, <2>1, Zenon DEF Nested, NestedAt
<1>7. Len(stack[s]) > 1
  <2>1. \A n \in Nat : n > 0 /\ 1 # n => n > 1
    OBVIOUS
  <2> QED BY <1>1, <1>6, <2>1
<1> QED BY <1>1, <1>4, <1>5, <1>7 DEF IsRemote

\* Replacing what one process has for one component keeps the type of what all
\* have.
LEMMA ExceptNameType ==
  ASSUME NEW T, NEW f \in [Servers -> [Names -> T]], NEW s \in Servers, NEW n \in Names, NEW v \in T
  PROVE  [f EXCEPT ![s][n] = v] \in [Servers -> [Names -> T]]
OBVIOUS

\* IDs are given out from the start of the range.
LEMMA GetNewCompIdType ==
  ASSUME Types, NEW s \in Servers, NEW n \in Names, GetNewCompId(s, n)
  PROVE  /\ component_count' \in [Servers -> Nat]
         /\ id' \in [Servers -> [Names -> Nat]]
         /\ failed' \in BOOLEAN
<1>1. deployment.configured[s] \in Nat \X Nat
  BY DeploymentTypes DEF Ranges
<1>2. component_count[s] \in Nat
  BY DEF Types
<1>3. /\ component_count' = [component_count EXCEPT ![s] = component_count[s] + 1]
      /\ component_count[s] + 1 \in Nat
  BY <1>2 DEF GetNewCompId
<1>4. component_count' \in [Servers -> Nat] /\ component_count'[s] = component_count[s] + 1
  BY <1>3 DEF Types
<1>5. component_count'[s] + deployment.configured[s][1] - 1 \in Nat
  <2>1. deployment.configured[s][1] \in Nat
    BY <1>1
  <2>2. \A c, i \in Nat : c + 1 + i - 1 \in Nat
    OBVIOUS
  <2> QED BY <1>2, <1>4, <2>1, <2>2
<1>6. id' \in [Servers -> [Names -> Nat]]
  <2>1. id \in [Servers -> [Names -> Nat]]
    BY DEF Types
  <2>2. \/ id' = id
        \/ id' = [id EXCEPT ![s][n] = component_count'[s] + deployment.configured[s][1] - 1]
    BY DEF GetNewCompId
  <2>3. [id EXCEPT ![s][n] = component_count'[s] + deployment.configured[s][1] - 1]
          \in [Servers -> [Names -> Nat]]
    BY <1>5, <2>1, ExceptNameType
  <2> QED BY <2>1, <2>2, <2>3
<1>7. failed' \in BOOLEAN
  BY DEF GetNewCompId, Error, Types
<1> QED BY <1>4, <1>6, <1>7

\* What becomes of the list of calls when a call returns.
LEMMA AddSubsetStack ==
  ASSUME Types, NEW s \in Servers, Len(stack[s]) > 1, AddSubset(s)
  PROVE  /\ stack' \in [Servers -> Seq(Calls)]
         /\ \A x \in Servers \ {s} : stack'[x] = stack[x]
         /\ Len(stack'[s]) = Len(stack[s]) - 1
         /\ stack'[s][1] = [stack[s][2] EXCEPT !.child = @ + 1]
         /\ \A i \in 2 .. Len(stack[s]) - 1 : stack'[s][i] = stack[s][i + 1]
<1> DEFINE c == [stack[s][2] EXCEPT !.child = @ + 1]
           r == <<c>> \o SubSeq(stack[s], 3, Len(stack[s]))
<1>1. stack[s] \in Seq(Calls) /\ Len(stack[s]) \in Nat
  BY LenProperties DEF Types
<1>2. c \in Calls
  <2>1. stack[s][2] \in Calls
    BY <1>1, ElementOfSeq
  <2> QED BY <2>1 DEF Calls
<1>3. stack' = [stack EXCEPT ![s] = r]
  BY DEF AddSubset, Continue
<1> HIDE DEF c
<1>4. /\ r \in Seq(Calls)
      /\ Len(r) = Len(stack[s]) - 1
      /\ r[1] = c
      /\ \A i \in 2 .. Len(stack[s]) - 1 : r[i] = stack[s][i + 1]
  BY <1>1, <1>2, DropTop
<1> HIDE DEF r
<1>5. stack \in [Servers -> Seq(Calls)]
  BY DEF Types
<1> QED BY <1>3, <1>4, <1>5 DEF c

\* A returning call is that of a component, and it is noted below another.
LEMMA AddSubsetSuperset ==
  ASSUME Types, PastBarrier, Nested, NEW s \in Servers, Len(stack[s]) > 1, AddSubset(s)
  PROVE  /\ stack[s][1].comp \in Names
         /\ superset' \in [Servers -> [Names -> Names \cup {NoComp}]]
         /\ \/ superset' = superset
            \/ /\ stack[s][2].comp \in Names
               /\ superset' = [superset EXCEPT ![s][stack[s][1].comp] = stack[s][2].comp]
<1>1. stack[s] \in Seq(Calls) /\ Len(stack[s]) \in Nat
  BY LenProperties DEF Types
<1>2. stack[s][1] \in Calls /\ stack[s][2] \in Calls
  BY <1>1, ElementOfSeq
<1>3. Head(stack[s]) = stack[s][1]
  BY <1>1, HeadTailProperties
<1>4. stack[s][1].comp \in Names
  <2>1. 1 \in 1 .. Len(stack[s]) /\ 1 # Len(stack[s])
    <3>1. \A n \in Nat : n > 1 => 1 \in 1 .. n /\ 1 # n
      OBVIOUS
    <3> QED BY <1>1, <3>1
  <2>2. stack[s][1].comp # Top
    BY <2>1, Zenon DEF Nested, NestedAt
  <2> QED BY <1>2, <2>2 DEF Calls
<1>5. superset \in [Servers -> [Names -> Names \cup {NoComp}]]
  BY DEF Types
<1>6. \/ superset' = superset
      \/ /\ stack[s][2].comp # Top
         /\ superset' = [superset EXCEPT ![s][stack[s][1].comp] = stack[s][2].comp]
  BY <1>3, <1>4, <1>5 DEF AddSubset
<1>7. stack[s][2].comp # Top => stack[s][2].comp \in Names
  BY <1>2 DEF Calls
<1> QED BY <1>4, <1>5, <1>6, <1>7

\* What becomes of it when the innermost call goes on ...
LEMMA ContinueStack ==
  ASSUME Types, NEW s \in Servers, stack[s] # <<>>, NEW c \in Calls,
         Continue(s, <<c>> \o Tail(stack[s]))
  PROVE  /\ stack' \in [Servers -> Seq(Calls)]
         /\ \A x \in Servers \ {s} : stack'[x] = stack[x]
         /\ Len(stack'[s]) = Len(stack[s])
         /\ stack'[s][1] = c
         /\ \A i \in 2 .. Len(stack[s]) : stack'[s][i] = stack[s][i]
<1> DEFINE r == <<c>> \o Tail(stack[s])
<1>1. stack \in [Servers -> Seq(Calls)]
  BY DEF Types
<1>2. /\ r \in Seq(Calls)
      /\ Len(r) = Len(stack[s])
      /\ r[1] = c
      /\ \A i \in 2 .. Len(stack[s]) : r[i] = stack[s][i]
  BY <1>1, ReplaceTop
<1>3. stack' = [stack EXCEPT ![s] = r]
  BY DEF Continue
<1> HIDE DEF r
<1> QED BY <1>1, <1>2, <1>3

\* ... and when it calls itself for a subset.
LEMMA CallStack ==
  ASSUME Types, NEW s \in Servers, NEW c \in Calls, Continue(s, <<c>> \o stack[s])
  PROVE  /\ stack' \in [Servers -> Seq(Calls)]
         /\ \A x \in Servers \ {s} : stack'[x] = stack[x]
         /\ Len(stack'[s]) = Len(stack[s]) + 1
         /\ stack'[s][1] = c
         /\ \A i \in 2 .. Len(stack[s]) + 1 : stack'[s][i] = stack[s][i - 1]
<1> DEFINE r == <<c>> \o stack[s]
<1>1. stack \in [Servers -> Seq(Calls)]
  BY DEF Types
<1>2. /\ r \in Seq(Calls)
      /\ Len(r) = Len(stack[s]) + 1
      /\ r[1] = c
      /\ \A i \in 2 .. Len(stack[s]) + 1 : r[i] = stack[s][i - 1]
  BY <1>1, Push
<1>3. stack' = [stack EXCEPT ![s] = r]
  BY DEF Continue
<1> HIDE DEF r
<1> QED BY <1>1, <1>2, <1>3

\* Whom a request tells its ID: the component above the one it asks for.
LEMMA ConnectRemoteCases ==
  ASSUME Types, NEW s \in Servers, NEW m \in Messages, m.type = "CONNECT_REMOTE_COMP_REQ",
         ConnectRemote(s, m)
  PROVE  \/ failed' = TRUE /\ id' = id
         \/ /\ failed' = failed
            /\ IsLocal(s, m.name)
            /\ m.name \in Names /\ m.superset \in Nat
            /\ superset[s][m.name] \in Names
            /\ id' = [id EXCEPT ![s][superset[s][m.name]] = m.superset]
<1>1. m.name \in Names /\ m.superset \in Nat
  BY MessageFields
<1>2. superset[s][m.name] \in Names \cup {NoComp}
  BY <1>1 DEF Types
<1> QED BY <1>1, <1>2 DEF ConnectRemote, Error

\* All that the processing of a message can change.
LEMMA ProcessCases ==
  ASSUME Types, ~failed, NEW s \in Servers, NEW r \in Servers, NEW m \in Messages,
         NEW channels, ProcessMessage(s, r, m, channels)
  PROVE  \/ id' = id /\ net' = channels /\ failed' \in BOOLEAN
         \/ /\ failed' = failed
            /\ m.type = "CONNECT_REMOTE_COMP_REQ"
            /\ IsLocal(s, m.name)
            /\ m.name \in Names /\ m.superset \in Nat
            /\ superset[s][m.name] \in Names
            /\ id' = [id EXCEPT ![s][superset[s][m.name]] = m.superset]
            /\ net' = [channels EXCEPT ![s][r] = Append(@, ConnectRemoteRes(id[s][m.name]))]
<1>1. failed = FALSE
  BY DEF Types
<1>2. CASE m.type = "SERVER_READY"
  BY <1>1, <1>2 DEF ProcessMessage
<1>3. CASE m.type # "SERVER_READY" /\ m.type # "CONNECT_REMOTE_COMP_REQ"
  BY <1>3 DEF ProcessMessage, Error
<1>4. CASE m.type = "CONNECT_REMOTE_COMP_REQ"
  <2>1. ConnectRemote(s, m)
    BY <1>4 DEF ProcessMessage
  <2>2. net' = IF failed' THEN channels
               ELSE [channels EXCEPT ![s][r] = Append(@, ConnectRemoteRes(id[s][m.name]))]
    BY <1>4 DEF ProcessMessage
  <2> QED BY <1>1, <1>4, <2>1, <2>2, ConnectRemoteCases
<1> QED BY <1>2, <1>3, <1>4

\* server_t::process keeps the types of what it changes.
LEMMA ProcessType ==
  ASSUME Types, ~failed, NEW s \in Servers, NEW r \in Servers, NEW m \in Messages,
         NEW channels \in Channels, ProcessMessage(s, r, m, channels)
  PROVE  net' \in Channels /\ id' \in [Servers -> [Names -> Nat]] /\ failed' \in BOOLEAN
<1>1. id \in [Servers -> [Names -> Nat]] /\ failed \in BOOLEAN
  BY DEF Types
<1>2. CASE id' = id /\ net' = channels /\ failed' \in BOOLEAN
  BY <1>1, <1>2
<1>3. ASSUME failed' = failed, m.name \in Names, m.superset \in Nat,
             superset[s][m.name] \in Names,
             id' = [id EXCEPT ![s][superset[s][m.name]] = m.superset],
             net' = [channels EXCEPT ![s][r] = Append(@, ConnectRemoteRes(id[s][m.name]))]
      PROVE  net' \in Channels /\ id' \in [Servers -> [Names -> Nat]] /\ failed' \in BOOLEAN
  <2>1. id' \in [Servers -> [Names -> Nat]]
    BY <1>1, <1>3, ExceptNameType
  <2>2. id[s][m.name] \in Nat
    BY <1>1, <1>3
  <2>3. ConnectRemoteRes(id[s][m.name]) \in Messages
    BY <2>2, MessageTypes
  <2>4. net' \in Channels
    BY <1>3, <2>3, SendType
  <2> QED BY <1>1, <1>3, <2>1, <2>4
<1> QED BY <1>2, <1>3, ProcessCases

\* A server announces itself to all others.
LEMMA ListenType ==
  ASSUME Types, NEW s \in Servers
  PROVE  [net EXCEPT ![s] = [r \in Servers |-> IF r = s THEN <<>> ELSE Append(@[r], ServerReady)]]
           \in Channels
<1>1. \A r \in Servers : Append(net[s][r], ServerReady) \in Seq(Messages)
  <2>1. \A r \in Servers : net[s][r] \in Seq(Messages)
    BY DEF Types, Channels
  <2>2. ServerReady \in Messages
    BY MessageTypes
  <2> QED BY <2>1, <2>2, AppendProperties
<1>2. [r \in Servers |-> IF r = s THEN <<>> ELSE Append(net[s][r], ServerReady)]
        \in [Servers -> Seq(Messages)]
  BY <1>1, EmptySeq
<1> QED BY <1>2 DEF Types, Channels

\* A process that creates components has another to ask.
LEMMA HasPeer ==
  ASSUME Types, Connected, PastBarrier, Nested, NEW s \in Servers, stack[s] # <<>>
  PROVE  Head(remote_server[s]) \in Servers
<1>1. Len(remote_server[s]) = NumRanks - 1 /\ remote_server[s] \in Seq(Servers)
  <2>1. round[s] = NumRanks
    BY Creating
  <2>2. \A n \in 0 .. NumRanks - 1 : NumRanks > n
    BY RanksAssumption
  <2>3. round[s] > s
    BY <2>1, <2>2 DEF Servers
  <2> QED BY <2>3 DEF Connected, Types
<1>2. NumRanks - 1 # 0
  BY RanksAssumption
<1>3. remote_server[s] # <<>>
  BY <1>1, <1>2, EmptySeq
<1> QED BY <1>1, <1>3, HeadTailProperties

-----------------------------------------------------------------------------
\* Jobs

\* A sequence with a new first element.
LEMMA ConsType ==
  ASSUME NEW S, NEW q \in Seq(S), NEW c \in S
  PROVE  <<c>> \o q \in Seq(S)
<1>1. <<c>> \in Seq(S)
  OBVIOUS
<1> QED BY <1>1, ConcatProperties

\* A job at work and its calls.
LEMMA JobTyped ==
  ASSUME Types, NEW s \in Servers, jobs[s] # <<>>
  PROVE  /\ Head(jobs[s]) \in Jobs /\ Tail(jobs[s]) \in Seq(Jobs)
         /\ Head(jobs[s]).from \in Servers
         /\ Head(jobs[s]).tasks \in Seq(Tasks)
         /\ Head(jobs[s]).ok \in BOOLEAN
         /\ Head(jobs[s]).awaits # NoCall => Head(jobs[s]).tasks # <<>>
         /\ Head(jobs[s]).tasks # <<>> =>
              /\ Head(Head(jobs[s]).tasks) \in Tasks
              /\ Tail(Head(jobs[s]).tasks) \in Seq(Tasks)
<1>1. jobs[s] \in Seq(Jobs)
  BY DEF Types
<1>2. Head(jobs[s]) \in Jobs /\ Tail(jobs[s]) \in Seq(Jobs)
  BY <1>1, HeadTailProperties
<1> DEFINE job == Head(jobs[s])
<1>3. /\ job \in [from : Servers, tasks : Seq(Tasks), awaits : ResultTypes \cup {NoCall}, ok : BOOLEAN]
      /\ job.awaits # NoCall => job.tasks # <<>>
  BY <1>2 DEF Jobs
<1> HIDE DEF job
<1>4. job.from \in Servers /\ job.tasks \in Seq(Tasks) /\ job.ok \in BOOLEAN
  BY <1>3
<1>5. job.tasks # <<>> => Head(job.tasks) \in Tasks /\ Tail(job.tasks) \in Seq(Tasks)
  BY <1>4, HeadTailProperties
<1> QED BY <1>2, <1>3, <1>4, <1>5 DEF job

\* What a call is for.
LEMMA TaskTyped ==
  ASSUME NEW t \in Tasks
  PROVE  /\ t.fn \in {"init", "find", "sync_and_pull", "sync", "forward", "pull"}
         /\ t.fn \in {"init", "find"} => t.of \in Names
         /\ t.fn \notin {"init", "find"} => t.of \in Nat
BY DEF Tasks

\* Calls of one function.
LEMMA EachTyped ==
  ASSUME NEW q \in Seq(Names), NEW fn \in {"init", "find"}
  PROVE  Each(fn, q) \in Seq(Tasks)
<1>1. \A i \in DOMAIN q : q[i] \in Names
  OBVIOUS
<1>2. \A n \in Names : Task(fn, n) \in Tasks
  BY DEF Task, Tasks
<1>3. DOMAIN q = 1 .. Len(q) /\ Len(q) \in Nat
  OBVIOUS
<1>4. [i \in 1 .. Len(q) |-> Task(fn, q[i])] \in Seq(Tasks)
  BY <1>1, <1>2, <1>3, IsASeq
<1> QED BY <1>3, <1>4 DEF Each

\* The calls that a call makes.
LEMMA CallsTyped ==
  ASSUME Types, NEW s \in Servers, NEW t \in Tasks, RunsHere(s, t)
  PROVE  CallsOf(s, t) \in Seq(Tasks)
<1>1. CASE t.fn = "init"
  <2>1. t.of \in Names
    BY <1>1, TaskTyped
  <2>2. Subset(s, t.of) \in Seq(Names) /\ deployment.floorplan[s][t.of] \in Seq(Names)
    BY <2>1, DeploymentTypes
  <2>3. Each("init", Subset(s, t.of)) \in Seq(Tasks)
    BY <2>2, EachTyped
  <2>4. Each("find", deployment.floorplan[s][t.of]) \in Seq(Tasks)
    BY <2>2, EachTyped
  <2>5. Task("sync", id[s][t.of]) \in Tasks
    <3>1. id[s][t.of] \in Nat
      BY <2>1 DEF Types
    <3> QED BY <3>1 DEF Task, Tasks
  <2>6. <<Task("sync", id[s][t.of])>> \o Each("find", deployment.floorplan[s][t.of]) \in Seq(Tasks)
    BY <2>4, <2>5, ConsType
  <2>7. <<>> \in Seq(Tasks)
    OBVIOUS
  <2>8. CallsOf(s, t) = Each("init", Subset(s, t.of)) \o
          (IF IsRemote(s, t.of) THEN <<>>
           ELSE <<Task("sync", id[s][t.of])>> \o Each("find", deployment.floorplan[s][t.of]))
    BY <1>1 DEF CallsOf
  <2> QED BY <2>3, <2>6, <2>7, <2>8, ConcatProperties
<1>2. CASE t.fn = "sync"
  <2>1. Has(s, t.of)
    BY <1>2 DEF RunsHere
  <2>2. Component(s, t.of) \in Names
    BY <2>1 DEF Has, Component
  <2> DEFINE below == Subset(s, Component(s, t.of))
  <2>3. below \in Seq(Names)
    BY <2>2, DeploymentTypes
  <2> HIDE DEF below
  <2>4. \A i \in DOMAIN below : id[s][below[i]] \in Nat
    BY <2>3 DEF Types
  <2>5. \A i \in Nat : Task("sync_and_pull", i) \in Tasks
    BY DEF Task, Tasks
  <2>6. DOMAIN below = 1 .. Len(below) /\ Len(below) \in Nat
    BY <2>3
  <2>7. [i \in 1 .. Len(below) |-> Task("sync_and_pull", id[s][below[i]])] \in Seq(Tasks)
    BY <2>4, <2>5, <2>6, IsASeq
  <2>8. CallsOf(s, t) = [i \in DOMAIN below |-> Task("sync_and_pull", id[s][below[i]])]
    BY <1>2 DEF CallsOf, below
  <2> QED BY <2>6, <2>7, <2>8
<1>3. CASE t.fn = "sync_and_pull"
  <2>1. t.of \in Nat
    BY <1>3, TaskTyped
  <2>2. Task("sync", t.of) \in Tasks /\ Task("pull", t.of) \in Tasks
    BY <2>1 DEF Task, Tasks
  <2>3. CallsOf(s, t) = <<Task("sync", t.of), Task("pull", t.of)>>
    BY <1>3 DEF CallsOf
  <2> QED BY <2>2, <2>3
<1>4. CASE t.fn \notin {"init", "sync", "sync_and_pull"}
  BY <1>4 DEF CallsOf
<1> QED BY <1>1, <1>2, <1>3, <1>4

\* A call of another server has a request.
LEMMA RequestTyped ==
  ASSUME Types, NEW s \in Servers, NEW t \in Tasks, ~RunsHere(s, t)
  PROVE  /\ RequestOf(t) \in Messages
         /\ RequestOf(t).type \in UrgentTypes
<1>1. t.fn \in {"find", "sync", "forward", "pull"}
  BY TaskTyped DEF RunsHere
<1>2. \A type, x : Request(type, x).type = type
  BY DEF Request
<1>3. CASE t.fn = "find"
  <2>1. RequestType[t.fn] = "GET_COMP_ID_REQ" /\ t.of \in Names
    BY <1>3, TaskTyped DEF RequestType
  <2>2. RequestOf(t) = Request("GET_COMP_ID_REQ", t.of)
    BY <2>1 DEF RequestOf
  <2> QED BY <1>2, <2>1, <2>2, MessageTypes, TypeNames
<1>4. CASE t.fn \in {"sync", "forward"}
  <2>1. RequestType[t.fn] = "SYNCHRONIZE_DATA_REQ" /\ t.of \in Nat
    BY <1>4, TaskTyped DEF RequestType
  <2>2. RequestOf(t) = Request("SYNCHRONIZE_DATA_REQ", t.of)
    BY <2>1 DEF RequestOf
  <2> QED BY <1>2, <2>1, <2>2, MessageTypes, TypeNames
<1>5. CASE t.fn = "pull"
  <2>1. RequestType[t.fn] = "PULL_DATA_REQ" /\ t.of \in Nat
    BY <1>5, TaskTyped DEF RequestType
  <2>2. RequestOf(t) = Request("PULL_DATA_REQ", t.of)
    BY <2>1 DEF RequestOf
  <2> QED BY <1>2, <2>1, <2>2, MessageTypes, TypeNames
<1> QED BY <1>1, <1>3, <1>4, <1>5

\* What a job step does to the channels: it may take a message from the first
\* place of one ...
Took(s, channels) ==
    \/ channels = net
    \/ \E r \in Servers : /\ net[r][s] # <<>>
                         /\ Head(net[r][s]).type \in JobTypes
                         /\ channels = Received(s, r)

\* ... and send one, both of requests and results only.
Sent(s, channels) ==
    \/ net' = channels
    \/ \E r \in Servers, m \in Messages :
         /\ m.type \in JobTypes
         /\ net' = [channels EXCEPT ![s][r] = Append(@, m)]

\* A job goes on with calls of its type, waiting for a result or not.
LEMMA BecomeTyped ==
  ASSUME Types, NEW s \in Servers, jobs[s] # <<>>, NEW job \in Jobs, Become(s, job)
  PROVE  jobs' \in [Servers -> Seq(Jobs)] /\ \A x \in Servers \ {s} : jobs'[x] = jobs[x]
<1> DEFINE q == <<job>> \o Tail(jobs[s])
<1>1. q \in Seq(Jobs)
  BY JobTyped, ConsType
<1>2. jobs' = [jobs EXCEPT ![s] = q]
  BY DEF Become
<1> HIDE DEF q
<1> QED BY <1>1, <1>2 DEF Types

LEMMA JobWith ==
  ASSUME NEW job \in Jobs, NEW tasks \in Seq(Tasks), NEW ok \in BOOLEAN
  PROVE  /\ job.awaits = NoCall => [job EXCEPT !.tasks = tasks] \in Jobs
         /\ [job EXCEPT !.tasks = tasks, !.awaits = NoCall, !.ok = ok] \in Jobs
<1>1. job.awaits = NoCall => [job EXCEPT !.tasks = tasks] \in Jobs
  BY DEF Jobs
<1>2. [job EXCEPT !.tasks = tasks, !.awaits = NoCall, !.ok = ok] \in Jobs
  BY DEF Jobs
<1> QED BY <1>1, <1>2

LEMMA JobWaits ==
  ASSUME NEW job \in Jobs, NEW awaits \in ResultTypes, job.tasks # <<>>
  PROVE  [job EXCEPT !.awaits = awaits] \in Jobs
BY DEF Jobs

\* What becomes of a job when a call returned.
LEMMA ReturnedTyped ==
  ASSUME Types, NEW s \in Servers, jobs[s] # <<>>, Head(jobs[s]).tasks # <<>>, NEW ok \in BOOLEAN,
         Returned(s, ok)
  PROVE  /\ jobs' \in [Servers -> Seq(Jobs)] /\ \A x \in Servers \ {s} : jobs'[x] = jobs[x]
         /\ failed' \in BOOLEAN
<1> DEFINE job == Head(jobs[s])
           next == [job EXCEPT !.tasks = Tail(job.tasks), !.awaits = NoCall, !.ok = ok]
<1>1. job \in Jobs /\ Tail(job.tasks) \in Seq(Tasks)
  BY JobTyped
<1>2. next \in Jobs
  BY <1>1, JobWith
<1>3. \/ Become(s, next) /\ failed' = failed
      \/ failed' = TRUE /\ jobs' = jobs
  BY DEF Returned, Error
<1> HIDE DEF next
<1> QED BY <1>2, <1>3, BecomeTyped DEF Types

\* Whoever waits, or has jobs, has passed the barrier.
LEMMA AtWork ==
  ASSUME Types, Nested, NEW s \in Servers, jobs[s] # <<>> \/ Idle(s) \/ Blocked(s)
  PROVE  phase[s] # "connect"
BY DEF Nested, NestedAt, Idle, Blocked, Awaited, Waiting

\* A job step takes a message about jobs from a channel, sends one, or both, and
\* leaves all else but the jobs of its server alone.
LEMMA JobStepEffect ==
  ASSUME Types, Nested, NEW s \in Servers, JobStep(s)
  PROVE  /\ UNCHANGED <<deployment, round, phase, remote_server, ready, stack,
                        component_count, id, superset, deferred>>
         /\ failed' \in BOOLEAN
         /\ phase[s] # "connect"
         /\ jobs' \in [Servers -> Seq(Jobs)]
         /\ \A x \in Servers \ {s} : jobs'[x] = jobs[x]
         /\ \E channels \in Channels : Took(s, channels) /\ Sent(s, channels)
<1> USE DEF tree
<1> DEFINE JobsKept == jobs' \in [Servers -> Seq(Jobs)] /\ \A x \in Servers \ {s} : jobs'[x] = jobs[x]
           Moved == \E channels \in Channels : Took(s, channels) /\ Sent(s, channels)
<1>1. /\ net \in Channels /\ failed \in BOOLEAN /\ jobs \in [Servers -> Seq(Jobs)]
      /\ remote_server \in [Servers -> Seq(Servers)]
  BY DEF Types
<1>2. Took(s, net)
  BY DEF Took
<1>3. ASSUME NEW r \in Servers, net[r][s] # <<>>, Head(net[r][s]).type \in JobTypes
      PROVE  Received(s, r) \in Channels /\ Took(s, Received(s, r))
  BY <1>3, ReceiveType DEF Took
<1>4. ASSUME net' = net
      PROVE  Moved
  BY <1>1, <1>2, <1>4 DEF Sent
<1>5. ASSUME NEW r \in Servers, net[r][s] # <<>>, Head(net[r][s]).type \in JobTypes,
             net' = Received(s, r)
      PROVE  Moved
  BY <1>3, <1>5 DEF Sent
<1>6. ASSUME NEW r \in Servers, NEW m \in Messages, m.type \in JobTypes,
             net' = [net EXCEPT ![s][r] = Append(@, m)]
      PROVE  Moved
  BY <1>1, <1>2, <1>6 DEF Sent
<1>7. ASSUME NEW r \in Servers, net[r][s] # <<>>, Head(net[r][s]).type \in JobTypes,
             NEW m \in Messages, m.type \in JobTypes,
             net' = [Received(s, r) EXCEPT ![s][r] = Append(@, m)]
      PROVE  Moved
  BY <1>3, <1>7 DEF Sent
<1> HIDE DEF Moved
<1>8. \A t \in UrgentTypes : t \in JobTypes
  BY DEF JobTypes
<1>9. \A type \in UrgentTypes, ok \in BOOLEAN :
        Result(type, ok) \in Messages /\ Result(type, ok).type \in JobTypes
  <2>1. \A ok : \A type \in UrgentTypes : Result(type, ok).type \in ResultTypes
    BY DEF Result, ResultTypes
  <2> QED BY <2>1, MessageTypes DEF JobTypes
<1>10. \A x \in Jobs : <<x>> \in Seq(Jobs)
  OBVIOUS
<1>11. CASE InitComponents(s)
  <2>1. Subset(s, Top) \in Seq(Names)
    BY DeploymentTypes
  <2>2. Job(s, Each("init", Subset(s, Top))) \in Jobs
    BY <2>1, EachTyped DEF Job, Jobs
  <2>3. JobsKept
    BY <1>1, <1>10, <1>11, <2>2 DEF InitComponents
  <2>4. Moved
    BY <1>4, <1>11 DEF InitComponents
  <2> QED BY <1>1, <1>11, <2>3, <2>4 DEF InitComponents, Moved
<1>12. CASE CallHere(s)
  <2> DEFINE job == Head(jobs[s])
             tasks == CallsOf(s, Head(job.tasks)) \o Tail(job.tasks)
  <2>1. /\ jobs[s] # <<>> /\ job.tasks # <<>> /\ job.awaits = NoCall
        /\ RunsHere(s, Head(job.tasks))
        /\ Become(s, [job EXCEPT !.tasks = tasks])
    BY <1>12 DEF CallHere, Calling
  <2>2. /\ job \in Jobs /\ Head(job.tasks) \in Tasks /\ Tail(job.tasks) \in Seq(Tasks)
    BY <2>1, JobTyped
  <2>3. tasks \in Seq(Tasks)
    BY <2>1, <2>2, CallsTyped, ConcatProperties
  <2> HIDE DEF tasks, job
  <2>4. [job EXCEPT !.tasks = tasks] \in Jobs
    <3>1. TRUE \in BOOLEAN
      OBVIOUS
    <3> QED BY <2>1, <2>2, <2>3, <3>1, JobWith
  <2>5. JobsKept
    BY <2>1, <2>4, BecomeTyped
  <2>6. Moved
    BY <1>4, <1>12 DEF CallHere
  <2>7. phase[s] # "connect"
    BY <2>1, AtWork
  <2> QED BY <1>1, <1>12, <2>5, <2>6, <2>7 DEF CallHere, Moved
<1>13. CASE CallServer(s)
  <2> DEFINE job == Head(jobs[s])
             t == Head(job.tasks)
             m == RequestOf(t)
  <2>1. jobs[s] # <<>> /\ job.tasks # <<>> /\ ~RunsHere(s, t)
    BY <1>13 DEF CallServer, Calling
  <2>2. job \in Jobs /\ t \in Tasks
    BY <2>1, JobTyped
  <2>3. m \in Messages /\ m.type \in UrgentTypes
    BY <2>1, <2>2, RequestTyped
  <2>4. ResponseTo[m.type] \in ResultTypes
    BY <2>3, TypeNames
  <2>5. PICK i \in Routes(s, t) : net' = [net EXCEPT ![s][remote_server[s][i]] = Append(@, m)]
    BY <1>13 DEF CallServer
  <2>6. Become(s, [job EXCEPT !.awaits = ResponseTo[m.type]])
    BY <1>13 DEF CallServer
  <2>7. remote_server[s][i] \in Servers
    BY <1>1, <2>5 DEF Routes
  <2> HIDE DEF m, t, job
  <2>8. Moved
    BY <1>6, <1>8, <2>3, <2>5, <2>7
  <2>9. JobsKept
    <3> DEFINE res == ResponseTo[m.type]
    <3>1. res \in ResultTypes /\ job.tasks # <<>>
      BY <2>1, <2>4
    <3> HIDE DEF res
    <3>2. [job EXCEPT !.awaits = res] \in Jobs
      BY <2>2, <3>1, JobWaits
    <3>3. [job EXCEPT !.awaits = ResponseTo[m.type]] \in Jobs
      BY <3>2 DEF res
    <3> QED BY <2>1, <2>6, <3>3, BecomeTyped
  <2>10. phase[s] # "connect"
    BY <2>1, AtWork
  <2> QED BY <1>1, <1>13, <2>8, <2>9, <2>10 DEF CallServer, Moved
<1>14. CASE CallNobody(s)
  <2>1. jobs[s] # <<>> /\ Head(jobs[s]).tasks # <<>> /\ Returned(s, FALSE)
    BY <1>14 DEF CallNobody, Calling
  <2>2. JobsKept /\ failed' \in BOOLEAN
    BY <2>1, ReturnedTyped
  <2>3. Moved
    BY <1>4, <1>14 DEF CallNobody
  <2>4. phase[s] # "connect"
    BY <2>1, AtWork
  <2> QED BY <1>14, <2>2, <2>3, <2>4 DEF CallNobody, Moved
<1>15. CASE Respond(s)
  <2>1. jobs[s] # <<>> /\ jobs' = [jobs EXCEPT ![s] = Tail(@)]
    BY <1>15 DEF Respond
  <2>2. Head(jobs[s]).from \in Servers /\ Head(jobs[s]).ok \in BOOLEAN /\ Tail(jobs[s]) \in Seq(Jobs)
    BY <2>1, JobTyped
  <2>3. JobsKept
    BY <1>1, <2>1, <2>2
  <2>4. /\ Result("SYNCHRONIZE_DATA_REQ", Head(jobs[s]).ok) \in Messages
        /\ Result("SYNCHRONIZE_DATA_REQ", Head(jobs[s]).ok).type \in JobTypes
    BY <1>9, <2>2, TypeNames
  <2>5. net' = [net EXCEPT ![s][Head(jobs[s]).from] =
                    Append(@, Result("SYNCHRONIZE_DATA_REQ", Head(jobs[s]).ok))]
    BY <1>15 DEF Respond
  <2>6. Moved
    BY <1>6, <2>2, <2>4, <2>5
  <2>7. phase[s] # "connect"
    BY <2>1, AtWork
  <2> QED BY <1>1, <1>15, <2>3, <2>6, <2>7 DEF Respond, Moved
<1>16. ASSUME NEW r \in Servers, RecvResult(s, r)
       PROVE  failed' \in BOOLEAN /\ phase[s] # "connect" /\ JobsKept /\ Moved
  <2>1. /\ jobs[s] # <<>> /\ net[r][s] # <<>> /\ net' = Received(s, r)
        /\ Head(net[r][s]).type \in ResultTypes /\ Returned(s, Head(net[r][s]).ok)
    BY <1>16 DEF RecvResult
  <2>2. Head(net[r][s]).ok \in BOOLEAN
    BY <2>1, ReceiveType, MessageFields
  <2>3. JobsKept /\ failed' \in BOOLEAN
    <3>1. Head(jobs[s]).awaits \in ResultTypes
      BY <1>16 DEF RecvResult
    <3>2. Head(jobs[s]).tasks # <<>>
      BY <2>1, <3>1, JobTyped, TypeNames
    <3> QED BY <2>1, <2>2, <3>2, ReturnedTyped
  <2>4. Moved
    BY <1>5, <2>1 DEF JobTypes
  <2>5. phase[s] # "connect"
    BY <2>1, AtWork
  <2> QED BY <2>3, <2>4, <2>5
<1>17. ASSUME NEW r \in Servers, ProcessSync(s, r)
       PROVE  failed' \in BOOLEAN /\ phase[s] # "connect" /\ JobsKept /\ Moved
  <2> DEFINE m == Head(net[r][s])
             t == Task(IF Has(s, m.of) THEN "sync" ELSE "forward", m.of)
  <2>1. /\ net[r][s] # <<>> /\ net' = Received(s, r) /\ m.type = "SYNCHRONIZE_DATA_REQ"
        /\ failed' = failed /\ jobs' = [jobs EXCEPT ![s] = <<Job(r, <<t>>)>> \o @]
    BY <1>17 DEF ProcessSync
  <2>2. m.of \in Nat
    BY <2>1, ReceiveType, MessageFields
  <2>3. t \in Tasks
    BY <2>2 DEF Task, Tasks
  <2> HIDE DEF t
  <2>4. Job(r, <<t>>) \in Jobs
    BY <2>3 DEF Job, Jobs
  <2>5. JobsKept
    BY <1>1, <2>1, <2>4, ConsType
  <2>6. Moved
    BY <1>5, <1>8, <2>1, TypeNames
  <2>7. phase[s] # "connect"
    BY <1>17, AtWork DEF ProcessSync
  <2> QED BY <1>1, <2>1, <2>5, <2>6, <2>7
<1>18. ASSUME NEW r \in Servers, ProcessQuery(s, r)
       PROVE  failed' \in BOOLEAN /\ phase[s] # "connect" /\ JobsKept /\ Moved
  <2> DEFINE m == Head(net[r][s])
             ok == IF m.type = "PULL_DATA_REQ" THEN Has(s, m.of) ELSE Created(s, m.of)
  <2>1. /\ net[r][s] # <<>> /\ m.type \in {"PULL_DATA_REQ", "GET_COMP_ID_REQ"} /\ jobs' = jobs
        /\ \/ net' = [Received(s, r) EXCEPT ![s][r] = Append(@, Result(m.type, ok))] /\ failed' = failed
           \/ net' = Received(s, r) /\ failed' = TRUE
    BY <1>18 DEF ProcessQuery, Error
  <2>2. ok \in BOOLEAN
    BY DEF Has, Created
  <2> HIDE DEF ok
  <2>3. m.type \in UrgentTypes
    BY <2>1, TypeNames
  <2>4. Moved
    BY <1>5, <1>7, <1>8, <1>9, <2>1, <2>2, <2>3
  <2>5. phase[s] # "connect"
    BY <1>18, AtWork DEF ProcessQuery
  <2> QED BY <1>1, <2>1, <2>4, <2>5
<1>19. ASSUME NEW r \in Servers, RecvResult(s, r) \/ ProcessSync(s, r) \/ ProcessQuery(s, r)
       PROVE  UNCHANGED <<deployment, round, phase, remote_server, ready, stack,
                          component_count, id, superset, deferred>>
  BY <1>19 DEF RecvResult, ProcessSync, ProcessQuery
<1> QED
  BY <1>11, <1>12, <1>13, <1>14, <1>15, <1>16, <1>17, <1>18, <1>19 DEF JobStep, Moved

\* So the channels keep their type.
LEMMA JobStepChannels ==
  ASSUME Types, Nested, NEW s \in Servers, JobStep(s)
  PROVE  net' \in Channels
<1>1. PICK channels \in Channels : Sent(s, channels)
  BY JobStepEffect
<1> QED BY <1>1, SendType DEF Sent

-----------------------------------------------------------------------------

\* Every step keeps the types.
LEMMA TypesStep ==
  ASSUME Types, Connected, PastBarrier, Nested, NEW s \in Servers, ServerStep(s)
  PROVE  Types'
<1>0. failed = FALSE /\ ~failed
  BY DEF ServerStep, Types
<1>1. CASE ConnectSend(s)
  <2>1. round[s] \in Servers /\ round[s] \in 0 .. NumRanks
    BY <1>1 DEF ConnectSend, Types
  <2>2. net' \in Channels
    BY <1>1, <2>1, MessageTypes, SendType DEF ConnectSend, Types
  <2>3. round' \in [Servers -> 0 .. NumRanks]
    <3>1. \A n \in 0 .. NumRanks - 1 : n + 1 \in 0 .. NumRanks
      BY RanksAssumption
    <3>2. round[s] + 1 \in 0 .. NumRanks
      BY <2>1, <3>1 DEF Servers
    <3>3. round' = [round EXCEPT ![s] = round[s] + 1]
      BY <1>1 DEF ConnectSend
    <3> QED BY <3>2, <3>3 DEF Types
  <2> QED BY <1>1, <2>2, <2>3 DEF ConnectSend, Types, tree
<1>2. CASE Configure(s)
  <2>1. [Call(Top) EXCEPT !.child = 1] \in Calls
    BY DEF Call, Calls
  <2>2. <<[Call(Top) EXCEPT !.child = 1]>> \in Seq(Calls)
    BY <2>1
  <2>3. stack' \in [Servers -> Seq(Calls)]
    BY <1>2, <2>2 DEF Configure, Types
  <2>4. phase' \in [Servers -> {"connect", "configure", "listen"}]
    BY <1>2 DEF Configure, Types
  <2> QED BY <1>2, <2>3, <2>4 DEF Configure, Types, tree
<1>3. CASE Create(s)
  <2>1. /\ Running(s)
        /\ Head(stack[s]).child = 0
        /\ Continue(s, <<[Head(stack[s]) EXCEPT !.child = 1]>> \o Tail(stack[s]))
    BY <1>3 DEF Create
  <2>2. stack[s] # <<>> /\ Head(stack[s]) = stack[s][1] /\ stack[s][1] \in Calls
    BY <2>1, RunningTop
  <2>3. [stack[s][1] EXCEPT !.child = 1] \in Calls
    BY <2>2 DEF Calls
  <2>4. stack' \in [Servers -> Seq(Calls)]
    BY <2>1, <2>2, <2>3, ContinueStack
  <2>5. CASE IsRemote(s, Head(stack[s]).comp)
    BY <1>3, <2>4, <2>5 DEF Create, Types
  <2>6. CASE ~IsRemote(s, Head(stack[s]).comp)
    <3>1. GetNewCompId(s, stack[s][1].comp)
      BY <1>3, <2>2, <2>6 DEF Create
    <3>2. stack[s][1].comp \in Names
      BY <2>1, <2>2, RunningTop DEF Nested, NestedAt
    <3>3. /\ component_count' \in [Servers -> Nat]
          /\ id' \in [Servers -> [Names -> Nat]]
          /\ failed' \in BOOLEAN
      BY <3>1, <3>2, GetNewCompIdType
    <3> QED BY <1>3, <2>4, <3>3 DEF Create, Types
  <2> QED BY <2>5, <2>6
<1>4. CASE NextSubset(s)
  <2>1. Running(s) /\ stack[s] # <<>> /\ stack[s][1] \in Calls /\ Head(stack[s]) = stack[s][1]
    BY <1>4, RunningTop DEF NextSubset
  <2>2. Subset(s, stack[s][1].comp) \in Seq(Names)
    BY <2>1, DeploymentTypes DEF Calls
  <2>3. Subset(s, stack[s][1].comp)[stack[s][1].child] \in Names
    BY <1>4, <2>1, <2>2 DEF NextSubset
  <2>4. Call(Subset(s, stack[s][1].comp)[stack[s][1].child]) \in Calls
    BY <2>3 DEF Call, Calls
  <2>5. stack' \in [Servers -> Seq(Calls)]
    BY <1>4, <2>1, <2>4, CallStack DEF NextSubset
  <2> QED BY <1>4, <2>5 DEF NextSubset, Types, tree
<1>5. CASE ReturnLocally(s)
  <2>1. Len(stack[s]) > 1 /\ AddSubset(s)
    BY <1>5 DEF ReturnLocally
  <2>2. stack' \in [Servers -> Seq(Calls)]
    BY <2>1, AddSubsetStack
  <2>3. superset' \in [Servers -> [Names -> Names \cup {NoComp}]]
    BY <2>1, AddSubsetSuperset
  <2> QED BY <1>5, <2>2, <2>3 DEF ReturnLocally, Types
<1>6. CASE ConnectRemoteComponent(s)
  <2>1. /\ Running(s)
        /\ Len(stack[s]) > 1
        /\ stack[s][2].comp # Top
        /\ Continue(s, <<[Head(stack[s]) EXCEPT !.waits = TRUE]>> \o Tail(stack[s]))
    BY <1>6 DEF ConnectRemoteComponent
  <2>2. /\ stack[s] # <<>> /\ Head(stack[s]) = stack[s][1] /\ stack[s][1] \in Calls
        /\ stack[s][1].comp \in Names /\ stack[s][2] \in Calls
    BY <2>1, RunningTop
  <2>3. [stack[s][1] EXCEPT !.waits = TRUE] \in Calls
    BY <2>2 DEF Calls
  <2>4. stack' \in [Servers -> Seq(Calls)]
    BY <2>1, <2>2, <2>3, ContinueStack
  <2>5. id[s][stack[s][2].comp] \in Nat
    BY <2>1, <2>2 DEF Types, Calls
  <2>6. ConnectRemoteReq(id[s][stack[s][2].comp], stack[s][1].comp) \in Messages
    BY <2>2, <2>5, MessageTypes
  <2>7. Head(remote_server[s]) \in Servers
    BY <2>2, HasPeer
  <2>8. net' \in Channels
    <3>1. net' = [net EXCEPT ![s][Head(remote_server[s])] =
                    Append(@, ConnectRemoteReq(id[s][stack[s][2].comp], stack[s][1].comp))]
      BY <1>6, <2>2 DEF ConnectRemoteComponent
    <3> QED BY <2>6, <2>7, <3>1, SendType DEF Types
  <2> QED BY <1>6, <2>4, <2>8 DEF ConnectRemoteComponent, Types, tree
<1>7. CASE Listen(s)
  <2>1. net' \in Channels
    BY <1>7, ListenType DEF Listen
  <2>2. stack' \in [Servers -> Seq(Calls)]
    BY <1>7, EmptySeq DEF Listen, Continue, Types
  <2>3. phase' \in [Servers -> {"connect", "configure", "listen"}]
    BY <1>7 DEF Listen, Types
  <2>4. jobs' \in [Servers -> Seq(Jobs)]
    <3>1. <<>> \in Seq(Jobs)
      BY EmptySeq
    <3> QED BY <1>7, <3>1 DEF Listen, Types
  <2> QED BY <1>7, <2>1, <2>2, <2>3, <2>4 DEF Listen, Types, tree
<1>8. CASE Reprocess(s)
  <2>1. /\ deferred[s] # <<>>
        /\ deferred[s] \in Seq([msg : Messages, from : Servers])
        /\ ProcessMessage(s, Head(deferred[s]).from, Head(deferred[s]).msg, net)
        /\ deferred' = [deferred EXCEPT ![s] = Tail(@)]
    BY <1>8 DEF Reprocess, Types
  <2>2. /\ Head(deferred[s]) \in [msg : Messages, from : Servers]
        /\ Tail(deferred[s]) \in Seq([msg : Messages, from : Servers])
    BY <2>1, HeadTailProperties
  <2>3. net' \in Channels /\ id' \in [Servers -> [Names -> Nat]] /\ failed' \in BOOLEAN
    BY <1>0, <2>1, <2>2, ProcessType DEF Types
  <2>4. deferred' \in [Servers -> Seq([msg : Messages, from : Servers])]
    BY <2>1, <2>2 DEF Types
  <2> QED BY <1>8, <2>3, <2>4 DEF Reprocess, Types
<1>9. ASSUME NEW r \in Servers, ConnectRecv(s, r)
      PROVE  Types'
  <2>1. net' \in Channels
    BY <1>9, ReceiveType DEF ConnectRecv
  <2>2. Append(remote_server[s], r) \in Seq(Servers)
    BY AppendProperties DEF Types
  <2>3. /\ remote_server' \in [Servers -> Seq(Servers)]
        /\ failed' \in BOOLEAN
    <3>1. \/ remote_server' = [remote_server EXCEPT ![s] = Append(@, r)] /\ failed' = failed
          \/ remote_server' = remote_server /\ failed' = TRUE
      BY <1>9 DEF ConnectRecv, Error
    <3>2. remote_server \in [Servers -> Seq(Servers)] /\ failed \in BOOLEAN
      BY DEF Types
    <3> QED BY <2>2, <3>1, <3>2
  <2>4. round' \in [Servers -> 0 .. NumRanks]
    <3>1. \A n \in 0 .. NumRanks - 1 : n + 1 \in 0 .. NumRanks
      BY RanksAssumption
    <3>2. round[s] + 1 \in 0 .. NumRanks
      BY <1>9, <3>1 DEF ConnectRecv, Servers
    <3>3. round' = round \/ round' = [round EXCEPT ![s] = round[s] + 1]
                         \/ round' = [round EXCEPT ![s] = round[s]]
      BY <1>9 DEF ConnectRecv
    <3> QED BY <3>2, <3>3 DEF Types
  <2> QED BY <1>9, <2>1, <2>3, <2>4 DEF ConnectRecv, Types, tree
<1>10. ASSUME NEW r \in Servers, RecvResponse(s, r)
       PROVE  Types'
  <2>1. /\ Waiting(s) /\ net[r][s] # <<>>
        /\ Head(net[r][s]).type = "CONNECT_REMOTE_COMP_RES"
        /\ net' = Received(s, r)
        /\ AddSubset(s)
    BY <1>10 DEF RecvResponse
  <2>2. Head(net[r][s]) \in Messages /\ net' \in Channels
    BY <2>1, ReceiveType
  <2>3. Head(net[r][s]).id \in Nat
    BY <2>1, <2>2, MessageFields
  <2>4. Len(stack[s]) > 1 /\ Head(stack[s]) = stack[s][1] /\ stack[s][1].comp \in Names
    BY <2>1, WaitingTop
  <2>5. id' \in [Servers -> [Names -> Nat]]
    <3>1. id' = [id EXCEPT ![s][stack[s][1].comp] = Head(net[r][s]).id]
      BY <1>10, <2>4 DEF RecvResponse
    <3> QED BY <2>3, <2>4, <3>1, ExceptNameType DEF Types
  <2>6. stack' \in [Servers -> Seq(Calls)]
    BY <2>1, <2>4, AddSubsetStack
  <2>7. superset' \in [Servers -> [Names -> Names \cup {NoComp}]]
    BY <2>1, <2>4, AddSubsetSuperset
  <2> QED BY <1>10, <2>2, <2>5, <2>6, <2>7 DEF RecvResponse, Types
<1>11. ASSUME NEW r \in Servers, Reschedule(s, r)
       PROVE  Types'
  <2>1. /\ net[r][s] # <<>>
        /\ net' = Received(s, r)
        /\ deferred' = [deferred EXCEPT ![s] = Append(@, [msg |-> Head(net[r][s]), from |-> r])]
    BY <1>11 DEF Reschedule
  <2>2. Head(net[r][s]) \in Messages /\ net' \in Channels
    BY <2>1, ReceiveType
  <2>3. [msg |-> Head(net[r][s]), from |-> r] \in [msg : Messages, from : Servers]
    BY <2>2
  <2>4. Append(deferred[s], [msg |-> Head(net[r][s]), from |-> r])
          \in Seq([msg : Messages, from : Servers])
    BY <2>3, AppendProperties DEF Types
  <2>5. deferred' \in [Servers -> Seq([msg : Messages, from : Servers])]
    BY <2>1, <2>4 DEF Types
  <2> QED BY <1>11, <2>2, <2>5 DEF Reschedule, Types, tree
<1>12. ASSUME NEW r \in Servers, Process(s, r)
       PROVE  Types'
  <2>1. net[r][s] # <<>> /\ ProcessMessage(s, r, Head(net[r][s]), Received(s, r))
    BY <1>12 DEF Process
  <2>2. Head(net[r][s]) \in Messages /\ Received(s, r) \in Channels
    BY <2>1, ReceiveType
  <2>3. net' \in Channels /\ id' \in [Servers -> [Names -> Nat]] /\ failed' \in BOOLEAN
    BY <1>0, <2>1, <2>2, ProcessType
  <2> QED BY <1>12, <2>3 DEF Process, Types
<1>13. CASE JobStep(s)
  BY <1>13, JobStepEffect, JobStepChannels DEF Types
<1> QED
  BY <1>1, <1>2, <1>3, <1>4, <1>5, <1>6, <1>7, <1>8, <1>9, <1>10, <1>11, <1>12, <1>13
  DEF ServerStep

-----------------------------------------------------------------------------
\* Connecting

\* What is not connecting happens after the barrier.
LEMMA AfterBarrier ==
  ASSUME Types, PastBarrier, Nested, NEW s \in Servers, ServerStep(s)
  PROVE  \/ ConnectSend(s)
         \/ \E r \in Servers : ConnectRecv(s, r)
         \/ /\ \A r \in Servers : round[r] = NumRanks
            /\ UNCHANGED <<deployment, round, remote_server>>
            /\ phase'[s] # "connect"
<1>1. CASE Configure(s)
  BY <1>1 DEF Configure, Types
<1>2. CASE JobStep(s)
  BY <1>2, JobStepEffect DEF PastBarrier
<1>3. CASE Idle(s) \/ Blocked(s) \/ stack[s] # <<>>
  <2>1. phase[s] # "connect"
    BY <1>3, AtWork DEF Nested, NestedAt
  <2>2. \A r \in Servers : round[r] = NumRanks
    BY <2>1 DEF PastBarrier
  <2>3. CASE Listen(s)
    BY <2>2, <2>3 DEF Listen, Types
  <2>4. CASE \/ Create(s) \/ NextSubset(s) \/ ReturnLocally(s) \/ ConnectRemoteComponent(s)
             \/ Reprocess(s)
             \/ \E r \in Servers : RecvResponse(s, r) \/ Reschedule(s, r) \/ Process(s, r)
    <3>1. UNCHANGED <<deployment, round, phase, remote_server>>
      BY <2>4 DEF Create, NextSubset, ReturnLocally, ConnectRemoteComponent, Reprocess,
        RecvResponse, Reschedule, Process
    <3> QED BY <2>1, <2>2, <3>1
  <2> QED BY <1>1, <1>2, <2>3, <2>4 DEF ServerStep
<1>4. \/ Create(s) \/ NextSubset(s) \/ ReturnLocally(s) \/ ConnectRemoteComponent(s) \/ Listen(s)
      \/ \E r \in Servers : RecvResponse(s, r)
      => stack[s] # <<>>
  BY DEF Create, NextSubset, ReturnLocally, Running, Waiting, ConnectRemoteComponent, Listen,
    RecvResponse
<1>5. Reprocess(s) \/ (\E r \in Servers : Reschedule(s, r) \/ Process(s, r)) => Idle(s) \/ Blocked(s)
  BY DEF Reprocess, Reschedule, Process
<1> QED BY <1>1, <1>2, <1>3, <1>4, <1>5 DEF ServerStep

\* Nothing reconfigures a process.
LEMMA SameDeployment ==
  ASSUME NEW s \in Servers, ServerStep(s)
  PROVE  deployment' = deployment
BY DEF ServerStep, ConnectSend, ConnectRecv, Configure, Create, NextSubset,
    ReturnLocally, ConnectRemoteComponent, Listen, Reprocess, RecvResponse, Reschedule, Process,
    JobStep, InitComponents, CallHere, CallServer, CallNobody, Respond, RecvResult, ProcessSync,
    ProcessQuery

\* Whoever connects has not passed the barrier, and neither has anybody.
LEMMA BeforeBarrier ==
  ASSUME Types, PastBarrier, NEW s \in Servers, round[s] \in Servers
  PROVE  \A r \in Servers : phase[r] = "connect"
<1>1. round[s] # NumRanks
  BY RanksAssumption DEF Servers
<1> QED BY <1>1 DEF PastBarrier

\* The first message of a connecting process is its range.
LEMMA FirstMessage ==
  ASSUME Types, Connecting, PastBarrier, ~failed, NEW s \in Servers, NEW r \in Servers,
         ConnectRecv(s, r)
  PROVE  /\ r # s
         /\ round[r] > s
         /\ \A i \in 1 .. Len(remote_server[s]) : remote_server[s][i] # r
         /\ net[r][s] = <<ServerConnect(deployment.published[r])>>
         /\ Head(net[r][s]).range = deployment.published[r]
<1>1. net[r][s] # <<>> /\ round[s] = s
  BY DEF ConnectRecv
<1>2. \A x \in Servers : phase[x] = "connect"
  BY <1>1, BeforeBarrier
<1>3. net[r][s] = IF r # s /\ round[r] > s /\ ~HeardFrom(s, r)
                    THEN <<ServerConnect(deployment.published[r])>>
                    ELSE <<>>
  BY <1>1, <1>2 DEF Connecting
<1>4. /\ r # s
      /\ round[r] > s
      /\ \A i \in 1 .. Len(remote_server[s]) : remote_server[s][i] # r
      /\ net[r][s] = <<ServerConnect(deployment.published[r])>>
  BY <1>1, <1>3 DEF HeardFrom
<1>5. Head(<<ServerConnect(deployment.published[r])>>) = ServerConnect(deployment.published[r])
  OBVIOUS
<1> QED BY <1>4, <1>5 DEF ServerConnect

\* Two ways a connecting server can take its list: it gets longer or it exits.
LEMMA ConnectRecvCases ==
  ASSUME Types, Connecting, PastBarrier, ~failed, NEW s \in Servers, NEW r \in Servers,
         ConnectRecv(s, r)
  PROVE  \/ failed' /\ UNCHANGED <<remote_server, round>>
         \/ /\ IsDisjoint(deployment.published[r], deployment.published[s])
            /\ remote_server' = [remote_server EXCEPT ![s] = Append(@, r)]
            /\ remote_server'[s] = Append(remote_server[s], r)
            /\ round' = [round EXCEPT ![s] = IF Len(Append(remote_server[s], r)) = NumRanks - 1
                                               THEN s + 1 ELSE s]
            /\ failed' = failed
<1>1. Head(net[r][s]).range = deployment.published[r]
  BY FirstMessage
<1>2. round[s] = s
  BY DEF ConnectRecv
<1>3. CASE IsDisjoint(Head(net[r][s]).range, deployment.published[s])
  <2>1. /\ remote_server' = [remote_server EXCEPT ![s] = Append(@, r)]
        /\ round' = [round EXCEPT ![s] = IF Len(remote_server'[s]) = NumRanks - 1 THEN @ + 1 ELSE @]
        /\ failed' = failed
    BY <1>3 DEF ConnectRecv
  <2>2. remote_server'[s] = Append(remote_server[s], r)
    BY <2>1 DEF Types
  <2> QED BY <1>1, <1>2, <1>3, <2>1, <2>2
<1>4. CASE ~IsDisjoint(Head(net[r][s]).range, deployment.published[s])
  BY <1>4 DEF ConnectRecv, Error
<1> QED BY <1>3, <1>4

\* PastBarrier is kept: the barrier is passed once.
LEMMA PastBarrierStep ==
  ASSUME Types, PastBarrier, Nested, NEW s \in Servers, ServerStep(s)
  PROVE  PastBarrier'
<1>1. CASE ConnectSend(s)
  <2>1. \A r \in Servers : phase[r] = "connect"
    BY <1>1, BeforeBarrier DEF ConnectSend
  <2> QED BY <1>1, <2>1 DEF ConnectSend, PastBarrier
<1>2. ASSUME NEW r \in Servers, ConnectRecv(s, r)
      PROVE  PastBarrier'
  <2>1. \A x \in Servers : phase[x] = "connect"
    BY <1>2, BeforeBarrier DEF ConnectRecv
  <2> QED BY <1>2, <2>1 DEF ConnectRecv, PastBarrier
<1>3. CASE /\ \A r \in Servers : round[r] = NumRanks
           /\ UNCHANGED <<deployment, round, remote_server>>
  BY <1>3 DEF PastBarrier
<1> QED BY <1>1, <1>2, <1>3, AfterBarrier

\* Connected is kept: a server leaves its round with all others in its list.
LEMMA ConnectedStep ==
  ASSUME Types, Connected, Connecting, PastBarrier, Nested, NEW s \in Servers, ServerStep(s)
  PROVE  Connected'
<1>0. deployment' = deployment
  BY SameDeployment
<1>1. CASE ConnectSend(s)
  <2>1. /\ remote_server' = remote_server
        /\ round[s] \in Servers /\ round[s] # s
        /\ round' = [round EXCEPT ![s] = round[s] + 1]
    BY <1>1 DEF ConnectSend
  <2>2. \A x \in Servers : round[x] \in Int /\ round'[x] \in Int /\ round'[x] >= round[x]
    <3>1. round \in [Servers -> Int]
      BY DEF Types
    <3>2. \A n \in Int : n + 1 \in Int /\ n + 1 >= n /\ n >= n
      OBVIOUS
    <3>3. round[s] + 1 \in Int /\ round[s] + 1 >= round[s]
      BY <3>1, <3>2
    <3>4. \A x \in Servers : round'[x] = IF x = s THEN round[s] + 1 ELSE round[x]
      BY <2>1, <3>1
    <3> QED BY <3>1, <3>2, <3>3, <3>4
  <2>3. ASSUME NEW x \in Servers, round'[x] > x
        PROVE  round[x] > x
    <3>1. \A n \in Int, m \in Int : n + 1 > m /\ n # m => n > m
      OBVIOUS
    <3>2. CASE x = s
      <4>1. round'[s] = round[s] + 1
        BY <2>1 DEF Types
      <4> QED BY <2>1, <2>2, <2>3, <3>1, <3>2, <4>1 DEF Servers
    <3>3. CASE x # s
      BY <2>1, <2>3, <3>3 DEF Types
    <3> QED BY <3>2, <3>3
  <2>4. ASSUME NEW x \in Servers, NEW y \in Servers, round[y] > x
        PROVE  round'[y] > x
    <3>1. x \in Int
      BY DEF Servers
    <3>2. \A a, b, c \in Int : a > c /\ b >= a => b > c
      OBVIOUS
    <3> QED BY <2>2, <2>4, <3>1, <3>2
  <2>5. \A x \in Servers : \A i \in 1 .. Len(remote_server[x]) : remote_server[x][i] \in Servers
    BY ElementOfSeq DEF Types
  <2>6. ASSUME NEW x \in Servers, NEW i \in 1 .. Len(remote_server[x])
        PROVE  /\ remote_server[x][i] # x
               /\ IsDisjoint(deployment.published[remote_server[x][i]], deployment.published[x])
               /\ round'[remote_server[x][i]] > x
    BY <2>4, <2>5 DEF Connected
  <2>7. ASSUME NEW x \in Servers
        PROVE  /\ \A i, j \in 1 .. Len(remote_server[x]) :
                     remote_server[x][i] = remote_server[x][j] => i = j
               /\ round'[x] > x => Len(remote_server[x]) = NumRanks - 1
    BY <2>3 DEF Connected
  <2> QED BY <1>0, <2>1, <2>6, <2>7 DEF Connected
<1>2. ASSUME NEW r \in Servers, ConnectRecv(s, r)
      PROVE  Connected'
  <2>0. ~failed /\ round[s] = s
    BY <1>2 DEF ServerStep, ConnectRecv
  <2>1. CASE failed' /\ UNCHANGED <<remote_server, round>>
    BY <1>0, <2>1 DEF Connected
  <2>2. CASE /\ IsDisjoint(deployment.published[r], deployment.published[s])
             /\ remote_server' = [remote_server EXCEPT ![s] = Append(@, r)]
             /\ remote_server'[s] = Append(remote_server[s], r)
             /\ round' = [round EXCEPT ![s] = IF Len(Append(remote_server[s], r)) = NumRanks - 1
                                                THEN s + 1 ELSE s]
    <3>1. /\ r # s
          /\ round[r] > s
          /\ \A i \in 1 .. Len(remote_server[s]) : remote_server[s][i] # r
      BY <1>2, <2>0, FirstMessage
    <3>2. \A x \in Servers : round[x] \in Int /\ round'[x] \in Int /\ round'[x] >= round[x]
      <4>1. round \in [Servers -> Int]
        BY DEF Types
      <4>2. \A n \in Int : n + 1 \in Int /\ n + 1 >= n /\ n >= n
        OBVIOUS
      <4>3. round'[s] = s + 1 \/ round'[s] = s
        BY <2>2, <4>1
      <4>4. round'[s] \in Int /\ round'[s] >= round[s]
        BY <2>0, <4>1, <4>2, <4>3
      <4>5. \A x \in Servers \ {s} : round'[x] = round[x]
        BY <2>2, <4>1
      <4> QED BY <4>1, <4>2, <4>4, <4>5
    <3>3. ASSUME NEW x \in Servers, NEW y \in Servers, round[y] > x
          PROVE  round'[y] > x
      <4>1. x \in Int
        BY DEF Servers
      <4>2. \A a, b, c \in Int : a > c /\ b >= a => b > c
        OBVIOUS
      <4> QED BY <3>2, <3>3, <4>1, <4>2
    <3>4. ASSUME NEW x \in Servers, x # s
          PROVE  remote_server'[x] = remote_server[x] /\ round'[x] = round[x]
      BY <2>2, <3>4 DEF Types
    <3>5. remote_server[s] \in Seq(Servers) /\ Len(remote_server[s]) \in Nat
      BY LenProperties DEF Types
    <3>6. /\ Len(remote_server'[s]) = Len(remote_server[s]) + 1
          /\ \A i \in 1 .. Len(remote_server[s]) : remote_server'[s][i] = remote_server[s][i]
          /\ remote_server'[s][Len(remote_server[s]) + 1] = r
      BY <2>2, <3>5, AppendProperties
    <3>7. \A i \in 1 .. Len(remote_server'[s]) :
            i \in 1 .. Len(remote_server[s]) \/ i = Len(remote_server[s]) + 1
      <4>1. \A n \in Nat : \A i \in 1 .. n + 1 : i \in 1 .. n \/ i = n + 1
        OBVIOUS
      <4> QED BY <3>5, <3>6, <4>1, Zenon
    <3>8. \A x \in Servers : \A i \in 1 .. Len(remote_server[x]) : remote_server[x][i] \in Servers
      BY ElementOfSeq DEF Types
    <3>9. ASSUME NEW i \in 1 .. Len(remote_server'[s])
          PROVE  /\ remote_server'[s][i] # s
                 /\ IsDisjoint(deployment.published[remote_server'[s][i]], deployment.published[s])
                 /\ round'[remote_server'[s][i]] > s
      <4>1. CASE i \in 1 .. Len(remote_server[s])
        BY <4>1, <3>3, <3>6, <3>8 DEF Connected
      <4>2. CASE i = Len(remote_server[s]) + 1
        BY <4>2, <2>2, <3>1, <3>3, <3>6
      <4> QED BY <3>7, <4>1, <4>2
    <3>10. ASSUME NEW i \in 1 .. Len(remote_server'[s]), NEW j \in 1 .. Len(remote_server'[s]),
                  remote_server'[s][i] = remote_server'[s][j]
           PROVE  i = j
      <4>1. CASE i \in 1 .. Len(remote_server[s]) /\ j \in 1 .. Len(remote_server[s])
        BY <3>10, <4>1, <3>6 DEF Connected
      <4>2. CASE i = Len(remote_server[s]) + 1 /\ j = Len(remote_server[s]) + 1
        BY <4>2
      <4>3. CASE i \in 1 .. Len(remote_server[s]) /\ j = Len(remote_server[s]) + 1
        BY <3>10, <4>3, <3>1, <3>6
      <4>4. CASE j \in 1 .. Len(remote_server[s]) /\ i = Len(remote_server[s]) + 1
        BY <3>10, <4>4, <3>1, <3>6
      <4> QED BY <3>7, <4>1, <4>2, <4>3, <4>4
    <3>11. round'[s] > s => Len(remote_server'[s]) = NumRanks - 1
      BY <2>2 DEF Types, Servers
    <3>12. \A x \in Servers \ {s} :
             \A i \in 1 .. Len(remote_server[x]) : round'[remote_server[x][i]] > x
      BY <3>3, <3>8 DEF Connected
    <3> QED BY <1>0, <3>4, <3>9, <3>10, <3>11, <3>12 DEF Connected
  <2> QED BY <1>2, <2>0, <2>1, <2>2, ConnectRecvCases
<1>3. CASE UNCHANGED <<deployment, round, remote_server>>
  BY <1>3 DEF Connected
<1> QED BY <1>1, <1>2, <1>3, AfterBarrier

\* Connecting is kept: connect_server sends every process one range.
LEMMA ConnectingStep ==
  ASSUME Types, Connected, Connecting, PastBarrier, Nested, NEW s \in Servers, ServerStep(s)
  PROVE  Connecting'
<1>0. deployment' = deployment /\ ~failed
  BY SameDeployment DEF ServerStep
<1>1. CASE ConnectSend(s)
  <2> DEFINE x == round[s]
             m == ServerConnect(deployment.published[s])
  <2>1. /\ remote_server' = remote_server
        /\ x \in Servers /\ x # s
        /\ round' = [round EXCEPT ![s] = x + 1]
        /\ net' = [net EXCEPT ![s][x] = Append(@, m)]
    BY <1>1 DEF ConnectSend
  <2>2. x # NumRanks /\ \A n \in Int : ~(n > n) /\ n + 1 > n
    BY <2>1, RanksAssumption DEF Servers
  <2>3. \A q, y \in Servers :
          net[q][y] = IF q # y /\ round[q] > y /\ ~HeardFrom(y, q)
                        THEN <<ServerConnect(deployment.published[q])>>
                        ELSE <<>>
    BY <1>0, <2>1, BeforeBarrier DEF Connecting
  <2>4. x \in Int /\ ~(round[s] > x) /\ x + 1 > x
    BY <2>1, <2>2 DEF Servers
  <2>5. round'[s] = x + 1 /\ \A q \in Servers \ {s} : round'[q] = round[q]
    BY <2>1 DEF Types
  <2>6. ~HeardFrom(x, s)
    BY <2>1, <2>4 DEF HeardFrom, Connected
  <2>7. net'[s][x] = <<m>>
    <3>1. net[s][x] = <<>>
      BY <2>1, <2>3, <2>4
    <3>2. net'[s][x] = Append(net[s][x], m)
      BY <2>1 DEF Types, Channels
    <3> QED BY <3>1, <3>2
  <2>8. \A q, y \in Servers : q # s \/ y # x => net'[q][y] = net[q][y]
    BY <2>1 DEF Types, Channels
  <2>9. \A y \in Servers \ {x} : round'[s] > y <=> round[s] > y
    <3>1. \A a, b \in Int : b # a => (a + 1 > b <=> a > b)
      OBVIOUS
    <3> QED BY <2>4, <2>5, <3>1 DEF Servers
  <2>10. ASSUME NEW q \in Servers, NEW y \in Servers
         PROVE  net'[q][y] = IF q # y /\ round'[q] > y /\ ~HeardFrom(y, q)
                               THEN <<ServerConnect(deployment.published[q])>>
                               ELSE <<>>
    <3>1. CASE q = s /\ y = x
      BY <2>1, <2>4, <2>5, <2>6, <2>7, <3>1
    <3>2. CASE q # s
      BY <2>3, <2>5, <2>8, <3>2
    <3>3. CASE q = s /\ y # x
      BY <2>3, <2>8, <2>9, <3>3
    <3> QED BY <3>1, <3>2, <3>3
  <2> QED BY <1>0, <2>1, <2>10 DEF Connecting, HeardFrom
<1>2. ASSUME NEW r \in Servers, ConnectRecv(s, r)
      PROVE  Connecting'
  <2>1. CASE failed'
    BY <2>1 DEF Connecting
  <2>2. CASE /\ remote_server' = [remote_server EXCEPT ![s] = Append(@, r)]
             /\ remote_server'[s] = Append(remote_server[s], r)
             /\ round' = [round EXCEPT ![s] = IF Len(Append(remote_server[s], r)) = NumRanks - 1
                                                THEN s + 1 ELSE s]
    <3>1. r # s /\ round[r] > s /\ net[r][s] = <<ServerConnect(deployment.published[r])>>
      BY <1>0, <1>2, FirstMessage
    <3>2. round[s] = s /\ s \in Int /\ s # NumRanks
      BY <1>2, RanksAssumption DEF ConnectRecv, Servers
    <3>3. \A q, y \in Servers :
            net[q][y] = IF q # y /\ round[q] > y /\ ~HeardFrom(y, q)
                          THEN <<ServerConnect(deployment.published[q])>>
                          ELSE <<>>
      <4>1. \A q \in Servers : phase[q] = "connect"
        BY <3>2, BeforeBarrier
      <4> QED BY <1>0, <4>1 DEF Connecting
    <3>4. net' = [net EXCEPT ![r][s] = Tail(@)]
      BY <1>2 DEF ConnectRecv, Received
    <3>5. net'[r][s] = <<>> /\ \A q, y \in Servers : q # r \/ y # s => net'[q][y] = net[q][y]
      BY <3>1, <3>4 DEF Types, Channels
    <3>6. remote_server[s] \in Seq(Servers) /\ Len(remote_server[s]) \in Nat
      BY LenProperties DEF Types
    <3>7. /\ Len(remote_server'[s]) = Len(remote_server[s]) + 1
          /\ \A i \in 1 .. Len(remote_server[s]) : remote_server'[s][i] = remote_server[s][i]
          /\ remote_server'[s][Len(remote_server[s]) + 1] = r
      BY <2>2, <3>6, AppendProperties
    <3>8. /\ Len(remote_server[s]) + 1 \in 1 .. Len(remote_server[s]) + 1
          /\ \A i \in 1 .. Len(remote_server[s]) + 1 :
               i \in 1 .. Len(remote_server[s]) \/ i = Len(remote_server[s]) + 1
          /\ 1 .. Len(remote_server[s]) \subseteq 1 .. Len(remote_server[s]) + 1
      <4>1. \A n \in Nat : /\ n + 1 \in 1 .. n + 1
                           /\ \A i \in 1 .. n + 1 : i \in 1 .. n \/ i = n + 1
                           /\ 1 .. n \subseteq 1 .. n + 1
        OBVIOUS
      <4> QED BY <3>6, <4>1, Zenon
    <3>9. \A q \in Servers : HeardFrom(s, q)' <=> HeardFrom(s, q) \/ q = r
      BY <3>7, <3>8 DEF HeardFrom
    <3>10. \A y \in Servers \ {s} : \A q \in Servers : HeardFrom(y, q)' <=> HeardFrom(y, q)
      BY <2>2 DEF HeardFrom, Types
    <3>11. \A y \in Servers \ {s} : round'[s] > y <=> round[s] > y
      <4>1. \A a, b \in Int : b # a => (a + 1 > b <=> a > b)
        OBVIOUS
      <4>2. round'[s] = s + 1 \/ round'[s] = s
        BY <2>2 DEF Types
      <4> QED BY <3>2, <4>1, <4>2 DEF Servers
    <3>12. \A q \in Servers \ {s} : round'[q] = round[q]
      BY <2>2 DEF Types
    <3>13. ASSUME NEW q \in Servers, NEW y \in Servers
           PROVE  net'[q][y] = IF q # y /\ round'[q] > y /\ ~HeardFrom(y, q)'
                                 THEN <<ServerConnect(deployment.published[q])>>
                                 ELSE <<>>
      <4>1. CASE q = r /\ y = s
        BY <3>5, <3>9, <4>1
      <4>2. CASE q # r /\ y = s
        BY <3>3, <3>5, <3>9, <3>12, <4>2
      <4>3. CASE y # s /\ q = s
        BY <3>3, <3>5, <3>10, <3>11, <4>3
      <4>4. CASE y # s /\ q # s
        BY <3>3, <3>5, <3>10, <3>12, <4>4
      <4> QED BY <4>1, <4>2, <4>3, <4>4
    <3> QED BY <1>0, <3>13 DEF Connecting
  <2> QED BY <1>0, <1>2, <2>1, <2>2, ConnectRecvCases
<1>3. CASE phase'[s] # "connect"
  BY <1>3 DEF Connecting
<1> QED BY <1>1, <1>2, <1>3, AfterBarrier

-----------------------------------------------------------------------------
\* Creating components

\* What each process keeps is a function of the process.
LEMMA FunctionTypes ==
  ASSUME Types
  PROVE  /\ phase \in [Servers -> {"connect", "configure", "listen"}]
         /\ stack \in [Servers -> Seq(Calls)]
         /\ component_count \in [Servers -> Nat]
         /\ id \in [Servers -> [Names -> Nat]]
         /\ superset \in [Servers -> [Names -> Names \cup {NoComp}]]
         /\ jobs \in [Servers -> Seq(Jobs)]
         /\ deferred \in [Servers -> Seq([msg : Messages, from : Servers])]
BY DEF Types

\* A step of s changes nothing that another process keeps.
LEMMA OwnState ==
  ASSUME Types, Nested, NEW s \in Servers, ServerStep(s), NEW x \in Servers, x # s
  PROVE  /\ stack'[x] = stack[x]
         /\ superset'[x] = superset[x]
         /\ phase'[x] = phase[x]
         /\ id'[x] = id[x]
         /\ component_count'[x] = component_count[x]
         /\ deferred'[x] = deferred[x]
         /\ jobs'[x] = jobs[x]
<1> DEFINE Own == /\ stack'[x] = stack[x] /\ superset'[x] = superset[x]
                  /\ phase'[x] = phase[x] /\ id'[x] = id[x]
                  /\ component_count'[x] = component_count[x]
                  /\ deferred'[x] = deferred[x]
                  /\ jobs'[x] = jobs[x]
         /\ jobs'[x] = jobs[x]
<1>1. ConnectSend(s) \/ Configure(s) => Own
  BY FunctionTypes DEF ConnectSend, Configure, tree
<1>2. Create(s) => Own
  BY FunctionTypes DEF Create, Continue, GetNewCompId
<1>3. NextSubset(s) => Own
  BY FunctionTypes DEF NextSubset, Continue, tree
<1>4. ReturnLocally(s) => Own
  BY FunctionTypes DEF ReturnLocally, Continue, AddSubset
<1>5. ConnectRemoteComponent(s) => Own
  BY FunctionTypes DEF ConnectRemoteComponent, Continue, tree
<1>6. Listen(s) => Own
  BY FunctionTypes DEF Listen, Continue, tree
<1>7. Reprocess(s) => Own
  BY FunctionTypes DEF Reprocess, ProcessMessage, ConnectRemote
<1>8. ASSUME NEW r \in Servers PROVE ConnectRecv(s, r) => Own
  BY DEF ConnectRecv, tree
<1>9. ASSUME NEW r \in Servers PROVE RecvResponse(s, r) => Own
  BY FunctionTypes DEF RecvResponse, Continue, AddSubset
<1>10. ASSUME NEW r \in Servers PROVE Reschedule(s, r) => Own
  BY FunctionTypes DEF Reschedule, tree
<1>11. ASSUME NEW r \in Servers PROVE Process(s, r) => Own
  BY FunctionTypes DEF Process, ProcessMessage, ConnectRemote
<1>12. JobStep(s) => Own
  BY JobStepEffect
<1> HIDE DEF Own
<1>13. Own
  BY <1>1, <1>2, <1>3, <1>4, <1>5, <1>6, <1>7, <1>8, <1>9, <1>10, <1>11, <1>12 DEF ServerStep
<1> QED BY <1>13 DEF Own

\* Nested is kept when the innermost call goes on ...
LEMMA NestedContinue ==
  ASSUME Types, Types', Nested, NEW s \in Servers, stack[s] # <<>>, NEW c \in Calls,
         Continue(s, <<c>> \o Tail(stack[s])),
         UNCHANGED <<deployment, phase, superset>>,
         c.comp = stack[s][1].comp,
         c.child = 0 => stack[s][1].child = 0,
         c.waits => c.comp \in deployment.remote[s]
  PROVE  NestedAt(s)'
<1>1. /\ Len(stack'[s]) = Len(stack[s])
      /\ stack'[s][1] = c
      /\ \A i \in 2 .. Len(stack[s]) : stack'[s][i] = stack[s][i]
  BY ContinueStack
<1>2. stack[s] \in Seq(Calls) /\ Len(stack[s]) \in Nat /\ Len(stack[s]) > 0
  BY EmptySeq, LenProperties DEF Types
<1>3. ASSUME NEW i \in 1 .. Len(stack[s])
      PROVE  /\ i = 1 \/ i \in 2 .. Len(stack[s])
             /\ i < Len(stack[s]) => i + 1 \in 2 .. Len(stack[s])
  <2>1. \A n \in Nat : \A j \in 1 .. n : /\ j = 1 \/ j \in 2 .. n
                                         /\ j < n => j + 1 \in 2 .. n
    OBVIOUS
  <2> QED BY <1>2, <2>1
<1>4. ASSUME NEW i \in 1 .. Len(stack[s])
      PROVE  /\ stack'[s][i].comp = stack[s][i].comp
             /\ i < Len(stack[s]) => stack'[s][i + 1] = stack[s][i + 1]
             /\ stack'[s][i].child = 0 => stack[s][i].child = 0
             /\ stack'[s][i].waits => stack[s][i].comp \in deployment.remote[s]
  <2>1. CASE i = 1
    BY <1>1, <1>3, <2>1
  <2>2. CASE i \in 2 .. Len(stack[s])
    BY <1>1, <1>3, <2>2 DEF Nested, NestedAt
  <2> QED BY <1>3, <2>1, <2>2
<1>5. stack[s] # <<>> => phase[s] # "connect"
  BY DEF Nested, NestedAt
<1>6. ASSUME NEW i \in 1 .. Len(stack[s])
      PROVE  /\ stack'[s][i].comp = Top <=> i = Len(stack[s])
             /\ i < Len(stack[s]) => stack'[s][i].comp \in Below(deployment, s, stack'[s][i + 1].comp)
             /\ stack'[s][i].child = 0 => i < Len(stack[s])
             /\ stack'[s][i].waits => stack'[s][i].comp \in deployment.remote[s]
  BY <1>4 DEF Nested, NestedAt
<1>7. \A n \in Names : superset[s][n] # NoComp =>
        superset[s][n] \in Names /\ n \in Below(deployment, s, superset[s][n])
  BY DEF Nested, NestedAt
<1> QED BY <1>1, <1>5, <1>6, <1>7 DEF NestedAt

\* ... when it calls itself for a subset ...
LEMMA NestedCall ==
  ASSUME Types, Types', Nested, NEW s \in Servers, stack[s] # <<>>,
         NEW n \in Below(deployment, s, stack[s][1].comp), n \in Names,
         Continue(s, <<Call(n)>> \o stack[s]),
         UNCHANGED <<deployment, phase, superset>>
  PROVE  NestedAt(s)'
<1>1. Call(n) \in Calls /\ Call(n).comp = n /\ ~Call(n).waits /\ n # Top
  BY NamesAssumption DEF Call, Calls
<1>2. /\ Len(stack'[s]) = Len(stack[s]) + 1
      /\ stack'[s][1] = Call(n)
      /\ \A i \in 2 .. Len(stack[s]) + 1 : stack'[s][i] = stack[s][i - 1]
  BY <1>1, CallStack
<1>3. stack[s] \in Seq(Calls) /\ Len(stack[s]) \in Nat /\ Len(stack[s]) > 0
  BY EmptySeq, LenProperties DEF Types
<1> DEFINE len == Len(stack[s])
<1>4. \A i \in 1 .. len + 1 : i = 1 \/ (i \in 2 .. len + 1 /\ i - 1 \in 1 .. len)
  BY <1>3
<1>5. ASSUME NEW i \in 1 .. len + 1
      PROVE  /\ stack'[s][i].comp = Top <=> i = len + 1
             /\ i < len + 1 => stack'[s][i].comp \in Below(deployment, s, stack'[s][i + 1].comp)
             /\ stack'[s][i].child = 0 => i < len + 1
             /\ stack'[s][i].waits => stack'[s][i].comp \in deployment.remote[s]
  <2>1. CASE i = 1
    <3>1. stack'[s][2] = stack[s][1] /\ 1 < len + 1 /\ 1 # len + 1
      BY <1>2, <1>3
    <3> QED BY <1>1, <1>2, <2>1, <3>1
  <2>2. CASE i \in 2 .. len + 1 /\ i - 1 \in 1 .. len
    <3>1. /\ i = len + 1 <=> i - 1 = len
          /\ i < len + 1 <=> i - 1 < len
          /\ i < len + 1 => i + 1 \in 2 .. len + 1 /\ (i + 1) - 1 = (i - 1) + 1
      BY <1>3, <2>2
    <3>2. stack'[s][i] = stack[s][i - 1]
      BY <1>2, <2>2
    <3>3. i < len + 1 => stack'[s][i + 1] = stack[s][(i - 1) + 1]
      BY <1>2, <3>1
    <3>4. /\ stack[s][i - 1].comp = Top <=> i - 1 = len
          /\ i - 1 < len => stack[s][i - 1].comp \in Below(deployment, s, stack[s][(i - 1) + 1].comp)
          /\ stack[s][i - 1].child = 0 => i - 1 < len
          /\ stack[s][i - 1].waits => stack[s][i - 1].comp \in deployment.remote[s]
      BY <2>2 DEF Nested, NestedAt
    <3> QED BY <3>1, <3>2, <3>3, <3>4, Zenon
  <2> QED BY <1>4, <2>1, <2>2
<1>6. stack[s] # <<>> => phase[s] # "connect"
  BY DEF Nested, NestedAt
<1>7. \A m \in Names : superset[s][m] # NoComp =>
        superset[s][m] \in Names /\ m \in Below(deployment, s, superset[s][m])
  BY DEF Nested, NestedAt
<1> QED BY <1>2, <1>5, <1>6, <1>7 DEF NestedAt

\* What an update of one superset leaves of another
LEMMA SupersetAt ==
  ASSUME NEW S \in [Servers -> [Names -> Names \cup {NoComp}]], NEW s \in Servers, NEW m \in Names,
         NEW n, NEW p, NEW T, T = [S EXCEPT ![s][n] = p]
  PROVE  T[s][m] = IF m = n THEN p ELSE S[s][m]
<1> DEFINE f == S[s]
<1>1. f \in [Names -> Names \cup {NoComp}] /\ T[s] = [f EXCEPT ![n] = p]
  OBVIOUS
<1> HIDE DEF f
<1>2. T[s][m] = IF m = n THEN p ELSE f[m]
  BY <1>1
<1> QED BY <1>2 DEF f

\* ... and when it returns and is noted below its caller.
LEMMA NestedReturn ==
  ASSUME Types, Types', PastBarrier, Nested, NEW s \in Servers, Len(stack[s]) > 1, AddSubset(s),
         UNCHANGED <<deployment, phase>>
  PROVE  NestedAt(s)'
<1> DEFINE len == Len(stack[s])
<1>1. stack[s] \in Seq(Calls) /\ len \in Nat /\ stack[s] # <<>>
  BY EmptySeq, LenProperties DEF Types
<1>2. /\ Len(stack'[s]) = len - 1
      /\ stack'[s][1] = [stack[s][2] EXCEPT !.child = @ + 1]
      /\ \A i \in 2 .. len - 1 : stack'[s][i] = stack[s][i + 1]
  BY AddSubsetStack
<1>3. stack[s][2] \in Calls
  BY <1>1, ElementOfSeq
<1>4. /\ stack'[s][1].comp = stack[s][2].comp
      /\ stack'[s][1].waits = stack[s][2].waits
      /\ stack'[s][1].child # 0
  <2>1. \A c \in Nat : c + 1 # 0
    OBVIOUS
  <2> QED BY <1>2, <1>3, <2>1 DEF Calls
<1>5. ASSUME NEW i \in 1 .. len - 1
      PROVE  /\ stack'[s][i].comp = stack[s][i + 1].comp
             /\ stack'[s][i].waits = stack[s][i + 1].waits
             /\ stack'[s][i].child = 0 => stack[s][i + 1].child = 0
  <2>1. i = 1 \/ i \in 2 .. len - 1
    BY <1>1
  <2>2. CASE i = 1
    <3>1. i + 1 = 2
      BY <2>2
    <3> QED BY <1>4, <2>2, <3>1, Zenon
  <2>3. CASE i \in 2 .. len - 1
    BY <1>2, <2>3, Zenon
  <2> QED BY <2>1, <2>2, <2>3
<1>6. ASSUME NEW i \in 1 .. len - 1
      PROVE  /\ stack'[s][i].comp = Top <=> i = len - 1
             /\ i < len - 1 => stack'[s][i].comp \in Below(deployment, s, stack'[s][i + 1].comp)
             /\ stack'[s][i].child = 0 => i < len - 1
             /\ stack'[s][i].waits => stack'[s][i].comp \in deployment.remote[s]
  <2>1. /\ i + 1 \in 1 .. len
        /\ i + 1 = len <=> i = len - 1
        /\ i + 1 < len <=> i < len - 1
        /\ i < len - 1 => i + 1 \in 1 .. len - 1
    BY <1>1
  <2>2. /\ stack[s][i + 1].comp = Top <=> i + 1 = len
        /\ i + 1 < len => stack[s][i + 1].comp \in Below(deployment, s, stack[s][(i + 1) + 1].comp)
        /\ stack[s][i + 1].child = 0 => i + 1 < len
        /\ stack[s][i + 1].waits => stack[s][i + 1].comp \in deployment.remote[s]
    BY <2>1 DEF Nested, NestedAt
  <2>3. i < len - 1 => stack'[s][i + 1].comp = stack[s][(i + 1) + 1].comp
    BY <1>5, <2>1
  <2> QED BY <1>5, <2>1, <2>2, <2>3, Zenon
<1>7. stack[s] # <<>> => phase[s] # "connect"
  BY DEF Nested, NestedAt
<1>8. ASSUME NEW m \in Names, superset'[s][m] # NoComp
      PROVE  superset'[s][m] \in Names /\ m \in Below(deployment, s, superset'[s][m])
  <2>1. stack[s][1].comp \in Below(deployment, s, stack[s][2].comp)
    <3>1. 1 \in 1 .. len /\ 1 < len
      BY <1>1
    <3>2. 1 + 1 = 2
      OBVIOUS
    <3> QED BY <3>1, <3>2 DEF Nested, NestedAt
  <2>2. \/ superset' = superset
        \/ /\ stack[s][2].comp \in Names
           /\ superset' = [superset EXCEPT ![s][stack[s][1].comp] = stack[s][2].comp]
    BY AddSubsetSuperset
  <2>3. superset[s][m] # NoComp =>
          superset[s][m] \in Names /\ m \in Below(deployment, s, superset[s][m])
    BY DEF Nested, NestedAt
  <2>4. \/ superset'[s][m] = superset[s][m]
        \/ /\ m = stack[s][1].comp
           /\ stack[s][2].comp \in Names
           /\ superset'[s][m] = stack[s][2].comp
    <3>1. superset \in [Servers -> [Names -> Names \cup {NoComp}]]
      BY DEF Types
    <3> DEFINE n == stack[s][1].comp
               p == stack[s][2].comp
    <3>2. \/ superset' = superset
          \/ p \in Names /\ superset'[s][m] = IF m = n THEN p ELSE superset[s][m]
      BY <2>2, <3>1, SupersetAt
    <3> HIDE DEF n, p
    <3>3. superset'[s][m] = superset[s][m] \/ (m = n /\ p \in Names /\ superset'[s][m] = p)
      BY <3>2
    <3> QED BY <3>3 DEF n, p
  <2> QED BY <1>8, <2>1, <2>3, <2>4
<1> QED BY <1>1, <1>2, <1>6, <1>7, <1>8 DEF NestedAt

\* Nested is kept: create_pseudo_component recurses along the configuration.
LEMMA NestedStep ==
  ASSUME Types, Types', Connected, PastBarrier, Nested, NEW s \in Servers, ServerStep(s)
  PROVE  Nested'
<1>0. deployment' = deployment
  BY SameDeployment
<1>1. ASSUME NEW x \in Servers, x # s
      PROVE  NestedAt(x)'
  <2>1. /\ stack'[x] = stack[x] /\ superset'[x] = superset[x] /\ phase'[x] = phase[x]
        /\ jobs'[x] = jobs[x]
    BY <1>1, OwnState
  <2> QED BY <1>0, <2>1 DEF Nested, NestedAt
<1>2. ASSUME UNCHANGED <<stack, superset, phase>>, jobs' = jobs \/ phase[s] # "connect"
      PROVE  NestedAt(s)'
  BY <1>0, <1>2 DEF Nested, NestedAt
<1>3. ASSUME Configure(s)
      PROVE  NestedAt(s)'
  <2>1. stack'[s] = <<[Call(Top) EXCEPT !.child = 1]>> /\ phase'[s] = "configure" /\ superset' = superset
    BY <1>3 DEF Configure, Types, tree
  <2> DEFINE c == [Call(Top) EXCEPT !.child = 1]
  <2>2. /\ Len(stack'[s]) = 1 /\ stack'[s][1] = c
        /\ c.comp = Top /\ c.child = 1 /\ ~c.waits
    <3>1. c.comp = Top /\ c.child = 1 /\ ~c.waits
      BY DEF Call
    <3>2. \A e : Len(<<e>>) = 1 /\ <<e>>[1] = e
      OBVIOUS
    <3> QED BY <2>1, <3>1, <3>2, Zenon
  <2> HIDE DEF c
  <2>3. ASSUME NEW i \in 1 .. Len(stack'[s])
        PROVE  /\ stack'[s][i].comp = Top <=> i = Len(stack'[s])
               /\ ~(i < Len(stack'[s])) /\ stack'[s][i].child # 0 /\ ~stack'[s][i].waits
    <3>1. i = 1 /\ ~(i < 1)
      BY <2>2
    <3> QED BY <2>2, <3>1
  <2>4. \A m \in Names : superset[s][m] # NoComp =>
          superset[s][m] \in Names /\ m \in Below(deployment, s, superset[s][m])
    BY DEF Nested, NestedAt
  <2> QED BY <1>0, <2>1, <2>2, <2>3, <2>4 DEF NestedAt
<1>4. ASSUME Create(s)
      PROVE  NestedAt(s)'
  <2>1. /\ Running(s)
        /\ Continue(s, <<[Head(stack[s]) EXCEPT !.child = 1]>> \o Tail(stack[s]))
        /\ UNCHANGED <<deployment, phase, superset>>
    BY <1>4 DEF Create
  <2>2. /\ stack[s] # <<>> /\ Head(stack[s]) = stack[s][1] /\ stack[s][1] \in Calls
        /\ ~stack[s][1].waits
    BY <2>1, RunningTop
  <2> DEFINE c == [stack[s][1] EXCEPT !.child = 1]
  <2>3. c \in Calls /\ c.comp = stack[s][1].comp /\ c.child # 0 /\ ~c.waits
    BY <2>2 DEF Calls
  <2>4. Continue(s, <<c>> \o Tail(stack[s]))
    BY <2>1, <2>2
  <2> HIDE DEF c
  <2> QED BY <2>1, <2>2, <2>3, <2>4, NestedContinue
<1>5. ASSUME NextSubset(s)
      PROVE  NestedAt(s)'
  <2>1. Running(s) /\ UNCHANGED <<deployment, phase, superset>>
    BY <1>5 DEF NextSubset, tree
  <2>2. stack[s] # <<>> /\ Head(stack[s]) = stack[s][1] /\ stack[s][1] \in Calls
    BY <2>1, RunningTop
  <2> DEFINE n == Subset(s, stack[s][1].comp)[stack[s][1].child]
  <2>3. /\ stack[s][1].child \in DOMAIN Subset(s, stack[s][1].comp)
        /\ Continue(s, <<Call(n)>> \o stack[s])
    BY <1>5, <2>2 DEF NextSubset
  <2>4. n \in Below(deployment, s, stack[s][1].comp)
    BY <2>3 DEF Below, Subset
  <2>5. n \in Names
    BY <2>2, <2>4, DeploymentTypes DEF Calls
  <2> HIDE DEF n
  <2> QED BY <2>1, <2>2, <2>3, <2>4, <2>5, NestedCall
<1>6. ASSUME ConnectRemoteComponent(s)
      PROVE  NestedAt(s)'
  <2>1. /\ Running(s)
        /\ Continue(s, <<[Head(stack[s]) EXCEPT !.waits = TRUE]>> \o Tail(stack[s]))
        /\ IsRemote(s, Head(stack[s]).comp)
        /\ UNCHANGED <<deployment, phase, superset>>
    BY <1>6 DEF ConnectRemoteComponent, tree
  <2>2. stack[s] # <<>> /\ Head(stack[s]) = stack[s][1] /\ stack[s][1] \in Calls
    BY <2>1, RunningTop
  <2> DEFINE c == [stack[s][1] EXCEPT !.waits = TRUE]
  <2>3. c \in Calls /\ c.comp = stack[s][1].comp /\ c.child = stack[s][1].child
    BY <2>2 DEF Calls
  <2>4. Continue(s, <<c>> \o Tail(stack[s])) /\ stack[s][1].comp \in deployment.remote[s]
    BY <2>1, <2>2 DEF IsRemote
  <2> HIDE DEF c
  <2> QED BY <2>1, <2>2, <2>3, <2>4, NestedContinue
<1>7. ASSUME Len(stack[s]) > 1, AddSubset(s), UNCHANGED phase
      PROVE  NestedAt(s)'
  BY <1>0, <1>7, NestedReturn
<1>8. ASSUME Listen(s)
      PROVE  NestedAt(s)'
  <2>1. stack'[s] = <<>> /\ Len(<<>>) = 0 /\ superset' = superset /\ phase'[s] = "listen"
    BY <1>8 DEF Listen, Continue, Types, tree
  <2>2. \A i \in 1 .. 0 : FALSE
    OBVIOUS
  <2>3. \A m \in Names : superset[s][m] # NoComp =>
          superset[s][m] \in Names /\ m \in Below(deployment, s, superset[s][m])
    BY DEF Nested, NestedAt
  <2> QED BY <1>0, <2>1, <2>2, <2>3 DEF NestedAt
<1>9. NestedAt(s)'
  <2>1. ASSUME ReturnLocally(s)
        PROVE  NestedAt(s)'
    BY <1>7, <2>1 DEF ReturnLocally
  <2>2. ASSUME NEW r \in Servers, RecvResponse(s, r)
        PROVE  NestedAt(s)'
    <3>1. Waiting(s) /\ AddSubset(s) /\ UNCHANGED phase
      BY <2>2 DEF RecvResponse
    <3>2. Len(stack[s]) > 1
      BY <3>1, WaitingTop
    <3> QED BY <1>7, <3>1, <3>2
  <2>3. ASSUME ConnectSend(s) \/ Reprocess(s)
        PROVE  NestedAt(s)'
    BY <1>2, <2>3 DEF ConnectSend, Reprocess, tree
  <2>4. ASSUME NEW r \in Servers, ConnectRecv(s, r) \/ Reschedule(s, r) \/ Process(s, r)
        PROVE  NestedAt(s)'
    BY <1>2, <2>4 DEF ConnectRecv, Reschedule, Process, tree
  <2>5. ASSUME JobStep(s)
        PROVE  NestedAt(s)'
    BY <1>2, <2>5, JobStepEffect
  <2> QED BY <1>3, <1>4, <1>5, <1>6, <1>8, <2>1, <2>2, <2>3, <2>4, <2>5 DEF ServerStep
<1> QED BY <1>1, <1>9 DEF Nested

-----------------------------------------------------------------------------
\* Asking

\* A channel gets another message, which asks for nothing else.
LEMMA AskedAppend ==
  ASSUME NEW r \in Servers, NEW q \in Seq(Messages), NEW m \in Messages, AskedIn(r, q),
         m.type = "CONNECT_REMOTE_COMP_REQ" => m.name \in RemoteSubsets(r)
  PROVE  AskedIn(r, Append(q, m))
<1>1. /\ Len(Append(q, m)) = Len(q) + 1
      /\ \A i \in 1 .. Len(q) : Append(q, m)[i] = q[i]
      /\ Append(q, m)[Len(q) + 1] = m
  BY AppendProperties
<1>2. \A i \in 1 .. Len(q) + 1 : i \in 1 .. Len(q) \/ i = Len(q) + 1
  <2>1. \A n \in Nat : \A i \in 1 .. n + 1 : i \in 1 .. n \/ i = n + 1
    OBVIOUS
  <2> QED BY <2>1, LenProperties
<1> QED BY <1>1, <1>2 DEF AskedIn

\* The message received and those that stay ask for nothing else.
LEMMA AskedReceive ==
  ASSUME Types, Asked, NEW s \in Servers, NEW r \in Servers, net[r][s] # <<>>
  PROVE  /\ AskedIn(r, Tail(net[r][s]))
         /\ Head(net[r][s]).type = "CONNECT_REMOTE_COMP_REQ" =>
              Head(net[r][s]).name \in RemoteSubsets(r)
         /\ \A x, y \in Servers : AskedIn(x, Received(s, r)[x][y])
<1>1. net[r][s] \in Seq(Messages) /\ Len(net[r][s]) \in Nat /\ Len(net[r][s]) > 0
  BY EmptySeq, LenProperties DEF Types, Channels
<1>2. /\ Tail(net[r][s]) \in Seq(Messages)
      /\ Len(Tail(net[r][s])) = Len(net[r][s]) - 1
      /\ \A i \in 1 .. Len(Tail(net[r][s])) : Tail(net[r][s])[i] = net[r][s][i + 1]
      /\ Head(net[r][s]) = net[r][s][1]
  BY <1>1, HeadTailProperties
<1>3. AskedIn(r, net[r][s])
  BY DEF Asked
<1>4. /\ 1 \in 1 .. Len(net[r][s])
      /\ \A i \in 1 .. Len(Tail(net[r][s])) : i + 1 \in 1 .. Len(net[r][s])
  BY <1>1, <1>2
<1>5. AskedIn(r, Tail(net[r][s]))
  BY <1>2, <1>3, <1>4 DEF AskedIn
<1>6. Head(net[r][s]).type = "CONNECT_REMOTE_COMP_REQ" => Head(net[r][s]).name \in RemoteSubsets(r)
  BY <1>2, <1>3, <1>4 DEF AskedIn
<1>7. ASSUME NEW x \in Servers, NEW y \in Servers
      PROVE  AskedIn(x, Received(s, r)[x][y])
  <2>1. Received(s, r)[x][y] = IF x = r /\ y = s THEN Tail(net[r][s]) ELSE net[x][y]
    BY DEF Received, Types, Channels
  <2> QED BY <1>5, <2>1 DEF Asked
<1> QED BY <1>5, <1>6, <1>7

\* So does the message that reschedule puts aside ...
LEMMA PutAsideAppend ==
  ASSUME NEW q \in Seq([msg : Messages, from : Servers]), AskedAside(q),
         NEW m \in Messages, NEW r \in Servers,
         m.type = "CONNECT_REMOTE_COMP_REQ" => m.name \in RemoteSubsets(r)
  PROVE  AskedAside(Append(q, [msg |-> m, from |-> r]))
<1> DEFINE e == [msg |-> m, from |-> r]
<1>1. e \in [msg : Messages, from : Servers] /\ e.msg = m /\ e.from = r
  OBVIOUS
<1> HIDE DEF e
<1>2. /\ Len(Append(q, e)) = Len(q) + 1
      /\ \A i \in 1 .. Len(q) : Append(q, e)[i] = q[i]
      /\ Append(q, e)[Len(q) + 1] = e
  BY <1>1, AppendProperties
<1>3. \A i \in 1 .. Len(q) + 1 : i \in 1 .. Len(q) \/ i = Len(q) + 1
  <2>1. \A n \in Nat : \A i \in 1 .. n + 1 : i \in 1 .. n \/ i = n + 1
    OBVIOUS
  <2> QED BY <2>1, LenProperties
<1>4. AskedAside(Append(q, e))
  BY <1>1, <1>2, <1>3 DEF AskedAside
<1> QED BY <1>4 DEF e

\* ... and the one that reprocess takes back.
LEMMA PutAsideTail ==
  ASSUME NEW q \in Seq([msg : Messages, from : Servers]), AskedAside(q), q # <<>>
  PROVE  /\ AskedAside(Tail(q))
         /\ Head(q).msg.type = "CONNECT_REMOTE_COMP_REQ" =>
              Head(q).msg.name \in RemoteSubsets(Head(q).from)
<1>1. Len(q) \in Nat /\ Len(q) > 0
  BY EmptySeq, LenProperties
<1>2. /\ Len(Tail(q)) = Len(q) - 1
      /\ \A i \in 1 .. Len(Tail(q)) : Tail(q)[i] = q[i + 1]
      /\ Head(q) = q[1]
  BY HeadTailProperties
<1>3. 1 \in 1 .. Len(q) /\ \A i \in 1 .. Len(Tail(q)) : i + 1 \in 1 .. Len(q)
  BY <1>1, <1>2
<1> QED BY <1>2, <1>3 DEF AskedAside

\* A component that is below a local one is asked for by its process only.
LEMMA AskedFor ==
  ASSUME Types, PastBarrier, Nested, NEW s \in Servers, ConnectRemoteComponent(s)
  PROVE  Head(stack[s]).comp \in RemoteSubsets(s)
<1>1. /\ Running(s) /\ Len(stack[s]) > 1
      /\ stack[s][2].comp # Top /\ ~IsRemote(s, stack[s][2].comp) /\ IsRemote(s, Head(stack[s]).comp)
  BY DEF ConnectRemoteComponent
<1>2. /\ stack[s][2] \in Calls /\ Len(stack[s]) \in Nat /\ Head(stack[s]) = stack[s][1]
  BY <1>1, RunningTop
<1>3. 1 \in 1 .. Len(stack[s]) /\ 2 \in 1 .. Len(stack[s]) /\ 1 < Len(stack[s]) /\ 1 + 1 = 2
  BY <1>1, <1>2
<1>4. stack[s][1].comp \in Below(deployment, s, stack[s][2].comp)
  BY <1>3 DEF Nested, NestedAt
<1>5. 2 < Len(stack[s])
  <2>1. 2 # Len(stack[s])
    BY <1>1, <1>3, Zenon DEF Nested, NestedAt
  <2>2. \A n \in Nat : n > 1 /\ 2 # n => 2 < n
    OBVIOUS
  <2> QED BY <1>1, <1>2, <2>1, <2>2, Zenon
<1>6. stack[s][2].comp \in Names
  BY <1>1, <1>2 DEF Calls
<1>7. stack[s][3].comp \in Names \cup {Top}
  <2>1. stack[s] \in Seq(Calls) /\ 3 \in 1 .. Len(stack[s])
    BY <1>2, <1>5 DEF Types
  <2>2. stack[s][3] \in Calls
    BY <2>1, ElementOfSeq
  <2> QED BY <2>2 DEF Calls
<1>8. stack[s][2].comp \in Below(deployment, s, stack[s][3].comp)
  <2>1. 2 + 1 = 3
    OBVIOUS
  <2> QED BY <1>3, <1>5, <2>1 DEF Nested, NestedAt
<1>9. IsLocal(s, stack[s][2].comp)
  BY <1>1, <1>7, <1>8 DEF IsLocal, Listed
<1> QED BY <1>1, <1>2, <1>4, <1>6, <1>9 DEF RemoteSubsets, IsRemote

\* What a server is told to send is nothing it has to answer for.
LEMMA AskedSend ==
  ASSUME NEW channels \in Channels, NEW s \in Servers, NEW r \in Servers, NEW m \in Messages,
         \A x, y \in Servers : AskedIn(x, channels[x][y]),
         m.type = "CONNECT_REMOTE_COMP_REQ" => m.name \in RemoteSubsets(s)
  PROVE  \A x, y \in Servers : AskedIn(x, [channels EXCEPT ![s][r] = Append(@, m)][x][y])
<1>1. channels[s][r] \in Seq(Messages)
  BY DEF Channels
<1>2. AskedIn(s, Append(channels[s][r], m))
  BY <1>1, AskedAppend
<1>3. \A x, y \in Servers : [channels EXCEPT ![s][r] = Append(@, m)][x][y] =
        IF x = s /\ y = r THEN Append(channels[s][r], m) ELSE channels[x][y]
  BY DEF Channels
<1> QED BY <1>2, <1>3

\* server_t::process only answers.
LEMMA AskedProcess ==
  ASSUME Types, ~failed, NEW s \in Servers, NEW r \in Servers, NEW m \in Messages,
         NEW channels \in Channels, ProcessMessage(s, r, m, channels),
         \A x, y \in Servers : AskedIn(x, channels[x][y])
  PROVE  \A x, y \in Servers : AskedIn(x, net'[x][y])
<1>1. CASE net' = channels
  BY <1>1
<1>2. ASSUME m.name \in Names,
             net' = [channels EXCEPT ![s][r] = Append(@, ConnectRemoteRes(id[s][m.name]))]
      PROVE  \A x, y \in Servers : AskedIn(x, net'[x][y])
  <2>1. id[s][m.name] \in Nat
    BY <1>2 DEF Types
  <2> DEFINE res == ConnectRemoteRes(id[s][m.name])
  <2>2. res \in Messages /\ res.type # "CONNECT_REMOTE_COMP_REQ"
    BY <2>1, MessageTypes DEF ConnectRemoteRes
  <2> HIDE DEF res
  <2>3. \A x, y \in Servers : AskedIn(x, [channels EXCEPT ![s][r] = Append(@, res)][x][y])
    BY <2>2, AskedSend
  <2> QED BY <1>2, <2>3 DEF res
<1> QED BY <1>1, <1>2, ProcessCases

\* Asked is kept: only connect_remote_component asks.
LEMMA AskedStep ==
  ASSUME Types, Types', Connected, PastBarrier, Nested, Asked, NEW s \in Servers, ServerStep(s)
  PROVE  Asked'
<1>0. deployment' = deployment /\ ~failed
  BY SameDeployment DEF ServerStep
<1>1. \A r : RemoteSubsets(r)' = RemoteSubsets(r)
  BY <1>0 DEF RemoteSubsets, IsLocal, IsRemote, Listed
<1> SUFFICES /\ \A x, y \in Servers : AskedIn(x, net'[x][y])
             /\ \A y \in Servers : AskedAside(deferred'[y])
  BY <1>1 DEF Asked, AskedIn, AskedAside
<1>2. \A x, y \in Servers : AskedIn(x, net[x][y])
  BY DEF Asked
<1>3. \A y \in Servers : AskedAside(deferred[y])
  BY DEF Asked
<1>4. net \in Channels /\ deferred \in [Servers -> Seq([msg : Messages, from : Servers])]
  BY DEF Types
<1>5. CASE ConnectSend(s)
  <2> DEFINE m == ServerConnect(deployment.published[s])
  <2>1. m \in Messages /\ m.type # "CONNECT_REMOTE_COMP_REQ"
    BY MessageTypes DEF ServerConnect
  <2>2. /\ round[s] \in Servers
        /\ net' = [net EXCEPT ![s][round[s]] = Append(@, m)]
        /\ deferred' = deferred
    BY <1>5 DEF ConnectSend
  <2> HIDE DEF m
  <2>3. \A x, y \in Servers : AskedIn(x, net'[x][y])
    BY <1>2, <1>4, <2>1, <2>2, AskedSend
  <2> QED BY <1>3, <2>2, <2>3
<1>6. CASE UNCHANGED <<net, deferred>>
  BY <1>2, <1>3, <1>6
<1>7. CASE ConnectRemoteComponent(s)
  <2>1. Running(s) /\ Len(stack[s]) > 1 /\ stack[s][2].comp # Top /\ deferred' = deferred
    BY <1>7 DEF ConnectRemoteComponent
  <2>2. /\ Head(stack[s]) = stack[s][1] /\ stack[s][2] \in Calls
        /\ stack[s][1].comp \in Names /\ stack[s] # <<>>
    BY <2>1, RunningTop
  <2>3. id[s][stack[s][2].comp] \in Nat
    <3> DEFINE f == stack[s][2]
    <3>1. f \in [comp : Names \cup {Top}, child : Nat, waits : BOOLEAN] /\ f.comp # Top
      BY <2>1, <2>2 DEF Calls
    <3> HIDE DEF f
    <3>2. f.comp \in Names
      BY <3>1
    <3>3. id \in [Servers -> [Names -> Nat]]
      BY FunctionTypes
    <3>4. id[s][f.comp] \in Nat
      BY <3>2, <3>3
    <3> QED BY <3>4 DEF f
  <2> DEFINE m == ConnectRemoteReq(id[s][stack[s][2].comp], Head(stack[s]).comp)
  <2>4. m \in Messages
    BY <2>2, <2>3, MessageTypes
  <2>5. m.name \in RemoteSubsets(s)
    BY <1>7, AskedFor DEF ConnectRemoteReq
  <2>6. net' = [net EXCEPT ![s][Head(remote_server[s])] = Append(@, m)]
    BY <1>7 DEF ConnectRemoteComponent
  <2>7. Head(remote_server[s]) \in Servers
    BY <2>2, HasPeer
  <2> HIDE DEF m
  <2>8. \A x, y \in Servers : AskedIn(x, net'[x][y])
    BY <1>2, <1>4, <2>4, <2>5, <2>6, <2>7, AskedSend
  <2> QED BY <1>3, <2>1, <2>8
<1>8. CASE Listen(s)
  <2>1. deferred' = deferred
    BY <1>8 DEF Listen
  <2>2. ServerReady \in Messages /\ ServerReady.type # "CONNECT_REMOTE_COMP_REQ"
    BY MessageTypes DEF ServerReady
  <2>3. \A y \in Servers : net[s][y] \in Seq(Messages) /\ AskedIn(s, Append(net[s][y], ServerReady))
    BY <1>2, <1>4, <2>2, AskedAppend DEF Channels
  <2>4. AskedIn(s, <<>>)
    BY DEF AskedIn
  <2>5. \A x, y \in Servers : net'[x][y] = IF x # s THEN net[x][y]
                                           ELSE IF y = s THEN <<>> ELSE Append(net[s][y], ServerReady)
    BY <1>4, <1>8 DEF Listen, Channels
  <2> QED BY <1>2, <1>3, <2>1, <2>3, <2>4, <2>5
<1>9. CASE Reprocess(s)
  <2>1. /\ deferred[s] # <<>> /\ deferred[s] \in Seq([msg : Messages, from : Servers])
        /\ ProcessMessage(s, Head(deferred[s]).from, Head(deferred[s]).msg, net)
        /\ deferred' = [deferred EXCEPT ![s] = Tail(@)]
    BY <1>4, <1>9 DEF Reprocess
  <2>2. Head(deferred[s]) \in [msg : Messages, from : Servers]
    BY <2>1, HeadTailProperties
  <2>3. \A x, y \in Servers : AskedIn(x, net'[x][y])
    BY <1>0, <1>2, <1>4, <2>1, <2>2, AskedProcess
  <2>4. AskedAside(Tail(deferred[s]))
    BY <1>3, <2>1, PutAsideTail
  <2>5. \A y \in Servers : AskedAside(deferred'[y])
    BY <1>3, <1>4, <2>1, <2>4
  <2> QED BY <2>3, <2>5
<1>10. ASSUME NEW r \in Servers, net[r][s] # <<>>, net' = Received(s, r), deferred' = deferred
       PROVE  /\ \A x, y \in Servers : AskedIn(x, net'[x][y])
              /\ \A y \in Servers : AskedAside(deferred'[y])
  BY <1>3, <1>10, AskedReceive
<1>11. ASSUME NEW r \in Servers, Reschedule(s, r)
       PROVE  /\ \A x, y \in Servers : AskedIn(x, net'[x][y])
              /\ \A y \in Servers : AskedAside(deferred'[y])
  <2>1. /\ net[r][s] # <<>> /\ net' = Received(s, r)
        /\ deferred' = [deferred EXCEPT ![s] = Append(@, [msg |-> Head(net[r][s]), from |-> r])]
    BY <1>11 DEF Reschedule
  <2>2. Head(net[r][s]) \in Messages
    BY <2>1, ReceiveType
  <2>3. Head(net[r][s]).type = "CONNECT_REMOTE_COMP_REQ" => Head(net[r][s]).name \in RemoteSubsets(r)
    BY <2>1, AskedReceive
  <2>4. AskedAside(Append(deferred[s], [msg |-> Head(net[r][s]), from |-> r]))
    BY <1>3, <1>4, <2>2, <2>3, PutAsideAppend
  <2>5. \A y \in Servers : AskedAside(deferred'[y])
    BY <1>3, <1>4, <2>1, <2>4
  <2> QED BY <2>1, <2>5, AskedReceive
<1>12. ASSUME NEW r \in Servers, Process(s, r)
       PROVE  /\ \A x, y \in Servers : AskedIn(x, net'[x][y])
              /\ \A y \in Servers : AskedAside(deferred'[y])
  <2>1. /\ net[r][s] # <<>> /\ deferred' = deferred
        /\ ProcessMessage(s, r, Head(net[r][s]), Received(s, r))
    BY <1>12 DEF Process
  <2>2. Head(net[r][s]) \in Messages /\ Received(s, r) \in Channels
    BY <2>1, ReceiveType
  <2>3. \A x, y \in Servers : AskedIn(x, Received(s, r)[x][y])
    BY <2>1, AskedReceive
  <2>4. \A x, y \in Servers : AskedIn(x, net'[x][y])
    BY <1>0, <2>1, <2>2, <2>3, AskedProcess
  <2> QED BY <1>3, <2>1, <2>4
<1>13. CASE Configure(s) \/ Create(s) \/ NextSubset(s) \/ ReturnLocally(s)
  BY <1>6, <1>13 DEF Configure, Create, NextSubset, ReturnLocally
<1>14. ASSUME NEW r \in Servers, ConnectRecv(s, r) \/ RecvResponse(s, r)
       PROVE  /\ \A x, y \in Servers : AskedIn(x, net'[x][y])
              /\ \A y \in Servers : AskedAside(deferred'[y])
  BY <1>10, <1>14 DEF ConnectRecv, RecvResponse
<1>15. CASE JobStep(s)
  <2>1. PICK channels \in Channels : Took(s, channels) /\ Sent(s, channels)
    BY <1>15, JobStepEffect
  <2>2. \A x, y \in Servers : AskedIn(x, channels[x][y])
    BY <1>2, <2>1, AskedReceive DEF Took
  <2>3. \A m \in Messages : m.type \in JobTypes => m.type # "CONNECT_REMOTE_COMP_REQ"
    BY TypeNames DEF JobTypes
  <2>4. \A x, y \in Servers : AskedIn(x, net'[x][y])
    <3>1. CASE net' = channels
      BY <2>2, <3>1
    <3>2. ASSUME NEW r \in Servers, NEW m \in Messages, m.type \in JobTypes,
                 net' = [channels EXCEPT ![s][r] = Append(@, m)]
          PROVE  \A x, y \in Servers : AskedIn(x, net'[x][y])
      <4>1. \A x, y \in Servers : AskedIn(x, [channels EXCEPT ![s][r] = Append(@, m)][x][y])
        BY <2>2, <2>3, <3>2, AskedSend
      <4> QED BY <3>2, <4>1
    <3> QED BY <2>1, <3>1, <3>2 DEF Sent
  <2> QED BY <1>3, <1>15, <2>4, JobStepEffect
<1> QED BY <1>5, <1>7, <1>8, <1>9, <1>11, <1>12, <1>13, <1>14, <1>15 DEF ServerStep

-----------------------------------------------------------------------------
\* Numbering

\* A request binds a placeholder: the component above the one it is about is
\* local to the process that asks.
LEMMA BindsRemote ==
  ASSUME Types, Nested, NEW s \in Servers, NEW r \in Servers, NEW n \in RemoteSubsets(r),
         IsLocal(s, n), superset[s][n] \in Names
  PROVE  ~IsLocal(s, superset[s][n])
<1>1. PICK p \in Names : IsLocal(r, p) /\ n \in Below(deployment, r, p)
  BY DEF RemoteSubsets
<1>2. n \in deployment.remote[r] /\ n \in Names
  BY DeploymentTypes DEF RemoteSubsets
<1>3. n \in Below(deployment, s, superset[s][n])
  BY <1>2, NamesAssumption DEF Nested, NestedAt
<1>4. superset[s][n] = p
  BY <1>1, <1>2, <1>3, OnePlace
<1>5. s # r
  BY <1>2 DEF IsLocal, IsRemote
<1> QED BY <1>1, <1>4, <1>5, OneOwner

\* What a process is told leaves the IDs of its own components alone.
LEMMA ProcessLocal ==
  ASSUME Types, ~failed, Nested, NEW s \in Servers, NEW r \in Servers, NEW m \in Messages,
         NEW channels, ProcessMessage(s, r, m, channels),
         m.type = "CONNECT_REMOTE_COMP_REQ" => m.name \in RemoteSubsets(r)
  PROVE  \A n \in Names : IsLocal(s, n) => id'[s][n] = id[s][n]
<1>1. CASE id' = id
  BY <1>1
<1>2. ASSUME m.type = "CONNECT_REMOTE_COMP_REQ",
             IsLocal(s, m.name), superset[s][m.name] \in Names,
             id' = [id EXCEPT ![s][superset[s][m.name]] = m.superset]
      PROVE  \A n \in Names : IsLocal(s, n) => id'[s][n] = id[s][n]
  <2>1. ~IsLocal(s, superset[s][m.name])
    BY <1>2, BindsRemote
  <2> QED BY <1>2, <2>1 DEF Types
<1> QED BY <1>1, <1>2, ProcessCases

\* No step but Create gives a local component an ID, or counts it.
LEMMA SameLocalIds ==
  ASSUME Types, PastBarrier, Nested, Asked, NEW s \in Servers, ServerStep(s), ~Create(s)
  PROVE  /\ component_count' = component_count
         /\ \A n \in Names : IsLocal(s, n) => id'[s][n] = id[s][n]
<1>0. ~failed
  BY DEF ServerStep
<1>7. ASSUME JobStep(s)
      PROVE  component_count' = component_count /\ id' = id
  BY <1>7, JobStepEffect
<1>1. component_count' = component_count
  BY <1>7 DEF ServerStep, ConnectSend, ConnectRecv, Configure, NextSubset,
    ReturnLocally, ConnectRemoteComponent, Listen, Reprocess, RecvResponse, Reschedule, Process, tree
<1>2. CASE id' = id
  BY <1>1, <1>2
<1>3. ASSUME NEW r \in Servers, RecvResponse(s, r)
      PROVE  \A n \in Names : IsLocal(s, n) => id'[s][n] = id[s][n]
  <2>1. Waiting(s) /\ id' = [id EXCEPT ![s][Head(stack[s]).comp] = Head(net[r][s]).id]
    BY <1>3 DEF RecvResponse
  <2>2. Head(stack[s]).comp \in Names /\ IsRemote(s, Head(stack[s]).comp)
    BY <2>1, WaitingTop
  <2> QED BY <2>1, <2>2 DEF Types, IsLocal
<1>4. ASSUME NEW r \in Servers, Process(s, r)
      PROVE  \A n \in Names : IsLocal(s, n) => id'[s][n] = id[s][n]
  <2>1. net[r][s] # <<>> /\ ProcessMessage(s, r, Head(net[r][s]), Received(s, r))
    BY <1>4 DEF Process
  <2>2. Head(net[r][s]) \in Messages
    BY <2>1, ReceiveType
  <2>3. Head(net[r][s]).type = "CONNECT_REMOTE_COMP_REQ" => Head(net[r][s]).name \in RemoteSubsets(r)
    BY <2>1, AskedReceive
  <2> QED BY <1>0, <2>1, <2>2, <2>3, ProcessLocal
<1>5. ASSUME Reprocess(s)
      PROVE  \A n \in Names : IsLocal(s, n) => id'[s][n] = id[s][n]
  <2>1. /\ deferred[s] # <<>> /\ deferred[s] \in Seq([msg : Messages, from : Servers])
        /\ ProcessMessage(s, Head(deferred[s]).from, Head(deferred[s]).msg, net)
        /\ AskedAside(deferred[s])
    BY <1>5 DEF Reprocess, Types, Asked
  <2>2. Head(deferred[s]) \in [msg : Messages, from : Servers]
    BY <2>1, HeadTailProperties
  <2>3. Head(deferred[s]).msg.type = "CONNECT_REMOTE_COMP_REQ" =>
          Head(deferred[s]).msg.name \in RemoteSubsets(Head(deferred[s]).from)
    BY <2>1, PutAsideTail
  <2> QED BY <1>0, <2>1, <2>2, <2>3, ProcessLocal
<1>6. CASE \/ ConnectSend(s) \/ Configure(s) \/ NextSubset(s) \/ ReturnLocally(s)
           \/ ConnectRemoteComponent(s) \/ Listen(s)
           \/ \E r \in Servers : ConnectRecv(s, r) \/ Reschedule(s, r)
  <2>1. id' = id
    BY <1>6 DEF ConnectSend, ConnectRecv, Configure, NextSubset,
      ReturnLocally, ConnectRemoteComponent, Listen, Reschedule, tree
  <2> QED BY <1>2, <2>1
<1> QED BY <1>1, <1>2, <1>3, <1>4, <1>5, <1>6, <1>7 DEF ServerStep

\* get_new_comp_id gives what it has not given, or exits.
LEMMA CreateNumbered ==
  ASSUME Types, ~failed, PastBarrier, Nested, NEW s \in Servers, NumberedAt(s), Create(s)
  PROVE  NumberedAt(s)'
<1> DEFINE a == deployment.configured[s][1]
           b == deployment.configured[s][2]
           c == component_count[s]
           n == stack[s][1].comp
<1>1. /\ Running(s) /\ Head(stack[s]).child = 0
      /\ UNCHANGED <<deployment, phase>>
  BY DEF Create
<1>2. /\ stack[s] # <<>> /\ Head(stack[s]) = stack[s][1]
      /\ Len(stack[s]) \in Nat /\ Len(stack[s]) > 0
  BY <1>1, RunningTop
<1>3. phase[s] # "connect"
  BY <1>2, Creating
<1>4. n \in Names
  <2>1. 1 \in 1 .. Len(stack[s])
    BY <1>2
  <2>2. 1 < Len(stack[s])
    BY <1>1, <1>2, <2>1 DEF Nested, NestedAt
  <2> QED BY <1>1, <2>2, RunningTop
<1>5. a \in Nat /\ b \in Nat /\ c \in Nat /\ c <= b - a
  <2>1. deployment.configured[s] \in Nat \X Nat
    BY DeploymentTypes DEF Ranges
  <2>2. c \in Nat /\ c <= b - a
    BY DEF NumberedAt, Types
  <2> QED BY <2>1, <2>2
<1>6. \A m \in Names : IsLocal(s, m)' <=> IsLocal(s, m)
  BY <1>1 DEF IsLocal, IsRemote, Listed
<1>7. \A m \in Names : id[s][m] \in Nat
  BY DEF Types
<1>8. \A m \in Names : IsLocal(s, m) /\ id[s][m] # Invalid =>
        a <= id[s][m] /\ id[s][m] <= b /\ id[s][m] < a + c
  BY DEF NumberedAt
<1>9. \A m, k \in Names : /\ IsLocal(s, m) /\ IsLocal(s, k)
                          /\ id[s][m] = id[s][k] /\ id[s][m] # Invalid
                          => m = k
  BY DEF NumberedAt
<1>10. deployment'.configured[s][1] = a /\ deployment'.configured[s][2] = b
  BY <1>1
<1>11. CASE IsRemote(s, n)
  <2>1. UNCHANGED <<component_count, id, failed>>
    BY <1>2, <1>11 DEF Create
  <2> QED BY <1>1, <1>6, <2>1 DEF NumberedAt
<1>12. CASE ~IsRemote(s, n)
  <2>1. GetNewCompId(s, n)
    BY <1>2, <1>12 DEF Create
  <2>2. component_count'[s] = c + 1
    BY <2>1 DEF GetNewCompId, Types
  <2>3. CASE c + 1 = b - a + 1
    <3>1. failed' /\ id' = id
      BY <2>1, <2>2, <2>3 DEF GetNewCompId, Error
    <3>2. \A i \in Nat : i < a + c => i < a + (c + 1)
      BY <1>5
    <3>3. \A m \in Names : id[s][m] < a + c => id[s][m] < a + (c + 1)
      BY <1>7, <3>2
    <3> HIDE DEF a, b, c
    <3> QED BY <1>1, <1>3, <1>6, <1>8, <1>9, <1>10, <2>2, <3>1, <3>3 DEF NumberedAt
  <2>4. CASE c + 1 # b - a + 1
    <3> DEFINE new == c + 1 + a - 1
    <3>1. failed' = failed /\ id' = [id EXCEPT ![s][n] = new]
      BY <2>1, <2>2, <2>4 DEF GetNewCompId
    <3>2. /\ c + 1 <= b - a /\ a <= new /\ new <= b /\ new < a + (c + 1)
          /\ \A i \in Nat : i < a + c => i < a + (c + 1) /\ i # new
      BY <1>5, <2>4
    <3>3. \A m \in Names : id'[s][m] = IF m = n THEN new ELSE id[s][m]
      BY <1>4, <3>1 DEF Types
    <3> HIDE DEF a, b, c, new
    <3>4. \A m \in Names : IsLocal(s, m) /\ id'[s][m] # Invalid =>
            a <= id'[s][m] /\ id'[s][m] <= b /\ id'[s][m] < a + (c + 1)
      BY <1>7, <1>8, <3>2, <3>3
    <3>5. \A m \in Names : IsLocal(s, m) /\ id[s][m] # Invalid => id[s][m] # new
      BY <1>7, <1>8, <3>2
    <3>6. ASSUME NEW m \in Names, NEW k \in Names, IsLocal(s, m), IsLocal(s, k),
                 id'[s][m] = id'[s][k], id'[s][m] # Invalid
          PROVE  m = k
      BY <1>9, <3>3, <3>5, <3>6
    <3> QED BY <1>1, <1>3, <1>6, <1>10, <2>2, <3>2, <3>4, <3>6 DEF NumberedAt
  <2> QED BY <2>3, <2>4
<1> QED BY <1>11, <1>12

\* Numbered is kept.
LEMMA NumberedStep ==
  ASSUME Types, PastBarrier, Nested, Asked, Numbered, NEW s \in Servers, ServerStep(s)
  PROVE  Numbered'
<1>0. deployment' = deployment /\ ~failed
  BY SameDeployment DEF ServerStep
<1>1. \A x, n : IsLocal(x, n)' <=> IsLocal(x, n)
  BY <1>0 DEF IsLocal, IsRemote, Listed
<1>2. phase[s] # "connect" => phase'[s] # "connect"
  BY JobStepEffect DEF ServerStep, ConnectSend, ConnectRecv, Configure, Create, NextSubset, Types,
    ReturnLocally, ConnectRemoteComponent, Listen, Reprocess, RecvResponse, Reschedule, Process
<1>3. ASSUME NEW x \in Servers, x # s
      PROVE  NumberedAt(x)'
  <2>1. id'[x] = id[x] /\ component_count'[x] = component_count[x] /\ phase'[x] = phase[x]
    BY <1>3, OwnState
  <2> QED BY <1>0, <1>1, <2>1 DEF Numbered, NumberedAt
<1>4. CASE Create(s)
  <2>1. NumberedAt(s)'
    BY <1>0, <1>4, CreateNumbered DEF Numbered
  <2> QED BY <1>3, <2>1 DEF Numbered
<1>5. CASE ~Create(s)
  <2>1. component_count' = component_count /\ \A n \in Names : IsLocal(s, n) => id'[s][n] = id[s][n]
    BY <1>5, SameLocalIds
  <2>2. NumberedAt(s)'
    BY <1>0, <1>1, <1>2, <2>1 DEF Numbered, NumberedAt
  <2> QED BY <1>3, <2>2 DEF Numbered
<1> QED BY <1>4, <1>5

-----------------------------------------------------------------------------

\* The initial states satisfy the invariant: nobody has connected.
LEMMA IInvInit ==
  ASSUME Init
  PROVE  IInv
<1>1. \A S : <<>> \in Seq(S) /\ Len(<<>>) = 0
  BY EmptySeq
<1>2. \A i \in 1 .. 0 : FALSE
  OBVIOUS
<1>3. \A s \in Servers : s \in Nat /\ ~(0 > s) /\ 0 \in 0 .. NumRanks
  BY RanksAssumption DEF Servers
<1>4. Types
  <2>1. round \in [Servers -> 0 .. NumRanks]
    BY <1>3 DEF Init
  <2>2. /\ net \in Channels
        /\ remote_server \in [Servers -> Seq(Servers)]
        /\ stack \in [Servers -> Seq(Calls)]
        /\ jobs \in [Servers -> Seq(Jobs)]
        /\ deferred \in [Servers -> Seq([msg : Messages, from : Servers])]
    BY <1>1 DEF Init, Channels
  <2>3. Invalid \in Nat
    BY DEF Invalid
  <2> QED BY <2>1, <2>2, <2>3 DEF Init, Types
<1>5. Connected
  BY <1>1, <1>2, <1>3 DEF Init, Connected
<1>6. Connecting
  BY <1>3 DEF Init, Connecting
<1>7. PastBarrier
  BY DEF Init, PastBarrier
<1>8. Nested
  BY <1>1, <1>2 DEF Init, Nested, NestedAt
<1>9. Asked
  BY <1>1, <1>2 DEF Init, Asked, AskedIn, AskedAside
<1>10. Numbered
  <2>1. ASSUME NEW s \in Servers
        PROVE  0 <= deployment.configured[s][2] - deployment.configured[s][1]
    <3>1. deployment.configured[s][1] < deployment.configured[s][2]
      BY DeploymentsAssumption DEF Init
    <3>2. deployment.configured[s] \in Nat \X Nat
      BY <1>4, DeploymentTypes DEF Ranges
    <3>3. \A a, b \in Nat : a < b => 0 <= b - a
      OBVIOUS
    <3> QED BY <3>1, <3>2, <3>3
  <2> QED BY <2>1 DEF Init, Numbered, NumberedAt
<1> QED BY <1>4, <1>5, <1>6, <1>7, <1>8, <1>9, <1>10 DEF IInv

\* Every step keeps the invariant.
LEMMA IInvStep ==
  ASSUME IInv, [Next]_vars
  PROVE  IInv'
<1>1. CASE Next
  <2>1. PICK s \in Servers : ServerStep(s)
    BY <1>1 DEF Next
  <2>2. Types'
    BY <2>1, TypesStep DEF IInv
  <2>3. Connected' /\ Connecting'
    BY <2>1, ConnectedStep, ConnectingStep DEF IInv
  <2>4. PastBarrier'
    BY <2>1, PastBarrierStep DEF IInv
  <2>5. Nested'
    BY <2>1, <2>2, NestedStep DEF IInv
  <2>6. Asked'
    BY <2>1, <2>2, AskedStep DEF IInv
  <2>7. Numbered'
    BY <2>1, NumberedStep DEF IInv
  <2> QED BY <2>2, <2>3, <2>4, <2>5, <2>6, <2>7 DEF IInv
<1>2. CASE UNCHANGED vars
  <2>1. Types'
    BY <1>2 DEF vars, tree, IInv, Types
  <2>2. Connected' /\ Connecting' /\ PastBarrier'
    BY <1>2 DEF vars, IInv, Connected, Connecting, HeardFrom, PastBarrier
  <2>3. Nested'
    BY <1>2 DEF vars, tree, IInv, Nested, NestedAt
  <2>4. Asked'
    <3>1. \A r : RemoteSubsets(r)' = RemoteSubsets(r)
      BY <1>2 DEF vars, RemoteSubsets, IsLocal, IsRemote, Listed
    <3> QED BY <1>2, <3>1 DEF vars, IInv, Asked, AskedIn, AskedAside
  <2>5. Numbered'
    BY <1>2 DEF vars, tree, IInv, Numbered, NumberedAt, IsLocal, IsRemote, Listed
  <2> QED BY <2>1, <2>2, <2>3, <2>4, <2>5 DEF IInv
<1> QED BY <1>1, <1>2

\* Ranges that is_disjoint passes at every receiver share no number.
LEMMA IInvUnique ==
  ASSUME IInv
  PROVE  UniqueIDs
<1> USE DEF IInv
<1> SUFFICES ASSUME deployment.published = deployment.configured,
                    NEW s \in Servers, NEW r \in Servers, NEW m \in Names, NEW n \in Names,
                    IsLocal(s, m), IsLocal(r, n),
                    id[s][m] = id[r][n], id[s][m] # Invalid
             PROVE  s = r /\ m = n
  BY DEF UniqueIDs
<1>1. CASE s = r
  BY <1>1 DEF Numbered, NumberedAt
<1>2. CASE s # r
  <2>1. /\ phase[s] # "connect"
        /\ deployment.configured[s][1] <= id[s][m] /\ id[s][m] <= deployment.configured[s][2]
        /\ deployment.configured[r][1] <= id[r][n] /\ id[r][n] <= deployment.configured[r][2]
    BY DEF Numbered, NumberedAt
  <2>2. \A x \in Servers : round[x] = NumRanks
    BY <2>1 DEF PastBarrier
  <2>3. IsDisjoint(deployment.configured[s], deployment.configured[r])
    BY <1>2, <2>2, AllDisjoint
  <2>4. /\ deployment.configured[s] \in Nat \X Nat
        /\ deployment.configured[r] \in Nat \X Nat
        /\ id[s][m] \in Nat
    BY DeploymentTypes DEF Ranges, Types
  <2>5. \A a, b, c, d, i \in Nat : a <= i /\ i <= b /\ c <= i /\ i <= d =>
          ~(a > d \/ (a < c /\ b < c))
    OBVIOUS
  <2> QED BY <2>1, <2>3, <2>4, <2>5 DEF IsDisjoint
<1> QED BY <1>1, <1>2

\* No two components of a simulation have one ID (kitfox.cc:153), for every
\* number of processes and every deployment that configures what it publishes:
\* connect_server lets only disjoint ranges through, all processes wait until
\* it has, get_new_comp_id stays within its range, and a request for a
\* remote component binds placeholders only.
THEOREM UniqueIDsHolds == Spec => []UniqueIDs
<1>1. Init => IInv
  BY IInvInit
<1>2. IInv /\ [Next]_vars => IInv'
  BY IInvStep
<1>3. IInv => UniqueIDs
  BY IInvUnique
<1> QED BY <1>1, <1>2, <1>3, PTL DEF Spec

=============================================================================
