----------------------------- MODULE ServerRpc ------------------------------
(***************************************************************************)
(* The KitFox servers of a parallel simulation and the simulator clients   *)
(* that call them: server_t of kitfox-server.cc, client_t of               *)
(* kitfox-client.h, and the functions of kitfox_t that the servers run.    *)
(*                                                                         *)
(* A server is one thread.  It runs process() on a message; when the       *)
(* kitfox_t function it calls needs a component of another process it      *)
(* sends a request and receives messages until the response is there,      *)
(* running process() again on any request that arrives meanwhile           *)
(* (reschedule).  Its C++ call stack is therefore part of the state.       *)
(*                                                                         *)
(* The data are the powers of one sampling point; SampledQueue shows what  *)
(* the queue of a component does for it.  MPI keeps the order of messages  *)
(* between two ranks and nothing else.  Sends are buffered: every message  *)
(* has KITFOX_MPI_BUFFER_SIZE = 512 bytes.                                 *)
(***************************************************************************)
EXTENDS ComponentTree, FiniteSets

CONSTANTS
    Servers,   \* the ranks of KITFOX_COMM
    Clients,   \* the clients of INTER_COMM
    Owner,     \* the server in whose process a component is local
    Peer,      \* remote_server[0]: the server that each server connected to first
    Home,      \* the server a client connected to
    Programs,  \* what the clients may ask for: their sequences of requests
    NoData     \* no datum; a pull that finds none ends in an error

\* What survives initialization: connect_remote_component asks the first
\* server only, which answers or exits, and every server is asked before it
\* asks in turn, or both would wait (ServerStartup).
ASSUME DeploymentAssumption ==
    /\ Owner \in [Components -> Servers]
    /\ Peer \in [Servers -> Servers]
    /\ \A c \in Components : \A i \in DOMAIN Children[c] :
         Owner[Children[c][i]] \in {Owner[c], Peer[Owner[c]]}
    /\ \E order \in [Servers -> 1 .. Cardinality(Servers)] :
         \A c \in Components : \A i \in DOMAIN Children[c] :
           LET d == Children[c][i] IN
           Owner[d] # Owner[c] => order[Owner[c]] < order[Owner[d]]

\* Servers and clients are the ranks of two communicators
ASSUME RpcAssumption ==
    /\ IsFiniteSet(Servers)
    /\ Servers \cap Clients = {}
    /\ Home \in [Clients -> Servers]
    /\ NoData \notin Nat

-----------------------------------------------------------------------------
\* Messages.  In the order of KITFOX_MSG_TAG_TYPE every request is above and
\* every response below KITFOX_MSG_TAG_PRIORITY_BOUND.

ResponseTo ==
    [SYNCHRONIZE_DATA_REQ          |-> "SYNCHRONIZE_DATA_RES",
     SYNCHRONIZE_AND_PULL_DATA_REQ |-> "SYNCHRONIZE_AND_PULL_DATA_RES",
     PULL_DATA_REQ                 |-> "PULL_DATA_RES",
     CALCULATE_POWER_REQ           |-> "CALCULATE_POWER_RES"]

RequestTypes  == DOMAIN ResponseTo
ResponseTypes == {ResponseTo[t] : t \in RequestTypes}

\* Only calculate_power can be told not to wait for its response
Request(type, c)  == [type |-> type, comp |-> c, wait |-> TRUE]
Response(type, d) == [type |-> type, data |-> d]
ServerReady       == [type |-> "SERVER_READY"]

RequestMessages  == [type : RequestTypes, comp : Components, wait : BOOLEAN]
ResponseMessages == [type : ResponseTypes, data : Nat \cup {NoData}]

IsRequest(m)  == m.type \in RequestTypes
IsResponse(m) == m.type \in ResponseTypes

ASSUME ProgramsAssumption ==
    /\ Programs \subseteq [Clients -> Seq(RequestMessages)]
    /\ \A p \in Programs, k \in Clients : \A i \in DOMAIN p[k] :
         /\ p[k][i].wait \/ p[k][i].type = "CALCULATE_POWER_REQ"
         /\ Owner[p[k][i].comp] \in {Home[k], Peer[Home[k]]}

NoCall == "none"

-----------------------------------------------------------------------------

VARIABLES
    net,       \* net[s][r]: the messages of KITFOX_COMM from s to r
    inbox,     \* inbox[k]: the messages of INTER_COMM from client k
    reply,     \* reply[k]: the messages of INTER_COMM to client k
    stack,     \* stack[s]: the calls of server s in progress, innermost first
    deferred,  \* deferred[s]: server_t::reschedule_buffer
    ready,     \* ready[s]: server_t::ready_count, of servers not heard of yet
    responds,  \* responds[s]: server_t::client_response
    sendbuf,   \* sendbuf[s]: server_t::send_buffer, the message last packed
    power,     \* power[c]: the power in the queue of component c
    waiting,   \* waiting[k]: the response that client k is blocked for
    answer,    \* answer[k]: the power that client k was last given
    todo,      \* todo[k]: the requests client k has still to make
    failed     \* a process called exit: kitfox_t::error, or a client's check

channels == <<net, inbox, reply>>
memory   == <<responds, deferred, sendbuf, ready>>
clients  == <<waiting, answer, todo>>
vars     == <<channels, stack, memory, power, clients, failed>>

\* The frames of a server's call stack: process() on a message m of from,
\* before the step of its handler that at names; synchronize_data(c), before
\* it synchronizes ("sync") or pulls ("pull") the child-th sub-component, or
\* at its entry; and MPI_Recv in a loop until a response of some type is there.
Process(m, from) ==
    [fn   |-> "process", msg |-> m, from |-> from, data |-> NoData,
     at   |-> CASE m.type = "SYNCHRONIZE_DATA_REQ"          -> "sync"
                [] m.type = "SYNCHRONIZE_AND_PULL_DATA_REQ" -> "sync"
                [] m.type = "PULL_DATA_REQ"                 -> "pull"
                [] m.type = "CALCULATE_POWER_REQ"           -> "power"]

SynchronizeData(c) ==
    [fn |-> "synchronize_data", comp |-> c, child |-> 1, at |-> "entry", sum |-> 0]

Recv(type) == [fn |-> "MPI_Recv", type |-> type]

Top(s)     == Head(stack[s])
Callers(s) == Tail(stack[s])
Idle(s)        == ~failed /\ stack[s] = <<>>
Running(s, fn) == ~failed /\ stack[s] # <<>> /\ Top(s).fn = fn

-----------------------------------------------------------------------------

\* Every server is in listen() and has told the others so (ready)
Init ==
    /\ net = [s \in Servers |-> [r \in Servers |->
                  IF r = s THEN <<>> ELSE <<ServerReady>>]]
    /\ inbox = [k \in Clients |-> <<>>]
    /\ reply = [k \in Clients |-> <<>>]
    /\ stack = [s \in Servers |-> <<>>]
    /\ deferred = [s \in Servers |-> <<>>]
    /\ ready = [s \in Servers |-> Cardinality(Servers) - 1]
    /\ responds = [s \in Servers |-> FALSE]
    /\ sendbuf = [s \in Servers |-> Response("SYNCHRONIZE_DATA_RES", NoData)]
    /\ power = [c \in Components |-> NoData]
    /\ waiting = [k \in Clients |-> NoCall]
    /\ answer = [k \in Clients |-> NoData]
    /\ todo \in Programs
    /\ failed = FALSE

\* A step inside server s that only changes its call stack
Continue(s, frames) ==
    /\ stack' = [stack EXCEPT ![s] = frames]
    /\ UNCHANGED <<channels, memory, power, clients, failed>>

\* kitfox_t::error
Error == failed' = TRUE /\ UNCHANGED <<channels, stack, memory, power, clients>>

\* server_t::synchronize_data, pull_data and calculate_power: find the server
\* the component is routed to, send it a request, receive the response
CallServer(s, type, c, callers) ==
    LET m == Request(type, c) IN
    /\ net' = [net EXCEPT ![s][Owner[c]] = Append(@, m)]
    /\ sendbuf' = [sendbuf EXCEPT ![s] = m]
    /\ stack' = [stack EXCEPT ![s] = <<Recv(ResponseTo[type])>> \o callers]
    /\ UNCHANGED <<inbox, reply, responds, deferred, ready, power, clients, failed>>

\* server_t::process starts on a message, above the calls in callers.  It is
\* done with SERVER_READY at once, and a response is an unknown message type.
StartProcess(s, m, from, callers) ==
    /\ responds' = [responds EXCEPT ![s] = FALSE]
    /\ stack' = [stack EXCEPT ![s] =
                    IF IsRequest(m) THEN <<Process(m, from)>> \o callers ELSE @]
    /\ ready' = [ready EXCEPT ![s] = IF m = ServerReady THEN @ - 1 ELSE @]
    /\ failed' = IsResponse(m)

-----------------------------------------------------------------------------
\* The listen loop: MPI_Iprobe finds a message of KITFOX_COMM or, once every
\* server is ready, of INTER_COMM.  A message in transit may be missed by a
\* probe, so the alternation of the two communicators orders nothing.

ListenServer(s, r) ==
    /\ Idle(s)
    /\ net[r][s] # <<>>
    /\ StartProcess(s, Head(net[r][s]), r, <<>>)
    /\ net' = [net EXCEPT ![r][s] = Tail(@)]
    /\ UNCHANGED <<inbox, reply, deferred, sendbuf, power, clients>>

ListenClient(s, k) ==
    /\ Idle(s)
    /\ ready[s] = 0
    /\ Home[k] = s
    /\ inbox[k] # <<>>
    /\ StartProcess(s, Head(inbox[k]), k, <<>>)
    /\ inbox' = [inbox EXCEPT ![k] = Tail(@)]
    /\ UNCHANGED <<net, reply, deferred, sendbuf, power, clients>>

\* server_t::reprocess, between two rounds of probing
Reprocess(s) ==
    /\ Idle(s)
    /\ deferred[s] # <<>>
    /\ StartProcess(s, Head(deferred[s]).msg, Head(deferred[s]).from, <<>>)
    /\ deferred' = [deferred EXCEPT ![s] = Tail(@)]
    /\ UNCHANGED <<channels, sendbuf, power, clients>>

-----------------------------------------------------------------------------
\* Waiting for a response: while(recv_message_type != type) reschedule()

Awaited(s, m) == Running(s, "MPI_Recv") /\ m.type = Top(s).type

\* Mutant: requests do not have the higher priority and wait their turn, too
RecvRequestLater(s, r) ==
    LET m == Head(net[r][s]) IN
    /\ Running(s, "MPI_Recv")
    /\ net[r][s] # <<>>
    /\ IsRequest(m)
    /\ deferred' = [deferred EXCEPT ![s] = Append(@, [msg |-> m, from |-> r])]
    /\ net' = [net EXCEPT ![r][s] = Tail(@)]
    /\ UNCHANGED <<inbox, reply, stack, responds, sendbuf, ready, power, clients, failed>>

\* a request is processed at once, on top of the waiting call
RecvRequest(s, r) ==
    /\ Running(s, "MPI_Recv")
    /\ net[r][s] # <<>>
    /\ IsRequest(Head(net[r][s]))
    /\ StartProcess(s, Head(net[r][s]), r, stack[s])
    /\ net' = [net EXCEPT ![r][s] = Tail(@)]
    /\ UNCHANGED <<inbox, reply, deferred, sendbuf, power, clients>>

\* Mutant: the message is not kept for reprocess
RecvOtherDropped(s, r) ==
    LET m == Head(net[r][s]) IN
    /\ Running(s, "MPI_Recv")
    /\ net[r][s] # <<>>
    /\ ~IsRequest(m)
    /\ ~Awaited(s, m)
    /\ net' = [net EXCEPT ![r][s] = Tail(@)]
    /\ UNCHANGED <<inbox, reply, stack, memory, power, clients, failed>>

\* a message of lower priority that is not awaited is left to reprocess
RecvOther(s, r) ==
    LET m == Head(net[r][s]) IN
    /\ Running(s, "MPI_Recv")
    /\ net[r][s] # <<>>
    /\ ~IsRequest(m)
    /\ ~Awaited(s, m)
    /\ deferred' = [deferred EXCEPT ![s] = Append(@, [msg |-> m, from |-> r])]
    /\ net' = [net EXCEPT ![r][s] = Tail(@)]
    /\ UNCHANGED <<inbox, reply, stack, responds, sendbuf, ready, power, clients, failed>>

\* Mutant: the datum replaces the sum of the earlier ones
AddLast(f, d) == [f EXCEPT !.sum = d, !.child = @ + 1, !.at = "sync"]

\* a response of the awaited type, whoever sent it, ends the wait
Add(f, d) == [f EXCEPT !.sum = @ + d, !.child = @ + 1, !.at = "sync"]

Returned(f, m) ==
    CASE m.type # "PULL_DATA_RES" -> f
      [] m.type = "PULL_DATA_RES" /\ f.fn = "process" -> [f EXCEPT !.data = m.data]
      [] OTHER -> Add(f, m.data)

RecvResponse(s, r) ==
    LET m == Head(net[r][s])
        f == Head(Callers(s))
    IN  /\ Running(s, "MPI_Recv")
        /\ net[r][s] # <<>>
        /\ Awaited(s, m)
        /\ net' = [net EXCEPT ![r][s] = Tail(@)]
        /\ \/ /\ m.type = "PULL_DATA_RES" /\ m.data = NoData /\ f.fn # "process"
              /\ failed' = TRUE
              /\ UNCHANGED stack
           \/ /\ ~(m.type = "PULL_DATA_RES" /\ m.data = NoData /\ f.fn # "process")
              /\ stack' = [stack EXCEPT ![s] = <<Returned(f, m)>> \o Tail(Callers(s))]
              /\ UNCHANGED failed
        /\ UNCHANGED <<inbox, reply, memory, power, clients>>

-----------------------------------------------------------------------------
\* kitfox_t::synchronize_data for KITFOX_DATA_POWER

SyncEntry(s) ==
    LET c == Top(s).comp IN
    /\ Running(s, "synchronize_data")
    /\ Top(s).at = "entry"
    /\ CASE Owner[c] # s ->
              CallServer(s, "SYNCHRONIZE_DATA_REQ", c, Callers(s))
         [] Owner[c] = s /\ (Leaf(c) \/ power[c] # NoData) ->
              Continue(s, Callers(s))
         [] OTHER ->
              Continue(s, <<[Top(s) EXCEPT !.at = "sync"]>> \o Callers(s))

\* Mutant: the sub-component is pulled without synchronizing it first
SyncChildNot(s) ==
    LET f == Top(s) IN
    /\ Running(s, "synchronize_data")
    /\ f.at = "sync"
    /\ f.child <= Len(Children[f.comp])
    /\ Continue(s, <<[f EXCEPT !.at = "pull"]>> \o Callers(s))

\* synchronize_and_pull_data of the next sub-component: first the recursion ...
SyncChild(s) ==
    LET f == Top(s) IN
    /\ Running(s, "synchronize_data")
    /\ f.at = "sync"
    /\ f.child <= Len(Children[f.comp])
    /\ Continue(s, <<SynchronizeData(Children[f.comp][f.child]),
                     [f EXCEPT !.at = "pull"]>> \o Callers(s))

\* ... then the datum, added up
PullChild(s) ==
    LET f == Top(s)
        c == Children[f.comp][f.child]
    IN  /\ Running(s, "synchronize_data")
        /\ f.at = "pull"
        /\ CASE Owner[c] # s -> CallServer(s, "PULL_DATA_REQ", c, stack[s])
             [] Owner[c] = s /\ power[c] = NoData -> Error
             [] Owner[c] = s /\ power[c] # NoData ->
                  Continue(s, <<Add(f, power[c])>> \o Callers(s))

\* the sum is written into the component's own queue
SyncReturn(s) ==
    LET f == Top(s) IN
    /\ Running(s, "synchronize_data")
    /\ f.at = "sync"
    /\ f.child > Len(Children[f.comp])
    /\ power' = [power EXCEPT ![f.comp] = f.sum]
    /\ stack' = [stack EXCEPT ![s] = Callers(s)]
    /\ UNCHANGED <<channels, memory, clients, failed>>

-----------------------------------------------------------------------------
\* The handlers of server_t::process

HandleSync(s) ==
    LET f == Top(s) IN
    /\ Running(s, "process")
    /\ f.at = "sync"
    /\ Continue(s, <<SynchronizeData(f.msg.comp),
                     [f EXCEPT !.at = IF f.msg.type = "SYNCHRONIZE_DATA_REQ"
                                        THEN "respond" ELSE "pull"]>> \o Callers(s))

HandlePull(s) ==
    LET f == Top(s)
        c == f.msg.comp
    IN  /\ Running(s, "process")
        /\ f.at = "pull"
        /\ IF Owner[c] = s
             THEN Continue(s, <<[f EXCEPT !.at = "respond", !.data = power[c]]>>
                                \o Callers(s))
             ELSE CallServer(s, "PULL_DATA_REQ", c,
                             <<[f EXCEPT !.at = "respond"]>> \o Callers(s))

\* kitfox_t::calculate_power: the library's power goes into the queue
HandlePower(s) ==
    LET f == Top(s)
        c == f.msg.comp
        callers == <<[f EXCEPT !.at = "respond"]>> \o Callers(s)
    IN  /\ Running(s, "process")
        /\ f.at = "power"
        /\ IF Owner[c] # s
             THEN CallServer(s, "CALCULATE_POWER_REQ", c, callers)
             ELSE /\ power' = [power EXCEPT ![c] = Watts[c]]
                  /\ stack' = [stack EXCEPT ![s] = callers]
                  /\ UNCHANGED <<channels, memory, clients, failed>>

SendTo(s, to, m) ==
    IF to \in Servers
      THEN net' = [net EXCEPT ![s][to] = Append(@, m)] /\ UNCHANGED reply
      ELSE reply' = [reply EXCEPT ![to] = Append(@, m)] /\ UNCHANGED net

\* Mutant: a request that asks for no response is answered all the same
RespondAlways(s) ==
    LET f == Top(s)
        m == Response(ResponseTo[f.msg.type], f.data)
    IN  /\ Running(s, "process")
        /\ f.at = "respond"
        /\ sendbuf' = [sendbuf EXCEPT ![s] = m]
        /\ responds' = [responds EXCEPT ![s] = TRUE]
        /\ SendTo(s, f.from, m)
        /\ stack' = [stack EXCEPT ![s] = Callers(s)]
        /\ UNCHANGED <<inbox, deferred, ready, power, clients, failed>>

\* Mutant: client_response is not set, nothing is sent
RespondNever(s) ==
    LET f == Top(s) IN
    /\ Running(s, "process")
    /\ f.at = "respond"
    /\ stack' = [stack EXCEPT ![s] = Callers(s)]
    /\ UNCHANGED <<channels, memory, power, clients, failed>>

\* the end of process(): pack the response if the caller waits for one, send
\* whatever send_buffer holds if client_response is set
Respond(s) ==
    LET f == Top(s)
        m == IF f.msg.wait THEN Response(ResponseTo[f.msg.type], f.data) ELSE sendbuf[s]
    IN  /\ Running(s, "process")
        /\ f.at = "respond"
        /\ sendbuf' = [sendbuf EXCEPT ![s] = m]
        /\ responds' = [responds EXCEPT ![s] = @ \/ f.msg.wait]
        /\ IF responds'[s] THEN SendTo(s, f.from, m) ELSE UNCHANGED <<net, reply>>
        /\ stack' = [stack EXCEPT ![s] = Callers(s)]
        /\ UNCHANGED <<inbox, deferred, ready, power, clients, failed>>

-----------------------------------------------------------------------------
\* The clients of kitfox-client.h

ClientCall(k) ==
    LET m == Head(todo[k]) IN
    /\ ~failed
    /\ waiting[k] = NoCall
    /\ todo[k] # <<>>
    /\ todo' = [todo EXCEPT ![k] = Tail(@)]
    /\ inbox' = [inbox EXCEPT ![k] = Append(@, m)]
    /\ waiting' = [waiting EXCEPT ![k] = IF m.wait THEN ResponseTo[m.type] ELSE NoCall]
    /\ UNCHANGED <<net, reply, stack, memory, power, answer, failed>>

\* the client exits when the message is not the one it waits for
ClientReturn(k) ==
    LET m == Head(reply[k]) IN
    /\ ~failed
    /\ waiting[k] # NoCall
    /\ reply[k] # <<>>
    /\ reply' = [reply EXCEPT ![k] = Tail(@)]
    /\ waiting' = [waiting EXCEPT ![k] = NoCall]
    /\ failed' = (m.type # waiting[k])
    /\ answer' = [answer EXCEPT ![k] =
                     IF m.type = waiting[k] /\ m.data # NoData THEN m.data ELSE @]
    /\ UNCHANGED <<net, inbox, stack, memory, power, todo>>

-----------------------------------------------------------------------------

ServerStep(s) ==
    \/ \E r \in Servers : \/ ListenServer(s, r)
                          \/ RecvRequest(s, r)
                          \/ RecvOther(s, r)
                          \/ RecvResponse(s, r)
    \/ \E k \in Clients : ListenClient(s, k)
    \/ Reprocess(s)
    \/ SyncEntry(s)
    \/ SyncChild(s)
    \/ PullChild(s)
    \/ SyncReturn(s)
    \/ HandleSync(s)
    \/ HandlePull(s)
    \/ HandlePower(s)
    \/ Respond(s)

\* The simulation exited, or every program ended and nothing is left to do
Finished ==
    \/ failed
    \/ /\ \A k \in Clients : /\ todo[k] = <<>> /\ waiting[k] = NoCall
                             /\ inbox[k] = <<>> /\ reply[k] = <<>>
       /\ \A s \in Servers : /\ stack[s] = <<>> /\ deferred[s] = <<>>
                             /\ \A r \in Servers : net[s][r] = <<>>

Next ==
    \/ \E s \in Servers : ServerStep(s)
    \/ \E k \in Clients : ClientCall(k) \/ ClientReturn(k)
    \/ Finished /\ UNCHANGED vars

\* The operating system runs every process and MPI delivers every message: a
\* server that can take a step takes one, a client with a response reads it.
Fairness ==
    /\ \A s \in Servers : WF_vars(ServerStep(s))
    /\ \A k \in Clients : WF_vars(ClientReturn(k))

Spec == Init /\ [][Next]_vars /\ Fairness

-----------------------------------------------------------------------------

Messages == RequestMessages \cup ResponseMessages \cup {ServerReady}

\* Types: the stacks consist of the frames of the three functions, a wait is
\* always above the call that waits, and the channels carry messages.
TypeOK ==
    /\ \A s, r \in Servers : net[s][r] \in Seq(Messages)
    /\ \A k \in Clients : inbox[k] \in Seq(RequestMessages) /\ reply[k] \in Seq(Messages)
    /\ \A s \in Servers :
         /\ \A i \in DOMAIN stack[s] :
              /\ stack[s][i].fn \in {"process", "synchronize_data", "MPI_Recv"}
              /\ stack[s][i].fn = "MPI_Recv" => i < Len(stack[s])
         /\ deferred[s] \in Seq([msg : Messages \ RequestMessages, from : Servers])
         /\ sendbuf[s] \in Messages
    /\ responds \in [Servers -> BOOLEAN]
    /\ ready \in [Servers -> 0 .. Cardinality(Servers) - 1]
    /\ power \in [Components -> Nat \cup {NoData}]
    /\ waiting \in [Clients -> ResponseTypes \cup {NoCall}]
    /\ answer \in [Clients -> Nat \cup {NoData}]
    /\ todo \in [Clients -> Seq(RequestMessages)]
    /\ failed \in BOOLEAN

\* "power_t values are aggregated from leaf components to the component of
\* synchronization" (doc/data_queues.tex:176)
SumsAreTotals == \A c \in Components : power[c] \in {NoData, Total[c]}

\* The servers together behave as one tree of components: whatever messages
\* they exchange, a component is only ever filled in with the sum of its
\* sub-components, and a client only ever told a power that some component has.
Aggregation == INSTANCE PowerAggregation

ImplementsAggregation == Aggregation!Spec

\* A call ends in kitfox_t::error or in the client's exit for one reason only:
\* a leaf that is to be added up has no power, or had none when another server
\* read it.  A sub-component that is no leaf was synchronized just before, so it
\* has one wherever it is; and no response confuses a server or a client.
FailsAtLeavesOnly ==
    failed => \E s \in Servers : \E i \in DOMAIN stack[s] :
                 LET f == stack[s][i]
                     c == Children[f.comp][f.child]
                 IN  /\ f.fn = "synchronize_data"
                     /\ f.at = "pull"
                     /\ Leaf(c)
                     /\ power[c] = NoData \/ Owner[c] # s

\* "The client waits for the response." (kitfox-server.cc:1341): a server never
\* sends a client a message that no call of the client waits for.
OnlyAwaitedReplies ==
    \A k \in Clients : reply[k] # <<>> => waiting[k] # NoCall /\ Len(reply[k]) = 1

\* Every call of a client that waits returns, unless the program exits:
\* "synchronize_data function is recursively called inside KitFox until the
\* pseudo component and all of its descendent components are synchronized"
\* (doc/data_queues.tex:163).
EveryCallReturns ==
    \A k \in Clients : waiting[k] # NoCall ~> failed \/ waiting[k] = NoCall

NumberOf(q, P(_)) == Cardinality({i \in DOMAIN q : P(q[i])})

Waits(s) == NumberOf(stack[s], LAMBDA f : f.fn = "MPI_Recv")

\* The requests of s to r under way, in progress, or answered
Pending(s, r) ==
      NumberOf(net[s][r], IsRequest)
    + NumberOf(stack[r], LAMBDA f : f.fn = "process" /\ f.from = s)
    + NumberOf(net[r][s], IsResponse)

\* Every wait of a server has its request, the call that processes it, or its
\* response somewhere: none is lost and none answered twice.  A server has as
\* many waits as it has requests pending at its peer and responses put aside,
\* and nothing is pending anywhere else.  So an idle server has put no response
\* aside, and reprocess finds servers ready only.
NoCallLost ==
    ~failed => \A s \in Servers :
        /\ Waits(s) = Pending(s, Peer[s]) + NumberOf(deferred[s], LAMBDA d : IsResponse(d.msg))
        /\ \A r \in Servers : r # Peer[s] => Pending(s, r) = 0

\* How often r has told s that it is ready and s has not counted it
Unheard(r, s) ==
      NumberOf(net[r][s], LAMBDA m : m = ServerReady)
    + NumberOf(deferred[s], LAMBDA d : d.from = r /\ d.msg = ServerReady)

\* No server is forgotten or counted twice: ready_count is the number of those
\* whose SERVER_READY, the only one, is on its way or put aside.
NoReadyLost ==
    \A s \in Servers :
        /\ \A r \in Servers : Unheard(r, s) <= 1
        /\ ready[s] = Cardinality({r \in Servers : Unheard(r, s) = 1})

=============================================================================
