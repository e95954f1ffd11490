--------------------------- MODULE ServerLifecycle --------------------------
(***************************************************************************)
(* How the servers of a parallel simulation stop, and whom they can reach  *)
(* until then: the connections that server_t counts, the connecting and    *)
(* disconnecting of clients and servers, and the routing of a call by the  *)
(* ID of its component.  The servers have connected and configured         *)
(* (ServerStartup); each counts one connection to every other.             *)
(*                                                                         *)
(* A call is looked at as far as its routing goes: what the messages carry *)
(* is the component and whether it was found.  ServerRpc has the data.     *)
(* Every call is for a sampling point of its own, for which the component  *)
(* has no datum yet: synchronizing it always asks for the sub-components.  *)
(***************************************************************************)
EXTENDS Naturals, Sequences, FiniteSets, SequencesExt

CONSTANTS
    Servers,     \* the ranks of KITFOX_COMM
    Connected,   \* remote_server of each server, in the order of connecting
    IDRange,     \* component_id_range of each server: its first and last ID
    Components,  \* IDs of components
    Remote,      \* the sub-components that are remote, of each component
    Clients,     \* the simulators
    Home,        \* the server that a client connects to
    Programs     \* what the simulators that are started call, one after another

Calls == [type : {"GET_COMP_ID", "PULL_DATA", "SYNCHRONIZE_DATA"}, comp : Components]

IsLocal(s, c) == c \in IDRange[s].first .. IDRange[s].last

ASSUME LifecycleAssumption ==
    /\ Connected \in [Servers -> Seq(Servers)]
    /\ \A s \in Servers : /\ ToSet(Connected[s]) = Servers \ {s}
                          /\ Len(Connected[s]) = Cardinality(Servers) - 1
                          /\ IDRange[s].first \in Nat /\ IDRange[s].last \in Nat
    /\ Components \subseteq Nat
    /\ \A c \in Components : \E s \in Servers :
         /\ IsLocal(s, c)
         /\ \A r \in Servers \ {s} : ~IsLocal(r, c)
         /\ Remote[c] \in Seq({d \in Components : ~IsLocal(s, d)})
    /\ Home \in [Clients -> Servers]
    /\ Servers \cap Clients = {}
    /\ \A p \in Programs : /\ DOMAIN p \subseteq Clients
                           /\ \A k \in DOMAIN p : p[k] \in Seq(Calls)

ServerReady      == [type |-> "SERVER_READY"]
ServerDisconnect == [type |-> "SERVER_DISCONNECT"]
ClientConnect    == [type |-> "CLIENT_CONNECT"]
ClientDisconnect == [type |-> "CLIENT_DISCONNECT"]
Request(call)       == [type |-> "REQ", call |-> call]
Response(call, got) == [type |-> "RES", of |-> call.type, found |-> got]

VARIABLES
    net,       \* net[s][r]: the messages of KITFOX_COMM from s to r
    inbox,     \* inbox[k]: the messages of client k to its server
    reply,     \* reply[k]: the messages to client k
    remote,    \* remote[s]: server_t::remote_server
    peers,     \* peers[s]: server_t::peer_connections
    members,   \* members[s]: server_t::remote_client, counted by client_connections
    ready,     \* ready[s]: server_t::ready_count
    deferred,  \* deferred[s]: server_t::reschedule_buffer
    stack,     \* stack[s]: the calls that s waits in, innermost first
    mode,      \* mode[s]: "active", "inactive" (active is false), "stopped"
    status,    \* status[k]: how far client k is
    todo,      \* todo[k]: the calls that client k has still to make
    answer,    \* answer[k]: whether the last call of k found its component
    failed     \* a process called exit

links  == <<remote, peers, members, ready>>
client == <<status, todo, answer>>
vars   == <<net, inbox, reply, links, deferred, stack, mode, client, failed>>

Init ==
    /\ net = [s \in Servers |-> [r \in Servers |->
                 IF r = s THEN <<>> ELSE <<ServerReady>>]]
    /\ inbox = [k \in Clients |-> <<>>]
    /\ reply = [k \in Clients |-> <<>>]
    /\ remote = Connected
    /\ peers = [s \in Servers |-> Cardinality(Servers) - 1]
    /\ members = [s \in Servers |-> {}]
    /\ ready = peers
    /\ deferred = [s \in Servers |-> <<>>]
    /\ stack = [s \in Servers |-> <<>>]
    /\ mode = [s \in Servers |-> "active"]
    /\ \E p \in Programs :
         /\ todo = [k \in Clients |-> IF k \in DOMAIN p THEN p[k] ELSE <<>>]
         /\ status = [k \in Clients |-> IF k \in DOMAIN p THEN "new" ELSE "absent"]
    /\ answer = [k \in Clients |-> TRUE]
    /\ failed = FALSE

Idle(s)    == ~failed /\ mode[s] # "stopped" /\ stack[s] = <<>>
Waiting(s) == ~failed /\ stack[s] # <<>>

-----------------------------------------------------------------------------
\* Routing

\* server_t::is_routable adds the last ID of a range to the first
IsRoutable(c, r) == c >= IDRange[r].first /\ c <= IDRange[r].first + IDRange[r].last

\* The places in remote_server of the servers to ask for a call: a name is
\* broadcast until some server knows it, an ID goes to the first that matches
Routes(s, call) ==
    {i \in DOMAIN remote[s] :
        call.type = "GET_COMP_ID" \/ IsRoutable(call.comp, remote[s][i])}

\* The server that is asked first
FirstOf(s, places) == remote[s][CHOOSE i \in places : \A j \in places : i <= j]

\* Server s in the call of from: the remote calls it consists of, of which the
\* first is under way, and whether they are for a sub-component or for from
Frame(call, from, calls, nested) ==
    [call |-> call, from |-> from, calls |-> calls, nested |-> nested]

\* Server s answers; N are the channels of KITFOX_COMM after its receive
Answer(s, f, got, callers, N) ==
    /\ stack' = [stack EXCEPT ![s] = callers]
    /\ IF f.from \in Servers
         THEN /\ net' = [N EXCEPT ![s][f.from] = Append(@, Response(f.call, got))]
              /\ UNCHANGED reply
         ELSE /\ reply' = [reply EXCEPT ![f.from] = Append(@, Response(f.call, got))]
              /\ net' = N
    /\ UNCHANGED failed

Exit(N) == failed' = TRUE /\ net' = N /\ UNCHANGED <<stack, reply>>

\* The next remote call, or the answer when there is none.  Without a route the
\* caller gets INVALID_PSEUDO_COMPONENT; but that ends in kitfox_t::error when
\* synchronize_data wanted the datum of a sub-component.
GoOn(s, f, callers, N) ==
    IF f.calls = <<>>
      THEN Answer(s, f, TRUE, callers, N)
      ELSE LET to == Routes(s, Head(f.calls)) IN
           CASE to # {} ->
                  /\ net' = [N EXCEPT ![s][FirstOf(s, to)] = Append(@, Request(Head(f.calls)))]
                  /\ stack' = [stack EXCEPT ![s] = <<f>> \o callers]
                  /\ UNCHANGED <<reply, failed>>
             [] to = {} /\ f.nested  -> Exit(N)
             [] to = {} /\ ~f.nested -> Answer(s, f, FALSE, callers, N)

SyncAndPull(d) == <<[type |-> "SYNCHRONIZE_DATA", comp |-> d],
                    [type |-> "PULL_DATA", comp |-> d]>>

\* The handlers of the requests.  A server asks others on behalf of another
\* server (UseServer) for synchronization only; it exits over an unknown name.
Handle(s, call, from, callers, N) ==
    CASE IsLocal(s, call.comp) ->
           GoOn(s, Frame(call, from,
                         IF call.type = "SYNCHRONIZE_DATA"
                           THEN FlattenSeq([i \in DOMAIN Remote[call.comp] |->
                                              SyncAndPull(Remote[call.comp][i])])
                           ELSE <<>>, TRUE),
                callers, N)
      [] ~IsLocal(s, call.comp) /\ (from \in Clients \/ call.type = "SYNCHRONIZE_DATA") ->
           GoOn(s, Frame(call, from, <<call>>, FALSE), callers, N)
      [] ~IsLocal(s, call.comp) /\ from \in Servers /\ call.type = "PULL_DATA" ->
           Answer(s, Frame(call, from, <<>>, FALSE), FALSE, callers, N)
      [] OTHER -> Exit(N)

-----------------------------------------------------------------------------
\* Connections

\* Mutant: the servers are told, but not removed from the list
DisconnectKeeping(s, N) ==
    /\ remote' = remote
    /\ net' = [N EXCEPT ![s] = [r \in Servers |->
                  IF Contains(remote[s], r) THEN Append(@[r], ServerDisconnect) ELSE @[r]]]

\* server_t::disconnect_server: every server still in the list is told
Disconnect(s, N) ==
    /\ remote' = [remote EXCEPT ![s] = <<>>]
    /\ net' = [N EXCEPT ![s] = [r \in Servers |->
                  IF Contains(remote[s], r) THEN Append(@[r], ServerDisconnect) ELSE @[r]]]

Stop(s, condition) == mode' = [mode EXCEPT ![s] = IF condition THEN "inactive" ELSE @]

\* Mutant: only the servers that are connected are counted
PeerLeavesAlone(s, N) ==
    /\ peers' = [peers EXCEPT ![s] = @ - 1]
    /\ IF peers'[s] = 0 THEN Disconnect(s, N) ELSE net' = N /\ UNCHANGED remote
    /\ Stop(s, peers'[s] = 0)
    /\ UNCHANGED <<members, ready>>

\* Mutant: the last server to leave is not noticed
PeerLeavesUnnoticed(s, N) ==
    /\ peers' = [peers EXCEPT ![s] = @ - 1]
    /\ net' = N
    /\ UNCHANGED <<remote, members, ready, mode>>

\* KITFOX_MSG_TAG_SERVER_DISCONNECT
PeerLeaves(s, N) ==
    LET last == peers[s] - 1 = 0 /\ members[s] = {} IN
    /\ peers' = [peers EXCEPT ![s] = @ - 1]
    /\ IF last THEN Disconnect(s, N) ELSE net' = N /\ UNCHANGED remote
    /\ Stop(s, last)
    /\ UNCHANGED <<members, ready>>

\* Mutant: a server without clients stops, whoever may still call it
ClientLeavesAll(s, k) ==
    /\ members' = [members EXCEPT ![s] = @ \ {k}]
    /\ IF members'[s] = {} THEN Disconnect(s, net) ELSE UNCHANGED <<net, remote>>
    /\ Stop(s, members'[s] = {})
    /\ UNCHANGED <<peers, ready>>

\* KITFOX_MSG_TAG_CLIENT_DISCONNECT
ClientLeaves(s, k) ==
    /\ members' = [members EXCEPT ![s] = @ \ {k}]
    /\ IF members'[s] = {} THEN Disconnect(s, net) ELSE UNCHANGED <<net, remote>>
    /\ Stop(s, peers[s] = 0 /\ members'[s] = {})
    /\ UNCHANGED <<peers, ready>>

-----------------------------------------------------------------------------
\* The listen loop.  A server whose active flag was cleared goes on until a
\* probe finds nothing; a probe may miss what is in transit.

ProcessOf(s, m, from, callers, N) ==
    \/ /\ m = ServerReady
       /\ ready' = [ready EXCEPT ![s] = @ - 1]
       /\ net' = N
       /\ UNCHANGED <<reply, remote, peers, members, stack, mode, failed>>
    \/ /\ m = ServerDisconnect
       /\ PeerLeaves(s, N)
       /\ UNCHANGED <<reply, stack, failed>>
    \/ /\ m.type = "REQ"
       /\ Handle(s, m.call, from, callers, N)
       /\ UNCHANGED <<links, mode>>

ListenServer(s, r) ==
    /\ Idle(s)
    /\ net[r][s] # <<>>
    /\ ProcessOf(s, Head(net[r][s]), r, <<>>, [net EXCEPT ![r][s] = Tail(@)])
    /\ UNCHANGED <<inbox, deferred, client>>

ListenClient(s, k) ==
    LET m == Head(inbox[k]) IN
    /\ Idle(s)
    /\ ready[s] = 0
    /\ Home[k] = s
    /\ inbox[k] # <<>>
    /\ inbox' = [inbox EXCEPT ![k] = Tail(@)]
    /\ \/ /\ m = ClientConnect
          /\ members' = [members EXCEPT ![s] = @ \cup {k}]
          /\ UNCHANGED <<net, reply, remote, peers, ready, stack, mode, failed>>
       \/ /\ m = ClientDisconnect
          /\ ClientLeaves(s, k)
          /\ UNCHANGED <<reply, stack, failed>>
       \/ /\ m.type = "REQ"
          /\ Handle(s, m.call, k, <<>>, net)
          /\ UNCHANGED <<links, mode>>
    /\ UNCHANGED <<deferred, client>>

\* server_t::reprocess
Reprocess(s) ==
    /\ Idle(s)
    /\ deferred[s] # <<>>
    /\ deferred' = [deferred EXCEPT ![s] = Tail(@)]
    /\ ProcessOf(s, Head(deferred[s]).msg, Head(deferred[s]).from, <<>>, net)
    /\ UNCHANGED <<inbox, client>>

\* The loop ends, with it the process
EndListen(s) ==
    /\ Idle(s)
    /\ mode[s] = "inactive"
    /\ deferred[s] = <<>>
    /\ mode' = [mode EXCEPT ![s] = "stopped"]
    /\ UNCHANGED <<net, inbox, reply, links, deferred, stack, client, failed>>

Awaited(s, m) == m.type = "RES" /\ m.of = Head(Head(stack[s]).calls).type

\* The response waited for.  A component that was not found ends a call for
\* from, and the whole process when it was for a sub-component.
ReceiveResponse(s, m, N) ==
    LET f == Head(stack[s]) IN
    CASE m.found              -> GoOn(s, [f EXCEPT !.calls = Tail(@)], Tail(stack[s]), N)
      [] ~m.found /\ f.nested -> Exit(N)
      [] OTHER                -> Answer(s, f, FALSE, Tail(stack[s]), N)

\* server_t::reschedule: requests at once, the rest later
Receive(s, r) ==
    LET m == Head(net[r][s])
        N == [net EXCEPT ![r][s] = Tail(@)]
    IN  /\ Waiting(s)
        /\ net[r][s] # <<>>
        /\ \/ /\ m.type = "REQ"
              /\ Handle(s, m.call, r, stack[s], N)
              /\ UNCHANGED deferred
           \/ /\ Awaited(s, m)
              /\ ReceiveResponse(s, m, N)
              /\ UNCHANGED deferred
           \/ /\ m.type # "REQ" /\ ~Awaited(s, m)
              /\ deferred' = [deferred EXCEPT ![s] = Append(@, [msg |-> m, from |-> r])]
              /\ net' = N
              /\ UNCHANGED <<reply, stack, failed>>
        /\ UNCHANGED <<inbox, links, mode, client>>

ServerStep(s) ==
    \/ \E r \in Servers : ListenServer(s, r) \/ Receive(s, r)
    \/ \E k \in Clients : ListenClient(s, k)
    \/ Reprocess(s)
    \/ EndListen(s)

-----------------------------------------------------------------------------
\* The clients: connect, one call after the other, disconnect

Send(k, m, next) ==
    /\ ~failed
    /\ inbox' = [inbox EXCEPT ![k] = Append(@, m)]
    /\ status' = [status EXCEPT ![k] = next]
    /\ UNCHANGED <<net, reply, links, deferred, stack, mode, answer, failed>>

Connect(k) ==
    /\ status[k] = "new"
    /\ Send(k, ClientConnect, "connected")
    /\ UNCHANGED todo

Call(k) ==
    /\ status[k] = "connected" /\ todo[k] # <<>>
    /\ todo' = [todo EXCEPT ![k] = Tail(@)]
    /\ Send(k, Request(Head(todo[k])), "waiting")

Return(k) ==
    /\ ~failed
    /\ status[k] = "waiting"
    /\ reply[k] # <<>>
    /\ reply' = [reply EXCEPT ![k] = Tail(@)]
    /\ answer' = [answer EXCEPT ![k] = Head(reply[k]).found]
    /\ status' = [status EXCEPT ![k] = "connected"]
    /\ UNCHANGED <<net, inbox, links, deferred, stack, mode, todo, failed>>

Leave(k) ==
    /\ status[k] = "connected" /\ todo[k] = <<>>
    /\ Send(k, ClientDisconnect, "left")
    /\ UNCHANGED todo

ClientStep(k) == Connect(k) \/ Call(k) \/ Return(k) \/ Leave(k)

Next == (\E s \in Servers : ServerStep(s)) \/ (\E k \in Clients : ClientStep(k))

\* Every process runs, every message arrives, and every simulator makes its
\* calls and ends
Fairness ==
    /\ \A s \in Servers : WF_vars(ServerStep(s))
    /\ \A k \in Clients : WF_vars(ClientStep(k))

Spec == Init /\ [][Next]_vars /\ Fairness

-----------------------------------------------------------------------------

\* r may still call s: it has s in its list, or its SERVER_DISCONNECT is on its
\* way to s or put aside there
MayCall(r, s) ==
    \/ Contains(remote[r], s)
    \/ Contains(net[r][s], ServerDisconnect)
    \/ Contains(deferred[s], [msg |-> ServerDisconnect, from |-> r])

\* A server counts the servers that may still call it.  The counter is
\* unsigned, so one disconnection too many would never end.
ConnectionsCounted ==
    \A s \in Servers : peers[s] = Cardinality({r \in Servers \ {s} : MayCall(r, s)})

\* No server leaves its loop while another may call it, waits for it, or has a
\* message of it in transit: a client elsewhere would wait forever.
StopsLast ==
    \A s \in Servers : mode[s] # "active" =>
        /\ stack[s] = <<>>
        /\ \A r \in Servers :
             /\ ~Contains(remote[r], s)
             /\ net[r][s] = <<>>
             /\ \A i \in DOMAIN stack[r] : stack[r][i].from # s

\* A client is never told that a component does not exist, and no process exits
\* over a call, unless a server was left by its last client and has taken leave
\* of the others: until then every server reaches every other.  "Check if
\* ComponentID belongs to MPINode." (kitfox-server.cc:68)
UnknownOnlyWhenCutOff ==
    failed \/ (\E k \in Clients : ~answer[k]) => \E s \in Servers : remote[s] = <<>>

\* A server takes leave of the others for its own clients, not for theirs: as
\* long as some are connected and none has left it goes on reaching every server,
\* whoever takes leave of it meanwhile.
KeepsRoutes ==
    \A s \in Servers :
        members[s] # {} /\ (\A k \in Clients : Home[k] = s => status[k] # "left")
        => remote'[s] = remote[s]

ReachableWhileConnected == [][KeepsRoutes]_vars

\* Once the simulators have ended, every server stops, although those that never
\* had a client wait for the others' leave.
EveryServerStops == <>(failed \/ \A s \in Servers : mode[s] = "stopped")

=============================================================================
