--------------------------- MODULE ServerStartup ----------------------------
(***************************************************************************)
(* How the KitFox processes of a parallel simulation start: kitfox_t's     *)
(* connect and configure with server_t's connect_server,                   *)
(* connect_remote_component and ready, and the calls between servers that  *)
(* init_pseudo_component makes.  ServerRpc takes over when every server    *)
(* listens.                                                                *)
(*                                                                         *)
(* Each process has a configuration of its own.  It lists the components   *)
(* of this process and, as remote placeholders, those of other processes   *)
(* that are their supersets or subsets.  While it creates its components a *)
(* process asks the others for the IDs of remote subsets, and answers no   *)
(* such request before it listens.  Then it initializes its components:    *)
(* the areas of their subsets are added up and the floorplans of thermal   *)
(* libraries looked up, in other processes when they are remote.  These    *)
(* requests have the higher priority: a server that waits answers them.    *)
(***************************************************************************)
EXTENDS Integers, Sequences, FiniteSets, Functions

CONSTANTS
    NumRanks,     \* the size of KITFOX_COMM
    Names,        \* the names of components
    Deployments   \* the sets of configurations to start with

Servers == 0 .. NumRanks - 1

Invalid == 0        \* INVALID_COMP_ID
NoComp  == "none"   \* no superset
NoCall  == "none"   \* no response is awaited
Top     == "top"    \* the list of a configuration's uppermost components

ASSUME RanksAssumption == NumRanks \in Nat /\ NumRanks >= 2
ASSUME NamesAssumption == IsFiniteSet(Names) /\ {NoComp, Top} \cap Names = {}

Ranges == Nat \X Nat   \* (component_id.start, component_id.end)

\* In deployment d the configuration of s lists these components below n
Below(d, s, n) == {d.subset[s][n][i] : i \in DOMAIN d.subset[s][n]}

\* remote[s] are the placeholders of s, floorplan[s][n] what the thermal library
\* of n is for, published[s] is component_id_range when
\* the program calls connect, configured[s] what read_config makes of it, which
\* begins after INVALID_COMP_ID.  A component's name is its path, so that all
\* configurations list it below the same component, and it is local to one
\* process at most.
ASSUME DeploymentsAssumption ==
    \A d \in Deployments :
      /\ d.subset \in [Servers -> [Names \cup {Top} -> Seq(Names)]]
      /\ d.remote \in [Servers -> SUBSET Names]
      /\ d.floorplan \in [Servers -> [Names -> Seq(Names)]]
      /\ d.published \in [Servers -> Ranges]
      /\ d.configured \in [Servers -> Ranges]
      /\ \A s \in Servers : /\ d.configured[s][1] # Invalid
                            /\ d.configured[s][1] < d.configured[s][2]
      /\ \A s, r \in Servers, p, q \in Names \cup {Top}, n \in Names :
           n \in Below(d, s, p) /\ n \in Below(d, r, q) =>
             p = q /\ (s = r \/ n \in d.remote[s] \cup d.remote[r])

\* A configuration is a tree of libconfig settings: no two below another have
\* one name, and all are below the top.
ASSUME TreesAssumption ==
    \A d \in Deployments, s \in Servers :
      /\ \A n \in Names \cup {Top} : IsInjective(d.subset[s][n])
      /\ \A N \in SUBSET Names :
           (\A n \in N \cup {Top} : Below(d, s, n) \subseteq N)
             => \A n \in Names : Below(d, s, n) \subseteq N

VARIABLES
    deployment,     \* the configurations, which nothing changes
    net,            \* net[s][r]: the messages of KITFOX_COMM from s to r
    round,          \* round[s]: the argument of connect_server, NumRanks after
    phase,          \* phase[s]: "connect", "configure" or "listen"
    remote_server,  \* remote_server[s]: the other servers, as they connected
    ready,          \* ready[s]: ready_count
    stack,          \* stack[s]: the calls of create_pseudo_component
    component_count,
    id,             \* id[s][n]: the Comp_ID of n in process s
    superset,       \* superset[s][n]: the component above n in process s
    jobs,           \* jobs[s]: init_pseudo_component and process() that are at work
    deferred,       \* deferred[s]: reschedule_buffer
    failed          \* a process called kitfox_t::error

tree == <<component_count, id, superset>>
vars == <<deployment, net, round, phase, remote_server, ready, stack, tree,
          jobs, deferred, failed>>

ServerConnect(range)        == [type |-> "SERVER_CONNECT", range |-> range]
ServerReady                 == [type |-> "SERVER_READY"]
ConnectRemoteReq(parent, n) == [type |-> "CONNECT_REMOTE_COMP_REQ", superset |-> parent, name |-> n]
ConnectRemoteRes(comp)      == [type |-> "CONNECT_REMOTE_COMP_RES", id |-> comp]

\* Requests above KITFOX_MSG_TAG_PRIORITY_BOUND, of a name or an ID, and whether
\* the answer is KITFOX_QUEUE_ERROR_NONE, or an ID
ResponseTo ==
    [GET_COMP_ID_REQ      |-> "GET_COMP_ID_RES",
     SYNCHRONIZE_DATA_REQ |-> "SYNCHRONIZE_DATA_RES",
     PULL_DATA_REQ        |-> "PULL_DATA_RES"]

UrgentTypes == DOMAIN ResponseTo
ResultTypes == {ResponseTo[t] : t \in UrgentTypes}

Request(type, x) == [type |-> type, of |-> x]
Result(type, ok) == [type |-> ResponseTo[type], ok |-> ok]

-----------------------------------------------------------------------------

Subset(s, n) == deployment.subset[s][n]

\* The components that the configuration of s lists, placeholders included
Listed(s) == UNION {Below(deployment, s, n) : n \in Names \cup {Top}}
IsRemote(s, n) == n \in deployment.remote[s]
IsLocal(s, n)  == n \in Listed(s) /\ ~IsRemote(s, n)

Init ==
    /\ deployment \in Deployments
    /\ net = [s \in Servers |-> [r \in Servers |-> <<>>]]
    /\ round = [s \in Servers |-> 0]
    /\ phase = [s \in Servers |-> "connect"]
    /\ remote_server = [s \in Servers |-> <<>>]
    /\ ready = [s \in Servers |-> NumRanks - 1]
    /\ stack = [s \in Servers |-> <<>>]
    /\ component_count = [s \in Servers |-> 0]
    /\ id = [s \in Servers |-> [n \in Names |-> Invalid]]
    /\ superset = [s \in Servers |-> [n \in Names |-> NoComp]]
    /\ jobs = [s \in Servers |-> <<>>]
    /\ deferred = [s \in Servers |-> <<>>]
    /\ failed = FALSE

\* A process that calls kitfox_t::error ends the program
Error == failed' = TRUE

Received(s, r) == [net EXCEPT ![r][s] = Tail(@)]

-----------------------------------------------------------------------------
\* kitfox_t::connect: in round r every other process connects to server r

\* Mutant: the ranges' starts decide alone
IsDisjointStarts(x, y) == x[1] # y[1]

\* server_t::is_disjoint
IsDisjoint(x, y) == x[1] > y[2] \/ (x[1] < y[1] /\ x[2] < y[1])

ConnectSend(s) ==
    /\ phase[s] = "connect"
    /\ round[s] \in Servers \ {s}
    /\ net' = [net EXCEPT ![s][round[s]] =
                  Append(@, ServerConnect(deployment.published[s]))]
    /\ round' = [round EXCEPT ![s] = @ + 1]
    /\ UNCHANGED <<deployment, jobs, phase, remote_server, ready, stack, tree, deferred, failed>>

ConnectRecv(s, r) ==
    LET m == Head(net[r][s]) IN
    /\ phase[s] = "connect"
    /\ round[s] = s
    /\ net[r][s] # <<>>
    /\ IF IsDisjoint(m.range, deployment.published[s])
         THEN /\ remote_server' = [remote_server EXCEPT ![s] = Append(@, r)]
              /\ round' = [round EXCEPT ![s] =
                              IF Len(remote_server'[s]) = NumRanks - 1 THEN @ + 1 ELSE @]
              /\ UNCHANGED failed
         ELSE Error /\ UNCHANGED <<remote_server, round>>
    /\ net' = Received(s, r)
    /\ UNCHANGED <<deployment, jobs, phase, ready, stack, tree, deferred>>

-----------------------------------------------------------------------------
\* kitfox_t::configure: after a barrier, create_pseudo_component recurses.  A
\* call is at the child-th of its component's subsets, 0 before it creates the
\* component, and waits while connect_remote_component does.

Call(n) == [comp |-> n, child |-> 0, waits |-> FALSE]

\* Mutant: the others are told before the components are created
ConfigureAndReady(s) ==
    /\ phase[s] = "connect"
    /\ \A r \in Servers : round[r] = NumRanks
    /\ phase' = [phase EXCEPT ![s] = "configure"]
    /\ stack' = [stack EXCEPT ![s] = <<[Call(Top) EXCEPT !.child = 1]>>]
    /\ net' = [net EXCEPT ![s] = [r \in Servers |->
                  IF r = s THEN <<>> ELSE Append(@[r], ServerReady)]]
    /\ UNCHANGED <<deployment, jobs, round, remote_server, ready, tree, deferred, failed>>

Configure(s) ==
    /\ phase[s] = "connect"
    /\ \A r \in Servers : round[r] = NumRanks
    /\ phase' = [phase EXCEPT ![s] = "configure"]
    /\ stack' = [stack EXCEPT ![s] = <<[Call(Top) EXCEPT !.child = 1]>>]
    /\ UNCHANGED <<deployment, jobs, net, round, remote_server, ready, tree, deferred, failed>>

\* A step inside s that only changes the stack
Continue(s, calls) == stack' = [stack EXCEPT ![s] = calls]

Running(s) == stack[s] # <<>> /\ ~Head(stack[s]).waits

\* Mutant: the range is exhausted one component too early
GetNewCompIdEarly(s, n) ==
    LET range == deployment.configured[s] IN
    /\ component_count' = [component_count EXCEPT ![s] = @ + 1]
    /\ IF component_count'[s] = range[2] - range[1]
         THEN Error /\ UNCHANGED id
         ELSE /\ id' = [id EXCEPT ![s][n] = component_count'[s] + range[1] - 1]
              /\ UNCHANGED failed

\* kitfox_t::get_new_comp_id
GetNewCompId(s, n) ==
    LET range == deployment.configured[s] IN
    /\ component_count' = [component_count EXCEPT ![s] = @ + 1]
    /\ IF component_count'[s] = range[2] - range[1] + 1
         THEN Error /\ UNCHANGED id
         ELSE /\ id' = [id EXCEPT ![s][n] = component_count'[s] + range[1] - 1]
              /\ UNCHANGED failed

\* create_pseudo_component starts: a component with an ID or a placeholder
Create(s) ==
    LET f == Head(stack[s]) IN
    /\ Running(s)
    /\ f.child = 0
    /\ Continue(s, <<[f EXCEPT !.child = 1]>> \o Tail(stack[s]))
    /\ IF IsRemote(s, f.comp)
         THEN UNCHANGED <<component_count, id, failed>>
         ELSE GetNewCompId(s, f.comp)
    /\ UNCHANGED <<deployment, jobs, net, round, phase, remote_server, ready, superset, deferred>>

NextSubset(s) ==
    LET f == Head(stack[s]) IN
    /\ Running(s)
    /\ f.child \in DOMAIN Subset(s, f.comp)
    /\ Continue(s, <<Call(Subset(s, f.comp)[f.child])>> \o stack[s])
    /\ UNCHANGED <<deployment, jobs, net, round, phase, remote_server, ready, tree, deferred, failed>>

\* add_subset, and the caller goes on with its next subset
AddSubset(s) ==
    LET n      == Head(stack[s]).comp
        parent == stack[s][2]
    IN  /\ superset' = [superset EXCEPT ![s][n] =
                           IF parent.comp = Top THEN @ ELSE parent.comp]
        /\ Continue(s, <<[parent EXCEPT !.child = @ + 1]>> \o SubSeq(stack[s], 3, Len(stack[s])))

\* create_pseudo_component returns, to a caller that has nothing to ask ...
ReturnLocally(s) ==
    LET n      == Head(stack[s]).comp
        parent == stack[s][2].comp
    IN  /\ Running(s)
        /\ Len(stack[s]) > 1
        /\ Head(stack[s]).child > Len(Subset(s, n))
        /\ parent = Top \/ IsRemote(s, parent) \/ ~IsRemote(s, n)
        /\ AddSubset(s)
        /\ UNCHANGED <<deployment, jobs, net, round, phase, remote_server, ready,
                       component_count, id, deferred, failed>>

\* ... or to a local one of a remote subset: the request is meant for all
\* servers but the first answers or exits
ConnectRemoteComponent(s) ==
    LET f      == Head(stack[s])
        parent == stack[s][2].comp
    IN  /\ Running(s)
        /\ Len(stack[s]) > 1
        /\ f.child > Len(Subset(s, f.comp))
        /\ parent # Top /\ ~IsRemote(s, parent) /\ IsRemote(s, f.comp)
        /\ net' = [net EXCEPT ![s][Head(remote_server[s])] =
                      Append(@, ConnectRemoteReq(id[s][parent], f.comp))]
        /\ Continue(s, <<[f EXCEPT !.waits = TRUE]>> \o Tail(stack[s]))
        /\ UNCHANGED <<deployment, jobs, round, phase, remote_server, ready, tree, deferred, failed>>

Waiting(s) == stack[s] # <<>> /\ Head(stack[s]).waits

\* What the innermost call of s is blocked for in MPI_Recv
Awaited(s) ==
    IF jobs[s] # <<>> THEN Head(jobs[s]).awaits
    ELSE IF Waiting(s) THEN "CONNECT_REMOTE_COMP_RES" ELSE NoCall

Blocked(s) == Awaited(s) # NoCall

\* connect_remote_component has its response, from whichever server
RecvResponse(s, r) ==
    LET m == Head(net[r][s]) IN
    /\ Waiting(s)
    /\ jobs[s] = <<>>
    /\ net[r][s] # <<>>
    /\ m.type = "CONNECT_REMOTE_COMP_RES"
    /\ id' = [id EXCEPT ![s][Head(stack[s]).comp] = m.id]
    /\ AddSubset(s)
    /\ net' = Received(s, r)
    /\ UNCHANGED <<deployment, jobs, round, phase, remote_server, ready, component_count, deferred, failed>>

\* Mutant: what is received while waiting is not kept
RescheduleDropped(s, r) ==
    LET m == Head(net[r][s]) IN
    /\ Blocked(s)
    /\ net[r][s] # <<>>
    /\ m.type # Awaited(s) /\ m.type \notin UrgentTypes
    /\ net' = Received(s, r)
    /\ UNCHANGED <<deployment, jobs, round, phase, remote_server, ready, stack, tree, deferred, failed>>

\* reschedule: what is neither awaited nor urgent is put aside
Reschedule(s, r) ==
    LET m == Head(net[r][s]) IN
    /\ Blocked(s)
    /\ net[r][s] # <<>>
    /\ m.type # Awaited(s) /\ m.type \notin UrgentTypes
    /\ deferred' = [deferred EXCEPT ![s] = Append(@, [msg |-> m, from |-> r])]
    /\ net' = Received(s, r)
    /\ UNCHANGED <<deployment, jobs, round, phase, remote_server, ready, stack, tree, failed>>

-----------------------------------------------------------------------------
\* init_pseudo_component, and process() on SYNCHRONIZE_DATA_REQ.  Both are jobs:
\* calls still to make, the first of which is at work and may wait for another
\* server.  The data are areas (KITFOX_DATA_DIMENSION); only whether there is an
\* answer matters here.  Every queue of them is open, and a local pull succeeds.

Task(fn, x) == [fn |-> fn, of |-> x]

Job(from, tasks) == [from |-> from, tasks |-> tasks, awaits |-> NoCall, ok |-> TRUE]

\* One call of fn for each of q
Each(fn, q) == [i \in DOMAIN q |-> Task(fn, q[i])]

\* name_ID_map and component: what s has created
Created(s, n) == n \in Names /\ IsLocal(s, n) /\ id[s][n] # Invalid
Has(s, i) == \E n \in Names : Created(s, n) /\ id[s][n] = i
Component(s, i) == CHOOSE n \in Names : Created(s, n) /\ id[s][n] = i

\* A call that process s runs itself, whatever further calls it makes
RunsHere(s, t) ==
    \/ t.fn \in {"init", "sync_and_pull"}
    \/ t.fn = "find" /\ Created(s, t.of)
    \/ t.fn \in {"sync", "pull"} /\ Has(s, t.of)

\* init_pseudo_component initializes the subsets first, then the component if
\* it is local; the sum over the subsets and the floorplans may need others.
CallsOf(s, t) ==
    LET n == t.of IN
    CASE t.fn = "init" ->
           Each("init", Subset(s, n)) \o
             (IF IsRemote(s, n) THEN <<>>
              ELSE <<Task("sync", id[s][n])>> \o Each("find", deployment.floorplan[s][n]))
      [] t.fn = "sync" ->
           LET below == Subset(s, Component(s, t.of)) IN
           [i \in DOMAIN below |-> Task("sync_and_pull", id[s][below[i]])]
      [] t.fn = "sync_and_pull" -> <<Task("sync", t.of), Task("pull", t.of)>>
      [] OTHER -> <<>>

\* After all components are created, init_pseudo_component for those at the top
InitComponents(s) ==
    /\ phase[s] = "configure"
    /\ Len(stack[s]) = 1
    /\ Running(s)
    /\ Head(stack[s]).child > Len(Subset(s, Top))
    /\ jobs[s] = <<>>
    /\ jobs' = [jobs EXCEPT ![s] = <<Job(s, Each("init", Subset(s, Top)))>>]
    /\ UNCHANGED <<deployment, net, round, phase, remote_server, ready, stack, tree, deferred, failed>>

\* The job at work in s is about to make call t
Calling(s, t) ==
    /\ jobs[s] # <<>>
    /\ Head(jobs[s]).awaits = NoCall
    /\ Head(jobs[s]).tasks # <<>>
    /\ t = Head(Head(jobs[s]).tasks)

\* The job at work becomes job
Become(s, job) == jobs' = [jobs EXCEPT ![s] = <<job>> \o Tail(@)]

CallHere(s) ==
    LET job == Head(jobs[s])
        t   == Head(job.tasks)
    IN  /\ Calling(s, t)
        /\ RunsHere(s, t)
        /\ Become(s, [job EXCEPT !.tasks = CallsOf(s, t) \o Tail(@)])
        /\ UNCHANGED <<deployment, net, round, phase, remote_server, ready, stack, tree, deferred, failed>>

\* server_t::is_routable: the end of the range is added to its start
IsRoutable(i, range) == range[1] <= i /\ i <= range[1] + range[2]

\* The servers of remote_server that call t may go to, the first of which it
\* does: a floorplan is looked up in each until one has it, and the first
\* answers or exits.
Routes(s, t) ==
    {i \in DOMAIN remote_server[s] :
        t.fn = "find" \/ IsRoutable(t.of, deployment.published[remote_server[s][i]])}

RequestType == [find    |-> "GET_COMP_ID_REQ",
                sync    |-> "SYNCHRONIZE_DATA_REQ",
                forward |-> "SYNCHRONIZE_DATA_REQ",
                pull    |-> "PULL_DATA_REQ"]

RequestOf(t) == Request(RequestType[t.fn], t.of)

\* server_t::synchronize_data, pull_data and get_component_id
CallServer(s) ==
    LET job == Head(jobs[s])
        t   == Head(job.tasks)
    IN  /\ Calling(s, t)
        /\ ~RunsHere(s, t)
        /\ \E i \in Routes(s, t) :
             /\ \A j \in Routes(s, t) : i <= j
             /\ net' = [net EXCEPT ![s][remote_server[s][i]] = Append(@, RequestOf(t))]
        /\ Become(s, [job EXCEPT !.awaits = ResponseTo[RequestOf(t).type]])
        /\ UNCHANGED <<deployment, round, phase, remote_server, ready, stack, tree, deferred, failed>>

\* The call returned.  An error ends the process, unless it was that of a
\* component this process does not have: process() passes it on.
Returned(s, ok) ==
    LET job == Head(jobs[s]) IN
    IF ok \/ Head(job.tasks).fn = "forward"
      THEN /\ Become(s, [job EXCEPT !.tasks = Tail(@), !.awaits = NoCall, !.ok = ok])
           /\ UNCHANGED failed
      ELSE Error /\ UNCHANGED jobs

\* KITFOX_QUEUE_ERROR_INVALID_PSEUDO_COMPONENT: no server has such IDs
CallNobody(s) ==
    LET t == Head(Head(jobs[s]).tasks) IN
    /\ Calling(s, t)
    /\ ~RunsHere(s, t)
    /\ Routes(s, t) = {}
    /\ Returned(s, FALSE)
    /\ UNCHANGED <<deployment, net, round, phase, remote_server, ready, stack, tree, deferred>>

RecvResult(s, r) ==
    LET m == Head(net[r][s]) IN
    /\ jobs[s] # <<>>
    /\ net[r][s] # <<>>
    /\ m.type \in ResultTypes
    /\ m.type = Head(jobs[s]).awaits
    /\ Returned(s, m.ok)
    /\ net' = Received(s, r)
    /\ UNCHANGED <<deployment, round, phase, remote_server, ready, stack, tree, deferred>>

Idle(s) == phase[s] = "listen" /\ jobs[s] = <<>>

\* process() on an urgent request, by a server that listens or waits.  Such a
\* wait goes on below the synchronization of a component ...
ProcessSync(s, r) ==
    LET m == Head(net[r][s]) IN
    /\ Idle(s) \/ Blocked(s)
    /\ net[r][s] # <<>>
    /\ m.type = "SYNCHRONIZE_DATA_REQ"
    /\ jobs' = [jobs EXCEPT ![s] =
                   <<Job(r, <<Task(IF Has(s, m.of) THEN "sync" ELSE "forward", m.of)>>)>> \o @]
    /\ net' = Received(s, r)
    /\ UNCHANGED <<deployment, round, phase, remote_server, ready, stack, tree, deferred, failed>>

\* ... which answers in the end.
Respond(s) ==
    LET job == Head(jobs[s]) IN
    /\ jobs[s] # <<>>
    /\ job.from # s
    /\ job.awaits = NoCall /\ job.tasks = <<>>
    /\ net' = [net EXCEPT ![s][job.from] =
                  Append(@, Result("SYNCHRONIZE_DATA_REQ", job.ok))]
    /\ jobs' = [jobs EXCEPT ![s] = Tail(@)]
    /\ UNCHANGED <<deployment, round, phase, remote_server, ready, stack, tree, deferred, failed>>

\* Servers do not pass on the other two: what this one does not have is an
\* error, in the response or of get_component_id.
ProcessQuery(s, r) ==
    LET m  == Head(net[r][s])
        ok == IF m.type = "PULL_DATA_REQ" THEN Has(s, m.of) ELSE Created(s, m.of)
    IN  /\ Idle(s) \/ Blocked(s)
        /\ net[r][s] # <<>>
        /\ m.type \in {"PULL_DATA_REQ", "GET_COMP_ID_REQ"}
        /\ IF m.type = "PULL_DATA_REQ" \/ ok
             THEN /\ net' = [Received(s, r) EXCEPT ![s][r] = Append(@, Result(m.type, ok))]
                  /\ UNCHANGED failed
             ELSE Error /\ net' = Received(s, r)
        /\ UNCHANGED <<deployment, jobs, round, phase, remote_server, ready, stack, tree, deferred>>

-----------------------------------------------------------------------------
\* The listen loop

Listen(s) ==
    /\ phase[s] = "configure"
    /\ Len(stack[s]) = 1
    /\ Running(s)
    /\ Head(stack[s]).child > Len(Subset(s, Top))
    /\ jobs[s] = <<Job(s, <<>>)>>
    /\ jobs' = [jobs EXCEPT ![s] = <<>>]
    /\ phase' = [phase EXCEPT ![s] = "listen"]
    /\ Continue(s, <<>>)
    /\ net' = [net EXCEPT ![s] = [r \in Servers |->
                  IF r = s THEN <<>> ELSE Append(@[r], ServerReady)]]
    /\ UNCHANGED <<deployment, round, remote_server, ready, tree, deferred, failed>>

\* Mutant: the superset that asked is not noted
ConnectRemoteForgets(s, m) ==
    IF IsLocal(s, m.name) /\ superset[s][m.name] # NoComp
      THEN UNCHANGED <<id, failed>>
      ELSE Error /\ UNCHANGED id

\* kitfox_t::connect_remote_component
ConnectRemote(s, m) ==
    IF IsLocal(s, m.name) /\ superset[s][m.name] # NoComp
      THEN /\ id' = [id EXCEPT ![s][superset[s][m.name]] = m.superset]
           /\ UNCHANGED failed
      ELSE Error /\ UNCHANGED id

\* server_t::process on another message m of r, with the channels as they are
\* then; a response is of an unknown type
ProcessMessage(s, r, m, channels) ==
    IF m.type = "SERVER_READY"
      THEN /\ ready' = [ready EXCEPT ![s] = @ - 1]
           /\ net' = channels
           /\ UNCHANGED <<id, failed>>
      ELSE /\ IF m.type = "CONNECT_REMOTE_COMP_REQ" THEN ConnectRemote(s, m)
                ELSE Error /\ UNCHANGED id
           /\ net' = IF failed' THEN channels
                     ELSE [channels EXCEPT ![s][r] = Append(@, ConnectRemoteRes(id[s][m.name]))]
           /\ UNCHANGED ready

Process(s, r) ==
    /\ Idle(s)
    /\ net[r][s] # <<>>
    /\ Head(net[r][s]).type \notin UrgentTypes
    /\ ProcessMessage(s, r, Head(net[r][s]), Received(s, r))
    /\ UNCHANGED <<deployment, jobs, round, phase, remote_server, stack, component_count, superset, deferred>>

Reprocess(s) ==
    /\ Idle(s)
    /\ deferred[s] # <<>>
    /\ ProcessMessage(s, Head(deferred[s]).from, Head(deferred[s]).msg, net)
    /\ deferred' = [deferred EXCEPT ![s] = Tail(@)]
    /\ UNCHANGED <<deployment, jobs, round, phase, remote_server, stack, component_count, superset>>

-----------------------------------------------------------------------------

\* Initializing its components, and processing what others send for theirs
JobStep(s) ==
    \/ InitComponents(s)
    \/ CallHere(s)
    \/ CallServer(s)
    \/ CallNobody(s)
    \/ Respond(s)
    \/ \E r \in Servers : \/ RecvResult(s, r)
                          \/ ProcessSync(s, r)
                          \/ ProcessQuery(s, r)

ServerStep(s) ==
    /\ ~failed
    /\ \/ ConnectSend(s)
       \/ Configure(s)
       \/ Create(s)
       \/ NextSubset(s)
       \/ ReturnLocally(s)
       \/ ConnectRemoteComponent(s)
       \/ JobStep(s)
       \/ Listen(s)
       \/ Reprocess(s)
       \/ \E r \in Servers : \/ ConnectRecv(s, r)
                             \/ RecvResponse(s, r)
                             \/ Reschedule(s, r)
                             \/ Process(s, r)

Next == \E s \in Servers : ServerStep(s)

\* Every process runs and MPI delivers every message
Fairness == \A s \in Servers : WF_vars(ServerStep(s))

Spec == Init /\ [][Next]_vars /\ Fairness

-----------------------------------------------------------------------------

Messages == {ServerReady}
              \cup {ServerConnect(range) : range \in {d.published[s] : d \in Deployments, s \in Servers}}
              \cup [type : {"CONNECT_REMOTE_COMP_REQ"}, superset : Nat, name : Names]
              \cup [type : {"CONNECT_REMOTE_COMP_RES"}, id : Nat]
              \cup [type : {"GET_COMP_ID_REQ"}, of : Names]
              \cup [type : {"SYNCHRONIZE_DATA_REQ", "PULL_DATA_REQ"}, of : Nat]
              \cup [type : ResultTypes, ok : BOOLEAN]

Tasks == [fn : {"init", "find"}, of : Names]
           \cup [fn : {"sync_and_pull", "sync", "forward", "pull"}, of : Nat]

\* A job waits in the first of its calls
Jobs == {job \in [from : Servers, tasks : Seq(Tasks),
                  awaits : ResultTypes \cup {NoCall}, ok : BOOLEAN] :
           job.awaits # NoCall => job.tasks # <<>>}

\* Types: a process has calls in progress only while it configures, the
\* first of them for the list of all, and waits only in the innermost, its jobs
\* above; what it puts aside is never urgent.
TypeOK ==
    /\ deployment \in Deployments
    /\ \A s, r \in Servers : net[s][r] \in Seq(Messages)
    /\ round \in [Servers -> 0 .. NumRanks]
    /\ phase \in [Servers -> {"connect", "configure", "listen"}]
    /\ ready \in [Servers -> 0 .. NumRanks - 1]
    /\ component_count \in [Servers -> Nat]
    /\ id \in [Servers -> [Names -> Nat]]
    /\ superset \in [Servers -> [Names -> Names \cup {NoComp}]]
    /\ failed \in BOOLEAN
    /\ \A s \in Servers :
         /\ remote_server[s] \in Seq(Servers \ {s})
         /\ (stack[s] # <<>>) = (phase[s] = "configure")
         /\ \A i \in DOMAIN stack[s] :
              /\ stack[s][i].comp \in Names \cup {Top}
              /\ (stack[s][i].comp = Top) = (i = Len(stack[s]))
              /\ stack[s][i].waits => i = 1
         /\ jobs[s] \in Seq(Jobs)
         /\ \A i \in DOMAIN jobs[s] :
              jobs[s][i].awaits = NoCall => i = 1
         /\ \A i \in DOMAIN deferred[s] :
              deferred[s][i].msg.type \in
                {"SERVER_READY", "CONNECT_REMOTE_COMP_REQ", "CONNECT_REMOTE_COMP_RES"} \cup ResultTypes

\* Once connected, processes whose program published the configured ranges
\* never give two components one ID (kitfox.cc:153, "KitFox across multiple
\* MPI ranks must have discrete range of pseudo component IDs"): is_disjoint
\* at every receiver, the limit of get_new_comp_id and the barrier between
\* them are enough.
UniqueIDs ==
    deployment.published = deployment.configured =>
        \A s, r \in Servers, m, n \in Names :
            /\ IsLocal(s, m) /\ IsLocal(r, n)
            /\ id[s][m] = id[r][n] /\ id[s][m] # Invalid
            => s = r /\ m = n

\* The placeholders that process s must bind: remote subsets of local components
RemoteSubsets(s) ==
    {n \in deployment.remote[s] :
        \E p \in Names : IsLocal(s, p) /\ n \in Below(deployment, s, p)}

\* What ServerRpc starts from: the remote subsets of a listening process are
\* bound, both ends know each other's ID (kitfox.cc:725-739), their owner is
\* the server that connected first, and it has been listening before.
ListeningMeansBound ==
    \A s \in Servers : phase[s] = "listen" =>
        \A n \in RemoteSubsets(s) :
            LET r == Head(remote_server[s]) IN
            /\ phase[r] = "listen" /\ IsLocal(r, n)
            /\ id[s][n] = id[r][n] /\ id[r][n] # Invalid
            /\ id[r][superset[r][n]] = id[s][superset[s][n]]

\* "Ping-pong between KITFOX_COMM and INTER_COMM" (kitfox-server.cc:1380): a
\* server turns to its clients, whose calls may need every other server, only
\* when all of them listen.
ReadyMeansListening ==
    \A s \in Servers : ready[s] = 0 => \A r \in Servers : phase[r] = "listen"

NumberOf(q, Matches(_)) == Cardinality({i \in DOMAIN q : Matches(q[i])})

\* A process that waits in connect_remote_component has exactly one request
\* under way, put aside, or answered; one that does not wait has none.  The
\* answer may be put aside too, when it comes within a call that went astray:
\* with ranges that are not published as configured, a process that waits may
\* be asked for what it does not have, pass that on and wait for the result.
NoRequestLost ==
    ~failed => \A s \in Servers :
        LET peer == Head(remote_server[s]) IN
        IF Len(remote_server[s]) < NumRanks - 1
          THEN ~Waiting(s)
          ELSE (IF Waiting(s) THEN 1 ELSE 0) =
                 NumberOf(net[s][peer], LAMBDA m : m.type = "CONNECT_REMOTE_COMP_REQ")
               + NumberOf(deferred[peer], LAMBDA d : /\ d.from = s
                                                     /\ d.msg.type = "CONNECT_REMOTE_COMP_REQ")
               + NumberOf(net[peer][s], LAMBDA m : m.type = "CONNECT_REMOTE_COMP_RES")
               + NumberOf(deferred[s], LAMBDA d : /\ d.from = peer
                                                  /\ d.msg.type = "CONNECT_REMOTE_COMP_RES")

\* What the thermal libraries of process s have as floorplans
Floorplans(s) ==
    UNION {{deployment.floorplan[s][p][i] : i \in DOMAIN deployment.floorplan[s][p]} :
             p \in {n \in Names : IsLocal(s, n)}}

\* A deployment without mistakes: ranges published as they are configured,
\* disjoint and as large as get_new_comp_id wants them, every remote subset
\* local to some process, and no floorplan looked up in a process that need not
\* have created it yet, as one has that was asked for a remote subset.
Sound ==
    /\ deployment.published = deployment.configured
    /\ \A s, r \in Servers :
         s # r => IsDisjoint(deployment.published[r], deployment.published[s])
    /\ \A s \in Servers :
         LET range == deployment.configured[s] IN
         Cardinality({n \in Names : IsLocal(s, n)}) <= range[2] - range[1]
    /\ \A s \in Servers : \A n \in RemoteSubsets(s) : \E r \in Servers : IsLocal(r, n)
    /\ \A s \in Servers : \A n \in Floorplans(s) : IsLocal(s, n) \/ RemoteSubsets(s) # {}

\* Some process has a remote subset, or a floorplan, that is not local to the
\* first server of its list, although every process is listed.
WrongPeer(s) ==
    /\ Len(remote_server[s]) = NumRanks - 1
    /\ \E n \in RemoteSubsets(s) \cup Floorplans(s) :
         ~IsLocal(s, n) /\ ~IsLocal(Head(remote_server[s]), n)

\* A sound deployment starts unless a server asked another than the owner: the
\* components that init_pseudo_component synchronizes are bound, their IDs
\* routed to their owners, and no request finds a server without them.
ExitsOnlyAtWrongPeer == failed /\ Sound => \E s \in Servers : WrongPeer(s)

\* "If INVALID_COMP_ID is returned, the superset component is notified that no
\* subset component with ComponentName is found, and the KitFox initialization
\* fails" (kitfox.cc:749-750), the only reason for a sound deployment to fail.
\* In the code the first server asked exits itself, and which one that is
\* depends on the order in which the processes connected.
SoundDeploymentsStart == Sound => ~failed

\* A process asks the first server of its list for its remote subsets
Asks(s, r) ==
    /\ Len(remote_server[s]) = NumRanks - 1
    /\ r = Head(remote_server[s])
    /\ RemoteSubsets(s) # {}

\* Processes that ask each other in a circle, each of which waits before it
\* listens; and two that ask one that asks in turn: their requests nest there,
\* and an inner wait may take the response of the outer one (ServerRpc's
\* EveryCallReturns does not hold either).
Circular == \E N \in SUBSET Servers \ {{}} : \A s \in N : \E r \in N : Asks(s, r)
Crossing == \E p, q, s, r \in Servers : p # q /\ Asks(p, s) /\ Asks(q, s) /\ Asks(s, r)

\* "Process them later" (kitfox-server.cc:220): every process comes to listen
\* and to serve its clients, unless the program exits, a process asked another
\* than the owner, which may be waiting for it, or the processes ask each other
\* in a circle or across.
EveryServerListens ==
    <>(\/ \A s \in Servers : phase[s] = "listen" /\ ready[s] = 0
       \/ failed
       \/ \E s \in Servers : WrongPeer(s)
       \/ Circular \/ Crossing)

=============================================================================
