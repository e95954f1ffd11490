# A TLA+ model of KitFox

KitFox (`src/`) couples a processor simulator with third-party models of
power, temperature and reliability.  A configuration describes a tree of
*pseudo components*; every component keeps its data in time-tagged *data
queues*, and leaves (or packages) carry a *model library*.  In a parallel
simulation the tree is spread over several MPI processes, each running a KitFox
*server*, and simulators talk to the servers through *clients*.

What is hard in this program is not the physics but the bookkeeping: queues
whose time tags are compared with a tolerance; data that must spread over a tree
and reach every library that depends on them; servers that call each other
recursively over a message layer that matches responses by type, after a startup
in which every process asks others that are starting, too, and before a shutdown
that every process has to find out by counting.


## 1. Inventory

| Part | Source | State | Operations | Hard because |
|---|---|---|---|---|
| Time tags | `queue.cc` `data_time_t` | time, period | truncate, compare with tolerance | `operator<` is no strict weak order; sampling points are floating point |
| Data queue | `queue.h` `data_queue_t`, `queue_t` | a `std::map` from tags to data, an error code, a library | create, push_back, overwrite, get, callback, reset | periods derived from the newest entry, flushes, evictions |
| Calculations | `kitfox.cc` `calculate_*` | none of their own | library call, push, pull, sync | ignored error codes; previous sampling point computed by subtraction |
| Synchronization | `kitfox.cc` `synchronize_data` | the queues of a subtree | recursive pull and overwrite | recursion leaves the process |
| Component tree | `component.cc`, `kitfox.cc` `configure`... | tree, IDs, placeholders | create, bind remote components, init | binding and the areas of remote subsets are calls to other processes that are doing the same |
| Server | `kitfox-server.cc` | buffers, `client_response`, `reschedule_buffer`, `ready_count`, connections | listen, process, reschedule, reprocess, the remote calls | process() nests on the C++ stack; members are shared by nested calls |
| Client | `kitfox-client.h` | buffers | blocking and non-blocking calls | takes the next message for its answer |
| Routing | `kitfox-server.cc` `is_routable`... | ID ranges | connect, find a server | off-by-a-range bound |
| Lifecycle | `kitfox-server.cc` `connect_server`, `ready`, `disconnect_server` | counters of connections | connect, ready, disconnect | termination by counting |
| Threads | `threader.cc` | joinable threads | init in parallel | server buffers without a lock |
| Energy libraries | `library/energylib_*` | operating point, energies of an access, McPAT's globals | initialize, update a variable, unit energy, TDP and runtime power | energies that are stale for the operating point; globals shared by components |
| Thermal libraries | `library/thermallib_*` | floorplans, their powers, temperatures | initialize, map a power, calculate, read a floorplan | powers of another interval; names and order of floorplans |
| Reliability library | `library/reliabilitylib_failure` | ambient temperature, targets | initialize, failure rate | accumulation over sampling points |
| Examples | `test_main/` | none | the calculation sequence | the order that makes the parts fit |

How they interact: the simulator calls `calculate_power` for the leaves; the
library's result is *pushed* into the leaf's power queue.  When somebody asks
for the power of an inner component, `synchronize_data` walks down the tree,
*pulls* the sub-components' powers and *overwrites* the sum into the inner
component's queue.  Every push and overwrite *calls back* the component's
library with the datum.  Whenever a component lives in another process the walk
becomes a request to its server, which walks on from there, perhaps back into
the process the walk came from; that is why a waiting server must process
requests.

What makes each part correct: a queue stays ordered, bounded and contiguous,
loses nothing without an error code, and returns what was written (3.1); a
simulator with a fixed sampling period sees a plain window of samples (3.2); the
servers together behave like one tree that sums up its leaves, every call
returns, and no message is lost, sent twice or sent to nobody (3.3); a process
that listens is bound to the owners of its remote components, no two components
share an ID, and every process comes to listen (3.4); nobody stops listening who
may still be called, and everybody stops in the end (3.5); after every step of a
simulation sums, temperatures and failure rates are those of the sampling point,
and every library is at the operating point of its component's queues (3.6).


## 2. Modules

| Module | Models |
|---|---|
| `DataTime` | `data_time_t`: truncation and all comparisons, in integers |
| `DataQueueOps` | `data_queue_t` as functions from a queue to a queue and an error |
| `DataQueue` | one queue from creation to destruction, with its callback; any caller |
| `SampledSignal` | abstract: a window of the last samples, no errors |
| `SampledQueue` | `DataQueueOps` called as `calculate_*` and `synchronize_data` call it, with floating-point jitter; implements `SampledSignal` |
| `ComponentTree` | the finished tree and the power each component should have |
| `PowerAggregation` | abstract: components are filled in from their sub-components |
| `ServerStartup` | `connect`, `configure`, the binding of remote components and the calls of `init_pseudo_component` to other servers, up to `listen` |
| `ServerRpc` | from there on: servers, clients, their messages and call stacks; implements `PowerAggregation` |
| `ServerLifecycle` | clients and servers coming and going, routing by ID, up to the end of every server |
| `KitfoxState` | what one process holds, as a record; settings lookup, powers, dimensions, the queues of a component |
| `LibrarySettings` | the settings every library requires and the names it knows; it exits otherwise |
| `EnergyLibraries` | the adapters of McPAT, DSENT, IntSim, TSV and DRAMsim |
| `ThermalLibraries` | the adapters of HotSpot, 3D-ICE and microfluidics, and the failure model |
| `Kitfox` | `kitfox_t` in one process: creation, writes with callbacks, synchronization, calculations |
| `Simulation` | a simulator that drives `Kitfox` through the calculation sequence |
| `DataQueueLemmas` | lemmas about the operators of `DataTime` and `DataQueueOps` |
| `DataQueueProofs`, `SampledQueueProofs` | proofs about `DataQueue` and `SampledQueue` |
| `MessageLemmas` | lemmas about channels: what an announcement that every server makes once leaves where, and counting the messages of a kind |
| `ServerStartupProofs`, `ServerReadyProofs` | proofs about `ServerStartup` |
| `ServerLifecycleProofs`, `ServerRpcProofs` | proofs about `ServerLifecycle` and `ServerRpc` |
| `MCDataQueue`, `MCSampledQueue`, `MCServerRpc`, `MCServerStartup`, `MCServerLifecycle`, `MCSimulation` | instances for TLC |

Two lines of modules meet at the data queue.  `DataTime` and `DataQueueOps` carry
`DataQueue` and `SampledQueue`, and through `KitfoxState` also `Kitfox` and
`Simulation`: the simulation runs on the very operators that are checked and
proved alone.  `ServerStartup`, `ServerRpc` and `ServerLifecycle` are three
phases of the same servers: what the first guarantees (`ListeningMeansBound`,
`ReadyMeansListening`) is what the others start from; the second looks at the
data in the messages, the third at where they go and when they stop.

Operators named as mutants stand before the definition they vary; nothing uses
them.  They record small bugs that the properties are known to detect.


## 3. What is modelled and checked

### 3.1 The data queue (`DataTime`, `DataQueueOps`, `DataQueue`)

A tag `(time, period)` stands for the interval `(time - period, time]`.  Times
are integers; `Grid` raw units are the grid of `get_trunc_time`, and
`MAX_TIME_PRECISION` is two grid units.  A raw time need not lie on the grid.
`MAX_TIME` truncates to an infinity that equals nothing, itself included.  The
arithmetic is exact: ties at precisely one precision, which floating-point
rounding decides either way in the program, are decided as written.

The map is the sequence of its entries in key order.  `Insert` is
`std::map::insert` including its no-op on an equivalent key; `Fit` is the
eviction loop; `PushBack`, `Overwrite` and `Get` follow the branches of the three
methods.  A read that misses returns whatever the caller's local holds: any
value.  `DataQueue` calls them with any arguments in any order.

| Run | Instance | Shows |
|---|---|---|
| `queue` | closed queue, times 0, 8, 11, 16, 19 on and off the grid, periods none, infinite, 8 and 11; closed queue at the neighbouring times 8..13 with periods none, 1, 4 and 8; open queue | order, capacity, contiguity, read-your-write, the library's datum is stored, no silent loss |

An overwrite whose period is `MAX_TIME` never replaces: infinity equals nothing,
so the entry written with the identical tag is missed, and the queue is flushed
for the new one.  This shows at once when the model is asked for it; in the
program it happens during initialization only, where the entry lost says nothing
else.

*Bounds.*  `Grid = 2`, two data, and room for two entries.  Every method looks at
the newest entry, at one matching entry, and at the oldest on eviction; before
the eviction there are three entries, which makes these different.  The times
include equal, adjacent-within-precision, contiguous, overlapping and distant
pairs.  `NoOverlapOrGap` and `LibraryHasStoredDatum` assume that specified
periods span two precisions: below that the tolerance is as large as the
interval and the code promises nothing.

### 3.2 The queue of a sampling simulator (`SampledQueue`)

The simulator samples at `n * Step`.  Each call computes its own time and period,
each up to `Jitter` raw units off, so that truncation may put two tags of one
sample on different grid points.  The actions are the queue operations of
`calculate_power` (push, ignore the error, pull), of `calculate_failure_rate`
(pull the previous sample, push, assert), and the pulls and overwrites of
synchronization.  The run `sampled` shows that this implements `SampledSignal`
step by step: the program never exits, no sample is lost, none is taken for
another.  `3 * Jitter < Grid` is the accuracy it needs; `Size` and `MaxSamples`
let the window fill and slide.

This is what lets the next model keep one datum per component.

### 3.3 Servers and clients (`ServerRpc`)

A server is one thread; its C++ stack is the sequence `stack[s]` of frames
`process`, `synchronize_data` and `MPI_Recv`.  One action is one step between two
points where another process can be noticed:

| Action | Code |
|---|---|
| `ListenServer`, `ListenClient` | a probe of `listen` that finds a message; clients only once `ready_count` is 0 |
| `Reprocess` | `reprocess`, one round of its loop |
| `RecvRequest` | `reschedule` with a request: nested `process()` |
| `RecvOther` | `reschedule` with another message: into `reschedule_buffer` |
| `RecvResponse` | the awaited type arrives, from anywhere |
| `SyncEntry`, `SyncChild`, `PullChild`, `SyncReturn` | `synchronize_data` of power data |
| `HandleSync`, `HandlePull`, `HandlePower`, `Respond` | the cases of `process()` and its end |
| `ClientCall`, `ClientReturn` | a call of `client_t` and its blocking receive |

*Abstractions.*  One data type (power) and one sampling point.  The calls
`synchronize_data`, `synchronize_and_pull_data`, `pull_data` (between servers)
and `calculate_power` with and without waiting; the other calls have the same
shape.  `MPI_Send` of a 512-byte message is buffered.  MPI is in order between
two ranks, and nothing more.  Servers start in `listen` with their
`SERVER_READY` messages sent, and `ready_count` counts them.

*Deployments.*  `DeploymentAssumption` allows what gets through
`ServerStartup`: the remote sub-components of a server all belong to the server
that connected to it first (`Peer`), and the servers ask each other in no cycle.
So a call chain never comes back to a server, and the instances are lines.

| Run | Instance | Shows |
|---|---|---|
| `rpc` | three trees over s1 → s2 → s3: simulators at s1 and s2 on trees of their own, or simulators at both ends of one tree over all three | requests nest on waits, `SERVER_READY` is deferred and reprocessed, all calls return with the right sums; a call that comes before the power it needs ends the program at that leaf, and no wrong sum is stored |
| `rpc_stuck` | clients at s1 and s2 both need `cluster` of s2 | **violated**: one waits forever (`EveryCallReturns`) |
| `rpc_stray` | client of s2 calculates the power of `sram` in s3 without waiting, while s1 asks s2 | **violated**: a message to a client that waits for nothing (`OnlyAwaitedReplies`) |

In `rpc_stuck`, s2 waits for s3 to synchronize `sram` on behalf of its own client
when the request of s1 arrives; it is processed on top of the wait and asks s3
the same again.  The inner wait takes the first response, goes on to pull `sram`,
and meets the second response while it waits for the datum: another type, put
aside for `reprocess`, which only runs in the listen loop.  The outer wait never
ends.

`ImplementsAggregation` is the refinement: whatever the messages do, a component
is only filled in with the sum of its sub-components' powers, and a client only
told the power of some component.  `NoCallLost` counts: a server has as many
waits as it has requests under way to its first peer, calls of `process()` for
it there, responses on the way back, and responses put aside; nothing of it is
anywhere else.  It implies that an idle server has put no response aside, so that
`reprocess` only ever finds `SERVER_READY`.  `NoReadyLost` says the same of
`ready_count` and the announcements.

The counts hold for whatever the clients ask.  What is *in* a response is another
matter: `reschedule` takes any message of the awaited type, so which call of a
server gets which response depends on how calls nest.  `SumsAreTotals`
and `FailsAtLeavesOnly` are therefore properties of the programs of the run `rpc`,
`OnlyAwaitedReplies` is one of programs that section 4.3 delimits, and `rpc_stuck`
and `rpc_stray` show programs for which calls are mixed up.

*Bounds.*  Programs are finite sequences of calls that cover every request, with
and without waiting, repeated pulls of known sums, and calls from both ends.  A
line of three servers is the shortest in which a server answers one and asks
another; three levels of components make synchronization recurse in each.  The
watts are powers of two: a wrong sum shows which leaf is missing.

*Fairness.*  Weak fairness of each server's steps (the process is scheduled, and
its probe eventually finds a message that stays there) and of each client's
receive.  Clients need not make calls.

*Deadlock* is checked in `rpc`, where the only final states are those with every
program ended or a process exited.  It is not checked where a client may wait
forever (the violated runs), nor where the system ends: servers that start and
then listen, servers that stop, a queue whose component is destroyed, a
simulation after its last sampling point.

### 3.4 Startup (`ServerStartup`)

Each process runs `connect`, passes the barrier in `configure`, creates its
components recursively, initializes them and listens.  `deployment` is what the
configuration files say: per process, the list of subsets of every component, the
remote placeholders, the floorplans of thermal libraries, and the ID ranges, both
as the program published them before `connect` and as `read_config` reads them.

| Action | Code |
|---|---|
| `ConnectSend`, `ConnectRecv` | one round of `connect_server`, either side; `add_kitfox_server` with `is_disjoint` |
| `Configure` | the barrier and the start of the component list |
| `Create` | the first half of `create_pseudo_component`: component or placeholder, `get_new_comp_id` |
| `NextSubset`, `ReturnLocally` | its recursion; `add_subset` |
| `ConnectRemoteComponent`, `RecvResponse` | `connect_remote_component`: ask, be answered |
| `InitComponents`, `CallHere` | `init_pseudo_component` and the calls that a process runs itself: `synchronize_data` of areas, recursively, `get_component_id` of floorplans |
| `CallServer`, `CallNobody`, `RecvResult` | `server_t::synchronize_data`, `pull_data` and `get_component_id`: route, ask, be answered, or exit |
| `ProcessSync`, `ProcessQuery`, `Respond` | the three requests in `process()`, also on top of a wait |
| `Reschedule` | what a waiting server puts aside |
| `Listen` | the end of `configure`, `ready` |
| `Process`, `Reprocess` | the listen loop: `SERVER_READY`, `CONNECT_REMOTE_COMP_REQ`, and the exit for an unknown message |

Requests for remote components have the *lower* priority: a process that waits
for an answer does not give one.  And although the request is broadcast, the
first server asked either has the component or exits.  Which one is first is
the order in which the processes connected.

*Initialization.*  `init_pseudo_component` goes from the bottom to the top, and for
each local component adds up the areas (`KITFOX_DATA_DIMENSION`) of its subsets,
with `synchronize_and_pull_data` for each of them (kitfox.cc:546, 872-885).  For a
remote subset these are two calls to its owner, which adds up what is below it,
perhaps in a third process.  A thermal library also asks for the IDs of its
floorplans (kitfox.cc:613).  All three requests have the *higher* priority: a
process that waits runs them on top of its wait, one that creates or initializes
components does not look at them, and one that listens processes them.  `jobs[s]` is
that stack: a job is `init_pseudo_component` of the whole list, or one `process()` of
`SYNCHRONIZE_DATA_REQ`, as the calls it has still to make, innermost first.  Only the
innermost job runs.  Areas are not part of the module, only whether a call returns
without an error: an error ends the process (kitfox.cc:881-883), but for a
`SYNCHRONIZE_DATA_REQ` of a component that is not local, which is passed on and whose
result is the response.  A component is routed by the published ranges
(`is_routable`, with its bound beyond the range), to the first server that fits.

*What may go wrong.*  `WrongPeer` names the states where the first server of a list
is not the owner of a remote subset or a floorplan; `ExitsOnlyAtWrongPeer` and
`EveryServerListens` say that a sound deployment fails for no other reason.  What
makes a deployment `Sound` are ranges published as configured, disjoint and large
enough, remote subsets that exist, and floorplans that are local or looked up by a
process with a remote subset: only such a process has been answered by its first
server, which therefore has created all its components; any other asks a server that
may not be so far, and that then exits.  Two shapes of deployment may wait forever
and are excepted from `EveryServerListens`: `Circular`, processes that ask each other
in a circle, each of which puts the other's request aside; and `Crossing`, two
processes that ask one that asks in turn.  There the requests for areas nest as the
calls of `rpc_stuck` do (3.3): the inner wait takes the response of the outer one, and
the outer may never end.  That takes four processes, as with the askers 0 → 1, 3 → 1
and 1 → 2 (with three, the one asked must be one of the askers, which is a circle);
the instance has neither shape, its line is 0 → 1 → 2 and its star 1 → 0 and 2 → 0.
Four processes do not fit the time of a run.

| Run | Instance | Shows |
|---|---|---|
| `startup_sound` | a line with floorplans and a star of three processes; the line with a range too small, with ranges that overlap, connected before `configure` read the ranges, with IDs that nobody published or another process did, and with a floorplan that its process may not have created yet | all properties |
| `startup_race` | the line | **violated**: in some order of connecting it exits (`SoundDeploymentsStart`) |

`ListeningMeansBound` and `ReadyMeansListening` are what `ServerRpc` starts from.
`NoRequestLost` follows each request of `connect_remote_component` until its answer
is received.  The answer can be put aside too: if the ranges are not published as
configured, a request for areas may go astray to a process that waits for a binding,
which passes it on and then waits for the result on top.  `UniqueIDs` likewise speaks
of published ranges.  A configuration names each component once, and one owner each.
The other queues and the libraries are initialized in `Kitfox` (3.6).
`is_parallelizable` components are initialized one after the other (section 5).

*Bounds.*  Three processes: with two the first server is the only one.  Each of
four components is local to one process, and one process has two, so that IDs
are counted.

*Fairness* is weak fairness of each process's steps, as above.

### 3.5 Lifecycle and routing (`ServerLifecycle`)

A server counts the other servers (`peer_connections`) and its clients
(`client_connections`).  When its last client leaves it takes leave of the other
servers (`disconnect_server`), which empties its list of them and with it its
routes; when nobody is left to call it, it stops listening.

| Action | Code |
|---|---|
| `ListenServer`, `ListenClient`, `Reprocess`, `Receive` | the loop of `listen`, `reprocess`, `reschedule` |
| `ProcessOf`, `Handle` | the cases of `process()` for ready, disconnections and requests |
| `PeerLeaves`, `ClientLeaves`, `Disconnect` | the cases of the disconnections, `disconnect_server` |
| `EndListen` | `active` is false and a probe finds nothing |
| `Connect`, `Call`, `Return`, `Leave` | `client_t`: connect, a call and its answer, disconnect |

*Abstractions.*  A call is a component ID and whether it was found; the data are
the matter of `ServerRpc`.  Every call is for a sampling point of its own, so
that synchronization always goes on to the remote sub-components.  A server that
was told to stop ends at a moment when a probe finds nothing, which may be
earlier or later than the program's loop would see it.

| Run | Instance | Shows |
|---|---|---|
| `lifecycle` | s1 → s2 → s3, simulators of the whole tree at s1 while others come and go at s2 and s3, which may have none | the counters are right while disconnections are deferred, nobody stops who may be called or is waited for, routes stay as long as a server's clients do, all servers stop |
| `lifecycle_route` | a simulator of s1 asks for a component of s3 by its ID | **violated**: sent to s2, which does not know it (`UnknownOnlyWhenCutOff`) |

In `lifecycle_route`, `is_routable` takes the second member of an ID range for a
length, while `read_config` puts the last ID there: with IDs from 11 to 19 the
range of s2 is believed to reach to 30, and 21 of s3 lies in it.

*Limits of the program, and of the instances.*  A server without clients never
takes leave by itself.  Two of them would wait for each other, so every program
of the instances has at most one.  A client that connects after the last one has
left finds a server without routes; it is answered, and may be told that a
component does not exist.

*Bounds.*  Three servers, ranges of ten IDs as `read_config` makes them, and one
component in each with the next as its sub-component.  With three a server can
be waited for by one and wait for another while the third takes leave.

*Fairness.*  Weak fairness of each server's steps and of each client's: messages
arrive, and simulators make their calls and end.  `EveryServerStops` needs both.

### 3.6 A simulation in one process (`Kitfox`, `Simulation`)

The program is sequential here, and one call of the API runs dozens of smaller
ones.  Therefore every function is an operator from worlds to worlds: a record
of all queues, library states, McPAT's globals, and whether the process has
exited.  An action of `Simulation` is one call of the simulator:

| Action | Code |
|---|---|
| `Start` | `new kitfox_t`, `configure`: `create_pseudo_component`, `init_pseudo_component` with the libraries' `initialize` |
| `Advance` | the simulator reaches the next sampling point |
| `Measure` | `push_data` of a temperature sensor |
| `Consume` | `calculate_power` from counters or as TDP, components in any order |
| `Temperature` | `calculate_temperature` of the package |
| `Reliability` | `calculate_failure_rate`, components in any order |
| `Probe` | `synchronize_and_pull_data` of power |
| `Control` | `push_and_synchronize_data` of voltage or clock frequency, `update_library_variable` of the ambient temperature |

What a library is modelled by is what its adapter keeps and when it is brought
up to date: McPAT's inputs, and the global `g_ip` that every `init_interface` and
update redirects, through which a component may read or write the inputs of
another; DSENT's electrical model, which has to be built again to follow an
update; IntSim's chip and its parameters; the powers and temperatures of
floorplans.  Settings that are missing or unknown end the process in
`initialize`; `LibrarySettings` is that list, and the configurations of
`MCSimulation` are complete by it.

*Abstractions.*  The third-party formulas are small integer functions that grow
with temperature, voltage and clock frequency, chosen so that a stale argument
gives another result.  A thermal solution is any of a set (`Fields`): flat, or
rising beyond the range that McPAT accepts.  An access counter is one number,
for all kinds of accesses together.  Strings are names; libconfig has read the
file.  A floorplan name that the process does not know ends it, as in
`get_component_id` without a server (`FloorplansKnown`).

| Run | Instance | Shows |
|---|---|---|
| `simulation` | `Planar`: HotSpot over McPAT and DRAMsim; `Stacked`: 3D-ICE over DSENT, TSV and IntSim on two dies; `Cooled`: microfluidics over a McPAT memory controller and a DSENT link; a failure model in each | the sequence never exits, probes are answered, temperatures reach the lower levels, powers and areas sum up, the solver got the floorplans' powers, every energy library is at its component's operating point, failure rates accumulate, controls reach all below them |
| `sim_tdp` | the same | **violated**: the TDP of inner components stays zero (`TdpSumsUp`) |
| `sim_setting` | two controls at one sampling point | **violated**: a sub-component's own voltage is overwritten (`OwnSettingKept`) |

In `sim_tdp`, the open TDP queue of every component starts with a zero entry at
time 0, and in an open queue an earlier entry answers a read: the component's TDP
counts as known and nothing is summed up.  In `sim_setting`, synchronization
overwrites the sub-components unconditionally, where the documentation promises
that a value of their own is used from there on.

Two places where an operating point is *not* what the queues say are part of the
invariants: a McPAT memory controller copies the temperature its front end was
created with over the new one, and TSV starts at a voltage of its own until the
queue is written.  `McpatAtOperatingPoint` compares, beside the globals, the inputs a
structure is updated from: its temperature and its own tags, so that a component
that went on with the inputs of another would show.  An array's local copy of the
inputs (`l_ip`), in contrast, *is* overwritten: after its clock frequency was updated
`g_ip` points at it, and the next update of another component assigns there.  Until
its own next update of temperature or voltage `get_unit_energy` and the TDP then read
the other's tag width from it (energylib_mcpat.cc:1628, 1955).  Nothing in the
repository says what should happen, so the property leaves `l_ip` out.

*Bounds.*  Two sampling points make a previous failure rate, a stale power and a
stale temperature possible.  The period is the same throughout, as in the examples:
with another one `calculate_failure_rate` does not find the previous sample and
exits, which no property of the sequence could tell from a mistake.  `Grid` is one unit
and `Period` eight, so that
periods span more than two precisions; jitter is the matter of `SampledQueue`.
One control at a sampling point, and one sensor.  The trees have up to four
levels, and each library occurs at least once; the queues of one configuration
are larger than those of the others.

No liveness is stated: a simulation is a finite sequence of calls that the
simulator makes or not.


## 4. What is proved

Every safety property of `DataQueue`, `SampledQueue`, `ServerStartup` and
`ServerLifecycle` that a run confirms but one, and all of `ServerRpc` but three (4.4), are
theorems for every value of the constants that the assumptions allow.  The proofs
have one lemma per action and part of the inductive invariant.

### 4.1 Queues

`DataQueueProofs`, for every queue type, size, grid, set of times, periods and
data, from `GridAssumption` and `QueueAssumption` (times are natural numbers,
periods natural or `MAX_TIME`, the size a natural number):

| Theorem | States |
|---|---|
| `TypeCorrect` | `Spec => []TypeOK` |
| `QueueInOrder` | `Spec => []Sorted` |
| `QueueWithinCapacity` | `Spec => []Bounded` |
| `WritesReadBack` | `Spec => []ReadYourWrite` |
| `IntervalsLinked` | `Spec => []NoOverlapOrGap` |
| `LibraryInStep` | `Spec => []LibraryHasStoredDatum` |
| `NoHistoryLost` | `Spec => NoSilentLoss` |

The inductive invariant is `IInv == TypeOK /\ Sorted /\ Bounded`.  None of the
three is inductive alone: where `Insert` puts an entry is only determined in a
sorted queue; the order of real numbers under a tolerance is transitive because
tags are multiples of the grid that lie a whole precision apart, which is what
`Sorted` says of stored tags; and the bound after an insert and an eviction
depends on the bound before.  The argument: truncation yields a natural number
(`GetTruncTime` lemmas); the insertion point exists because the set of entries
earlier than the new one is a prefix of a sorted queue (`LeastNat` of
`DataQueueLemmas` gives its end); inserting, evicting a prefix, replacing a datum
and flushing each keep the three parts; every action is one of these.

The other four theorems are about the three ways a write can end: accepted,
replaced in place, or the queue started again (`Writes`; `StepKinds` sorts the
actions by them).  `NoOverlapOrGap` is kept because a discrete queue accepts a tag
only when its interval begins where the last one ends, and an eviction or a flush
takes a prefix.  `ReadYourWrite` also needs that a queue with room is never empty
(`NonEmpty`), so that an accepted write did not start the queue again; then a tag
that was inserted or replaced is found by the same tolerant comparison.
`LibraryHasStoredDatum` needs that nobody is told before the library is registered
(`Told`).  In both, the hypothesis that a specified period spans two precisions is
what keeps the map from dropping the new entry as a duplicate.

`SampledQueueProofs`, from `GridAssumption` and `SamplingAssumption` (the
clocks of the callers err by less than a third of a grid unit, and samples are
at least three precisions apart):

| Theorem | States |
|---|---|
| `QueueImplementsSignal` | `Spec => ImplementsSignal`, the refinement of 3.2 |
| `WindowHeld` | `Spec => []HoldsWindow` |
| `SampledTypes` | `Spec => []TypeOK` |

The refinement mapping needs to know which sample an entry stands for.  The
inductive invariant says so (`Holds`): the i-th entry counted from the last has a
tag on the grid within a grid unit and the clock's error of its sampling point,
and a period as near the sampling period.  That tags are on the grid is needed:
two intervals could otherwise lie further than a precision apart by their errors
alone, and the push would be refused.  A second part says that the queue is as
long as the samples taken or its size allow, from which the window follows.  A
step of `Spec` is then a step of `SampledSignal!Next`: an append, a change of the
last datum, a read that finds it, or a stutter.

### 4.2 Startup

`ServerStartupProofs` and `ServerReadyProofs`, for every number of processes, finite
set of names and set of deployments, from `RanksAssumption` (at least two
processes), `NamesAssumption`, `DeploymentsAssumption` and `TreesAssumption`:
configurations are finite lists; a configured range is not empty and begins after
`INVALID_COMP_ID`, which `read_config` checks; a component's name being its path,
all configurations list it below the same component and at most one as its own;
and, a configuration being a tree of libconfig settings that `configure` recurses
into, no component lists another twice and all are below the top.  That ranges are
disjoint or large enough is not assumed.

| Theorem | States |
|---|---|
| `UniqueIDsHolds` | `Spec => []UniqueIDs` |
| `StartupTypes` | `Spec => []TypeOK` |
| `AllListenWhenReady` | `Spec => []ReadyMeansListening` |
| `RequestsKept` | `Spec => []NoRequestLost` |
| `ListeningServersBound` | `Spec => []ListeningMeansBound` |
| `BindingExitsAtWrongPeer` | `Spec => [][BindingExits]_vars` |

The inductive invariant of the first is `IInv`, the conjunction of seven parts:

| Part | Says | Needed because |
|---|---|---|
| `Types` | types of the variables | |
| `Connected` | who is in `remote_server` connected once and has a disjoint range; who left its own round has all | `connect_server` compares ranges one at a time |
| `Connecting` | before the barrier the only message from one process to another is its range, once | what is compared is what the sender published |
| `PastBarrier` | whoever configures does so after all connected | IDs are given after all comparisons |
| `Nested` | the calls of `create_pseudo_component` follow the configuration; so does `superset` | only an own component is given a new ID, only a remote one waits |
| `Asked` | a request under way or put aside is about a remote subset of an own component of the asker | the ID that a request carries goes into a placeholder |
| `Numbered` | IDs of own components lie in the range, below the next one, and differ | the property itself, for one process |

With `NumRanks - 1` different servers in a list of others, none is missing (a
pigeonhole argument, `AllDisjoint`), so that the ranges of any two processes are
disjoint when one of them gives its first ID.  The proof that an ID from another
process never overwrites that of an own component (`BindsRemote`) is where the
assumption on names is used.  Every part of `IInv` was found to hold by TLC on
the instance of `startup_sound` before it was proved.

The others rest on `ReadyInv`, which adds to `IInv`:

| Part | Says | Needed because |
|---|---|---|
| `Announcing` | `ready_count` of s is the number of servers whose `SERVER_READY` to s is not yet sent, in the channel, or put aside, each at one of the three and there once | a counter alone says nothing of who is missing |
| `Counting` | who does not listen has heard from nobody | an announcement that comes early is put aside, not counted |
| `Cleared` | once somebody is past the barrier no `SERVER_CONNECT` is left | `reschedule` would put it aside, and `reprocess` has no use for it |
| `InCalls` | there are calls of `create_pseudo_component` exactly while s configures, and only the innermost waits | `TypeOK` and what a response returns to |
| `Working` | of the jobs of `init_pseudo_component` and `process()` all but the innermost wait | `TypeOK` |
| `Deferring` | what was put aside is never urgent | `reprocess` hands it to `process()` |

The jobs of `init_pseudo_component` come into the proofs as one lemma,
`JobStepEffect`: what such a step receives and sends is urgent or its result, and it
changes nothing else but `jobs` and `failed`.  So it disturbs no count of `READY`
messages, requests for bindings or ranges, and only `Types` and `Working` look inside.

`NoRequestLost` is carried as a count beside it (`AskedOnce`): for each pair of
servers, the requests and the responses under way and put aside are one when the
first waits for the second, and none otherwise.

The last two need to know how far the recursion of `create_pseudo_component` has
come.  `BindInv` adds to `ReadyInv` and `AskedOnce`:

| Part | Says | Needed because |
|---|---|---|
| `AllPlaced` | each process has finished some set D of components: closed downwards, of the components of the calls in progress just the subsets they are past, and of others nothing (`Walk`); D are those that know their superset, and with the calls that have begun those that have an ID (`Placed`) | when the call for the top returns D is everything, because everything is below the top; and no more IDs are counted than there are components |
| `Asking` | who waits asks for a remote subset of an own component | only the owner of a component has its ID overwritten elsewhere |
| `Carries` | a request is for what its process waits for, with the ID of the component above it | what the asked server binds is what the asker has |
| `Answers` | a response comes from the first server of the list, which listens, has bound the placeholder above, and tells its ID | what is put into the own placeholder is what the owner has |
| `Bound` | a linked remote subset of an own component has the same ID at both ends, and so has the component above it | `ListeningMeansBound`, once D is everything |

D is a set that the proof chooses, not a variable: the walk lemmas (`WalkCalls`,
`WalkReturns`, `WalkEnds`) say how it grows from call to call.  That a listening
server does not lose a binding again is `KnownKept`: a request that overwrites the
placeholder's ID could only come from its owner, which carries the same ID.

`BindingExits` is the part of `ExitsOnlyAtWrongPeer` up to the end of binding.  Of the
exits in `connect_server`, `get_new_comp_id` and `connect_remote_component`, a sound
deployment takes only the last, and only where a process has a remote subset that
is not local to the first server of its list: disjoint ranges are never refused
(`DisjointConnect`), a range is exhausted by counting only when there are more
components than IDs (`RangeSuffices`), and a request that is refused was for a
component that the server does not have, because a server that listens has linked
all it has (`WrongRequest`).  That the calls of `init_pseudo_component` do not exit
either (kitfox.cc:613, 881-883) is checked by TLC and not proved.

### 4.3 Calls and stopping

`ServerLifecycleProofs`, for every number of servers and clients, from
`LifecycleAssumption` (every server connected to every other, which is what
`ServerStartup` shows; ranges, which need not be those that `read_config` makes,
tell whose a component is; a server is no client, since each has a communicator
of its own):

| Theorem | States |
|---|---|
| `ServersCounted` | `Spec => []ConnectionsCounted` |
| `RoutesKept` | `Spec => ReachableWhileConnected` |
| `LeavesNobodyWaiting` | `Spec => []StopsLast` |

The first has the inductive invariant that `remote` is typed and that every
`SERVER_DISCONNECT` is not yet sent, in its channel, or put aside, once in all
(`Announced`, the same as for `SERVER_READY`; `MessageLemmas` proves once for
both which changes of channels keep it).  What calls send is no
`SERVER_DISCONNECT`, and that is all that need be known of them.  The second
follows from `Farewell`: an `inbox` holds a client's leave only when that client
has left.

The third has a longer invariant, `Owing`: it adds to the first, until a process
exits,

| Part | Says | Needed because |
|---|---|---|
| `Even` | a server waits in as many calls as it has requests under way, calls running at others, and responses on the way back or put aside | a server that waits for nothing has nothing of the kind anywhere |
| `Followed` | behind a request or a `SERVER_READY` in a channel comes the sender's `SERVER_DISCONNECT`, unless it still has the receiver in its list | a server that has processed all leaves has nothing but responses left in its channels |
| `NoRequestAside` | `reschedule` puts no request aside | `reprocess` never starts a call |
| `Gone` | who has left the loop has no routes, no calls, and counts nobody | it answers what is left to answer at once |

`Even` is a sum over all servers and not, as in `CallsBalanced` below, a count for
each pair: with several servers to ask, `reschedule` may take the response of one
for that of another, and only the sum stays right.  As a recursive sum could not
be reasoned about, it is the size of a set with as many elements for each server
as its number says (`SumOver` of `MessageLemmas`).  When a process exits in a
handler, a call is lost and `Even` ends; then nothing moves any more, and
`StopsLast` is kept because the step has taken a message at most.  TLC found the
parts to hold on the instance of the run `lifecycle` before they were proved.

`ServerRpcProofs`, for every tree of components, number of servers and clients
and all programs of the clients, from `TreeAssumption`, `DeploymentAssumption`
(sub-components are local or at the first peer, and peers have no cycle),
`RpcAssumption` (servers are finitely many and no clients) and
`ProgramsAssumption`:

| Theorem | States |
|---|---|
| `RpcTypes` | `Spec => []TypeOK` |
| `ReadyKept` | `Spec => []NoReadyLost` |
| `CallsKept` | `Spec => []NoCallLost` |
| `RepliesAwaited` | `Undisturbed => (Spec => []OnlyAwaitedReplies)` |

`TypeOK` is not inductive: that a frame is what the top of a stack returns to
depends on the order of the frames (`Stacked`: a wait and a `synchronize_data`
lie on a call that is not at its end), and that a server is only asked about what
it has depends on who sends to whom (`Mail`: requests come from a server that
has the receiver as its first peer, about components local there).  `Types` says
so; `Announcing` is the same as in `ServerReadyProofs`.  `CallsKept` adds
`CallsBalanced`: unless a process has exited, for each pair of servers the
requests and calls of the one at the other, the responses on the way back and
those put aside are as many as the waits of the one for the other.  Each handler
moves one unit from one of these places to the next.

`RepliesAwaited` is not true of all programs, as `rpc_stray` shows.  `Undisturbed`
says of which: a client that does not wait for its call asks for a component of its
own server, or no other server and no other client asks that server for anything
(`Unasked`).  TLC finds it true of the programs of `rpc` and `rpc_stuck`, and false
of those of `rpc_stray`.  The invariant is `Replies`, beside `Types`:

| Part | Says | Needed because |
|---|---|---|
| `Due` | for each client, the calls with waiting in its `inbox`, the calls of `process()` with waiting for it at its server, and the replies to it are one when it waits, and none otherwise | the property, as a count that each step moves along |
| `AllApart` | a call without waiting runs alone on the stack of its server, or under its one wait when nobody asks that server, and `client_response` is then `FALSE` | only a nested `process()` could set the flag under it |
| `Unasking` | a server that nobody asks has no request in its channels | nothing is then nested on its wait |
| `Ordered` | what clients have asked for and will ask for is as `Undisturbed` says | programs run out of sight of the servers |

That a call without waiting calls no other server unless its own is left alone is
what the flag needs: with a wait on top, `reschedule` would run another request
there, and its `client_response` would outlive it.

### 4.4 Only model-checked

* **Liveness** (`EveryServerListens`, `EveryCallReturns`, `EveryServerStops`) is out of the
  prover's reach.
* **`ExitsOnlyAtWrongPeer`** for the exits of `init_pseudo_component`.  A proof needs to
  know of every job and every request of areas that the process it reaches has
  created the component.
* **`SumsAreTotals`, `FailsAtLeavesOnly`** and the refinement of
  `PowerAggregation` hold of the programs of the run `rpc`, not of all:
  `reschedule` returns from a wait with any message of the awaited type.
  Moreover the total of a tree is defined by recursion, and what a recursive
  definition computes for every tree would need induction over data.
* **Everything in `Kitfox` and `Simulation`**: synchronization, creation and
  settings lookup are recursive operators, with which the prover loses its SMT
  backend.


## 5. Not modelled

* **Third-party code** in `library/` and the formulas of the closed failure
  model.  What the adapters do around it is modelled.
* **Reading the configuration** with libconfig, and the look of a path or name.
* **The layout of the messages.**  `update_library_variable` packs no component
  ID and `calculate_temperature` and `calculate_failure_rate` no Wait flag,
  while their handlers unpack one; what is read then are bytes that an earlier
  message left in the buffer.
* **The remaining requests** (`push_data`, `overwrite_data`,
  `calculate_temperature`, `calculate_failure_rate`, `update_library_variable`,
  names) as messages.  Their handlers have the shape of the seven modelled; the
  calls themselves are in `Kitfox`.
* **Parallel initialization** (`threader.cc`).  Threads share the server's
  buffers and McPAT's globals without a lock.  Every byte of a message is a data
  race, so no outcome could be excluded.
* **Synchronization of counters.**  Nobody calls it, and it uses a queue that
  was not created.
* **Debug output**, the printing and the random counters of the example programs.


## 6. What is left

The parts and the invariants of the plan are modelled, and the invariants
within the prover's reach are proved. What remains open:

1. **Startup**: `ExitsOnlyAtWrongPeer` for every deployment: which requests a server
   may be sent while it waits, initializes or listens, and that each is for what it has.
2. **Calls**: `FailsAtLeavesOnly` for every program in which no server is asked
   while its own client waits.  It needs what `Due` counts for clients to be known
   for each wait of a server: which component the request is about.
3. **Simulation**: the recursive operators of `KitfoxState` as recursive
   functions on the finite tree, without which no theorem about `Kitfox` or
   `Simulation` can be stated.
