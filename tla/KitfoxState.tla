---------------------------- MODULE KitfoxState -----------------------------
(***************************************************************************)
(* What one KitFox process holds: its pseudo components, their settings    *)
(* and data queues, and the library models that calculate for them.        *)
(*                                                                         *)
(* The program is sequential, and one call of a client runs dozens of      *)
(* smaller ones.  Every function that changes the state is an operator     *)
(* from worlds to worlds, so that a call is the composition of the calls   *)
(* it makes.  A world w is a record:                                       *)
(*   w.cfg     the configuration: the sub-components of each component in  *)
(*             order (subset), its parent or None (superset), its own      *)
(*             settings (setting) and those of its library group           *)
(*             (library), as records whose fields are the settings given   *)
(*   w.queue   the data queues of each component, by data type             *)
(*   w.lib     the state of each component's library model                 *)
(*   w.g_ip    what McPAT's global pointer to its input points to          *)
(*   w.registered  the components whose queues call their library back     *)
(*   w.exited  the process has called exit or failed an assertion          *)
(*   w.data, w.error  what the last call returned                          *)
(* Physical quantities are small integers: a temperature in Kelvin, any    *)
(* other in units of its own.                                              *)
(***************************************************************************)
EXTENDS DataQueueOps, TLC

None == "none"

\* error() and a failed assertion: the process ends.  What would follow does
\* not happen.
Exit(w) == [w EXCEPT !.exited = TRUE]

ExitIf(w, failed) == IF failed THEN Exit(w) ELSE w

Return(w, data) == [w EXCEPT !.data = data, !.error = "NONE"]

Fails(w) == w.error # "NONE"

\* assert(call == KITFOX_QUEUE_ERROR_NONE), or error() in its place
Asserted(w) == ExitIf(w, Fails(w))

\* one call after another: as long as the process lives, only after a success,
\* after a success that is required, and only after a failure
Then(w, Next(_))       == IF w.exited THEN w ELSE Next(w)
IfSucceeds(w, Next(_)) == IF w.exited \/ Fails(w) THEN w ELSE Next(w)
OrExit(w, Next(_))     == IF w.exited \/ Fails(w) THEN Exit(w) ELSE Next(w)
IfFails(w, Next(_))    == IF Fails(w) THEN Next(w) ELSE w

-----------------------------------------------------------------------------
\* The settings.  A query with a path goes up the tree.

\* pseudo_component_t::exists(Var)
Exists(w, c, v) == v \in DOMAIN w.cfg.setting[c]

\* pseudo_component_t::exists_library
ExistsLibrary(w, c) == c \in DOMAIN w.cfg.library

\* pseudo_component_t::exists_in_library(Var)
ExistsInLibrary(w, c, v) == ExistsLibrary(w, c) /\ v \in DOMAIN w.cfg.library[c]

\* pseudo_component_t::exists_in_library(Var, true)
RECURSIVE ExistsInPath(_, _, _)
ExistsInPath(w, c, v) ==
    /\ c # None
    /\ ExistsInLibrary(w, c, v) \/ ExistsInPath(w, w.cfg.superset[c], v)

\* pseudo_component_t::lookup_in_library(Var, true), of a setting that exists
RECURSIVE LookupInPath(_, _, _)
LookupInPath(w, c, v) ==
    IF ExistsInLibrary(w, c, v)
      THEN w.cfg.library[c][v]
      ELSE LookupInPath(w, w.cfg.superset[c], v)

\* the two ways a library reads an optional setting
OwnOr(w, c, v, default) ==
    IF ExistsInLibrary(w, c, v) THEN w.cfg.library[c][v] ELSE default
PathOr(w, c, v, default) ==
    IF ExistsInPath(w, c, v) THEN LookupInPath(w, c, v) ELSE default

\* lookup_in_library of settings that must exist, in the component's own
\* library group and on the path: the process exits when one is missing
Defined(w, c, own, path) ==
    /\ \A v \in own : ExistsInLibrary(w, c, v)
    /\ \A v \in path : ExistsInPath(w, c, v)

-----------------------------------------------------------------------------
\* power_t.  The energies and powers that libraries calculate have a total:
\* operator* and operator/ set it.

Power(dynamic, leakage) ==
    [dynamic |-> dynamic, leakage |-> leakage, total |-> dynamic + leakage]

NoPower == Power(0, 0)

\* power_t::operator+
PlusPower(x, y) ==
    [dynamic |-> x.dynamic + y.dynamic,
     leakage |-> x.leakage + y.leakage,
     total   |-> x.total + y.total]

\* power_t::get_total; it also stores what it returns
GetTotal(p) == IF p.total = 0 THEN p.dynamic + p.leakage ELSE p.total

\* dimension_t and its get_area
NoDimension == [width |-> 0, height |-> 0, area |-> 0, die_name |-> None, die_index |-> 0]
GetArea(d) == IF d.area = 0 THEN d.width * d.height ELSE d.area

-----------------------------------------------------------------------------
\* The data queues of a component: queue_t

\* the types that hold for a time of unknown length
OpenTypes == {"TDP", "VOLTAGE", "THRESHOLD_VOLTAGE", "CLOCK_FREQUENCY", "DIMENSION"}

\* the datum a queue of a type is created with
Initial(dt) ==
    CASE dt \in {"POWER", "TDP"} -> NoPower
      [] dt = "DIMENSION" -> NoDimension
      [] dt = "THERMAL_GRID" -> <<>>
      [] OTHER -> 0

HasQueue(w, c, dt) == dt \in DOMAIN w.queue[c]

KindOf(dt) == IF dt \in OpenTypes THEN "OPEN" ELSE "DISCRETE"

NewQueue(kind, size, x) ==
    [kind |-> kind, size |-> size, list |-> PushBack(kind, size, <<>>, 0, MaxTime, x).queue]

\* queue_t::create: the first creation of a type counts
Create(w, c, size, dt) ==
    IF HasQueue(w, c, dt)
      THEN [w EXCEPT !.error = "DATA_DUPLICATED"]
      ELSE [w EXCEPT !.queue[c] = (dt :> NewQueue(KindOf(dt), size, Initial(dt))) @@ @,
                     !.error = "NONE"]

Got(w, r) == [w EXCEPT !.error = r.error, !.data = r.data]

\* queue_t::get and pull_data.  A miss returns a default-constructed datum.
Pull(w, c, t, p, dt) ==
    IF ~HasQueue(w, c, dt)
      THEN [w EXCEPT !.error = "DATA_INVALID", !.data = Initial(dt)]
      ELSE Got(w, Get(w.queue[c][dt].kind, w.queue[c][dt].list, t, p, Initial(dt)))

\* the newest datum of a queue
Latest(w, c, dt) == Newest(w.queue[c][dt].list).data

=============================================================================
