----------------------------- MODULE Simulation ------------------------------
(***************************************************************************)
(* A simulator that drives KitFox through the calculation sequence: at     *)
(* every sampling point the powers, then the temperatures, then the        *)
(* failure rates; it probes the result and may change voltage, clock or    *)
(* ambient temperature.  Nothing else is fixed: the order of the           *)
(* components in a step, the counters, the solutions of the thermal solver *)
(* and the controls.                                                       *)
(***************************************************************************)
EXTENDS Kitfox

CONSTANTS
    Configs,        \* the configurations
    Period,         \* the sampling interval
    MaxInterval,    \* bound: sampling points
    MaxControls,    \* bound: controls at a sampling point
    Counters(_),    \* what a source counts in an interval
    Rated,          \* the sources whose thermal design power is taken instead
    Fields(_),      \* the thermal solutions for n floorplans
    Sensors,        \* what a temperature sensor measures
    Controls(_)     \* the controls of a configuration: [type, comp, value]

VARIABLES
    cfg, queue, lib, g_ip, registered, exited,   \* the world of KitfoxState
    now,        \* the current time
    stage,      \* where in the calculation sequence the simulator is
    waiting,    \* the components this stage has still to calculate
    measured,   \* the components with a sensor's temperature in this interval
    controlled  \* the controls at this sampling point

world == <<cfg, queue, lib, g_ip, registered, exited>>
vars  == <<world, now, stage, waiting, measured, controlled>>

World == [cfg |-> cfg, queue |-> queue, lib |-> lib, g_ip |-> g_ip,
          registered |-> registered, exited |-> exited, data |-> 0, error |-> "NONE"]

\* what a call has done; a process that exited leaves nothing behind
Becomes(w) ==
    /\ exited' = w.exited
    /\ cfg' = cfg
    /\ IF w.exited
         THEN UNCHANGED <<queue, lib, g_ip, registered>>
         ELSE /\ queue' = w.queue
              /\ lib' = w.lib
              /\ g_ip' = w.g_ip
              /\ registered' = w.registered

Components  == DOMAIN cfg.subset
Leaves      == {c \in Components : cfg.subset[c] = <<>>}
Sources     == {c \in Components : IsEnergyLibrary(World, c)}
Packages    == {c \in Components : IsThermalLibrary(World, c)}
Reliables   == {c \in Components : IsReliabilityLibrary(World, c)}
FloorplansOf(c) == {lib[c].floorplans[i] : i \in DOMAIN lib[c].floorplans}
AllFloorplans   == UNION {FloorplansOf(c) : c \in Packages}
SubsetOf(c) == {cfg.subset[c][i] : i \in DOMAIN cfg.subset[c]}
RECURSIVE Below(_)
Below(c) == UNION {{s} \cup Below(s) : s \in SubsetOf(c)}

\* the next stage that has something to do
Enter(next, set) == stage' = next /\ waiting' = set

\* what the probes of the simulator see
Datum(c, dt) == Pull(World, c, now, Period, dt).data
Answered(c, dt) == ~Fails(Pull(World, c, now, Period, dt))

-----------------------------------------------------------------------------
Init ==
    /\ cfg \in Configs
    /\ LET w == Blank(cfg) IN
          /\ queue = w.queue /\ lib = w.lib /\ g_ip = w.g_ip
          /\ registered = w.registered /\ exited = w.exited
    /\ now = 0 /\ stage = "new" /\ waiting = {}
    /\ measured = {} /\ controlled = {}

\* new kitfox_t, configure
Start ==
    /\ stage = "new"
    /\ Becomes(Configure(World))
    /\ Enter("control", {})
    /\ UNCHANGED <<now, measured, controlled>>

\* the simulation reaches the next sampling point
Advance ==
    /\ stage = "control" /\ ~exited
    /\ now < MaxInterval * Period
    /\ now' = now + Period
    /\ Enter("power", Sources)
    /\ measured' = {} /\ controlled' = {}
    /\ UNCHANGED world

\* a temperature sensor's value for a component that is no floorplan
Measure(c) ==
    /\ stage = "power" /\ ~exited
    /\ measured = {} /\ c \in Leaves \ AllFloorplans
    /\ \E x \in Sensors :
          Becomes(Asserted(PushData(World, c, now, Period, "TEMPERATURE", x)))
    /\ measured' = {c}
    /\ UNCHANGED <<now, stage, waiting, controlled>>

\* for(all source components) calculate_power
Consume(c) ==
    /\ stage = "power" /\ c \in waiting /\ ~exited
    /\ \E n \in Counters(c), isTdp \in BOOLEAN :
          /\ isTdp => c \in Rated
          /\ Becomes(CalculatePower(World, c, now, Period, n, isTdp))
    /\ IF waiting = {c} THEN Enter("thermal", Packages) ELSE Enter(stage, waiting \ {c})
    /\ UNCHANGED <<now, measured, controlled>>

\* calculate_temperature of the package
Temperature(c) ==
    /\ stage = "thermal" /\ c \in waiting /\ ~exited
    /\ \E field \in Fields(Len(lib[c].floorplans)) :
          Becomes(CalculateTemperature(World, c, now, Period, TRUE, field))
    /\ Enter("reliability", Reliables)
    /\ UNCHANGED <<now, measured, controlled>>

\* for(all components with reliability models) calculate_failure_rate
Reliability(c) ==
    /\ stage = "reliability" /\ c \in waiting /\ ~exited
    /\ \E doDataSync \in BOOLEAN :
          Becomes(CalculateFailureRate(World, c, now, Period, doDataSync))
    /\ Enter(stage, waiting \ {c})
    /\ UNCHANGED <<now, measured, controlled>>

\* probe a component
Probe(c) ==
    /\ stage = "reliability" /\ waiting = {} /\ ~exited
    /\ Becomes(Asserted(SyncAndPull(World, c, now, Period, "POWER")))
    /\ Enter("control", {})
    /\ UNCHANGED <<now, measured, controlled>>

\* apply execution control
Control(x) ==
    /\ stage = "control" /\ ~exited /\ now > 0
    /\ Cardinality(controlled) < MaxControls /\ x \in Controls(cfg) \ controlled
    /\ IF x.type = "AMBIENT_TEMPERATURE"
         THEN Becomes(UpdateLibraryVariable(World, x.comp, x.type, x.value, FALSE))
         ELSE Becomes(Asserted(PushAndSync(World, x.comp, now, Period, x.type, x.value)))
    /\ controlled' = controlled \cup {x}
    /\ UNCHANGED <<now, stage, waiting, measured>>

Next ==
    \/ Start
    \/ Advance
    \/ \E c \in Components : Measure(c) \/ Consume(c) \/ Temperature(c)
                                \/ Reliability(c) \/ Probe(c)
    \/ \E x \in Controls(cfg) : Control(x)

Spec == Init /\ [][Next]_vars

-----------------------------------------------------------------------------
\* the stages after the temperatures are calculated
Calculated == stage \in {"reliability", "control"} /\ now > 0 /\ ~exited

\* Type invariant.
TypeOK ==
    /\ cfg \in Configs
    /\ exited \in BOOLEAN
    /\ now \in {k * Period : k \in 0 .. MaxInterval}
    /\ stage \in {"new", "power", "thermal", "reliability", "control"}
    /\ waiting \subseteq Components /\ registered \subseteq Components
    /\ \A c \in Components, dt \in UNION {DOMAIN queue[x] : x \in Components} :
          dt \in DOMAIN queue[c] => Len(queue[c][dt].list) \in 1 .. queue[c][dt].size

\* The calculation sequence never ends the process: no call of it exits, fails
\* an assertion, or fails one of the simulator's (calculations.tex), whatever
\* the order of the components, the solutions and the controls.
NeverExits == ~exited

\* After a calculation every component can be probed for its power, and every
\* floorplan and what is below it for its temperature, at the sampling point
\* and its interval (test-hotspot.cc, the assertions after
\* calculate_temperature).
ProbesAnswered ==
    Calculated =>
        /\ \A c \in Components : Answered(c, "POWER")
        /\ \A f \in AllFloorplans : \A c \in {f} \cup Below(f) : Answered(c, "TEMPERATURE")

\* The temperature of a floorplan reaches every component below it, except
\* where a sensor gave a component a temperature of its own (the documented
\* synchronization of temperatures, over several levels of the tree).
TemperatureFollowsTree ==
    Calculated =>
        \A f \in AllFloorplans : \A c \in Below(f) :
            IF c \in measured
              THEN Datum(c, "TEMPERATURE") \in Sensors
              ELSE Datum(c, "TEMPERATURE") = Datum(cfg.superset[c], "TEMPERATURE")

\* The power of a component is the sum of the powers of its sub-components, for
\* the interval of the sampling point, also when it is synchronized again.
PowerSumsUp ==
    Calculated =>
        \A c \in Components \ Leaves :
            GetTotal(Datum(c, "POWER")) =
                SumFunction([s \in SubsetOf(c) |-> GetTotal(Datum(s, "POWER"))])

\* The thermal library solved for the powers the floorplans have: dynamic and
\* leakage power of this interval and of no other.
SolvedForFloorplanPower ==
    Calculated =>
        \A p \in Packages : \A f \in FloorplansOf(p) :
            lib[p].power[f] = GetTotal(Datum(f, "POWER"))

\* The area of a component is the sum of its sub-components' areas, and its own
\* geometry is what its settings say (doc/data_queues.tex, Dimension).
AreaSumsUp ==
    stage # "new" /\ ~exited =>
        \A c \in Components \ Leaves :
            LET d == Latest(World, c, "DIMENSION") IN
            /\ GetArea(d) =
                  SumFunction([s \in SubsetOf(c) |-> GetArea(Latest(World, s, "DIMENSION"))])
            /\ ExistsInLibrary(World, c, "dimension") =>
                  d.width = cfg.library[c].dimension.width

\* A McPAT model is always at the temperature, voltage and clock frequency that
\* its component's queues hold, also after a thermal design power, which it
\* calculates at another temperature; and the inputs that it will be updated
\* with, which it copies from *g_ip, are not those of another component.  A
\* memory controller is not at its temperature: what its front end was created
\* with is copied back.
McpatAtOperatingPoint ==
    \A c \in Sources : lib[c].model = "mcpat" /\ ~exited =>
        /\ lib[c].energy_model # "memory_controller" =>
              LET temp == Limited(Latest(World, c, "TEMPERATURE"))
              IN  /\ lib[c].input = [temp |-> temp, tags |-> HasTags(World, c)]
                  /\ lib[c].leak = temp
        /\ lib[c].vdd = Latest(World, c, "VOLTAGE")
        /\ lib[c].clk = Latest(World, c, "CLOCK_FREQUENCY")

\* The same for the other energy libraries: the electrical model of DSENT, the
\* chip of IntSim and the voltage of TSV and DRAMsim are those of the queues.
\* TSV starts with a voltage of its own, until its queue is written.
NetworkAtOperatingPoint ==
    \A c \in Sources : ~exited =>
        LET temp == Latest(World, c, "TEMPERATURE")
            vdd  == Latest(World, c, "VOLTAGE")
            clk  == Latest(World, c, "CLOCK_FREQUENCY")
        IN  /\ lib[c].model = "dsent" =>
                  lib[c].built = [frequency |-> clk, temp |-> temp, vdd |-> vdd]
            /\ lib[c].model = "intsim" =>
                  /\ lib[c].param.temp = temp /\ lib[c].param.vdd = vdd
                  /\ lib[c].param.f = clk
                  /\ lib[c].chip = lib[c].param
            /\ \/ lib[c].model = "dramsim"
               \/ lib[c].model = "tsv" /\ Newest(queue[c]["VOLTAGE"].list).time > 0
               => lib[c].vdd = vdd

\* The accumulated failure rate only grows, by what the conditions of the
\* interval cost, whichever component is calculated first and whether the data
\* are synchronized before (doc/calculations.tex, the sum over the sampling
\* points).
FailureAccumulates ==
    [][\A c \in Reliables :
          ~exited' /\ queue'[c]["FAILURE_RATE"] # queue[c]["FAILURE_RATE"] =>
             LET temp == Datum(c, "TEMPERATURE")
             IN  Latest(World', c, "FAILURE_RATE") - Latest(World, c, "FAILURE_RATE")
                   = Period * FailureRate(Limited(temp), Datum(c, "VOLTAGE"),
                                          Datum(c, "CLOCK_FREQUENCY"), lib[c].ambient)]_vars

\* An execution control reaches the queues of every component below the one it
\* is applied to, as their newest entry, and nothing else.
ControlReachesBelow ==
    [][\A x \in controlled' \ controlled : x.type \in SpreadTypes /\ ~exited' =>
          \A c \in Components :
             Latest(World', c, x.type) =
                IF c = x.comp \/ c \in Below(x.comp) THEN x.value ELSE Latest(World, c, x.type)]_vars

\* Documented (doc/data_queues.tex): a component's TDP is aggregated from its
\* leaf components.
TdpSumsUp ==
    stage # "new" /\ ~exited =>
        \A c \in Components \ Leaves :
            GetTotal(Latest(World, c, "TDP")) =
                SumFunction([s \in SubsetOf(c) |-> GetTotal(Latest(World, s, "TDP"))])

\* Documented (doc/data_queues.tex): a sub-component that has a voltage or clock
\* frequency of its own at the sampling point keeps it when its parent is
\* synchronized.
OwnSettingKept ==
    [][\A x \in controlled : controlled' # controlled /\ x.type \in SpreadTypes =>
          Latest(World', x.comp, x.type) = Latest(World, x.comp, x.type)]_vars

=============================================================================
