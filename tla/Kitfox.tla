------------------------------- MODULE Kitfox --------------------------------
(***************************************************************************)
(* kitfox_t: the calls of the API on a configuration in one process.       *)
(*                                                                         *)
(* A call is an operator from worlds to worlds (see KitfoxState).  Calls   *)
(* about remote components go to the server and are not part of this       *)
(* module: every component is local.                                       *)
(***************************************************************************)
EXTENDS EnergyLibraries, ThermalLibraries

\* for(i = 0; i < n; i++) over a sequence of components, while the process lives
ForEach(w, components, Body(_, _)) ==
    FoldLeft(LAMBDA v, c : IF v.exited THEN v ELSE Body(v, c), w, components)

-----------------------------------------------------------------------------
\* Writing data

\* kitfox_t::update_library_variable.  Only McPAT has library variables of its
\* own, and they are those that follow the queues; the other energy libraries
\* take none.
UpdateLibraryVariable(w, c, type, value, isLibrary) ==
    LET model == w.lib[c].model IN
    CASE model = "none" -> Exit(w)
      [] model = "mcpat" -> McpatUpdate(w, c, type, value)
      [] model \in EnergyModels \ {"mcpat"} /\ isLibrary -> Return(w, FALSE)
      [] model = "dsent" /\ ~isLibrary -> DsentUpdate(w, c, type, value)
      [] model = "intsim" /\ ~isLibrary -> IntsimUpdate(w, c, type, value)
      [] model = "tsv" /\ ~isLibrary -> TsvUpdate(w, c, type, value)
      [] model = "dramsim" /\ ~isLibrary -> DramsimUpdate(w, c, type, value)
      [] model = "hotspot" -> HotspotUpdate(w, c, type, value, isLibrary)
      [] model = "3dice" -> ThreeDiceUpdate(w, c, type, value, isLibrary)
      [] model = "microfluidics" -> MicrofluidicsUpdate(w, c, type, value, isLibrary)
      [] model = "failure" -> FailureUpdate(w, c, type, value, isLibrary)

\* queue_t::callback
Callback(w, c, dt, d) ==
    IF c \in w.registered THEN UpdateLibraryVariable(w, c, dt, d, FALSE) ELSE w

\* the data queue has taken the write; the library is called back even if the
\* queue reports an error
Stored(w, c, dt, d, r) ==
    [Callback([w EXCEPT !.queue[c][dt].list = r.queue], c, dt, d)
        EXCEPT !.error = r.error]

\* queue_t::push_back and kitfox_t::push_data
PushData(w, c, t, p, dt, d) ==
    IF ~HasQueue(w, c, dt)
      THEN [w EXCEPT !.error = "DATA_INVALID"]
      ELSE Stored(w, c, dt, d,
                  PushBack(w.queue[c][dt].kind, w.queue[c][dt].size, w.queue[c][dt].list,
                           t, p, d))

\* queue_t::overwrite and kitfox_t::overwrite_data
OverwriteData(w, c, t, p, dt, d) ==
    IF ~HasQueue(w, c, dt)
      THEN [w EXCEPT !.error = "DATA_INVALID"]
      ELSE Stored(w, c, dt, d,
                  Overwrite(w.queue[c][dt].kind, w.queue[c][dt].size, w.queue[c][dt].list,
                            t, p, d))

-----------------------------------------------------------------------------
\* Synchronization over the component tree

\* the data that are added up from the leaves, and those that go down to them
SummedTypes == {"COUNTER", "POWER", "TDP"}
SpreadTypes == {"VOLTAGE", "THRESHOLD_VOLTAGE", "CLOCK_FREQUENCY"}

\* the sum so far and the datum of a sub-component; of a dimension, the area
PlusData(dt, x, y) ==
    CASE dt = "COUNTER" -> x + y
      [] dt = "DIMENSION" -> x + GetArea(y)
      [] OTHER -> PlusPower(x, y)

RECURSIVE SynchronizeData(_, _, _, _, _)

\* kitfox_t::synchronize_and_pull_data
SyncAndPull(w, c, t, p, dt) ==
    IfSucceeds(SynchronizeData(w, c, t, p, dt), LAMBDA v : Pull(v, c, t, p, dt))

\* w1 has pulled the next sub-component's datum, if there is one
Added(g, w1, dt) ==
    IF w1.exited \/ Fails(w1)
      THEN [g EXCEPT !.world = Exit(w1)]
      ELSE [world |-> w1, sum |-> PlusData(dt, g.sum, w1.data)]

\* the sub-components' data, which a component needs all of
Gather(w, c, t, p, dt, zero) ==
    FoldLeft(LAMBDA g, s : IF g.world.exited THEN g
                           ELSE Added(g, SyncAndPull(g.world, s, t, p, dt), dt),
             [world |-> w, sum |-> zero], w.cfg.subset[c])

WriteSum(g, c, t, p, dt) ==
    IF g.world.exited THEN g.world ELSE OverwriteData(g.world, c, t, p, dt, g.sum)

\* Mutant: a component that has a datum of its own adds its sub-components
\* to it
SumAgain(w, c, t, p, dt) ==
    WriteSum(Gather(w, c, t, p, dt, Pull(w, c, t, p, dt).data), c, t, p, dt)

\* KITFOX_DATA_COUNTER, KITFOX_DATA_POWER and KITFOX_DATA_TDP
SumUp(w, c, t, p, dt) ==
    IfFails(Pull(w, c, t, p, dt),
            LAMBDA v : WriteSum(Gather(v, c, t, p, dt, Initial(dt)), c, t, p, dt))

WriteArea(g, d, c, t, p, dt) ==
    IF g.world.exited \/ g.sum = 0
      THEN [g.world EXCEPT !.error = "NONE"]
      ELSE OverwriteData(g.world, c, t, p, dt, [d EXCEPT !.area = g.sum])

\* Mutant: the area takes the place of the whole dimension
SumAreasOnly(w, c, t, p, dt) ==
    WriteArea(Gather(w, c, t, p, dt, 0), NoDimension, c, t, p, dt)

\* KITFOX_DATA_DIMENSION: the area alone is added up
SumAreas(w, c, t, p, dt) ==
    WriteArea(Gather(w, c, t, p, dt, 0), Pull(w, c, t, p, dt).data, c, t, p, dt)

\* own is what the component pulled; To(v, s, d) writes its datum d to the
\* sub-component s
GoDown(own, c, To(_, _, _)) ==
    [IF Fails(own) THEN own
     ELSE ForEach(own, own.cfg.subset[c], LAMBDA v, s : To(v, s, own.data))
        EXCEPT !.error = "NONE"]

\* Mutant: the sub-components alone get the component's value
SpreadOneLevel(w, c, t, p, dt) ==
    GoDown(Pull(w, c, t, p, dt), c, LAMBDA v, s, d : OverwriteData(v, s, t, p, dt, d))

\* KITFOX_DATA_VOLTAGE, KITFOX_DATA_THRESHOLD_VOLTAGE and
\* KITFOX_DATA_CLOCK_FREQUENCY: every sub-component gets the component's value
Spread(w, c, t, p, dt) ==
    GoDown(Pull(w, c, t, p, dt), c,
           LAMBDA v, s, d : OrExit(OverwriteData(v, s, t, p, dt, d),
                                   LAMBDA u : SynchronizeData(u, s, t, p, dt)))

\* Mutants: every sub-component gets the component's temperature; only the
\* sub-components themselves do
CoverAll(w, c, t, p, dt) ==
    GoDown(Pull(w, c, t, p, dt), c,
           LAMBDA v, s, d : SynchronizeData(OverwriteData(v, s, t, p, dt, d), s, t, p, dt))

CoverOneLevel(w, c, t, p, dt) ==
    GoDown(Pull(w, c, t, p, dt), c,
           LAMBDA v, s, d : IfFails(Pull(v, s, t, p, dt),
                                    LAMBDA u : OverwriteData(u, s, t, p, dt, d)))

\* KITFOX_DATA_TEMPERATURE: the sub-components that have none get the
\* component's value
Cover(w, c, t, p, dt) ==
    GoDown(Pull(w, c, t, p, dt), c,
           LAMBDA v, s, d : OrExit(IfFails(Pull(v, s, t, p, dt),
                                           LAMBDA u : OverwriteData(u, s, t, p, dt, d)),
                                   LAMBDA u : SynchronizeData(u, s, t, p, dt)))

\* kitfox_t::synchronize_data
SynchronizeData(w, c, t, p, dt) ==
    CASE w.cfg.subset[c] = <<>> \/ dt \in {"THERMAL_GRID", "FAILURE_RATE"} ->
             [w EXCEPT !.error = "NONE"]
      [] w.cfg.subset[c] # <<>> /\ dt \in SummedTypes -> SumUp(w, c, t, p, dt)
      [] w.cfg.subset[c] # <<>> /\ dt = "DIMENSION"   -> SumAreas(w, c, t, p, dt)
      [] w.cfg.subset[c] # <<>> /\ dt \in SpreadTypes -> Spread(w, c, t, p, dt)
      [] w.cfg.subset[c] # <<>> /\ dt = "TEMPERATURE" -> Cover(w, c, t, p, dt)
      [] OTHER -> [w EXCEPT !.error = "DATA_TYPE_INVALID"]

\* kitfox_t::push_and_synchronize_data
PushAndSync(w, c, t, p, dt, d) ==
    IfSucceeds(PushData(w, c, t, p, dt, d), LAMBDA v : SynchronizeData(v, c, t, p, dt))

-----------------------------------------------------------------------------
\* Calculations.  get_energy_library, get_thermal_library and
\* get_reliability_library are the casts that fail for any other library.

\* kitfox_t::calculate_power: whether the power was stored is seen by reading it
CalculatePower(w, c, t, p, n, isTdp) ==
    IF ~IsEnergyLibrary(w, c)
      THEN Exit(w)
      ELSE Then(IF isTdp THEN TdpPower(w, c) ELSE RuntimePower(w, c, p, n),
                LAMBDA v : Asserted(Pull(PushData(v, c, t, p, "POWER", v.data),
                                         c, t, p, "POWER")))

\* the powers of the floorplans are given to the library
MapPowers(w, c, t, p) ==
    ForEach(w, w.lib[c].floorplans,
            LAMBDA v, f : OrExit(Pull(v, f, t, p, "POWER"),
                                 LAMBDA u : MapFloorplanPower(u, c, f, u.data)))

\* get_thermal_grid, if the library generates one
PushThermalGrid(w, c, t, p) ==
    IF ~OwnOr(w, c, "generate_thermal_grid", FALSE)
      THEN w
      ELSE Asserted(PushData(w, c, t, p, "THERMAL_GRID", w.lib[c].temperature))

\* the temperatures of the floorplans go down the tree
PushTemperatures(w, c, t, p) ==
    ForEach(w, w.lib[c].floorplans,
            LAMBDA v, f : Asserted(
                Then(FloorplanTemperature(v, c, f),
                     LAMBDA u : PushAndSync(u, f, t, p, "TEMPERATURE", u.data))))

\* the synchronization that calculate_temperature starts with
PowerSynchronized(w, c, t, p, doPowerSync) ==
    IF doPowerSync THEN Asserted(SynchronizeData(w, c, t, p, "POWER")) ELSE w

Solved(w, c, t, p, field) ==
    PushTemperatures(PushThermalGrid(LibraryTemperature(w, c, p, field), c, t, p), c, t, p)

\* kitfox_t::calculate_temperature
CalculateTemperature(w, c, t, p, doPowerSync, field) ==
    IF ~IsThermalLibrary(w, c)
      THEN Exit(w)
      ELSE Then(Then(PowerSynchronized(w, c, t, p, doPowerSync),
                     LAMBDA v : MapPowers(v, c, t, p)),
                LAMBDA v : Solved(v, c, t, p, field))

\* the synchronizations that calculate_failure_rate starts with
ConditionsSynchronized(w, c, t, p, doDataSync) ==
    IF ~doDataSync
      THEN w
      ELSE FoldLeft(LAMBDA v, dt : Then(v, LAMBDA u : Asserted(SynchronizeData(u, c, t, p, dt))),
                    w, <<"TEMPERATURE", "VOLTAGE", "CLOCK_FREQUENCY">>)

\* Mutant: what was accumulated before is not read
FailureForgotten(w, c, t, p) == Return(w, 0)

\* the failure rate accumulated up to the previous sampling point; the entry
\* of time 0 has no period
PreviousFailure(w, c, t, p) ==
    Pull(w, c, t - p, IF t - p < Precision /\ p - t < Precision THEN Unspecified ELSE p,
         "FAILURE_RATE")

\* the failure rate under the conditions that were pulled is added to that of
\* the past
AccumulateFailure(w, temp, vdd, clk, past, c, t, p) ==
    IF Fails(temp) \/ Fails(vdd) \/ Fails(clk) \/ Fails(past)
      THEN Exit(w)
      ELSE Then(LibraryFailureRate(w, c, temp.data, vdd.data, clk.data),
                LAMBDA v : Asserted(PushData(v, c, t, p, "FAILURE_RATE", past.data + p * v.data)))

\* kitfox_t::calculate_failure_rate
CalculateFailureRate(w, c, t, p, doDataSync) ==
    IF ~IsReliabilityLibrary(w, c)
      THEN Exit(w)
      ELSE Then(ConditionsSynchronized(w, c, t, p, doDataSync),
                LAMBDA v : AccumulateFailure(v, Pull(v, c, t, p, "TEMPERATURE"),
                               Pull(v, c, t, p, "VOLTAGE"), Pull(v, c, t, p, "CLOCK_FREQUENCY"),
                               PreviousFailure(v, c, t, p), c, t, p))

-----------------------------------------------------------------------------
\* Construction

DefaultQueues == <<"POWER", "TEMPERATURE", "TDP", "VOLTAGE", "THRESHOLD_VOLTAGE",
                   "CLOCK_FREQUENCY", "DIMENSION">>

\* the size of the queues that no setting gives
QueueSize == 1

CreateQueues(w, c) ==
    LET manual  == IF Exists(w, c, "queue") THEN w.cfg.setting[c].queue ELSE <<>>
        default == [i \in DOMAIN DefaultQueues |-> [type |-> DefaultQueues[i], size |-> QueueSize]]
    IN  FoldLeft(LAMBDA v, q : Create(v, c, q.size, q.type), w, manual \o default)

\* pseudo_component_t's constructor: a component with a queue_size looks it up
\* on its path, which it is not part of yet, and the process exits
Construct(w, c) == ExitIf(w, Exists(w, c, "queue_size"))

\* kitfox_t::create_pseudo_component
RECURSIVE CreatePseudoComponent(_, _)
CreatePseudoComponent(w, c) ==
    ForEach(Then(Construct(w, c), LAMBDA v : CreateQueues(v, c)),
            w.cfg.subset[c], CreatePseudoComponent)

Models == EnergyModels \cup ThermalModels \cup {"failure"}

\* the component's library
LibraryModel(w, c) ==
    IF ExistsInLibrary(w, c, "model") THEN w.cfg.library[c].model ELSE None

KnownModel(w, c) ==
    ExistsInLibrary(w, c, "model") /\ LibraryModel(w, c) \in Models \cup {None}

\* an initial value is written as a datum of all times
Preset(w, c, setting, dt) ==
    IF ExistsInPath(w, c, setting)
      THEN OverwriteData(w, c, 0, MaxTime, dt, LookupInPath(w, c, setting))
      ELSE w

Presets == <<[of |-> "voltage", type |-> "VOLTAGE"],
             [of |-> "threshold_voltage", type |-> "THRESHOLD_VOLTAGE"],
             [of |-> "clock_frequency", type |-> "CLOCK_FREQUENCY"]>>

PresetDimension(w, c) ==
    IF ExistsInLibrary(w, c, "dimension")
      THEN OverwriteData(w, c, 0, MaxTime, "DIMENSION", w.cfg.library[c].dimension)
      ELSE w

PresetAll(w, c) ==
    PresetDimension(FoldLeft(LAMBDA v, x : Preset(v, c, x.of, x.type), w, Presets), c)

\* the initial data of a component, from its settings and its sub-components
InitData(w, c) ==
    Then(SynchronizeData(Preset(w, c, "temperature", "TEMPERATURE"), c, 0, MaxTime, "TDP"),
         LAMBDA v : SynchronizeData(PresetAll(v, c), c, 0, MaxTime, "DIMENSION"))

EnergyInitialize(w, c) ==
    CASE LibraryModel(w, c) = "mcpat"   -> McpatInitialize(w, c)
      [] LibraryModel(w, c) = "dsent"   -> DsentInitialize(w, c)
      [] LibraryModel(w, c) = "intsim"  -> IntsimInitialize(w, c)
      [] LibraryModel(w, c) = "tsv"     -> TsvInitialize(w, c)
      [] LibraryModel(w, c) = "dramsim" -> DramsimInitialize(w, c)

\* the area and the thermal design power of a source
Sized(w, c) ==
    OverwriteData(w, c, 0, MaxTime, "DIMENSION",
                  [Pull(w, c, 0, Unspecified, "DIMENSION").data
                      EXCEPT !.area = LibraryArea(w, c)])

PresetTDP(w, c) ==
    Then(TdpPower(w, c), LAMBDA v : OverwriteData(v, c, 0, MaxTime, "TDP", v.data))

InitEnergy(w, c) ==
    Then(EnergyInitialize(Create(w, c, QueueSize, "COUNTER"), c),
         LAMBDA v : PresetTDP(Sized(v, c), c))

\* lookup_in_library, and get_component_id in a process without a server
FloorplansKnown(w, c) ==
    ExistsInLibrary(w, c, "floorplan") /\ ToSet(Own(w, c).floorplan) \subseteq ToSet(w.cfg.byname)

ThermalInitialize(w, c) ==
    CASE ~FloorplansKnown(w, c) -> Exit(w)
      [] LibraryModel(w, c) = "hotspot" /\ FloorplansKnown(w, c) -> HotspotInitialize(w, c)
      [] LibraryModel(w, c) = "3dice" /\ FloorplansKnown(w, c) -> ThreeDiceInitialize(w, c)
      [] LibraryModel(w, c) = "microfluidics" /\ FloorplansKnown(w, c) -> MicrofluidicsInitialize(w, c)

InitThermal(w, c) ==
    ThermalInitialize(IF OwnOr(w, c, "generate_thermal_grid", FALSE)
                        THEN Create(w, c, QueueSize, "THERMAL_GRID") ELSE w, c)

InitReliability(w, c) == FailureInitialize(Create(w, c, QueueSize, "FAILURE_RATE"), c)

\* the library is called back from here on
RegisterCallback(w, c) == [w EXCEPT !.registered = @ \cup {c}]

\* initial calculations depending on the library type
InitLibrary(w, c) ==
    LET model == LibraryModel(w, c) IN
    CASE model = None          -> w
      [] model \in EnergyModels  -> RegisterCallback(InitEnergy(w, c), c)
      [] model \in ThermalModels -> RegisterCallback(InitThermal(w, c), c)
      [] model = "failure"       -> RegisterCallback(InitReliability(w, c), c)

\* kitfox_t::init_pseudo_component.  The sub-components are first.
RECURSIVE InitPseudoComponent(_, _)
InitPseudoComponent(w, c) ==
    Then(Then(ExitIf(ForEach(w, w.cfg.subset[c], InitPseudoComponent),
                     ExistsLibrary(w, c) /\ ~KnownModel(w, c)),
              LAMBDA v : InitData(v, c)),
         LAMBDA v : InitLibrary(v, c))

\* kitfox_t::configure: the components of the top level, roots in order
Configure(w) ==
    LET roots == SelectSeq(w.cfg.order, LAMBDA c : w.cfg.superset[c] = None)
    IN  ForEach(ForEach(w, roots, CreatePseudoComponent), roots, InitPseudoComponent)

\* what a process holds before it reads a configuration
Blank(cfg) ==
    LET components == DOMAIN cfg.subset
    IN  [cfg |-> cfg, queue |-> [c \in components |-> <<>>],
         lib |-> [c \in components |-> [model |-> None]],
         g_ip |-> [owner |-> None, field |-> "input"],
         registered |-> {}, exited |-> FALSE, data |-> 0, error |-> "NONE"]

=============================================================================
