-------------------------- MODULE ThermalLibraries --------------------------
(***************************************************************************)
(* The thermal libraries HotSpot, 3D-ICE and microfluidics, and the        *)
(* reliability library.                                                    *)
(*                                                                         *)
(* What the program keeps around a thermal solver is a power and a         *)
(* temperature for each floorplan.  The solvers themselves are external: a *)
(* solution is a sequence of temperatures, one for each floorplan in the   *)
(* order of the floorplan map, which is that of the names.                 *)
(***************************************************************************)
EXTENDS LibrarySettings

-----------------------------------------------------------------------------
\* thermal_library_t

\* add_floorplan and get_floorplan_id(i): w.cfg.byname lists all components
\* in the order of their names
Floorplans(w, c) ==
    LET names == Own(w, c).floorplan
    IN  SelectSeq(w.cfg.byname, LAMBDA n : \E i \in DOMAIN names : names[i] = n)

IsFloorplan(w, c, f) == \E i \in DOMAIN w.lib[c].floorplans : w.lib[c].floorplans[i] = f

ToFloorplans(floorplans, x) == [f \in {floorplans[i] : i \in DOMAIN floorplans} |-> x]

\* what a solver computed
Solution(floorplans, field) ==
    [f \in {floorplans[i] : i \in DOMAIN floorplans} |->
        field[CHOOSE i \in DOMAIN floorplans : floorplans[i] = f]]

\* the libraries read the dimension of each floorplan
RECURSIVE PullDimensions(_, _)
PullDimensions(w, floorplans) ==
    IF floorplans = <<>> \/ w.exited
      THEN w
      ELSE PullDimensions(Asserted(Pull(w, Head(floorplans), 0, Unspecified, "DIMENSION")),
                          Tail(floorplans))

-----------------------------------------------------------------------------
\* HotSpot

HotspotBlocks(w, c, fs) ==
    [w EXCEPT !.lib[c] =
        [model |-> "hotspot", floorplans |-> fs, clk |-> 0, interval |-> 0,
         power |-> ToFloorplans(fs, 0),
         temperature |-> ToFloorplans(fs, LookupInPath(w, c, "temperature"))]]

\* thermallib_hotspot::initialize: every block starts at the initial temperature
HotspotInitialize(w, c) ==
    IF ~HotspotConfigured(w, c)
      THEN Exit(w)
      ELSE Then(PullDimensions(HotspotBlocks(w, c, Floorplans(w, c)), Floorplans(w, c)),
                LAMBDA v : ExitIf(v, ~HotspotLayers(v, c, v.lib[c].floorplans)))

\* Mutant: the dynamic power alone
HotspotDynamicPower(w, c, f, power) ==
    IF ~IsFloorplan(w, c, f)
      THEN Exit(w)
      ELSE [w EXCEPT !.lib[c].power[f] = power.dynamic]

\* thermallib_hotspot::map_floorplan_power
HotspotMapPower(w, c, f, power) ==
    IF ~IsFloorplan(w, c, f)
      THEN Exit(w)
      ELSE [w EXCEPT !.lib[c].power[f] = GetTotal(power)]

\* thermallib_hotspot::calculate_temperature
HotspotCalculate(w, c, p, field) ==
    [w EXCEPT !.lib[c].interval = p,
              !.lib[c].temperature = Solution(w.lib[c].floorplans, field)]

\* thermallib_hotspot::get_floorplan_temperature
HotspotFloorplanTemperature(w, c, f) ==
    IF ~IsFloorplan(w, c, f) \/ w.lib[c].temperature[f] = 0
      THEN Exit(w)
      ELSE Return(w, w.lib[c].temperature[f])

\* thermallib_hotspot::update_library_variable
HotspotUpdate(w, c, type, value, isLibrary) ==
    CASE isLibrary -> Exit(w)
      [] ~isLibrary /\ type = "CLOCK_FREQUENCY" ->
             Return([w EXCEPT !.lib[c].clk = value], TRUE)
      [] OTHER -> Return(w, FALSE)

-----------------------------------------------------------------------------
\* 3D-ICE.  The powers of a floorplan element are a queue that the solver
\* drains.

\* q is the dimension queue of a floorplan, of dimension d
SetIndex(q, d, layer) ==
    Overwrite(q.kind, q.size, q.list, 0, MaxTime, [d EXCEPT !.die_index = layer]).queue

\* the floorplans of a die are given the index of its layer
RECURSIVE IndexDie(_, _, _)
IndexDie(w, fs, layer) ==
    IF fs = <<>>
      THEN w
      ELSE IndexDie([w EXCEPT !.queue[Head(fs)]["DIMENSION"].list =
                        SetIndex(w.queue[Head(fs)]["DIMENSION"],
                                 Pull(w, Head(fs), 0, Unspecified, "DIMENSION").data, layer)],
                    Tail(fs), layer)

RECURSIVE IndexDies(_, _, _, _)
IndexDies(w, fs, dies, layer) ==
    IF dies = <<>>
      THEN w
      ELSE IndexDies(IndexDie(w, OnDie(w, fs, Head(dies)), layer), fs, Tail(dies), layer + 1)

ThreeDiceElements(w, c, fs, dies) ==
    [w EXCEPT !.lib[c] =
        [model |-> "3dice", floorplans |-> fs, step |-> 0,
         placed |-> UNION {ToSet(OnDie(w, fs, dies[i])) : i \in DOMAIN dies},
         values |-> ToFloorplans(fs, <<>>),
         power |-> ToFloorplans(fs, 0),
         temperature |-> ToFloorplans(fs,
             OwnOr(w, c, "temperature", LookupInPath(w, c, "ambient_temperature")))]]

\* thermallib_3dice::initialize.  The layers are counted from the bottom.
ThreeDiceInitialize(w, c) ==
    LET fs   == Floorplans(w, c)
        dies == SelectSeq(Own(w, c).stack, LAMBDA x : x.type = "die")
    IN  IF ~ThreeDiceConfigured(w, c, fs)
          THEN Exit(w)
          ELSE IndexDies(ThreeDiceElements(w, c, fs, dies), fs, Reverse(dies), 0)

\* thermallib_3dice::map_floorplan_power: one value at a time
ThreeDiceMapPower(w, c, f, power) ==
    IF f \notin w.lib[c].placed \/ w.lib[c].values[f] # <<>>
      THEN Exit(w)
      ELSE [w EXCEPT !.lib[c].values[f] = <<GetTotal(power)>>]

\* Mutant: the values are not taken out of the queues
ThreeDiceCalculateKeeping(w, c, p, field) ==
    [w EXCEPT !.lib[c].step = p,
              !.lib[c].temperature = Solution(w.lib[c].floorplans, field)]

\* thermallib_3dice::calculate_temperature: a new system matrix for a new
\* step time, and fill_sources takes the values from the queues
ThreeDiceCalculate(w, c, p, field) ==
    LET values == w.lib[c].values
    IN  [w EXCEPT !.lib[c].step = p,
                  !.lib[c].power = [f \in DOMAIN values |->
                                       IF values[f] = <<>> THEN @[f] ELSE Head(values[f])],
                  !.lib[c].values = [f \in DOMAIN values |-> <<>>],
                  !.lib[c].temperature = Solution(w.lib[c].floorplans, field)]

\* thermallib_3dice::get_floorplan_temperature
ThreeDiceFloorplanTemperature(w, c, f) ==
    Return(w, IF f \in w.lib[c].placed THEN w.lib[c].temperature[f] ELSE 0)

\* thermallib_3dice::update_library_variable
ThreeDiceUpdate(w, c, type, value, isLibrary) == Return(w, FALSE)

-----------------------------------------------------------------------------
\* microfluidics

MicrofluidicsBlocks(w, c, fs) ==
    [w EXCEPT !.lib[c] =
        [model |-> "microfluidics", floorplans |-> fs,
         power |-> ToFloorplans(fs, 0),
         temperature |-> ToFloorplans(fs, LookupInPath(w, c, "temperature"))]]

\* thermallib_microfluidics::initialize
MicrofluidicsInitialize(w, c) ==
    IF ~MicrofluidicsConfigured(w, c)
      THEN Exit(w)
      ELSE PullDimensions(MicrofluidicsBlocks(w, c, Floorplans(w, c)), Floorplans(w, c))

\* thermallib_microfluidics::map_floorplan_power and calculate_temperature
MicrofluidicsMapPower(w, c, f, power) ==
    IF ~IsFloorplan(w, c, f)
      THEN Exit(w)
      ELSE [w EXCEPT !.lib[c].power[f] = GetTotal(power)]

MicrofluidicsCalculate(w, c, p, field) ==
    [w EXCEPT !.lib[c].temperature = Solution(w.lib[c].floorplans, field)]

\* thermallib_microfluidics::get_floorplan_temperature
MicrofluidicsFloorplanTemperature(w, c, f) ==
    IF ~IsFloorplan(w, c, f) THEN Exit(w) ELSE Return(w, w.lib[c].temperature[f])

\* thermallib_microfluidics::update_library_variable
MicrofluidicsUpdate(w, c, type, value, isLibrary) ==
    IF isLibrary THEN Exit(w) ELSE Return(w, FALSE)

-----------------------------------------------------------------------------
\* The calls through thermal_library_t

ThermalModels == {"hotspot", "3dice", "microfluidics"}

IsThermalLibrary(w, c) == c \in DOMAIN w.lib /\ w.lib[c].model \in ThermalModels

MapFloorplanPower(w, c, f, power) ==
    CASE w.lib[c].model = "hotspot" -> HotspotMapPower(w, c, f, power)
      [] w.lib[c].model = "3dice" -> ThreeDiceMapPower(w, c, f, power)
      [] w.lib[c].model = "microfluidics" -> MicrofluidicsMapPower(w, c, f, power)

LibraryTemperature(w, c, p, field) ==
    CASE w.lib[c].model = "hotspot" -> HotspotCalculate(w, c, p, field)
      [] w.lib[c].model = "3dice" -> ThreeDiceCalculate(w, c, p, field)
      [] w.lib[c].model = "microfluidics" -> MicrofluidicsCalculate(w, c, p, field)

FloorplanTemperature(w, c, f) ==
    CASE w.lib[c].model = "hotspot" -> HotspotFloorplanTemperature(w, c, f)
      [] w.lib[c].model = "3dice" -> ThreeDiceFloorplanTemperature(w, c, f)
      [] w.lib[c].model = "microfluidics" -> MicrofluidicsFloorplanTemperature(w, c, f)

-----------------------------------------------------------------------------
\* The reliability library: the failure rate of a component at its
\* temperature, voltage and clock frequency

IsReliabilityLibrary(w, c) == c \in DOMAIN w.lib /\ w.lib[c].model = "failure"

\* reliabilitylib_failure::initialize: the model starts at the conditions the
\* target lifetime is given for
FailureInitialize(w, c) ==
    IF ~FailureConfigured(w, c)
      THEN Exit(w)
      ELSE [w EXCEPT !.lib[c] =
                [model |-> "failure",
                 temp |-> Own(w, c).target_temperature,
                 vdd |-> Own(w, c).target_voltage,
                 freq |-> Own(w, c).target_frequency,
                 ambient |-> LookupInPath(w, c, "ambient_temperature")]]

\* failure_model_t::get_failure_rate grows with each of the conditions
FailureRate(temp, vdd, freq, ambient) == (temp \div 10) * vdd * freq + ambient \div 100

\* reliabilitylib_failure::get_failure_rate
LibraryFailureRate(w, c, temp, vdd, freq) ==
    LET t == IF temp < 300 THEN 300 ELSE IF temp > 400 THEN 400 ELSE temp
    IN  Return([w EXCEPT !.lib[c].temp = t, !.lib[c].vdd = vdd, !.lib[c].freq = freq],
               FailureRate(t, vdd, freq, w.lib[c].ambient))

\* reliabilitylib_failure::update_library_variable
FailureUpdate(w, c, type, value, isLibrary) ==
    CASE isLibrary -> Exit(w)
      [] ~isLibrary /\ type = "VOLTAGE" -> Return([w EXCEPT !.lib[c].vdd = value], TRUE)
      [] ~isLibrary /\ type = "TEMPERATURE" -> Return([w EXCEPT !.lib[c].temp = value], TRUE)
      [] ~isLibrary /\ type = "AMBIENT_TEMPERATURE" ->
             Return([w EXCEPT !.lib[c].ambient = value], TRUE)
      [] ~isLibrary /\ type = "CLOCK_FREQUENCY" -> Return([w EXCEPT !.lib[c].freq = value], TRUE)
      [] OTHER -> Return(w, FALSE)

=============================================================================
