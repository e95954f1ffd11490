-------------------------- MODULE EnergyLibraries ---------------------------
(***************************************************************************)
(* The energy libraries: McPAT, DSENT, IntSim, TSV and DRAMsim.            *)
(*                                                                         *)
(* What a library keeps is the operating point its energies are computed   *)
(* for and, in McPAT, the inputs its structures were found with.  The      *)
(* physics is abstracted: an access costs Joule per volt, a leakage power  *)
(* is a function of temperature and voltage.  A leakage energy is kept as  *)
(* the power it stands for, since every use multiplies it with the clock   *)
(* frequency that it was divided by.                                       *)
(* An access counter is the number of accesses of each kind together.      *)
(***************************************************************************)
EXTENDS LibrarySettings

CONSTANT Joule   \* dynamic energy of one access at one volt

ASSUME JouleAssumption == Joule \in Nat \ {0}

\* default arguments of get_tdp_power: the temperature of a thermal design power
MaxTemperature == 373

Scale(w, c)       == PathOr(w, c, "scaling", 1)
EnergyScale(w, c) == PathOr(w, c, "energy_scaling", 1)

\* leakage in the unit of power: it grows with temperature and voltage
Leakage(temp, vdd) == (temp \div 10) * vdd

Units(baseline, switching, read, read_tag, leakage) ==
    [baseline |-> baseline, switching |-> switching, read |-> read,
     read_tag |-> read_tag, leakage |-> leakage]

-----------------------------------------------------------------------------
\* McPAT.  Its structures communicate through globals: g_ip points to an
\* InputParameter, and update_energy assigns *g_ip before it sets g_ip.

\* the voltage of a technology node, until the configuration gives another
TechVoltage == 1

\* *g_ip = x
Through(w, x) == [w EXCEPT !.lib[w.g_ip.owner][w.g_ip.field] = x]

PointTo(w, c, field) == [w EXCEPT !.g_ip = [owner |-> c, field |-> field]]

\* init_interface(&input_p): g_ip is input_p, g_tp the technology at its
\* temperature
InitInterface(w, c) == PointTo(w, c, "input")

\* *g_ip = l_ip = McPAT_input; then init_interface(&l_ip), and the energies
\* are those of l_ip's structure under the technology of the call
StructureUpdate(w, c) ==
    LET input == w.lib[c].input
    IN  PointTo(Through([w EXCEPT !.lib[c].l_ip = input], input), c, "l_ip")

\* The buffers of the front end are updated with the inputs they were created
\* with; the assignment of *g_ip in the back end and PHY is commented out
ControllerUpdate(w, c) == PointTo(Through(w, w.lib[c].front), c, "l_ip")

\* input_p = *g_ip
CopyBack(w, c) == [w EXCEPT !.lib[c].input = w.lib[w.g_ip.owner][w.g_ip.field]]

\* the last part of energylib_mcpat::update_library_variable
McpatUpdateEnergy(w, c) ==
    CopyBack(IF w.lib[c].energy_model = "memory_controller"
               THEN ControllerUpdate(w, c)
               ELSE StructureUpdate(w, c), c)

\* Limit the temperature range between 300~400K
Limited(temp) == IF temp < 300 THEN 300 ELSE IF temp > 400 THEN 400 ELSE temp

\* the cases of update_library_variable; leakage currents are scaled from
\* those of the technology at the temperature of input_p
McpatTemperature(w, c, value) ==
    LET w1 == InitInterface([w EXCEPT !.lib[c].input.temp = Limited(value)], c)
    IN  [w1 EXCEPT !.lib[c].leak = Limited(value)]

McpatClock(w, c, value) == [w EXCEPT !.lib[c].clk = value]

McpatVoltage(w, c, value) ==
    LET w1 == InitInterface([w EXCEPT !.lib[c].vdd = value], c)
    IN  [w1 EXCEPT !.lib[c].leak = w1.lib[c].input.temp]

\* energylib_mcpat::update_library_variable, and get_mcpat_data_type
McpatUpdate(w, c, type, value) ==
    CASE type = "TEMPERATURE" ->
             Return(McpatUpdateEnergy(McpatTemperature(w, c, value), c), TRUE)
      [] type = "CLOCK_FREQUENCY" ->
             Return(McpatUpdateEnergy(McpatClock(w, c, value), c), TRUE)
      [] type = "VOLTAGE" ->
             Return(McpatUpdateEnergy(McpatVoltage(w, c, value), c), TRUE)
      [] OTHER -> Return(w, FALSE)

\* McPAT does not scale the decoders of x86: their scaling becomes one of area
IsX86Decoder(w, c) ==
    Own(w, c).energy_model = "inst_decoder" /\ OwnOr(w, c, "x86", FALSE)

McpatScaling(w, c) == IF IsX86Decoder(w, c) THEN 1 ELSE Scale(w, c)

McpatAreaScaling(w, c) ==
    IF IsX86Decoder(w, c) THEN Scale(w, c) ELSE PathOr(w, c, "area_scaling", 1)

\* TDP_duty_cycle
McpatDutyCycle(w, c) ==
    [switching |-> OwnOr(w, c, "TDP_switching_cycle", 1),
     read      |-> OwnOr(w, c, "TDP_read_cycle", 1),
     read_tag  |-> OwnOr(w, c, "TDP_read_tag_cycle", 0)]

\* tag_w > 0, of an array with tags
HasTags(w, c) == Own(w, c).energy_model = "array" /\ OwnOr(w, c, "tag_width", 0) > 0

\* the structure is created from input_p: its constructor copies input_p to
\* l_ip, finds the structure, and leaves g_ip at l_ip
McpatCreate(w, c) ==
    LET model == Own(w, c).energy_model
        input == [temp |-> LookupInPath(w, c, "temperature"), tags |-> HasTags(w, c)]
    IN  PointTo([w EXCEPT !.lib[c] =
                     [model |-> "mcpat", energy_model |-> model,
                      input |-> input, l_ip |-> input, front |-> input,
                      leak |-> input.temp, vdd |-> TechVoltage,
                      clk |-> LookupInPath(w, c, "clock_frequency"),
                      duty |-> McpatDutyCycle(w, c)]], c, "l_ip")

\* energylib_mcpat::initialize
McpatInitialize(w, c) ==
    IF ~McpatConfigured(w, c)
      THEN Exit(w)
      ELSE LET v == PathOr(w, c, "voltage", 0)
           IN  IF v > 0 THEN McpatUpdate(McpatCreate(w, c), c, "VOLTAGE", v)
                        ELSE McpatCreate(w, c)

\* energylib_mcpat::get_unit_energy of an array: only one with a tag array
\* has tag energy
ArrayUnits(w, c) ==
    LET e == Joule * w.lib[c].vdd IN
    Units(0, 0, e, IF w.lib[c].l_ip.tags THEN e ELSE 0,
          Leakage(w.lib[c].leak, w.lib[c].vdd))

ControllerUnits(w, c) ==
    LET e == Joule * w.lib[c].vdd IN
    Units(0, e, e, 0, Leakage(w.lib[c].leak, w.lib[c].vdd))

LogicUnits(w, c) ==
    Units(0, Joule * w.lib[c].vdd, 0, 0, Leakage(w.lib[c].leak, w.lib[c].vdd))

\* a decoder of x86 has its leakage scaled here
DecoderUnits(w, c) ==
    IF IsX86Decoder(w, c)
      THEN [LogicUnits(w, c) EXCEPT !.leakage = (@ * McpatAreaScaling(w, c)) \div 4]
      ELSE LogicUnits(w, c)

McpatUnits(w, c) ==
    CASE w.lib[c].energy_model = "array" -> ArrayUnits(w, c)
      [] w.lib[c].energy_model = "memory_controller" -> ControllerUnits(w, c)
      [] w.lib[c].energy_model = "inst_decoder" -> DecoderUnits(w, c)
      [] OTHER -> LogicUnits(w, c)

ScaleUnits(u, energy_scaling, scaling) ==
    Units(0, u.switching * energy_scaling, u.read * energy_scaling,
          u.read_tag * energy_scaling, u.leakage * energy_scaling * scaling)

McpatUnitEnergy(w, c) ==
    ScaleUnits(McpatUnits(w, c), EnergyScale(w, c), McpatScaling(w, c))

\* Mutant: the temperature is not restored
McpatTdpUnrestored(w, c) ==
    LET hot == McpatUpdate(w, c, "TEMPERATURE", MaxTemperature)
    IN  Return(hot, NoPower)

\* energylib_mcpat::get_tdp_power: the energies are those at the maximal
\* temperature, and the temperature of input_p is restored afterwards
McpatDutyPower(unit, duty, scaling) ==
    Power((duty.switching * unit.switching + duty.read * unit.read
              + duty.read_tag * unit.read_tag) * scaling, unit.leakage)

McpatTdpPower(w, c) ==
    LET hot   == McpatUpdate(w, c, "TEMPERATURE", MaxTemperature)
        scale == IF IsX86Decoder(w, c) THEN McpatAreaScaling(w, c) ELSE 1
    IN  Return(McpatUpdate(hot, c, "TEMPERATURE", w.lib[c].input.temp),
               McpatDutyPower(McpatUnitEnergy(hot, c), w.lib[c].duty, scale * w.lib[c].clk))

\* energylib_mcpat::get_runtime_power
McpatAccessPower(unit, p, n) ==
    Power((n * (unit.switching + unit.read + unit.read_tag)) \div p, unit.leakage)

McpatRuntimePower(w, c, p, n) ==
    Return(w, McpatAccessPower(McpatUnitEnergy(w, c), p, n))

-----------------------------------------------------------------------------
\* DSENT.  Every change makes a new electrical model of the technology model
\* and the parameters of the old one.

DsentBuild(w, c) ==
    LET l == w.lib[c]
    IN  [w EXCEPT !.lib[c].built =
             [frequency |-> l.frequency, temp |-> l.temp, vdd |-> l.vdd]]

\* energylib_dsent::initialize
DsentInitialize(w, c) ==
    IF ~DsentConfigured(w, c)
      THEN Exit(w)
      ELSE LET clk == LookupInPath(w, c, "clock_frequency")
               lib == [model |-> "dsent",
                       energy_model |-> LookupInPath(w, c, "energy_model"),
                       clk |-> clk, frequency |-> clk,
                       temp |-> LookupInPath(w, c, "temperature"),
                       vdd |-> LookupInPath(w, c, "voltage"),
                       rate |-> OwnOr(w, c, "TDPInjectionRate", 1),
                       built |-> 0]
           IN  DsentBuild([w EXCEPT !.lib[c] = lib], c)

\* energylib_dsent::get_unit_energy: what the queries of the built model give
DsentUnitEnergy(w, c) ==
    LET b == w.lib[c].built
        e == Joule * b.vdd * EnergyScale(w, c)
        leakage == Leakage(b.temp, b.vdd) * EnergyScale(w, c) * Scale(w, c)
    IN  IF w.lib[c].energy_model = "router"
          THEN Units(Joule, e, e, 0, leakage)
          ELSE Units(0, e, 0, 0, leakage)

\* Mutant: the technology model changes, the electrical model does not
DsentUpdateUnbuilt(w, c, type, value) ==
    IF type = "VOLTAGE"
      THEN Return([w EXCEPT !.lib[c].vdd = value], TRUE)
      ELSE Return(w, FALSE)

\* energylib_dsent::update_library_variable, of a data type
DsentUpdate(w, c, type, value) ==
    CASE type = "CLOCK_FREQUENCY" ->
             Return(DsentBuild([w EXCEPT !.lib[c].clk = value,
                                         !.lib[c].frequency = value], c), TRUE)
      [] type = "TEMPERATURE" ->
             Return(DsentBuild([w EXCEPT !.lib[c].temp = value], c), TRUE)
      [] type = "VOLTAGE" ->
             Return(DsentBuild([w EXCEPT !.lib[c].vdd = value], c), TRUE)
      [] OTHER -> Return(w, FALSE)

\* energylib_dsent::get_tdp_power.  A repeated link has no dynamic part.
DsentRatePower(unit, l) ==
    Power(IF l.energy_model = "router"
            THEN ((2 * unit.read + unit.switching) * l.rate + unit.baseline) * l.clk
            ELSE 0,
          unit.leakage)

DsentTdpPower(w, c) ==
    LET hot == DsentUpdate(w, c, "TEMPERATURE", MaxTemperature)
    IN  Return(DsentUpdate(hot, c, "TEMPERATURE", w.lib[c].temp),
               DsentRatePower(DsentUnitEnergy(hot, c), w.lib[c]))

\* energylib_dsent::get_runtime_power
DsentAccessPower(unit, clk, p, n) ==
    Power(unit.baseline * clk + (n * (unit.switching + 2 * unit.read)) \div p, unit.leakage)

DsentRuntimePower(w, c, p, n) ==
    Return(w, DsentAccessPower(DsentUnitEnergy(w, c), w.lib[c].clk, p, n))

-----------------------------------------------------------------------------
\* IntSim.  The activity factor a = count/(period * f) is kept as its two
\* parts; the chip holds the parameters its powers were computed for.

TdpActivity == [count |-> 1, cycles |-> 1]

IntsimUpdateEnergy(w, c) == [w EXCEPT !.lib[c].chip = w.lib[c].param]

\* energylib_intsim::initialize
IntsimInitialize(w, c) ==
    IF ~IntsimConfigured(w, c)
      THEN Exit(w)
      ELSE LET param == [a |-> TdpActivity,
                         f |-> LookupInPath(w, c, "clock_frequency"),
                         vdd |-> LookupInPath(w, c, "voltage"),
                         temp |-> LookupInPath(w, c, "temperature")]
           IN  [w EXCEPT !.lib[c] =
                    [model |-> "intsim", area |-> w.cfg.library[c].area,
                     param |-> param, chip |-> param]]

\* energylib_intsim::get_unit_energy, times the clock frequency
IntsimUnitPower(w, c) ==
    LET chip == w.lib[c].chip
        f    == w.lib[c].param.f
        s    == EnergyScale(w, c)
    IN  Power((Joule * chip.vdd * f * chip.a.count * s) \div chip.a.cycles,
              Leakage(chip.temp, chip.vdd) * s * Scale(w, c))

\* energylib_intsim::update_library_variable, of a data type
IntsimUpdate(w, c, type, value) ==
    CASE type = "CLOCK_FREQUENCY" ->
             Return(IntsimUpdateEnergy([w EXCEPT !.lib[c].param.f = value], c), TRUE)
      [] type = "TEMPERATURE" ->
             Return(IntsimUpdateEnergy([w EXCEPT !.lib[c].param.temp = value], c), TRUE)
      [] type = "VOLTAGE" ->
             Return(IntsimUpdateEnergy([w EXCEPT !.lib[c].param.vdd = value], c), TRUE)
      [] OTHER -> Return(w, FALSE)

\* energylib_intsim::get_tdp_power
IntsimTdpPower(w, c) ==
    LET param == w.lib[c].param
        hot   == IntsimUpdate(w, c, "TEMPERATURE", MaxTemperature)
        busy  == IntsimUpdateEnergy([hot EXCEPT !.lib[c].param.a = TdpActivity], c)
        back  == [busy EXCEPT !.lib[c].param.a = param.a]
    IN  Return(IntsimUpdate(back, c, "TEMPERATURE", param.temp), IntsimUnitPower(back, c))

\* energylib_intsim::get_runtime_power
IntsimRuntimePower(w, c, p, n) ==
    LET a  == [count |-> n, cycles |-> p * w.lib[c].param.f]
        w1 == IntsimUpdateEnergy([w EXCEPT !.lib[c].param.a = a], c)
    IN  Return(w1, IntsimUnitPower(w1, c))

-----------------------------------------------------------------------------
\* TSV.  tsv_t starts with a voltage of its own, since initialize reads the
\* setting into another member; it reads whether there is a clock frequency.

TsvVoltage == 1

\* energylib_tsv::initialize
TsvInitialize(w, c) ==
    IF ~Defined(w, c, {"data_width"}, {})
      THEN Exit(w)
      ELSE [w EXCEPT !.lib[c] =
                [model |-> "tsv", vdd |-> TsvVoltage,
                 clk |-> IF ExistsInPath(w, c, "clock_frequency") THEN 1 ELSE 0,
                 energy_scaling |-> OwnOr(w, c, "energy_scaling", 1)
                                        * w.cfg.library[c].data_width]]

\* energylib_tsv::get_unit_energy
TsvUnitEnergy(w, c) ==
    Joule * w.lib[c].vdd * w.lib[c].vdd * w.lib[c].energy_scaling

\* energylib_tsv::get_tdp_power and get_runtime_power
TsvTdpPower(w, c) == Return(w, Power(TsvUnitEnergy(w, c) * w.lib[c].clk, 0))
TsvRuntimePower(w, c, p, n) == Return(w, Power((n * TsvUnitEnergy(w, c)) \div p, 0))

\* energylib_tsv::update_library_variable, of a data type
TsvUpdate(w, c, type, value) ==
    CASE type = "CLOCK_FREQUENCY" -> Return([w EXCEPT !.lib[c].clk = value], TRUE)
      [] type = "VOLTAGE" -> Return([w EXCEPT !.lib[c].vdd = value], TRUE)
      [] type = "TEMPERATURE" -> Return(w, TRUE)
      [] OTHER -> Return(w, FALSE)

-----------------------------------------------------------------------------
\* DRAMsim.  It has no thermal design power, and only its voltage follows
\* the queues.

\* energylib_dramsim::initialize
DramsimInitialize(w, c) ==
    IF ~DramsimConfigured(w, c)
      THEN Exit(w)
      ELSE [w EXCEPT !.lib[c] =
                [model |-> "dramsim", vdd |-> LookupInPath(w, c, "voltage"),
                 clk |-> LookupInPath(w, c, "clock_frequency")]]

\* energylib_dramsim::get_unit_energy
DramsimUnitEnergy == 3 * Joule   \* reads, precharge and background

\* energylib_dramsim::get_runtime_power
DramsimRuntimePower(w, c, p, n) ==
    Return(w, Power((n * DramsimUnitEnergy * w.lib[c].vdd) \div (p * w.lib[c].clk), 0))

\* energylib_dramsim::update_library_variable, of a data type
DramsimUpdate(w, c, type, value) ==
    IF type = "VOLTAGE"
      THEN Return([w EXCEPT !.lib[c].vdd = value], TRUE)
      ELSE Return(w, FALSE)

-----------------------------------------------------------------------------
\* The calls through energy_library_t

EnergyModels == {"mcpat", "dsent", "intsim", "tsv", "dramsim"}

IsEnergyLibrary(w, c) == c \in DOMAIN w.lib /\ w.lib[c].model \in EnergyModels

TdpPower(w, c) ==
    CASE w.lib[c].model = "mcpat"   -> McpatTdpPower(w, c)
      [] w.lib[c].model = "dsent"   -> DsentTdpPower(w, c)
      [] w.lib[c].model = "intsim"  -> IntsimTdpPower(w, c)
      [] w.lib[c].model = "tsv"     -> TsvTdpPower(w, c)
      [] w.lib[c].model = "dramsim" -> Return(w, NoPower)

RuntimePower(w, c, p, n) ==
    CASE w.lib[c].model = "mcpat"   -> McpatRuntimePower(w, c, p, n)
      [] w.lib[c].model = "dsent"   -> DsentRuntimePower(w, c, p, n)
      [] w.lib[c].model = "intsim"  -> IntsimRuntimePower(w, c, p, n)
      [] w.lib[c].model = "tsv"     -> TsvRuntimePower(w, c, p, n)
      [] w.lib[c].model = "dramsim" -> DramsimRuntimePower(w, c, p, n)

\* get_area: one unit of what the structure takes, times the scalings
McpatArea(w, c) == McpatAreaScaling(w, c) * McpatScaling(w, c)

LibraryArea(w, c) ==
    CASE w.lib[c].model = "mcpat"   -> McpatArea(w, c)
      [] w.lib[c].model = "dsent"   -> 1
      [] w.lib[c].model = "intsim"  -> w.lib[c].area
      [] w.lib[c].model = "tsv"     -> 1
      [] w.lib[c].model = "dramsim" -> 0

=============================================================================
