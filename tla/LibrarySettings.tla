-------------------------- MODULE LibrarySettings ---------------------------
(***************************************************************************)
(* The settings of the library models: which must be given, in the         *)
(* component's own library group or on the path to the root, and which     *)
(* names they may take.  A missing setting or an unknown name ends the     *)
(* process, in the initialize function of the library.  A setting that is  *)
(* a group of numbers is taken as a whole: it has all of its members.      *)
(* Names that differ in case or are synonyms are one name.                 *)
(***************************************************************************)
EXTENDS KitfoxState

Own(w, c) == w.cfg.library[c]

SettingsGiven(w, c, names) == Defined(w, c, names, {})
PathGiven(w, c, names)     == Defined(w, c, {}, names)

\* a setting that names one of several things
OwnIn(w, c, v, names)  == ExistsInLibrary(w, c, v) /\ Own(w, c)[v] \in names
PathIn(w, c, v, names) == ExistsInPath(w, c, v) /\ LookupInPath(w, c, v) \in names

\* the same, of one that may be left out
OwnKnown(w, c, v, names)  == ExistsInLibrary(w, c, v) => Own(w, c)[v] \in names
PathKnown(w, c, v, names) == ExistsInPath(w, c, v) => LookupInPath(w, c, v) \in names

-----------------------------------------------------------------------------
\* McPAT

McpatModels ==
    {"array", "dep_resource_conflict_check", "flash_controller", "functional_unit",
     "inst_decoder", "interconnect", "memory_controller", "niu_controller", "noc",
     "pcie_controller", "pipeline", "selection_logic", "undiff_core"}

\* the models that come in several kinds name theirs in energy_submodel
McpatSubmodels ==
    [array           |-> {"memory", "cache", "ram", "cam"},
     functional_unit |-> {"alu", "mul", "fpu"},
     noc             |-> {"noc_bus", "noc_router"}]

-----------------------------------------------------------------------------
\* McPAT: what every model reads

WireTypes ==
    {"global", "global_5", "global_10", "global_20", "global_30", "low_swing",
     "semi_global", "transmission", "optical"}

\* energy_model and energy_submodel
McpatModelKnown(w, c) ==
    /\ OwnIn(w, c, "energy_model", McpatModels)
    /\ Own(w, c).energy_model \in DOMAIN McpatSubmodels =>
           OwnIn(w, c, "energy_submodel", McpatSubmodels[Own(w, c).energy_model])

\* access_mode and wire_type
McpatWiresKnown(w, c) ==
    /\ PathKnown(w, c, "access_mode", {"normal", "sequential", "fast"})
    /\ PathKnown(w, c, "wire_type", WireTypes)

\* the device types of the technology
McpatDevicesKnown(w, c) ==
    \A v \in {"device_type",
              "data_arr_ram_cell_tech_type", "data_arr_peri_global_tech_type",
              "tag_arr_ram_cell_tech_type", "tag_arr_peri_global_tech_type"} :
        PathKnown(w, c, v, {"hp", "lstp", "lop", "lp_dram", "comm_dram"})

\* the interconnect of the technology
McpatProjectionKnown(w, c) ==
    /\ PathKnown(w, c, "interconnect_projection", {"aggressive", "conservative"})
    /\ \A v \in {"wiring_type", "wire_is_mat_type", "wire_os_mat_type",
                 "ver_htree_wires_over_array",
                 "broadcast_addr_din_over_ver_htrees"} :
           PathKnown(w, c, v, {"local", "semi_global", "global", "dram"})

\* the geometry of an array is searched for, or given
McpatGeometryGiven(w, c) ==
    PathOr(w, c, "force_cache_config", FALSE) =>
        PathGiven(w, c, {"ndbl", "ndwl", "nspd", "ndsam1", "ndsam2", "ndcm"})

\* component_type, and core_type of what is in a core
InCore(w, c) == LookupInPath(w, c, "component_type") = "core"

McpatPlaceKnown(w, c) ==
    /\ PathIn(w, c, "component_type", {"core", "llc", "uncore"})
    /\ InCore(w, c) => PathIn(w, c, "core_type", {"ooo", "inorder"})

Embedded(w, c) == PathOr(w, c, "embedded", FALSE)

-----------------------------------------------------------------------------
\* McPAT: what one model reads, the cases of the switch that creates the structures

Controllers == {"high_performance", "low_power"}

ArraySettings(w, c) ==
    /\ SettingsGiven(w, c, {"line_size"})
    /\ OwnOr(w, c, "nsets", 0) # 0 \/ OwnOr(w, c, "size", 0) # 0

DependencySettings(w, c) == SettingsGiven(w, c, {"compare_bits", "decode_width"})

FlashSettings(w, c) ==
    /\ SettingsGiven(w, c, {"peak_transfer_rate", "withPHY"})
    /\ OwnIn(w, c, "controller_type", Controllers)

DecoderSettings(w, c) == SettingsGiven(w, c, {"decode_length"})

\* the areas of what an interconnect connects make up its wire length
RECURSIVE WireLength(_, _)
WireLength(w, sources) ==
    IF sources = <<>>
      THEN 0
      ELSE GetArea(Pull(w, Head(sources), 0, Unspecified, "DIMENSION").data)
               + WireLength(w, Tail(sources))

\* An interconnect whose wire length is not given takes it from the dimensions
\* of the components it connects, which exist and have one.  Any length from
\* here on is that of a wire on a chip, below a metre.
WiresSettings(w, c) ==
    /\ SettingsGiven(w, c, {"data_width"})
    /\ IF ExistsInLibrary(w, c, "wire_length")
         THEN Own(w, c).wire_length > 0
         ELSE /\ SettingsGiven(w, c, {"connect"})
              /\ \A i \in DOMAIN Own(w, c).connect :
                     LET source == Own(w, c).connect[i]
                     IN  /\ source \in DOMAIN w.cfg.subset
                         /\ ~Fails(Pull(w, source, 0, Unspecified, "DIMENSION"))
              /\ WireLength(w, Own(w, c).connect) > 0
    /\ OwnOr(w, c, "pipelinable", FALSE) =>
           SettingsGiven(w, c, {"routing_over_percentage"})
    /\ OwnKnown(w, c, "wire_type", WireTypes)

ControllerSettings(w, c) ==
    /\ SettingsGiven(w, c, {"line_size", "databus_width", "addressbus_width",
                            "num_channels", "transfer_rate", "num_ranks",
                            "request_window_size", "IO_buffer_size"})
    /\ OwnKnown(w, c, "type", Controllers)

NiuSettings(w, c) == OwnIn(w, c, "type", Controllers)

\* a bus has the length of its links, or that of the side of the chip
NocSettings(w, c) ==
    /\ SettingsGiven(w, c, {"flit_bits"})
    /\ IF Own(w, c).energy_submodel = "noc_bus"
         THEN IF ExistsInLibrary(w, c, "link_length")
                THEN Own(w, c).link_length # 0
                ELSE OwnOr(w, c, "chip_area", 0) # 0
         ELSE SettingsGiven(w, c, {"input_ports", "output_port", "virtual_channels",
                                   "input_buffer_entries"})

PcieSettings(w, c) ==
    OwnIn(w, c, "type", Controllers) /\ SettingsGiven(w, c, {"num_channels"})

\* Unless the vector of a stage is given, McPAT calculates it.  Outside a core
\* nobody sets the core type that is read here: only a pipeline that has the
\* registers of both types is sure to be created.
PipelineSettings(w, c) ==
    /\ SettingsGiven(w, c, {"pipeline_stages"})
    /\ OwnOr(w, c, "per_stage_vector", 0) = 0 =>
           SettingsGiven(w, c,
               {"pc_width", "fetch_width", "decode_width", "issue_width",
                "instruction_length", "int_data_width",
                IF OwnOr(w, c, "x86", FALSE) THEN "micro_opcode_length" ELSE "opcode_length"}
               \cup (IF OwnOr(w, c, "num_hthreads", 1) > 1 THEN {"thread_states"} ELSE {})
               \cup (IF InCore(w, c) /\ LookupInPath(w, c, "core_type") = "ooo"
                       THEN {} ELSE {"arch_int_regs"})
               \cup (IF InCore(w, c) /\ LookupInPath(w, c, "core_type") = "inorder"
                       THEN {}
                       ELSE {"phy_int_regs", "virtual_address_width", "commit_width"}))

SelectionSettings(w, c) == SettingsGiven(w, c, {"selection_input", "selection_output"})

UndiffSettings(w, c) ==
    /\ SettingsGiven(w, c, {"pipeline_stages", "issue_width"})
    /\ Embedded(w, c) => SettingsGiven(w, c, {"opt_clockrate"})

\* the switch itself; a functional unit reads nothing of its own
McpatStructureKnown(w, c) ==
    LET model == Own(w, c).energy_model
    IN  CASE model = "array" -> ArraySettings(w, c)
          [] model = "dep_resource_conflict_check" -> DependencySettings(w, c)
          [] model = "flash_controller" -> FlashSettings(w, c)
          [] model = "functional_unit" -> TRUE
          [] model = "inst_decoder" -> DecoderSettings(w, c)
          [] model = "interconnect" -> WiresSettings(w, c)
          [] model = "memory_controller" -> ControllerSettings(w, c)
          [] model = "niu_controller" -> NiuSettings(w, c)
          [] model = "noc" -> NocSettings(w, c)
          [] model = "pcie_controller" -> PcieSettings(w, c)
          [] model = "pipeline" -> PipelineSettings(w, c)
          [] model = "selection_logic" -> SelectionSettings(w, c)
          [] model = "undiff_core" -> UndiffSettings(w, c)

\* energylib_mcpat::initialize does not exit
McpatConfigured(w, c) ==
    /\ PathGiven(w, c, {"clock_frequency", "feature_size", "temperature"})
    /\ McpatModelKnown(w, c)
    /\ McpatWiresKnown(w, c) /\ McpatDevicesKnown(w, c) /\ McpatProjectionKnown(w, c)
    /\ McpatGeometryGiven(w, c) /\ McpatPlaceKnown(w, c)
    /\ McpatStructureKnown(w, c)

-----------------------------------------------------------------------------
\* DSENT

\* the parameters of the technology model, each a group of numbers
DsentTechnology(w, c) ==
    PathGiven(w, c, {"tech_model", "voltage", "temperature", "Gate", "Drain",
                     "Nmos", "Pmos", "Wire", "StdCell"})

\* those of a photonic technology
DsentPhotonics(w, c) ==
    LookupInPath(w, c, "tech_model") = "photonics" =>
        PathGiven(w, c, {"Waveguide", "Laser", "Modulator", "Ring", "Photodetector",
                         "SenseAmp", "Receiver"})

DsentRouter(w, c) ==
    SettingsGiven(w, c,
        {"NumberInputPorts", "NumberOutputPorts", "NumberBitsPerFlit",
         "NumberVirtualNetworks", "NumberVirtualChannelsPerVirtualNetwork",
         "NumberBuffersPerVirtualChannel", "InputPort", "CrossbarModel",
         "SwitchAllocator", "ClockTreeModel", "ClockTree"})

DsentLink(w, c) ==
    SettingsGiven(w, c, {"NumberBits", "WireLayer", "WireWidthMultiplier",
                         "WireSpacingMultiplier", "WireLength", "Delay"})

\* a link with a single writer and reader is known and not supported
DsentModelKnown(w, c) ==
    /\ PathIn(w, c, "energy_model", {"router", "repeatedlink"})
    /\ IF LookupInPath(w, c, "energy_model") = "router"
         THEN DsentRouter(w, c) ELSE DsentLink(w, c)

\* the timing is optimized from the nets that are given
DsentTimed(w, c) == OwnOr(w, c, "IsPerformTimingOptimization", FALSE)

DsentTiming(w, c) == DsentTimed(w, c) => PathGiven(w, c, {"TimingOptimization"})

\* energylib_dsent::initialize does not exit
DsentConfigured(w, c) ==
    /\ PathGiven(w, c, {"clock_frequency"})
    /\ DsentTechnology(w, c) /\ DsentPhotonics(w, c)
    /\ DsentModelKnown(w, c)
    /\ DsentTiming(w, c)

-----------------------------------------------------------------------------
\* IntSim and DRAMsim: a list of parameters

\* energylib_intsim::initialize does not exit
IntsimConfigured(w, c) ==
    /\ SettingsGiven(w, c, {"area"})
    /\ PathGiven(w, c,
          {"clock_frequency", "voltage", "temperature", "feature_size", "num_gates",
           "threshold_voltage", "critical_path_depth", "activity_factor",
           "oxide_thickness", "pn_ratio", "subvtslope_spec", "wiring_aspect_ratio",
           "reflectivity_coefficient", "specularity", "num_power_pads",
           "power_pad_distance", "power_pad_length", "ir_drop_limit",
           "router_efficiency", "repeater_efficiency", "average_fanouts",
           "clock_margin", "HTree_max_span", "latches_per_buffer", "clock_factor",
           "clock_gating_factor"})
    /\ OwnKnown(w, c, "energy_model",
                {"default", "logic_gate", "repeater", "interconnect", "clock"})

\* energylib_dramsim::initialize does not exit
DramsimConfigured(w, c) ==
    /\ PathGiven(w, c,
          {"IDD0", "IDD1", "IDD2P", "IDD2Q", "IDD2N", "IDD3Pf", "IDD3Ps", "IDD3N",
           "IDD4W", "IDD4R", "IDD5", "IDD6", "IDD6L", "IDD7", "BL", "DEVICE_WIDTH",
           "DATA_BUS_BITS", "tRC", "tRAS", "tRFC", "voltage", "clock_frequency"})
    /\ PathIn(w, c, "page_policy", {"close_page", "open_page"})

-----------------------------------------------------------------------------
\* HotSpot

GridMapModes == {"center", "average", "max", "min"}
Analyses     == {"transient", "steady"}

PowerOfTwo(n) == n \in {1, 2, 4, 8, 16, 32, 64, 128}

\* the parameters that every thermal model has
HotspotThermal(w, c) ==
    /\ OwnIn(w, c, "thermal_analysis", Analyses)
    /\ SettingsGiven(w, c, {"grid_rows", "grid_cols"})
    /\ PathGiven(w, c, {"ambient_temperature", "temperature"})

\* the sizes of chip, heat spreader, heat sink and secondary heat path; those
\* that are not given have values that pass
HotspotSizes(w, c) ==
    /\ \A v \in {"chip_thickness", "heatsink_side", "heatsink_thickness",
                 "spreader_side", "spreader_thickness", "interface_thickness",
                 "metal_layer_thickness", "metal_layers", "c4_thickness", "c4_side",
                 "c4_pads", "substrate_side", "substrate_thickness", "solder_side",
                 "solder_thickness", "pcb_side",
                 "secondary_convection_resistance", "secondary_convection_capacitance"} :
          OwnOr(w, c, v, 1) > 0
    /\ \A v \in {"thermal_threshold", "heatsink_convection_capacitance",
                 "heatsink_convection_resistance"} : OwnOr(w, c, v, 0) >= 0

\* The checks that are copied from HotSpot's own.  The secondary heat path is
\* refused whatever the model type: it is compared before it is read, while it
\* is still the default, the block model.
HotspotChecked(w, c) ==
    /\ HotspotSizes(w, c)
    /\ ~OwnOr(w, c, "leakage_used", FALSE) /\ ~OwnOr(w, c, "secondary_model", FALSE)
    /\ PowerOfTwo(Own(w, c).grid_rows) /\ PowerOfTwo(Own(w, c).grid_cols)

\* the package model, which calculates the convection of the heat sink
HotspotPackage(w, c) ==
    OwnOr(w, c, "package_model_used", FALSE) =>
        /\ OwnKnown(w, c, "flow_type", {"side", "top"})
        /\ OwnKnown(w, c, "sink_type", {"fin_channel", "pinfin"})

HotspotModelType(w, c) ==
    /\ OwnIn(w, c, "model_type", {"block", "grid"})
    /\ Own(w, c).model_type = "grid" => OwnIn(w, c, "grid_map_mode", GridMapModes)

\* thermallib_hotspot::initialize gets to the floorplans
HotspotConfigured(w, c) ==
    /\ HotspotThermal(w, c) /\ HotspotChecked(w, c)
    /\ HotspotPackage(w, c) /\ HotspotModelType(w, c)

\* The layers of a grid model, which are listed from the top: [source, uses].
\* A source layer, whose index is counted from the bottom, has floorplans;
\* any other is laid out as the source layer that it uses.
HotspotLayers(w, c, floorplans) ==
    LET layers == OwnOr(w, c, "layer", <<>>)
        n == Len(layers)
        DieIndex(f) == Pull(w, f, 0, Unspecified, "DIMENSION").data.die_index
    IN  Own(w, c).model_type = "grid" /\ n > 0 =>
          /\ n >= 2   \* DEFAULT_CHIP_LAYERS
          /\ \A i \in 1 .. n :
                IF layers[i].source
                  THEN \E j \in DOMAIN floorplans : DieIndex(floorplans[j]) = n - i
                  ELSE layers[layers[i].uses].source

-----------------------------------------------------------------------------
\* 3D-ICE

\* the sizes of chip and grid
ThreeDiceGrid(w, c) ==
    /\ OwnKnown(w, c, "grid_map_mode", GridMapModes)
    /\ PathGiven(w, c, {"ambient_temperature"})
    /\ SettingsGiven(w, c, {"chip_width", "chip_height", "grid_rows", "grid_columns"})

\* the materials
ThreeDiceMaterials(w, c) == SettingsGiven(w, c, {"material"}) /\ Own(w, c).material # {}

\* a microchannel with walls
ThreeDiceWalls(w, c) ==
    LET m == Own(w, c).microchannel
    IN  /\ {"height", "channel_length", "wall_length", "coolant_flow_rate"} \subseteq DOMAIN m
        /\ m.wall_material \in Own(w, c).material

\* with four resistors it also has columns of its own, whose number is odd
ThreeDiceColumns(w, c) ==
    LET m == Own(w, c).microchannel
    IN  m.type = "4rm" => "coolant_heat_transfer_coefficient" \in DOMAIN m

\* with pins
ThreeDicePins(w, c) ==
    LET m == Own(w, c).microchannel
    IN  /\ {"height", "pin_pitch", "pin_diameter", "darcy_velocity"} \subseteq DOMAIN m
        /\ m.channel_model \in {"inline", "staggered"}
        /\ m.pin_material \in Own(w, c).material

ThreeDiceChannel(w, c) ==
    /\ SettingsGiven(w, c, {"microchannel"})
    /\ CASE Own(w, c).microchannel.type \in {"2rm", "4rm"} ->
                ThreeDiceWalls(w, c) /\ ThreeDiceColumns(w, c)
         [] Own(w, c).microchannel.type = "pinfin" -> ThreeDicePins(w, c)
         [] OTHER -> FALSE

\* the dies: layers of a known material, of which at most one is a source
ThreeDiceDies(w, c) ==
    /\ SettingsGiven(w, c, {"die"})
    /\ \A d \in DOMAIN Own(w, c).die :
          LET layers == Own(w, c).die[d] IN
          /\ \A i \in DOMAIN layers : layers[i].material \in Own(w, c).material
          /\ Cardinality({i \in DOMAIN layers : layers[i].source}) <= 1

\* the floorplans of a die of the stack: their dimensions name the element
OnDie(w, floorplans, element) ==
    SelectSeq(floorplans, LAMBDA f :
        Pull(w, f, 0, Unspecified, "DIMENSION").data.die_name = element.name)

\* an element of the stack
ThreeDiceElement(w, c, floorplans, element) ==
    CASE element.type = "layer"   -> element.material \in Own(w, c).material
      [] element.type = "channel" -> TRUE
      [] element.type = "die"     -> /\ element.die \in DOMAIN Own(w, c).die
                                     /\ OnDie(w, floorplans, element) # <<>>
      [] OTHER -> FALSE

\* The stack, from the top: no channel is first, last or next to another, no
\* name is taken twice, and there is a die.
ThreeDiceStack(w, c, floorplans) ==
    /\ SettingsGiven(w, c, {"stack"})
    /\ LET stack == Own(w, c).stack
           Channel(i) == stack[i].type = "channel"
       IN  /\ \A i \in DOMAIN stack : ThreeDiceElement(w, c, floorplans, stack[i])
           /\ \E i \in DOMAIN stack : stack[i].type = "die"
           /\ ~Channel(1) /\ ~Channel(Len(stack))
           /\ \A i, j \in DOMAIN stack :
                 /\ i # j => stack[i].name # stack[j].name
                 /\ Channel(i) /\ Channel(j) => j # i + 1

\* every material and every die that is defined is used
ThreeDiceUsed(w, c) ==
    LET m     == Own(w, c).microchannel
        stack == Own(w, c).stack
        dies  == Own(w, c).die
    IN  /\ \A x \in Own(w, c).material :
              \/ "wall_material" \in DOMAIN m /\ m.wall_material = x
              \/ "pin_material" \in DOMAIN m /\ m.pin_material = x
              \/ \E d \in DOMAIN dies : \E i \in DOMAIN dies[d] : dies[d][i].material = x
              \/ \E i \in DOMAIN stack : stack[i].type = "layer" /\ stack[i].material = x
        /\ \A d \in DOMAIN dies :
              \E i \in DOMAIN stack : stack[i].type = "die" /\ stack[i].die = d

\* thermallib_3dice::initialize does not exit
ThreeDiceConfigured(w, c, floorplans) ==
    /\ ThreeDiceGrid(w, c) /\ ThreeDiceMaterials(w, c)
    /\ ThreeDiceChannel(w, c) /\ ThreeDiceDies(w, c)
    /\ ThreeDiceStack(w, c, floorplans) /\ ThreeDiceUsed(w, c)
    /\ OwnIn(w, c, "thermal_analysis_type", Analyses)

-----------------------------------------------------------------------------
\* microfluidics and the reliability library

\* thermallib_microfluidics::initialize gets to the floorplans
MicrofluidicsConfigured(w, c) ==
    /\ PathGiven(w, c,
          {"HC", "Dp", "NT", "NL", "ThSi", "ThO", "ThB", "PPower", "heff", "hamb",
           "Tfin", "temperature", "ambient_temperature", "rho_Si", "cp_Si", "k_Si",
           "rho_O", "k_O", "cp_B", "k_B", "rho_f", "cp_f", "k_f", "mu_f"})
    /\ PathIn(w, c, "grid_map_mode", GridMapModes)
    /\ OwnIn(w, c, "thermal_analysis", Analyses)

FailureModels == {"hci", "em", "nbti", "pbti", "sm", "tc", "tddb"}

\* reliabilitylib_failure::initialize does not exit.  Without a failure model
\* the failure rate is zero, and the assertion on its inverse fails.
FailureConfigured(w, c) ==
    /\ SettingsGiven(w, c, {"failure_model", "target_temperature", "target_voltage",
                            "target_frequency", "target_MTTF"})
    /\ Own(w, c).failure_model \in SUBSET FailureModels \ {{}}
    /\ PathGiven(w, c, {"ambient_temperature"})

=============================================================================
