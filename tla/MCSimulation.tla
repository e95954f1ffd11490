---------------------------- MODULE MCSimulation -----------------------------
(***************************************************************************)
(* Configurations of a package for TLC, one for each thermal library.      *)
(***************************************************************************)
EXTENDS Simulation

Parent(subset) ==
    [c \in DOMAIN subset |->
        IF \E d \in DOMAIN subset : \E i \in DOMAIN subset[d] : subset[d][i] = c
          THEN CHOOSE d \in DOMAIN subset : \E i \in DOMAIN subset[d] : subset[d][i] = c
          ELSE None]

Tree(order, byname, subset, setting, library) ==
    [order |-> order, byname |-> byname, subset |-> subset, superset |-> Parent(subset),
     setting |-> setting @@ [c \in DOMAIN subset |-> <<>>], library |-> library]

Block(die) == [width |-> 2, height |-> 3, area |-> 0, die_name |-> die, die_index |-> 0]

\* what the components below a package read on their path
Shared == [temperature |-> 330, voltage |-> 1, clock_frequency |-> 1, feature_size |-> 16,
           ambient_temperature |-> 318, page_policy |-> "open_page", tech_model |-> "bulk",
           component_type |-> "uncore", grid_map_mode |-> "max"]

\* settings that only have to be there
Some(names) == [n \in names |-> 1]

DramSettings ==
    Some({"IDD0", "IDD1", "IDD2P", "IDD2Q", "IDD2N", "IDD3Pf", "IDD3Ps", "IDD3N", "IDD4W",
          "IDD4R", "IDD5", "IDD6", "IDD6L", "IDD7", "BL", "DEVICE_WIDTH",
          "DATA_BUS_BITS", "tRC", "tRAS", "tRFC"})

NetworkSettings == Some({"Gate", "Drain", "Nmos", "Pmos", "Wire", "StdCell"})

RouterSettings ==
    Some({"NumberInputPorts", "NumberOutputPorts", "NumberBitsPerFlit",
          "NumberVirtualNetworks", "NumberVirtualChannelsPerVirtualNetwork",
          "NumberBuffersPerVirtualChannel", "InputPort", "CrossbarModel",
          "SwitchAllocator", "ClockTreeModel", "ClockTree"})

LinkSettings ==
    Some({"NumberBits", "WireLayer", "WireWidthMultiplier", "WireSpacingMultiplier",
          "WireLength", "Delay"})

WireSettings ==
    Some({"num_gates", "threshold_voltage", "critical_path_depth", "activity_factor",
          "oxide_thickness", "pn_ratio", "subvtslope_spec", "wiring_aspect_ratio",
          "reflectivity_coefficient", "specularity", "num_power_pads",
          "power_pad_distance", "power_pad_length", "ir_drop_limit",
          "router_efficiency", "repeater_efficiency", "average_fanouts",
          "clock_margin", "HTree_max_span", "latches_per_buffer", "clock_factor",
          "clock_gating_factor"})

FluidSettings ==
    Some({"HC", "Dp", "NT", "NL", "ThSi", "ThO", "ThB", "PPower", "heff", "hamb", "Tfin",
          "rho_Si", "cp_Si", "k_Si", "rho_O", "k_O", "cp_B", "k_B", "rho_f", "cp_f",
          "k_f", "mu_f"})

Failure == [model |-> "failure", failure_model |-> {"tddb", "em"}, target_temperature |-> 350,
            target_voltage |-> 1, target_frequency |-> 1, target_MTTF |-> 9]

\* HotSpot over a core of two levels and a memory.  The interconnect takes its
\* length from the components it connects.
Planar ==
    Tree(<<"pkg", "core", "exec", "reg", "dec", "bus", "mem">>,
         <<"dec", "bus", "core", "exec", "mem", "pkg", "reg">>,
         [pkg |-> <<"core", "mem">>, core |-> <<"exec", "bus">>, exec |-> <<"reg", "dec">>,
          reg |-> <<>>, dec |-> <<>>, bus |-> <<>>, mem |-> <<>>],
         [none |-> <<>>],
         [pkg |-> [model |-> "hotspot", thermal_analysis |-> "transient", grid_rows |-> 8,
                   grid_cols |-> 8, model_type |-> "grid",
                   layer |-> <<[source |-> FALSE, uses |-> 2], [source |-> TRUE]>>,
                   floorplan |-> <<"mem", "core">>] @@ Shared,
          core |-> [dimension |-> Block("none"), component_type |-> "core",
                    core_type |-> "inorder"] @@ Failure,
          reg |-> [model |-> "mcpat", energy_model |-> "array", energy_submodel |-> "cache",
                   line_size |-> 1, size |-> 8, tag_width |-> 1, TDP_read_tag_cycle |-> 1],
          dec |-> [model |-> "mcpat", energy_model |-> "inst_decoder", x86 |-> TRUE,
                   decode_length |-> 8, scaling |-> 2],
          bus |-> [model |-> "mcpat", energy_model |-> "interconnect",
                   connect |-> <<"reg", "dec">>, data_width |-> 8],
          mem |-> [model |-> "dramsim", voltage |-> 2] @@ DramSettings])

\* 3D-ICE over a die of communication and a die of wires, with a thermal grid
Stacked ==
    Tree(<<"pkg", "noc", "router", "via", "wires">>,
         <<"noc", "pkg", "router", "via", "wires">>,
         [pkg |-> <<"noc", "wires">>, noc |-> <<"router", "via">>,
          router |-> <<>>, via |-> <<>>, wires |-> <<>>],
         [none |-> <<>>],
         [pkg |-> [model |-> "3dice", thermal_analysis_type |-> "transient", grid_rows |-> 8,
                   grid_columns |-> 8, chip_width |-> 1, chip_height |-> 1,
                   material |-> {"silicon", "beol"},
                   microchannel |-> [type |-> "2rm", wall_material |-> "silicon"]
                                        @@ Some({"height", "channel_length", "wall_length",
                                                 "coolant_flow_rate"}),
                   die |-> [logic |-> <<[material |-> "beol", source |-> FALSE],
                                        [material |-> "silicon", source |-> TRUE]>>],
                   stack |-> <<[name |-> "top", type |-> "die", die |-> "logic"],
                               [name |-> "cool", type |-> "channel"],
                               [name |-> "bottom", type |-> "die", die |-> "logic"]>>,
                   generate_thermal_grid |-> TRUE,
                   floorplan |-> <<"noc", "wires">>] @@ NetworkSettings @@ Shared,
          noc |-> [dimension |-> Block("top")] @@ Failure,
          router |-> [model |-> "dsent", energy_model |-> "router"] @@ RouterSettings,
          via |-> [model |-> "tsv", data_width |-> 1],
          wires |-> [model |-> "intsim", area |-> 5, dimension |-> Block("bottom")]
                       @@ WireSettings])

\* microfluidic cooling of a core with a memory controller; the core's queues
\* are larger than the others
Cooled ==
    Tree(<<"pkg", "core", "mc", "link">>,
         <<"core", "link", "mc", "pkg">>,
         [pkg |-> <<"core", "link">>, core |-> <<"mc">>, mc |-> <<>>, link |-> <<>>],
         [core |-> [queue |-> <<[type |-> "POWER", size |-> 2],
                                [type |-> "TEMPERATURE", size |-> 2]>>]],
         [pkg |-> [model |-> "microfluidics", thermal_analysis |-> "steady",
                   floorplan |-> <<"core", "link">>] @@ FluidSettings @@ NetworkSettings @@ Shared,
          core |-> Failure,
          mc |-> [model |-> "mcpat", energy_model |-> "memory_controller", line_size |-> 8,
                  databus_width |-> 8, addressbus_width |-> 8, num_channels |-> 1,
                  transfer_rate |-> 1, num_ranks |-> 1, request_window_size |-> 1,
                  IO_buffer_size |-> 1],
          link |-> [model |-> "dsent", energy_model |-> "repeatedlink", voltage |-> 2]
                      @@ LinkSettings])

MCConfigs == {Planar, Stacked, Cooled}

\* one source of each configuration counts more or less
MCCounters(c) == IF c \in {"dec", "router", "mc"} THEN {1, 3} ELSE {1}

MCFields(n) == {[i \in 1 .. n |-> 340], [i \in 1 .. n |-> 290 + 130 * (i - 1)]}

\* voltage and clock of the package or of what has a failure model
MCControls(config) ==
    LET core == IF "noc" \in DOMAIN config.subset THEN "noc" ELSE "core" IN
    {[type |-> "VOLTAGE", comp |-> core, value |-> 2],
     [type |-> "CLOCK_FREQUENCY", comp |-> core, value |-> 2],
     [type |-> "VOLTAGE", comp |-> "pkg", value |-> 1],
     [type |-> "CLOCK_FREQUENCY", comp |-> "pkg", value |-> 1],
     [type |-> "AMBIENT_TEMPERATURE", comp |-> core, value |-> 400]}

=============================================================================
