-------------------------- MODULE MCServerStartup ---------------------------
(***************************************************************************)
(* Deployments of ServerStartup over three processes.  A component is      *)
(* listed below the placeholders of its supersets, as its path in the      *)
(* configuration is.                                                       *)
(***************************************************************************)
EXTENDS ServerStartup

CONSTANTS chip, core, alu, phy

LOCAL INSTANCE TLC

\* The lists of one process: nothing below a component without subsets
Lists(subsets) == [n \in Names \cup {Top} |->
                      IF n \in DOMAIN subsets THEN subsets[n] ELSE <<>>]

Chip     == (Top :> <<chip>>)
ChipCore == Chip @@ (chip :> <<core>>)

\* Ranges far enough apart for every comparison of the code
Spaced == (0 :> <<1, 3>>) @@ (1 :> <<11, 13>>) @@ (2 :> <<31, 35>>)

\* Thermal libraries: none, or of the components in plans
NoPlan      == [n \in Names |-> <<>>]
Plan(plans) == plans @@ NoPlan

\* chip in process 0, core and alu in 1, phy in 2: 0 asks 1, and 1 asks 2.  The
\* chip's temperature is that of core, an alu below it and chip itself.
Line ==
    [subset |-> (0 :> Lists(ChipCore))
             @@ (1 :> Lists(ChipCore @@ (core :> <<alu, phy>>)))
             @@ (2 :> Lists(ChipCore @@ (core :> <<phy>>))),
     remote |-> (0 :> {core}) @@ (1 :> {chip, phy}) @@ (2 :> {chip, core}),
     floorplan |-> [s \in Servers |-> IF s = 0 THEN Plan(chip :> <<alu, chip>>) ELSE NoPlan],
     published |-> Spaced, configured |-> Spaced]

\* core and alu of process 0 are subsets of chip in 1 and of phy in 2
Star ==
    [subset |-> (0 :> Lists((Top :> <<chip, phy>>) @@ (chip :> <<core>>) @@ (phy :> <<alu>>)))
             @@ (1 :> Lists(ChipCore))
             @@ (2 :> Lists((Top :> <<phy>>) @@ (phy :> <<alu>>))),
     remote |-> (0 :> {chip, phy}) @@ (1 :> {core}) @@ (2 :> {alu}),
     floorplan |-> [s \in Servers |-> NoPlan],
     published |-> Spaced, configured |-> Spaced]

\* Mistakes: process 1 has one ID for two components, the ranges of 1 and 2
\* overlap, or connect is called before configure has read the ranges
Crowded     == [Line EXCEPT !.published[1] = <<11, 12>>, !.configured[1] = <<11, 12>>]
Overlapping == [Line EXCEPT !.published[2] = <<12, 16>>, !.configured[2] = <<12, 16>>]
Unread      == [Line EXCEPT !.published = [s \in Servers |-> <<0, 0>>]]

\* ... the IDs of process 1 are published by nobody, or by process 2, or a
\* floorplan is looked up in a process that may not have it yet
Elsewhere   == [Line EXCEPT !.published[1] = <<5, 5>>]
Swapped     == [Line EXCEPT !.published[1] = <<31, 35>>, !.published[2] = <<11, 13>>]
Early       == [Line EXCEPT !.floorplan[2] = Plan(phy :> <<chip>>)]

MCDeployments == {Line, Star, Crowded, Overlapping, Unread, Elsewhere, Swapped, Early}

LineAlone == {Line}

=============================================================================
