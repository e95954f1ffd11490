--------------------------- MODULE ComponentTree ----------------------------
(***************************************************************************)
(* The hierarchy of pseudo components that the configurations of all       *)
(* KitFox processes describe together, and the power of one sampling point *)
(* in it.                                                                  *)
(***************************************************************************)
EXTENDS Naturals, Sequences

LOCAL INSTANCE Functions

CONSTANTS
    Components,  \* the pseudo components
    Children,    \* pseudo_component_t::subset of each of them
    Watts        \* the power the energy library of a leaf calculates

ASSUME TreeAssumption ==
    /\ Children \in [Components -> Seq(Components)]
    /\ Watts \in [Components -> Nat]

Leaf(c) == Children[c] = <<>>

SumOf(f) == FoldFunction(+, 0, f)

\* The power of a component: what its leaves dissipate together
Total[c \in Components] ==
    IF Leaf(c)
      THEN Watts[c]
      ELSE SumOf([i \in DOMAIN Children[c] |-> Total[Children[c][i]]])

=============================================================================
