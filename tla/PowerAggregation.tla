-------------------------- MODULE PowerAggregation --------------------------
(***************************************************************************)
(* What synchronize_data promises of power data: a component's power is    *)
(* the sum of its sub-components' powers, taken when those are known, and  *)
(* a client is only told the power of a component that has one.  Nothing   *)
(* is said of processes, messages, or the order of the components.         *)
(***************************************************************************)
EXTENDS ComponentTree

CONSTANTS Clients, NoData

VARIABLES
    power,    \* the power of a component, or NoData
    answer    \* the power that a client was last given, or NoData

Init ==
    /\ power = [c \in Components |-> NoData]
    /\ answer = [k \in Clients |-> NoData]

\* The energy library of a leaf calculates its power
Calculate(c) ==
    /\ Leaf(c)
    /\ power' = [power EXCEPT ![c] = Watts[c]]
    /\ UNCHANGED answer

\* A component is filled in from its sub-components
Fill(c) ==
    /\ ~Leaf(c)
    /\ \A i \in DOMAIN Children[c] : power[Children[c][i]] # NoData
    /\ power' = [power EXCEPT ![c] =
                    SumOf([i \in DOMAIN Children[c] |-> power[Children[c][i]]])]
    /\ UNCHANGED answer

\* A client gets the power of a component
Answer(k, c) ==
    /\ power[c] # NoData
    /\ answer' = [answer EXCEPT ![k] = power[c]]
    /\ UNCHANGED power

Next ==
    \/ \E c \in Components : Calculate(c) \/ Fill(c)
    \/ \E k \in Clients, c \in Components : Answer(k, c)

Spec == Init /\ [][Next]_<<power, answer>>

=============================================================================
