---------------------------- MODULE MCDataQueue -----------------------------
(***************************************************************************)
(* Instances of DataQueue for TLC.  With Grid = 2 the precision is 4 raw   *)
(* units and odd times lie between two grid points, so that truncation is  *)
(* seen.                                                                   *)
(***************************************************************************)
EXTENDS DataQueue

\* Two periods that callers use, one that does not divide the other, and the
\* two special ones
Discrete == [type |-> "DISCRETE", times |-> {0, 8, 11, 16, 19},
             periods |-> {Unspecified, MaxTime, 8, 11}]

\* Also periods the precision does not resolve, at neighbouring times
Short == [type |-> "DISCRETE", times |-> 8 .. 13, periods |-> {Unspecified, 1, 4, 8}]

\* An open queue ignores periods
Open == [type |-> "OPEN", times |-> {0, 4, 7, 8, 12, 13, 16}, periods |-> {Unspecified, 8}]

MCKinds == {Discrete, Short, Open}

=============================================================================
