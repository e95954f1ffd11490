--------------------------- MODULE MCSampledQueue ---------------------------
(***************************************************************************)
(* Instances of SampledQueue for TLC.                                      *)
(***************************************************************************)
EXTENDS SampledQueue

=============================================================================
