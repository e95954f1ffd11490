---------------------------- MODULE MCServerRpc -----------------------------
(***************************************************************************)
(* An instance of ServerRpc for TLC: three component trees over three      *)
(* servers in a line, s1 calling s2 and s2 calling s3.  The watts of the   *)
(* leaves are powers of two, so that a sum says which leaves it is of.     *)
(***************************************************************************)
EXTENDS ServerRpc

CONSTANTS s1, s2, s3, k1, k2, k3
CONSTANTS chip, llc, core, alu, uncore, mc, phy, die, cluster, fpu, sram

LOCAL INSTANCE TLC

Pull(c)  == Request("SYNCHRONIZE_AND_PULL_DATA_REQ", c)
Sync(c)  == Request("SYNCHRONIZE_DATA_REQ", c)
Power(c, wait) == [type |-> "CALCULATE_POWER_REQ", comp |-> c, wait |-> wait]

\* chip -> (llc, core -> alu) in s1 and s2, uncore -> (mc, phy) in s2 and s3,
\* and die -> cluster -> (fpu, sram) over all three
MCChildren ==
       chip :> <<llc, core>> @@ core :> <<alu>> @@ llc :> <<>> @@ alu :> <<>>
    @@ uncore :> <<mc, phy>> @@ mc :> <<>> @@ phy :> <<>>
    @@ die :> <<cluster>> @@ cluster :> <<fpu, sram>> @@ fpu :> <<>> @@ sram :> <<>>

MCOwner ==
       chip :> s1 @@ llc :> s1 @@ core :> s2 @@ alu :> s2
    @@ uncore :> s2 @@ mc :> s2 @@ phy :> s3
    @@ die :> s1 @@ cluster :> s2 @@ fpu :> s2 @@ sram :> s3

MCWatts ==
       chip :> 0 @@ core :> 0 @@ uncore :> 0 @@ die :> 0 @@ cluster :> 0
    @@ llc :> 1 @@ alu :> 2 @@ mc :> 4 @@ phy :> 8 @@ fpu :> 2 @@ sram :> 8

MCPeer == s1 :> s2 @@ s2 :> s3 @@ s3 :> s1
MCHome == k1 :> s1 @@ k2 :> s2 @@ k3 :> s3

\* Two simulators on separate trees: while s2 waits for s3 on behalf of the
\* second, the calls of the first arrive, and s2 can answer them by itself
Separate ==
    {k1 :> first
     @@ k2 :> <<Power(mc, FALSE), Power(phy, TRUE), Pull(uncore), Sync(uncore)>>
     @@ k3 :> <<>> :
        first \in {<<Power(llc, FALSE), Power(alu, FALSE), Pull(chip), Pull(core)>>,
                   <<Power(alu, TRUE), Sync(core), Power(llc, TRUE), Pull(chip)>>}}

\* A simulator at each end of the line; the power of sram may be calculated too
\* late, or not at all
Ends ==
    {k1 :> first @@ k2 :> <<>> @@ k3 :> <<Power(sram, TRUE), Pull(sram)>> :
        first \in {<<Power(fpu, TRUE), Pull(die), Pull(cluster)>>, <<Pull(die)>>}}

MCPrograms == Separate \cup Ends

\* A simulator at s1 and one at s2, both of which need the power of cluster
StuckPrograms ==
    {k1 :> <<Pull(die)>>
     @@ k2 :> <<Power(fpu, TRUE), Power(sram, TRUE), Pull(cluster)>>
     @@ k3 :> <<>>}

\* The second simulator calculates a remote power without waiting
StrayPrograms ==
    {k1 :> <<Power(fpu, TRUE)>> @@ k2 :> <<Power(sram, FALSE)>> @@ k3 :> <<>>}

=============================================================================
