-------------------------- MODULE MCServerLifecycle -------------------------
(***************************************************************************)
(* Instances of ServerLifecycle for TLC: three servers with ID ranges as   *)
(* kitfox_t::read_config makes them, of ten IDs each, and a component in   *)
(* every server of which each has the next as a sub-component.             *)
(***************************************************************************)
EXTENDS ServerLifecycle

CONSTANTS s1, s2, s3, k1, k2, k3, k4

LOCAL INSTANCE TLC

MCConnected == s1 :> <<s2, s3>> @@ s2 :> <<s3, s1>> @@ s3 :> <<s1, s2>>
MCIDRange == s1 :> [first |-> 1,  last |-> 9]
        @@ s2 :> [first |-> 11, last |-> 19]
        @@ s3 :> [first |-> 21, last |-> 29]
MCRemote == 1 :> <<11>> @@ 11 :> <<21>> @@ 21 :> <<>>
MCHome   == k1 :> s1 @@ k2 :> s1 @@ k3 :> s2 @@ k4 :> s3

Name(c) == [type |-> "GET_COMP_ID", comp |-> c]
Pull(c) == [type |-> "PULL_DATA", comp |-> c]
Sync(c) == [type |-> "SYNCHRONIZE_DATA", comp |-> c]

\* One simulator of the whole tree, while another comes or goes at its server,
\* at the next, or at the last; at most one server has none
MCPrograms ==
    {k1 :> <<Name(11), Sync(1)>> @@ k3 :> <<Pull(11)>> @@ k4 :> <<>>,
     k1 :> <<Pull(11), Sync(21)>> @@ k2 :> <<Pull(11)>> @@ k3 :> <<>>,
     k1 :> <<Sync(1)>> @@ k3 :> <<>>}

\* A simulator of s1 that asks for a component of s3
RoutePrograms == {k1 :> <<Pull(21)>> @@ k3 :> <<>>}

=============================================================================
