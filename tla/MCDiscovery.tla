---------------------------- MODULE MCDiscovery -----------------------------
(***************************************************************************)
(* Discovery with two nested parents and three hosts in batches of two:    *)
(* the hosts of the second parent are among those of the first.            *)
(***************************************************************************)
EXTENDS Discovery

MCUnder == [p \in 1 .. Parents |-> IF p = 1 THEN Hosts ELSE Hosts \ {1}]

=============================================================================
