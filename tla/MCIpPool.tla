------------------------------ MODULE MCIpPool ------------------------------
(***************************************************************************)
(* Instances of IpPool for TLC: every CIDR of a 64-address IPv4 space, and *)
(* IPv6 prefixes on both sides of /64.                                     *)
(***************************************************************************)
EXTENDS IpPool

Space == 64
Sizes == {1, 2, 4, 8, 16, 32, 64}

Cidrs == {p \in [network : 0 .. Space - 1, size : Sizes] :
            p.network % p.size = 0 /\ p.network + p.size <= Space}

Prefixes == {[network |-> n, prefix |-> x] : n \in {0, 8}, x \in {60, 62, 63, 64, 65, 128}}
=============================================================================
