---------------------------- MODULE MCMasqueConn ----------------------------
(***************************************************************************)
(* Instances of MasqueConn for TLC.                                        *)
(***************************************************************************)
EXTENDS MasqueConn, TLC

StreamSymmetry == Permutations(Streams)

\* Liveness is checked without symmetry, on one tunnel of each datagram protocol.
IpStream == CHOOSE s \in Streams : TRUE
MixedInit == Init /\ kind = [s \in Streams |-> IF s = IpStream THEN "ip" ELSE "udp"]
MixedSpec == MixedInit /\ [][Next]_vars /\ Fairness
=============================================================================
