---------------------------- MODULE MCTunGateway ----------------------------
(***************************************************************************)
(* Instances of TunGateway for TLC.                                        *)
(***************************************************************************)
EXTENDS TunGateway, TLC

SessionSymmetry == Permutations(Sessions)
=============================================================================
