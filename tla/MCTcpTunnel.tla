---------------------------- MODULE MCTcpTunnel ----------------------------
(***************************************************************************)
(* Instances of TcpTunnel for TLC: the constants are given in the .cfg     *)
(* files.                                                                  *)
(***************************************************************************)
EXTENDS TcpTunnel
=============================================================================
