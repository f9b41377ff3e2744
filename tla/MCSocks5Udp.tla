---------------------------- MODULE MCSocks5Udp ----------------------------
(***************************************************************************)
(* Instances of Socks5Udp for TLC: a client that migrates, a name whose    *)
(* answer changes between two public addresses and a blocked one, and a    *)
(* literal of a public address.                                            *)
(***************************************************************************)
EXTENDS Socks5Udp, TLC

CONSTANTS c1, c2, public, other, local

Answers == ("name" :> {public, other, local}) @@ ("literal" :> {public})
=============================================================================
