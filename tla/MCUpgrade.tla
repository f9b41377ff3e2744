----------------------------- MODULE MCUpgrade -----------------------------
(***************************************************************************)
(* Instances of Upgrade for TLC: 1, 1.0, 1.1-beta1, 1.1-rc1 and 1.1.       *)
(***************************************************************************)
EXTENDS Upgrade

V1 == [main |-> <<1>>, pre |-> 0]
V10 == [main |-> <<1, 0>>, pre |-> 0]
V11beta == [main |-> <<1, 1>>, pre |-> 1]
V11rc == [main |-> <<1, 1>>, pre |-> 2]
V11 == [main |-> <<1, 1>>, pre |-> 0]

Releases == {V1, V10, V11beta, V11rc, V11}
=============================================================================
