---------------------------- MODULE ForwardLease ----------------------------
(***************************************************************************)
(* What the forwarding refcount of src/src/tun.rs promises, without its    *)
(* counter: the kernel's forwarding flag is on while a tunnel holds it and *)
(* the last holder to leave turns it off again.  The flag is the host's:   *)
(* the operator may set it while nobody holds it, and a tunnel that finds  *)
(* it on does not become a holder.  Only the death of the process, or a    *)
(* failed write by the last holder, lets the holders go with the flag on.  *)
(***************************************************************************)
CONSTANT Sessions

VARIABLES
  flag,      \* the kernel flag, 0 or 1
  holders    \* the sessions the flag is held for

Init == flag \in {0, 1} /\ holders = {}

\* The first holder turns the flag on, the others find it on.
Acquire(s) ==
  /\ s \notin holders
  /\ holders # {} \/ flag = 0
  /\ holders' = holders \cup {s}
  /\ flag' = 1

\* The last holder turns the flag off; any other leaves it alone.
Release(s) ==
  /\ s \in holders
  /\ holders' = holders \ {s}
  /\ flag' = IF holders' = {} THEN 0 ELSE flag

\* The holders vanish, or the last one leaves and its write is refused.
Abandon ==
  /\ holders # {}
  /\ holders' = {}
  /\ UNCHANGED flag

\* Somebody else sets the flag.
Outside ==
  /\ holders = {}
  /\ flag' \in {0, 1}
  /\ UNCHANGED holders

Next ==
  \/ \E s \in Sessions : Acquire(s) \/ Release(s)
  \/ Abandon
  \/ Outside

Spec == Init /\ [][Next]_<<flag, holders>>
=============================================================================
