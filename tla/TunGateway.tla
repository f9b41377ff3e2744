----------------------------- MODULE TunGateway -----------------------------
(***************************************************************************)
(* The host state of the CONNECT-IP gateway: TunDevice::create and its     *)
(* Drop (src/src/tun.rs), the process-wide refcount of ip_forward, and the *)
(* address pool handle_ip_stream allocates from (src/src/masque.rs).       *)
(*                                                                         *)
(* Each session is one CONNECT-IP request.  The sessions run on several    *)
(* worker threads, every external command is one step, and any command may *)
(* fail.  ensure_ip_forward and release_ip_forward hold the IP_FORWARD     *)
(* mutex from end to end, so each is one step.                             *)
(***************************************************************************)
EXTENDS Integers, FiniteSets

CONSTANTS
  Sessions,        \* CONNECT-IP requests, of all connections
  Blocks,          \* blocks of the address pool
  CleanupMayFail,  \* commands run by Drop may fail
  MaxKills,        \* bound: times the process dies without running Drop
  MaxToggles       \* bound: times the operator flips ip_forward while it is idle

ASSUME SessionsAssumption == IsFiniteSet(Sessions)

ASSUME HostAssumption ==
  /\ Blocks \in Nat
  /\ CleanupMayFail \in BOOLEAN
  /\ MaxKills \in Nat
  /\ MaxToggles \in Nat

VARIABLES
  \* the kernel
  forward,    \* net.ipv4.ip_forward
  rules,      \* rules[a][k]: copies of firewall rule k for the client of block a
  links,      \* sessions whose tun interface exists
  \* the process
  count,      \* IP_FORWARD.0
  orig,       \* IP_FORWARD.1
  cursor,     \* IpPool.v4_blocks or v6_blocks
  \* each session
  stage,      \* how far handle_ip_stream, create or drop has come
  addr,       \* the block allocated to it
  nat,        \* TunDevice.nat_rules: the rules still owned by the device
  managed,    \* TunDevice.managed_ip_forward, until it is released
  \* history
  found,      \* the value the host itself gave to forward
  warned,     \* cleanup commands that failed and were logged: <<session, what>>
  kills,      \* times the process died
  toggles     \* times the operator changed the flag

kernel == <<forward, rules, links>>
static == <<count, orig>>
vars == <<forward, rules, links, count, orig, cursor, stage, addr, nat, managed,
          found, warned, kills, toggles>>

RuleKinds == 1 .. 3     \* POSTROUTING -s, FORWARD -s, FORWARD -d

ForwardFlag == 0        \* in warned: restoring ip_forward

Addrs == 0 .. Blocks - 1

Stages == {"idle", "allocated", "opened", "configured", "forwarding", "live",
           "dropping", "unlinked", "closed"}

\* A session between its request and the end of its cleanup.
Active(s) == stage[s] \notin {"idle", "closed"}

Holders == {s \in Sessions : managed[s]}

-----------------------------------------------------------------------------
Init ==
  /\ forward \in {0, 1}
  /\ found = forward
  /\ rules = [a \in Addrs |-> [k \in RuleKinds |-> 0]]
  /\ links = {}
  /\ count = 0
  /\ orig = 1
  /\ cursor = 0
  /\ stage = [s \in Sessions |-> "idle"]
  /\ addr = [s \in Sessions |-> 0]
  /\ nat = [s \in Sessions |-> {}]
  /\ managed = [s \in Sessions |-> FALSE]
  /\ warned = {}
  /\ kills = 0
  /\ toggles = 0

Goto(s, st) == stage' = [stage EXCEPT ![s] = st]

(***************************************************************************)
(* handle_ip_stream: the allocation.                                       *)
(***************************************************************************)
\* Faulty variant: the cursor is left where it is.
AllocateSame(s) ==
  /\ stage[s] = "idle"
  /\ cursor < Blocks
  /\ addr' = [addr EXCEPT ![s] = cursor]
  /\ Goto(s, "allocated")
  /\ UNCHANGED <<kernel, static, cursor, nat, managed, found, warned, kills, toggles>>

Allocate(s) ==
  /\ stage[s] = "idle"
  /\ cursor < Blocks
  /\ addr' = [addr EXCEPT ![s] = cursor]
  /\ cursor' = cursor + 1
  /\ Goto(s, "allocated")
  /\ UNCHANGED <<kernel, static, nat, managed, found, warned, kills, toggles>>

\* The pool is exhausted: 503, and the request is over.
Refuse(s) ==
  /\ stage[s] = "idle"
  /\ cursor >= Blocks
  /\ Goto(s, "closed")
  /\ UNCHANGED <<kernel, static, cursor, addr, nat, managed, found, warned, kills, toggles>>

(***************************************************************************)
(* TunDevice::create.  Before the TunDevice value exists a failure leaves  *)
(* nothing behind; after that every failed command drops the device.       *)
(***************************************************************************)
Open(s) ==
  /\ stage[s] = "allocated"
  /\ links' = links \cup {s}
  /\ Goto(s, "opened")
  /\ UNCHANGED <<forward, rules, static, cursor, addr, nat, managed, found, warned, kills, toggles>>

\* open, TUNSETIFF or AsyncFd::new fails: 500.
OpenFails(s) ==
  /\ stage[s] = "allocated"
  /\ Goto(s, "closed")
  /\ UNCHANGED <<kernel, static, cursor, addr, nat, managed, found, warned, kills, toggles>>

\* link up, mtu and addr add touch nothing but the session's own interface.
Configure(s) ==
  /\ stage[s] = "opened"
  /\ Goto(s, "configured")
  /\ UNCHANGED <<kernel, static, cursor, addr, nat, managed, found, warned, kills, toggles>>

ConfigureFails(s) ==
  /\ stage[s] = "opened"
  /\ Goto(s, "dropping")
  /\ UNCHANGED <<kernel, static, cursor, addr, nat, managed, found, warned, kills, toggles>>

(***************************************************************************)
(* ensure_ip_forward.                                                      *)
(***************************************************************************)
\* The value saved by this call: the first holder reads the flag.
Saved == IF count = 0 THEN forward ELSE orig

\* Faulty variant: only the call that turned the flag on is a holder.
EnsureFirstOnly(s) ==
  /\ stage[s] = "configured"
  /\ orig' = Saved
  /\ forward' = IF count = 0 THEN 1 ELSE forward
  /\ count' = count + 1
  /\ managed' = [managed EXCEPT ![s] = count = 0 /\ Saved = 0]
  /\ Goto(s, "forwarding")
  /\ UNCHANGED <<rules, links, cursor, addr, nat, found, warned, kills, toggles>>

\* Faulty variant: the value found is not saved.
EnsureUnsaved(s) ==
  /\ stage[s] = "configured"
  /\ orig' = orig
  /\ forward' = IF count = 0 THEN 1 ELSE forward
  /\ count' = count + 1
  /\ managed' = [managed EXCEPT ![s] = orig = 0]
  /\ Goto(s, "forwarding")
  /\ UNCHANGED <<rules, links, cursor, addr, nat, found, warned, kills, toggles>>

Ensure(s) ==
  /\ stage[s] = "configured"
  /\ orig' = Saved
  /\ forward' = IF count = 0 THEN 1 ELSE forward
  /\ count' = count + 1
  /\ managed' = [managed EXCEPT ![s] = Saved = 0]
  /\ Goto(s, "forwarding")
  /\ UNCHANGED <<rules, links, cursor, addr, nat, found, warned, kills, toggles>>

\* Reading the flag fails, or writing it: then the value read is saved but no
\* reference is taken.
EnsureFails(s) ==
  /\ stage[s] = "configured"
  /\ count = 0
  /\ orig' \in {orig} \cup ({forward} \cap {0})
  /\ Goto(s, "dropping")
  /\ UNCHANGED <<kernel, count, cursor, addr, nat, managed, found, warned, kills, toggles>>

(***************************************************************************)
(* add_nat_rule, three times; create then returns and 200 is sent.         *)
(***************************************************************************)
NextRule(s) == Cardinality(nat[s]) + 1

\* Faulty variant: the last rule is not recorded.
AddRuleForgets(s) ==
  /\ stage[s] = "forwarding"
  /\ rules' = [rules EXCEPT ![addr[s]][NextRule(s)] = @ + 1]
  /\ nat' = [nat EXCEPT ![s] = IF NextRule(s) = 3 THEN @ ELSE @ \cup {NextRule(s)}]
  /\ Goto(s, IF NextRule(s) = 3 THEN "live" ELSE "forwarding")
  /\ UNCHANGED <<forward, links, static, cursor, addr, managed, found, warned, kills, toggles>>

AddRule(s) ==
  /\ stage[s] = "forwarding"
  /\ rules' = [rules EXCEPT ![addr[s]][NextRule(s)] = @ + 1]
  /\ nat' = [nat EXCEPT ![s] = @ \cup {NextRule(s)}]
  /\ Goto(s, IF NextRule(s) = 3 THEN "live" ELSE "forwarding")
  /\ UNCHANGED <<forward, links, static, cursor, addr, managed, found, warned, kills, toggles>>

AddRuleFails(s) ==
  /\ stage[s] = "forwarding"
  /\ Goto(s, "dropping")
  /\ UNCHANGED <<kernel, static, cursor, addr, nat, managed, found, warned, kills, toggles>>

\* The data plane ends, or a send on the request stream fails: the device is
\* dropped.  Why it ends is the subject of module IpTunnel.
Finish(s) ==
  /\ stage[s] = "live"
  /\ Goto(s, "dropping")
  /\ UNCHANGED <<kernel, static, cursor, addr, nat, managed, found, warned, kills, toggles>>

(***************************************************************************)
(* Drop for TunDevice: the rules in order, the interface, the refcount.    *)
(***************************************************************************)
FirstRule(s) == CHOOSE k \in nat[s] : \A j \in nat[s] : k <= j

DeleteRule(s) ==
  /\ stage[s] = "dropping"
  /\ nat[s] # {}
  /\ rules' = [rules EXCEPT ![addr[s]][FirstRule(s)] = @ - 1]
  /\ nat' = [nat EXCEPT ![s] = @ \ {FirstRule(s)}]
  /\ UNCHANGED <<forward, links, static, cursor, stage, addr, managed, found, warned, kills, toggles>>

DeleteRuleFails(s) ==
  /\ CleanupMayFail
  /\ stage[s] = "dropping"
  /\ nat[s] # {}
  /\ warned' = warned \cup {<<s, FirstRule(s)>>}
  /\ nat' = [nat EXCEPT ![s] = @ \ {FirstRule(s)}]
  /\ UNCHANGED <<kernel, static, cursor, stage, addr, managed, found, kills, toggles>>

DeleteLink(s) ==
  /\ stage[s] = "dropping"
  /\ nat[s] = {}
  /\ links' = links \ {s}
  /\ Goto(s, "unlinked")
  /\ UNCHANGED <<forward, rules, static, cursor, addr, nat, managed, found, warned, kills, toggles>>

\* The interface then lasts until its descriptor is closed, after the refcount.
DeleteLinkFails(s) ==
  /\ CleanupMayFail
  /\ stage[s] = "dropping"
  /\ nat[s] = {}
  /\ Goto(s, "unlinked")
  /\ UNCHANGED <<kernel, static, cursor, addr, nat, managed, found, warned, kills, toggles>>

\* release_ip_forward, for a device that is a holder.  Closing the descriptor
\* ends the interface in every case.
Closed(s) ==
  /\ stage[s] = "unlinked"
  /\ managed' = [managed EXCEPT ![s] = FALSE]
  /\ links' = links \ {s}
  /\ Goto(s, "closed")
  /\ UNCHANGED <<rules, orig, cursor, addr, nat, found, kills, toggles>>

\* Faulty variant: every release restores the flag.
ReleaseAlways(s) ==
  /\ managed[s]
  /\ count' = IF count = 0 THEN 0 ELSE count - 1
  /\ forward' = IF count > 0 /\ orig = 0 THEN 0 ELSE forward
  /\ UNCHANGED warned
  /\ Closed(s)

Release(s) ==
  /\ managed[s]
  /\ count' = IF count = 0 THEN 0 ELSE count - 1
  /\ forward' = IF count = 1 /\ orig = 0 THEN 0 ELSE forward
  /\ UNCHANGED warned
  /\ Closed(s)

ReleaseFails(s) ==
  /\ CleanupMayFail
  /\ managed[s]
  /\ count = 1 /\ orig = 0
  /\ count' = 0
  /\ warned' = warned \cup {<<s, ForwardFlag>>}
  /\ UNCHANGED forward
  /\ Closed(s)

\* A device that did not turn forwarding on holds no reference to release.
ReleaseNothing(s) ==
  /\ ~managed[s]
  /\ UNCHANGED <<forward, count, warned>>
  /\ Closed(s)

(***************************************************************************)
(* The environment.                                                        *)
(***************************************************************************)
\* The process ends without unwinding: a signal, or process::exit(0) after an
\* upgrade (upgrade.rs:260).  The kernel keeps the rules and the flag, closes the
\* descriptors, and the next process starts from a fresh pool and refcount.
Kill ==
  /\ kills < MaxKills
  /\ kills' = kills + 1
  /\ stage' = [s \in Sessions |-> IF Active(s) THEN "closed" ELSE stage[s]]
  /\ links' = {}
  /\ nat' = [s \in Sessions |-> {}]
  /\ managed' = [s \in Sessions |-> FALSE]
  /\ count' = 0
  /\ orig' = 1
  /\ cursor' = 0
  /\ UNCHANGED <<forward, rules, addr, found, warned, toggles>>

\* The operator flips the flag while no tunnel exists.
Toggle ==
  /\ toggles < MaxToggles
  /\ \A s \in Sessions : ~Active(s)
  /\ forward' = 1 - forward
  /\ found' = forward'
  /\ toggles' = toggles + 1
  /\ UNCHANGED <<rules, links, static, cursor, stage, addr, nat, managed, warned, kills>>

Create(s) ==
  \/ Open(s) \/ OpenFails(s)
  \/ Configure(s) \/ ConfigureFails(s)
  \/ Ensure(s) \/ EnsureFails(s)
  \/ AddRule(s) \/ AddRuleFails(s)

Drop(s) ==
  \/ DeleteRule(s) \/ DeleteRuleFails(s)
  \/ DeleteLink(s) \/ DeleteLinkFails(s)
  \/ Release(s) \/ ReleaseFails(s) \/ ReleaseNothing(s)

Session(s) == Allocate(s) \/ Refuse(s) \/ Create(s) \/ Finish(s) \/ Drop(s)

Next ==
  \/ \E s \in Sessions : Session(s)
  \/ Kill
  \/ Toggle

Spec == Init /\ [][Next]_vars

\* A started session goes on: the commands of create and Drop are synchronous and
\* return, and every tunnel ends sooner or later (the client leaves, or QUIC's idle
\* timeout ends the connection).  Nothing forces a request to arrive.
Fairness ==
  \A s \in Sessions : WF_vars(Create(s) \/ Drop(s)) /\ WF_vars(Finish(s))

FairSpec == Spec /\ Fairness

-----------------------------------------------------------------------------
(***************************************************************************)
(* Correctness.                                                            *)
(***************************************************************************)
TypeOK ==
  /\ forward \in {0, 1}
  /\ found \in {0, 1}
  /\ rules \in [Addrs -> [RuleKinds -> Int]]
  /\ links \in SUBSET Sessions
  /\ count \in Nat
  /\ orig \in {0, 1}
  /\ cursor \in Nat
  /\ stage \in [Sessions -> Stages]
  /\ addr \in [Sessions -> Nat]
  /\ nat \in [Sessions -> SUBSET RuleKinds]
  /\ managed \in [Sessions -> BOOLEAN]
  /\ warned \in SUBSET (Sessions \X (RuleKinds \cup {ForwardFlag}))
  /\ kills \in Nat
  /\ toggles \in Nat

\* While the program is the one that turned forwarding on, IP_FORWARD counts exactly
\* the devices that will release it; otherwise no device will touch the flag.
RefcountExact ==
  /\ orig = 0 => count = Cardinality(Holders)
  /\ orig = 1 => Holders = {}

\* No tunnel is ever left without forwarding by another tunnel's teardown
\* (release_ip_forward against concurrent ensure_ip_forward).
ForwardingWhileServed ==
  \A s \in Sessions : stage[s] \in {"forwarding", "live"} => forward = 1

\* The devices of block a that own a copy of rule k, and those whose removal failed.
Owned(a, k) == {s \in Sessions : addr[s] = a /\ k \in nat[s]}

Logged(a, k) == {s \in Sessions : addr[s] = a /\ <<s, k>> \in warned}

\* The copies of a firewall rule are those some device still owns and those whose
\* removal failed and was logged: create's error paths leak none, Drop misses none.
RulesAccounted ==
  \A a \in Addrs, k \in RuleKinds :
    rules[a][k] = Cardinality(Owned(a, k)) + Cardinality(Logged(a, k))

\* "the host is left exactly as we found it" (tun.rs:83-85): with no session in
\* progress and no cleanup failure logged, no rule and no interface remains and the
\* forwarding flag has the value it had before.
Quiet == (\A s \in Sessions : ~Active(s)) /\ warned = {}

HostClean ==
  /\ forward = found
  /\ links = {}
  /\ \A a \in Addrs, k \in RuleKinds : rules[a][k] = 0

HostRestored == Quiet => HostClean

\* Two sessions in progress never own the same client address (masque.rs:189).
AddressesDistinct ==
  \A s, t \in Sessions : s # t /\ Active(s) /\ Active(t) => addr[s] # addr[t]

\* Every tunnel ends, and the host is then for good in the state it was in before, whatever
\* create failed at on the way, unless the process died or a cleanup failure was logged.
HostEventuallyRestored ==
  <>[]((\A s \in Sessions : ~Active(s)) /\ (kills = 0 /\ warned = {} => HostClean))

(***************************************************************************)
(* The inductive invariant of TunGatewayProofs, in named parts.            *)
(***************************************************************************)
\* A session on its way through create owns exactly the rules added so far.
RulesSoFar(s) ==
  /\ stage[s] \in {"idle", "allocated", "opened", "configured"} => nat[s] = {}
  /\ stage[s] = "forwarding" => nat[s] \in {{}, {1}, {1, 2}}

\* Only a session between ensure and release is a holder, and between ensure and
\* the drop each session has taken a reference.
HoldersPlaced ==
  \A s \in Sessions :
    /\ managed[s] => stage[s] \in {"forwarding", "live", "dropping", "unlinked"}
    /\ stage[s] \in {"forwarding", "live"} => count > 0 /\ (orig = 0 => managed[s])

ForwardWhileHeld == Holders # {} => forward = 1

\* The cursor is past every address in use.
CursorAhead ==
  \A s \in Sessions : Active(s) => addr[s] < cursor

\* What a session has left on the host, and which of its cleanup commands can have
\* failed, is given by how far create and Drop have come.
CleanupPlaced(s) ==
  /\ stage[s] = "live" => nat[s] = RuleKinds
  /\ stage[s] \in {"unlinked", "closed"} => nat[s] = {}
  /\ s \in links => stage[s] \notin {"idle", "allocated", "closed"}
  /\ stage[s] \notin {"dropping", "unlinked", "closed"} =>
       \A k \in RuleKinds : <<s, k>> \notin warned
  /\ \A k \in nat[s] : <<s, k>> \notin warned

\* However often the process dies, no rule a device counts on is missing; copies
\* beyond those are left by processes that died.
RulesCovered ==
  \A a \in Addrs, k \in RuleKinds :
    /\ rules[a][k] >= Cardinality(Owned(a, k)) + Cardinality(Logged(a, k))
    /\ kills = 0 => rules[a][k] = Cardinality(Owned(a, k)) + Cardinality(Logged(a, k))

\* Until a death or a logged failure, the flag has the value the host gave it unless
\* some device turned it on, and that device will turn it off.
FlagAccounted ==
  kills = 0 /\ warned = {} =>
    /\ Holders = {} => forward = found
    /\ Holders # {} => found = 0

HostInv ==
  /\ \A s \in Sessions : CleanupPlaced(s)
  /\ RulesCovered
  /\ FlagAccounted

IInv ==
  /\ TypeOK
  /\ \A s \in Sessions : RulesSoFar(s)
  /\ RefcountExact
  /\ HoldersPlaced
  /\ ForwardWhileHeld
  /\ CursorAhead
  /\ AddressesDistinct

\* Without an operator who flips the flag, every reference keeps it on.
ForwardWhileCounted == count > 0 => forward = 1

(***************************************************************************)
(* The refcount implements the lease on the forwarding flag.               *)
(***************************************************************************)
Lease == INSTANCE ForwardLease WITH flag <- forward, holders <- Holders

ImplementsLease == Lease!Spec
=============================================================================
