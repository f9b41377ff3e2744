-------------------------- MODULE TunGatewayProofs --------------------------
(***************************************************************************)
(* Proofs about TunGateway and IpPool for any set of sessions, any pool    *)
(* and any number of process deaths: types, the forwarding refcount, the   *)
(* refinement of ForwardLease, what is left on the host, and the addresses.*)
(***************************************************************************)
EXTENDS TunGateway, IpPool, FiniteSetTheorems, TLAPS

\* A lone device has added k rules when it owns k of them: add_nat_rule numbers
\* the next one k + 1.
LEMMA NextRuleIs ==
  ASSUME NEW s \in Sessions, nat[s] \in {{}, {1}, {1, 2}}
  PROVE  /\ nat[s] = {} => NextRule(s) = 1
         /\ nat[s] = {1} => NextRule(s) = 2
         /\ nat[s] = {1, 2} => NextRule(s) = 3
<1>1. Cardinality({}) = 0
  BY FS_EmptySet
<1>2. Cardinality({1}) = 1
  BY FS_Singleton
<1>3. Cardinality({1, 2}) = 2
  <2>1. IsFiniteSet({1})
    BY FS_Singleton
  <2>2. Cardinality({1} \cup {2}) = IF 2 \in {1} THEN Cardinality({1}) ELSE Cardinality({1}) + 1
    BY <2>1, FS_AddElement
  <2>3. {1, 2} = {1} \cup {2}
    OBVIOUS
  <2>4. QED
    BY <2>2, <2>3, <1>2
<1>4. QED
  BY <1>1, <1>2, <1>3 DEF NextRule

\* Drop always has a first rule while any is left.
LEMMA FirstRuleIs ==
  ASSUME NEW s \in Sessions, nat[s] \in SUBSET RuleKinds, nat[s] # {}
  PROVE  FirstRule(s) \in nat[s]
<1>1. \E k \in nat[s] : \A j \in nat[s] : k <= j
  BY SMT DEF RuleKinds
<1>2. QED
  BY <1>1 DEF FirstRule

\* Adding or removing one copy of a firewall rule keeps the table a table.
LEMMA RuleTable ==
  ASSUME NEW r \in [Addrs -> [RuleKinds -> Int]], NEW a, NEW k, NEW d \in {1, -1}
  PROVE  [r EXCEPT ![a] = [r[a] EXCEPT ![k] = r[a][k] + d]] \in [Addrs -> [RuleKinds -> Int]]
<1>1. ASSUME NEW x \in Addrs
      PROVE  [r[x] EXCEPT ![k] = r[x][k] + d] \in [RuleKinds -> Int]
  <2>1. r[x] \in [RuleKinds -> Int]
    OBVIOUS
  <2>2. ASSUME NEW y \in RuleKinds, y = k
        PROVE  r[x][k] + d \in Int
    BY <2>1, <2>2
  <2>3. QED
    BY <2>1, <2>2
<1>2. QED
  BY <1>1

\* Every action keeps the types, given how far each device has come.
LEMMA TypeStep ==
  ASSUME TypeOK, \A s \in Sessions : RulesSoFar(s), [Next]_vars
  PROVE  TypeOK'
<1> USE DEF TypeOK, Goto, kernel, static
<1>1. ASSUME NEW s \in Sessions, Allocate(s) PROVE TypeOK'
  BY <1>1 DEF Allocate, Stages
<1>2. ASSUME NEW s \in Sessions, Refuse(s) PROVE TypeOK'
  BY <1>2 DEF Refuse, Stages
<1>3. ASSUME NEW s \in Sessions, Open(s) PROVE TypeOK'
  BY <1>3 DEF Open, Stages
<1>4. ASSUME NEW s \in Sessions, OpenFails(s) PROVE TypeOK'
  BY <1>4 DEF OpenFails, Stages
<1>5. ASSUME NEW s \in Sessions, Configure(s) \/ ConfigureFails(s) PROVE TypeOK'
  BY <1>5 DEF Configure, ConfigureFails, Stages
<1>6. ASSUME NEW s \in Sessions, Ensure(s) PROVE TypeOK'
  BY <1>6 DEF Ensure, Saved, Stages
<1>7. ASSUME NEW s \in Sessions, EnsureFails(s) PROVE TypeOK'
  BY <1>7 DEF EnsureFails, Stages
<1>8. ASSUME NEW s \in Sessions, AddRule(s) PROVE TypeOK'
  <2>1. NextRule(s) \in RuleKinds
    <3>1. nat[s] \in {{}, {1}, {1, 2}}
      BY <1>8 DEF AddRule, RulesSoFar
    <3>2. QED
      BY <3>1, NextRuleIs DEF RuleKinds
  <2>2. rules' \in [Addrs -> [RuleKinds -> Int]]
    BY <1>8, RuleTable DEF AddRule
  <2>3. nat' \in [Sessions -> SUBSET RuleKinds]
    BY <1>8, <2>1 DEF AddRule
  <2>4. stage' \in [Sessions -> Stages]
    BY <1>8 DEF AddRule, Stages
  <2>5. QED
    BY <1>8, <2>2, <2>3, <2>4 DEF AddRule
<1>9. ASSUME NEW s \in Sessions, AddRuleFails(s) \/ Finish(s) PROVE TypeOK'
  BY <1>9 DEF AddRuleFails, Finish, Stages
<1>10. ASSUME NEW s \in Sessions, DeleteRule(s) PROVE TypeOK'
  <2>1. rules' \in [Addrs -> [RuleKinds -> Int]]
    <3>1. rules' = [rules EXCEPT ![addr[s]] =
                     [rules[addr[s]] EXCEPT ![FirstRule(s)] = rules[addr[s]][FirstRule(s)] + (-1)]]
      BY <1>10 DEF DeleteRule
    <3>2. QED
      BY <3>1, RuleTable
  <2>2. QED
    BY <1>10, <2>1 DEF DeleteRule
<1>11. ASSUME NEW s \in Sessions, DeleteRuleFails(s) PROVE TypeOK'
  <2>1. FirstRule(s) \in RuleKinds
    BY <1>11, FirstRuleIs DEF DeleteRuleFails
  <2>2. warned' \in SUBSET (Sessions \X (RuleKinds \cup {ForwardFlag}))
    BY <1>11, <2>1 DEF DeleteRuleFails
  <2>3. QED
    BY <1>11, <2>2 DEF DeleteRuleFails
<1>12. ASSUME NEW s \in Sessions, DeleteLink(s) \/ DeleteLinkFails(s) PROVE TypeOK'
  BY <1>12 DEF DeleteLink, DeleteLinkFails, Stages
<1>13. ASSUME NEW s \in Sessions, Release(s) PROVE TypeOK'
  BY <1>13 DEF Release, Closed, Stages
<1>14. ASSUME NEW s \in Sessions, ReleaseFails(s) PROVE TypeOK'
  BY <1>14 DEF ReleaseFails, Closed, Stages
<1>15. ASSUME NEW s \in Sessions, ReleaseNothing(s) PROVE TypeOK'
  BY <1>15 DEF ReleaseNothing, Closed, Stages
<1>16. CASE Kill
  BY <1>16 DEF Kill, Stages
<1>17. CASE Toggle
  BY <1>17 DEF Toggle
<1>18. CASE UNCHANGED vars
  BY <1>18 DEF vars
<1>19. QED
  BY <1>1, <1>2, <1>3, <1>4, <1>5, <1>6, <1>7, <1>8, <1>9, <1>10, <1>11, <1>12,
     <1>13, <1>14, <1>15, <1>16, <1>17, <1>18 DEF Next, Session, Create, Drop

\* What a device owns is what create has added so far.
LEMMA RulesSoFarStep ==
  ASSUME TypeOK, \A s \in Sessions : RulesSoFar(s), [Next]_vars
  PROVE  \A s \in Sessions : RulesSoFar(s)'
<1> USE DEF TypeOK, RulesSoFar, Goto
<1>1. ASSUME NEW s \in Sessions, Allocate(s) \/ Refuse(s)
      PROVE  \A t \in Sessions : RulesSoFar(t)'
  BY <1>1 DEF Allocate, Refuse
<1>2. ASSUME NEW s \in Sessions, Open(s) \/ OpenFails(s) \/ Configure(s) \/ ConfigureFails(s)
      PROVE  \A t \in Sessions : RulesSoFar(t)'
  BY <1>2 DEF Open, OpenFails, Configure, ConfigureFails
<1>3. ASSUME NEW s \in Sessions, Ensure(s) \/ EnsureFails(s)
      PROVE  \A t \in Sessions : RulesSoFar(t)'
  BY <1>3 DEF Ensure, EnsureFails
<1>4. ASSUME NEW s \in Sessions, AddRule(s)
      PROVE  \A t \in Sessions : RulesSoFar(t)'
  <2>1. nat[s] \in {{}, {1}, {1, 2}}
    BY <1>4 DEF AddRule
  <2>2. /\ stage'[s] = "forwarding" => nat'[s] \in {{}, {1}, {1, 2}}
        /\ stage'[s] \in {"forwarding", "live"}
    <3>1. CASE nat[s] = {}
      BY <3>1, <2>1, <1>4, NextRuleIs DEF AddRule
    <3>2. CASE nat[s] = {1}
      BY <3>2, <2>1, <1>4, NextRuleIs DEF AddRule
    <3>3. CASE nat[s] = {1, 2}
      BY <3>3, <2>1, <1>4, NextRuleIs DEF AddRule
    <3>4. QED
      BY <2>1, <3>1, <3>2, <3>3
  <2>3. \A t \in Sessions \ {s} : stage'[t] = stage[t] /\ nat'[t] = nat[t]
    BY <1>4 DEF AddRule
  <2>4. QED
    BY <2>2, <2>3
<1>5. ASSUME NEW s \in Sessions, AddRuleFails(s) \/ Finish(s) 
      PROVE  \A t \in Sessions : RulesSoFar(t)'
  BY <1>5 DEF AddRuleFails, Finish
<1>6. ASSUME NEW s \in Sessions, DeleteRule(s) \/ DeleteRuleFails(s)
      PROVE  \A t \in Sessions : RulesSoFar(t)'
  BY <1>6 DEF DeleteRule, DeleteRuleFails
<1>7. ASSUME NEW s \in Sessions, DeleteLink(s) \/ DeleteLinkFails(s)
      PROVE  \A t \in Sessions : RulesSoFar(t)'
  BY <1>7 DEF DeleteLink, DeleteLinkFails
<1>8. ASSUME NEW s \in Sessions, Release(s) \/ ReleaseFails(s) \/ ReleaseNothing(s)
      PROVE  \A t \in Sessions : RulesSoFar(t)'
  BY <1>8 DEF Release, ReleaseFails, ReleaseNothing, Closed
<1>9. CASE Kill \/ Toggle
  BY <1>9 DEF Kill, Toggle
<1>10. CASE UNCHANGED vars
  BY <1>10 DEF vars
<1>11. QED
  BY <1>1, <1>2, <1>3, <1>4, <1>5, <1>6, <1>7, <1>8, <1>9, <1>10
     DEF Next, Session, Create, Drop

\* The addresses of sessions in progress lie below the cursor and differ.
LEMMA AddressStep ==
  ASSUME TypeOK, CursorAhead, AddressesDistinct, [Next]_vars
  PROVE  CursorAhead' /\ AddressesDistinct'
<1> USE DEF TypeOK, CursorAhead, AddressesDistinct, Active, Goto
<1>1. ASSUME NEW s \in Sessions, Allocate(s)
      PROVE  CursorAhead' /\ AddressesDistinct'
  BY <1>1 DEF Allocate
<1>2. ASSUME NEW s \in Sessions, Refuse(s) \/ Create(s) \/ Finish(s) \/ Drop(s)
      PROVE  CursorAhead' /\ AddressesDistinct'
  <2>1. CASE Refuse(s) \/ Finish(s)
    BY <2>1 DEF Refuse, Finish
  <2>2. CASE Create(s)
    <3>1. CASE Open(s) \/ OpenFails(s) \/ Configure(s) \/ ConfigureFails(s)
      BY <3>1 DEF Open, OpenFails, Configure, ConfigureFails
    <3>2. CASE Ensure(s) \/ EnsureFails(s) \/ AddRule(s) \/ AddRuleFails(s)
      BY <3>2 DEF Ensure, EnsureFails, AddRule, AddRuleFails
    <3>3. QED
      BY <2>2, <3>1, <3>2 DEF Create
  <2>3. CASE Drop(s)
    <3>1. CASE DeleteRule(s) \/ DeleteRuleFails(s) \/ DeleteLink(s) \/ DeleteLinkFails(s)
      BY <3>1 DEF DeleteRule, DeleteRuleFails, DeleteLink, DeleteLinkFails
    <3>2. CASE Release(s) \/ ReleaseFails(s) \/ ReleaseNothing(s)
      BY <3>2 DEF Release, ReleaseFails, ReleaseNothing, Closed
    <3>3. QED
      BY <2>3, <3>1, <3>2 DEF Drop
  <2>4. QED
    BY <1>2, <2>1, <2>2, <2>3
<1>3. CASE Kill
  BY <1>3 DEF Kill
<1>4. CASE Toggle \/ UNCHANGED vars
  BY <1>4 DEF Toggle, vars
<1>5. QED
  BY <1>1, <1>2, <1>3, <1>4 DEF Next, Session

(***************************************************************************)
(* The forwarding refcount.                                                *)
(***************************************************************************)
\* Facts about the number of holders that the arithmetic below needs.
LEMMA HoldersCount ==
  /\ IsFiniteSet(Holders)
  /\ Cardinality(Holders) \in Nat
  /\ Cardinality(Holders) = 0 <=> Holders = {}
  /\ \A s \in Sessions : Cardinality(Holders \cup {s}) =
       IF s \in Holders THEN Cardinality(Holders) ELSE Cardinality(Holders) + 1
  /\ \A s \in Sessions : Cardinality(Holders \ {s}) =
       IF s \in Holders THEN Cardinality(Holders) - 1 ELSE Cardinality(Holders)
<1>1. IsFiniteSet(Holders)
  <2>1. Holders \in SUBSET Sessions
    BY DEF Holders
  <2>2. QED
    BY <2>1, SessionsAssumption, FS_Subset
<1>2. Cardinality(Holders) \in Nat
  BY <1>1, FS_CardinalityType
<1>3. Cardinality(Holders) = 0 <=> Holders = {}
  BY <1>1, FS_EmptySet
<1>4. \A s \in Sessions : Cardinality(Holders \cup {s}) =
        IF s \in Holders THEN Cardinality(Holders) ELSE Cardinality(Holders) + 1
  BY <1>1, FS_AddElement
<1>5. \A s \in Sessions : Cardinality(Holders \ {s}) =
        IF s \in Holders THEN Cardinality(Holders) - 1 ELSE Cardinality(Holders)
  BY <1>1, FS_RemoveElement
<1>6. QED
  BY <1>1, <1>2, <1>3, <1>4, <1>5

\* The part of the invariant that is about the refcount.
RefInv == RefcountExact /\ HoldersPlaced /\ ForwardWhileHeld

\* ensure_ip_forward adds the caller to the holders when the saved value is 0.
LEMMA EnsureStep ==
  ASSUME TypeOK, RefInv, NEW s \in Sessions, Ensure(s)
  PROVE  RefInv'
<1> USE DEF TypeOK, RefInv, HoldersPlaced, ForwardWhileHeld, RefcountExact
<1>1. ~managed[s]
  BY DEF Ensure
<1>2. Holders' = IF Saved = 0 THEN Holders \cup {s} ELSE Holders
  BY <1>1 DEF Ensure, Holders
<1>3. /\ stage'[s] = "forwarding" /\ (managed'[s] <=> Saved = 0)
      /\ \A t \in Sessions \ {s} : stage'[t] = stage[t] /\ managed'[t] = managed[t]
  BY DEF Ensure, Goto
<1>4. CASE count = 0
  <2>1. Holders = {} /\ Cardinality(Holders) = 0
    BY <1>4, HoldersCount
  <2>2. orig' = forward /\ count' = 1 /\ forward' = 1
    BY <1>4 DEF Ensure, Saved
  <2>3. RefcountExact'
    <3>1. s \notin Holders
      BY <1>1 DEF Holders
    <3>2. CASE forward = 0
      <4>1. Cardinality(Holders') = 1
        BY <3>1, <3>2, <2>1, <1>2, <1>4, HoldersCount DEF Saved
      <4>2. QED
        BY <4>1, <2>2, <3>2
    <3>3. CASE forward = 1
      BY <3>3, <2>1, <2>2, <1>2, <1>4 DEF Saved
    <3>4. QED
      BY <3>2, <3>3
  <2>4. HoldersPlaced'
    <3>1. \A t \in Sessions : stage[t] \notin {"forwarding", "live"}
      BY <1>4
    <3>2. Saved = forward
      BY <1>4 DEF Saved
    <3>3. QED
      BY <3>1, <3>2, <2>2, <1>3
  <2>5. QED
    BY <2>2, <2>3, <2>4
<1>5. CASE count > 0
  <2>1. orig' = orig /\ count' = count + 1 /\ forward' = forward
    BY <1>5 DEF Ensure, Saved
  <2>2. RefcountExact'
    <3>1. s \notin Holders
      BY <1>1 DEF Holders
    <3>2. CASE orig = 0
      <4>1. Cardinality(Holders') = Cardinality(Holders) + 1
        BY <3>1, <3>2, <1>2, <1>5, HoldersCount DEF Saved
      <4>2. QED
        BY <4>1, <2>1, <3>2
    <3>3. CASE orig = 1
      BY <3>3, <2>1, <1>2, <1>5 DEF Saved
    <3>4. QED
      BY <3>2, <3>3
  <2>3. HoldersPlaced'
    <3>1. Saved = orig
      BY <1>5 DEF Saved
    <3>2. QED
      BY <3>1, <2>1, <1>5, <1>3
  <2>4. ForwardWhileHeld'
    <3>1. CASE orig = 0
      BY <3>1, <2>1, <1>5, HoldersCount
    <3>2. CASE orig = 1
      BY <3>2, <2>1, <1>2, <1>5 DEF Saved
    <3>3. QED
      BY <3>1, <3>2
  <2>5. QED
    BY <2>2, <2>3, <2>4
<1>6. QED
  BY <1>4, <1>5

\* A failed ensure_ip_forward takes no reference.
LEMMA EnsureFailsStep ==
  ASSUME TypeOK, RefInv, NEW s \in Sessions, EnsureFails(s)
  PROVE  RefInv'
<1> USE DEF TypeOK, RefInv
<1>1. Holders = {} /\ Cardinality(Holders) = 0
  BY HoldersCount DEF EnsureFails, RefcountExact
<1>2. Holders' = Holders
  BY DEF EnsureFails, Holders
<1>3. RefcountExact' /\ ForwardWhileHeld'
  BY <1>1, <1>2 DEF EnsureFails, RefcountExact, ForwardWhileHeld
<1>4. \A t \in Sessions : ~managed[t]
  BY <1>1 DEF Holders
<1>5. HoldersPlaced'
  BY <1>4 DEF EnsureFails, HoldersPlaced, Goto
<1>6. QED
  BY <1>3, <1>5

\* The steps that leave the refcount alone only move a session forward.
LEMMA UncountedStep ==
  ASSUME TypeOK, RefInv, NEW s \in Sessions,
         \/ Allocate(s) \/ Refuse(s) \/ Open(s) \/ OpenFails(s)
         \/ Configure(s) \/ ConfigureFails(s) \/ AddRule(s) \/ AddRuleFails(s)
         \/ Finish(s) \/ DeleteRule(s) \/ DeleteRuleFails(s)
         \/ DeleteLink(s) \/ DeleteLinkFails(s)
  PROVE  RefInv'
<1> DEFINE Moves ==
      /\ forward' = forward /\ count' = count /\ orig' = orig /\ managed' = managed
      /\ \A t \in Sessions \ {s} : stage'[t] = stage[t]
      /\ stage'[s] \in {"forwarding", "live"} => stage[s] \in {"forwarding", "live"}
      /\ stage[s] \in {"forwarding", "live", "dropping"} =>
           stage'[s] \in {"forwarding", "live", "dropping", "unlinked"}
      /\ stage[s] # "unlinked"
<1> USE DEF TypeOK, Goto, kernel, static
<1>1. CASE Allocate(s) \/ Refuse(s)
  <2>1. Moves
    BY <1>1 DEF Allocate, Refuse
  <2>2. QED
    BY <2>1 DEF RefInv, RefcountExact, HoldersPlaced, ForwardWhileHeld, Holders
<1>2. CASE Open(s) \/ OpenFails(s) \/ Configure(s) \/ ConfigureFails(s)
  <2>1. Moves
    BY <1>2 DEF Open, OpenFails, Configure, ConfigureFails
  <2>2. QED
    BY <2>1 DEF RefInv, RefcountExact, HoldersPlaced, ForwardWhileHeld, Holders
<1>3. CASE AddRule(s) \/ AddRuleFails(s) \/ Finish(s)
  <2>1. Moves
    BY <1>3 DEF AddRule, AddRuleFails, Finish
  <2>2. QED
    BY <2>1 DEF RefInv, RefcountExact, HoldersPlaced, ForwardWhileHeld, Holders
<1>4. CASE DeleteRule(s) \/ DeleteRuleFails(s) \/ DeleteLink(s) \/ DeleteLinkFails(s)
  <2>1. Moves
    BY <1>4 DEF DeleteRule, DeleteRuleFails, DeleteLink, DeleteLinkFails
  <2>2. QED
    BY <2>1 DEF RefInv, RefcountExact, HoldersPlaced, ForwardWhileHeld, Holders
<1>5. QED
  BY <1>1, <1>2, <1>3, <1>4

\* release_ip_forward: only the last holder turns the flag off.
LEMMA ReleaseStep ==
  ASSUME TypeOK, RefInv, NEW s \in Sessions,
         Release(s) \/ ReleaseFails(s) \/ ReleaseNothing(s)
  PROVE  RefInv'
<1> USE DEF TypeOK, RefInv
<1>1. /\ orig' = orig /\ stage'[s] = "closed" /\ ~managed'[s]
      /\ \A t \in Sessions \ {s} : stage'[t] = stage[t] /\ managed'[t] = managed[t]
  BY DEF Release, ReleaseFails, ReleaseNothing, Closed, Goto
<1>2. Holders' = Holders \ {s}
  BY <1>1 DEF Holders
<1>3. CASE ReleaseNothing(s)
  <2>1. s \notin Holders /\ count' = count /\ forward' = forward
    BY <1>3 DEF ReleaseNothing, Holders
  <2>2. Holders' = Holders
    BY <2>1, <1>2
  <2>3. QED
    BY <2>1, <2>2, <1>1 DEF RefcountExact, HoldersPlaced, ForwardWhileHeld
<1>4. CASE Release(s) \/ ReleaseFails(s)
  <2>1. managed[s] /\ s \in Holders
    BY <1>4 DEF Release, ReleaseFails, Holders
  <2>2. orig = 0
    BY <2>1 DEF RefcountExact
  <2>3. count = Cardinality(Holders) /\ count > 0
    BY <2>1, <2>2, HoldersCount DEF RefcountExact
  <2>4. count' = count - 1
    BY <1>4, <2>3 DEF Release, ReleaseFails
  <2>5. Cardinality(Holders') = count'
    BY <1>2, <2>1, <2>3, <2>4, HoldersCount
  <2>6. RefcountExact'
    BY <2>2, <2>5, <1>1 DEF RefcountExact
  <2>7. count' = 0 <=> Holders' = {}
    <3>1. IsFiniteSet(Holders')
      BY <1>2, HoldersCount, FS_RemoveElement
    <3>2. Cardinality(Holders') = 0 <=> Holders' = {}
      BY <3>1, FS_EmptySet
    <3>3. QED
      BY <2>5, <3>2
  <2>8. HoldersPlaced'
    <3>1. ASSUME NEW t \in Sessions, stage'[t] \in {"forwarding", "live"}
          PROVE  count' > 0 /\ managed'[t]
      <4>1. t # s /\ managed[t]
        BY <1>1, <2>2, <3>1 DEF HoldersPlaced
      <4>2. t \in Holders'
        BY <4>1, <1>1 DEF Holders
      <4>3. QED
        BY <4>1, <4>2, <1>1, <2>3, <2>4, <2>7
    <3>2. QED
      BY <3>1, <1>1 DEF HoldersPlaced
  <2>9. ForwardWhileHeld'
    <3>1. CASE Holders' = {}
      BY <3>1 DEF ForwardWhileHeld
    <3>2. CASE Holders' # {}
      <4>1. count # 1
        BY <3>2, <2>7, <2>4
      <4>2. forward' = forward
        BY <4>1, <1>4 DEF Release, ReleaseFails
      <4>3. QED
        BY <4>2, <2>1 DEF ForwardWhileHeld
    <3>3. QED
      BY <3>1, <3>2
  <2>10. QED
    BY <2>6, <2>8, <2>9
<1>5. QED
  BY <1>3, <1>4

\* A fresh process counts nothing; the operator acts while nothing is counted.
LEMMA OutsideStep ==
  ASSUME TypeOK, RefInv, Kill \/ Toggle
  PROVE  RefInv'
<1>1. CASE Kill
  <2>1. \A s \in Sessions : ~managed'[s]
    BY <1>1 DEF Kill
  <2>2. Holders' = {}
    BY <2>1 DEF Holders
  <2>3. \A s \in Sessions : stage'[s] \in {"idle", "closed"}
    BY <1>1 DEF Kill, Active
  <2>4. QED
    BY <1>1, <2>1, <2>2, <2>3 DEF Kill, RefInv, RefcountExact, HoldersPlaced, ForwardWhileHeld
<1>2. CASE Toggle
  <2>1. \A s \in Sessions : ~managed[s]
    BY <1>2 DEF Toggle, Active, RefInv, HoldersPlaced
  <2>2. Holders = {} /\ Holders' = Holders
    BY <2>1, <1>2 DEF Holders, Toggle
  <2>3. RefcountExact' /\ ForwardWhileHeld'
    BY <2>2, <1>2 DEF Toggle, static, RefInv, RefcountExact, ForwardWhileHeld
  <2>4. HoldersPlaced'
    BY <1>2 DEF Toggle, static, RefInv, HoldersPlaced
  <2>5. QED
    BY <2>3, <2>4 DEF RefInv
<1>3. QED
  BY <1>1, <1>2

LEMMA RefStep ==
  ASSUME TypeOK, RefInv, [Next]_vars
  PROVE  RefInv'
<1>1. ASSUME NEW s \in Sessions, Session(s) PROVE RefInv'
  BY <1>1, EnsureStep, EnsureFailsStep, UncountedStep, ReleaseStep
     DEF Session, Create, Drop
<1>2. CASE Kill \/ Toggle
  BY <1>2, OutsideStep
<1>3. CASE UNCHANGED vars
  BY <1>3 DEF vars, RefInv, RefcountExact, HoldersPlaced, ForwardWhileHeld, Holders
<1>4. QED
  BY <1>1, <1>2, <1>3 DEF Next

(***************************************************************************)
(* The invariant and what follows from it.                                 *)
(***************************************************************************)
\* IInv is inductive: it relates each device's position in create or Drop to the
\* reference it holds, which none of the checked invariants does alone.
THEOREM Invariance == Spec => []IInv
<1>1. Init => IInv
  <2> SUFFICES ASSUME Init PROVE IInv
    OBVIOUS
  <2>1. TypeOK
    BY HostAssumption DEF Init, TypeOK, Stages
  <2>2. \A s \in Sessions : RulesSoFar(s)
    BY DEF Init, RulesSoFar
  <2>3. Holders = {}
    BY DEF Init, Holders
  <2>4. RefcountExact /\ HoldersPlaced /\ ForwardWhileHeld
    BY <2>3 DEF Init, RefcountExact, HoldersPlaced, ForwardWhileHeld
  <2>5. CursorAhead /\ AddressesDistinct
    BY DEF Init, CursorAhead, AddressesDistinct, Active
  <2>6. QED
    BY <2>1, <2>2, <2>4, <2>5 DEF IInv
<1>2. IInv /\ [Next]_vars => IInv'
  <2> SUFFICES ASSUME IInv, [Next]_vars PROVE IInv'
    OBVIOUS
  <2>1. TypeOK /\ RefInv /\ CursorAhead /\ AddressesDistinct /\ \A s \in Sessions : RulesSoFar(s)
    BY DEF IInv, RefInv
  <2>2. TypeOK' /\ \A s \in Sessions : RulesSoFar(s)'
    BY <2>1, TypeStep, RulesSoFarStep
  <2>3. RefInv'
    BY <2>1, RefStep
  <2>4. CursorAhead' /\ AddressesDistinct'
    BY <2>1, AddressStep
  <2>5. QED
    BY <2>2, <2>3, <2>4 DEF IInv, RefInv
<1>3. QED
  BY <1>1, <1>2, PTL DEF Spec

\* The variables keep their types; in particular the counter never runs below zero.
THEOREM TypeCorrect == Spec => []TypeOK
<1>1. IInv => TypeOK
  BY DEF IInv
<1>2. QED
  BY <1>1, Invariance, PTL

\* IP_FORWARD counts exactly the devices that will release it.
THEOREM RefcountCorrect == Spec => []RefcountExact
<1>1. IInv => RefcountExact
  BY DEF IInv
<1>2. QED
  BY <1>1, Invariance, PTL

\* No two sessions in progress share a client address.
THEOREM AddressesNeverShared == Spec => []AddressesDistinct
<1>1. IInv => AddressesDistinct
  BY DEF IInv
<1>2. QED
  BY <1>1, Invariance, PTL

\* If nobody else flips the flag, a tunnel in service is forwarded, whatever the
\* other tunnels do and however often the process dies.
THEOREM ForwardingKept ==
  ASSUME MaxToggles = 0
  PROVE  Spec => []ForwardingWhileServed
<1> DEFINE FInv == IInv /\ ForwardWhileCounted
<1>1. Init => ForwardWhileCounted
  BY DEF Init, ForwardWhileCounted
<1>2. ASSUME IInv, ForwardWhileCounted, [Next]_vars
      PROVE  ForwardWhileCounted'
  <2> USE <1>2 DEF IInv, TypeOK
  <2>1. ASSUME NEW s \in Sessions, Session(s)
        PROVE  ForwardWhileCounted'
    <3>1. CASE Ensure(s)
      BY <3>1 DEF Ensure, ForwardWhileCounted
    <3>2. CASE EnsureFails(s)
      BY <3>2 DEF EnsureFails, kernel, ForwardWhileCounted
    <3>3. CASE Release(s) \/ ReleaseFails(s) \/ ReleaseNothing(s)
      BY <3>3 DEF Release, ReleaseFails, ReleaseNothing, ForwardWhileCounted
    <3>4. CASE \/ Allocate(s) \/ Refuse(s) \/ Open(s) \/ OpenFails(s)
               \/ Configure(s) \/ ConfigureFails(s) \/ AddRule(s) \/ AddRuleFails(s)
               \/ Finish(s) \/ DeleteRule(s) \/ DeleteRuleFails(s)
               \/ DeleteLink(s) \/ DeleteLinkFails(s)
      <4>1. forward' = forward /\ count' = count
        BY <3>4 DEF Allocate, Refuse, Open, OpenFails, Configure, ConfigureFails,
           AddRule, AddRuleFails, Finish, DeleteRule, DeleteRuleFails, DeleteLink,
           DeleteLinkFails, kernel, static
      <4>2. QED
        BY <4>1 DEF ForwardWhileCounted
    <3>5. QED
      BY <2>1, <3>1, <3>2, <3>3, <3>4 DEF Session, Create, Drop
  <2>2. CASE Kill
    BY <2>2 DEF Kill, ForwardWhileCounted
  <2>3. ~Toggle
    BY MaxToggles = 0 DEF Toggle
  <2>4. CASE UNCHANGED vars
    BY <2>4 DEF vars, ForwardWhileCounted
  <2>5. QED
    BY <2>1, <2>2, <2>3, <2>4 DEF Next
<1>3. IInv /\ ForwardWhileCounted => ForwardingWhileServed
  BY DEF IInv, HoldersPlaced, ForwardWhileCounted, ForwardingWhileServed
<1>4. QED
  BY <1>1, <1>2, <1>3, Invariance, PTL DEF Spec

\* The counter of tun.rs implements the lease: every step acquires, releases or
\* abandons the flag as ForwardLease allows, or leaves flag and holders alone.
THEOREM LeaseImplemented == Spec => ImplementsLease
<1>1. Init => Lease!Init
  BY DEF Init, Lease!Init, Holders
<1>2. ASSUME IInv, [Next]_vars
      PROVE  [Lease!Next]_<<forward, Holders>>
  <2> USE <1>2
  <2>1. TypeOK /\ RefcountExact /\ ForwardWhileHeld
    BY DEF IInv
  <2>2. ASSUME NEW s \in Sessions, Ensure(s)
        PROVE  [Lease!Next]_<<forward, Holders>>
    <3>1. ~managed[s]
      BY <2>2 DEF Ensure, IInv, HoldersPlaced
    <3>2. s \notin Holders /\ Holders' = IF Saved = 0 THEN Holders \cup {s} ELSE Holders
      BY <3>1, <2>1, <2>2 DEF Ensure, Holders, TypeOK
    <3>3. CASE Saved = 0
      <4>1. (Holders # {} \/ forward = 0) /\ forward' = 1
        <5>1. CASE count = 0
          BY <5>1, <3>3, <2>2 DEF Ensure, Saved
        <5>2. CASE count > 0
          <6>1. orig = 0 /\ Holders # {}
            BY <5>2, <3>3, <2>1, HoldersCount DEF Saved, RefcountExact
          <6>2. QED
            BY <6>1, <5>2, <2>1, <2>2 DEF Ensure, ForwardWhileHeld
        <5>3. QED
          BY <5>1, <5>2, <2>1 DEF TypeOK
      <4>2. Lease!Acquire(s)
        BY <3>2, <3>3, <4>1 DEF Lease!Acquire
      <4>3. QED
        BY <4>2 DEF Lease!Next
    <3>4. CASE Saved # 0
      <4>1. Holders' = Holders
        BY <3>2, <3>4
      <4>2. forward' = forward
        BY <2>1, <2>2, <3>4 DEF Ensure, Saved, TypeOK
      <4>3. QED
        BY <4>1, <4>2
    <3>5. QED
      BY <3>3, <3>4
  <2>3. ASSUME NEW s \in Sessions, Release(s) \/ ReleaseFails(s) \/ ReleaseNothing(s)
        PROVE  [Lease!Next]_<<forward, Holders>>
    <3>1. Holders' = Holders \ {s}
      BY <2>1, <2>3 DEF Release, ReleaseFails, ReleaseNothing, Closed, Holders, TypeOK
    <3>2. CASE ReleaseNothing(s)
      <4>1. s \notin Holders /\ forward' = forward
        BY <3>2 DEF ReleaseNothing, Holders
      <4>2. QED
        BY <4>1, <3>1
    <3>3. CASE Release(s) \/ ReleaseFails(s)
      <4>1. s \in Holders /\ orig = 0 /\ count = Cardinality(Holders) /\ count > 0
        <5>1. s \in Holders
          BY <3>3 DEF Release, ReleaseFails, Holders
        <5>2. orig = 0
          BY <5>1, <2>1 DEF RefcountExact, TypeOK
        <5>3. QED
          BY <5>1, <5>2, <2>1, HoldersCount DEF RefcountExact
      <4>2. Holders' = {} <=> count = 1
        <5>1. IsFiniteSet(Holders')
          BY <3>1, HoldersCount, FS_RemoveElement
        <5>2. Cardinality(Holders') = 0 <=> Holders' = {}
          BY <5>1, FS_EmptySet
        <5>3. Cardinality(Holders') = count - 1
          BY <3>1, <4>1, HoldersCount
        <5>4. QED
          BY <5>2, <5>3, <4>1, <2>1 DEF TypeOK
      <4>3. CASE Release(s)
        <5>1. Lease!Release(s)
          BY <3>1, <4>1, <4>2, <4>3 DEF Release, Lease!Release
        <5>2. QED
          BY <5>1 DEF Lease!Next
      <4>4. CASE ReleaseFails(s)
        <5>1. Lease!Abandon
          BY <3>1, <4>1, <4>2, <4>4 DEF ReleaseFails, Lease!Abandon
        <5>2. QED
          BY <5>1 DEF Lease!Next
      <4>5. QED
        BY <3>3, <4>3, <4>4
    <3>4. QED
      BY <2>3, <3>2, <3>3
  <2>4. ASSUME NEW s \in Sessions,
               \/ Allocate(s) \/ Refuse(s) \/ Open(s) \/ OpenFails(s) \/ EnsureFails(s)
               \/ Configure(s) \/ ConfigureFails(s) \/ AddRule(s) \/ AddRuleFails(s)
               \/ Finish(s) \/ DeleteRule(s) \/ DeleteRuleFails(s)
               \/ DeleteLink(s) \/ DeleteLinkFails(s)
        PROVE  [Lease!Next]_<<forward, Holders>>
    <3>1. forward' = forward /\ managed' = managed
      BY <2>4 DEF Allocate, Refuse, Open, OpenFails, EnsureFails, Configure,
         ConfigureFails, AddRule, AddRuleFails, Finish, DeleteRule, DeleteRuleFails,
         DeleteLink, DeleteLinkFails, kernel
    <3>2. QED
      BY <3>1 DEF Holders
  <2>5. CASE Kill
    <3>1. Holders' = {} /\ forward' = forward
      BY <2>5 DEF Kill, Holders
    <3>2. QED
      BY <3>1 DEF Lease!Next, Lease!Abandon
  <2>6. CASE Toggle
    <3>1. Holders = {} /\ Holders' = Holders
      BY <2>6 DEF Toggle, Active, Holders, IInv, HoldersPlaced
    <3>2. forward' \in {0, 1}
      BY <2>6, <2>1 DEF Toggle, TypeOK
    <3>3. Lease!Outside
      BY <3>1, <3>2 DEF Lease!Outside
    <3>4. QED
      BY <3>3 DEF Lease!Next
  <2>7. CASE UNCHANGED vars
    BY <2>7 DEF vars, Holders
  <2>8. QED
    BY <2>2, <2>3, <2>4, <2>5, <2>6, <2>7 DEF Next, Session, Create, Drop
<1>3. QED
  BY <1>1, <1>2, Invariance, PTL DEF Spec, ImplementsLease, Lease!Spec

(***************************************************************************)
(* What the devices leave on the host.                                     *)
(***************************************************************************)
\* The two counts of RulesCovered are natural numbers and follow a session that
\* joins or leaves either set.
LEMMA RuleCounts ==
  ASSUME NEW a, NEW k
  PROVE  /\ Cardinality(Owned(a, k)) \in Nat
         /\ Cardinality(Logged(a, k)) \in Nat
         /\ Cardinality({}) = 0
         /\ \A s \in Sessions \ Owned(a, k) :
              Cardinality(Owned(a, k) \cup {s}) = Cardinality(Owned(a, k)) + 1
         /\ \A s \in Owned(a, k) :
              Cardinality(Owned(a, k) \ {s}) = Cardinality(Owned(a, k)) - 1
         /\ \A s \in Sessions \ Logged(a, k) :
              Cardinality(Logged(a, k) \cup {s}) = Cardinality(Logged(a, k)) + 1
<1>1. Owned(a, k) \in SUBSET Sessions /\ Logged(a, k) \in SUBSET Sessions
  BY DEF Owned, Logged
<1>2. IsFiniteSet(Owned(a, k)) /\ IsFiniteSet(Logged(a, k))
  BY <1>1, SessionsAssumption, FS_Subset
<1>3. Cardinality(Owned(a, k)) \in Nat /\ Cardinality(Logged(a, k)) \in Nat
  BY <1>2, FS_CardinalityType
<1>4. \A s \in Sessions \ Owned(a, k) :
        Cardinality(Owned(a, k) \cup {s}) = Cardinality(Owned(a, k)) + 1
  BY <1>2, FS_AddElement
<1>5. \A s \in Owned(a, k) :
        Cardinality(Owned(a, k) \ {s}) = Cardinality(Owned(a, k)) - 1
  BY <1>2, FS_RemoveElement
<1>6. \A s \in Sessions \ Logged(a, k) :
        Cardinality(Logged(a, k) \cup {s}) = Cardinality(Logged(a, k)) + 1
  BY <1>2, FS_AddElement
<1>7. QED
  BY <1>3, <1>4, <1>5, <1>6, FS_EmptySet

\* add_nat_rule adds a rule the device does not own yet, and the third one makes the
\* device complete.
LEMMA NewRule ==
  ASSUME NEW s \in Sessions, stage[s] = "forwarding", RulesSoFar(s)
  PROVE  /\ NextRule(s) \in RuleKinds \ nat[s]
         /\ NextRule(s) = 3 => nat[s] \cup {NextRule(s)} = RuleKinds
<1>1. nat[s] \in {{}, {1}, {1, 2}}
  BY DEF RulesSoFar
<1>2. CASE nat[s] = {}
  BY <1>2, NextRuleIs DEF RuleKinds
<1>3. CASE nat[s] = {1}
  BY <1>3, NextRuleIs DEF RuleKinds
<1>4. CASE nat[s] = {1, 2}
  BY <1>4, NextRuleIs DEF RuleKinds
<1>5. QED
  BY <1>1, <1>2, <1>3, <1>4

\* A step of one session says nothing new about the others' cleanup.
LEMMA OthersPlaced ==
  ASSUME NEW s \in Sessions, \A t \in Sessions : CleanupPlaced(t),
         \A t \in Sessions \ {s} :
           /\ stage'[t] = stage[t] /\ nat'[t] = nat[t]
           /\ t \in links' => t \in links
           /\ \A k \in RuleKinds : <<t, k>> \in warned' => <<t, k>> \in warned,
         \A t \in Sessions : nat[t] \in SUBSET RuleKinds,
         CleanupPlaced(s)'
  PROVE  \A t \in Sessions : CleanupPlaced(t)'
<1>1. ASSUME NEW t \in Sessions \ {s} PROVE CleanupPlaced(t)'
  <2>1. CleanupPlaced(t) /\ nat[t] \in SUBSET RuleKinds
    OBVIOUS
  <2>2. /\ stage'[t] = stage[t] /\ nat'[t] = nat[t]
        /\ t \in links' => t \in links
        /\ \A k \in RuleKinds : <<t, k>> \in warned' => <<t, k>> \in warned
    OBVIOUS
  <2>3. QED
    BY <2>1, <2>2 DEF CleanupPlaced
<1>2. QED
  BY <1>1

\* What is left of a device is given by its stage.
LEMMA CleanupStep ==
  ASSUME TypeOK, \A s \in Sessions : RulesSoFar(s), \A s \in Sessions : CleanupPlaced(s),
         [Next]_vars
  PROVE  \A s \in Sessions : CleanupPlaced(s)'
<1> USE DEF Goto, kernel, static
<1>0. /\ stage \in [Sessions -> Stages] /\ nat \in [Sessions -> SUBSET RuleKinds]
      /\ \A t \in Sessions : nat[t] \in SUBSET RuleKinds
  BY DEF TypeOK
<1>1. ASSUME NEW s \in Sessions,
             \/ Allocate(s) \/ Refuse(s) \/ Open(s) \/ OpenFails(s)
             \/ Configure(s) \/ ConfigureFails(s)
      PROVE  \A t \in Sessions : CleanupPlaced(t)'
  <2>1. RulesSoFar(s) /\ CleanupPlaced(s)
    OBVIOUS
  <2>2. CleanupPlaced(s)'
    BY <1>0, <1>1, <2>1
       DEF Allocate, Refuse, Open, OpenFails, Configure, ConfigureFails,
           RulesSoFar, CleanupPlaced, Stages
  <2>3. \A t \in Sessions \ {s} :
          /\ stage'[t] = stage[t] /\ nat'[t] = nat[t]
          /\ t \in links' => t \in links
          /\ \A k \in RuleKinds : <<t, k>> \in warned' => <<t, k>> \in warned
    BY <1>0, <1>1 DEF Allocate, Refuse, Open, OpenFails, Configure, ConfigureFails
  <2>4. QED
    BY <1>0, <2>2, <2>3, OthersPlaced
<1>2. ASSUME NEW s \in Sessions,
             Ensure(s) \/ EnsureFails(s) \/ AddRuleFails(s) \/ Finish(s)
      PROVE  \A t \in Sessions : CleanupPlaced(t)'
  <2>1. CleanupPlaced(s)
    OBVIOUS
  <2>2. CleanupPlaced(s)'
    BY <1>0, <1>2, <2>1 DEF Ensure, EnsureFails, AddRuleFails, Finish, CleanupPlaced
  <2>3. \A t \in Sessions \ {s} :
          /\ stage'[t] = stage[t] /\ nat'[t] = nat[t]
          /\ t \in links' => t \in links
          /\ \A k \in RuleKinds : <<t, k>> \in warned' => <<t, k>> \in warned
    BY <1>0, <1>2 DEF Ensure, EnsureFails, AddRuleFails, Finish
  <2>4. QED
    BY <1>0, <2>2, <2>3, OthersPlaced
<1>3. ASSUME NEW s \in Sessions, AddRule(s)
      PROVE  \A t \in Sessions : CleanupPlaced(t)'
  <2>1. CleanupPlaced(s) /\ stage[s] = "forwarding" /\ RulesSoFar(s)
    BY <1>3 DEF AddRule
  <2>2. /\ NextRule(s) \in RuleKinds \ nat[s]
        /\ NextRule(s) = 3 => nat[s] \cup {NextRule(s)} = RuleKinds
    BY <2>1, NewRule
  <2>3. /\ nat'[s] = nat[s] \cup {NextRule(s)} /\ links' = links /\ warned' = warned
        /\ stage'[s] = IF NextRule(s) = 3 THEN "live" ELSE "forwarding"
    BY <1>0, <1>3 DEF AddRule
  <2>4. CleanupPlaced(s)'
    BY <1>0, <2>1, <2>2, <2>3 DEF CleanupPlaced
  <2>5. \A t \in Sessions \ {s} :
          /\ stage'[t] = stage[t] /\ nat'[t] = nat[t]
          /\ t \in links' => t \in links
          /\ \A k \in RuleKinds : <<t, k>> \in warned' => <<t, k>> \in warned
    BY <1>0, <1>3 DEF AddRule
  <2>6. QED
    BY <1>0, <2>4, <2>5, OthersPlaced
<1>4. ASSUME NEW s \in Sessions,
             DeleteRule(s) \/ DeleteRuleFails(s) \/ DeleteLink(s) \/ DeleteLinkFails(s)
      PROVE  \A t \in Sessions : CleanupPlaced(t)'
  <2>1. CleanupPlaced(s) /\ stage[s] = "dropping"
    BY <1>4 DEF DeleteRule, DeleteRuleFails, DeleteLink, DeleteLinkFails
  <2>2. CleanupPlaced(s)'
    BY <1>0, <1>4, <2>1
       DEF DeleteRule, DeleteRuleFails, DeleteLink, DeleteLinkFails, CleanupPlaced
  <2>3. \A t \in Sessions \ {s} :
          /\ stage'[t] = stage[t] /\ nat'[t] = nat[t]
          /\ t \in links' => t \in links
          /\ \A k \in RuleKinds : <<t, k>> \in warned' => <<t, k>> \in warned
    BY <1>0, <1>4 DEF DeleteRule, DeleteRuleFails, DeleteLink, DeleteLinkFails
  <2>4. QED
    BY <1>0, <2>2, <2>3, OthersPlaced
<1>5. ASSUME NEW s \in Sessions, Release(s) \/ ReleaseFails(s) \/ ReleaseNothing(s)
      PROVE  \A t \in Sessions : CleanupPlaced(t)'
  <2>1. CleanupPlaced(s) /\ stage[s] = "unlinked"
    BY <1>5 DEF Release, ReleaseFails, ReleaseNothing, Closed
  <2>2. CleanupPlaced(s)'
    BY <1>0, <1>5, <2>1 DEF Release, ReleaseFails, ReleaseNothing, Closed, CleanupPlaced
  <2>3. \A t \in Sessions \ {s} :
          /\ stage'[t] = stage[t] /\ nat'[t] = nat[t]
          /\ t \in links' => t \in links
          /\ \A k \in RuleKinds : <<t, k>> \in warned' => <<t, k>> \in warned
    BY <1>0, <1>5 DEF Release, ReleaseFails, ReleaseNothing, Closed
  <2>4. QED
    BY <1>0, <2>2, <2>3, OthersPlaced
<1>6. CASE Kill
  <2>1. ASSUME NEW t \in Sessions PROVE CleanupPlaced(t)'
    <3>1. CleanupPlaced(t)
      OBVIOUS
    <3>2. /\ stage'[t] = IF Active(t) THEN "closed" ELSE stage[t]
          /\ nat'[t] = {} /\ links' = {} /\ warned' = warned
      BY <1>6 DEF Kill
    <3>3. QED
      BY <3>1, <3>2 DEF CleanupPlaced, Active
  <2>2. QED
    BY <2>1
<1>7. CASE Toggle \/ UNCHANGED vars
  <2>1. stage' = stage /\ nat' = nat /\ links' = links /\ warned' = warned
    BY <1>7 DEF Toggle, vars
  <2>2. QED
    BY <2>1 DEF CleanupPlaced
<1>8. QED
  BY <1>1, <1>2, <1>3, <1>4, <1>5, <1>6, <1>7 DEF Next, Session, Create, Drop

\* While the devices, their addresses and the log of failures stay as they are, so do
\* the two counts.
LEMMA SameCounts ==
  ASSUME addr' = addr, nat' = nat, warned' = warned, NEW a, NEW k
  PROVE  Owned(a, k)' = Owned(a, k) /\ Logged(a, k)' = Logged(a, k)
BY DEF Owned, Logged

\* A session allocates its block before it owns or logs anything.
LEMMA AllocateCounts ==
  ASSUME TypeOK, NEW s \in Sessions, RulesSoFar(s), CleanupPlaced(s), Allocate(s),
         NEW a, NEW k \in RuleKinds
  PROVE  Owned(a, k)' = Owned(a, k) /\ Logged(a, k)' = Logged(a, k)
<1>1. nat[s] = {} /\ <<s, k>> \notin warned
  BY DEF Allocate, RulesSoFar, CleanupPlaced
<1>2. nat' = nat /\ warned' = warned /\ \A t \in Sessions \ {s} : addr'[t] = addr[t]
  BY DEF Allocate, TypeOK
<1>3. QED
  BY <1>1, <1>2 DEF Owned, Logged

\* The copies of each rule change together with the devices that own it.
LEMMA RulesStep ==
  ASSUME TypeOK, \A s \in Sessions : RulesSoFar(s), \A s \in Sessions : CleanupPlaced(s),
         RulesCovered, [Next]_vars
  PROVE  RulesCovered'
<1> DEFINE Total(a, k) == Cardinality(Owned(a, k)) + Cardinality(Logged(a, k))
<1>0. /\ rules \in [Addrs -> [RuleKinds -> Int]] /\ nat \in [Sessions -> SUBSET RuleKinds]
      /\ kills \in Nat
      /\ \A a, k : Cardinality(Owned(a, k)) \in Nat /\ Cardinality(Logged(a, k)) \in Nat
  BY RuleCounts DEF TypeOK
<1>a. ASSUME rules' = rules, kills' = kills,
             \A a \in Addrs, k \in RuleKinds :
               Owned(a, k)' = Owned(a, k) /\ Logged(a, k)' = Logged(a, k)
      PROVE  RulesCovered'
  BY <1>a DEF RulesCovered
<1>1. ASSUME NEW s \in Sessions, Allocate(s) PROVE RulesCovered'
  <2>1. rules' = rules /\ kills' = kills
    BY <1>1 DEF Allocate, kernel
  <2>2. \A a \in Addrs, k \in RuleKinds :
          Owned(a, k)' = Owned(a, k) /\ Logged(a, k)' = Logged(a, k)
    BY <1>1, AllocateCounts
  <2>3. QED
    BY <1>a, <2>1, <2>2
<1>2. ASSUME NEW s \in Sessions, AddRule(s) PROVE RulesCovered'
  <2> DEFINE b == addr[s]
             n == NextRule(s)
  <2>1. n \in RuleKinds \ nat[s]
    BY <1>2, NewRule DEF AddRule
  <2>2. /\ rules' = [rules EXCEPT ![b][n] = @ + 1]
        /\ nat' = [nat EXCEPT ![s] = @ \cup {n}]
        /\ addr' = addr /\ warned' = warned /\ kills' = kills
    BY <1>2 DEF AddRule
  <2>3. ASSUME NEW a \in Addrs, NEW k \in RuleKinds
        PROVE  /\ rules'[a][k] >= Total(a, k)'
               /\ kills' = 0 => rules'[a][k] = Total(a, k)'
    <3>1. Logged(a, k)' = Logged(a, k)
      BY <2>2 DEF Logged
    <3>2. CASE a = b /\ k = n
      <4>1. s \notin Owned(a, k) /\ Owned(a, k)' = Owned(a, k) \cup {s}
        BY <1>0, <2>1, <2>2, <3>2 DEF Owned
      <4>2. Cardinality(Owned(a, k)') = Cardinality(Owned(a, k)) + 1
        BY <4>1, RuleCounts
      <4>3. rules'[a][k] = rules[a][k] + 1 /\ rules[a][k] \in Int
        BY <1>0, <2>2, <3>2
      <4>4. Total(a, k) \in Nat /\ Total(a, k)' = Total(a, k) + 1
        BY <1>0, <3>1, <4>2
      <4>5. rules[a][k] >= Total(a, k) /\ (kills = 0 => rules[a][k] = Total(a, k))
        BY DEF RulesCovered
      <4>6. kills' = kills
        BY <2>2
      <4> HIDE DEF Total
      <4>7. QED
        BY <4>3, <4>4, <4>5, <4>6
    <3>3. CASE ~(a = b /\ k = n)
      <4>1. Owned(a, k)' = Owned(a, k)
        BY <1>0, <2>1, <2>2, <3>3 DEF Owned
      <4>2. rules'[a][k] = rules[a][k]
        BY <1>0, <2>2, <3>3
      <4>3. QED
        BY <2>2, <3>1, <4>1, <4>2 DEF RulesCovered
    <3>4. QED
      BY <3>2, <3>3
  <2>4. QED
    BY <2>3 DEF RulesCovered
<1>3. ASSUME NEW s \in Sessions, DeleteRule(s) PROVE RulesCovered'
  <2> DEFINE b == addr[s]
             n == FirstRule(s)
  <2>1. n \in nat[s]
    BY <1>0, <1>3, FirstRuleIs DEF DeleteRule
  <2>2. /\ rules' = [rules EXCEPT ![b][n] = @ - 1]
        /\ nat' = [nat EXCEPT ![s] = @ \ {n}]
        /\ addr' = addr /\ warned' = warned /\ kills' = kills
    BY <1>3 DEF DeleteRule
  <2>3. ASSUME NEW a \in Addrs, NEW k \in RuleKinds
        PROVE  /\ rules'[a][k] >= Total(a, k)'
               /\ kills' = 0 => rules'[a][k] = Total(a, k)'
    <3>1. Logged(a, k)' = Logged(a, k)
      BY <2>2 DEF Logged
    <3>2. CASE a = b /\ k = n
      <4>1. s \in Owned(a, k) /\ Owned(a, k)' = Owned(a, k) \ {s}
        BY <1>0, <2>1, <2>2, <3>2 DEF Owned
      <4>2. Cardinality(Owned(a, k)') = Cardinality(Owned(a, k)) - 1
        BY <4>1, RuleCounts
      <4>3. rules'[a][k] = rules[a][k] - 1 /\ rules[a][k] \in Int
        BY <1>0, <2>2, <3>2
      <4>4. Total(a, k) \in Nat /\ Total(a, k)' = Total(a, k) - 1
        BY <1>0, <3>1, <4>2
      <4>5. rules[a][k] >= Total(a, k) /\ (kills = 0 => rules[a][k] = Total(a, k))
        BY DEF RulesCovered
      <4>6. kills' = kills
        BY <2>2
      <4> HIDE DEF Total
      <4>7. QED
        BY <4>3, <4>4, <4>5, <4>6
    <3>3. CASE ~(a = b /\ k = n)
      <4>1. Owned(a, k)' = Owned(a, k)
        BY <1>0, <2>1, <2>2, <3>3 DEF Owned
      <4>2. rules'[a][k] = rules[a][k]
        BY <1>0, <2>2, <3>3
      <4>3. QED
        BY <2>2, <3>1, <4>1, <4>2 DEF RulesCovered
    <3>4. QED
      BY <3>2, <3>3
  <2>4. QED
    BY <2>3 DEF RulesCovered
<1>4. ASSUME NEW s \in Sessions, DeleteRuleFails(s) PROVE RulesCovered'
  <2> DEFINE b == addr[s]
             n == FirstRule(s)
  <2>1. n \in nat[s] /\ <<s, n>> \notin warned
    BY <1>0, <1>4, FirstRuleIs DEF DeleteRuleFails, CleanupPlaced
  <2>2. /\ rules' = rules /\ warned' = warned \cup {<<s, n>>}
        /\ nat' = [nat EXCEPT ![s] = @ \ {n}]
        /\ addr' = addr /\ kills' = kills
    BY <1>4 DEF DeleteRuleFails, kernel
  <2>3. ASSUME NEW a \in Addrs, NEW k \in RuleKinds
        PROVE  Total(a, k)' = Total(a, k)
    <3>1. CASE a = b /\ k = n
      <4>1. s \in Owned(a, k) /\ Owned(a, k)' = Owned(a, k) \ {s}
        BY <1>0, <2>1, <2>2, <3>1 DEF Owned
      <4>2. s \notin Logged(a, k) /\ Logged(a, k)' = Logged(a, k) \cup {s}
        BY <2>1, <2>2, <3>1 DEF Logged
      <4>3. Cardinality(Owned(a, k)') = Cardinality(Owned(a, k)) - 1
        BY <4>1, RuleCounts
      <4>4. Cardinality(Logged(a, k)') = Cardinality(Logged(a, k)) + 1
        BY <4>2, RuleCounts
      <4>5. QED
        BY <1>0, <4>3, <4>4
    <3>2. CASE ~(a = b /\ k = n)
      <4>1. Owned(a, k)' = Owned(a, k)
        BY <1>0, <2>1, <2>2, <3>2 DEF Owned
      <4>2. Logged(a, k)' = Logged(a, k)
        BY <2>2, <3>2 DEF Logged
      <4>3. QED
        BY <4>1, <4>2
    <3>3. QED
      BY <3>1, <3>2
  <2>4. QED
    BY <2>2, <2>3 DEF RulesCovered
<1>5. ASSUME NEW s \in Sessions,
             \/ Refuse(s) \/ Open(s) \/ OpenFails(s) \/ Configure(s) \/ ConfigureFails(s)
             \/ Ensure(s) \/ EnsureFails(s) \/ AddRuleFails(s) \/ Finish(s)
             \/ DeleteLink(s) \/ DeleteLinkFails(s)
      PROVE  RulesCovered'
  <2>1. rules' = rules /\ kills' = kills /\ addr' = addr /\ nat' = nat /\ warned' = warned
    BY <1>5 DEF Refuse, Open, OpenFails, Configure, ConfigureFails, Ensure, EnsureFails,
       AddRuleFails, Finish, DeleteLink, DeleteLinkFails, kernel
  <2>2. QED
    BY <1>a, <2>1, SameCounts
<1>6. ASSUME NEW s \in Sessions, Release(s) \/ ReleaseFails(s) \/ ReleaseNothing(s)
      PROVE  RulesCovered'
  <2>1. rules' = rules /\ kills' = kills /\ addr' = addr /\ nat' = nat
    BY <1>6 DEF Release, ReleaseFails, ReleaseNothing, Closed
  <2>2. \A t \in Sessions, k \in RuleKinds : <<t, k>> \in warned' <=> <<t, k>> \in warned
    BY <1>6 DEF Release, ReleaseFails, ReleaseNothing, ForwardFlag, RuleKinds
  <2>3. \A a \in Addrs, k \in RuleKinds :
          Owned(a, k)' = Owned(a, k) /\ Logged(a, k)' = Logged(a, k)
    BY <2>1, <2>2 DEF Owned, Logged
  <2>4. QED
    BY <1>a, <2>1, <2>3
<1>7. CASE Kill
  <2>1. rules' = rules /\ kills' = kills + 1 /\ addr' = addr /\ warned' = warned
        /\ \A t \in Sessions : nat'[t] = {}
    BY <1>7 DEF Kill
  <2>2. ASSUME NEW a \in Addrs, NEW k \in RuleKinds
        PROVE  Owned(a, k)' = {} /\ Logged(a, k)' = Logged(a, k)
    BY <2>1 DEF Owned, Logged
  <2>3. ASSUME NEW a \in Addrs, NEW k \in RuleKinds
        PROVE  rules'[a][k] >= Total(a, k)'
    <3>1. Total(a, k)' = 0 + Cardinality(Logged(a, k))
      BY <2>2, RuleCounts
    <3>2. rules'[a][k] = rules[a][k] /\ rules[a][k] >= Total(a, k)
      BY <2>1 DEF RulesCovered
    <3>3. QED
      BY <1>0, <3>1, <3>2
  <2>4. kills' # 0
    BY <1>0, <2>1
  <2>5. QED
    BY <2>3, <2>4 DEF RulesCovered
<1>8. CASE Toggle \/ UNCHANGED vars
  <2>1. rules' = rules /\ kills' = kills /\ addr' = addr /\ nat' = nat /\ warned' = warned
    BY <1>8 DEF Toggle, vars
  <2>2. QED
    BY <1>a, <2>1, SameCounts
<1>9. QED
  BY <1>1, <1>2, <1>3, <1>4, <1>5, <1>6, <1>7, <1>8 DEF Next, Session, Create, Drop

\* The flag is the host's own while nobody holds it, and a holder means the host had
\* it off.
LEMMA FlagStep ==
  ASSUME TypeOK, RefInv, FlagAccounted, [Next]_vars
  PROVE  FlagAccounted'
<1>0. /\ kills \in Nat /\ forward \in {0, 1} /\ orig \in {0, 1} /\ count \in Nat
      /\ managed \in [Sessions -> BOOLEAN]
  BY DEF TypeOK
<1>1. ASSUME NEW s \in Sessions, Ensure(s) PROVE FlagAccounted'
  <2>1. ~managed[s] /\ s \notin Holders
    BY <1>1 DEF Ensure, RefInv, HoldersPlaced, Holders
  <2>2. Holders' = IF Saved = 0 THEN Holders \cup {s} ELSE Holders
    BY <1>0, <1>1, <2>1 DEF Ensure, Holders
  <2>3. /\ kills' = kills /\ warned' = warned /\ found' = found
        /\ forward' = IF count = 0 THEN 1 ELSE forward
    BY <1>1 DEF Ensure
  <2>4. CASE count = 0
    <3>1. Holders = {}
      BY <2>4, HoldersCount DEF RefInv, RefcountExact, TypeOK
    <3>2. Saved = forward /\ forward' = 1
      BY <2>3, <2>4 DEF Saved
    <3>3. QED
      BY <1>0, <2>2, <2>3, <3>1, <3>2 DEF FlagAccounted
  <2>5. CASE count > 0
    <3>1. forward' = forward /\ Saved = orig
      BY <2>3, <2>5 DEF Saved
    <3>2. orig = 0 => Holders # {}
      BY <2>5, HoldersCount DEF RefInv, RefcountExact
    <3>3. QED
      BY <2>2, <2>3, <3>1, <3>2 DEF FlagAccounted
  <2>6. QED
    BY <1>0, <2>4, <2>5
<1>2. ASSUME NEW s \in Sessions, Release(s) PROVE FlagAccounted'
  <2>1. s \in Holders /\ orig = 0 /\ count = Cardinality(Holders)
    BY <1>0, <1>2 DEF Release, Holders, RefInv, RefcountExact
  <2>2. /\ Holders' = Holders \ {s} /\ kills' = kills /\ warned' = warned /\ found' = found
        /\ forward' = IF count = 1 /\ orig = 0 THEN 0 ELSE forward
    BY <1>0, <1>2 DEF Release, Closed, Holders
  <2>3. Holders' = {} => count = 1
    <3>1. Cardinality(Holders \ {s}) = count - 1
      BY <2>1, HoldersCount
    <3>2. Holders' = {} => count - 1 = 0
      BY <2>2, <3>1, FS_EmptySet
    <3>3. QED
      BY <1>0, <3>2
  <2>4. Holders # {}
    BY <2>1
  <2>5. QED
    BY <2>1, <2>2, <2>3, <2>4 DEF FlagAccounted
<1>3. ASSUME NEW s \in Sessions, ReleaseFails(s) \/ DeleteRuleFails(s) PROVE FlagAccounted'
  <2>1. warned' # {}
    BY <1>3 DEF ReleaseFails, DeleteRuleFails
  <2>2. QED
    BY <2>1 DEF FlagAccounted
<1>4. ASSUME NEW s \in Sessions, ReleaseNothing(s) PROVE FlagAccounted'
  <2>1. forward' = forward /\ found' = found /\ kills' = kills /\ warned' = warned
    BY <1>4 DEF ReleaseNothing, Closed
  <2>2. Holders' = Holders
    BY <1>0, <1>4 DEF ReleaseNothing, Closed, Holders
  <2>3. QED
    BY <2>1, <2>2 DEF FlagAccounted
<1>5. ASSUME NEW s \in Sessions,
             \/ Allocate(s) \/ Refuse(s) \/ Open(s) \/ OpenFails(s) \/ EnsureFails(s)
             \/ Configure(s) \/ ConfigureFails(s) \/ AddRule(s) \/ AddRuleFails(s)
             \/ Finish(s) \/ DeleteRule(s) \/ DeleteLink(s) \/ DeleteLinkFails(s)
      PROVE  FlagAccounted'
  <2>1. /\ forward' = forward /\ managed' = managed /\ found' = found
        /\ kills' = kills /\ warned' = warned
    BY <1>5 DEF Allocate, Refuse, Open, OpenFails, EnsureFails, Configure, ConfigureFails,
       AddRule, AddRuleFails, Finish, DeleteRule, DeleteLink, DeleteLinkFails, kernel
  <2>2. QED
    BY <2>1 DEF FlagAccounted, Holders
<1>6. CASE Kill
  <2>1. kills' # 0
    BY <1>0, <1>6 DEF Kill
  <2>2. QED
    BY <2>1 DEF FlagAccounted
<1>7. CASE Toggle
  <2>1. Holders = {} /\ Holders' = Holders /\ found' = forward'
    BY <1>7 DEF Toggle, Active, RefInv, HoldersPlaced, Holders
  <2>2. QED
    BY <2>1 DEF FlagAccounted
<1>8. CASE UNCHANGED vars
  BY <1>8 DEF vars, FlagAccounted, Holders
<1>9. QED
  BY <1>1, <1>2, <1>3, <1>4, <1>5, <1>6, <1>7, <1>8 DEF Next, Session, Create, Drop

\* HostInv is inductive relative to IInv: stages, rule counts and the flag each step
\* leaves on the host fit together.
THEOREM HostInvariance == Spec => []HostInv
<1>1. Init => HostInv
  <2> SUFFICES ASSUME Init PROVE HostInv
    OBVIOUS
  <2>1. \A s \in Sessions : CleanupPlaced(s)
    BY DEF Init, CleanupPlaced
  <2>2. RulesCovered
    <3>1. ASSUME NEW a \in Addrs, NEW k \in RuleKinds
          PROVE  rules[a][k] = 0 /\ Owned(a, k) = {} /\ Logged(a, k) = {}
      BY DEF Init, Owned, Logged
    <3>2. ASSUME NEW a \in Addrs, NEW k \in RuleKinds
          PROVE  /\ rules[a][k] >= Cardinality(Owned(a, k)) + Cardinality(Logged(a, k))
                 /\ rules[a][k] = Cardinality(Owned(a, k)) + Cardinality(Logged(a, k))
      <4>1. Cardinality(Owned(a, k)) = 0 /\ Cardinality(Logged(a, k)) = 0
        BY <3>1, FS_EmptySet
      <4>2. QED
        BY <3>1, <4>1
    <3>3. QED
      BY <3>2 DEF RulesCovered
  <2>3. Holders = {}
    BY DEF Init, Holders
  <2>4. FlagAccounted
    BY <2>3 DEF Init, FlagAccounted
  <2>5. QED
    BY <2>1, <2>2, <2>4 DEF HostInv
<1>2. IInv /\ HostInv /\ [Next]_vars => HostInv'
  <2> SUFFICES ASSUME IInv, HostInv, [Next]_vars PROVE HostInv'
    OBVIOUS
  <2>1. /\ TypeOK /\ RefInv /\ RulesCovered /\ FlagAccounted
        /\ \A s \in Sessions : RulesSoFar(s)
        /\ \A s \in Sessions : CleanupPlaced(s)
    BY DEF IInv, RefInv, HostInv
  <2>2. \A s \in Sessions : CleanupPlaced(s)'
    BY <2>1, CleanupStep
  <2>3. RulesCovered'
    BY <2>1, RulesStep
  <2>4. FlagAccounted'
    BY <2>1, FlagStep
  <2>5. QED
    BY <2>2, <2>3, <2>4 DEF HostInv
<1>3. QED
  BY <1>1, <1>2, Invariance, PTL DEF Spec

\* Until the process dies, the copies of each firewall rule are exactly those some
\* device still owns and those whose removal was logged as failed.
THEOREM RulesAlwaysAccounted == Spec => [](kills = 0 => RulesAccounted)
<1>1. HostInv => (kills = 0 => RulesAccounted)
  BY DEF HostInv, RulesCovered, RulesAccounted
<1>2. QED
  BY <1>1, HostInvariance, PTL

\* Until the process dies, the host is as it was found whenever no session is in
\* progress and no cleanup command failed.
THEOREM HostAlwaysRestored == Spec => [](kills = 0 => HostRestored)
<1>1. IInv /\ HostInv => (kills = 0 => HostRestored)
  <2> SUFFICES ASSUME IInv, HostInv, kills = 0, Quiet PROVE HostClean
    BY DEF HostRestored
  <2>1. \A s \in Sessions : CleanupPlaced(s) /\ RulesSoFar(s) /\ stage[s] \in {"idle", "closed"}
    BY DEF IInv, HostInv, Quiet, Active
  <2>2. forward = found
    <3>1. Holders = {}
      BY <2>1 DEF IInv, HoldersPlaced, Holders
    <3>2. QED
      BY <3>1 DEF HostInv, FlagAccounted, Quiet
  <2>3. links = {}
    <3>1. links \in SUBSET Sessions
      BY DEF IInv, TypeOK
    <3>2. QED
      BY <2>1, <3>1 DEF CleanupPlaced
  <2>4. ASSUME NEW a \in Addrs, NEW k \in RuleKinds
        PROVE  rules[a][k] = 0
    <3>1. \A s \in Sessions : nat[s] = {}
      BY <2>1 DEF CleanupPlaced, RulesSoFar
    <3>2. Owned(a, k) = {} /\ Logged(a, k) = {}
      BY <3>1 DEF Owned, Logged, Quiet
    <3>3. rules[a][k] = Cardinality({}) + Cardinality({})
      BY <3>2 DEF HostInv, RulesCovered
    <3>4. QED
      BY <3>3, FS_EmptySet
  <2>5. QED
    BY <2>2, <2>3, <2>4 DEF HostClean
<1>2. QED
  BY <1>1, Invariance, HostInvariance, PTL

\* The cursor never passes the end of the pool: allocate checks before it advances.
THEOREM CursorInPool == Spec => [](cursor <= Blocks)
<1> DEFINE InPool == cursor <= Blocks
<1>1. Init => InPool
  BY HostAssumption DEF Init
<1>2. IInv /\ InPool /\ [Next]_vars => InPool'
  <2> SUFFICES ASSUME IInv, InPool, [Next]_vars PROVE InPool'
    OBVIOUS
  <2>1. cursor \in Nat /\ Blocks \in Nat
    BY HostAssumption DEF IInv, TypeOK
  <2>2. ASSUME NEW s \in Sessions, Allocate(s) PROVE InPool'
    BY <2>1, <2>2 DEF Allocate
  <2>3. ASSUME NEW s \in Sessions, Refuse(s) \/ Create(s) \/ Finish(s) PROVE cursor' = cursor
    BY <2>3 DEF Refuse, Create, Finish, Open, OpenFails, Configure, ConfigureFails, Ensure,
       EnsureFails, AddRule, AddRuleFails
  <2>4. ASSUME NEW s \in Sessions, Drop(s) PROVE cursor' = cursor
    BY <2>4 DEF Drop, DeleteRule, DeleteRuleFails, DeleteLink, DeleteLinkFails, Release,
       ReleaseFails, ReleaseNothing, Closed
  <2>5. CASE Kill
    BY <2>1, <2>5 DEF Kill
  <2>6. CASE Toggle \/ UNCHANGED vars
    BY <2>6 DEF Toggle, vars
  <2>7. QED
    BY <2>2, <2>3, <2>4, <2>5, <2>6 DEF Next, Session
<1>3. QED
  BY <1>1, <1>2, Invariance, PTL DEF Spec

\* A tunnel in service has all three of its firewall rules, whatever the other tunnels
\* tear down and however often a process died before: no -D removes another's copy.
ServedByRules ==
  \A s \in Sessions : stage[s] = "live" =>
    \A k \in RuleKinds : addr[s] \in Addrs /\ rules[addr[s]][k] > 0

\* Deleting a rule takes away the caller's own copy, whoever else owns the same rule.
THEOREM RulesNeverTaken == Spec => []ServedByRules
<1>1. IInv /\ HostInv /\ cursor <= Blocks => ServedByRules
  <2> SUFFICES ASSUME IInv, HostInv, cursor <= Blocks, NEW s \in Sessions, stage[s] = "live",
                      NEW k \in RuleKinds
               PROVE  addr[s] \in Addrs /\ rules[addr[s]][k] > 0
    BY DEF ServedByRules
  <2>1. addr[s] \in Addrs
    <3>1. addr[s] \in Nat /\ cursor \in Nat /\ Blocks \in Nat /\ addr[s] < cursor
      BY HostAssumption DEF IInv, TypeOK, CursorAhead, Active
    <3>2. QED
      BY <3>1 DEF Addrs
  <2>2. s \in Owned(addr[s], k)
    BY DEF Owned, HostInv, CleanupPlaced
  <2>3. Cardinality(Owned(addr[s], k)) > 0
    <3>1. Cardinality(Owned(addr[s], k) \ {s}) = Cardinality(Owned(addr[s], k)) - 1
      BY <2>2, RuleCounts
    <3>2. Owned(addr[s], k) \in SUBSET Sessions
      BY DEF Owned
    <3>3. IsFiniteSet(Owned(addr[s], k) \ {s})
      BY <3>2, SessionsAssumption, FS_Subset
    <3>4. Cardinality(Owned(addr[s], k) \ {s}) \in Nat
      BY <3>3, FS_CardinalityType
    <3>5. QED
      BY <3>1, <3>4, RuleCounts
  <2>4. rules[addr[s]][k] \in Int
    BY <2>1 DEF IInv, TypeOK
  <2>5. QED
    BY <2>1, <2>3, <2>4, RuleCounts DEF HostInv, RulesCovered
<1>2. QED
  BY <1>1, Invariance, HostInvariance, CursorInPool, PTL

(***************************************************************************)
(* The address pool.                                                       *)
(***************************************************************************)
\* What a parsed IPv4 CIDR guarantees, with its first aligned address.
LEMMA NetFacts ==
  ASSUME NEW p \in Nets, p.family = "v4"
  PROVE  /\ p.network \in Nat /\ p.size \in Nat
         /\ p.network + p.size <= AddrSpace
         /\ AlignedNetwork(p) \in Nat /\ AlignedNetwork(p) < AddrSpace
         /\ AlignedNetwork(p) % 4 = 0
         /\ Capacity(p) \in Nat /\ 4 * Capacity(p) <= p.size
         /\ 4 * Capacity(p) + 4 > p.size
         /\ p.size >= 4 => 4 * Capacity(p) = p.size /\ AlignedNetwork(p) = p.network
<1>1. /\ p.network \in Nat /\ p.size \in Nat \ {0}
      /\ p.network + p.size <= AddrSpace
      /\ p.size \in {1, 2} \/ (p.size % 4 = 0 /\ p.network % 4 = 0)
      /\ AddrSpace \in Nat
  BY PoolAssumption, SpaceAssumption DEF Nets
<1>2. Capacity(p) = p.size \div 4
  BY DEF Capacity
<1>3. Capacity(p) \in Nat /\ 4 * Capacity(p) <= p.size /\ 4 * Capacity(p) + 4 > p.size
  <2>1. \A x \in Nat : /\ x \div 4 \in Nat
                       /\ 4 * (x \div 4) <= x
                       /\ 4 * (x \div 4) + 4 > x
    OBVIOUS
  <2>2. QED
    BY <1>1, <1>2, <2>1
<1>4. AlignedNetwork(p) \in Nat /\ AlignedNetwork(p) < AddrSpace /\ AlignedNetwork(p) % 4 = 0
  <2>1. \A x \in Nat : x - (x % 4) \in Nat /\ x - (x % 4) <= x /\ (x - (x % 4)) % 4 = 0
    OBVIOUS
  <2>2. PICK x \in Nat : x = p.network /\ x < AddrSpace
    BY <1>1
  <2>3. AlignedNetwork(p) = x - (x % 4)
    BY <2>2 DEF AlignedNetwork
  <2>4. QED
    BY <1>1, <2>1, <2>2, <2>3
<1>5. p.size >= 4 => 4 * Capacity(p) = p.size /\ AlignedNetwork(p) = p.network
  BY <1>1, <1>2 DEF AlignedNetwork
<1>6. QED
  BY <1>1, <1>3, <1>4, <1>5

\* IPv4 arithmetic wraps at most once while the cursor has not gone round the space.
LEMMA BaseWraps ==
  ASSUME NEW p \in Nets, p.family = "v4", NEW b \in Nat, 4 * b < AddrSpace
  PROVE  \/ Base4(p, b) = AlignedNetwork(p) + 4 * b /\ Base4(p, b) < AddrSpace
         \/ Base4(p, b) = AlignedNetwork(p) + 4 * b - AddrSpace
              /\ AlignedNetwork(p) + 4 * b >= AddrSpace
<1>1. AlignedNetwork(p) \in Nat /\ AlignedNetwork(p) < AddrSpace /\ AddrSpace \in Nat
  BY NetFacts, SpaceAssumption
<1>2. \A x \in Nat : x < AddrSpace => x % AddrSpace = x
  BY <1>1
<1>3. \A x \in Nat : AddrSpace <= x /\ x < AddrSpace + AddrSpace =>
                       x % AddrSpace = x - AddrSpace
  BY <1>1
<1>4. (b * 4) % AddrSpace = 4 * b
  <2>1. PICK x \in Nat : x = b * 4
    OBVIOUS
  <2>2. x < AddrSpace
    BY <1>1, <2>1
  <2>3. QED
    BY <1>2, <2>1, <2>2
<1>5. PICK x \in Nat : x = AlignedNetwork(p) + 4 * b
  BY <1>1
<1>6. x < AddrSpace + AddrSpace
  BY <1>1, <1>5
<1>7. Base4(p, b) = x % AddrSpace
  BY <1>4, <1>5 DEF Base4
<1>8. CASE x < AddrSpace
  BY <1>2, <1>5, <1>7, <1>8
<1>9. CASE x >= AddrSpace
  BY <1>1, <1>3, <1>5, <1>6, <1>7, <1>9
<1>10. QED
  BY <1>1, <1>8, <1>9

\* The base of a whole block of the pool, and of the block after the last one of a pool
\* that stops short of the top, does not wrap.
LEMMA BaseDoesNotWrap ==
  ASSUME NEW p \in Nets, p.family = "v4", p.size >= 4, NEW b \in Nat,
         p.network + 4 * b < AddrSpace
  PROVE  Base4(p, b) = p.network + 4 * b
<1>1. p.network \in Nat /\ AlignedNetwork(p) = p.network /\ AddrSpace \in Nat
  BY NetFacts, SpaceAssumption
<1>2. 4 * b < AddrSpace
  BY <1>1
<1>3. QED
  BY <1>1, <1>2, BaseWraps

\* An IPv6 pool of a /64 or more has at least one block.
LEMMA PowerOfTwo ==
  ASSUME NEW n \in Nat
  PROVE  2 ^ n \in Nat
<1>1. IsFiniteSet(1 .. n) /\ Cardinality(1 .. n) = n
  BY FS_Interval
<1>2. IsFiniteSet(SUBSET (1 .. n)) /\ Cardinality(SUBSET (1 .. n)) = 2 ^ n
  BY <1>1, FS_SUBSET
<1>3. Cardinality(SUBSET (1 .. n)) \in Nat
  BY <1>2, FS_CardinalityType
<1>4. QED
  BY <1>2, <1>3

LEMMA CapacityType ==
  ASSUME NEW p \in Nets
  PROVE  Capacity(p) \in Nat
<1>1. CASE p.family = "v4"
  BY <1>1, NetFacts
<1>2. CASE p.family = "v6"
  <2>1. p.prefix \in 0 .. 128
    BY <1>2, PoolAssumption DEF Nets
  <2>2. CASE Narrow(p)
    BY <1>2, <2>2 DEF Capacity
  <2>3. CASE ~Narrow(p)
    <3>1. 64 - p.prefix \in Nat
      BY <2>1, <2>3 DEF Narrow
    <3>2. QED
      BY <1>2, <2>3, <3>1, PowerOfTwo DEF Capacity
  <2>4. QED
    BY <2>2, <2>3
<1>3. QED
  BY <1>1, <1>2 DEF Nets

\* allocate refuses no whole block of the pool, and an ordinary pool ends with them.
LEMMA RefusesAtCapacity ==
  ASSUME NEW p \in Nets, NEW b \in Nat
  PROVE  /\ b < Capacity(p) => ~Refuses(p, b)
         /\ Ordinary(p) /\ b = Capacity(p) => Refuses(p, b)
<1>1. Capacity(p) \in Nat
  BY CapacityType
<1>2. CASE p.family = "v4"
  <2>1. /\ p.network \in Nat /\ p.size \in Nat /\ p.network + p.size <= AddrSpace
        /\ 4 * Capacity(p) <= p.size
        /\ p.size >= 4 => 4 * Capacity(p) = p.size
    BY <1>2, NetFacts
  <2>2. Refuses(p, b) <=> Base4(p, b) + 3 > p.network + p.size - 1
    BY <1>2 DEF Refuses, Exhausted4, Broadcast
  <2>3. ASSUME b < Capacity(p) PROVE ~Refuses(p, b)
    <3>1. p.size >= 4 /\ 4 * b + 4 <= p.size /\ p.network + 4 * b < AddrSpace
      BY <1>1, <2>1, <2>3, SpaceAssumption
    <3>2. Base4(p, b) = p.network + 4 * b
      BY <1>2, <3>1, BaseDoesNotWrap
    <3>3. QED
      BY <2>1, <2>2, <3>1, <3>2
  <2>4. ASSUME Ordinary(p), b = Capacity(p) PROVE Refuses(p, b)
    <3>1. p.size >= 4 /\ p.network + p.size < AddrSpace
      BY <1>2, <2>4 DEF Ordinary
    <3>2. 4 * b = p.size
      BY <2>1, <2>4, <3>1
    <3>3. Base4(p, b) = p.network + 4 * b
      BY <1>2, <3>1, <3>2, BaseDoesNotWrap
    <3>4. QED
      BY <2>1, <2>2, <3>2, <3>3
  <2>5. QED
    BY <2>3, <2>4
<1>3. CASE p.family = "v6"
  <2>1. CASE Narrow(p)
    BY <1>1, <1>3, <2>1 DEF Capacity, Refuses
  <2>2. CASE ~Narrow(p)
    <3>1. Capacity(p) = 2 ^ (64 - p.prefix)
      BY <1>3, <2>2 DEF Capacity
    <3>2. Refuses(p, b) <=> b >= Capacity(p)
      BY <1>3, <2>2, <3>1 DEF Refuses, Exhausted6
    <3>3. QED
      BY <1>1, <3>2
  <2>3. QED
    BY <2>1, <2>2
<1>4. QED
  BY <1>2, <1>3 DEF Nets

\* The two addresses of a whole block lie in the CIDR.
LEMMA BlockInside ==
  ASSUME NEW p \in Nets, NEW b \in Nat, b < Capacity(p)
  PROVE  \A a \in Addresses(Pair(p, b)) : Contains(p, a)
<1>1. Capacity(p) \in Nat
  BY CapacityType
<1>2. CASE p.family = "v4"
  <2>1. /\ p.network \in Nat /\ p.size \in Nat /\ p.network + p.size <= AddrSpace
        /\ 4 * Capacity(p) <= p.size
    BY <1>2, NetFacts
  <2>2. p.size >= 4 /\ 4 * b + 4 <= p.size /\ p.network + 4 * b < AddrSpace
    BY <1>1, <2>1, SpaceAssumption
  <2>3. Base4(p, b) = p.network + 4 * b
    BY <1>2, <2>2, BaseDoesNotWrap
  <2>4. Addresses(Pair(p, b)) = {p.network + 4 * b + 1, p.network + 4 * b + 2}
    BY <1>2, <2>3 DEF Pair, Addresses
  <2>5. \A a \in Addresses(Pair(p, b)) : a \in p.network .. p.network + p.size - 1
    BY <2>1, <2>2, <2>4
  <2>6. QED
    BY <1>2, <2>5 DEF Contains, Broadcast
<1>3. CASE p.family = "v6"
  <2>1. p.network \in Nat /\ p.family # "v4"
    BY <1>3, PoolAssumption DEF Nets
  <2>2. \A a \in Addresses(Pair(p, b)) : a[1] = p.network + b
    BY <2>1 DEF Pair, Addresses
  <2>3. QED
    BY <1>1, <2>1, <2>2 DEF Contains
<1>4. QED
  BY <1>2, <1>3 DEF Nets

\* The lease of a block carries its number.
LEMMA PairBlock ==
  ASSUME NEW p \in Nets, NEW b
  PROVE  Pair(p, b).block = b
BY DEF Pair

\* Two blocks have no address in common and a block has two addresses, on every pool,
\* until the cursor has gone round the address space.
LEMMA BlocksApart ==
  ASSUME NEW p \in Nets, NEW b \in Nat, NEW c \in Nat,
         p.family = "v4" => b < AddrSpace \div 4 /\ c < AddrSpace \div 4
  PROVE  /\ Pair(p, b).proxy # Pair(p, b).client
         /\ b # c => Addresses(Pair(p, b)) \cap Addresses(Pair(p, c)) = {}
<1>1. CASE p.family = "v4"
  <2>1. PICK n \in Nat : AddrSpace = 4 * n
    <3>1. AddrSpace \div 4 \in Nat /\ AddrSpace = 4 * (AddrSpace \div 4)
      BY SpaceAssumption
    <3>2. QED
      BY <3>1
  <2>2. PICK k \in Nat : AlignedNetwork(p) = 4 * k
    <3>1. AlignedNetwork(p) \in Nat /\ AlignedNetwork(p) % 4 = 0
      BY <1>1, NetFacts
    <3>2. AlignedNetwork(p) \div 4 \in Nat /\ AlignedNetwork(p) = 4 * (AlignedNetwork(p) \div 4)
      BY <3>1
    <3>3. QED
      BY <3>2
  <2>3. b < n /\ c < n
    BY <1>1, <2>1
  <2>4. PICK x \in Int : Base4(p, b) = 4 * x /\ (x = k + b \/ x = k + b - n)
    <3>1. Base4(p, b) = 4 * (k + b) \/ Base4(p, b) = 4 * (k + b - n)
      BY <1>1, <2>1, <2>2, <2>3, BaseWraps
    <3>2. k + b \in Int /\ k + b - n \in Int
      OBVIOUS
    <3>3. QED
      BY <3>1, <3>2, Zenon
  <2>5. PICK y \in Int : Base4(p, c) = 4 * y /\ (y = k + c \/ y = k + c - n)
    <3>1. Base4(p, c) = 4 * (k + c) \/ Base4(p, c) = 4 * (k + c - n)
      BY <1>1, <2>1, <2>2, <2>3, BaseWraps
    <3>2. k + c \in Int /\ k + c - n \in Int
      OBVIOUS
    <3>3. QED
      BY <3>1, <3>2, Zenon
  <2>6. b # c => x # y
    BY <2>3, <2>4, <2>5
  <2>7. /\ Pair(p, b).proxy = 4 * x + 1 /\ Pair(p, b).client = 4 * x + 2
        /\ Pair(p, c).proxy = 4 * y + 1 /\ Pair(p, c).client = 4 * y + 2
    BY <1>1, <2>4, <2>5 DEF Pair
  <2>8. x # y => {4 * x + 1, 4 * x + 2} \cap {4 * y + 1, 4 * y + 2} = {}
    OBVIOUS
  <2>9. QED
    BY <2>6, <2>7, <2>8 DEF Addresses
<1>2. CASE p.family = "v6"
  <2>1. p.network \in Nat /\ p.family # "v4"
    BY <1>2, PoolAssumption DEF Nets
  <2>2. /\ Addresses(Pair(p, b)) = {<<p.network + b, 1>>, <<p.network + b, 2>>}
        /\ Pair(p, b).proxy = <<p.network + b, 1>>
        /\ Pair(p, b).client = <<p.network + b, 2>>
    BY <2>1 DEF Pair, Addresses
  <2>3. Addresses(Pair(p, c)) = {<<p.network + c, 1>>, <<p.network + c, 2>>}
    BY <2>1 DEF Pair, Addresses
  <2>4. \A a \in Addresses(Pair(p, b)) : a[1] = p.network + b
    BY <2>2
  <2>5. \A a \in Addresses(Pair(p, c)) : a[1] = p.network + c
    BY <2>3
  <2>6. b # c => p.network + b # p.network + c
    BY <2>1
  <2>7. QED
    BY <2>2, <2>4, <2>5, <2>6
<1>3. QED
  BY <1>1, <1>2 DEF Nets

\* PoolInv is inductive, whatever the pool: the leases are those of the blocks below the
\* cursor.
THEOREM PoolInvariance == PoolSpec => []PoolInv
<1>1. PoolInit => PoolInv
  <2> SUFFICES ASSUME PoolInit PROVE PoolInv
    OBVIOUS
  <2>1. pool \in Nets /\ Capacity(pool) \in Nat
    BY CapacityType DEF PoolInit
  <2>2. blocks = 0 /\ leases = {} /\ refused = FALSE
    BY DEF PoolInit
  <2>3. {Pair(pool, b) : b \in 0 .. blocks - 1} = {}
    BY <2>2
  <2>4. ExactCapacity
    BY <2>1, <2>2, FS_EmptySet DEF ExactCapacity
  <2>5. QED
    BY <2>1, <2>2, <2>3, <2>4, FS_EmptySet DEF PoolInv
<1>2. PoolInv /\ [PoolNext]_poolVars => PoolInv'
  <2> SUFFICES ASSUME PoolInv, [PoolNext]_poolVars PROVE PoolInv'
    OBVIOUS
  <2>1. /\ pool \in Nets /\ Capacity(pool) \in Nat /\ blocks \in Nat
        /\ blocks < Capacity(pool) => ~Refuses(pool, blocks)
        /\ Ordinary(pool) /\ blocks = Capacity(pool) => Refuses(pool, blocks)
    BY CapacityType, RefusesAtCapacity DEF PoolInv
  <2>2. CASE PoolAllocate
    <3>1. /\ blocks' = blocks + 1 /\ pool' = pool /\ refused' = refused
          /\ leases' = leases \cup {Pair(pool, blocks)}
          /\ ~Refuses(pool, blocks)
      BY <2>2 DEF PoolAllocate
    <3>2. leases' = {Pair(pool, b) : b \in 0 .. blocks}
      <4>1. 0 .. blocks = (0 .. blocks - 1) \cup {blocks}
        BY <2>1
      <4>2. QED
        BY <3>1, <4>1 DEF PoolInv
    <3>3. Pair(pool, blocks) \notin leases
      <4>1. \A b \in 0 .. blocks - 1 : b # blocks
        BY <2>1
      <4>2. Pair(pool, blocks).block = blocks /\ \A b \in 0 .. blocks - 1 : Pair(pool, b).block = b
        BY <2>1, PairBlock
      <4>3. QED
        BY <4>1, <4>2 DEF PoolInv
    <3>4. Cardinality(leases') = blocks + 1
      <4>1. IsFiniteSet(leases) /\ Cardinality(leases) = blocks
        BY DEF PoolInv, ExactCapacity
      <4>2. QED
        BY <3>1, <3>3, <4>1, FS_AddElement
    <3>5. IsFiniteSet(leases')
      BY <3>1, FS_AddElement DEF PoolInv
    <3>6. refused' => blocks' >= Capacity(pool)
      BY <2>1, <3>1 DEF PoolInv, ExactCapacity
    <3>7. Ordinary(pool) => blocks' <= Capacity(pool)
      BY <2>1, <3>1 DEF PoolInv, ExactCapacity
    <3>8. ExactCapacity'
      BY <3>1, <3>4, <3>6, <3>7 DEF ExactCapacity
    <3>9. QED
      BY <2>1, <3>1, <3>2, <3>5, <3>8 DEF PoolInv
  <2>3. CASE PoolRefuse
    <3>1. /\ pool' = pool /\ blocks' = blocks /\ leases' = leases
          /\ blocks >= Capacity(pool)
      BY <2>1, <2>3 DEF PoolRefuse
    <3>2. QED
      BY <2>1, <3>1 DEF PoolInv, ExactCapacity
  <2>4. CASE UNCHANGED poolVars
    BY <2>4 DEF poolVars, PoolInv, ExactCapacity
  <2>5. QED
    BY <2>2, <2>3, <2>4 DEF PoolNext
<1>3. QED
  BY <1>1, <1>2, PTL DEF PoolSpec

\* Every address handed out of an ordinary pool, and every address of a whole block of
\* any other, belongs to the CIDR of --ip-pool.
THEOREM PoolInside == PoolSpec => []InsidePool
<1>1. PoolInv => InsidePool
  <2> SUFFICES ASSUME PoolInv, NEW l \in leases, Ordinary(pool) \/ l.block < Capacity(pool)
               PROVE  \A a \in Addresses(l) : Contains(pool, a)
    BY DEF InsidePool
  <2>1. PICK b \in 0 .. blocks - 1 : l = Pair(pool, b)
    BY DEF PoolInv
  <2>2. /\ pool \in Nets /\ Capacity(pool) \in Nat /\ b \in Nat /\ b < blocks
        /\ l.block = b
    BY <2>1, CapacityType, PairBlock DEF PoolInv
  <2>3. b < Capacity(pool)
    BY <2>2 DEF PoolInv, ExactCapacity
  <2>4. QED
    BY <2>1, <2>2, <2>3, BlockInside
<1>2. QED
  BY <1>1, PoolInvariance, PTL

\* No address is handed out twice, and the two ends of a session differ, on every pool:
\* past its end and through the wrap of the 32-bit arithmetic too.
THEOREM PoolDisjoint == PoolSpec => []LeasesDisjoint
<1>1. PoolInv => LeasesDisjoint
  <2> SUFFICES ASSUME PoolInv, pool.family = "v4" => blocks <= AddrSpace \div 4,
                      NEW l \in leases, NEW m \in leases
               PROVE  /\ l.block # m.block => Addresses(l) \cap Addresses(m) = {}
                      /\ l.proxy # l.client
    BY DEF LeasesDisjoint
  <2>1. PICK b \in 0 .. blocks - 1 : l = Pair(pool, b)
    BY DEF PoolInv
  <2>2. PICK c \in 0 .. blocks - 1 : m = Pair(pool, c)
    BY DEF PoolInv
  <2>3. pool \in Nets /\ blocks \in Nat
    BY DEF PoolInv
  <2>4. /\ b \in Nat /\ c \in Nat
        /\ pool.family = "v4" => b < AddrSpace \div 4 /\ c < AddrSpace \div 4
    BY <2>3, SpaceAssumption
  <2>5. l.block = b /\ m.block = c
    BY <2>1, <2>2, <2>3, PairBlock
  <2>6. QED
    BY <2>1, <2>2, <2>3, <2>4, <2>5, BlocksApart
<1>2. QED
  BY <1>1, PoolInvariance, PTL

\* allocate refuses only when no whole block is left, whatever the pool, and an ordinary
\* pool gives no more than it has.
THEOREM PoolExact == PoolSpec => []ExactCapacity
<1>1. PoolInv => ExactCapacity
  BY DEF PoolInv
<1>2. QED
  BY <1>1, PoolInvariance, PTL

(***************************************************************************)
(* The pool and the tunnels together.                                      *)
(***************************************************************************)
\* The tunnels' address ranges, not only their block numbers, are disjoint: the rules
\* of one tunnel (-s and -d client) match no packet of another.
RangesDistinct(p) ==
  \A s, t \in Sessions : s # t /\ Active(s) /\ Active(t) =>
    Addresses(Pair(p, addr[s])) \cap Addresses(Pair(p, addr[t])) = {}

\* Tunnels that are up together never have an IP address in common, also after a death
\* of the process has put the cursor of the pool back to its start, on every pool until
\* the cursor has gone round the whole address space.
THEOREM ClientsApart ==
  ASSUME NEW p \in Nets, p.family = "v4" => Blocks <= AddrSpace \div 4
  PROVE  Spec => []RangesDistinct(p)
<1>1. IInv /\ cursor <= Blocks => RangesDistinct(p)
  <2> SUFFICES ASSUME IInv, cursor <= Blocks, NEW s \in Sessions, NEW t \in Sessions,
                      s # t, Active(s), Active(t)
               PROVE  Addresses(Pair(p, addr[s])) \cap Addresses(Pair(p, addr[t])) = {}
    BY DEF RangesDistinct
  <2>1. addr[s] # addr[t]
    BY DEF IInv, AddressesDistinct
  <2>2. addr[s] \in Nat /\ addr[t] \in Nat /\ cursor \in Nat /\ addr[s] < cursor /\ addr[t] < cursor
    BY DEF IInv, TypeOK, CursorAhead
  <2>3. p.family = "v4" => addr[s] < AddrSpace \div 4 /\ addr[t] < AddrSpace \div 4
    BY <2>2, HostAssumption, SpaceAssumption
  <2>4. QED
    BY <2>1, <2>2, <2>3, BlocksApart
<1>2. QED
  BY <1>1, Invariance, CursorInPool, PTL
=============================================================================
