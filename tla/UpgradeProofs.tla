--------------------------- MODULE UpgradeProofs ---------------------------
(***************************************************************************)
(* Proofs about Upgrade: is_newer_version is a strict order, and therefore *)
(* no sequence of releases, withdrawals, failures and deaths leads back to *)
(* a version that was left.                                                *)
(***************************************************************************)
EXTENDS Upgrade, TLAPS

Version == [main : Seq(Nat), pre : Nat]

\* The code compares the parts one by one up to the first that differs.
Beyond(v, w) == \E i \in Nat \ {0} :
  /\ Part(w, i) > Part(v, i)
  /\ \A j \in 1 .. i - 1 : Part(w, j) = Part(v, j)

Level(v, w) == \A i \in Nat \ {0} : Part(v, i) = Part(w, i)

\* Every part of a version is a number, whether it is written or missing (upgrade.rs:84-85).
LEMMA PartNat ==
  ASSUME NEW v \in Version, NEW i \in Nat \ {0}
  PROVE  Part(v, i) \in Nat
  <1>1. CASE i <= Len(v.main)
    <2>1. v.main \in Seq(Nat) BY DEF Version
    <2>2. i \in 1 .. Len(v.main) BY <1>1, <2>1
    <2> QED BY <1>1, <2>1, <2>2 DEF Part
  <1>2. CASE ~(i <= Len(v.main))
    BY <1>2 DEF Part
  <1> QED BY <1>1, <1>2

\* Parts past the longer of the two versions do not matter (upgrade.rs:83).
LEMMA NewerUnbounded ==
  ASSUME NEW v \in Version, NEW w \in Version
  PROVE  Newer(v, w) <=>
           \/ Beyond(v, w)
           \/ Level(v, w) /\ v.pre # 0 /\ (w.pre = 0 \/ w.pre > v.pre)
  <1> DEFINE lv == Len(v.main)
             lw == Len(w.main)
             max == IF lv > lw THEN lv ELSE lw
  <1>1. lv \in Nat /\ lw \in Nat
    BY DEF Version
  <1>2. Parts(v, w) = 1 .. max
    BY DEF Parts
  <1>3. max \in Nat /\ max >= lv /\ max >= lw
    BY <1>1
  <1>4. \A i \in Nat \ {0} : i > max => Part(v, i) = 0 /\ Part(w, i) = 0
    BY <1>1, <1>3 DEF Part
  <1> HIDE DEF lv, lw, max
  <1>5. SameMain(v, w) <=> Level(v, w)
    BY <1>2, <1>3, <1>4 DEF SameMain, Level
  <1>6. Beyond(v, w) <=>
          \E i \in Parts(v, w) :
            /\ Part(w, i) > Part(v, i)
            /\ \A j \in 1 .. i - 1 : Part(w, j) = Part(v, j)
    BY <1>2, <1>3, <1>4 DEF Beyond
  <1> QED BY <1>5, <1>6 DEF Newer

\* No version is newer than itself: an installed release is not installed again.
LEMMA NewerIrreflexive ==
  ASSUME NEW v \in Version
  PROVE  ~Newer(v, v)
  <1>1. \A i \in Nat \ {0} : Part(v, i) \in Nat
    BY PartNat
  <1>2. v.pre \in Nat
    BY DEF Version
  <1>3. ~Beyond(v, v)
    BY <1>1 DEF Beyond
  <1> QED BY <1>2, <1>3, NewerUnbounded

\* What is newer than a newer version is newer (upgrade.rs:76-103).
LEMMA NewerTransitive ==
  ASSUME NEW u \in Version, NEW v \in Version, NEW w \in Version,
         Newer(u, v), Newer(v, w)
  PROVE  Newer(u, w)
  <1>1. /\ \A i \in Nat \ {0} : Part(u, i) \in Nat /\ Part(v, i) \in Nat /\ Part(w, i) \in Nat
        /\ u.pre \in Nat /\ v.pre \in Nat /\ w.pre \in Nat
    BY PartNat DEF Version
  <1>2. CASE Beyond(u, v) /\ Beyond(v, w)
    <2>1. PICK i \in Nat \ {0} :
             /\ Part(v, i) > Part(u, i)
             /\ \A k \in 1 .. i - 1 : Part(v, k) = Part(u, k)
      BY <1>2 DEF Beyond
    <2>2. PICK j \in Nat \ {0} :
             /\ Part(w, j) > Part(v, j)
             /\ \A k \in 1 .. j - 1 : Part(w, k) = Part(v, k)
      BY <1>2 DEF Beyond
    <2>3. CASE i <= j
      <3>1. Part(w, i) > Part(u, i)
        <4>1. CASE i = j BY <4>1, <2>1, <2>2, <1>1
        <4>2. CASE i < j
          <5>1. i \in 1 .. j - 1 BY <4>2
          <5> QED BY <5>1, <2>1, <2>2
        <4> QED BY <2>3, <4>1, <4>2
      <3>2. \A k \in 1 .. i - 1 : Part(w, k) = Part(u, k)
        <4>1. \A k \in 1 .. i - 1 : k \in 1 .. j - 1 BY <2>3
        <4> QED BY <4>1, <2>1, <2>2
      <3>3. Beyond(u, w) BY <3>1, <3>2 DEF Beyond
      <3> QED BY <3>3, NewerUnbounded
    <2>4. CASE j < i
      <3>1. j \in 1 .. i - 1 BY <2>4
      <3>2. Part(w, j) > Part(u, j) BY <3>1, <2>1, <2>2
      <3>3. \A k \in 1 .. j - 1 : k \in 1 .. i - 1 BY <2>4
      <3>4. \A k \in 1 .. j - 1 : Part(w, k) = Part(u, k) BY <3>3, <2>1, <2>2
      <3>5. Beyond(u, w) BY <3>2, <3>4 DEF Beyond
      <3> QED BY <3>5, NewerUnbounded
    <2> QED BY <2>3, <2>4
  <1>3. CASE Beyond(u, v) /\ Level(v, w)
    <2>1. Beyond(u, w) BY <1>3 DEF Beyond, Level
    <2> QED BY <2>1, NewerUnbounded
  <1>4. CASE Level(u, v) /\ Beyond(v, w)
    <2>1. Beyond(u, w) BY <1>4 DEF Beyond, Level
    <2> QED BY <2>1, NewerUnbounded
  <1>5. CASE ~Beyond(u, v) /\ ~Beyond(v, w)
    <2>1. /\ Level(u, v) /\ u.pre # 0 /\ (v.pre = 0 \/ v.pre > u.pre)
          /\ Level(v, w) /\ v.pre # 0 /\ (w.pre = 0 \/ w.pre > v.pre)
      BY <1>5, NewerUnbounded
    <2>2. Level(u, w) BY <2>1 DEF Level
    <2>3. u.pre # 0 /\ (w.pre = 0 \/ w.pre > u.pre) BY <2>1, <1>1
    <2> QED BY <2>2, <2>3, NewerUnbounded
  <1>6. (Beyond(u, v) \/ Level(u, v)) /\ (Beyond(v, w) \/ Level(v, w))
    BY NewerUnbounded
  <1> QED BY <1>2, <1>3, <1>4, <1>5, <1>6

(***************************************************************************)
(* The inductive invariant.  NeverBack is not inductive: that a new        *)
(* version is not among those left behind follows from all of them being   *)
(* older, which needs the binary on disk to be no older than the process.  *)
(***************************************************************************)
Holding == phase \in {"temp", "kept"}

RanOlder == \A r \in ran : Newer(r, running)

TargetNewer == phase \in {"fetched", "temp", "kept"} => Newer(running, target)

TempHeld == Holding => temps >= 1

\* systemd is asked for a restart only by a process that is about to exit.
JobExits == job => phase \in {"exiting", "down"}

UpgradeInv ==
  /\ TypeOK
  /\ RanOlder
  /\ TargetNewer
  /\ NeverDowngrade
  /\ TempHeld
  /\ JobExits
  /\ TempsBounded

\* The loop, the manager and the world start in the invariant.
LEMMA UpgradeInit == Init => UpgradeInv
  <1> SUFFICES ASSUME Init PROVE UpgradeInv
    OBVIOUS
  <1> USE UpgradeAssumption DEF Init
  <1>1. TypeOK
    BY DEF TypeOK, Phases
  <1>2. RanOlder /\ TargetNewer /\ NeverDowngrade
    BY DEF RanOlder, TargetNewer, NeverDowngrade
  <1>3. TempHeld /\ JobExits /\ TempsBounded
    BY DEF TempHeld, JobExits, TempsBounded, Holding
  <1> QED BY <1>1, <1>2, <1>3 DEF UpgradeInv

\* Every version that can be installed is one the order is about.
LEMMA VersionsOrdered == Versions \subseteq Version
  BY UpgradeAssumption DEF Version

\* A start runs what is on disk: what ran before stays older than what runs now.
LEMMA StartKeeps ==
  ASSUME UpgradeInv, StartProcess, phase = "down", job' = FALSE
  PROVE  UpgradeInv'
  <1> USE DEF UpgradeInv, StartProcess, external
  <1>1. TypeOK'
    BY DEF TypeOK, Phases
  <1>2. RanOlder'
    <2> SUFFICES ASSUME NEW r \in ran' PROVE Newer(r, disk)
      BY DEF RanOlder
    <2>1. /\ running \in Version /\ disk \in Version
          /\ ran \subseteq Version
      BY VersionsOrdered DEF TypeOK
    <2>2. CASE disk = running
      BY <2>2 DEF RanOlder
    <2>3. CASE disk # running
      <3>1. Newer(running, disk) BY <2>3 DEF NeverDowngrade
      <3>2. CASE r = running BY <3>1, <3>2
      <3>3. CASE r \in ran
        <4>1. Newer(r, running) BY <3>3 DEF RanOlder
        <4>2. r \in Version BY <3>3, <2>1
        <4> HIDE DEF UpgradeInv, StartProcess
        <4> QED BY <2>1, <3>1, <4>1, <4>2, NewerTransitive
      <3> QED BY <2>3, <3>2, <3>3
    <2> QED BY <2>2, <2>3
  <1>3. TargetNewer' /\ NeverDowngrade' /\ TempHeld' /\ JobExits'
    BY DEF TargetNewer, NeverDowngrade, TempHeld, Holding, JobExits
  <1>4. TempsBounded'
    BY DEF TempsBounded
  <1> QED BY <1>1, <1>2, <1>3, <1>4

\* Every step of the loop, the manager and the world preserves the invariant.
LEMMA UpgradeNext == UpgradeInv /\ [Next]_vars => UpgradeInv'
  <1> SUFFICES ASSUME UpgradeInv, [Next]_vars PROVE UpgradeInv'
    OBVIOUS
  <1>1. CASE Fetch
    <2> USE <1>1 DEF Fetch, UpgradeInv, external
    <2>1. TypeOK'
      BY DEF TypeOK, TempHeld, Holding, Phases
    <2>2. RanOlder'
      BY DEF RanOlder, TypeOK
    <2>3. TargetNewer'
      BY DEF TargetNewer
    <2>4. NeverDowngrade'
      BY DEF NeverDowngrade, TargetNewer
    <2>5. TempHeld'
      BY DEF TempHeld, Holding, TypeOK
    <2>6. JobExits'
      BY DEF JobExits
    <2>7. TempsBounded'
      BY DEF JobExits, TempsBounded, TempHeld, Holding, TypeOK
    <2> QED BY <2>1, <2>2, <2>3, <2>4, <2>5, <2>6, <2>7
  <1>2. CASE CreateTemp
    <2> USE <1>2 DEF CreateTemp, UpgradeInv, external
    <2>1. TypeOK'
      BY DEF TypeOK, TempHeld, Holding, Phases
    <2>2. RanOlder'
      BY DEF RanOlder, TypeOK
    <2>3. TargetNewer'
      BY DEF TargetNewer
    <2>4. NeverDowngrade'
      BY DEF NeverDowngrade, TargetNewer
    <2>5. TempHeld'
      BY DEF TempHeld, Holding, TypeOK
    <2>6. JobExits'
      BY DEF JobExits
    <2>7. TempsBounded'
      BY DEF JobExits, TempsBounded, TempHeld, Holding, TypeOK
    <2> QED BY <2>1, <2>2, <2>3, <2>4, <2>5, <2>6, <2>7
  <1>3. CASE CreateFails
    <2> USE <1>3 DEF CreateFails, UpgradeInv, external
    <2>1. TypeOK'
      BY DEF TypeOK, TempHeld, Holding, Phases
    <2>2. RanOlder'
      BY DEF RanOlder, TypeOK
    <2>3. TargetNewer'
      BY DEF TargetNewer
    <2>4. NeverDowngrade'
      BY DEF NeverDowngrade, TargetNewer
    <2>5. TempHeld'
      BY DEF TempHeld, Holding, TypeOK
    <2>6. JobExits'
      BY DEF JobExits
    <2>7. TempsBounded'
      BY DEF JobExits, TempsBounded, TempHeld, Holding, TypeOK
    <2> QED BY <2>1, <2>2, <2>3, <2>4, <2>5, <2>6, <2>7
  <1>4. CASE TempFails
    <2> USE <1>4 DEF TempFails, RemoveTemp, UpgradeInv, external
    <2>1. TypeOK'
      BY DEF TypeOK, TempHeld, Holding, Phases
    <2>2. RanOlder'
      BY DEF RanOlder, TypeOK
    <2>3. TargetNewer'
      BY DEF TargetNewer
    <2>4. NeverDowngrade'
      BY DEF NeverDowngrade, TargetNewer
    <2>5. TempHeld'
      BY DEF TempHeld, Holding, TypeOK
    <2>6. JobExits'
      BY DEF JobExits
    <2>7. TempsBounded'
      BY DEF JobExits, TempsBounded, TempHeld, Holding, TypeOK
    <2> QED BY <2>1, <2>2, <2>3, <2>4, <2>5, <2>6, <2>7
  <1>5. CASE Keep
    <2> USE <1>5 DEF Keep, UpgradeInv, external
    <2>1. TypeOK'
      BY DEF TypeOK, TempHeld, Holding, Phases
    <2>2. RanOlder'
      BY DEF RanOlder, TypeOK
    <2>3. TargetNewer'
      BY DEF TargetNewer
    <2>4. NeverDowngrade'
      BY DEF NeverDowngrade, TargetNewer
    <2>5. TempHeld'
      BY DEF TempHeld, Holding, TypeOK
    <2>6. JobExits'
      BY DEF JobExits
    <2>7. TempsBounded'
      BY DEF JobExits, TempsBounded, TempHeld, Holding, TypeOK
    <2> QED BY <2>1, <2>2, <2>3, <2>4, <2>5, <2>6, <2>7
  <1>6. CASE Rename
    <2> USE <1>6 DEF Rename, UpgradeInv, external
    <2>1. TypeOK'
      BY DEF TypeOK, TempHeld, Holding, Phases
    <2>2. RanOlder'
      BY DEF RanOlder, TypeOK
    <2>3. TargetNewer'
      BY DEF TargetNewer
    <2>4. NeverDowngrade'
      BY DEF NeverDowngrade, TargetNewer
    <2>5. TempHeld'
      BY DEF TempHeld, Holding, TypeOK
    <2>6. JobExits'
      BY DEF JobExits
    <2>7. TempsBounded'
      BY DEF JobExits, TempsBounded, TempHeld, Holding, TypeOK
    <2> QED BY <2>1, <2>2, <2>3, <2>4, <2>5, <2>6, <2>7
  <1>7. CASE RenameFails
    <2> USE <1>7 DEF RenameFails, RemoveTemp, UpgradeInv, external
    <2>1. TypeOK'
      BY DEF TypeOK, TempHeld, Holding, Phases
    <2>2. RanOlder'
      BY DEF RanOlder, TypeOK
    <2>3. TargetNewer'
      BY DEF TargetNewer
    <2>4. NeverDowngrade'
      BY DEF NeverDowngrade, TargetNewer
    <2>5. TempHeld'
      BY DEF TempHeld, Holding, TypeOK
    <2>6. JobExits'
      BY DEF JobExits
    <2>7. TempsBounded'
      BY DEF JobExits, TempsBounded, TempHeld, Holding, TypeOK
    <2> QED BY <2>1, <2>2, <2>3, <2>4, <2>5, <2>6, <2>7
  <1>8. CASE RestartIssued
    <2> USE <1>8 DEF RestartIssued, UpgradeInv, external
    <2>1. TypeOK'
      BY DEF TypeOK, TempHeld, Holding, Phases
    <2>2. RanOlder'
      BY DEF RanOlder, TypeOK
    <2>3. TargetNewer'
      BY DEF TargetNewer
    <2>4. NeverDowngrade'
      BY DEF NeverDowngrade, TargetNewer
    <2>5. TempHeld'
      BY DEF TempHeld, Holding, TypeOK
    <2>6. JobExits'
      BY DEF JobExits
    <2>7. TempsBounded'
      BY DEF JobExits, TempsBounded, TempHeld, Holding, TypeOK
    <2> QED BY <2>1, <2>2, <2>3, <2>4, <2>5, <2>6, <2>7
  <1>9. CASE RestartFails
    <2> USE <1>9 DEF RestartFails, UpgradeInv, external
    <2>1. TypeOK'
      BY DEF TypeOK, TempHeld, Holding, Phases
    <2>2. RanOlder'
      BY DEF RanOlder, TypeOK
    <2>3. TargetNewer'
      BY DEF TargetNewer
    <2>4. NeverDowngrade'
      BY DEF NeverDowngrade, TargetNewer
    <2>5. TempHeld'
      BY DEF TempHeld, Holding, TypeOK
    <2>6. JobExits'
      BY DEF JobExits
    <2>7. TempsBounded'
      BY DEF JobExits, TempsBounded, TempHeld, Holding, TypeOK
    <2> QED BY <2>1, <2>2, <2>3, <2>4, <2>5, <2>6, <2>7
  <1>10. CASE ExitZero
    <2> USE <1>10 DEF ExitZero, UpgradeInv, external
    <2>1. TypeOK'
      BY DEF TypeOK, TempHeld, Holding, Phases
    <2>2. RanOlder'
      BY DEF RanOlder, TypeOK
    <2>3. TargetNewer'
      BY DEF TargetNewer
    <2>4. NeverDowngrade'
      BY DEF NeverDowngrade, TargetNewer
    <2>5. TempHeld'
      BY DEF TempHeld, Holding, TypeOK
    <2>6. JobExits'
      BY DEF JobExits
    <2>7. TempsBounded'
      BY DEF JobExits, TempsBounded, TempHeld, Holding, TypeOK
    <2> QED BY <2>1, <2>2, <2>3, <2>4, <2>5, <2>6, <2>7
  <1>11. CASE JobStops
    <2> USE <1>11 DEF JobStops, UpgradeInv, external
    <2>1. TypeOK'
      BY DEF TypeOK, TempHeld, Holding, Phases
    <2>2. RanOlder'
      BY DEF RanOlder, TypeOK
    <2>3. TargetNewer'
      BY DEF TargetNewer
    <2>4. NeverDowngrade'
      BY DEF NeverDowngrade, TargetNewer
    <2>5. TempHeld'
      BY DEF TempHeld, Holding, TypeOK
    <2>6. JobExits'
      BY DEF JobExits
    <2>7. TempsBounded'
      BY DEF JobExits, TempsBounded, TempHeld, Holding, TypeOK
    <2> QED BY <2>1, <2>2, <2>3, <2>4, <2>5, <2>6, <2>7
  <1>12. CASE JobStarts
    BY <1>12, StartKeeps DEF JobStarts, UpgradeInv, TypeOK
  <1>13. CASE RestartOnFailure
    BY <1>13, StartKeeps DEF RestartOnFailure, UpgradeInv, TypeOK
  <1>14. CASE ManualStart
    BY <1>14, StartKeeps DEF ManualStart, UpgradeInv, TypeOK
  <1>15. CASE Die
    <2> USE <1>15 DEF Die, UpgradeInv, external
    <2>1. TypeOK'
      BY DEF TypeOK, TempHeld, Holding, Phases
    <2>2. RanOlder'
      BY DEF RanOlder, TypeOK
    <2>3. TargetNewer'
      BY DEF TargetNewer
    <2>4. NeverDowngrade'
      BY DEF NeverDowngrade, TargetNewer
    <2>5. TempHeld'
      BY DEF TempHeld, Holding, TypeOK
    <2>6. JobExits'
      BY DEF JobExits
    <2>7. TempsBounded'
      BY DEF JobExits, TempsBounded, TempHeld, Holding, TypeOK
    <2> QED BY <2>1, <2>2, <2>3, <2>4, <2>5, <2>6, <2>7
  <1>16. CASE Publish
    <2> USE <1>16 DEF Publish, UpgradeInv, external
    <2>1. TypeOK'
      BY DEF TypeOK, TempHeld, Holding, Phases
    <2>2. RanOlder'
      BY DEF RanOlder, TypeOK
    <2>3. TargetNewer'
      BY DEF TargetNewer
    <2>4. NeverDowngrade'
      BY DEF NeverDowngrade, TargetNewer
    <2>5. TempHeld'
      BY DEF TempHeld, Holding, TypeOK
    <2>6. JobExits'
      BY DEF JobExits
    <2>7. TempsBounded'
      BY DEF JobExits, TempsBounded, TempHeld, Holding, TypeOK
    <2> QED BY <2>1, <2>2, <2>3, <2>4, <2>5, <2>6, <2>7
  <1>17. CASE UNCHANGED vars
    BY <1>17 DEF UpgradeInv, vars, TypeOK, RanOlder, TargetNewer, NeverDowngrade, TempHeld, Holding, JobExits, TempsBounded
  <1> QED
    BY <1>1, <1>2, <1>3, <1>4, <1>5, <1>6, <1>7, <1>8, <1>9, <1>10, <1>11, <1>12, <1>13, <1>14, <1>15, <1>16, <1>17
       DEF Next, Loop, Manager

\* Whatever is released, withdrawn, interrupted or restarted, the binary, the process and
\* the temporary files stay as the invariant says (upgrade.rs:148-268).
THEOREM UpgradeInvariance == Spec => []UpgradeInv
  <1>1. Init => UpgradeInv BY UpgradeInit
  <1>2. UpgradeInv /\ [Next]_vars => UpgradeInv' BY UpgradeNext
  <1> QED BY <1>1, <1>2, PTL DEF Spec

\* Every variable of the upgrade keeps its type; in particular no path removes a temporary
\* file twice (upgrade.rs:214-231).
THEOREM UpgradeTypes == Spec => []TypeOK
  <1>1. UpgradeInv => TypeOK BY DEF UpgradeInv
  <1> QED BY <1>1, UpgradeInvariance, PTL

\* A version that was left is never run again (upgrade.rs:76-103, 228).
THEOREM NeverRunsBack == Spec => []NeverBack
  <1>1. UpgradeInv => NeverBack
    <2> SUFFICES ASSUME UpgradeInv, running \in ran PROVE FALSE
      BY DEF NeverBack
    <2>1. Newer(running, running) BY DEF UpgradeInv, RanOlder
    <2>2. running \in Version BY VersionsOrdered DEF UpgradeInv, TypeOK
    <2> QED BY <2>1, <2>2, NewerIrreflexive
  <1> QED BY <1>1, UpgradeInvariance, PTL

\* The binary on disk is never older than the process (upgrade.rs:227-231).
THEOREM DiskNeverOlder == Spec => []NeverDowngrade
  <1>1. UpgradeInv => NeverDowngrade BY DEF UpgradeInv
  <1> QED BY <1>1, UpgradeInvariance, PTL

\* Temporary files are left behind only by deaths and failed removals (upgrade.rs:214-231).
THEOREM TempsStayBounded == Spec => []TempsBounded
  <1>1. UpgradeInv => TempsBounded BY DEF UpgradeInv
  <1> QED BY <1>1, UpgradeInvariance, PTL
=============================================================================
