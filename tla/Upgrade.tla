------------------------------ MODULE Upgrade ------------------------------
(***************************************************************************)
(* The auto-upgrade loop of src/src/upgrade.rs, the files it works on, and *)
(* the service manager that runs the program with the unit of              *)
(* src/src/service.rs.                                                     *)
(*                                                                         *)
(* A version is a sequence of numbers and a pre-release rank, 0 for none:  *)
(* the code compares pre-release names as strings, so a rank stands for    *)
(* the place of a name among them.  Releases come and are withdrawn, and   *)
(* the process may die between any two steps.                              *)
(***************************************************************************)
EXTENDS Integers, Sequences

CONSTANTS
  Versions,    \* versions that may be released: [main, pre]
  First,       \* the version installed at the beginning
  Managed,     \* the program runs as a systemd service, with the unit of service.rs
  MaxFaults    \* bound: deaths of the process and removals that fail

ASSUME UpgradeAssumption ==
  /\ Versions \subseteq [main : Seq(Nat), pre : Nat]
  /\ First \in Versions
  /\ Managed \in BOOLEAN
  /\ MaxFaults \in Nat

VARIABLES
  phase,    \* where the loop stands; "down" when there is no process
  running,  \* the version of the process, the last one when it is down
  latest,   \* the release GitHub names
  target,   \* the version being installed
  disk,     \* what current_exe() holds
  temps,    \* temporary files in its directory
  job,      \* systemd has a restart job for the unit
  exit,     \* how the last process ended: "none", "clean" or "failure"
  faults,   \* deaths of the process and failed removals
  ran       \* history: versions that ran before this one

external == <<latest, faults>>
vars == <<phase, running, latest, target, disk, temps, job, exit, faults, ran>>

Phases == {"idle", "fetched", "temp", "kept", "replaced", "exiting", "down"}

(***************************************************************************)
(* The order of versions.                                                  *)
(***************************************************************************)
\* A part that is missing counts as 0.
Part(v, i) == IF i <= Len(v.main) THEN v.main[i] ELSE 0

Parts(v, w) == 1 .. (IF Len(v.main) > Len(w.main) THEN Len(v.main) ELSE Len(w.main))

SameMain(v, w) == \A i \in Parts(v, w) : Part(v, i) = Part(w, i)

\* Faulty variant: a stable version is newer than any of the same number.
NewerLoose(current, latestTag) ==
  \/ \E i \in Parts(current, latestTag) :
       /\ Part(latestTag, i) > Part(current, i)
       /\ \A j \in 1 .. i - 1 : Part(latestTag, j) = Part(current, j)
  \/ /\ SameMain(current, latestTag)
     /\ latestTag.pre = 0 \/ latestTag.pre > current.pre

\* is_newer_version.
Newer(current, latestTag) ==
  \/ \E i \in Parts(current, latestTag) :
       /\ Part(latestTag, i) > Part(current, i)
       /\ \A j \in 1 .. i - 1 : Part(latestTag, j) = Part(current, j)
  \/ /\ SameMain(current, latestTag)
     /\ current.pre # 0
     /\ latestTag.pre = 0 \/ latestTag.pre > current.pre

-----------------------------------------------------------------------------
Init ==
  /\ phase = "idle"
  /\ running = First /\ disk = First /\ target = First
  /\ latest \in Versions
  /\ temps = 0
  /\ job = FALSE
  /\ exit = "none"
  /\ faults = 0
  /\ ran = {}

(***************************************************************************)
(* The loop.  A check that finds nothing newer, or fails before there is a *)
(* file, changes nothing and the loop waits for its next tick.             *)
(***************************************************************************)
\* Faulty variant: any other release is installed.
FetchOther ==
  /\ phase = "idle"
  /\ latest # running
  /\ target' = latest
  /\ phase' = "fetched"
  /\ UNCHANGED <<running, external, disk, temps, job, exit, ran>>

\* The tag is compared, the asset found, downloaded and unpacked.
Fetch ==
  /\ phase = "idle"
  /\ Newer(running, latest)
  /\ target' = latest
  /\ phase' = "fetched"
  /\ UNCHANGED <<running, external, disk, temps, job, exit, ran>>

CreateTemp ==
  /\ phase = "fetched"
  /\ temps' = temps + 1
  /\ phase' = "temp"
  /\ UNCHANGED <<running, external, target, disk, job, exit, ran>>

CreateFails ==
  /\ phase = "fetched"
  /\ phase' = "idle"
  /\ UNCHANGED <<running, external, target, disk, temps, job, exit, ran>>

\* Faulty variant: the file is made permanent before it is written.
TempFailsKept ==
  /\ phase = "temp"
  /\ phase' = "idle"
  /\ UNCHANGED <<running, external, target, disk, temps, job, exit, ran>>

\* The removal of the file in work; its result is ignored.
RemoveTemp ==
  /\ phase' = "idle"
  /\ \/ temps' = temps - 1 /\ UNCHANGED faults
     \/ faults < MaxFaults /\ faults' = faults + 1 /\ UNCHANGED temps
  /\ UNCHANGED <<running, latest, target, disk, job, exit, ran>>

\* Writing, chmod or keep fails: dropping the NamedTempFile removes it.
TempFails == phase = "temp" /\ RemoveTemp

Keep ==
  /\ phase = "temp"
  /\ phase' = "kept"
  /\ UNCHANGED <<running, external, target, disk, temps, job, exit, ran>>

Rename ==
  /\ phase = "kept"
  /\ disk' = target
  /\ temps' = temps - 1
  /\ phase' = "replaced"
  /\ UNCHANGED <<running, external, target, job, exit, ran>>

\* remove_file takes the place of the drop, the file being kept.
RenameFails == phase = "kept" /\ RemoveTemp

\* systemctl restart --no-block.
RestartIssued ==
  /\ phase = "replaced"
  /\ Managed
  /\ job' = TRUE
  /\ phase' = "exiting"
  /\ UNCHANGED <<running, external, target, disk, temps, exit, ran>>

\* No unit in the cgroup, or systemctl fails: a warning, and the loop goes on to exit.
RestartFails ==
  /\ phase = "replaced"
  /\ phase' = "exiting"
  /\ UNCHANGED <<running, external, target, disk, temps, job, exit, ran>>

\* Two seconds later: process::exit(0).
ExitZero ==
  /\ phase = "exiting"
  /\ phase' = "down"
  /\ exit' = "clean"
  /\ UNCHANGED <<running, external, target, disk, temps, job, ran>>

Loop ==
  \/ CreateTemp \/ CreateFails \/ TempFails \/ Keep
  \/ Rename \/ RenameFails
  \/ RestartIssued \/ RestartFails \/ ExitZero

(***************************************************************************)
(* The service manager and the rest of the world.                          *)
(***************************************************************************)
\* What the binary takes its version to be, CARGO_PKG_VERSION (upgrade.rs:156), is the tag
\* of the release it was taken from: the release workflow's part, not this program's.
StartProcess ==
  /\ phase' = "idle"
  /\ running' = disk
  /\ ran' = IF disk = running THEN ran ELSE ran \cup {running}
  /\ UNCHANGED <<external, target, disk, temps, exit>>

\* Faulty variant: a restart that finds the process gone has nothing to restart.
JobStartsOnlyStopped ==
  /\ job /\ phase = "down"
  /\ job' = FALSE
  /\ UNCHANGED <<phase, running, external, target, disk, temps, exit, ran>>

\* The restart job stops the process, which has not yet ended by itself.
JobStops ==
  /\ job /\ phase # "down"
  /\ phase' = "down"
  /\ exit' = "clean"
  /\ UNCHANGED <<running, external, target, disk, temps, job, ran>>

JobStarts ==
  /\ job /\ phase = "down"
  /\ job' = FALSE
  /\ StartProcess

\* Restart=on-failure (service.rs:140).
RestartOnFailure ==
  /\ Managed /\ ~job
  /\ phase = "down" /\ exit = "failure"
  /\ StartProcess
  /\ UNCHANGED job

\* The operator, or the next boot.
ManualStart ==
  /\ phase = "down" /\ ~job
  /\ StartProcess
  /\ UNCHANGED job

Manager == JobStops \/ JobStarts \/ RestartOnFailure

\* A panic that ends main, a signal, a fatal accept error.
Die ==
  /\ phase # "down"
  /\ faults < MaxFaults
  /\ faults' = faults + 1
  /\ phase' = "down"
  /\ exit' = "failure"
  /\ UNCHANGED <<running, latest, target, disk, temps, job, ran>>

\* A release appears or is withdrawn.
Publish ==
  /\ latest' \in Versions \ {latest}
  /\ UNCHANGED <<phase, running, target, disk, temps, job, exit, faults, ran>>

-----------------------------------------------------------------------------
Next ==
  \/ Fetch \/ Loop
  \/ Manager \/ ManualStart
  \/ Die \/ Publish

Spec == Init /\ [][Next]_vars

\* The loop's own steps are taken, and systemd runs its jobs and restarts.  Whether GitHub
\* answers, whether somebody starts the program by hand, is not assumed.
Fairness == WF_vars(Loop) /\ WF_vars(Manager)

FairSpec == Spec /\ Fairness

-----------------------------------------------------------------------------
TypeOK ==
  /\ phase \in Phases
  /\ running \in Versions /\ latest \in Versions /\ target \in Versions /\ disk \in Versions
  /\ temps \in Nat /\ faults \in Nat
  /\ job \in BOOLEAN
  /\ exit \in {"none", "clean", "failure"}
  /\ ran \in SUBSET Versions

\* A version that was left is never run again, whatever is released or withdrawn and
\* wherever the process dies: is_newer_version is an order, and a start finds the old
\* binary or the new one (upgrade.rs:71-103, 225-231), the tags being the versions of the
\* binaries.
NeverBack == running \notin ran

\* The binary on disk is the one that runs or a newer one: a crash in the middle of an
\* upgrade never makes the next start a downgrade (upgrade.rs:227-231).
NeverDowngrade == disk = running \/ Newer(running, disk)

\* The directory of the binary does not fill up: but for the file in work, one temporary
\* file is left by a death or a failed removal, none by the error paths (upgrade.rs:214-231).
TempsBounded ==
  temps <= faults + (IF phase \in {"temp", "kept"} THEN 1 ELSE 0)

\* Once systemd has accepted the restart the new version runs, whether the process exits
\* first, is stopped first or dies first (upgrade.rs:233-236).
RestartTakesEffect == job ~> (phase = "idle" /\ running = disk)
=============================================================================
