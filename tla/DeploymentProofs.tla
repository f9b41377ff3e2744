-------------------------- MODULE DeploymentProofs -------------------------
(***************************************************************************)
(* What an uninstallation leaves behind, on every init system, for every   *)
(* set of flags, with any number of faults and reboots.                    *)
(***************************************************************************)
EXTENDS Deployment, TLAPS

\* The process is one the init system wants; a script is its own description; the
\* steps that follow the file find it as their predecessor has left it.
Managed ==
  /\ target \in {"own", "copy"}
  /\ main # "none" => wanted
  /\ ~Systemd => loaded = unit
  /\ cmd = "reload" => Whole(unit)
  /\ cmd = "ureload" => unit = "none"
  /\ cmd # "idle" => ~removed

\* How far an uninstallation has come; what the init system does not know of it does
\* not run, and a service without a file is not enabled.
Progress ==
  /\ cmd \in {"udisable", "uremove", "ureload"} => ~wanted
  /\ cmd \in {"uremove", "ureload"} => ~enabled
  /\ loaded = "none" => ~wanted
  /\ unit = "none" => ~enabled
  /\ removed => unit = "none" /\ loaded = "none"

DeploymentInv == Managed /\ (~ignored => Progress)

LEMMA DeploymentStarts == Init => DeploymentInv
  BY DEF Init, DeploymentInv, Managed, Progress, Whole

\* install: what it writes is never "none".
LEMMA InstallKeeps ==
  ASSUME DeploymentInv, Install \/ CopyBinary \/ WriteUnit \/ Reload
  PROVE  DeploymentInv'
<1> USE DEF DeploymentInv, Managed, Progress, Whole, Systemd, host, files, daemon
<1>1. CASE Install
  BY <1>1 DEF Install
<1>2. CASE CopyBinary
  BY <1>2 DEF CopyBinary, To, Return
<1>3. CASE WriteUnit
  BY <1>3 DEF WriteUnit, To, Return
<1>4. CASE Reload
  BY <1>4 DEF Reload, To, Return
<1> QED BY <1>1, <1>2, <1>3, <1>4

\* enable, start and stop: none of them runs during an uninstallation.
LEMMA ControlKeeps ==
  ASSUME DeploymentInv, Enable \/ Start \/ Stop
  PROVE  DeploymentInv'
<1> USE DEF DeploymentInv, Managed, Progress, Whole, Systemd, host, files, daemon
<1>1. CASE Enable
  BY <1>1 DEF Enable
<1>2. CASE Start
  BY <1>2 DEF Start
<1>3. CASE Stop
  BY <1>3 DEF Stop, Halt
<1> QED BY <1>1, <1>2, <1>3

\* uninstall: stop, then disable, then the file, then the reload.
LEMMA UninstallKeeps ==
  ASSUME DeploymentInv,
         Uninstall \/ UninstallStops \/ UninstallDisables \/ UninstallRemoves \/ UninstallReloads
  PROVE  DeploymentInv'
<1> USE DEF DeploymentInv, Managed, Progress, Whole, Systemd, host, files, daemon
<1>1. CASE Uninstall
  BY <1>1 DEF Uninstall
<1>2. CASE UninstallStops
  BY <1>2 DEF UninstallStops, Halt, To, Ignore
<1>3. CASE UninstallDisables
  BY <1>3 DEF UninstallDisables, To, Ignore
<1>4. CASE UninstallRemoves
  BY <1>4 DEF UninstallRemoves, To, Done, Return
<1>5. CASE UninstallReloads
  BY <1>5 DEF UninstallReloads, To, Done, Return
<1> QED BY <1>1, <1>2, <1>3, <1>4, <1>5

\* The process only starts where it is wanted.
LEMMA ProcessKeeps ==
  ASSUME DeploymentInv,
         \/ Restart \/ Process \/ AcceptFails \/ UpgradeExits
         \/ Incoming \/ HandshakeSucceeds \/ ClientDone \/ EndpointEnds
  PROVE  DeploymentInv'
<1>1. UNCHANGED <<host, files, wanted, admin>> /\ (main' # "none" => main # "none" \/ wanted)
  BY DEF Restart, Process, Configure, Gone, Exit, TcpBinds, TcpBindFails, QuicBinds,
         QuicBindFails, Dies, AcceptFails, UpgradeExits, Incoming, HandshakeSucceeds,
         ClientDone, EndpointEnds, QuicTo
<1> QED BY <1>1 DEF DeploymentInv, Managed, Progress, Whole, Systemd, host, files, admin

\* A reboot reads the file again and starts what is enabled.
LEMMA RebootKeeps ==
  ASSUME DeploymentInv, Reboot
  PROVE  DeploymentInv'
  BY DEF Reboot, To, DeploymentInv, Managed, Progress, Whole, Systemd, host

LEMMA DeploymentInvariance == Spec => []DeploymentInv
<1>1. DeploymentInv /\ [Next]_vars => DeploymentInv'
  <2> SUFFICES ASSUME DeploymentInv, [Next]_vars PROVE DeploymentInv'
    OBVIOUS
  <2>1. CASE UNCHANGED vars
    BY <2>1 DEF vars, host, files, admin, daemon, DeploymentInv, Managed, Progress, Whole,
                Systemd
  <2> QED BY <2>1, InstallKeeps, ControlKeeps, UninstallKeeps, ProcessKeeps, RebootKeeps
          DEF Next, Command
<1> QED BY <1>1, DeploymentStarts, PTL DEF Spec

\* For every init system and every history of failed installations, reboots and faults:
\* an uninstallation whose commands did what they were asked for leaves no unit, nothing
\* loaded, nothing enabled and no process (service.rs:354-379).
THEOREM UninstallLeavesNothing == Spec => []UninstallCleans
<1>1. DeploymentInv => UninstallCleans
  BY DEF DeploymentInv, Managed, Progress, UninstallCleans
<1> QED BY <1>1, DeploymentInvariance, PTL
=============================================================================
