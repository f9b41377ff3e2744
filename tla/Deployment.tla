----------------------------- MODULE Deployment ----------------------------
(***************************************************************************)
(* auto-server as a system service: the `service' subcommands of           *)
(* src/src/service.rs, the init system they write for, and the life of the *)
(* process it runs, from run of lib.rs to the accept loops of the TCP      *)
(* proxy (server.rs:79) and of the MASQUE server (masque.rs:154).          *)
(*                                                                         *)
(* A subcommand is one or more steps; it ends at the first that fails, but *)
(* for the commands an uninstallation ignores, and at a reboot.            *)
(***************************************************************************)
EXTENDS Naturals

CONSTANTS
  Inits,      \* init systems: subset of {"systemd", "openrc", "sysv"}
  Configs,    \* what the forwarded arguments ask for
  MaxFaults   \* transient failures, upgrades and reboots: a bound

ASSUME DeploymentAssumption ==
  /\ Inits \subseteq {"systemd", "openrc", "sysv"}
  /\ Configs \subseteq 
       [args : {"none", "plain", "special"}, auto : BOOLEAN,
        http : BOOLEAN, h3 : BOOLEAN, complete : BOOLEAN, usable : BOOLEAN]
  /\ MaxFaults \in Nat

VARIABLES
  init,     \* the init system of the host
  config,   \* args: those forwarded, "special" if one holds a % or a $; auto: --auto-upgrade;
            \* http: no --disable http; h3: --enable h3; complete: with --key, --cert-chain
            \* and --auth-token; usable: the files and the pool parse
  bin,      \* the copy at --bin-path: "none", "partial" or "full"
  unit,     \* the unit or init script: "none", "partial", or the binary it names
  loaded,   \* what systemd knows of the unit; of a script, the file itself
  enabled,  \* the service starts at boot
  wanted,   \* it has been started and not stopped
  cmd,      \* the next step of the subcommand that runs, "idle" if none does
  target,   \* the binary this installation names: "own" or "copy"
  removed,  \* history: the last subcommand was an uninstall that returned Ok
  ignored,  \* history: a command whose failure uninstall ignores has failed
  main,     \* the process: "none", "config" (in run, before its listeners) or "up"
  dying,    \* a killed process still has its sockets
  tcp,      \* the TCP proxy: "off", "bind", "accept" or "ended"
  quic,     \* the MASQUE server: "off", "bind", "accept", "handshake", "setup" or "ended"
  clean,    \* the last process exited with success
  faults    \* transient failures, upgrades and reboots so far

files == <<bin, unit, loaded, enabled>>
admin == <<cmd, target, removed, ignored>>
daemon == <<main, dying, tcp, quic, clean, faults>>
host == <<init, config>>
vars == <<host, files, wanted, admin, daemon>>

Init ==
  /\ init \in Inits /\ config \in Configs
  /\ bin = "none" /\ unit = "none" /\ loaded = "none" /\ enabled = FALSE
  /\ wanted = FALSE
  /\ cmd = "idle" /\ target = "own" /\ removed = FALSE /\ ignored = FALSE
  /\ main = "none" /\ dying = FALSE /\ tcp = "off" /\ quic = "off"
  /\ clean = FALSE /\ faults = 0

Systemd == init = "systemd"
Whole(u) == u \in {"own", "copy"}
Runs(u) == u = "own" \/ (u = "copy" /\ bin = "full")

(***************************************************************************)
(* Installation.                                                           *)
(***************************************************************************)
\* The next step of the subcommand, and the end of it.
To(step) == cmd' = step /\ UNCHANGED <<target, removed, ignored>>
Return == To("idle")

Install ==
  /\ cmd = "idle"
  /\ \/ cmd' = "copy" /\ target' = "copy"
     \/ cmd' = "write" /\ target' = "own"
  /\ removed' = FALSE
  /\ UNCHANGED <<host, files, wanted, ignored, daemon>>

\* copy_binary: fs::copy truncates what was there, so a failure may leave a piece; over
\* a binary that runs it always fails.
CopyBinary ==
  /\ cmd = "copy"
  /\ \/ bin' = "full" /\ To("write")
     \/ bin' \in {bin, "partial"} /\ Return
  /\ UNCHANGED <<host, unit, loaded, enabled, wanted, daemon>>

\* write_file: created, written, then given its mode, without which a script does not
\* run.  A script is read at each use.
WriteUnit ==
  /\ cmd = "write"
  /\ \/ unit' = target /\ To(IF Systemd THEN "reload" ELSE "idle")
     \/ unit' \in {unit, "partial"} \cup (IF Systemd THEN {target} ELSE {}) /\ Return
  /\ loaded' = IF Systemd THEN loaded ELSE unit'
  /\ UNCHANGED <<host, bin, enabled, wanted, daemon>>

\* systemctl daemon-reload; an error ends the installation with the file in place.
Reload ==
  /\ cmd = "reload" /\ Return
  /\ loaded' \in {loaded, unit}
  /\ UNCHANGED <<host, bin, unit, enabled, wanted, daemon>>

(***************************************************************************)
(* enable, start and stop: one command each; one that fails changes        *)
(* nothing.                                                                *)
(***************************************************************************)
Enable ==
  /\ cmd = "idle" /\ Whole(unit) /\ enabled' = TRUE
  /\ removed' = FALSE
  /\ UNCHANGED <<host, bin, unit, loaded, wanted, cmd, target, ignored, daemon>>

\* systemd reads a unit it does not know yet.  A script starts the process itself,
\* unless the pidfile names one that lives.
Start ==
  /\ cmd = "idle"
  /\ loaded' = IF loaded = "none" THEN unit ELSE loaded
  /\ Whole(loaded')
  /\ wanted' = TRUE
  /\ main' = IF main = "none" /\ Runs(loaded') THEN "config" ELSE main
  /\ clean' = FALSE
  /\ removed' = FALSE
  /\ UNCHANGED <<host, bin, unit, enabled, cmd, target, ignored, dying, tcp, quic, faults>>

\* The process is killed: systemd waits for its end, the script does not.
Halt ==
  /\ wanted' = FALSE /\ main' = "none" /\ tcp' = "off" /\ quic' = "off" /\ clean' = FALSE
  /\ dying' = (dying \/ (~Systemd /\ main # "none"))
  /\ UNCHANGED faults

Stop ==
  /\ cmd = "idle" /\ Whole(loaded) /\ Halt
  /\ removed' = FALSE
  /\ UNCHANGED <<host, files, cmd, target, ignored>>

(***************************************************************************)
(* Uninstallation: stop and disable are run with run_cmd_ignore.           *)
(***************************************************************************)
\* Faulty variant: the file is removed first.
UninstallFileFirst ==
  /\ cmd = "idle" /\ cmd' = "ustop" /\ removed' = FALSE
  /\ unit' = "none" /\ loaded' = IF Systemd THEN loaded ELSE "none"
  /\ UNCHANGED <<host, bin, enabled, wanted, target, ignored, daemon>>

Uninstall ==
  /\ cmd = "idle" /\ cmd' = "ustop" /\ removed' = FALSE
  /\ UNCHANGED <<host, files, wanted, target, ignored, daemon>>

Ignore(step) == cmd' = step /\ ignored' = TRUE /\ UNCHANGED <<target, removed>>

\* A service the init system does not know cannot be stopped, nor can one whose script
\* was cut off by a failed installation.
UninstallStops ==
  /\ cmd = "ustop"
  /\ \/ loaded # "none" /\ (Systemd \/ Whole(loaded)) /\ Halt /\ To("udisable")
     \/ loaded = "none" /\ To("udisable") /\ UNCHANGED <<wanted, daemon>>
     \/ Ignore("udisable") /\ UNCHANGED <<wanted, daemon>>
  /\ UNCHANGED <<host, files>>

\* Nor can one without a unit or script be disabled.
UninstallDisables ==
  /\ cmd = "udisable"
  /\ \/ unit # "none" /\ enabled' = FALSE /\ To("uremove")
     \/ unit = "none" /\ To("uremove") /\ UNCHANGED enabled
     \/ Ignore("uremove") /\ UNCHANGED enabled
  /\ UNCHANGED <<host, bin, unit, loaded, wanted, daemon>>

\* remove_if_exists; a script system has nothing to reload.
Done == cmd' = "idle" /\ removed' = TRUE /\ UNCHANGED <<target, ignored>>

UninstallRemoves ==
  /\ cmd = "uremove"
  /\ \/ /\ unit' = "none"
        /\ IF Systemd THEN To("ureload") /\ UNCHANGED loaded
                      ELSE Done /\ loaded' = "none"
     \/ unit # "none" /\ Return /\ UNCHANGED <<unit, loaded>>
  /\ UNCHANGED <<host, bin, enabled, wanted, daemon>>

UninstallReloads ==
  /\ cmd = "ureload"
  /\ \/ loaded' = unit /\ Done
     \/ Return /\ UNCHANGED loaded
  /\ UNCHANGED <<host, bin, unit, enabled, wanted, daemon>>

Command == \/ CopyBinary \/ WriteUnit \/ Reload \/ UninstallStops \/ UninstallDisables
           \/ UninstallRemoves \/ UninstallReloads

(***************************************************************************)
(* The process.                                                            *)
(***************************************************************************)
\* run returns to main: an exit with a failure after an error.
Gone == main' = "none" /\ tcp' = "off" /\ quic' = "off" /\ UNCHANGED dying
Exit == Gone /\ UNCHANGED clean

Fault == faults < MaxFaults /\ faults' = faults + 1

\* Restart=on-failure, RestartSec=5: no start limit is reached, and a process that has
\* exited with success is left as it is.
Restart ==
  /\ Systemd /\ wanted /\ ~clean /\ main = "none" /\ Runs(loaded)
  /\ main' = "config"
  /\ UNCHANGED <<host, files, wanted, admin, dying, tcp, quic, clean, faults>>

\* systemd takes off the quotes systemd_quote has put on, but expands the % and the $
\* it leaves as they are, or refuses the line.  The quotes of sh_quote stand inside
\* DAEMON_ARGS="...", and an unquoted $DAEMON_ARGS splits at blanks but takes none off:
\* clap is given '--listen' with its quotes.
ArgsMayParse == config.args = "none" \/ Systemd
ArgsParse == config.args = "none" \/ (Systemd /\ config.args = "plain")

\* validate, the requirements of --enable h3.  An --auto-upgrade interval that does not
\* parse fails at the same point and is not told apart.
Valid == (config.http \/ config.h3) /\ (config.h3 => config.complete)

Configure ==
  /\ main = "config"
  /\ \/ /\ ArgsMayParse /\ Valid
        /\ main' = "up" /\ UNCHANGED <<dying, clean>>
        /\ tcp' = IF config.http THEN "bind" ELSE "off"
        /\ quic' = IF config.h3 THEN "bind" ELSE "off"
     \/ ~(ArgsParse /\ Valid) /\ Exit
  /\ UNCHANGED <<host, files, wanted, admin, faults>>

\* run_upgrade_loop has replaced the binary: the restart job it asks systemd for is
\* accepted, or exit(0) ends the process with nobody to start the next.
UpgradeExits ==
  /\ main = "up" /\ config.auto /\ Fault /\ Gone
  /\ clean' \in (IF Systemd THEN BOOLEAN ELSE {TRUE})
  /\ UNCHANGED <<host, files, wanted, admin>>

TcpBinds ==
  /\ tcp = "bind" /\ ~dying /\ tcp' = "accept"
  /\ UNCHANGED <<host, files, wanted, admin, main, dying, quic, clean, faults>>

\* The address is in use, by the process before for one.
TcpBindFails ==
  /\ tcp = "bind" /\ Exit
  /\ IF dying THEN UNCHANGED faults ELSE Fault
  /\ UNCHANGED <<host, files, wanted, admin>>

\* Certificates, endpoint, resolver and address pool.
QuicBinds ==
  /\ quic = "bind" /\ ~dying /\ config.usable /\ quic' = "accept"
  /\ UNCHANGED <<host, files, wanted, admin, main, dying, tcp, clean, faults>>

QuicBindFails ==
  /\ quic = "bind" /\ Exit
  /\ IF dying \/ ~config.usable THEN UNCHANGED faults ELSE Fault
  /\ UNCHANGED <<host, files, wanted, admin>>

\* Faulty variant: join! in the place of try_join!.
AcceptFailsAlone ==
  /\ tcp = "accept" /\ Fault
  /\ IF config.h3 THEN tcp' = "ended" /\ UNCHANGED <<main, dying, quic, clean>> ELSE Exit
  /\ UNCHANGED <<host, files, wanted, admin>>

\* accept fails, for want of descriptors: ProxyServer::run returns, try_join! with it.
AcceptFails ==
  /\ tcp = "accept" /\ Fault /\ Exit
  /\ UNCHANGED <<host, files, wanted, admin>>

\* endpoint.accept, then two awaits of one client inside the loop.
QuicTo(from, to) ==
  /\ quic \in from /\ quic' = to
  /\ UNCHANGED <<host, files, wanted, admin, main, dying, tcp, clean, faults>>

Incoming == QuicTo({"accept"}, "handshake")
HandshakeSucceeds == QuicTo({"handshake"}, "setup")

\* The connection is spawned, or one of the two failed: on with the next client.
ClientDone == QuicTo({"handshake", "setup"}, "accept")

\* endpoint.accept has no more: run returns Ok, which try_join! keeps while the TCP proxy
\* goes on and which ends the process with success where there is none.
EndpointEnds ==
  /\ quic = "accept" /\ Fault
  /\ IF config.http THEN quic' = "ended" /\ UNCHANGED <<main, dying, tcp, clean>>
                    ELSE Gone /\ clean' = TRUE
  /\ UNCHANGED <<host, files, wanted, admin>>

\* The rest of a killed process goes.
Dies ==
  /\ dying /\ dying' = FALSE
  /\ UNCHANGED <<host, files, wanted, admin, main, tcp, quic, clean, faults>>

Reboot ==
  /\ faults < MaxFaults /\ faults' = faults + 1
  /\ To("idle")
  /\ loaded' = unit
  /\ wanted' = (enabled /\ Whole(unit))
  /\ main' = IF wanted' /\ Runs(unit) THEN "config" ELSE "none"
  /\ dying' = FALSE /\ tcp' = "off" /\ quic' = "off" /\ clean' = FALSE
  /\ UNCHANGED <<host, bin, unit, enabled>>

Process == \/ Configure \/ TcpBinds \/ QuicBinds \/ Dies \/ TcpBindFails \/ QuicBindFails

Next ==
  \/ Install \/ Enable \/ Start \/ Stop \/ Uninstall \/ Command
  \/ Restart \/ Process \/ AcceptFails \/ UpgradeExits
  \/ Incoming \/ HandshakeSucceeds \/ ClientDone \/ EndpointEnds \/ Reboot

Spec == Init /\ [][Next]_vars

\* systemd restarts what failed and the process goes on with its start.  Nothing is
\* assumed of a client: one that keeps its connection alive and grants no streams stays
\* in the setup for ever.
Fairness == WF_vars(Restart) /\ WF_vars(Process)

FairSpec == Spec /\ Fairness

-----------------------------------------------------------------------------
TypeOK ==
  /\ init \in Inits /\ config \in Configs
  /\ bin \in {"none", "partial", "full"}
  /\ unit \in {"none", "partial", "own", "copy"}
  /\ loaded \in {"none", "partial", "own", "copy"}
  /\ {enabled, wanted, removed, ignored, dying, clean} \subseteq BOOLEAN
  /\ cmd \in {"idle", "copy", "write", "reload", "ustop", "udisable", "uremove", "ureload"}
  /\ target \in {"own", "copy"}
  /\ main \in {"none", "config", "up"}
  /\ tcp \in {"off", "bind", "accept", "ended"}
  /\ quic \in {"off", "bind", "accept", "handshake", "setup", "ended"}
  /\ faults \in 0 .. MaxFaults

\* An uninstallation that returns Ok leaves no unit, no process, nothing that starts
\* one at boot, whatever earlier commands failed half way, unless one of the failures
\* it ignores has happened (service.rs:354-379).
UninstallCleans ==
  removed /\ ~ignored =>
    /\ unit = "none" /\ loaded = "none"
    /\ ~enabled /\ ~wanted /\ main = "none"

\* A service that is wanted and can be started serves on all its listeners again and
\* again: a TCP listener that fails does not leave the MASQUE server behind without it
\* (lib.rs:47).  That holds as long as no client keeps the accept loop in its handshake
\* or setup (masque.rs:202, 220), and until the process gives up: the endpoint ends,
\* which leaves the TCP proxy alone or exits with success, or an upgrade exits without
\* its restart job.
Kept == Systemd /\ wanted /\ Runs(loaded) /\ ArgsParse /\ Valid /\ (config.h3 => config.usable)
Serving == (config.http => tcp = "accept") /\ (config.h3 => quic = "accept")
GaveUp == clean \/ quic = "ended"
ClientsFinish == []<>(quic \notin {"handshake", "setup"})
ServesAgain == ClientsFinish => (Kept ~> Serving \/ ~Kept \/ GaveUp)

\* "Unquoted expansion of DAEMON_ARGS splits into the forwarded args" (service.rs:419):
\* a process that is given valid arguments goes on to its listeners.
ArgsReachProcess == [][Configure /\ Valid => main' = "up"]_vars
=============================================================================
