----------------------------------- MODULE Service -----------------------------------
(***************************************************************************)
(* The gateway as a service of the user (packages/runtime/src/commands/    *)
(* gateway-daemon.ts): phus gateway install, uninstall, start, stop,       *)
(* restart, each a sequence of steps that may fail or be cut off, and      *)
(* the service manager, systemd or launchd, which is external.             *)
(*                                                                         *)
(* A definition is what a service file says: the executable and the        *)
(* directory.  systemd knows the file it read last, launchd the one it was *)
(* told to load.  The gateway's process itself, which shares no state and  *)
(* no step with its manager, is that of the module Gateway.                *)
(***************************************************************************)
EXTENDS Gateway

CONSTANTS
  Definitions,   \* the executables and directories of the installations
  NoDefinition

ASSUME ServiceAssumption == NoDefinition \notin Definitions

VARIABLES
  supervisor,    \* supervisor of detectServiceManager
  serviceFile,   \* what the service file says
  known,         \* the definition that the manager knows
  serving,       \* the definition by which a gateway runs, if one does
  todo,          \* the steps that are left of the command in progress
  stale,         \* history: a reload is due, failed or was cut off
  orphaned       \* history: the manager failed to stop what was uninstalled

serviceVars == <<supervisor, serviceFile, known, serving, todo, stale, orphaned>>

Systemd == supervisor = "systemd-user"

\* Mutant: the file is removed before the service is stopped.
HastyUninstall == IF Systemd THEN <<"remove", "tryStop", "reload">> ELSE <<"remove", "tryStop">>

\* The steps of the commands.  Those whose failures are ignored begin with try; a unit that
\* was never enabled is disabled without effect.
UninstallSteps == IF Systemd THEN <<"tryStop", "remove", "reload">> ELSE <<"tryStop", "remove">>

InstallSteps == IF Systemd THEN <<"write", "reload">> ELSE <<"write">>

RestartSteps == IF Systemd THEN <<"restart">> ELSE <<"stop", "start">>

Commands == {InstallSteps, UninstallSteps, <<"start">>, <<"stop">>, RestartSteps}

\* statusService.
statusService ==
  [installed |-> serviceFile # NoDefinition, running |-> serving # NoDefinition]
-----------------------------------------------------------------------------
\* Whether the manager can do it: launchd is given the file, systemd the name of the unit.
CanStop == IF Systemd THEN known # NoDefinition \/ serving # NoDefinition
           ELSE serviceFile # NoDefinition /\ known # NoDefinition

CanStart == IF Systemd THEN known # NoDefinition ELSE serviceFile # NoDefinition

ServiceInit ==
  /\ supervisor \in {"systemd-user", "launchd"}
  /\ serviceFile = NoDefinition /\ known = NoDefinition /\ serving = NoDefinition
  /\ todo = <<>> /\ stale = FALSE /\ orphaned = FALSE

\* One of the commands is given.
Begin(command) ==
  /\ todo = <<>>
  /\ todo' = command
  /\ UNCHANGED <<supervisor, serviceFile, known, serving, stale, orphaned>>

\* A step that works: the command goes on with the next one.
Next_(step) == todo # <<>> /\ Head(todo) = step /\ todo' = Tail(todo) /\ UNCHANGED supervisor

\* writeServiceFile.
WriteFile(d) ==
  /\ Next_("write")
  /\ serviceFile' = d /\ stale' = Systemd
  /\ UNCHANGED <<known, serving, orphaned>>

\* removeServiceFile, which does nothing where there is none.
RemoveFile ==
  /\ Next_("remove")
  /\ serviceFile' = NoDefinition /\ stale' = Systemd
  /\ UNCHANGED <<known, serving, orphaned>>

\* systemctl daemon-reload: the manager reads the files anew; what runs goes on.
DaemonReload ==
  /\ Next_("reload")
  /\ known' = serviceFile /\ stale' = FALSE
  /\ UNCHANGED <<serviceFile, serving, orphaned>>

\* systemctl stop, launchctl unload.
StopService(step) ==
  /\ step \in {"stop", "tryStop"} /\ Next_(step) /\ CanStop
  /\ serving' = NoDefinition /\ orphaned' = FALSE
  /\ known' = IF Systemd THEN known ELSE NoDefinition
  /\ UNCHANGED <<serviceFile, stale>>

\* systemctl start, launchctl load, which leave alone what runs or is loaded.
StartService ==
  /\ Next_("start") /\ CanStart
  /\ known' = IF ~Systemd /\ known = NoDefinition THEN serviceFile ELSE known
  /\ serving' = IF serving = NoDefinition THEN known' ELSE serving
  /\ UNCHANGED <<serviceFile, stale, orphaned>>

\* systemctl restart.
RestartService ==
  /\ Next_("restart") /\ CanStart
  /\ serving' = known
  /\ UNCHANGED <<serviceFile, known, stale, orphaned>>

\* A stop that uninstallService ignores the failure of.  Where nothing runs there is
\* nothing to stop.
TryFails ==
  /\ Next_("tryStop")
  /\ orphaned' = (orphaned \/ (CanStop /\ serving # NoDefinition))
  /\ UNCHANGED <<serviceFile, known, serving, stale>>

\* A step that fails ends the command, with the error of execOrThrow, as an interruption
\* ends it anywhere.
CommandEnds ==
  /\ todo # <<>>
  /\ todo' = <<>>
  /\ UNCHANGED <<supervisor, serviceFile, known, serving, stale, orphaned>>

\* The gateway ends well and stays down, or fails and is started by what the manager knows.
GatewayEnds(failed) ==
  /\ serving # NoDefinition
  /\ serving' = IF failed THEN known ELSE NoDefinition
  /\ UNCHANGED <<supervisor, serviceFile, known, todo, stale, orphaned>>

ServiceNext ==
  \/ \E command \in Commands : Begin(command)
  \/ \E d \in Definitions : WriteFile(d)
  \/ RemoveFile \/ DaemonReload \/ StopService("stop") \/ StopService("tryStop")
  \/ StartService \/ RestartService \/ TryFails \/ CommandEnds
  \/ \E failed \in BOOLEAN : GatewayEnds(failed)

ServiceSpec == ServiceInit /\ [][ServiceNext]_serviceVars
-----------------------------------------------------------------------------
\* Every variable has its type.
ServiceTypeOK ==
  /\ supervisor \in {"systemd-user", "launchd"}
  /\ {serviceFile, known, serving} \subseteq Definitions \cup {NoDefinition}
  /\ Len(todo) <= 3
  /\ stale \in BOOLEAN /\ orphaned \in BOOLEAN

\* systemd knows what the file says, whichever commands failed or were cut off, unless that
\* was the reload of an installation or of its removal (installService, uninstallService).
ManagerKnows == Systemd /\ ~stale => known = serviceFile

\* What is not installed does not run, unless the manager itself failed to stop it: status
\* says so of no other gateway (uninstallService, which ignores the failure, and
\* statusService).
NothingLeftRunning ==
  todo = <<>> /\ statusService.running /\ ~statusService.installed => orphaned \/ stale

\* The service is well formed, its manager up to date, and none is left behind.
ServiceInv == ServiceTypeOK /\ ManagerKnows /\ NothingLeftRunning
-----------------------------------------------------------------------------
\* The process and its manager.
DaemonSpec == GatewaySpec /\ ServiceSpec

\* The gateway's process serves the agent it initialised last (gateway.ts), and the service
\* manager knows of the gateway that it runs (gateway-daemon.ts).
DaemonInv == GatewayInv /\ ServiceInv
=============================================================================
