--------------------------- MODULE DaemonSettings ---------------------------
(* What a daemon is started with and what it leaves on its host, in three      *)
(* independent parts: the settings it makes of its environment, the service    *)
(* manager's unit that starts it, and the private files it finds again.        *)
EXTENDS Integers

-----------------------------------------------------------------------------
(* The settings.                                                               *)
(* What a daemon makes of its environment and of the persisted runtime mode,   *)
(* and what it hands to the next one when it is started again, as a child or   *)
(* by the service manager.  A variable holds a text that may be padded with    *)
(* blanks; Unset is none.  A class of spellings that the code treats alike     *)
(* ("1" and "TRUE") is one text.                                               *)
CONSTANTS
  Environments,   \* the environments a daemon is started in by hand
  PersistedModes, \* what the control file may hold: a mode, "missing" or "broken"
  MaxLaunches     \* bound on the daemons started

VARIABLES
  environ,    \* the environment of the daemon that is starting or up
  modeFile,   \* config directory |-> what its control file holds
  conf,       \* what the daemon made of it, with st "starting", "up" or "failed"
  former,     \* the configuration of the daemon that ordered the launch, st "none" for none
  launches

configVars == <<environ, modeFile, conf, former, launches>>

Raw(text) == [text |-> text, padded |-> FALSE]
Unset == Raw("unset")
\* normalize_env_path and its kind: trimmed, and nothing when nothing is left.
Normalized(v) == IF v.text = "" THEN Unset ELSE Raw(v.text)
Trimmed(v) == Raw(v.text)

\* config_base_dir_from_env, on Linux; the other systems have other variables in the same places.
ConfigBaseDir(e) ==
  CASE Normalized(e.xdg) # Unset -> e.xdg.text
    [] Normalized(e.xdg) = Unset /\ Normalized(e.home) # Unset -> e.home.text
    [] OTHER -> "temp"
ConfigDirs == {"xdg", "home", "temp"}

\* select_local_endpoint_name
SocketName(v) == IF Normalized(v) = Unset THEN "ta-daemon" ELSE v.text
\* parse_daemon_runtime_mode_value
ParsedMode(v) == CASE v.text \in {"", "local"} -> "local" [] v.text = "background" -> "background" [] OTHER -> "invalid"
\* read_persisted_control_plane_desired_mode, which is not called when the variable is there.
PersistedMode(e) == IF e.mode # Unset THEN "missing" ELSE modeFile[ConfigBaseDir(e)]
\* resolved_runtime_mode
RuntimeMode(e) ==
  IF e.mode # Unset THEN ParsedMode(e.mode)
  ELSE CASE PersistedMode(e) = "missing" -> "local" [] PersistedMode(e) = "broken" -> "invalid" [] OTHER -> PersistedMode(e)

NoRemote == [on |-> FALSE, bind |-> Unset, auth |-> Unset]
Remote(bind, auth) == [on |-> TRUE, bind |-> bind, auth |-> auth]
BadRemote == [NoRemote EXCEPT !.bind = Raw("invalid")]
RemoteEnabled(v) ==
  CASE v = Unset \/ v.text \in {"", "0"} -> "off" [] v.text = "1" -> "on" [] OTHER -> "invalid"
\* The bind address is parsed as it is: blanks around it make it invalid.
BindAddress(v) == IF v = Unset THEN Raw("loopback") ELSE v
ValidBind(a) == ~a.padded /\ a.text = "loopback"
\* normalize_remote_auth_token: long enough and printable; a long token may hold what systemd expands.
ValidAuth(v) == v.text \in {"long", "long%"}
RemoteConfig(e) ==
  CASE RemoteEnabled(e.enabled) = "off" -> NoRemote
    [] RemoteEnabled(e.enabled) = "on" /\ ValidBind(BindAddress(e.bind)) /\ e.auth # Unset /\ ValidAuth(e.auth) ->
         Remote(BindAddress(e.bind), Trimmed(e.auth))
    [] OTHER -> BadRemote

\* resolved_daemon_log_path_for_socket_address and select_file_output.
LogDir(e) == IF Normalized(e.logDir) = Unset THEN <<"default", SocketName(e.socket)>> ELSE <<"given", e.logDir.text>>
\* resolved_daemon_observability_config: parse_bool_env and LogFormat::parse, where blank is an error.
ValidObservability(e) == e.stderr.text \in {"unset", "0", "1"} /\ e.format.text \in {"unset", "pretty", "json"}

\* ResolvedDaemonConfig::from_inputs and DaemonConfig::from_resolved.
FromInputs(e) ==
  IF RuntimeMode(e) = "invalid" \/ RemoteConfig(e) = BadRemote \/ ~ValidObservability(e) THEN [st |-> "failed"]
  ELSE [st |-> "up", socket |-> SocketName(e.socket), mode |-> RuntimeMode(e), token |-> Normalized(e.token),
        remote |-> RemoteConfig(e), logDir |-> LogDir(e), stderr |-> e.stderr.text # "0",
        store |-> <<ConfigBaseDir(e), SocketName(e.socket)>>]
\* DaemonConfig::load
Load ==
  /\ conf.st = "starting" /\ conf' = FromInputs(environ)
  /\ UNCHANGED <<environ, modeFile, former, launches>>

\* DaemonControlLaunchConfig::environment: only what is set is in it.  A default log directory is
\* handed on by its path.
LaunchEnvironment(c, token) ==
  LET base == [socket |-> Raw(c.socket), logDir |-> Raw(c.logDir[2]), stderr |-> Raw("0"), token |-> token]
  IN IF ~c.remote.on THEN base
     ELSE [v \in {"socket", "logDir", "stderr", "token", "enabled", "bind", "auth"} |->
             CASE v = "enabled" -> Raw("1") [] v = "bind" -> c.remote.bind [] v = "auth" -> c.remote.auth [] OTHER -> base[v]]
Over(e, more) == [v \in DOMAIN e |-> IF v \in DOMAIN more THEN more[v] ELSE e[v]]

\* systemd_escape quotes blanks, quotes and backslashes; a percent sign is left for systemd to expand.
SystemdReads(v) == IF v.text = "long%" THEN {Unset, Raw("short")} ELSE {v}
\* The variables the service manager gives every process of the user (external).
SessionEnvironment == [[v \in DOMAIN environ |-> Unset] EXCEPT !.home = Raw("home")]

Launches == conf.st = "up" /\ launches < MaxLaunches /\ launches' = launches + 1 /\ former' = conf /\ conf' = [st |-> "starting"]
\* spawn_daemon_process: the child has the environment of its parent, and a new control token.
SpawnDaemonProcess ==
  /\ Launches /\ environ' = Over(environ, LaunchEnvironment(conf, Raw("minted")))
  /\ UNCHANGED modeFile
\* ensure_background_service_running, and the service manager that starts it: build_launch_agent_plist.
StartedByLaunchd ==
  /\ Launches /\ environ' = Over(SessionEnvironment, LaunchEnvironment(conf, Raw("minted")))
  /\ UNCHANGED modeFile
\* build_systemd_user_unit
StartedBySystemd ==
  /\ Launches
  /\ LET given == LaunchEnvironment(conf, Raw("minted"))
     IN IF "auth" \in DOMAIN given
        THEN \E a \in SystemdReads(given.auth) : environ' = Over(SessionEnvironment, [given EXCEPT !.auth = a])
        ELSE environ' = Over(SessionEnvironment, given)
  /\ UNCHANGED modeFile
\* A control operation of the daemon sets the desired mode (complete_runtime_control_transition).
DesiredModeChanges ==
  /\ conf.st = "up"
  /\ \E m \in {"local", "background"} : modeFile' = [modeFile EXCEPT ![ConfigBaseDir(environ)] = m]
  /\ UNCHANGED <<environ, conf, former, launches>>

ConfigInit ==
  /\ environ \in Environments /\ modeFile \in {f \in [ConfigDirs -> PersistedModes] : f["temp"] = "missing"}
  /\ conf = [st |-> "starting"] /\ former = [st |-> "none"] /\ launches = 1
ConfigNext == Load \/ SpawnDaemonProcess \/ StartedByLaunchd \/ StartedBySystemd \/ DesiredModeChanges

-----------------------------------------------------------------------------
Expands(c) == c.remote.on /\ c.remote.auth.text = "long%"
\* A daemon that is started again serves the same socket, listens for remote clients with the same
\* token exactly when the first one did, writes its log to the same directory, holds the token it
\* was given, and, unless the configuration directory is another one, opens the same store.
RelaunchKeeps ==
  former.st = "up" /\ conf.st = "up" /\ ~Expands(former) =>
     /\ conf.socket = former.socket /\ conf.remote = former.remote /\ conf.token = Raw("minted")
     /\ conf.logDir = <<"given", former.logDir[2]>> /\ ~conf.stderr
     /\ former.store # conf.store => conf.store[1] # former.store[1]
\* It starts at all, unless the control file it reads is broken or systemd expanded its token.
RelaunchStarts ==
  former.st = "up" /\ conf.st = "failed" =>
     Expands(former) \/ (environ.mode = Unset /\ modeFile[ConfigBaseDir(environ)] = "broken")
\* No daemon, however it was started, listens for remote clients beyond the machine, or without a
\* token of sufficient length.
RemoteGuarded ==
  conf.st = "up" /\ conf.remote.on => conf.remote.bind = Raw("loopback") /\ ValidAuth(conf.remote.auth)
\* What a daemon configuration guarantees.
ConfigSound == RelaunchKeeps /\ RelaunchStarts /\ RemoteGuarded

-----------------------------------------------------------------------------
(* The unit.                                                                   *)
(* The background service under launchd or systemd: the definition file that   *)
(* the daemon writes, the definition the manager has loaded, the one the       *)
(* process was started with, and the commands that bring them together, each   *)
(* of which may fail.  A definition stands for a program and an environment    *)
(* and is a number; 0 is none.                                                 *)
CONSTANTS
  Definitions,    \* the definitions the daemon asks for, numbers from 1
  MaxServiceOps   \* bound on the operations

VARIABLES
  manager,    \* "launchd" or "systemd"
  unit,       \* [file, loaded, running] definitions, enabled by systemd
  foreign,    \* launchd: the label is loaded from another plist
  op,         \* [name, pc, want, changed, wasLoaded, wasRunning]
  result,     \* the last operation that returned: [what, name, want]
  halfDone,   \* history: an operation failed after the file was written, and none since went through
  serviceOps  \* the operations so far

serviceVars == <<manager, unit, foreign, op, result, halfDone, serviceOps>>

NoOp == [name |-> "none", pc |-> "none", want |-> 0, changed |-> FALSE, wasLoaded |-> FALSE, wasRunning |-> FALSE]

-----------------------------------------------------------------------------
(* What the manager does (external).                                          *)
\* A process of the service that dies is started again with the loaded definition.
Restarts == /\ unit.running # 0 /\ unit.loaded # 0 /\ unit' = [unit EXCEPT !.running = unit.loaded]
            /\ UNCHANGED <<manager, foreign, op, result, halfDone, serviceOps>>
\* A process that exits by itself stays away, as after a reboot without a login.
UnitExits == /\ unit.running # 0 /\ unit' = [unit EXCEPT !.running = 0]
         /\ UNCHANGED <<manager, foreign, op, result, halfDone, serviceOps>>
\* What each command does to the manager.
Bootout(u) == [u EXCEPT !.loaded = 0, !.running = 0]
BootstrapUnit(u) == [u EXCEPT !.loaded = u.file, !.running = u.file]
Kickstart(u) == [u EXCEPT !.running = u.loaded]
DaemonReload(u) == [u EXCEPT !.loaded = IF u.file = 0 THEN IF u.running = 0 THEN 0 ELSE u.loaded ELSE IF u.loaded = 0 THEN 0 ELSE u.file]
Enable(u) == [DaemonReload(u) EXCEPT !.enabled = TRUE]
Restart(u) == [u EXCEPT !.loaded = IF u.loaded = 0 THEN u.file ELSE u.loaded, !.running = IF u.loaded = 0 THEN u.file ELSE u.loaded]
StopUnit(u) == [u EXCEPT !.running = 0]
DisableUnit(u) == [u EXCEPT !.enabled = FALSE]

-----------------------------------------------------------------------------
UnitGoes(next) == op' = [op EXCEPT !.pc = next]
Returns(what) == op' = NoOp /\ result' = [what |-> what, name |-> op.name, want |-> op.want]
Quiet == UNCHANGED <<manager, foreign, serviceOps>>
\* A command of the operation: it works and the operation goes on.
Command(pc, effect, next) ==
  /\ op.pc = pc /\ unit' = effect
  /\ IF next = "done" THEN Returns("ok") /\ halfDone' = (halfDone /\ op.name = "stop") ELSE UnitGoes(next) /\ UNCHANGED <<result, halfDone>>
  /\ Quiet
\* exec_command, ensure_command_success: a command fails, or the daemon dies before the next one.
CommandFails ==
  /\ op.name # "none" /\ op.pc # "write" /\ Returns("error") /\ halfDone' = TRUE /\ UNCHANGED unit /\ Quiet

\* ensure_background_service_running.
EnsureRunning ==
  /\ op.name = "none" /\ serviceOps < MaxServiceOps /\ serviceOps' = serviceOps + 1
  /\ \E d \in Definitions : op' = [NoOp EXCEPT !.name = "ensure", !.pc = "write", !.want = d]
  /\ UNCHANGED <<manager, unit, foreign, result, halfDone>>
\* write_if_changed, which may fail without having written.
WriteIfChanged ==
  /\ op.pc = "write"
  /\ \/ unit' = [unit EXCEPT !.file = op.want] /\ op' = [op EXCEPT !.pc = "read", !.changed = unit.file # op.want]
        /\ UNCHANGED <<result, halfDone>>
     \/ Returns("error") /\ UNCHANGED <<unit, halfDone>>
  /\ Quiet
\* read_launch_agent_state: a service that is loaded from another plist is not this one.
ReadLaunchAgentState ==
  [loaded |-> unit.loaded # 0 /\ ~foreign, running |-> unit.running # 0 /\ unit.loaded # 0 /\ ~foreign]
ReadSystemdUserServiceState == [loaded |-> unit.loaded # 0, running |-> unit.running # 0]
State == IF manager = "launchd" THEN ReadLaunchAgentState ELSE ReadSystemdUserServiceState
\* The user bus may be away for the moment: the unit then counts as neither loaded nor running.
BusUnavailable == [loaded |-> FALSE, running |-> FALSE]
ReadsState ==
  /\ op.pc = "read"
  /\ CASE manager = "launchd" /\ State.running /\ ~op.changed -> Returns("ok") /\ UNCHANGED halfDone
       [] manager = "launchd" /\ ~(State.running /\ ~op.changed) ->
            op' = [op EXCEPT !.pc = IF State.loaded THEN "bootout" ELSE "clear"] /\ UNCHANGED <<result, halfDone>>
       [] manager = "systemd" ->
            /\ \E seen \in {State, BusUnavailable} :
                 op' = [op EXCEPT !.pc = IF op.changed THEN "reload" ELSE "decide", !.wasRunning = seen.running]
            /\ UNCHANGED <<result, halfDone>>
  /\ UNCHANGED unit /\ Quiet
BootoutLaunchAgent == Command("bootout", Bootout(unit), CASE op.name = "ensure" -> "clear" [] op.name = "disable" -> "remove" [] op.name = "stop" -> "done")
ClearDisabledOverride == Command("clear", unit, "bootstrap")
\* A label that is loaded from elsewhere cannot be bootstrapped.
BootstrapLaunchAgent == ~foreign /\ unit.loaded = 0 /\ Command("bootstrap", BootstrapUnit(unit), "kickstart")
KickstartLaunchAgent == Command("kickstart", Kickstart(unit), "done")
DaemonReloadSystemd == Command("reload", DaemonReload(unit), IF op.name = "ensure" THEN "decide" ELSE "done")
Decides ==
  /\ op.pc = "decide"
  /\ IF op.wasRunning /\ ~op.changed THEN Returns("ok") /\ UNCHANGED halfDone ELSE UnitGoes("enable") /\ UNCHANGED <<result, halfDone>>
  /\ UNCHANGED unit /\ Quiet
EnableSystemdUnit == Command("enable", Enable(unit), "restart")
RestartSystemdUnit == Command("restart", Restart(unit), "done")

\* disable_background_service_runtime_only: stop, disable, remove the file, reload.
DisableService ==
  /\ op.name = "none" /\ serviceOps < MaxServiceOps /\ serviceOps' = serviceOps + 1
  /\ op' = [NoOp EXCEPT !.name = "disable", !.pc = IF manager = "systemd" THEN "stop" ELSE IF State.loaded THEN "bootout" ELSE "remove"]
  /\ UNCHANGED <<manager, unit, foreign, result, halfDone>>
\* stop_background_service.
StopService ==
  /\ op.name = "none" /\ serviceOps < MaxServiceOps /\ serviceOps' = serviceOps + 1
  /\ CASE manager = "systemd" -> op' = [NoOp EXCEPT !.name = "stop", !.pc = "stop"] /\ UNCHANGED result
       [] manager = "launchd" /\ State.loaded -> op' = [NoOp EXCEPT !.name = "stop", !.pc = "bootout"] /\ UNCHANGED result
       [] manager = "launchd" /\ ~State.loaded -> op' = op /\ result' = [what |-> "ok", name |-> "stop", want |-> 0]
  /\ UNCHANGED <<manager, unit, foreign, halfDone>>
StopSystemdUnit == Command("stop", StopUnit(unit), IF op.name = "stop" THEN "done" ELSE "disable")
DisableSystemdUnit == Command("disable", DisableUnit(unit), "remove")
RemoveIfExists == Command("remove", [unit EXCEPT !.file = 0], IF manager = "systemd" THEN "reload" ELSE "done")

ServiceInit ==
  /\ manager \in {"launchd", "systemd"} /\ foreign \in (IF manager = "launchd" THEN BOOLEAN ELSE {FALSE})
  /\ unit = [file |-> 0, loaded |-> 0, running |-> 0, enabled |-> FALSE]
  /\ op = NoOp /\ result = [what |-> "none", name |-> "none", want |-> 0] /\ halfDone = FALSE /\ serviceOps = 0
ServiceNext ==
  \/ Restarts \/ UnitExits \/ EnsureRunning \/ WriteIfChanged \/ ReadsState \/ DisableService \/ StopService \/ CommandFails
  \/ BootoutLaunchAgent \/ ClearDisabledOverride \/ BootstrapLaunchAgent \/ KickstartLaunchAgent
  \/ DaemonReloadSystemd \/ Decides \/ EnableSystemdUnit \/ RestartSystemdUnit
  \/ StopSystemdUnit \/ DisableSystemdUnit \/ RemoveIfExists

-----------------------------------------------------------------------------
\* An ensure that returned without an error left the definition it was asked for in the file and
\* in the manager, and no process of another one; unless an earlier operation stopped half way: then
\* the file is unchanged, the old process is running, and the call returns at once.
EnsuredRuns ==
  result.what = "ok" /\ result.name = "ensure" /\ op = NoOp /\ ~halfDone =>
     unit.file = result.want /\ unit.loaded = result.want /\ unit.running \in {0, result.want} /\ ~foreign
\* A disable that returned without an error left nothing behind that could start the daemon
\* again, whatever earlier operations left.
DisabledIsGone ==
  result.what = "ok" /\ result.name = "disable" /\ op = NoOp =>
     unit = [file |-> 0, loaded |-> 0, running |-> 0, enabled |-> FALSE]
\* What the operations on the background service promise.
ServiceSound == EnsuredRuns /\ DisabledIsGone

-----------------------------------------------------------------------------
(* The private files.                                                          *)
(* How the control state and the ownership record reach the disk: a new file   *)
(* beside the old one, written, synced, renamed over it, and the directory     *)
(* synced, while other processes read it and the daemon or the machine may go  *)
(* down between any two steps.  A version is a number and stands for the whole *)
(* contents; what the file system has not synced may or may not survive.       *)
CONSTANT MaxVersions   \* bound on the writes

VARIABLES
  writer,     \* the step of the write in progress
  version,    \* the version being written, or the last one
  temp,       \* the new file: [there, whole, synced]
  name,       \* what the name leads to: [version, whole]
  onDisk,     \* what it leads to after a power loss: a set of possible [version, whole]
  returned,   \* the last version whose write returned without an error
  leftover    \* a write that was cut off left its temporary file

fileVars == <<writer, version, temp, name, onDisk, returned, leftover>>

Whole(v) == [version |-> v, whole |-> TRUE]
NoTemp == [there |-> FALSE, whole |-> FALSE, synced |-> FALSE]
Step(from, to) == writer = from /\ writer' = to

\* write_private_file_atomically: a file of that name must not exist yet; it is private at once.
CreateTemp ==
  /\ Step("idle", "write") /\ version < MaxVersions /\ version' = version + 1
  /\ temp' = [there |-> TRUE, whole |-> FALSE, synced |-> FALSE]
  /\ UNCHANGED <<name, onDisk, returned, leftover>>
WriteAll ==
  /\ Step("write", "sync") /\ temp' = [temp EXCEPT !.whole = TRUE]
  /\ UNCHANGED <<version, name, onDisk, returned, leftover>>
\* Mutant: the new file is not synced before it takes the name.
NotSynced ==
  /\ Step("sync", "rename") /\ UNCHANGED <<temp, version, name, onDisk, returned, leftover>>
SyncAll ==
  /\ Step("sync", "rename") /\ temp' = [temp EXCEPT !.synced = TRUE]
  /\ UNCHANGED <<version, name, onDisk, returned, leftover>>
\* A write or sync that fails removes the temporary file; the version is given up.
WriteFails ==
  /\ writer \in {"write", "sync"} /\ writer' = "idle" /\ temp' = NoTemp
  /\ UNCHANGED <<version, name, onDisk, returned, leftover>>
\* The rename is one step for every reader, and may reach the disk at any time after it.
Rename ==
  /\ Step("rename", "syncdir")
  /\ name' = [version |-> version, whole |-> temp.whole]
  /\ onDisk' = onDisk \cup {[version |-> version, whole |-> temp.whole /\ temp.synced]}
  /\ temp' = NoTemp /\ UNCHANGED <<version, returned, leftover>>
RenameFails ==
  /\ Step("rename", "idle") /\ leftover' = TRUE /\ temp' = NoTemp
  /\ UNCHANGED <<version, name, onDisk, returned>>
\* sync_parent_dir: afterwards only the new name can be found.
SyncParentDir ==
  /\ Step("syncdir", "idle") /\ returned' = version
  /\ onDisk' = {f \in onDisk : f.version = version}
  /\ UNCHANGED <<version, temp, name, leftover>>
SyncParentFails == Step("syncdir", "idle") /\ UNCHANGED <<version, temp, name, onDisk, returned, leftover>>
\* The daemon dies: what it had done stays.
WriterDies ==
  /\ writer # "idle" /\ writer' = "idle" /\ leftover' = (leftover \/ temp.there) /\ temp' = NoTemp
  /\ UNCHANGED <<version, name, onDisk, returned>>
\* The machine dies: one of the possible contents is found at the next boot.
PowerLoss ==
  /\ writer' = "idle" /\ leftover' = (leftover \/ temp.there) /\ temp' = NoTemp
  /\ \E f \in onDisk : name' = f /\ onDisk' = {f}
  /\ UNCHANGED <<version, returned>>

FileInit ==
  /\ writer = "idle" /\ version = 0 /\ temp = NoTemp /\ returned = 0 /\ leftover = FALSE
  /\ name = Whole(0) /\ onDisk = {Whole(0)}
FileNext ==
  \/ CreateTemp \/ WriteAll \/ SyncAll \/ WriteFails \/ Rename \/ RenameFails
  \/ SyncParentDir \/ SyncParentFails \/ WriterDies \/ PowerLoss

-----------------------------------------------------------------------------
\* Whoever opens the record, also after a power loss, reads one whole version, and none older than
\* the last write that returned.
RecordWhole == name.whole /\ name.version >= returned
=============================================================================
