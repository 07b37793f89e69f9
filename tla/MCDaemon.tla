------------------------------ MODULE MCDaemon ------------------------------
(* The daemon as a process of its host, in six independent sides: the control   *)
(* plane that moves it between its modes, the local socket it contends for, the *)
(* websocket and the task that serves both, the settings it starts with, the    *)
(* service manager's unit, and its private files.  A behaviour takes one side.  *)
EXTENDS DaemonControl, DaemonSocket, RemoteLink, DaemonSettings, TLC

VARIABLE side

\* Processes of the control plane differ in nothing but their pid.
ProcSymmetry == Permutations(Procs)

Text(v, f, m, i) == [kind |-> "text", version |-> v, fields |-> f, method |-> m, id |-> i]
SomeFrames ==
  {Text("2.0", {"id", "method"}, "initialize", 1), Text("2.0", {"id", "method", "params"}, "status", 2),
   Text("2.0", {"method"}, "note", 0), Text("1.0", {"id", "method"}, "initialize", 3),
   [kind |-> "binary", version |-> "none", fields |-> {}, method |-> "none", id |-> 0]}

Padded(t) == [text |-> t, padded |-> TRUE]
RemoteSettings ==
  {<<Unset, Unset, Unset>>, <<Raw("1"), Unset, Padded("long")>>, <<Raw("1"), Raw("loopback"), Raw("long%")>>,
   <<Raw("1"), Raw("public"), Raw("long")>>, <<Raw("1"), Padded("loopback"), Raw("long")>>, <<Raw("1"), Unset, Unset>>,
   <<Padded("1"), Unset, Raw("short")>>, <<Raw("maybe"), Unset, Raw("long")>>}
SomeEnvironments ==
  {[socket |-> s, mode |-> m, token |-> t, enabled |-> r[1], bind |-> r[2], auth |-> r[3], logDir |-> l[1], stderr |-> l[2],
    format |-> l[3], xdg |-> x, home |-> Raw("home")] :
     s \in {Unset, Padded("s1"), Raw("")}, m \in {Unset, Raw("background"), Raw("other")}, t \in {Unset, Raw("t1")},
     r \in RemoteSettings, l \in {<<Unset, Unset, Unset>>, <<Raw("logs"), Raw(""), Raw("json")>>}, x \in {Unset, Raw("xdg")}}

\* A side that is not taken has one initial state.
OneConfig ==
  /\ environ = (CHOOSE e \in Environments : TRUE) /\ modeFile = [d \in ConfigDirs |-> "missing"]
  /\ conf = [st |-> "starting"] /\ former = [st |-> "none"] /\ launches = 1
SidesInit ==
  /\ side \in {"control", "socket", "link", "config", "unit", "file"}
  /\ Init /\ (side # "control" => daemon = NoDaemon)
  /\ SocketInit /\ (side # "socket" => path = NobodyThere)
  /\ LinkInit /\ FileInit
  /\ ServiceInit /\ (side # "unit" => manager = "systemd")
  /\ IF side = "config" THEN ConfigInit ELSE OneConfig
SidesNext ==
  \/ (side = "control" /\ Next /\ UNCHANGED <<socketVars, linkVars, configVars, serviceVars, fileVars, side>>)
  \/ (side = "socket" /\ SocketNext /\ UNCHANGED <<vars, linkVars, configVars, serviceVars, fileVars, side>>)
  \/ (side = "link" /\ LinkNext /\ UNCHANGED <<vars, socketVars, configVars, serviceVars, fileVars, side>>)
  \/ (side = "config" /\ ConfigNext /\ UNCHANGED <<vars, socketVars, linkVars, serviceVars, fileVars, side>>)
  \/ (side = "unit" /\ ServiceNext /\ UNCHANGED <<vars, socketVars, linkVars, configVars, fileVars, side>>)
  \/ (side = "file" /\ FileNext /\ UNCHANGED <<vars, socketVars, linkVars, configVars, serviceVars, side>>)
-----------------------------------------------------------------------------
\* The daemon a service manager starts is the one that was configured: the settings survive the
\* unit file, the unit is as enabled as it was left, and the private files are whole after a crash.
StartHolds == /\ side = "config" => ConfigSound
              /\ side = "unit" => ServiceSound
              /\ side = "file" => RecordWhole
=============================================================================
