---------------------------- MODULE DaemonSocket ----------------------------
(* The path of the local socket and the daemons that want it: what a daemon    *)
(* does before it listens, how it tells a stale socket from a live one, and    *)
(* the one-shot calls of the command line, which starts, stops and restarts a  *)
(* daemon and polls until it answers or no longer does.                        *)
EXTENDS Integers, Sequences, FiniteSets

CONSTANTS
  Daemons,       \* processes that may run as the daemon of one user
  MaxBoots,      \* bound on the daemons that are started
  MaxPolls,      \* polls of the command line before its deadline
  MaxCommands,   \* bound on its commands
  LogLengths, Tails   \* lines in a log and lines asked for

NobodyThere == 0
Stranger == -1       \* a file that is not a socket
ASSUME DaemonsAreNumbered == Daemons \subseteq Nat \ {NobodyThere}
ASSUME LinesAreCounted == MaxPolls \in Nat /\ LogLengths \subseteq Nat /\ Tails \subseteq Nat

VARIABLES
  path,       \* NobodyThere, Stranger, or the daemon whose socket lies there
  process,    \* daemon |-> "down", "boot", "probed", "bind", "up" or "stopping"
  hung,       \* the daemons that accept and do not answer
  clock,      \* orders probes and binds
  since,      \* daemon |-> when it began to listen
  looked,     \* daemon |-> when it looked at the path
  runOwner,      \* the daemon that executes the run, or NobodyThere
  runState,   \* "none", "running" or "failed": the run in the store
  boots,
  command,    \* [pc, op, left, target, since, id, said]: the command line
  commands,   \* commands given so far
  displaced,  \* history: sockets removed under a daemon that listened
  broken      \* history: daemons that executed the run when the boot of another failed it

pathVars == <<path, process, clock, since, looked, displaced>>
commandVars == <<command, commands>>
socketVars == <<pathVars, hung, runOwner, runState, boots, commandVars, broken>>

Listens(d) == process[d] \in {"up", "stopping"}
Serves(d) == Listens(d) /\ path = d

-----------------------------------------------------------------------------
(* A daemon comes up: the store first, then the path.                         *)
\* boot_with_store: what the store has as active is failed, before the path is looked at.
Boot(d) ==
  /\ process[d] = "down" /\ boots < MaxBoots /\ boots' = boots + 1
  /\ process' = [process EXCEPT ![d] = "boot"]
  /\ runState' = (IF runState = "running" THEN "failed" ELSE runState)
  /\ broken' = (IF runState = "running" /\ runOwner # NobodyThere /\ Listens(runOwner) THEN broken \cup {runOwner} ELSE broken)
  /\ UNCHANGED <<path, clock, since, looked, displaced, hung, runOwner, commandVars>>
\* Mutant: any socket is taken for a stale one.
ProbeNothing(d) ==
  /\ process[d] = "boot" /\ clock' = clock + 1 /\ looked' = [looked EXCEPT ![d] = clock]
  /\ process' = [process EXCEPT ![d] = IF path = NobodyThere THEN "bind" ELSE IF path = Stranger THEN "down" ELSE "probed"]
  /\ UNCHANGED <<path, since, displaced, hung, runOwner, runState, boots, commandVars, broken>>
\* remove_stale_socket: a file that is no socket, and a socket that takes a connection, are left
\* alone, and the daemon exits.
Probe(d) ==
  /\ process[d] = "boot" /\ clock' = clock + 1 /\ looked' = [looked EXCEPT ![d] = clock]
  /\ process' = [process EXCEPT ![d] =
       CASE path = NobodyThere -> "bind" [] path = Stranger -> "down"
         [] path \in Daemons -> IF Listens(path) THEN "down" ELSE "probed"]
  /\ UNCHANGED <<path, since, displaced, hung, runOwner, runState, boots, commandVars, broken>>
\* remove_socket_file: what lies there by then, or nothing.
RemoveSocketFile(d) ==
  /\ process[d] = "probed" /\ process' = [process EXCEPT ![d] = "bind"] /\ path' = NobodyThere
  /\ displaced' = (IF path \in Daemons /\ Listens(path) THEN displaced \cup {[whom |-> path, lookedBefore |-> looked[d] < since[path]]} ELSE displaced)
  /\ UNCHANGED <<clock, since, looked, hung, runOwner, runState, boots, commandVars, broken>>
\* bind_listener_tokio: nothing may lie there.
BindListener(d) ==
  /\ process[d] = "bind" /\ clock' = clock + 1
  /\ IF path = NobodyThere THEN path' = d /\ process' = [process EXCEPT ![d] = "up"] /\ since' = [since EXCEPT ![d] = clock]
     ELSE process' = [process EXCEPT ![d] = "down"] /\ UNCHANGED <<path, since>>
  /\ UNCHANGED <<looked, displaced, hung, runOwner, runState, boots, commandVars, broken>>
\* A run is started by the daemon that can be reached.
RunStarts(d) ==
  /\ Serves(d) /\ d \notin hung /\ runState = "none" /\ runState' = "running" /\ runOwner' = d
  /\ UNCHANGED <<pathVars, hung, boots, commandVars, broken>>

\* The daemon ends; its listener takes the path with it, or the process is killed and leaves it.
DaemonExits(d) ==
  /\ Listens(d) /\ process' = [process EXCEPT ![d] = "down"] /\ hung' = hung \ {d}
  /\ path' \in {path, IF path = d THEN NobodyThere ELSE path}
  /\ runOwner' = (IF runOwner = d THEN NobodyThere ELSE runOwner)
  /\ UNCHANGED <<clock, since, looked, displaced, runState, boots, commandVars, broken>>
Hangs(d) ==
  /\ Serves(d) /\ hung' = hung \cup {d} /\ UNCHANGED <<pathVars, runOwner, runState, boots, commandVars, broken>>

-----------------------------------------------------------------------------
(* One call of the command line, each over a connection of its own.           *)
\* connect_socket and the one line that comes back.
Replies(id) ==
  IF path \notin Daemons \/ ~Listens(path) THEN {[kind |-> "refused", id |-> 0]}
  ELSE IF path \in hung THEN {[kind |-> "silence", id |-> 0]}
  ELSE {[kind |-> "response", id |-> id], [kind |-> "unready", id |-> id], [kind |-> "error", id |-> id], [kind |-> "error", id |-> 0]}
       \cup (IF process[path] = "stopping" THEN {[kind |-> "end", id |-> 0]} ELSE {})
\* send_request: only an answer with the id of the request counts, and only the first line is read.
SendRequest(id, r) ==
  CASE r.kind = "refused" -> "socket" [] r.kind = "silence" -> "responseTimeout" [] r.kind = "end" -> "connectionClosed"
    [] r.kind = "response" -> IF r.id = id THEN "ok" ELSE "mismatchedResponseId"
    [] r.kind = "unready" -> IF r.id = id THEN "unready" ELSE "mismatchedResponseId"
    [] r.kind = "error" -> IF r.id = id THEN "remote" ELSE "mismatchedErrorId"
\* is_daemon_unavailable
Unavailable(answer) == answer \in {"socket", "read", "write", "flush", "connectionClosed", "responseTimeout"}

NoCommand == [pc |-> "idle", op |-> "none", left |-> 0, target |-> NobodyThere, since |-> 0, id |-> 1, said |-> "none"]
Says(what) == command' = [command EXCEPT !.pc = "idle", !.said = what]
CommandGoes(pc) == command' = [command EXCEPT !.pc = pc, !.left = MaxPolls, !.id = @ + 1]
CommandOnly == UNCHANGED <<pathVars, hung, runOwner, runState, boots, broken, commands>>
\* call: every call takes the next id.
Polls(pc, answer) ==
  /\ command.pc = pc /\ \E r \in Replies(command.id) : answer = SendRequest(command.id, r)

Give(op) ==
  /\ command.pc = "idle" /\ commands < MaxCommands /\ commands' = commands + 1
  /\ command' = [NoCommand EXCEPT !.pc = CASE op = "start" -> "ask" [] op = "wait" -> "await" [] op = "stop" -> "stop" [] op = "restart" -> "mode",
                                  !.op = op, !.left = MaxPolls, !.id = command.id + 1]
  /\ UNCHANGED <<pathVars, hung, runOwner, runState, boots, broken>>
\* A daemon answers, ready or on a host without the capabilities it needs.
Reachable(answer) == answer \in {"ok", "unready"}
\* start_daemon: one that answers is left as it is, and waited for until it is ready.
StartAsks(answer) ==
  /\ Polls("ask", answer)
  /\ IF answer = "ok" THEN Says("alreadyRunning") ELSE IF answer = "unready" THEN CommandGoes("await") ELSE IF Unavailable(answer) THEN CommandGoes("launch") ELSE Says("error")
  /\ CommandOnly
\* run_bootstrap_subcommand(Start): a daemon is started, and it is waited for inside.
LaunchDaemon ==
  /\ command.pc = "launch"
  /\ \/ (\E d \in Daemons : Serves(d)) /\ Says("started")
     \/ Says("error")
  /\ CommandOnly
\* restart_daemon asks how the daemon runs, and has to be answered.
RestartAsks(answer) ==
  /\ Polls("mode", answer) /\ (IF Reachable(answer) THEN CommandGoes("stop") ELSE Says("error")) /\ CommandOnly
\* run_bootstrap_subcommand(Stop): the daemon that can be reached is told to stop.
StopAsked ==
  /\ command.pc = "stop"
  /\ \/ /\ path \in Daemons /\ Listens(path)
        /\ command' = [command EXCEPT !.pc = "gone", !.target = path, !.since = since[path], !.left = MaxPolls]
        /\ process' = (IF path \in hung THEN process ELSE [process EXCEPT ![path] = "stopping"])
     \/ ~(path \in Daemons /\ Listens(path)) /\ (IF command.op = "restart" THEN CommandGoes("ask") ELSE Says("stopped")) /\ UNCHANGED process
     \/ Says("error") /\ UNCHANGED process
  /\ UNCHANGED <<path, clock, since, looked, displaced, hung, runOwner, runState, boots, broken, commands>>
\* wait_for_daemon_shutdown: until nobody answers.
WaitForShutdown(answer) ==
  /\ Polls("gone", answer)
  /\ IF Reachable(answer) THEN IF command.left > 0 THEN command' = [command EXCEPT !.left = @ - 1, !.id = @ + 1] ELSE Says("timeout")
     ELSE IF Unavailable(answer) THEN IF command.op = "restart" THEN CommandGoes("ask") ELSE Says("stopped")
     ELSE Says("error")
  /\ CommandOnly
\* wait_for_daemon_status: until somebody does.
WaitForStatus(answer) ==
  /\ Polls("await", answer)
  /\ IF answer = "ok" THEN Says(IF command.op = "wait" THEN "ready" ELSE "alreadyRunning")
     ELSE IF answer # "unready" /\ ~Unavailable(answer) THEN Says("error")
     ELSE IF command.left > 0 THEN command' = [command EXCEPT !.left = @ - 1, !.id = @ + 1] ELSE Says("timeout")
  /\ CommandOnly

\* tail_lines: zero asks for all of them.
TailLines(lines, tail) ==
  IF lines = 0 THEN [shown |-> 0, truncated |-> FALSE]
  ELSE IF tail = 0 \/ lines <= tail THEN [shown |-> lines, truncated |-> FALSE]
  ELSE [shown |-> tail, truncated |-> TRUE]

-----------------------------------------------------------------------------
SocketInit ==
  /\ path \in {NobodyThere, Stranger} /\ process = [d \in Daemons |-> "down"] /\ hung = {} /\ clock = 1
  /\ since = [d \in Daemons |-> 0] /\ looked = [d \in Daemons |-> 0] /\ runOwner = NobodyThere /\ runState = "none"
  /\ boots = 0 /\ command = NoCommand /\ commands = 0 /\ displaced = {} /\ broken = {}
SocketAnswers == {"ok", "unready", "remote", "mismatchedErrorId", "socket", "responseTimeout", "connectionClosed"}
SocketNext ==
  \/ \E d \in Daemons : Boot(d) \/ Probe(d) \/ RemoveSocketFile(d) \/ BindListener(d) \/ RunStarts(d) \/ DaemonExits(d) \/ Hangs(d)
  \/ \E op \in {"start", "wait", "stop", "restart"} : Give(op)
  \/ \E a \in SocketAnswers : StartAsks(a) \/ RestartAsks(a) \/ WaitForShutdown(a) \/ WaitForStatus(a)
  \/ LaunchDaemon \/ StopAsked
SocketSpec == SocketInit /\ [][SocketNext]_socketVars

-----------------------------------------------------------------------------
\* A daemon that listens keeps its path against every daemon that looks at the path later: only
\* one that had looked before it began to listen can still take the path away.
ListenerKeepsPath == \A x \in displaced : x.lookedBefore
\* At most one daemon listens on the path, and any other that listens was pushed off it.
OneServes == \A d \in Daemons : Listens(d) /\ path # d => \E x \in displaced : x.whom = d
\* When the command line says that the daemon has stopped, the one it had told to is not up, unless
\* it hangs.
StopTold ==
  command.said = "stopped" /\ command.target # NobodyThere =>
    LET t == command.target IN ~(process[t] = "up" /\ since[t] = command.since /\ t \notin hung)
\* The tail of a log is what was asked for, and says truncated exactly when lines are missing.
TailTold ==
  \A n \in LogLengths, t \in Tails :
    /\ TailLines(n, t).truncated <=> TailLines(n, t).shown < n
    /\ t > 0 => TailLines(n, t).shown <= t
\* What the local socket and the command line guarantee.
SocketSound == ListenerKeepsPath /\ OneServes /\ StopTold /\ TailTold

\* A second daemon that is started while one serves fails without breaking it: no run that a
\* daemon executes is failed by the boot of another.
SecondBreaksNothing == broken = {}
=============================================================================
