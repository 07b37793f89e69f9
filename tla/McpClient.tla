----------------------------- MODULE McpClient ------------------------------
(***************************************************************************)
(* The MCP servers of one agent turn (taugentic-agent/src/mcp): they are   *)
(* started and asked for their tools one after the other, their tools are  *)
(* called by tasks that share one lock per server, a call that times out   *)
(* or is cancelled takes the whole server down, and the servers are        *)
(* disconnected when the turn drops them.                                  *)
(*                                                                         *)
(* A server process may start a helper; both are in one process group.     *)
(***************************************************************************)
EXTENDS Naturals, FiniteSets, Sequences

CONSTANTS
    MaxServers,   \* number of enabled MCP extensions
    MaxMcpCalls,  \* number of tool calls
    ToolLists,    \* what a server may list: sequences of tool names
    Builtins,     \* names of the built-in tools
    Commands,     \* [spelled, real]: where the command is, before and after symlinks
    MaxStuck      \* bound on process trees that cannot be terminated

\* What servers list are sequences of tools' names, and there is a first server.
McpTools == UNION { {tools[i] : i \in DOMAIN tools} : tools \in ToolLists }
ASSUME McpAssumption ==
    /\ MaxServers \in Nat \ {0} /\ MaxMcpCalls \in Nat
    /\ ToolLists \subseteq Seq(McpTools)

Servers == 1..MaxServers
McpCalls == 1..MaxMcpCalls
Ended == {"ok", "failed", "timedOut", "cancelled"}

VARIABLES
    mount,      \* [phase, at]: the server being mounted
    command,    \* server -> its command
    readRoots,      \* server -> the directories its perimeter lets it read
    procs,      \* server -> the live processes of its group
    service,    \* server -> "none", "open", "closing" or "gone"
    holder,     \* server -> the call that holds the service lock, or 0
    toolRegistry,   \* tool name -> <<server, remote name>>, <<0, name>> for a built-in
    listed,     \* server -> what it listed
    toolCalls,      \* call -> [server, st, why]
    turnCancelled,
    stuck,      \* servers whose tree could not be terminated
    dropped     \* servers whose client was dropped without a disconnect

mcpVars == <<mount, command, readRoots, procs, service, holder, toolRegistry, listed, toolCalls,
             turnCancelled, stuck, dropped>>

-----------------------------------------------------------------------------
(* The perimeter of a server *)

\* Directories under HOME that are neither the workspace nor the cache of the server.
IsDisallowedHomePath(p) == p = "home"

\* command_read_paths: the folder of the command as spelled and as resolved, each checked.
CommandReadPaths(cmd) ==
    IF \E p \in {cmd.spelled, cmd.real} : IsDisallowedHomePath(p)
    THEN {"refused"} ELSE {cmd.spelled, cmd.real}

\* validate_mcp_cache_symlink_target: the cache may not be a link to another place in HOME.
CacheRefused(cmd) == cmd.cache = "home"

\* build_mcp_execution_spec.
PerimeterRoots(cmd) ==
    IF cmd.spelled = "relative" \/ CacheRefused(cmd) \/ CommandReadPaths(cmd) = {"refused"}
    THEN {"refused"} ELSE {cmd.cache, "temp", "system"} \cup CommandReadPaths(cmd)

-----------------------------------------------------------------------------
(* Mounting *)

McpInit ==
    /\ mount = [phase |-> "spawning", at |-> 1]
    /\ command \in [Servers -> Commands]
    /\ readRoots = [s \in Servers |-> {}]
    /\ procs = [s \in Servers |-> {}]
    /\ service = [s \in Servers |-> "none"]
    /\ holder = [s \in Servers |-> 0]
    /\ toolRegistry = [n \in {0} \X Builtins |-> n]
    /\ listed = [s \in Servers |-> <<>>]
    /\ toolCalls = [c \in McpCalls |-> [server |-> 0, st |-> "idle", why |-> ""]]
    /\ turnCancelled = FALSE
    /\ stuck = {}
    /\ dropped = {}

\* terminate_child_tree: the whole group is signalled, then killed; it may fail once or twice.
Terminates(s) ==
    \/ procs' = [procs EXCEPT ![s] = {}] /\ UNCHANGED stuck
    \/ /\ procs[s] # {}
       /\ Cardinality(stuck) < MaxStuck
       /\ stuck' = stuck \cup {s}
       /\ UNCHANGED procs

\* connect_stdio: the process is started inside its perimeter, or refused.
SpawnServer ==
    /\ mount.phase = "spawning"
    /\ LET s == mount.at
           r == PerimeterRoots(command[s])
       IN IF r = {"refused"}
          THEN mount' = [mount EXCEPT !.phase = "unwinding"] /\ UNCHANGED <<readRoots, procs>>
          ELSE /\ readRoots' = [readRoots EXCEPT ![s] = r]
               /\ procs' = [procs EXCEPT ![s] = {"child"}]
               /\ mount' = [mount EXCEPT !.phase = "initializing"]
    /\ UNCHANGED <<command, service, holder, toolRegistry, listed, toolCalls, turnCancelled, stuck, dropped>>

\* The server starts a helper of its own (external).
StartsHelper(s) ==
    /\ "child" \in procs[s]
    /\ procs' = [procs EXCEPT ![s] = @ \cup {"helper"}]
    /\ UNCHANGED <<mount, command, readRoots, service, holder, toolRegistry, listed, toolCalls, turnCancelled, stuck, dropped>>

\* connect_transport: the handshake succeeds.
Initialized ==
    /\ mount.phase = "initializing"
    /\ "child" \in procs[mount.at]
    /\ service' = [service EXCEPT ![mount.at] = "open"]
    /\ mount' = [mount EXCEPT !.phase = "listing"]
    /\ UNCHANGED <<command, readRoots, procs, holder, toolRegistry, listed, toolCalls, turnCancelled, stuck, dropped>>

\* connect_transport: the handshake fails or times out; the process goes at once.
InitializeFails ==
    /\ mount.phase = "initializing"
    /\ Terminates(mount.at)
    /\ mount' = [mount EXCEPT !.phase = "unwinding"]
    /\ UNCHANGED <<command, readRoots, service, holder, toolRegistry, listed, toolCalls, turnCancelled, dropped>>

\* A tool takes its plain name, <<0, tool>>, or, where that is taken, mcp/<server>/<tool>.
TakesPlainName(reg, tools, i) == <<0, tools[i]>> \notin DOMAIN reg /\ \A j \in 1..i - 1 : tools[j] # tools[i]
RegisteredName(reg, s, tools, i) == IF TakesPlainName(reg, tools, i) THEN <<0, tools[i]>> ELSE <<s, tools[i]>>

\* The registry after the tools of a server are added.
WithTools(reg, s, tools) ==
    LET added == {RegisteredName(reg, s, tools, i) : i \in DOMAIN tools} IN
    [n \in DOMAIN reg \cup added |-> IF n \in added THEN <<s, n[2]>> ELSE reg[n]]

\* list_tools answers; the tools are registered and the next server is mounted.
ListsTools ==
    /\ mount.phase = "listing"
    /\ "child" \in procs[mount.at]
    /\ \E tools \in ToolLists :
          /\ listed' = [listed EXCEPT ![mount.at] = tools]
          /\ toolRegistry' = WithTools(toolRegistry, mount.at, tools)
    /\ mount' = IF mount.at = MaxServers THEN [mount EXCEPT !.phase = "mounted"]
                ELSE [phase |-> "spawning", at |-> mount.at + 1]
    /\ UNCHANGED <<command, readRoots, procs, service, holder, toolCalls, turnCancelled, stuck, dropped>>

\* list_tools fails or times out: the client is dropped, which kills the child and no more.
ListFails ==
    /\ mount.phase = "listing"
    /\ service' = [service EXCEPT ![mount.at] = "gone"]
    /\ procs' = [procs EXCEPT ![mount.at] = @ \ {"child"}]
    /\ dropped' = dropped \cup {mount.at}
    /\ mount' = [mount EXCEPT !.phase = "unwinding"]
    /\ UNCHANGED <<command, readRoots, holder, toolRegistry, listed, toolCalls, turnCancelled, stuck>>

-----------------------------------------------------------------------------
(* Tool calls *)

\* call_tool: arguments that are no object are refused, else a task is spawned.
CallTool(c) ==
    /\ mount.phase = "mounted"
    /\ toolCalls[c].st = "idle"
    /\ \A d \in 1..c - 1 : toolCalls[d].st # "idle"
    /\ \E s \in Servers, st \in {"failed", "waiting"} :
          toolCalls' = [toolCalls EXCEPT ![c] = [server |-> s, st |-> st, why |-> ""]]
    /\ UNCHANGED <<mount, command, readRoots, procs, service, holder, toolRegistry, listed, turnCancelled, stuck, dropped>>

\* call_tool_request: the task has the lock; a disconnected server answers nothing.
SendsCall(c) ==
    /\ toolCalls[c].st = "waiting"
    /\ holder[toolCalls[c].server] = 0
    /\ IF service[toolCalls[c].server] = "open"
       THEN /\ toolCalls' = [toolCalls EXCEPT ![c].st = "sent"]
            /\ holder' = [holder EXCEPT ![toolCalls[c].server] = c]
       ELSE toolCalls' = [toolCalls EXCEPT ![c].st = "failed"] /\ UNCHANGED holder
    /\ UNCHANGED <<mount, command, readRoots, procs, service, toolRegistry, listed, turnCancelled, stuck, dropped>>

\* The lock goes with the task that held it.
Unlock(c) == holder' = [s \in Servers |-> IF holder[s] = c THEN 0 ELSE holder[s]]

\* The server answers with a result (external); the task ends and gives the lock back.
ServerAnswers(c) ==
    /\ toolCalls[c].st = "sent"
    /\ "child" \in procs[toolCalls[c].server]
    /\ toolCalls' = [toolCalls EXCEPT ![c].st = "answered"]
    /\ Unlock(c)
    /\ UNCHANGED <<mount, command, readRoots, procs, service, toolRegistry, listed, turnCancelled, stuck, dropped>>

\* call_tool returns what the task returned: a result, or the error the server reports.
ReturnsResult(c) ==
    /\ toolCalls[c].st = "answered"
    /\ \E st \in {"ok", "failed"} : toolCalls' = [toolCalls EXCEPT ![c].st = st]
    /\ UNCHANGED <<mount, command, readRoots, procs, service, holder, toolRegistry, listed, turnCancelled, stuck, dropped>>

\* The process ends by itself (external).
ServerDies(s) ==
    /\ "child" \in procs[s]
    /\ mount.phase \in {"listing", "mounted"}
    /\ procs' = [procs EXCEPT ![s] = @ \ {"child"}]
    /\ UNCHANGED <<mount, command, readRoots, service, holder, toolRegistry, listed, toolCalls, turnCancelled, stuck, dropped>>

\* A request to a process that is gone fails.
ConnectionLost(c) ==
    /\ toolCalls[c].st = "sent"
    /\ "child" \notin procs[toolCalls[c].server]
    /\ toolCalls' = [toolCalls EXCEPT ![c].st = "failed"]
    /\ Unlock(c)
    /\ UNCHANGED <<mount, command, readRoots, procs, service, toolRegistry, listed, turnCancelled, stuck, dropped>>

\* Mutant: the task is left running when its call gives up.
KeepsTask(c) == UNCHANGED holder

\* abort_call_task: the task is gone, and its lock with it, before the disconnect starts.
AbortCallTask(c) == Unlock(c)

\* call_tool: the timeout or the token wins the select.
GivesUp(c, why) ==
    /\ toolCalls[c].st \in {"waiting", "sent", "answered"}
    /\ why = "cancelled" => turnCancelled
    /\ toolCalls' = [toolCalls EXCEPT ![c].st = "aborting", ![c].why = why]
    /\ AbortCallTask(c)
    /\ UNCHANGED <<mount, command, readRoots, procs, service, toolRegistry, listed, turnCancelled, stuck, dropped>>

\* disconnect: the service is taken under the lock; the second one to come finds nothing.
DisconnectStarts(c) ==
    /\ toolCalls[c].st = "aborting"
    /\ holder[toolCalls[c].server] = 0
    /\ IF service[toolCalls[c].server] = "open"
       THEN /\ service' = [service EXCEPT ![toolCalls[c].server] = "closing"]
            /\ holder' = [holder EXCEPT ![toolCalls[c].server] = c]
            /\ toolCalls' = [toolCalls EXCEPT ![c].st = "closing"]
       ELSE /\ toolCalls' = [toolCalls EXCEPT ![c].st = toolCalls[c].why]
            /\ UNCHANGED <<service, holder>>
    /\ UNCHANGED <<mount, command, readRoots, procs, toolRegistry, listed, turnCancelled, stuck, dropped>>

\* disconnect: the service is closed, then the tree is terminated; then the lock is free.
DisconnectEnds(c) ==
    /\ toolCalls[c].st = "closing"
    /\ Terminates(toolCalls[c].server)
    /\ service' = [service EXCEPT ![toolCalls[c].server] = "gone"]
    /\ toolCalls' = [toolCalls EXCEPT ![c].st = toolCalls[c].why]
    /\ Unlock(c)
    /\ UNCHANGED <<mount, command, readRoots, toolRegistry, listed, turnCancelled, dropped>>

\* The turn is cancelled.
CancelTurn ==
    /\ mount.phase = "mounted"
    /\ ~turnCancelled
    /\ turnCancelled' = TRUE
    /\ UNCHANGED <<mount, command, readRoots, procs, service, holder, toolRegistry, listed, toolCalls, stuck, dropped>>

-----------------------------------------------------------------------------
(* Unmounting *)

\* The turn is over, or mounting failed: the registry is dropped.
DropRegistry ==
    /\ mount.phase = "mounted"
    /\ \A c \in McpCalls : toolCalls[c].st \in Ended \cup {"idle"}
    /\ mount' = [phase |-> "unwinding", at |-> MaxServers + 1]
    /\ UNCHANGED <<command, readRoots, procs, service, holder, toolRegistry, listed, toolCalls, turnCancelled, stuck, dropped>>

\* Mutant: only the clients of a complete mount are disconnected.
OnlyComplete(s) == mount.at > MaxServers /\ service[s] = "open"

\* disconnect_blocking visits the clients that were mounted before the one that failed.
ToUnmount(s) == s < mount.at /\ service[s] = "open"

\* disconnect_blocking: one client after the other.
UnmountNext(s) ==
    /\ mount.phase = "unwinding"
    /\ ToUnmount(s)
    /\ Terminates(s)
    /\ service' = [service EXCEPT ![s] = "gone"]
    /\ UNCHANGED <<mount, command, readRoots, holder, toolRegistry, listed, toolCalls, turnCancelled, dropped>>

\* Every client was visited.
Unmounted ==
    /\ mount.phase = "unwinding"
    /\ \A s \in Servers : ~ToUnmount(s)
    /\ mount' = [mount EXCEPT !.phase = "over"]
    /\ UNCHANGED <<command, readRoots, procs, service, holder, toolRegistry, listed, toolCalls, turnCancelled, stuck, dropped>>

McpNext ==
    \/ SpawnServer \/ Initialized \/ InitializeFails \/ ListsTools \/ ListFails
    \/ CancelTurn \/ DropRegistry \/ Unmounted
    \/ \E s \in Servers : StartsHelper(s) \/ ServerDies(s) \/ UnmountNext(s)
    \/ \E c \in McpCalls :
          \/ CallTool(c) \/ SendsCall(c) \/ ServerAnswers(c) \/ ReturnsResult(c)
          \/ ConnectionLost(c) \/ GivesUp(c, "timedOut") \/ GivesUp(c, "cancelled")
          \/ DisconnectStarts(c) \/ DisconnectEnds(c)

\* Tasks run and timers fire; a server need not answer.
McpFairness ==
    \A c \in McpCalls :
        /\ WF_mcpVars(SendsCall(c)) /\ WF_mcpVars(ReturnsResult(c)) /\ WF_mcpVars(ConnectionLost(c))
        /\ WF_mcpVars(GivesUp(c, "timedOut"))
        /\ SF_mcpVars(DisconnectStarts(c)) /\ WF_mcpVars(DisconnectEnds(c))

McpSpec == McpInit /\ [][McpNext]_mcpVars /\ McpFairness

-----------------------------------------------------------------------------
\* No server outlives its turn: once the registry is dropped every server process is gone,
\* and its helpers with it, unless the tree could not be killed or the client was dropped
\* without a disconnect because listing its tools failed (mcp/mod.rs, client.rs disconnect).
NoServerLeft ==
    mount.phase = "over" =>
        \A s \in Servers \ stuck :
            /\ "child" \notin procs[s]
            /\ s \notin dropped => procs[s] = {}

\* When a call reports a timeout or a cancel, its server is down for every other call too:
\* nobody who still holds the client can reach a process that was given up (call_tool).
AbortedMeansDown ==
    \A c \in McpCalls : toolCalls[c].st \in {"timedOut", "cancelled"} =>
        /\ service[toolCalls[c].server] = "gone"
        /\ toolCalls[c].server \notin stuck => procs[toolCalls[c].server] = {}

\* The lock of a server is only ever held by a call that is talking to it or taking it down,
\* so a call that was aborted, answered or ended cannot make the next one wait.
LockIsLive == \A s \in Servers : holder[s] # 0 =>
    toolCalls[holder[s]].server = s /\ toolCalls[holder[s]].st \in {"sent", "closing"}

\* Mounting a server never takes a name away from a built-in tool or from an earlier server,
\* and every tool a mounted server listed can be called (mount_from_request).
NamesKept ==
    /\ \A n \in {0} \X Builtins : toolRegistry[n] = n
    /\ \A s \in Servers : \A i \in DOMAIN listed[s] :
          \E n \in DOMAIN toolRegistry : toolRegistry[n] = <<s, listed[s][i]>>

\* No server runs with leave to read HOME outside the workspace and its own cache, wherever
\* its command really is (perimeter.rs).
PerimeterClosed == \A s \in Servers : procs[s] # {} =>
    ~\E p \in {command[s].spelled, command[s].real, command[s].cache} : p = "home"

McpSound == NoServerLeft /\ AbortedMeansDown /\ LockIsLive /\ NamesKept /\ PerimeterClosed

\* Every tool call returns: the answer, an error, or the timeout, however many calls wait
\* for the same server and whatever the server does (call_tool's select and its lock).
CallsReturn == \A c \in McpCalls : toolCalls[c].st = "waiting" ~> toolCalls[c].st \in Ended
=============================================================================
