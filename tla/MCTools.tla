------------------------------- MODULE MCTools -------------------------------
(* A native agent, one part per behaviour: its turns, a patch, the MCP servers *)
(* of a turn, or a shell command.  Two turns of up to three calls each, with a *)
(* parallel client: reads and asking tools may share a group, edits may not.   *)
EXTENDS AgentTurn, AgentTools, McpClient

VARIABLE side    \* the part this behaviour is about

toolVars == <<side, vars, patchVars, mcpVars, shellVars>>

L(k, t) == [k |-> k, t |-> t]
Contents == {<<"">>, <<"a", "b">>, <<"a", "a", "">>, <<"b", "a", "b", "a", "">>, <<"a", "b", "", "">>}
MCDisks == {[p \in {"f", "g", "up", "out"} |-> IF p = "f" THEN c ELSE IF p = "g" THEN d ELSE Absent] :
               c \in Contents \cup {Folder}, d \in {Absent, <<"b", "">>}}
Hunks == {<<L("at", h)>> \o b \o e : h \in {"", "a"}, e \in {<<>>, <<L("eof", "")>>},
             b \in {<<L("minus", "a")>>, <<L("plus", "c")>>, <<L("minus", "b"), L("blank", "")>>,
                    <<L("minus", "a"), L("plus", "c"), L("ctx", "b")>>, <<>>}}
Updates == {<<L("update", "f")>> \o m \o h : m \in {<<>>, <<L("move", "g")>>, <<L("move", "f")>>}, h \in Hunks}
           \cup {<<L("update", "f")>> \o h \o g : h \in Hunks, g \in Hunks}
OtherBodies == {<<L("add", "g"), L("plus", "c")>>, <<L("add", "up")>>, <<L("delete", "g")>>, <<L("delete", "f")>>,
           <<L("add", "out"), L("plus", "c")>>, <<L("junk", "")>>, <<L("eof", "")>>, <<>>}
Bodies == Updates \cup {o \o q : o \in OtherBodies, q \in OtherBodies}
          \cup {<<L("update", "f"), L("at", ""), L("minus", "a")>> \o o : o \in OtherBodies}
MCTexts == {<<L("begin", "")>> \o b \o <<L("end", "")>> : b \in Bodies}
           \cup {<<>>, <<L("begin", "")>>, <<L("begin", ""), L("delete", "f")>>}
MCCommands == {[spelled |-> "system", real |-> "system", cache |-> "cache"],
               [spelled |-> "system", real |-> "home", cache |-> "cache"]}
MCToolLists == {<<"shell", "x">>}
MCChunks == {<<"x">>, <<"n">>, <<"n", "x">>}

SomeReplies == { <<>>, <<"read", "out">>, <<"ask", "read", "ask">>, <<"edit">>, <<"read", "gone">> }
SomePolicy == [read |-> "allow", ask |-> "ask", edit |-> "ask", gone |-> "unknown", out |-> "deny"]

MCInit ==
    /\ side \in {"turn", "patch", "mcp", "shell"}
    /\ Init /\ PatchInit /\ McpInit /\ ShellInit
    /\ side # "patch" => text = <<>> /\ disk["f"] = Folder /\ disk["g"] = Absent
    /\ side # "mcp" => \A s \in Servers : command[s].real = "home"
    /\ side # "shell" => deaf = {}
TurnSide(A) == side = "turn" /\ A /\ UNCHANGED <<side, patchVars, mcpVars, shellVars>>
McpSide(A) == side = "mcp" /\ A /\ UNCHANGED <<side, vars, patchVars, shellVars>>
MCNext ==
    \/ TurnSide(Next)
    \/ side = "patch" /\ PatchNext /\ UNCHANGED <<side, vars, mcpVars, shellVars>>
    \/ McpSide(McpNext)
    \/ side = "shell" /\ ShellNext /\ UNCHANGED <<side, vars, patchVars, mcpVars>>

\* The fairness of FairSpec and of McpSpec.
MCFairness ==
    /\ WF_toolVars(TurnSide(LoopStep))
    /\ \A c \in McpCalls :
          /\ WF_toolVars(McpSide(SendsCall(c))) /\ WF_toolVars(McpSide(ReturnsResult(c)))
          /\ WF_toolVars(McpSide(ConnectionLost(c))) /\ WF_toolVars(McpSide(GivesUp(c, "timedOut")))
          /\ SF_toolVars(McpSide(DisconnectStarts(c))) /\ WF_toolVars(McpSide(DisconnectEnds(c)))
MCSpec == MCInit /\ [][MCNext]_toolVars /\ MCFairness

\* A tool does what it was asked or nothing: a patch that is refused changes no file and one that
\* is taken leaves what its hunks say; a command's output is its own, and the command is gone
\* when its call returns.  A fork of a run at any of its events rebuilds the
\* session of that moment.
ToolsSound ==
    /\ (side = "patch" => PatchSound) /\ (side = "shell" => ShellSound)
    /\ (side = "turn" => ForkRebuilds)

\* Work ends: a cancelled turn loop stops, and every call of an MCP tool returns.
AgentReturns == CancelledEnds /\ CallsReturn
=============================================================================
