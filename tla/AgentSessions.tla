---------------------------- MODULE AgentSessions ----------------------------
(***************************************************************************)
(* The runs on agents that are processes of their own: an external agent   *)
(* that speaks the agent client protocol, and the Codex app server.  Each  *)
(* has its variables, its steps and its properties in a part of its own.   *)
(***************************************************************************)
EXTENDS Integers, Sequences

(***************************************************************************)
(* A run on an external agent that speaks the agent client protocol: the   *)
(* thread of the run, the process and the two pipes between them.  The     *)
(* agent is external: it writes what it likes, in any order, asks for      *)
(* permissions, may die and may ignore a signal.  The run can be cancelled *)
(* at any time, and a user decides the permissions that the policy leaves  *)
(* to one.  Names, texts and what the agent does are left out.             *)
(***************************************************************************)

CONSTANTS MaxAgentLines, PipeDepth, MaxPermissions

ASSUME AcpAssumption == MaxAgentLines \in Nat /\ PipeDepth \in Nat /\ MaxPermissions \in Nat

VARIABLES acp,          \* the thread: where it is, and the id of the answer it waits for
          acpConfig,    \* whether a mode and a model are asked for
          agent,        \* the process: "none", "up", "signalled" or "exited"
          agentLines,   \* how many lines it has written
          toClient,     \* its output
          replies,      \* the answers to its permission requests that it was sent
          asks,         \* permission -> the policy's decision, and the options it came with
          consent,      \* permission -> what became of the approval
          acpCancelled, \* the cancellation token
          acpStream,    \* the frames pushed into the sink
          acpOutcome    \* the terminal calls on the sink, in order

acpVars == <<acp, acpConfig, agent, agentLines, toClient, replies, asks, consent, acpCancelled, acpStream, acpOutcome>>
pipeVars == <<agent, agentLines, toClient>>
approvalVars == <<replies, asks, consent>>

\* What the thread waits for, in the order of run_acp.
Handshake == {"initialize", "newSession", "setMode", "setModel"}
Waiting == Handshake \union {"prompt"}

-----------------------------------------------------------------------------
\* The agent.

AgentRuns == agent \in {"up", "signalled"}
Says(line) ==
  /\ AgentRuns /\ agentLines < MaxAgentLines /\ Len(toClient) < PipeDepth
  /\ toClient' = Append(toClient, line) /\ agentLines' = agentLines + 1
Line(kind, n) == [kind |-> kind, n |-> n]
\* Updates, requests of its own, answers to the last request or under another id, and noise.
AgentWrites ==
  /\ \/ \E kind \in {"update", "unknownRequest", "garbage"} : Says(Line(kind, 0))
     \/ \E kind \in {"ok", "error", "methodNotFound"}, n \in {acp.id, 0} : Says(Line(kind, n))
  /\ UNCHANGED <<acp, acpConfig, agent, approvalVars, acpCancelled, acpStream, acpOutcome>>
AgentAsks(policy, hasAllow, hasReject) ==
  /\ Len(asks) < MaxPermissions
  /\ Says(Line("permission", Len(asks) + 1))
  /\ asks' = Append(asks, [policy |-> policy, hasAllow |-> hasAllow, hasReject |-> hasReject])
  /\ consent' = Append(consent, "none")
  /\ UNCHANGED <<acp, acpConfig, agent, replies, acpCancelled, acpStream, acpOutcome>>
AgentExits ==
  /\ AgentRuns /\ agent' = "exited"
  /\ UNCHANGED <<acp, acpConfig, agentLines, toClient, approvalVars, acpCancelled, acpStream, acpOutcome>>

-----------------------------------------------------------------------------
\* The thread.

\* run_acp returns an error: the client is dropped, which kills the process, and
\* the thread reports the failure.
AcpFails(why) ==
  /\ acp' = [acp EXCEPT !.pc = "done"]
  /\ agent' = "exited" /\ acpOutcome' = Append(acpOutcome, why)
\* send_request: into a pipe that nobody reads it fails.
SendRequest(stage) ==
  IF agent = "exited" THEN AcpFails("failed")
  ELSE acp' = [pc |-> stage, id |-> acp.id + 1] /\ UNCHANGED <<agent, acpOutcome>>
\* needs_mode_update and needs_model_update: with no mode to set it goes on with the
\* model, and with no model with the prompt.
NextStage(stage) ==
  CASE stage = "initialize" -> "newSession"
    [] stage = "newSession" /\ acpConfig.mode -> "setMode"
    [] stage \in {"newSession", "setMode"} /\ acpConfig.model -> "setModel"
    [] OTHER -> "prompt"

\* spawn: the process starts and is sent initialize, or there is no process.
SpawnAgent ==
  /\ acp.pc = "start"
  /\ \/ agent' = "up" /\ acp' = [pc |-> "initialize", id |-> 1] /\ UNCHANGED acpOutcome
     \/ AcpFails("failed")
  /\ UNCHANGED <<acpConfig, agentLines, toClient, approvalVars, acpCancelled, acpStream>>

\* The stream of a prompt begins before the request is written.
Opened(stage) == IF stage = "prompt" THEN Append(acpStream, "started") ELSE acpStream
\* read_response takes a line.
Takes(kind) == acp.pc \in Waiting /\ toClient # <<>> /\ Head(toClient).kind = kind /\ toClient' = Tail(toClient)
\* The answer with the awaited id ends the wait; other answers are skipped.  A mode or
\* model that session/new did not offer is refused here as well.
TakesAnswer ==
  /\ \E kind \in {"ok", "error", "methodNotFound"} :
       /\ Takes(kind)
       /\ LET good == kind = "ok" \/ (kind = "methodNotFound" /\ acp.pc = "setModel")
              next == NextStage(acp.pc) IN
          CASE Head(toClient).n # acp.id -> UNCHANGED <<acp, agent, acpStream, acpOutcome>>
            [] Head(toClient).n = acp.id /\ ~good -> AcpFails("failed") /\ UNCHANGED acpStream
            [] Head(toClient).n = acp.id /\ good /\ acp.pc = "prompt" ->
                 /\ acp' = [acp EXCEPT !.pc = "completing"] /\ acpStream' = Append(acpStream, "completed")
                 /\ UNCHANGED <<agent, acpOutcome>>
            [] OTHER -> SendRequest(next) /\ acpStream' = Opened(next)
  /\ UNCHANGED <<acpConfig, agentLines, approvalVars, acpCancelled>>
SessionRefused ==
  /\ Takes("ok") /\ acp.pc = "newSession" /\ Head(toClient).n = acp.id
  /\ AcpFails("failed")
  /\ UNCHANGED <<acpConfig, agentLines, approvalVars, acpCancelled, acpStream>>
\* session_update_events, mapped and pushed; outside a prompt they are ignored.
TakesUpdate ==
  /\ Takes("update")
  /\ acpStream' = IF acp.pc = "prompt" THEN Append(acpStream, "update") ELSE acpStream
  /\ UNCHANGED <<acp, acpConfig, agent, agentLines, approvalVars, acpCancelled, acpOutcome>>
\* The sink refuses the frame, or the line does not decode.
TakesBadLine ==
  /\ Takes("garbage") \/ (Takes("update") /\ acp.pc = "prompt")
  /\ AcpFails("failed")
  /\ UNCHANGED <<acpConfig, agentLines, approvalVars, acpCancelled, acpStream>>
\* A request the client does not know is answered with an error.
TakesUnknown ==
  /\ Takes("unknownRequest")
  /\ IF agent = "exited" THEN AcpFails("failed") ELSE UNCHANGED <<acp, agent, acpOutcome>>
  /\ UNCHANGED <<acpConfig, agentLines, approvalVars, acpCancelled, acpStream>>

\* permission_decision_result, written to the agent.
Answers(i, answer) ==
  IF agent = "exited" THEN AcpFails("failed") /\ UNCHANGED replies
  ELSE /\ replies' = Append(replies, [ask |-> i, answer |-> answer])
       /\ acp' = [acp EXCEPT !.pc = "prompt"] /\ UNCHANGED <<agent, acpOutcome>>
\* select_acp_allow: without such an option the run fails.
Allows(i) == IF asks[i].hasAllow THEN Answers(i, "allow") ELSE AcpFails("failed") /\ UNCHANGED replies
\* select_acp_reject.
Rejects(i) == Answers(i, IF asks[i].hasReject THEN "reject" ELSE "cancelled")

\* resolve_acp_permission, up to the approval.
NeedsUser(i) == asks[i].policy = "ask"
TakesPermission ==
  /\ Takes("permission")
  /\ LET i == Head(toClient).n IN
       CASE acp.pc # "prompt" -> \* unexpected_permission
              IF agent = "exited" THEN AcpFails("failed") /\ UNCHANGED approvalVars
              ELSE replies' = Append(replies, [ask |-> i, answer |-> "cancelled"]) /\ UNCHANGED <<acp, agent, acpOutcome, asks, consent>>
         [] acp.pc = "prompt" /\ NeedsUser(i) ->
              /\ acp' = [acp EXCEPT !.pc = "permission"] /\ consent' = [consent EXCEPT ![i] = "pending"]
              /\ UNCHANGED <<agent, acpOutcome, replies, asks>>
         [] acp.pc = "prompt" /\ ~NeedsUser(i) ->
              (IF asks[i].policy = "allow" THEN Allows(i) ELSE Rejects(i)) /\ UNCHANGED <<asks, consent>>
  /\ UNCHANGED <<acpConfig, agentLines, acpCancelled, acpStream>>
\* resolve_from_runtime: only what is pending can be decided.
UserDecides(i, decision) ==
  /\ i \in 1..Len(consent) /\ consent[i] = "pending"
  /\ consent' = [consent EXCEPT ![i] = decision]
  /\ UNCHANGED <<acp, acpConfig, pipeVars, replies, asks, acpCancelled, acpStream, acpOutcome>>
\* wait returns with the decision.
PermissionDecided(i) ==
  /\ acp.pc = "permission" /\ i \in 1..Len(consent) /\ consent[i] \in {"allowed", "denied"}
  /\ \A r \in 1..Len(replies) : replies[r].ask # i
  /\ IF consent[i] = "allowed" THEN Allows(i) ELSE Rejects(i)
  /\ UNCHANGED <<acpConfig, agentLines, toClient, asks, consent, acpCancelled, acpStream>>
\* wait sees the cancellation first: the prompt fails.
PermissionInterrupted ==
  /\ acp.pc = "permission" /\ acpCancelled /\ \E i \in 1..Len(consent) : consent[i] = "pending"
  /\ consent' = [i \in 1..Len(consent) |-> IF consent[i] = "pending" THEN "interrupted" ELSE consent[i]]
  /\ AcpFails("cancelled")
  /\ UNCHANGED <<acpConfig, agentLines, toClient, replies, asks, acpCancelled, acpStream>>

\* The process has closed its end and everything it wrote is read.
OutputEnds ==
  /\ acp.pc \in Waiting /\ toClient = <<>> /\ agent = "exited"
  /\ AcpFails("failed")
  /\ UNCHANGED <<acpConfig, agentLines, toClient, approvalVars, acpCancelled, acpStream>>

\* The cancellation branch of the select, which is only there during the prompt: the
\* approvals are rejected, the agent is told and signalled.
PromptCancelled ==
  /\ acp.pc \in {"prompt", "permission"} /\ acpCancelled
  /\ consent' = [i \in 1..Len(consent) |-> IF consent[i] = "pending" THEN "interrupted" ELSE consent[i]]
  /\ acp' = [acp EXCEPT !.pc = "stopping"]
  /\ agent' = IF agent = "up" THEN "signalled" ELSE agent
  /\ UNCHANGED <<acpConfig, agentLines, toClient, replies, asks, acpCancelled, acpStream, acpOutcome>>
\* sink.complete, and then the shutdown; a sink that refuses fails the run.
Completes ==
  /\ acp.pc = "completing"
  /\ \/ /\ acpOutcome' = Append(acpOutcome, "completed") /\ acp' = [acp EXCEPT !.pc = "closing"]
        /\ agent' = IF agent = "up" THEN "signalled" ELSE agent
     \/ AcpFails("failed")
  /\ UNCHANGED <<acpConfig, agentLines, toClient, approvalVars, acpCancelled, acpStream>>

\* terminate_child: after the grace period the process is killed.
KillsAgent == agent' = "exited"
\* Mutant: the wait for the exit has no timeout.
NoGrace == acp.pc = "never" /\ UNCHANGED acpVars
GraceOver ==
  /\ acp.pc \in {"stopping", "closing"} /\ AgentRuns
  /\ KillsAgent
  /\ acp' = [acp EXCEPT !.pc = IF acp.pc = "stopping" THEN "stopped" ELSE "closed"]
  /\ UNCHANGED <<acpConfig, agentLines, toClient, approvalVars, acpCancelled, acpStream, acpOutcome>>
WaitReturns ==
  /\ acp.pc \in {"stopping", "closing"} /\ agent = "exited"
  /\ acp' = [acp EXCEPT !.pc = IF acp.pc = "stopping" THEN "stopped" ELSE "closed"]
  /\ UNCHANGED <<acpConfig, pipeVars, approvalVars, acpCancelled, acpStream, acpOutcome>>
AcpReturns ==
  /\ acp.pc \in {"stopped", "closed"}
  /\ acp' = [acp EXCEPT !.pc = "done"]
  /\ acpOutcome' = IF acp.pc = "stopped" THEN Append(acpOutcome, "cancelled") ELSE acpOutcome
  /\ UNCHANGED <<acpConfig, pipeVars, approvalVars, acpCancelled, acpStream>>

\* cancel, or the handle is dropped.
CancelAcp ==
  /\ ~acpCancelled /\ acpCancelled' = TRUE
  /\ UNCHANGED <<acp, acpConfig, pipeVars, approvalVars, acpStream, acpOutcome>>

AcpInit ==
  /\ acp = [pc |-> "start", id |-> 0] /\ acpConfig \in [mode : BOOLEAN, model : BOOLEAN]
  /\ agent = "none" /\ agentLines = 0 /\ toClient = <<>> /\ replies = <<>> /\ asks = <<>> /\ consent = <<>>
  /\ acpCancelled = FALSE /\ acpStream = <<>> /\ acpOutcome = <<>>
AcpThread ==
  \/ SpawnAgent \/ TakesAnswer \/ SessionRefused \/ TakesUpdate \/ TakesBadLine \/ TakesUnknown \/ TakesPermission
  \/ (\E i \in 1..MaxPermissions : PermissionDecided(i)) \/ PermissionInterrupted \/ OutputEnds
  \/ PromptCancelled \/ Completes \/ GraceOver \/ WaitReturns \/ AcpReturns
AcpNext ==
  \/ AcpThread \/ CancelAcp \/ AgentWrites \/ AgentExits
  \/ \E policy \in {"allow", "deny", "ask"}, hasAllow, hasReject \in BOOLEAN : AgentAsks(policy, hasAllow, hasReject)
  \/ \E i \in 1..MaxPermissions, decision \in {"allowed", "denied"} : UserDecides(i, decision)
\* The thread runs; nothing is assumed of the agent or of the user.
AcpFairness == WF_acpVars(AcpThread)
AcpSpec == AcpInit /\ [][AcpNext]_acpVars /\ AcpFairness

-----------------------------------------------------------------------------
\* Properties.

\* The agent is allowed something only by the policy or by the user, whatever arrives
\* while an approval is open; a thread that has returned leaves no process behind and
\* has reported exactly one outcome; and a run completes only after a whole turn.
AcpSound ==
  /\ \A r \in 1..Len(replies) : LET i == replies[r].ask IN
       replies[r].answer = "allow" => asks[i].policy = "allow" \/ (asks[i].policy = "ask" /\ consent[i] = "allowed")
  /\ acp.pc = "done" => agent = "exited" /\ Len(acpOutcome) = 1
  /\ acpOutcome = <<"completed">> => acpStream[1] = "started" /\ acpStream[Len(acpStream)] = "completed"

\* A cancelled run ends, even with an agent that says nothing more and ignores signals
\* and a user who never decides.  Only during the handshake the cancellation is not
\* looked at: there a silent agent holds the thread.
CancelEndsAcp == acpCancelled ~> acp.pc \in Handshake \union {"done"}

-----------------------------------------------------------------------------
(***************************************************************************)
(* A run on the Codex app server: the thread of the run, the process with  *)
(* its reader thread, and their JSONL messages.  The server is external    *)
(* and writes what it likes; its requests have ids of their own, which may *)
(* be the same as the client's.  The thread polls: every wait has a        *)
(* deadline, and between two messages of a turn it looks at the            *)
(* cancellation.  Texts, tool names and usage are left out.                *)
(***************************************************************************)
CONSTANTS MaxServerLines, ChannelDepth

ASSUME CodexAssumption == MaxServerLines \in Nat /\ ChannelDepth \in Nat

VARIABLES codex,          \* the thread: where it is, and the id of the answer it waits for
          server,         \* the process: "none", "up" or "exited"
          serverLines,    \* how many messages it has written
          channel,        \* the messages between the reader thread and the thread
          spoken,         \* the message texts the server has written
          codexCancelled, \* the cancellation token
          codexStream,    \* what was pushed into the sink
          codexOutcome    \* the terminal calls on the sink, in order

codexVars == <<codex, server, serverLines, channel, spoken, codexCancelled, codexStream, codexOutcome>>

Requesting == {"initialize", "threadStart", "turnStart"}
NextRequest == [initialize |-> "threadStart", threadStart |-> "turnStart", turnStart |-> "streaming"]

-----------------------------------------------------------------------------
\* The server.

Notes == {"turnStarted", "delta", "messageCompleted", "toolCompleted", "turnCompleted", "turnFailed", "otherNote"}
ServerWrites(kind, n) ==
  /\ server = "up" /\ serverLines < MaxServerLines /\ Len(channel) < ChannelDepth
  /\ channel' = Append(channel, [kind |-> kind, n |-> n]) /\ serverLines' = serverLines + 1
  /\ spoken' = spoken + (IF kind = "delta" THEN 1 ELSE 0)
  /\ UNCHANGED <<codex, server, codexCancelled, codexStream, codexOutcome>>
ServerExits ==
  /\ server = "up" /\ server' = "exited"
  /\ UNCHANGED <<codex, serverLines, channel, spoken, codexCancelled, codexStream, codexOutcome>>

-----------------------------------------------------------------------------
\* The thread.

\* An error ends run_codex_app_server; the session is dropped first, then it is reported.
Ends(why) == codex' = [codex EXCEPT !.pc = "dropping", !.why = why]
\* send.
SendMessage(next) ==
  IF server = "exited" THEN Ends("failed") ELSE codex' = [codex EXCEPT !.pc = next, !.id = @ + 1]

StartSession ==
  /\ codex.pc = "start"
  /\ \/ server' = "up" /\ codex' = [codex EXCEPT !.pc = "initialize", !.id = 1]
     \/ codex' = [codex EXCEPT !.pc = "dropping", !.why = "failed"] /\ UNCHANGED server
  /\ UNCHANGED <<serverLines, channel, spoken, codexCancelled, codexStream, codexOutcome>>

Receives(kinds) == channel # <<>> /\ Head(channel).kind \in kinds /\ channel' = Tail(channel)
\* read_until_response: whatever carries the awaited id is the answer, a request of
\* the server under that id too, which has no result.
IsAnswer == Head(channel).n = codex.id /\ Head(channel).kind \in {"result", "error", "request"}
\* The next request is sent; thread/start and turn/start need a field of the result.
GetsAnswer ==
  /\ codex.pc \in Requesting /\ Receives({"result", "error", "request"}) /\ IsAnswer
  /\ CASE Head(channel).kind = "error" -> Ends("failed")
       [] Head(channel).kind = "request" /\ codex.pc # "initialize" -> Ends("failed")
       [] OTHER -> IF codex.pc = "turnStart" THEN codex' = [codex EXCEPT !.pc = "streaming"] ELSE SendMessage(NextRequest[codex.pc])
  /\ UNCHANGED <<server, serverLines, spoken, codexCancelled, codexStream, codexOutcome>>
GetsMalformedAnswer ==
  /\ codex.pc \in {"threadStart", "turnStart"} /\ Receives({"result"}) /\ IsAnswer
  /\ Ends("failed")
  /\ UNCHANGED <<server, serverLines, spoken, codexCancelled, codexStream, codexOutcome>>
\* An answer under another id is an error; a request is refused; a notification that
\* comes before the answer is dropped, whatever it says.
GetsOther ==
  /\ codex.pc \in Requesting /\ Receives(Notes \union {"result", "error", "request"}) /\ ~IsAnswer
  /\ CASE Head(channel).kind \in {"result", "error"} -> Ends("failed")
       [] Head(channel).kind = "request" /\ server = "exited" -> Ends("failed")
       [] OTHER -> UNCHANGED codex
  /\ UNCHANGED <<server, serverLines, spoken, codexCancelled, codexStream, codexOutcome>>
\* The request deadline; and the child that has exited with nothing left to read.
RequestFails ==
  /\ codex.pc \in Requesting
  /\ Ends("timedOut")
  /\ UNCHANGED <<server, serverLines, channel, spoken, codexCancelled, codexStream, codexOutcome>>

\* event_from_notification and push_event.  A completed message was streamed before; a
\* request of the server has a method, and is taken for a notification.
EventFrom(kind) == IF kind = "messageCompleted" THEN <<>> ELSE IF kind = "request" THEN <<"otherNote">> ELSE <<kind>>
StreamsEvent ==
  /\ codex.pc = "streaming" /\ ~codexCancelled
  /\ Receives((Notes \ {"turnFailed"}) \union {"request"})
  /\ codexStream' = codexStream \o EventFrom(Head(channel).kind)
  /\ codex' = IF Head(channel).kind = "turnCompleted" THEN [codex EXCEPT !.pc = "completing"] ELSE codex
  /\ UNCHANGED <<server, serverLines, spoken, codexCancelled, codexOutcome>>
\* A turn that failed, an error under any id, or a sink that refuses.
StreamFails ==
  /\ codex.pc = "streaming" /\ ~codexCancelled /\ Receives(Notes \union {"error", "request"})
  /\ Ends("failed")
  /\ UNCHANGED <<server, serverLines, spoken, codexCancelled, codexStream, codexOutcome>>
StreamsResult ==
  /\ codex.pc = "streaming" /\ ~codexCancelled /\ Receives({"result"})
  /\ UNCHANGED <<codex, server, serverLines, spoken, codexCancelled, codexStream, codexOutcome>>
\* Nothing came for the idle timeout, or the child has exited.
StreamIdles ==
  /\ codex.pc = "streaming" /\ ~codexCancelled /\ channel = <<>>
  /\ Ends("timedOut")
  /\ UNCHANGED <<server, serverLines, channel, spoken, codexCancelled, codexStream, codexOutcome>>

\* The loop looks at the cancellation before every message, and interrupts the turn.
SeesCancel == codex.pc = "streaming" /\ codexCancelled
RequestInterrupt ==
  /\ SeesCancel
  /\ codex' = IF server = "exited" THEN [codex EXCEPT !.pc = "dropping", !.why = "cancelled"]
              ELSE [codex EXCEPT !.pc = "draining", !.id = @ + 1]
  /\ UNCHANGED <<server, serverLines, channel, spoken, codexCancelled, codexStream, codexOutcome>>
\* drain_interrupt_ack: everything is dropped until the acknowledgement or for 250 ms.
DrainInterrupt ==
  /\ codex.pc = "draining"
  /\ \/ channel # <<>> /\ channel' = Tail(channel)
        /\ codex' = IF Head(channel).n = codex.id THEN [codex EXCEPT !.pc = "dropping", !.why = "cancelled"] ELSE codex
     \/ codex' = [codex EXCEPT !.pc = "dropping", !.why = "cancelled"] /\ UNCHANGED channel
  /\ UNCHANGED <<server, serverLines, spoken, codexCancelled, codexStream, codexOutcome>>

CompletesCodex ==
  /\ codex.pc = "completing"
  /\ \/ codexOutcome' = Append(codexOutcome, "completed") /\ Ends("none")
     \/ Ends("failed") /\ UNCHANGED codexOutcome
  /\ UNCHANGED <<server, serverLines, channel, spoken, codexCancelled, codexStream>>
\* terminate_app_server, in drop: the process group gets two seconds and is killed.
TerminateServer == server' = "exited"
DropSession ==
  /\ codex.pc = "dropping"
  /\ TerminateServer /\ channel' = <<>>
  /\ codex' = [codex EXCEPT !.pc = "done"]
  /\ codexOutcome' = IF codex.why = "none" THEN codexOutcome ELSE Append(codexOutcome, codex.why)
  /\ UNCHANGED <<serverLines, spoken, codexCancelled, codexStream>>

CancelCodex ==
  /\ ~codexCancelled /\ codexCancelled' = TRUE
  /\ UNCHANGED <<codex, server, serverLines, channel, spoken, codexStream, codexOutcome>>

CodexInit ==
  /\ codex = [pc |-> "start", id |-> 0, why |-> "none"] /\ server = "none" /\ serverLines = 0
  /\ channel = <<>> /\ spoken = 0 /\ codexCancelled = FALSE /\ codexStream = <<>> /\ codexOutcome = <<>>
CodexThread ==
  \/ StartSession \/ GetsAnswer \/ GetsMalformedAnswer \/ GetsOther \/ RequestFails
  \/ StreamsEvent \/ StreamFails \/ StreamsResult \/ StreamIdles
  \/ RequestInterrupt \/ DrainInterrupt \/ CompletesCodex \/ DropSession
CodexNext ==
  \/ CodexThread \/ CancelCodex \/ ServerExits
  \/ \E kind \in Notes : ServerWrites(kind, 0)
  \/ \E kind \in {"result", "error", "request"}, n \in {codex.id, 0} : ServerWrites(kind, n)
CodexFairness == WF_codexVars(CodexThread)
CodexSpec == CodexInit /\ [][CodexNext]_codexVars /\ CodexFairness

-----------------------------------------------------------------------------
\* Properties.

Count(list, x) == Len(SelectSeq(list, LAMBDA y : y = x))
\* A thread that has returned leaves no server behind and has reported exactly one
\* outcome; a run completes only with a turn that the server completed while it was
\* followed; and no text of the server is shown twice.
CodexSound ==
  /\ codex.pc = "done" => server # "up" /\ Len(codexOutcome) = 1
  /\ codexOutcome = <<"completed">> => codexStream[Len(codexStream)] = "turnCompleted"
  /\ Count(codexStream, "delta") <= spoken

\* A cancelled run ends, at any point of the session and whatever the server does.
CancelEndsCodex == codexCancelled ~> codex.pc = "done"
=============================================================================
