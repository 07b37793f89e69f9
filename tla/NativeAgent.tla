----------------------------- MODULE NativeAgent -----------------------------
(* A native run from its dispatch on: what must hold before its thread is      *)
(* started, the session it starts with, and then the approvals of its tool     *)
(* calls, seen at the locks: the bridge's table, the watch channel behind each *)
(* entry, the daemon's threads that hand decisions over, a cancel at any time, *)
(* and the files its tools leave behind.                                       *)
EXTENDS Integers, Sequences, FiniteSets, SequencesExt

CONSTANTS
  ToolCalls,     \* tool calls that need an approval; they run as tasks of one thread
  Deciders,      \* threads of the daemon that hand over a decision
  Dispatches,    \* the requests a run may be started with
  Shelves,       \* numbers of artifact files an earlier writer may have left
  Reads,         \* [lines, offset, limit]: reads of a file
  Turned,        \* [stop, calls]: replies of a model, calls a sequence of "good", "null" or "broken"
  UsizeMax       \* the largest usize

NoCall == 0
Messages == [role : {"system", "user", "assistant", "tool"}, text : Seq(STRING)]
ASSUME CallsAreNumbered == ToolCalls \subseteq Nat \ {NoCall}
\* A system message gets into a history at its front only; a machine has finitely many files.
ASSUME NativeAssumption ==
  /\ \A r \in Dispatches : /\ r.forked \in Seq(Messages)
                            /\ \A i \in 2..Len(r.forked) : r.forked[i].role # "system"
  /\ Shelves \subseteq Nat /\ IsFiniteSet(Shelves)
  /\ Reads \subseteq [lines : Nat, offset : Nat, limit : Nat] /\ UsizeMax \in Nat

VARIABLES
  stage,       \* "new", "accepted", "mounted", "running", "refused" or "over"
  dispatch,    \* the request
  servers,     \* the MCP servers of the run are up
  started,     \* the messages the session starts with
  tools,       \* [names, locked]: the registry
  taskPc,      \* call |-> where its task is
  entry,       \* call |-> "none", "pending" or the outcome in the table of the bridge
  approval,    \* call |-> "none", "pending", "approved", "rejected" or "interrupted" in the store
  channel,     \* call |-> "empty" or the outcome last sent
  approvalHolder,      \* the call or thread that has the lock of the table, or NoCall
  decider,     \* thread |-> [pc, call, outcome]
  owned,       \* the run is running and live: its sink accepts
  token,       \* the cancellation token
  shelf,       \* the artifact files of the run: number |-> those who wrote it
  counter,     \* the writer's counter
  recorded     \* what the sink has recorded: {<<call, number>>}

dispatchVars == <<stage, dispatch, servers, started, tools>>
bridgeVars == <<taskPc, entry, approval, channel, approvalHolder, decider>>
shelfVars == <<shelf, counter, recorded>>
nativeVars == <<dispatchVars, bridgeVars, owned, token, shelfVars>>

-----------------------------------------------------------------------------
(* Dispatch.                                                                  *)
BuiltinTools == {"read_file", "list_directory", "search", "shell", "apply_patch"}
\* add: nothing is added once the list is locked.
AddTools(t, names) == IF t.locked THEN t ELSE [t EXCEPT !.names = @ \cup names]
\* client_for_request
ClientError(r) ==
  CASE r.model = "" -> "invalid" [] r.model # "" /\ r.provider = "unknown" -> "unsupported"
    [] r.model # "" /\ r.provider # "unknown" -> IF r.credentials THEN "none" ELSE "auth"
\* prepend_system_prompt: a prompt goes before the first message, or into it when it is a system
\* message that says something else.
PrependSystemPrompt(h, prompt) ==
  IF prompt = "" THEN h
  ELSE IF h # <<>> /\ h[1].role = "system"
       THEN IF h[1].text = <<prompt>> THEN h ELSE [h EXCEPT ![1].text = <<prompt>> \o h[1].text]
       ELSE <<[role |-> "system", text |-> <<prompt>>]>> \o h
\* session_for_request, Session::new
SessionForRequest(r) ==
  PrependSystemPrompt(Append(r.forked, [role |-> "user", text |-> <<r.objective>>]), r.prompt)

\* dispatch: the context and the client come first, then the tools.
Accept(r) ==
  /\ stage = "new" /\ dispatch' = r
  /\ IF r.contextValid /\ ClientError(r) = "none"
     THEN stage' = "accepted" /\ tools' = AddTools([names |-> BuiltinTools, locked |-> FALSE], {"subagent"})
     ELSE stage' = "refused" /\ UNCHANGED tools
  /\ UNCHANGED <<servers, started, bridgeVars, owned, token, shelfVars>>
\* mount_from_request: a server that cannot be mounted fails the dispatch and takes the others down.
\* A tool of the same name takes the place of the earlier one.
Mount ==
  /\ stage = "accepted"
  /\ \/ stage' = "mounted" /\ servers' = (dispatch.mcp # {}) /\ tools' = AddTools(tools, dispatch.mcp)
     \/ dispatch.mcp # {} /\ stage' = "refused" /\ servers' = FALSE /\ UNCHANGED tools
  /\ UNCHANGED <<dispatch, started, bridgeVars, owned, token, shelfVars>>
\* ArtifactWriter::new: a usable name for the run, and a directory that can be made and resolved.
RootUsable(r) == r.rootUsable
\* spawn_loop: the artifact directory has to be there; what was mounted goes with a failure.
SpawnLoop ==
  /\ stage = "mounted"
  /\ IF RootUsable(dispatch) THEN /\ stage' = "running" /\ started' = SessionForRequest(dispatch)
                                 /\ taskPc' = [c \in ToolCalls |-> "turn"] /\ UNCHANGED servers
     ELSE stage' = "refused" /\ servers' = FALSE /\ UNCHANGED <<started, taskPc>>
  /\ UNCHANGED <<dispatch, tools, entry, approval, channel, approvalHolder, decider, owned, token, shelfVars>>
\* lock_tool_list_if_unlocked, before the first request to the model.
LockTools ==
  /\ stage = "running" /\ ~tools.locked /\ tools' = [tools EXCEPT !.locked = TRUE]
  /\ taskPc' = [c \in ToolCalls |-> "request"]
  /\ UNCHANGED <<stage, dispatch, servers, started, entry, approval, channel, approvalHolder, decider, owned, token, shelfVars>>

-----------------------------------------------------------------------------
(* The bridge.  The lock of its table is held while the sink commits a        *)
(* rejection, and let go of before the outcome is sent to the waiting task.   *)
\* A task gives way to the others of its thread only where it waits.
Midway == {"ask", "show", "remove", "subscribe", "resolve", "written"}
Runs(c) == \A o \in ToolCalls \ {c} : taskPc[o] \notin Midway
RestOfRun == <<dispatchVars, owned, token, shelfVars>>
\* insert_pending
Insert(c) ==
  /\ Runs(c) /\ taskPc[c] = "request" /\ approvalHolder = NoCall
  /\ entry' = [entry EXCEPT ![c] = "pending"] /\ taskPc' = [taskPc EXCEPT ![c] = "ask"]
  /\ UNCHANGED <<approval, channel, approvalHolder, decider, RestOfRun>>
\* The sink commits the request, or refuses it.
AskSink(c) ==
  /\ Runs(c) /\ taskPc[c] = "ask"
  /\ IF owned THEN approval' = [approval EXCEPT ![c] = "pending"] /\ taskPc' = [taskPc EXCEPT ![c] = "show"]
     ELSE taskPc' = [taskPc EXCEPT ![c] = "remove"] /\ UNCHANGED approval
  /\ UNCHANGED <<entry, channel, approvalHolder, decider, RestOfRun>>
\* emit_waiting_for_approval
EmitWaiting(c) ==
  /\ Runs(c) /\ taskPc[c] = "show" /\ taskPc' = [taskPc EXCEPT ![c] = IF owned THEN "subscribe" ELSE "remove"]
  /\ UNCHANGED <<entry, approval, channel, approvalHolder, decider, RestOfRun>>
RemovePending(c) ==
  /\ Runs(c) /\ taskPc[c] = "remove" /\ approvalHolder = NoCall
  /\ entry' = [entry EXCEPT ![c] = "none"] /\ taskPc' = [taskPc EXCEPT ![c] = "failed"]
  /\ UNCHANGED <<approval, channel, approvalHolder, decider, RestOfRun>>
\* receiver
SubscribeDecision(c) ==
  /\ Runs(c) /\ taskPc[c] = "subscribe" /\ approvalHolder = NoCall
  /\ taskPc' = [taskPc EXCEPT ![c] = IF entry[c] = "none" THEN "failed" ELSE "waiting"]
  /\ UNCHANGED <<entry, approval, channel, approvalHolder, decider, RestOfRun>>
\* wait: a value in the channel ends it ...
WaitReturns(c) ==
  /\ Runs(c) /\ taskPc[c] = "waiting" /\ channel[c] # "empty" /\ taskPc' = [taskPc EXCEPT ![c] = channel[c]]
  /\ UNCHANGED <<entry, approval, channel, approvalHolder, decider, RestOfRun>>
\* ... and so does a cancel, which first rejects the approval itself.
WaitCancelled(c) ==
  /\ Runs(c) /\ taskPc[c] = "waiting" /\ token /\ approvalHolder = NoCall
  /\ approvalHolder' = c /\ taskPc' = [taskPc EXCEPT ![c] = "resolve"]
  /\ UNCHANGED <<entry, approval, channel, decider, RestOfRun>>
\* emit_resolution
SinkRejects(c) == owned /\ approval[c] = "pending"
\* resolve_once with the sink: an outcome that is there stays; the sink commits the rejection or
\* refuses it, and then the entry stays pending.
Resolve(c) ==
  /\ Runs(c) /\ taskPc[c] = "resolve" /\ approvalHolder' = NoCall
  /\ IF entry[c] = "pending" /\ SinkRejects(c)
     THEN /\ entry' = [entry EXCEPT ![c] = "interrupted"] /\ approval' = [approval EXCEPT ![c] = "interrupted"]
          /\ channel' = [channel EXCEPT ![c] = "interrupted"]
     ELSE UNCHANGED <<entry, approval, channel>>
  /\ taskPc' = [taskPc EXCEPT ![c] = "cancelled"]
  /\ UNCHANGED <<decider, RestOfRun>>

\* A person decides, or the approval runs out: the store has the decision before the bridge.
DecideCall(d, c, how) ==
  /\ decider[d].pc = "idle" /\ owned /\ approval[c] = "pending"
  /\ approval' = [approval EXCEPT ![c] = how]
  /\ decider' = [decider EXCEPT ![d] = [pc |-> "deliver", call |-> c, outcome |-> how]]
  /\ UNCHANGED <<taskPc, entry, channel, approvalHolder, RestOfRun>>
\* resolve_from_runtime: only an entry that is pending takes it.
Deliver(d) ==
  /\ decider[d].pc = "deliver" /\ approvalHolder = NoCall
  /\ LET c == decider[d].call
     IN IF entry[c] = "pending"
        THEN /\ entry' = [entry EXCEPT ![c] = decider[d].outcome]
             /\ decider' = [decider EXCEPT ![d].pc = "send"]
        ELSE decider' = [decider EXCEPT ![d].pc = "idle"] /\ UNCHANGED entry
  /\ UNCHANGED <<taskPc, approval, channel, approvalHolder, RestOfRun>>
\* send_replace, when the lock is gone.
Send(d) ==
  /\ decider[d].pc = "send" /\ decider' = [decider EXCEPT ![d].pc = "idle"]
  /\ channel' = [channel EXCEPT ![decider[d].call] = decider[d].outcome]
  /\ UNCHANGED <<taskPc, entry, approval, approvalHolder, RestOfRun>>

\* cancel of the handle, and its drop.
CancelToken ==
  /\ stage = "running" /\ ~token /\ token' = TRUE /\ UNCHANGED <<dispatchVars, bridgeVars, owned, shelfVars>>
\* The daemon ends the run: nothing is accepted any more, and what was pending is rejected.
LoseRun ==
  /\ stage = "running" /\ owned /\ token /\ owned' = FALSE
  /\ approval' = [c \in ToolCalls |-> IF approval[c] = "pending" THEN "rejected" ELSE approval[c]]
  /\ UNCHANGED <<dispatchVars, taskPc, entry, channel, approvalHolder, decider, token, shelfVars>>

-----------------------------------------------------------------------------
(* Artifacts: create_new passes over the numbers that are taken.              *)
\* Mutant: the file of that number is opened and truncated.
WriteOver(c) ==
  /\ Runs(c) /\ taskPc[c] = "approved"
  /\ counter' = counter + 1 /\ shelf' = (counter + 1 :> (IF counter + 1 \in DOMAIN shelf THEN Append(shelf[counter + 1], c) ELSE <<c>>)) @@ shelf
  /\ taskPc' = [taskPc EXCEPT ![c] = "written"]
  /\ UNCHANGED <<dispatchVars, entry, approval, channel, approvalHolder, decider, owned, token, recorded>>
\* write_artifact: the counter moves on for every number that was taken.
WriteArtifact(c) ==
  /\ Runs(c) /\ taskPc[c] = "approved"
  /\ LET n == CHOOSE k \in (counter + 1)..(counter + 1 + Cardinality(DOMAIN shelf)) :
                /\ k \notin DOMAIN shelf
                /\ \A j \in (counter + 1)..(k - 1) : j \in DOMAIN shelf
     IN counter' = n /\ shelf' = [k \in DOMAIN shelf \cup {n} |-> IF k = n THEN <<c>> ELSE shelf[k]]
  /\ taskPc' = [taskPc EXCEPT ![c] = "written"]
  /\ UNCHANGED <<dispatchVars, entry, approval, channel, approvalHolder, decider, owned, token, recorded>>
\* The file is not there, or not in the directory of the run.
ArtifactWriteFails(c) ==
  /\ Runs(c) /\ taskPc[c] = "approved" /\ taskPc' = [taskPc EXCEPT ![c] = "failed"]
  /\ UNCHANGED <<entry, approval, channel, approvalHolder, decider, RestOfRun>>
\* record_tool_artifact
RecordToolArtifact(c) ==
  /\ Runs(c) /\ taskPc[c] = "written"
  /\ IF owned THEN recorded' = recorded \cup {<<c, counter>>} /\ taskPc' = [taskPc EXCEPT ![c] = "done"]
     ELSE taskPc' = [taskPc EXCEPT ![c] = "failed"] /\ UNCHANGED recorded
  /\ UNCHANGED <<dispatchVars, entry, approval, channel, approvalHolder, decider, owned, token, shelf, counter>>

-----------------------------------------------------------------------------
(* The end of the thread.                                                     *)
CallSettled(c) == taskPc[c] \in {"turn", "failed", "cancelled", "rejected", "interrupted", "done"}
\* reject_all: once more for what is still pending when a cancelled loop ends.
RejectAll(c) ==
  /\ stage = "running" /\ token /\ (\A o \in ToolCalls : CallSettled(o)) /\ approvalHolder = NoCall
  /\ entry[c] = "pending" /\ SinkRejects(c)
  /\ entry' = [entry EXCEPT ![c] = "interrupted"] /\ approval' = [approval EXCEPT ![c] = "interrupted"]
  /\ channel' = [channel EXCEPT ![c] = "interrupted"]
  /\ UNCHANGED <<taskPc, approvalHolder, decider, RestOfRun>>
\* The loop returns, completed or not; the servers go with its registry.
LoopEnds ==
  /\ stage = "running" /\ (\A c \in ToolCalls : CallSettled(c)) /\ (token \/ tools.locked)
  /\ stage' = "over" /\ servers' = FALSE
  /\ UNCHANGED <<dispatch, started, tools, bridgeVars, owned, token, shelfVars>>

-----------------------------------------------------------------------------
(* What the tools make of their input.                                        *)
\* read_file: the lines of a window; the sum of offset and limit is a usize.
ReadFile(r) ==
  LET end == ((r.offset + r.limit) % (UsizeMax + 1))
      last == IF end < r.lines THEN end ELSE r.lines
  IN [shown |-> {i \in 1..r.lines : i > r.offset /\ i <= r.offset + r.limit}, startLine |-> r.offset + 1, endLine |-> last,
      truncated |-> last < r.lines]
\* search_content looks at the limit after a match, search_filename before one.
SearchContent(matches, limit) == IF matches = 0 THEN 0 ELSE IF matches < limit THEN matches ELSE IF limit = 0 THEN 1 ELSE limit
SearchFilename(matches, limit) == IF matches < limit THEN matches ELSE limit
\* filter_truncated_tool_calls: the places of the calls that stay, in the order they have.
FilterTruncated(calls) == {i \in DOMAIN calls : calls[i] = "good"}
\* finalize_tool_calls
FinalizeToolCalls(t) ==
  IF t.stop = "maxTokens" THEN [error |-> FALSE, taken |-> FilterTruncated(t.calls)]
  ELSE [error |-> \E i \in DOMAIN t.calls : t.calls[i] = "broken", taken |-> DOMAIN t.calls]

-----------------------------------------------------------------------------
NativeInit ==
  /\ stage = "new" /\ dispatch \in Dispatches /\ servers = FALSE /\ started = <<>>
  /\ tools = [names |-> {}, locked |-> FALSE] /\ owned = TRUE /\ token = FALSE
  /\ taskPc = [c \in ToolCalls |-> "turn"] /\ entry = [c \in ToolCalls |-> "none"]
  /\ approval = [c \in ToolCalls |-> "none"] /\ channel = [c \in ToolCalls |-> "empty"] /\ approvalHolder = NoCall
  /\ decider = [d \in Deciders |-> [pc |-> "idle", call |-> NoCall, outcome |-> "none"]]
  /\ \E taken \in SUBSET Shelves : shelf = [n \in taken |-> <<NoCall>>]
  /\ counter = 0 /\ recorded = {}

CallStep(c) ==
  \/ Insert(c) \/ AskSink(c) \/ EmitWaiting(c) \/ RemovePending(c) \/ SubscribeDecision(c) \/ WaitReturns(c) \/ WaitCancelled(c)
  \/ Resolve(c) \/ WriteArtifact(c) \/ ArtifactWriteFails(c) \/ RecordToolArtifact(c) \/ RejectAll(c)
DeciderStep(d) == Deliver(d) \/ Send(d) \/ \E c \in ToolCalls, how \in {"approved", "rejected"} : DecideCall(d, c, how)
NativeNext ==
  \/ Accept(dispatch) \/ Mount \/ SpawnLoop \/ LockTools \/ CancelToken \/ LoseRun \/ LoopEnds
  \/ \E c \in ToolCalls : CallStep(c)
  \/ \E d \in Deciders : DeciderStep(d)

NativeSpec == NativeInit /\ [][NativeNext]_nativeVars
-----------------------------------------------------------------------------
\* A tool that goes on has the consent the store shows, and a decision that someone made is never
\* turned into another by the bridge, whoever is first at its table.
ConsentIsTheStores ==
  \A c \in ToolCalls :
    /\ taskPc[c] \in {"approved", "written", "done"} => approval[c] = "approved"
    /\ entry[c] \in {"approved", "rejected", "interrupted"} => approval[c] = entry[c]
    /\ channel[c] # "empty" => channel[c] = approval[c]
\* No answer is lost: a task that waits has an entry, and when the store no longer waits for it,
\* either the outcome is in the channel, or a thread is on its way, or the run is cancelled.
NoAnswerLost ==
  \A c \in ToolCalls :
    taskPc[c] = "waiting" =>
      /\ entry[c] # "none"
      /\ \/ approval[c] = "pending" \/ channel[c] # "empty" \/ token
         \/ \E d \in Deciders : decider[d].pc \in {"deliver", "send"} /\ decider[d].call = c
\* An artifact that was recorded is the file its call wrote, and what lay there before is untouched.
ArtifactsKept ==
  /\ \A a \in recorded : shelf[a[2]] = <<a[1]>>
  /\ \A n \in DOMAIN shelf : Len(shelf[n]) = 1
  /\ \A a, b \in recorded : a[2] = b[2] => a = b
\* A run that was refused leaves no server; one that runs has one system message at most, at the
\* front, and the objective at the end.
DispatchClean ==
  /\ stage \in {"refused", "over"} => ~servers
  /\ stage = "running" => /\ \A i \in 2..Len(started) : started[i].role # "system"
                          /\ Last(started) = [role |-> "user", text |-> <<dispatch.objective>>]
\* Of a reply that was cut off no call is taken that the model did not finish; a read says that
\* there is more exactly when there is, unless the sum of offset and limit overflows.
InputsSound ==
  /\ \A t \in Turned : ~FinalizeToolCalls(t).error => \A i \in FinalizeToolCalls(t).taken :
       t.calls[i] # "broken" /\ (t.stop = "maxTokens" => t.calls[i] # "null")
  /\ \A r \in Reads : r.offset + r.limit <= UsizeMax =>
       (ReadFile(r).truncated <=> \E i \in 1..r.lines : i > r.offset + r.limit)
  /\ \A m, l \in 0..2 : SearchFilename(m, l) <= SearchContent(m, l)
\* What a native run guarantees.
NativeSound == ConsentIsTheStores /\ NoAnswerLost /\ ArtifactsKept /\ DispatchClean /\ InputsSound
=============================================================================
