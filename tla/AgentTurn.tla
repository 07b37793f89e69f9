------------------------------ MODULE AgentTurn ------------------------------
(***************************************************************************)
(* The native agent loop of one run: requests to the model, the tools it   *)
(* calls (one after the other, or in parallel groups), the approvals they  *)
(* wait for, and the durable stream of frames the run leaves behind.  The  *)
(* loop and its tool tasks share one thread and interleave only where they *)
(* await; a person deciding an approval and a cancel come from other       *)
(* threads at any time.  Text, usage and artifacts are left out.           *)
(***************************************************************************)
EXTENDS ForkSnapshot, SequencesExt

CONSTANTS Replies,        \* the tool calls of one model turn: sequences of tools
          Policy,           \* tool |-> "allow", "deny", "ask", or "unknown"
          ParallelSafe,     \* the tools that may share a group
          ParallelClient,   \* whether the model client takes parallel calls
          MaxTurns, MaxContextRetries, MaxContinuations, MaxConcurrent

ASSUME TurnAssumption ==
    /\ Policy \in [DOMAIN Policy -> {"allow", "deny", "ask", "unknown"}]
    /\ \A reply \in Replies : reply \in Seq(DOMAIN Policy)
    /\ MaxTurns \in Nat /\ MaxContextRetries \in Nat /\ MaxContinuations \in Nat

VARIABLES
    pc,               \* where the loop is
    turns, contextRetries, continuations,
    calls,            \* the tools the current turn called
    announced,        \* how many of them the stream has announced
    group,            \* <<first, last>> of the group being executed
    taken,            \* how many of the calls have handed over their result
    task,             \* call position |-> its execution
    history,          \* the session: the messages of the next request
    compactCount,     \* how often a request was found too long
    log,              \* the durable events of the run
    views,            \* views[i]: the session when event i was committed
    bridge,           \* call |-> the outcome its pending entry holds
    asked,            \* call |-> the approval as the store has it
    undelivered,      \* decisions committed but not yet handed to the bridge
    cancelled,        \* the cancellation token
    live,             \* the run is Running and owned, so the sink accepts
    outcome, cause    \* how the run ended

loopVars == <<pc, turns, contextRetries, continuations, calls, announced, group, taken>>
endVars == <<live, outcome, cause>>
approvalVars == <<bridge, asked, undelivered>>
vars == <<loopVars, task, history, compactCount, log, views, approvalVars, cancelled, endVars>>

Call(i) == <<turns, i>>
NoGroup == <<1, 0>>
InGroup == group[1]..group[2]

Init ==
    /\ pc = "top" /\ turns = 0 /\ contextRetries = 0 /\ continuations = 0
    /\ calls = <<>> /\ announced = 0 /\ group = NoGroup /\ taken = 0 /\ task = <<>>
    /\ history = <<User>> /\ compactCount = 0
    /\ log = <<>> /\ views = <<>>
    /\ bridge = [c \in {} |-> "pending"] /\ asked = [c \in {} |-> "pending"]
    /\ undelivered = {}
    /\ cancelled = FALSE
    /\ live = TRUE /\ outcome = "none" /\ cause = "none"

-----------------------------------------------------------------------------
(***************************************************************************)
(* The sink commits a frame only while the run is live.  The session as it *)
(* is at that moment is kept beside every frame.                           *)
(***************************************************************************)
CommitSeeing(frames, seen) ==
    /\ log' = log \o frames
    /\ views' = views \o [i \in 1..Len(frames) |-> seen]

Commit(frames) == CommitSeeing(frames, history)

Silent == UNCHANGED <<log, views>>

\* The loop is over and everything its thread was running is dropped.  The
\* run ends as `how` unless it is no longer the loop's to end.
End(how, why) ==
    /\ pc' = "done"
    /\ cause' = why
    /\ IF live
       THEN outcome' = how /\ live' = FALSE /\ Commit(<<Frame("run", 0, <<>>)>>)
       ELSE UNCHANGED <<outcome, live>> /\ Silent

Fail(why) == End("failed", why)

\* Pending entries the bridge resolves itself: it asks the sink to commit the
\* rejection first, and an entry the sink refuses stays as it is.
Interruptible(S) == { c \in S : live /\ bridge[c] = "pending" /\ asked[c] = "pending" }

Interrupt(S) ==
    /\ bridge' = [c \in DOMAIN bridge |-> IF c \in Interruptible(S) THEN "interrupted" ELSE bridge[c]]
    /\ asked' = [c \in DOMAIN asked |-> IF c \in Interruptible(S) THEN "rejected" ELSE asked[c]]

\* A table of approvals with an entry for a call that waits.
Entered(table, call) ==
    [c \in DOMAIN table \cup {call} |-> IF c = call THEN "pending" ELSE table[c]]

-----------------------------------------------------------------------------
\* Calls of the session without a result, in order.
MissingResults(h) ==
    LET called == FlattenSeq([i \in 1..Len(h) |-> h[i].calls])
    IN  SelectSeq(called, LAMBDA c : \A i \in 1..Len(h) : h[i].of # c)

Whole(h) ==
    \A k \in 1..Len(h) : \A n \in 1..Len(h[k].calls) :
        \E r \in 1..Len(h) : h[r].of = h[k].calls[n]

\* A session that misses no result stays as it is.
Repair(h) ==
    LET missing == MissingResults(h)
    IN  IF Whole(h) THEN h ELSE h \o [i \in 1..Len(missing) |-> Repaired(missing[i])]

Compact(h) == IF Len(h) > 2 THEN RemoveAt(h, 2) ELSE h

BeginTurn ==
    /\ pc = "top"
    /\ IF turns >= MaxTurns
       THEN /\ End("completed", "max turns")
            /\ UNCHANGED <<turns, history, approvalVars>>
       ELSE IF cancelled
       THEN /\ Interrupt(DOMAIN bridge)
            /\ Fail("cancelled")
            /\ UNCHANGED <<turns, history, undelivered>>
       ELSE IF ~live
       THEN Fail("sink") /\ UNCHANGED <<turns, history, approvalVars>>
       ELSE /\ turns' = turns + 1
            /\ history' = Repair(history)
            /\ Commit(<<Frame("turnStarted", turns + 1, <<>>)>>)
            /\ pc' = "stream"
            /\ UNCHANGED <<approvalVars, endVars>>
    /\ UNCHANGED <<contextRetries, continuations, calls, announced, group, taken, task, cancelled, compactCount>>

\* The provider refuses the request because it is too long, when it is opened
\* or while it streams.
StreamTooLong ==
    /\ pc = "stream"
    /\ IF contextRetries < MaxContextRetries
       THEN /\ contextRetries' = contextRetries + 1
            /\ history' = Compact(history) /\ compactCount' = compactCount + 1
            /\ pc' = "top"
            /\ Silent /\ UNCHANGED endVars
       ELSE Fail("context") /\ UNCHANGED <<contextRetries, history, compactCount>>
    /\ UNCHANGED <<turns, continuations, calls, announced, group, taken, task, approvalVars, cancelled>>

\* Any other provider error, and a call whose input is not JSON.
StreamFails ==
    /\ pc = "stream"
    /\ Fail("provider")
    /\ UNCHANGED <<turns, contextRetries, continuations, calls, announced, group, taken, task,
                   history, approvalVars, cancelled, compactCount>>

\* The reply is complete: its text and calls enter the session before the
\* stream says that the turn is over.
StreamCompletes(reply) ==
    LET called == [i \in 1..Len(reply) |-> <<turns, i>>]
    IN  /\ pc = "stream"
        /\ contextRetries' = 0
        /\ history' = Append(history, Assistant(called))
        /\ calls' = reply /\ announced' = 0 /\ taken' = 0 /\ group' = NoGroup
        /\ task' = [i \in 1..Len(reply) |-> "queued"]
        /\ IF live
           THEN /\ CommitSeeing(<<Frame("turnCompleted", turns, <<>>)>>, history')
                /\ pc' = IF reply = <<>> THEN "settle" ELSE "announce"
                /\ UNCHANGED endVars
           ELSE Fail("sink")
        /\ UNCHANGED <<turns, continuations, approvalVars, cancelled, compactCount>>

\* A turn without calls ends the run, or is continued when it was cut short.
Settle ==
    /\ pc = "settle"
    /\ \/ /\ continuations < MaxContinuations
          /\ continuations' = continuations + 1
          /\ pc' = "top"
          /\ Silent /\ UNCHANGED endVars
       \/ /\ continuations >= MaxContinuations
          /\ Fail("continuations")
          /\ UNCHANGED continuations
       \/ End("completed", "normal end") /\ UNCHANGED continuations
    /\ UNCHANGED <<turns, contextRetries, calls, announced, group, taken, task, history,
                   approvalVars, cancelled, compactCount>>

-----------------------------------------------------------------------------
(***************************************************************************)
(* The tools of a turn.  All of them are announced first; with a parallel  *)
(* client, runs of parallel-safe calls form a group, every other call is a *)
(* group of its own.                                                       *)
(***************************************************************************)
AnnounceCall ==
    /\ pc = "announce"
    /\ continuations' = 0
    /\ IF ~live
       THEN Fail("sink") /\ UNCHANGED announced
       ELSE /\ announced' = announced + 1
            /\ Commit(<<Frame("callStarted", turns, Call(announced + 1))>>)
            /\ pc' = IF announced + 1 = Len(calls) THEN "tools" ELSE "announce"
            /\ UNCHANGED endVars
    /\ UNCHANGED <<turns, contextRetries, calls, group, taken, task, history, approvalVars, cancelled, compactCount>>

\* The parallel-safe calls from position i on, up to the first that is not.
SafeUntil(i) ==
    CHOOSE j \in (i - 1)..Len(calls) :
        /\ \A k \in i..j : calls[k] \in ParallelSafe
        /\ j < Len(calls) => calls[j + 1] \notin ParallelSafe

GroupEnd(i) == IF ~ParallelClient \/ SafeUntil(i) < i THEN i ELSE SafeUntil(i)

\* A call the registry does not know ends the run where the groups are
\* formed, before the safe calls in front of it have run.
UnknownAhead(i) ==
    /\ ParallelClient
    /\ SafeUntil(i) < Len(calls)
    /\ Policy[calls[SafeUntil(i) + 1]] = "unknown"

NextGroup ==
    /\ pc = "tools"
    /\ taken = group[2] \/ group = NoGroup
    /\ LET i == taken + 1
       IN  IF i > Len(calls)
           THEN pc' = "results" /\ taken' = 0 /\ group' = NoGroup /\ Silent /\ UNCHANGED endVars
           ELSE IF UnknownAhead(i)
           THEN Fail("tool") /\ UNCHANGED <<taken, group>>
           ELSE group' = <<i, GroupEnd(i)>> /\ Silent /\ UNCHANGED <<pc, taken, endVars>>
    /\ UNCHANGED <<turns, contextRetries, continuations, calls, announced, task, history,
                   approvalVars, cancelled, compactCount>>

Unfinished == { i \in InGroup : task[i] \in {"spawned", "waiting", "running"} }

\* A permit is taken before a task is spawned.
Spawn(i) ==
    /\ pc = "tools" /\ i \in InGroup /\ task[i] = "queued"
    /\ \A j \in group[1]..(i - 1) : task[j] # "queued"
    /\ Cardinality(Unfinished) < MaxConcurrent
    /\ task' = [task EXCEPT ![i] = "spawned"]
    /\ UNCHANGED <<loopVars, history, log, views, approvalVars, cancelled, compactCount, endVars>>

\* The task runs up to its first await: the policy decides, or an approval is
\* entered in the bridge, requested of the store and shown in the stream.
Decide(i) ==
    /\ pc = "tools" /\ i \in InGroup /\ task[i] = "spawned"
    /\ LET policy == Policy[calls[i]]
       IN  /\ task' = [task EXCEPT ![i] = CASE policy = "allow" -> "running"
                                            [] policy = "deny" -> "result"
                                            [] policy = "unknown" -> "failed"
                                            [] OTHER -> IF live THEN "waiting" ELSE "failed"]
           /\ IF policy = "ask" /\ live
              THEN /\ bridge' = Entered(bridge, Call(i))
                   /\ asked' = Entered(asked, Call(i))
                   /\ Commit(<<Frame("pending", 0, Call(i))>>)
              ELSE UNCHANGED <<bridge, asked>> /\ Silent
    /\ UNCHANGED <<loopVars, history, undelivered, cancelled, compactCount, endVars>>

TerminalFrame(i) == IF live THEN Commit(<<Frame("callCompleted", turns, Call(i))>>) ELSE Silent

\* Mutant: a decision is awaited but not looked at.
ProceedAnyway(i) ==
    /\ pc = "tools" /\ i \in InGroup /\ task[i] = "waiting" /\ bridge[Call(i)] # "pending"
    /\ task' = [task EXCEPT ![i] = "running"]
    /\ UNCHANGED <<loopVars, history, log, views, approvalVars, cancelled, compactCount, endVars>>

\* The decision wakes the task; a call turned down is closed in the stream.
Wake(i) ==
    /\ pc = "tools" /\ i \in InGroup /\ task[i] = "waiting" /\ bridge[Call(i)] # "pending"
    /\ IF bridge[Call(i)] = "allow"
       THEN task' = [task EXCEPT ![i] = "running"] /\ Silent /\ UNCHANGED <<bridge, asked>>
       ELSE /\ task' = [task EXCEPT ![i] = "failed"]
            /\ TerminalFrame(i)
            /\ IF bridge[Call(i)] = "interrupted" /\ live
               THEN Interrupt(DOMAIN bridge)
               ELSE UNCHANGED <<bridge, asked>>
    /\ UNCHANGED <<loopVars, history, undelivered, cancelled, compactCount, endVars>>

\* The cancellation wakes it, whether or not a decision did too.  Everything
\* else that is pending is rejected as well.
WakeCancelled(i) ==
    /\ pc = "tools" /\ i \in InGroup /\ task[i] = "waiting" /\ cancelled
    /\ task' = [task EXCEPT ![i] = "failed"]
    /\ TerminalFrame(i)
    /\ Interrupt(DOMAIN bridge)
    /\ UNCHANGED <<loopVars, history, undelivered, cancelled, compactCount, endVars>>

\* The tool returns, with an output or with an error: both are a result.
ToolReturns(i) ==
    /\ pc = "tools" /\ i \in InGroup /\ task[i] = "running"
    /\ task' = [task EXCEPT ![i] = "result"]
    /\ UNCHANGED <<loopVars, history, log, views, approvalVars, cancelled, compactCount, endVars>>

\* The loop takes the results of the group in call order; the first call that
\* failed ends the loop, whatever the calls after it are doing.
TakeResult ==
    LET i == IF taken < group[1] THEN group[1] ELSE taken + 1
    IN  /\ pc = "tools" /\ i \in InGroup
        /\ \A j \in InGroup : task[j] # "queued"
        /\ \/ /\ task[i] = "result"
              /\ taken' = i
              /\ Silent /\ UNCHANGED <<pc, endVars>>
           \/ /\ task[i] = "failed"
              /\ Fail(IF cancelled THEN "cancelled" ELSE "tool")
              /\ UNCHANGED taken
        /\ UNCHANGED <<turns, contextRetries, continuations, calls, announced, group, task, history,
                       approvalVars, cancelled, compactCount>>

ResultFrames(i) ==
    <<Frame("callProgressed", turns, Call(i)), Frame("callCompleted", turns, Call(i))>>

\* When every group is done the results enter the session and the stream.
PublishResult ==
    LET i == taken + 1
    IN  /\ pc = "results"
        /\ history' = Append(history, ToolResult(Call(i)))
        /\ IF ~live
           THEN Fail("sink") /\ UNCHANGED taken
           ELSE /\ CommitSeeing(ResultFrames(i), history')
                /\ taken' = i
                /\ pc' = IF i = Len(calls) THEN "top" ELSE "results"
                /\ UNCHANGED endVars
        /\ UNCHANGED <<turns, contextRetries, continuations, calls, announced, group, task,
                       approvalVars, cancelled, compactCount>>

-----------------------------------------------------------------------------
(***************************************************************************)
(* The other threads.  A decision is committed to the store and then       *)
(* handed to the bridge, where the first outcome stands.  A cancel sets    *)
(* the token and then, if the run has not ended meanwhile, ends it and     *)
(* rejects what the store still has pending.                               *)
(***************************************************************************)
PersonDecides(c, decision) ==
    /\ live /\ asked[c] = "pending"
    /\ asked' = [asked EXCEPT ![c] = decision]
    /\ undelivered' = undelivered \cup {c}
    /\ UNCHANGED <<loopVars, task, history, log, views, bridge, cancelled, compactCount, endVars>>

DeliverDecision(c) ==
    /\ c \in undelivered
    /\ undelivered' = undelivered \ {c}
    /\ bridge' = IF bridge[c] # "pending" THEN bridge
                 ELSE [bridge EXCEPT ![c] = IF asked[c] = "approved" THEN "allow" ELSE "deny"]
    /\ UNCHANGED <<loopVars, task, history, log, views, asked, cancelled, compactCount, endVars>>

Cancel ==
    /\ live /\ ~cancelled
    /\ cancelled' = TRUE
    /\ UNCHANGED <<loopVars, task, history, log, views, approvalVars, compactCount, endVars>>

CancelCommits ==
    /\ live /\ cancelled
    /\ live' = FALSE /\ outcome' = "cancelled"
    /\ asked' = [c \in DOMAIN asked |-> IF asked[c] = "pending" THEN "rejected" ELSE asked[c]]
    /\ Commit(<<Frame("run", 0, <<>>)>>)
    /\ UNCHANGED <<loopVars, task, history, bridge, undelivered, cancelled, compactCount, cause>>

-----------------------------------------------------------------------------
Positions == 1..Len(calls)

TaskStep(i) == Spawn(i) \/ Decide(i) \/ Wake(i) \/ WakeCancelled(i) \/ ToolReturns(i)

LoopStep ==
    \/ BeginTurn
    \/ StreamTooLong \/ StreamFails \/ \E reply \in Replies : StreamCompletes(reply)
    \/ Settle \/ AnnounceCall \/ NextGroup \/ TakeResult \/ PublishResult
    \/ \E i \in Positions : TaskStep(i)

OtherThreads ==
    \/ \E c \in DOMAIN asked, d \in {"approved", "rejected"} : PersonDecides(c, d)
    \/ \E c \in undelivered : DeliverDecision(c)
    \/ Cancel \/ CancelCommits

Next == LoopStep \/ OtherThreads

Spec == Init /\ [][Next]_vars

\* The loop's thread keeps running, and every await in it but the one for an
\* approval comes back: requests and tools are given the token and a timeout.
FairSpec == Spec /\ WF_vars(LoopStep)

-----------------------------------------------------------------------------
TypeOK ==
    /\ pc \in {"top", "stream", "settle", "announce", "tools", "results", "done"}
    /\ turns \in 0..MaxTurns
    /\ contextRetries \in 0..MaxContextRetries /\ continuations \in 0..MaxContinuations
    /\ calls \in Replies \cup {<<>>}
    /\ announced \in 0..Len(calls) /\ taken \in 0..Len(calls)
    /\ group = NoGroup \/ (group[1] \in Positions /\ group[2] \in group[1]..Len(calls))
    /\ task \in [Positions -> {"queued", "spawned", "waiting", "running", "result", "failed"}]
    /\ \A i \in DOMAIN log : log[i].kind \in FrameKinds
    /\ Len(views) = Len(log)
    /\ bridge \in [DOMAIN asked -> {"pending", "allow", "deny", "interrupted"}]
    /\ asked \in [DOMAIN asked -> {"pending", "approved", "rejected"}]
    /\ undelivered \subseteq DOMAIN asked
    /\ cancelled \in BOOLEAN /\ live \in BOOLEAN
    /\ outcome \in {"none", "completed", "failed", "cancelled"}

\* A tool that needs an approval runs only with the store's record saying that
\* it was approved, whatever the cancel and the decision raced for.
RanWithConsent ==
    \A i \in DOMAIN task :
        /\ pc = "tools" /\ task[i] \in {"running", "result"}
        /\ Policy[calls[i]] = "ask"
        => Call(i) \in DOMAIN asked /\ asked[Call(i)] = "approved"

\* When a request goes out, every call of the session is followed by exactly
\* one result, and none of them is the stand-in of the repair.
RequestsAnswered ==
    pc = "stream" =>
        \A k \in 1..Len(history) : \A n \in 1..Len(history[k].calls) :
            LET c == history[k].calls[n]
            IN  { r \in 1..Len(history) : history[r].of = c } \in
                    { {r} : r \in { m \in (k + 1)..Len(history) : history[m].role = "tool" } }

\* The stream closes a call at most once and never before it announced it,
\* and a run that completed has closed every call and left no approval open.
CallsCloseOnce ==
    LET At(kind, c) == { i \in 1..Len(log) : log[i].kind = kind /\ log[i].item = c }
        announcedCalls == { log[i].item : i \in 1..Len(log) } \ {<<>>}
    IN  /\ \A c \in announcedCalls :
              /\ \A i, j \in At("callCompleted", c) : i = j
              /\ \A i \in At("callCompleted", c) : \E j \in At("callStarted", c) : j < i
        /\ outcome = "completed" =>
              /\ OpenCalls(log, Len(log)) = {}
              /\ \A c \in DOMAIN asked : asked[c] # "pending"

\* An event a fork may start from gives the forked model the session its
\* parent had there, when the parent's session was whole: every call
\* answered, nothing compacted away.
ForkRebuilds ==
    \A b \in 1..Len(log) :
        /\ ForkAccepted(log, b)
        /\ MissingResults(views[b]) = <<>>
        /\ compactCount = 0
        => ForkedHistory(log, b) = views[b]

\* What a turn promises its user and its model: a tool runs only with the consent its policy
\* asks for, every call of the session is answered once before the next request goes out, and
\* the stream closes every call once.
TurnSound == RanWithConsent /\ RequestsAnswered /\ CallsCloseOnce

\* A loop that is cancelled comes to its end.
CancelledEnds == cancelled ~> pc = "done"

\* A run that failed on its provider can be forked from its last event, the
\* fork point of the Replay control.
ProviderFailureReplays ==
    pc = "done" /\ cause = "provider" /\ outcome = "failed" => ForkAccepted(log, Len(log))
==============================================================================
