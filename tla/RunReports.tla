----------------------------- MODULE RunReports -----------------------------
(* What the provider of a run reports through its sink while the run goes on:  *)
(* stream frames with the budget check behind each of them, artifacts with     *)
(* their receipts, approvals, and in the end the result, which is held against *)
(* the contract of the run.  Clients promote and quarantine receipts, runs are *)
(* cancelled, transactions fail and the daemon dies in between.                *)
EXTENDS Integers, Sequences, FiniteSets, SequencesExt

CONSTANTS
  Tasks, NoRun,
  Parents,        \* run |-> its parent, or NoRun
  Sources,        \* run |-> "user", "subagent" or "forked"
  Contracts,      \* run |-> the kind of result asked for, or "none"
  Results,        \* the results a provider may give
  Totals,         \* the token totals a provider may report
  PerRun,         \* [tokens, tools]: the limits of a run
  Aggregate,      \* [tokens, tools]: the limits of a run and all that descend from it
  U32,            \* the largest number of tests that can be counted
  MaxReported       \* bound on the events

ASSUME ReportsAssumption ==
  /\ IsFiniteSet(Tasks)
  /\ Totals \subseteq Nat
  /\ PerRun \in [tokens : Nat, tools : Nat] /\ Aggregate \in [tokens : Nat, tools : Nat]

VARIABLES
  status,     \* run |-> "queued", "running", "completed", "failed", "budget" or "cancelled"
  live,       \* run |-> its provider is registered as running
  tally,      \* run |-> what its events come to: [tools, total, ends, late]
  seq,        \* the number of events
  delivered,    \* run |-> the result in its row, or NoResult
  awaiting,    \* run |-> approvals it waits for
  papers,     \* the receipts: [key, run, parent, kind, state]
  sink,       \* run |-> the call of the provider in progress: [pc, data, seq]
  everPromoted  \* history: the keys of the receipts that were promoted

reportVars == <<status, live, tally, seq, delivered, awaiting, papers, sink, everPromoted>>

NoResult == [kind |-> "none"]
IdleSink == [pc |-> "idle", data |-> NoResult, seq |-> 0]
Room == seq + 3 <= MaxReported
\* usage_by_run, for the events of one transaction, the end of the run the last of them: the last
\* total counts, and every call of a tool.  Late is an event behind the end of its run that is not
\* about a receipt.
Count(t, kinds, total) ==
  [tools |-> IF "tool" \in kinds THEN t.tools + 1 ELSE t.tools, total |-> IF "total" \in kinds THEN total ELSE t.total,
   ends |-> IF "ended" \in kinds THEN t.ends + 1 ELSE t.ends, late |-> t.late \/ (t.ends > 0 /\ kinds # {"receipt"})]
\* One transaction with these events of a run.
Commits(r, kinds, total) ==
  seq' = seq + Cardinality(kinds) /\ tally' = [tally EXCEPT ![r] = Count(@, kinds, total)]
CommitOne(r, k) == Commits(r, {k}, 0)

-----------------------------------------------------------------------------
(* The budget, computed from the events each time.                            *)
Usage(r) == [tokens |-> tally[r].total, tools |-> tally[r].tools]
\* root_run_id: from parent to parent.
Root ==
  LET climb(r, i) == IF Parents[r] = NoRun THEN r ELSE Parents[r]
  IN [r \in Tasks |-> FoldLeft(climb, r, [i \in 1..Cardinality(Tasks) |-> i])]
\* aggregate_run_ids: every run below the root, the ended ones too.
Family == [r \in Tasks |-> {q \in Tasks : Root[q] = Root[r]}]
\* aggregate_usage: the sum over the family, as the number of all that was used there.
Together(r, used(_)) == Cardinality(UNION {{<<q, n>> : n \in 1..used(q)} : q \in Family[r]})
AggregateTools(r) == Together(r, LAMBDA q : tally[q].tools)
AggregateUsage(r) == [tokens |-> Together(r, LAMBDA q : tally[q].total), tools |-> AggregateTools(r)]
\* decide: a limit may be reached, not passed.
WithinLimits(usage, limits) == usage.tokens <= limits.tokens /\ usage.tools <= limits.tools
\* enforce_budget
WithinBudget(r) == WithinLimits(Usage(r), PerRun) /\ WithinLimits(AggregateUsage(r), Aggregate)

-----------------------------------------------------------------------------
(* The contract of a result.                                                  *)
ValidDebug(c) == c.confidence \in 0..1 /\ (c.reproduced => c.evidence > 0)
ValidPatch(c) == c.patches > 0
\* The parts are added in 64 bits, so that a sum beyond 32 bits is seen.
ValidTest(c) == c.passed + c.failed + c.skipped <= U32 /\ c.passed + c.failed + c.skipped = c.total
ValidPlan(c) == \A i \in 1..Len(c.steps) : c.steps[i] \subseteq 1..Len(c.steps) /\ i \notin c.steps[i]
\* validate_result_against_contract
ValidResult(contract, c) ==
  /\ c.kind = contract
  /\ CASE c.kind = "debug" -> ValidDebug(c) [] c.kind = "patch" -> ValidPatch(c) [] c.kind = "test" -> ValidTest(c)
       [] c.kind = "plan" -> ValidPlan(c) [] OTHER -> TRUE
\* output_contract_for_run: a fork has none.
ContractOf(r) == IF Sources[r] = "forked" THEN "none" ELSE Contracts[r]
\* validate_completion_payload
ValidPayload(r, c) == ContractOf(r) = "none" \/ (c # NoResult /\ ValidResult(ContractOf(r), c))

-----------------------------------------------------------------------------
(* Receipts.                                                                  *)
\* receipt_kind_for_contract, receipt_kind_for_result
ReceiptKind(k) ==
  CASE k \in {"debug", "plan"} -> "summary" [] k = "patch" -> "patch" [] k = "review" -> "reviewFinding"
    [] k = "test" -> "testOutput" [] OTHER -> "artifact"
\* receipt_id_for_create, unique_key_for_parts: an artifact, or an event and a turn, makes the key;
\* what has neither gets a fresh one.
Key(r, kind, provenance, n) == <<r, kind, provenance, n>>
ReceiptByUniqueKey(key) == {p \in papers : p.key = key}
BuildReturnedReceipt(key, r, kind) == [key |-> key, run |-> r, parent |-> Parents[r], kind |-> kind, state |-> "returned"]
InsertReceipt(p) == papers \cup {p}
\* create: a receipt of that key is left as it is.
Created(key, r, kind) == IF ReceiptByUniqueKey(key) # {} THEN papers ELSE InsertReceipt(BuildReturnedReceipt(key, r, kind))
\* apply_promote, apply_quarantine
Settled(state, to) ==
  CASE to = "promoted" -> "promoted"
    [] to = "quarantined" /\ state = "promoted" -> "refused"
    [] to = "quarantined" /\ state # "promoted" -> "quarantined"
With(ps, key, state) == {IF p.key = key THEN [p EXCEPT !.state = state] ELSE p : p \in ps}
PaperOf(ps, key) == CHOOSE p \in ps : p.key = key
Promotes(key, state) == everPromoted' = IF state = "promoted" THEN everPromoted \cup {key} ELSE everPromoted

\* promote_receipt, quarantine_receipt: the row, and then the event, which may fail.
TransitionReceipt(key, to) ==
  /\ Room /\ \E p \in papers : p.key = key
  /\ LET p == PaperOf(papers, key)
         next == Settled(p.state, to)
     IN /\ next # "refused" /\ papers' = With(papers, key, next) /\ Promotes(key, next)
        /\ CommitOne(p.run, "receipt") \/ UNCHANGED <<tally, seq>>
  /\ UNCHANGED <<status, live, delivered, awaiting, sink>>

-----------------------------------------------------------------------------
(* The calls of the provider.  A report needs a run that is running and live. *)
MayReport(r) == status[r] = "running" /\ live[r]
Reports(r) == sink[r].pc = "idle" /\ MayReport(r) /\ Room

\* dispatch: committed as running, and checked before the provider is started.
Dispatch(r) ==
  /\ status[r] = "queued" /\ sink[r].pc = "idle" /\ Room /\ (Parents[r] # NoRun => status[Parents[r]] # "queued")
  /\ status' = [status EXCEPT ![r] = "running"]
  /\ sink' = [sink EXCEPT ![r].pc = "dispatch"] /\ UNCHANGED <<live, tally, seq, delivered, awaiting, papers, everPromoted>>
StartProvider(r) ==
  /\ sink[r].pc = "dispatch" /\ WithinBudget(r)
  /\ live' = [live EXCEPT ![r] = status[r] = "running"] /\ sink' = [sink EXCEPT ![r] = IdleSink]
  /\ UNCHANGED <<status, tally, seq, delivered, awaiting, papers, everPromoted>>

\* push_stream: the frame is committed, and the budget is looked at afterwards.
PushStream(r) ==
  /\ Reports(r)
  /\ CommitOne(r, "tool") \/ CommitOne(r, "frame") \/ \E t \in Totals : Commits(r, {"total"}, t)
  /\ sink' = [sink EXCEPT ![r].pc = "check"]
  /\ UNCHANGED <<status, live, delivered, awaiting, papers, everPromoted>>
\* record_token_usage, push_activity: committed, without a check.
RecordUsage(r) ==
  /\ Reports(r) /\ \E k \in {"usage", "activity"} : CommitOne(r, k)
  /\ UNCHANGED <<status, live, delivered, awaiting, papers, sink, everPromoted>>
RequestApproval(r) ==
  /\ Reports(r) /\ awaiting[r] = 0
  /\ CommitOne(r, "asked") /\ awaiting' = [awaiting EXCEPT ![r] = 1]
  /\ UNCHANGED <<status, live, delivered, papers, sink, everPromoted>>
ResolveApproval(r) ==
  /\ Reports(r) /\ awaiting[r] = 1
  /\ CommitOne(r, "answered") /\ awaiting' = [awaiting EXCEPT ![r] = 0]
  /\ UNCHANGED <<status, live, delivered, papers, sink, everPromoted>>

\* enforce_budget_after_stream
CheckBudget(r) ==
  /\ sink[r].pc = "check"
  /\ IF WithinBudget(r) THEN sink' = [sink EXCEPT ![r] = IdleSink] /\ UNCHANGED live
     ELSE sink' = [sink EXCEPT ![r].pc = "exceeded"] /\ live' = [live EXCEPT ![r] = FALSE]
  /\ UNCHANGED <<status, tally, seq, delivered, awaiting, papers, everPromoted>>
\* A run that is over its budget before it starts has no provider to cancel.
OverBudgetAtDispatch(r) ==
  /\ sink[r].pc = "dispatch" /\ ~WithinBudget(r) /\ sink' = [sink EXCEPT ![r].pc = "exceeded"]
  /\ UNCHANGED <<status, live, tally, seq, delivered, awaiting, papers, everPromoted>>
\* fail_run_for_budget: one transaction, unless the run has ended meanwhile.
FailRunForBudget(r) ==
  /\ sink[r].pc = "exceeded" /\ sink' = [sink EXCEPT ![r] = IdleSink]
  /\ IF status[r] # "running" THEN UNCHANGED <<status, tally, seq, awaiting>>
     ELSE /\ status' = [status EXCEPT ![r] = "budget"] /\ awaiting' = [awaiting EXCEPT ![r] = 0]
          /\ Commits(r, {"exceeded", "ended"} \cup (IF awaiting[r] = 1 THEN {"answered"} ELSE {}), 0)
  /\ UNCHANGED <<live, delivered, papers, everPromoted>>

\* record_artifact: looked at under one lock ...
RecordArtifact(r) ==
  /\ Reports(r) /\ sink' = [sink EXCEPT ![r].pc = "artifact"]
  /\ UNCHANGED <<status, live, tally, seq, delivered, awaiting, papers, everPromoted>>
\* Mutant: the transaction does not look at the run again.
PublishUnchecked(r) ==
  /\ sink[r].pc = "artifact" /\ Room
  /\ CommitOne(r, "artifact") /\ sink' = [sink EXCEPT ![r] = IdleSink]
  /\ UNCHANGED <<status, live, delivered, awaiting, papers, everPromoted>>
\* artifact_receipt_create_input: only a native run gives receipts of its artifacts.
ArtifactKey(r) == Key(r, "patch", "artifact", seq + 1)
\* append_artifact_receipt_event: an artifact that has its receipt gets no second one, and the
\* event may fail although the row is there.
AppendArtifactReceipt(r) ==
  IF ReceiptByUniqueKey(ArtifactKey(r)) # {} THEN CommitOne(r, "artifact") /\ UNCHANGED papers
  ELSE papers' = Created(ArtifactKey(r), r, "patch") /\ (CommitOne(r, "artifact") \/ Commits(r, {"artifact", "receipt"}, 0))
\* ... and committed under the next, where the transaction looks at the status again; then the
\* receipt and its event, best effort.  A run that ended in between has its artifact refused.
CommitArtifact(r) ==
  /\ sink[r].pc = "artifact" /\ Room /\ sink' = [sink EXCEPT ![r] = IdleSink]
  /\ IF status[r] # "running" THEN UNCHANGED <<tally, seq, papers>>
     ELSE \/ CommitOne(r, "artifact") /\ UNCHANGED papers
          \/ AppendArtifactReceipt(r)
  /\ UNCHANGED <<status, live, delivered, awaiting, everPromoted>>

\* complete_with_result: held against the contract, and committed as completed or failed; the row
\* has the result only when it is valid.
Complete(r, c) ==
  /\ Reports(r)
  /\ LET ok == ValidPayload(r, c)
     IN /\ status' = [status EXCEPT ![r] = IF ok THEN "completed" ELSE "failed"]
        /\ delivered' = [delivered EXCEPT ![r] = IF ok THEN c ELSE NoResult]
        /\ CommitOne(r, "ended")
        /\ sink' = [sink EXCEPT ![r] = [pc |-> "receipt", data |-> c, seq |-> seq + 1]]
  /\ UNCHANGED <<live, awaiting, papers, everPromoted>>
\* The kind of the result, or of the one that was asked for.
CompletionKind(r) == IF sink[r].data # NoResult THEN sink[r].data.kind ELSE ContractOf(r)
\* append_completion_result_receipt, first lock: nothing for a run without contract and result.
CompletionPaper(r) ==
  /\ sink[r].pc = "receipt"
  /\ LET kind == CompletionKind(r)
         key == Key(r, ReceiptKind(kind), IF Sources[r] = "subagent" THEN "turn" ELSE "free", sink[r].seq)
         to == IF status[r] = "completed" THEN "promoted" ELSE "quarantined"
     IN IF kind = "none" THEN sink' = [sink EXCEPT ![r].pc = "advance"] /\ UNCHANGED <<papers, everPromoted>>
        ELSE \/ /\ papers' = With(Created(key, r, ReceiptKind(kind)), key, to) /\ Promotes(key, to)
                /\ sink' = [sink EXCEPT ![r].pc = "announce"]
             \* The store fails: the call returns before the queue is advanced.
             \/ sink' = [sink EXCEPT ![r].pc = "stuck"] /\ UNCHANGED <<papers, everPromoted>>
  /\ UNCHANGED <<status, live, tally, seq, delivered, awaiting>>
\* Second lock.
CompletionAnnounced(r) ==
  /\ sink[r].pc = "announce" /\ Room
  /\ \/ CommitOne(r, "receipt") /\ sink' = [sink EXCEPT ![r].pc = "advance"]
     \/ UNCHANGED <<tally, seq>> /\ sink' = [sink EXCEPT ![r].pc = "stuck"]
  /\ UNCHANGED <<status, live, delivered, awaiting, papers, everPromoted>>
\* advance_ready_queue lets go of the run.
Advance(r) ==
  /\ sink[r].pc = "advance" /\ live' = [live EXCEPT ![r] = FALSE] /\ sink' = [sink EXCEPT ![r] = IdleSink]
  /\ UNCHANGED <<status, tally, seq, delivered, awaiting, papers, everPromoted>>
\* fail
FailRun(r) ==
  /\ Reports(r) /\ status' = [status EXCEPT ![r] = "failed"] /\ CommitOne(r, "ended")
  /\ sink' = [sink EXCEPT ![r].pc = "advance"]
  /\ UNCHANGED <<live, delivered, awaiting, papers, everPromoted>>
\* A client cancels: the approvals are answered and the provider is let go of.
CancelRun(r) ==
  /\ status[r] = "running" /\ Room
  /\ status' = [status EXCEPT ![r] = "cancelled"] /\ live' = [live EXCEPT ![r] = FALSE] /\ awaiting' = [awaiting EXCEPT ![r] = 0]
  /\ CommitOne(r, "ended")
  /\ UNCHANGED <<delivered, papers, sink, everPromoted>>
\* The daemon dies; at the next boot what was running is reconciled.
Reboot ==
  /\ Room
  /\ status' = [r \in Tasks |-> IF status[r] = "running" THEN "failed" ELSE status[r]]
  /\ live' = [r \in Tasks |-> FALSE] /\ sink' = [r \in Tasks |-> IdleSink] /\ awaiting' = [r \in Tasks |-> 0]
  /\ tally' = [r \in Tasks |-> IF status[r] = "running" THEN Count(tally[r], {"ended"}, 0) ELSE tally[r]]
  /\ seq' = seq + Cardinality({r \in Tasks : status[r] = "running"})
  /\ UNCHANGED <<delivered, papers, everPromoted>>

ReportInit ==
  /\ status = [r \in Tasks |-> "queued"] /\ live = [r \in Tasks |-> FALSE] /\ seq = 0
  /\ tally = [r \in Tasks |-> [tools |-> 0, total |-> 0, ends |-> 0, late |-> FALSE]]
  /\ delivered = [r \in Tasks |-> NoResult] /\ awaiting = [r \in Tasks |-> 0] /\ papers = {} /\ everPromoted = {}
  /\ sink = [r \in Tasks |-> IdleSink]
ReportNext ==
  \/ \E r \in Tasks :
       \/ Dispatch(r) \/ StartProvider(r) \/ OverBudgetAtDispatch(r) \/ PushStream(r) \/ RecordUsage(r) \/ RequestApproval(r)
       \/ ResolveApproval(r) \/ CheckBudget(r) \/ FailRunForBudget(r) \/ RecordArtifact(r) \/ CommitArtifact(r)
       \/ CompletionPaper(r) \/ CompletionAnnounced(r) \/ Advance(r) \/ FailRun(r) \/ CancelRun(r)
       \/ \E c \in Results \cup {NoResult} : Complete(r, c)
  \/ \E p \in papers, to \in {"promoted", "quarantined"} : TransitionReceipt(p.key, to)
  \/ Reboot
ReportSpec == ReportInit /\ [][ReportNext]_reportVars

-----------------------------------------------------------------------------
Ended(r) == status[r] \in {"completed", "failed", "budget", "cancelled"}
\* A run ends once, and nothing it produces is committed behind its end, although artifacts are
\* looked at under one lock and committed under another and the budget is checked after the
\* frame; only receipts, which others make of it, may follow.
NothingAfterTheEnd == \A r \in Tasks : tally[r].ends = (IF Ended(r) THEN 1 ELSE 0) /\ ~tally[r].late
\* A run that is between two calls of its provider is within its own budget, and the tool calls of
\* a family pass the common limit by at most one for each run of it.
BudgetHolds ==
  /\ \A r \in Tasks : MayReport(r) /\ sink[r].pc = "idle" => WithinLimits(Usage(r), PerRun)
  /\ \A r \in Tasks : AggregateTools(r) <= Aggregate.tools + Cardinality(Family[r])
\* A run that was stopped for its budget waits for nobody's approval.
StoppedWaitsForNobody == \A r \in Tasks : status[r] = "budget" => awaiting[r] = 0
\* A completed run with a contract has a result that keeps it, and no other run has a result; a
\* receipt of a result that was refused is promoted by a client only, and what was once promoted
\* stays so.
ResultsKeepContract ==
  /\ \A r \in Tasks : status[r] = "completed" => ValidPayload(r, delivered[r])
  /\ \A r \in Tasks : delivered[r] # NoResult => status[r] = "completed"
  /\ \A p \in papers : p.key \in everPromoted => p.state = "promoted"
\* What the reports of a run guarantee.
ReportsSound == NothingAfterTheEnd /\ BudgetHolds /\ StoppedWaitsForNobody /\ ResultsKeepContract
=============================================================================
