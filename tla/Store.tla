------------------------------- MODULE Store -------------------------------
(***************************************************************************)
(* The SQLite store of the daemon: its tables, the part of its state that  *)
(* lives only in memory (the next sequence number and the assistant turns  *)
(* in flight), and one action per commit.  The store is behind a mutex, so *)
(* commits do not interleave; a statement of a transaction may fail, which *)
(* rolls the tables back and not the memory, and the daemon may crash.     *)
(*                                                                         *)
(* A run commits payloads; a payload that is not transient becomes a row   *)
(* of the journal.  Texts, times of day and the JSON columns are left out; *)
(* a run carries at most MaxApprovals approvals, numbered by their order.  *)
(***************************************************************************)
EXTENDS Integers, Sequences, FiniteSets

CONSTANTS Sessions, Runs, SessionOf, MaxApprovals, MaxSeq

\* Runs are numbered by their identifiers, the order in which SQL returns them.
ASSUME StoreAssumption ==
  /\ Runs \subseteq Nat /\ IsFiniteSet(Runs) /\ SessionOf \in [Runs -> Sessions]
  /\ MaxApprovals \in Nat /\ MaxSeq \in Nat

VARIABLES schema,     \* the tables of the file, each with its shape
          sessions,   \* session -> its status, or "none"
          runs,       \* run -> its status, or "none"
          startedAt,  \* run -> the time it left the queue, 0 before
          events,     \* the rows of the journal
          commits,    \* the rows of the commit table
          turnRows,   \* the sequence numbers that have an agent turn row
          artifacts,  \* the runs whose artifact is stored
          receipts,   \* run -> the state of its receipt, or "none"
          nextSeq,    \* memory: next_runtime_sequence
          inFlight,   \* memory: runs with an assistant turn in flight
          owed,       \* memory: run -> the receipt event its handler has yet to commit
          daemon      \* "down", "refused", "opened" (not reconciled yet) or "up"

tables == <<schema, sessions, runs, startedAt, events, commits, turnRows, artifacts, receipts>>
storeVars == <<tables, nextSeq, inFlight, owed, daemon>>

Active == {"queued", "running", "waitingForApproval"}
Ended == {"completed", "failed", "cancelled"}
Transient == {"delta"}
Approvals == 1..MaxApprovals
Kinds == {"session", "run", "turnStarted", "turnCompleted", "requested", "resolved", "reconciled",
          "artifact", "created", "promoted", "quarantined"}
Record == [seq: Nat, session: Sessions, run: Runs \union {0}, kind: Kinds, item: Nat]

-----------------------------------------------------------------------------
\* The journal, read.

OfRun(r) == { e \in events : e.run = r }
Has(r, kind, item) == \E e \in events : e.run = r /\ e.kind = kind /\ e.item = item

\* ApprovalLifecycleState::lookup on the fold of the session's records.
Lookup(r, a) ==
  IF Has(r, "resolved", a) THEN "resolved" ELSE IF Has(r, "requested", a) THEN "pending" ELSE "notFound"
Pending(r) == { a \in Approvals : Lookup(r, a) = "pending" }

\* apply_approval_event accepts the payload after the records of the journal.
ApprovalAccepted(r, p) ==
  /\ p.kind = "requested" => Lookup(r, p.item) = "notFound"
  /\ p.kind = "resolved" => Lookup(r, p.item) = "pending"

\* apply_agent_stream_event: whether it accepts the payload, and what it leaves in flight.
TurnAccepted(turns, r, p) ==
  /\ p.kind = "turnStarted" => r \notin turns
  /\ p.kind \in {"delta", "turnCompleted"} => r \in turns
TurnApplied(turns, r, p) ==
  CASE p.kind = "turnStarted" -> turns \union {r} [] p.kind = "turnCompleted" -> turns \ {r} [] OTHER -> turns
\* compute_session_status_from_runs, on the statuses of the session's runs.
SessionStatus(rs) ==
  CASE \E s \in rs : s \in Active -> "running"
    [] "failed" \in rs -> "failed"
    [] "completed" \in rs /\ "cancelled" \notin rs -> "completed"
    [] OTHER -> "idle"
StatusesIn(s, status) == { status[r] : r \in { q \in Runs : SessionOf[q] = s } } \ {"none"}

\* with_commit_metadata: a run starts when it is first committed out of the queue.
\* The clock is coarser than the sequence, so that two runs may start at one time.
Now == (nextSeq + 1) \div 2
StartTime(r, status) ==
  IF startedAt[r] # 0 THEN startedAt[r] ELSE IF status = "queued" THEN 0 ELSE Now

-----------------------------------------------------------------------------
\* Commits.

P(kind, item) == [kind |-> kind, item |-> item]
Row(seq, s, r, p) == [seq |-> seq, session |-> s, run |-> r, kind |-> p.kind, item |-> p.item]
\* The rows that a batch of payloads adds to the journal: a transient one uses up
\* a sequence number and leaves no row.
RowsOf(r, batch) ==
  { Row(nextSeq + i - 1, SessionOf[r], r, batch[i]) : i \in { j \in 1..Len(batch) : batch[j].kind \notin Transient } }
\* The commit row over a non-empty set of rows of one session.
CommitOf(s, rows) ==
  [session |-> s, first |-> (CHOOSE e \in rows : \A f \in rows : e.seq <= f.seq).seq,
   last |-> (CHOOSE e \in rows : \A f \in rows : f.seq <= e.seq).seq]

\* commit_session_open.  A session is opened once, under a fresh identifier.
CommitSessionOpen(s) ==
  /\ daemon = "up" /\ sessions[s] = "none" /\ nextSeq <= MaxSeq
  /\ sessions' = [sessions EXCEPT ![s] = "idle"]
  /\ LET row == Row(nextSeq, s, 0, P("session", 0)) IN
       /\ events' = events \union {row}
       /\ commits' = commits \union {CommitOf(s, {row})}
  /\ nextSeq' = nextSeq + 1
  /\ UNCHANGED <<schema, runs, startedAt, turnRows, artifacts, receipts, inFlight, owed, daemon>>

\* What callers commit for a run, by its status: the new status and the payloads.
Transitions(r) ==
  CASE runs[r] = "none" -> {"queued", "running"} \X {<<P("run", 0)>>}
    [] runs[r] = "queued" -> {"running", "cancelled"} \X {<<P("run", 0)>>}
    [] runs[r] = "running" ->
         ({"running"} \X {<<P("turnStarted", 0)>>, <<P("delta", 0)>>, <<P("turnCompleted", 0)>>})
         \union (Ended \X {<<P("run", 0)>>})
         \union ({"waitingForApproval"} \X { <<P("requested", a), P("run", 0)>> : a \in Approvals })
    [] runs[r] = "waitingForApproval" ->
         {"running", "failed", "cancelled"} \X { <<P("resolved", a), P("run", 0)>> : a \in Approvals }
    [] OTHER -> {}
\* The checks of commit_run_transition before its first write.
TransitionValid(r, batch) ==
  /\ daemon = "up" /\ sessions[SessionOf[r]] # "none" /\ Len(batch) > 0
  /\ nextSeq + Len(batch) <= MaxSeq + 1
  /\ ApprovalAccepted(r, batch[1])

\* Mutant: the commit is recorded although nothing of it is durable.
CommitsAlways(r, rows) == commits' = commits \union {[session |-> SessionOf[r], first |-> nextSeq, last |-> nextSeq + 1]}
\* A transition without a durable event leaves no commit row.
RecordCommit(r, rows) ==
  commits' = IF rows = {} THEN commits ELSE commits \union {CommitOf(SessionOf[r], rows)}

\* The agent turn row a batch adds, under the sequence number of the completion.
TurnRow(r, batch) == IF batch[1].kind = "turnCompleted" THEN {nextSeq} ELSE {}

\* commit_run_transition.
CommitRunTransition(r, status, batch) ==
  /\ TransitionValid(r, batch)
  /\ TurnAccepted(inFlight, r, batch[1])
  /\ runs' = [runs EXCEPT ![r] = status]
  /\ startedAt' = [startedAt EXCEPT ![r] = StartTime(r, status)]
  /\ sessions' = [sessions EXCEPT ![SessionOf[r]] = SessionStatus(StatusesIn(SessionOf[r], runs'))]
  /\ events' = events \union RowsOf(r, batch)
  /\ RecordCommit(r, RowsOf(r, batch))
  /\ turnRows' = turnRows \union TurnRow(r, batch)
  /\ inFlight' = TurnApplied(inFlight, r, batch[1])
  /\ nextSeq' = nextSeq + Len(batch)
  /\ UNCHANGED <<schema, artifacts, receipts, owed, daemon>>

\* A statement after the turn was applied fails: the transaction is rolled back,
\* the map of turns in flight is not, and the sequence numbers are given out again.
RollsBack(r, batch) ==
  /\ TransitionValid(r, batch)
  /\ TurnAccepted(inFlight, r, batch[1])
  /\ TurnApplied(inFlight, r, batch[1]) # inFlight
  /\ inFlight' = TurnApplied(inFlight, r, batch[1])
  /\ UNCHANGED <<tables, nextSeq, owed, daemon>>

\* Appends one row about a run: the common part of the commits below.
AppendRow(r, kind) ==
  /\ nextSeq <= MaxSeq
  /\ LET row == Row(nextSeq, SessionOf[r], r, P(kind, 0)) IN
       /\ events' = events \union {row}
       /\ commits' = commits \union {CommitOf(SessionOf[r], {row})}
  /\ nextSeq' = nextSeq + 1

\* commit_artifact_publish: of a running run only, and each artifact once.
CommitArtifactPublish(r) ==
  /\ daemon = "up" /\ runs[r] = "running" /\ r \notin artifacts
  /\ artifacts' = artifacts \union {r}
  /\ AppendRow(r, "artifact")
  /\ UNCHANGED <<schema, sessions, runs, startedAt, turnRows, receipts, inFlight, owed, daemon>>

-----------------------------------------------------------------------------
\* Receipts: the row of a receipt and the event about it are two transactions.

\* apply_promote and apply_quarantine.
Settled(state, to) ==
  IF to = "promoted" THEN "promoted" ELSE IF state = "promoted" THEN "refused" ELSE "quarantined"
\* create_completion_receipt: created, settled, and the event committed under a later lock.
CompletionReceipt(r, to) ==
  /\ daemon = "up" /\ runs[r] \in {"completed", "failed"} /\ receipts[r] = "none" /\ owed[r] = "none"
  /\ receipts' = [receipts EXCEPT ![r] = to]
  /\ owed' = [owed EXCEPT ![r] = to]
  /\ UNCHANGED <<schema, sessions, runs, startedAt, events, commits, turnRows, artifacts, nextSeq, inFlight, daemon>>
CommitReceiptEvent(r) ==
  /\ daemon = "up" /\ owed[r] # "none"
  /\ AppendRow(r, owed[r])
  /\ owed' = [owed EXCEPT ![r] = "none"]
  /\ UNCHANGED <<schema, sessions, runs, startedAt, turnRows, artifacts, receipts, inFlight, daemon>>
\* transition_receipt: a user promotes or quarantines, both transactions under one lock;
\* repeated, it changes nothing and reports again.
TransitionReceipt(r, to) ==
  /\ daemon = "up" /\ receipts[r] # "none" /\ Settled(receipts[r], to) # "refused"
  /\ receipts' = [receipts EXCEPT ![r] = to]
  /\ AppendRow(r, to)
  /\ UNCHANGED <<schema, sessions, runs, startedAt, turnRows, artifacts, inFlight, owed, daemon>>
\* Its event cannot be committed: the receipt has changed and nobody was told.
ReceiptUnreported(r, to) ==
  /\ daemon = "up" /\ receipts[r] \notin {"none", to} /\ Settled(receipts[r], to) # "refused"
  /\ receipts' = [receipts EXCEPT ![r] = to]
  /\ UNCHANGED <<schema, sessions, runs, startedAt, events, commits, turnRows, artifacts, nextSeq, inFlight, owed, daemon>>

-----------------------------------------------------------------------------
\* A crash and the next boot.

DaemonCrash ==
  /\ daemon \in {"opened", "up"}
  /\ daemon' = "down"
  /\ inFlight' = {} /\ owed' = [r \in Runs |-> "none"] /\ nextSeq' = 1
  /\ UNCHANGED tables

\* Mutant: the next sequence number is counted, not read off the last row.
CountedSequence == Cardinality(events) + 1
\* next_sequence: one past the last durable row.
NextSequence ==
  IF events = {} THEN 1 ELSE (CHOOSE e \in events : \A f \in events : f.seq <= e.seq).seq + 1
\* The schema: ensure_current_schema creates it in an empty file in one transaction, and
\* there are no migrations: a file of another version is refused.
SchemaTables == {"workspaces", "principals", "sessions", "runs", "events", "agentTurnRows", "checkpoints",
                 "artifacts", "contextReceipts", "commits", "workItems", "workSourceCursors"}
CurrentSchema == [t \in SchemaTables |-> "current"]
EnsureSchema == IF DOMAIN schema = {} THEN CurrentSchema ELSE schema
\* require_schema_object for each table, then its columns, keys and checks.
RequireTable(file, t) == t \in DOMAIN file
RequireShape(file, t) == file[t] = "current"
ValidSchema(file) == \A t \in SchemaTables : RequireTable(file, t) /\ RequireShape(file, t)
\* SqliteStore::open; quick_check finds the file sound or the open fails.
OpenStore ==
  /\ daemon = "down" /\ ValidSchema(EnsureSchema)
  /\ schema' = EnsureSchema
  /\ daemon' = "opened" /\ nextSeq' = NextSequence
  /\ UNCHANGED <<sessions, runs, startedAt, events, commits, turnRows, artifacts, receipts, inFlight, owed>>
OpenRefused ==
  /\ daemon = "down" /\ ~ValidSchema(EnsureSchema)
  /\ daemon' = "refused"
  /\ UNCHANGED <<tables, nextSeq, inFlight, owed>>

\* Mutant: the reconciliation also resolves what was resolved before the crash.
ResolvesAll(r) == { a \in Approvals : Lookup(r, a) # "notFound" }
\* The approvals of a run that the boot resolves.
ResolvedAtBoot(r) == Pending(r)
\* The payloads of reconcile_orphaned_running_runs, in their order: run by run, the
\* status, the resolutions of what was pending and the note of the restart.
Phase == [run |-> 0, resolved |-> 1, reconciled |-> 2]
Reconciling(r) ==
  {[run |-> r, p |-> P("run", 0)], [run |-> r, p |-> P("reconciled", 0)]}
  \union { [run |-> r, p |-> P("resolved", a)] : a \in ResolvedAtBoot(r) }
Orphans == { r \in Runs : runs[r] \in {"running", "waitingForApproval"} }
Reconciliations == UNION { Reconciling(r) : r \in Orphans }
Precedes(x, y) ==
  \/ x.run < y.run
  \/ x.run = y.run /\ Phase[x.p.kind] < Phase[y.p.kind]
  \/ x.run = y.run /\ x.p.kind = y.p.kind /\ x.p.item < y.p.item
RowAtBoot(x) ==
  Row(nextSeq + Cardinality({ y \in Reconciliations : Precedes(y, x) }), SessionOf[x.run], x.run, x.p)

\* commit_startup_reconciliation: every orphan fails in one transaction.
CommitStartupReconciliation ==
  /\ daemon = "opened"
  /\ daemon' = "up"
  /\ runs' = [r \in Runs |-> IF r \in Orphans THEN "failed" ELSE runs[r]]
  /\ sessions' = [s \in Sessions |-> IF \E r \in Orphans : SessionOf[r] = s
                                     THEN SessionStatus(StatusesIn(s, runs')) ELSE sessions[s]]
  /\ events' = events \union { RowAtBoot(x) : x \in Reconciliations }
  /\ commits' = commits \union { CommitOf(SessionOf[r], { RowAtBoot(x) : x \in Reconciling(r) }) : r \in Orphans }
  /\ nextSeq' = nextSeq + Cardinality(Reconciliations)
  /\ UNCHANGED <<schema, startedAt, turnRows, artifacts, receipts, inFlight, owed>>

\* A file that does not exist yet, or that of a version with a table less or another shape.
Files == {[t \in {} |-> "current"], [t \in SchemaTables \ {"workItems"} |-> "current"],
          [CurrentSchema EXCEPT !["events"] = "other"]}
StoreInit ==
  /\ schema \in Files
  /\ sessions = [s \in Sessions |-> "none"] /\ runs = [r \in Runs |-> "none"]
  /\ startedAt = [r \in Runs |-> 0]
  /\ events = {} /\ commits = {} /\ turnRows = {} /\ artifacts = {}
  /\ receipts = [r \in Runs |-> "none"]
  /\ nextSeq = 1 /\ inFlight = {} /\ owed = [r \in Runs |-> "none"] /\ daemon = "down"

StoreNext ==
  \/ \E s \in Sessions : CommitSessionOpen(s)
  \/ \E r \in Runs :
       \/ \E t \in Transitions(r) : CommitRunTransition(r, t[1], t[2]) \/ RollsBack(r, t[2])
       \/ CommitArtifactPublish(r) \/ CommitReceiptEvent(r)
       \/ \E to \in {"promoted", "quarantined"} :
            CompletionReceipt(r, to) \/ TransitionReceipt(r, to) \/ ReceiptUnreported(r, to)
  \/ DaemonCrash \/ OpenStore \/ OpenRefused \/ CommitStartupReconciliation

StoreSpec == StoreInit /\ [][StoreNext]_storeVars

-----------------------------------------------------------------------------
\* Properties.

StoreTypeOK ==
  /\ sessions \in [Sessions -> {"none", "idle", "running", "failed", "completed"}]
  /\ runs \in [Runs -> Active \union Ended \union {"none"}]
  /\ startedAt \in [Runs -> Nat]
  /\ events \subseteq Record
  /\ nextSeq \in Nat /\ daemon \in {"down", "refused", "opened", "up"}

\* The store implements the journal: crashes, rolled back transactions and the
\* sequence numbers that transient events used up and a restart gives out again
\* never put a durable event before one that was recorded earlier, nor two under
\* one number.
JournalImplemented == INSTANCE Journal WITH log <- events
ImplementsJournal == JournalImplemented!JournalSpec

\* The journal can always be folded: no approval is requested twice, resolved twice
\* or resolved before it was requested.  The reconciliation is not validated, and a
\* journal that the fold refuses would refuse every later commit of the session.
JournalFolds ==
  /\ \A d, e \in events : d.run = e.run /\ d.kind = e.kind /\ d.item = e.item /\ d.kind \in {"requested", "resolved"} => d = e
  /\ \A e \in events : e.kind = "resolved" =>
       \E d \in events : d.run = e.run /\ d.kind = "requested" /\ d.item = e.item /\ d.seq < e.seq

\* The tables agree with the journal and with each other, through every commit, every
\* rollback (which keeps the turns in flight), every crash (which loses them) and every
\* reconciliation.  Commit rows tile the journal: every durable event lies in one, of its
\* own session, and no two overlap.  The agent turn rows are those of the completed turns.
\* A session shows the status its runs imply.
CommitsTile ==
  /\ \A e \in events : \E c \in commits : c.session = e.session /\ c.first <= e.seq /\ e.seq <= c.last
  /\ \A c, d \in commits : c # d => c.last < d.first \/ d.last < c.first
TurnRowsMatch == turnRows = { e.seq : e \in { f \in events : f.kind = "turnCompleted" } }
SessionFollowsRuns ==
  \A s \in Sessions : sessions[s] # "none" => sessions[s] = SessionStatus(StatusesIn(s, runs))
TablesAgree == CommitsTile /\ TurnRowsMatch /\ SessionFollowsRuns
=============================================================================
