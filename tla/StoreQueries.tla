---------------------------- MODULE StoreQueries ----------------------------
(***************************************************************************)
(* What is read from the store: pages of a session's activity, of its turn *)
(* rows and of its runs, the events of a run scanned in batches, the       *)
(* timeline of a run and its descendants, the overview of a session; and   *)
(* a client that walks through pages while the store changes under it.     *)
(* A read happens under the lock of the store and changes nothing.  A      *)
(* cursor that is not given is 0, an empty set of kinds means all of them. *)
(***************************************************************************)
EXTENDS Store, SequencesExt

CONSTANTS Batch, PageLimit

\* Batch stands for the 256 rows of a scan, PageLimit for the limit a client asks for.
ASSUME QueriesAssumption == Batch \in Nat \ {0} /\ PageLimit \in Nat \ {0}

VARIABLES parentOf,  \* run -> the parent its source names, or 0; fixed when it is created
          walk       \* the client: what it walks through, its cursor, what it saw and what was there

\* The members of a finite set in a total order.
Sorted(S, Before(_, _)) ==
  [i \in 1..Cardinality(S) |-> CHOOSE x \in S : Cardinality({ y \in S : Before(y, x) }) = i - 1]
BySeq(d, e) == d.seq < e.seq
BySeqDesc(d, e) == e.seq < d.seq
Take(list, n) == SubSeq(list, 1, IF n < Len(list) THEN n ELSE Len(list))
LastSeq(list) == IF list = <<>> THEN 0 ELSE Last(list).seq

\* DaemonEvent::kind.
KindOf(e) ==
  CASE e.kind \in {"requested", "resolved"} -> "approval"
    [] e.kind \in {"turnStarted", "turnCompleted"} -> "agentStream"
    [] e.kind \in {"created", "promoted", "quarantined"} -> "receipt"
    [] OTHER -> e.kind
OfKind(e, kinds) == kinds = {} \/ KindOf(e) \in kinds
\* events_for_session.
SessionLog(s) == Sorted({ e \in events : e.session = s }, BySeq)

-----------------------------------------------------------------------------
\* Pages of a session.

\* A page of a list that is sorted as it is read: the records that are left, up to
\* the limit, and the cursor for the next page if there are more.
Page(list, limit) ==
  [records |-> Take(list, limit), more |-> Len(list) > limit]

\* session_event_page, newest first.
SessionEventPage(s, before, limit, kinds) ==
  LET matching == SelectSeq(Reverse(SessionLog(s)), LAMBDA e : OfKind(e, kinds))
      page == Page(SelectSeq(matching, LAMBDA e : before = 0 \/ e.seq < before), limit) IN
    [records |-> page.records, next |-> IF page.more THEN LastSeq(page.records) ELSE 0,
     latest |-> IF matching = <<>> THEN 0 ELSE matching[1].seq]
\* session_event_range, oldest first.
SessionEventRange(s, after, upTo, kinds) ==
  SelectSeq(SessionLog(s), LAMBDA e : OfKind(e, kinds) /\ e.seq > after /\ (upTo = 0 \/ e.seq <= upTo))
\* session_agent_turns_page: one row more than the limit is asked for.
AgentTurnsPage(s, before, limit) ==
  LET rows == Sorted({ e \in events : e.session = s /\ e.seq \in turnRows /\ (before = 0 \/ e.seq < before) }, BySeqDesc)
      page == Page(Take(rows, limit + 1), limit) IN
    [records |-> page.records, next |-> IF page.more THEN LastSeq(page.records) ELSE 0]

\* compare_native_runs_desc and is_before_cursor: a run that has not started sorts at 0.
RunPrecedes(q, r) == startedAt[q] > startedAt[r] \/ (startedAt[q] = startedAt[r] /\ q > r)
BeforeCursor(r, c) == startedAt[r] < c.at \/ (startedAt[r] = c.at /\ r < c.run)
NoCursor == [at |-> 0, run |-> 0]
\* matches_native_run_query, for the children of a run or, with 0, the runs without a parent.
RunMatches(r, s, parent) == runs[r] # "none" /\ SessionOf[r] = s /\ parentOf[r] = parent
\* Mutant: the cursor is compared by its time alone.
CursorByTime(s, parent, before, limit) ==
  LET list == Sorted({ r \in Runs : RunMatches(r, s, parent) /\ (before = NoCursor \/ startedAt[r] < before.at) }, RunPrecedes)
      page == Page(list, limit) IN
    [runs |-> page.records, next |-> IF page.more THEN [at |-> startedAt[Last(page.records)], run |-> Last(page.records)] ELSE NoCursor]
\* list_native_runs_from_projections.
NativeRunsPage(s, parent, before, limit) ==
  LET list == Sorted({ r \in Runs : RunMatches(r, s, parent) /\ (before = NoCursor \/ BeforeCursor(r, before)) }, RunPrecedes)
      page == Page(list, limit) IN
    [runs |-> page.records,
     next |-> IF page.more THEN [at |-> startedAt[Last(page.records)], run |-> Last(page.records)] ELSE NoCursor]

-----------------------------------------------------------------------------
\* The events of one run.

\* run_event_range_from_records: the reference, one pass over every record of the
\* session's log.
RunEventRange(log, r, after, limit) ==
  LET own == SelectSeq(log, LAMBDA e : e.run = r) IN
    [records |-> Take(SelectSeq(own, LAMBDA e : e.seq > after), limit), latest |-> LastSeq(own)]

\* run_events_after_sequence, and the batch before a sequence number of the scan back.
RunEventsAfter(log, after) == Take(SelectSeq(log, LAMBDA e : e.seq > after), Batch)
RunEventsBefore(log, before) == Take(SelectSeq(Reverse(log), LAMBDA e : before = 0 \/ e.seq < before), Batch)

\* latest_run_event_sequence.
RECURSIVE LatestRunSeq(_, _, _)
LatestRunSeq(log, r, before) ==
  LET batch == RunEventsBefore(log, before)
      own == SelectSeq(batch, LAMBDA e : e.run = r) IN
    IF own # <<>> THEN own[1].seq
    ELSE IF Len(batch) < Batch THEN 0 ELSE LatestRunSeq(log, r, LastSeq(batch))

\* read_run_events: batches of the session's records until the limit is filled.
RECURSIVE ScanRunEvents(_, _, _, _)
ScanRunEvents(log, r, after, limit) ==
  LET batch == RunEventsAfter(log, after)
      own == Take(SelectSeq(batch, LAMBDA e : e.run = r), limit) IN
    IF Len(batch) < Batch \/ Len(own) = limit THEN own
    ELSE own \o ScanRunEvents(log, r, LastSeq(batch), limit - Len(own))
ReadRunEvents(log, r, after, limit) ==
  [records |-> ScanRunEvents(log, r, after, limit), latest |-> LatestRunSeq(log, r, 0)]

-----------------------------------------------------------------------------
\* The timeline of a run: its descendants with their depths, and their events.

NativeRuns(s) == { r \in Runs : runs[r] # "none" /\ SessionOf[r] = s }
\* collect_descendants: depth first, children in the order of their identifiers.
RECURSIVE Descend(_, _)
Descend(pending, depths) ==
  IF pending = <<>> THEN depths
  ELSE LET top == Last(pending)
           rest == Front(pending)
           kids == Sorted({ r \in NativeRuns(SessionOf[top[1]]) : parentOf[r] = top[1] }, LAMBDA q, r : q > r) IN
         IF top[1] \in DOMAIN depths THEN Descend(rest, depths)
         ELSE Descend(rest \o [i \in DOMAIN kids |-> <<kids[i], top[2] + 1>>],
                      [r \in DOMAIN depths \union {top[1]} |-> IF r = top[1] THEN top[2] ELSE depths[r]])
Descendants(root) == Descend(<<<<root, 0>>>>, [r \in {} |-> 0])
\* project_timeline_runs: in the order in which they started.
TimelineRuns(root) ==
  Sorted(DOMAIN Descendants(root), LAMBDA q, r : startedAt[q] < startedAt[r] \/ (startedAt[q] = startedAt[r] /\ q < r))
\* timeline_event_from_record and agent_stream_timeline_event: the restart note is left out.
OnTimeline(e, lineage) == e.run \in lineage /\ e.kind \notin {"session", "reconciled"}
\* collect_timeline_events: the latest number is that of all the lineage's events,
\* also when the limit cuts the page.
TimelineEvents(root, after, limit) ==
  LET lineage == DOMAIN Descendants(root)
      all == SelectSeq(SessionLog(SessionOf[root]), LAMBDA e : OnTimeline(e, lineage)) IN
    [records |-> Take(SelectSeq(all, LAMBDA e : e.seq > after), limit), latest |-> LastSeq(all)]

-----------------------------------------------------------------------------
\* The overview of a session.

OverviewKinds == {"session", "run", "approval", "artifact"}
\* project_latest_run_for_session: the run of the newest run event of the recent
\* activity, else of the newest run event of the session.
LatestRun(s, limit) ==
  LET recent == SessionEventPage(s, 0, limit, OverviewKinds).records
      runEvents == SelectSeq(recent, LAMBDA e : e.kind = "run")
      newest == SessionEventPage(s, 0, 1, {"run"}).records IN
    IF runEvents # <<>> THEN runEvents[1].run ELSE IF newest # <<>> THEN newest[1].run ELSE 0
\* approvals_for_query.
PendingIn(s) == UNION { {r} \X Pending(r) : r \in { q \in Runs : SessionOf[q] = s } }
\* project_session_overview_lane_status.
LaneStatus(latest, pending) ==
  LET status == IF latest = 0 THEN "none" ELSE runs[latest] IN
    CASE pending # {} \/ status = "waitingForApproval" -> "waitingForApproval"
      [] pending = {} /\ status \in {"queued", "running"} -> "active"
      [] pending = {} /\ status = "none" -> "idle"
      [] OTHER -> status
\* session_overview: what one row of it says.
SessionOverview(s, limit) ==
  LET lane == LaneStatus(LatestRun(s, limit), PendingIn(s)) IN
    [lane |-> lane, active |-> lane \in {"active", "waitingForApproval"},
     attention |-> IF PendingIn(s) = {} THEN "idle" ELSE "pending"]

-----------------------------------------------------------------------------
\* A client that walks through the pages of a session, newest first (the timeline
\* oldest first), one page per step, while the store commits.

Lists == {"activity", "turns", "runs", "timeline"}
NoWalk == [of |-> "none", session |-> "none", cursor |-> 0, seen |-> <<>>, due |-> {}]
FirstCursor(list) == IF list = "runs" THEN NoCursor ELSE 0
\* What the list holds when the walk begins: an event for ever, a run with the time
\* it started at.
DueIn(list, s) ==
  CASE list = "activity" -> { e \in events : e.session = s }
    [] list = "turns" -> { e \in events : e.session = s /\ e.seq \in turnRows }
    [] list = "runs" -> { <<r, startedAt[r]>> : r \in { q \in Runs : RunMatches(q, s, 0) } }
    [] list = "timeline" -> { e \in events : OnTimeline(e, DOMAIN Descendants(CHOOSE r \in Runs : parentOf[r] = 0 /\ SessionOf[r] = s)) }

\* activity_page, agent_turns_page, list_native_runs and run_timeline, as a client calls them.
PageOf(list, s, cursor) ==
  CASE list = "activity" -> SessionEventPage(s, cursor, PageLimit, {})
    [] list = "turns" -> AgentTurnsPage(s, cursor, PageLimit)
    [] list = "runs" -> LET page == NativeRunsPage(s, 0, cursor, PageLimit) IN [records |-> page.runs, next |-> page.next]
    [] list = "timeline" ->
         LET page == TimelineEvents(CHOOSE r \in Runs : parentOf[r] = 0 /\ SessionOf[r] = s, cursor, PageLimit) IN
           [records |-> page.records, next |-> LastSeq(page.records)]

BeginWalk(list, s) ==
  /\ daemon = "up" /\ walk = NoWalk /\ sessions[s] # "none"
  /\ list = "timeline" => \E r \in Runs : parentOf[r] = 0 /\ SessionOf[r] = s /\ runs[r] # "none"
  /\ walk' = [of |-> list, session |-> s, cursor |-> FirstCursor(list), seen |-> <<>>, due |-> DueIn(list, s)]
  /\ UNCHANGED storeVars
NextPage ==
  /\ daemon = "up" /\ walk.of \in Lists
  /\ LET page == PageOf(walk.of, walk.session, walk.cursor) IN
       walk' = [walk EXCEPT !.seen = @ \o page.records, !.cursor = page.next,
                            !.of = IF page.next = FirstCursor(walk.of) THEN @ \o "Read" ELSE @]
  /\ UNCHANGED storeVars

\* A run is created after its parent, in the same session, under a larger identifier.
Forest(p) == \A r \in Runs : p[r] < r /\ (p[r] # 0 => SessionOf[p[r]] = SessionOf[r])
QueriesInit == StoreInit /\ walk = NoWalk /\ parentOf \in { p \in [Runs -> Runs \union {0}] : Forest(p) }
QueriesNext ==
  /\ UNCHANGED parentOf
  /\ \/ StoreNext /\ UNCHANGED walk
     \/ \E list \in Lists, s \in Sessions : BeginWalk(list, s)
     \/ NextPage
QueriesSpec == QueriesInit /\ [][QueriesNext]_<<storeVars, parentOf, walk>>

-----------------------------------------------------------------------------
\* Properties.

\* The batched scans of the SQLite backend return what one pass over all records
\* returns, wherever the cursor and the limit fall on the borders of the batches.
\* (A walk changes no table, so the states without one are all there are to look at.)
ScanAgrees ==
  walk = NoWalk => \A r \in Runs :
    LET log == SessionLog(SessionOf[r]) IN
      \A after \in 0..nextSeq, limit \in 1..2 : ReadRunEvents(log, r, after, limit) = RunEventRange(log, r, after, limit)

\* A client that walks through pages gets nothing twice and, when it reaches the end,
\* has got everything that was there when it began, whatever was committed between
\* two pages and across a restart; of the runs, those that did not start meanwhile.
WalkComplete ==
  /\ \A i, j \in DOMAIN walk.seen : i # j => walk.seen[i] # walk.seen[j]
  /\ walk.of = "runsRead" => \A d \in walk.due : startedAt[d[1]] = d[2] => d[1] \in Range(walk.seen)
  /\ walk.of \in {"activityRead", "turnsRead", "timelineRead"} => walk.due \subseteq Range(walk.seen)

\* The overview shows a session as active, or waiting for a decision, only while one of
\* its runs is: it is put together from the journal's newest run event, the approvals
\* folded from the journal and the table of runs, which crashes and reconciliations
\* must keep together.
OverviewNotStale ==
  walk = NoWalk => \A s \in Sessions, limit \in 1..2 :
    SessionOverview(s, limit).active => sessions[s] = "running"

\* What clients read of the journal: pages, walks and overviews agree with what is recorded.
QueriesSound == ScanAgrees /\ WalkComplete /\ OverviewNotStale
=============================================================================
