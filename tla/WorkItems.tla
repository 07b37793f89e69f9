----------------------------- MODULE WorkItems -----------------------------
(***************************************************************************)
(* The background work items: the workflow manager, the poller that copies *)
(* the open issues of a repository into the store, and the commands of the *)
(* users, who refresh, dismiss and trigger items.  The issues change while *)
(* the poller reads them page by page; a statement of the store may fail   *)
(* and the daemon may crash.  Texts, times and the lengths of the delays   *)
(* are left out: a sleep ends when its time is over or a refresh is asked. *)
(***************************************************************************)
EXTENDS Integers, Sequences, FiniteSets

CONSTANTS Issues, PullRequests, Workflows, WorkUsers, PageSize, MaxPages, MaxVersion, MaxWorkRuns

ASSUME WorkAssumption == PageSize \in Nat \ {0}

VARIABLES remote,    \* GitHub: the open issues, the newest first
          labelOf,   \* GitHub: issue -> its label
          version,   \* GitHub: the entity tag of the first page
          workflow,  \* the current workflow, or NoWorkflow
          refresh,   \* work_source_refresh_requested
          poller,    \* the poller: where it is, and what it has fetched so far
          items,     \* the table of work items: issue -> its status, or "none"
          itemRun,   \* issue -> triggered_run_id, or 0
          cursor,    \* the saved cursor: its tag, and the labels that were asked for
          trigger,   \* user -> where its trigger_work_item is
          workRuns,  \* the runs started for items, in order
          asked      \* a refresh was asked for and no poll has begun since

workVars == <<remote, labelOf, version, workflow, refresh, poller, items, itemRun, cursor, trigger, workRuns, asked>>
remoteVars == <<remote, labelOf, version>>

NoWorkflow == [source |-> "none", repo |-> "none", states |-> {}, initialMs |-> 0, maxMs |-> 0]
NoPoll == [pc |-> "top", page |-> 0, found |-> {}, tag |-> 0, states |-> {}]
NoTrigger == [pc |-> "idle", item |-> 0, run |-> 0]

-----------------------------------------------------------------------------
\* The workflow manager.

\* validate_workflow, as far as the poller reads the workflow.
ValidWorkflow(w) ==
  /\ w.states # {}
  /\ w.source = "githubIssues" => w.repo # "none"
  /\ w.initialMs > 0 /\ w.maxMs > 0 /\ w.initialMs <= w.maxMs
\* load and reload: an invalid file keeps the last good workflow; both ask for a refresh.
LoadWorkflow(w) ==
  /\ workflow' = IF ValidWorkflow(w) THEN w ELSE workflow
  /\ refresh' = TRUE /\ asked' = TRUE
  /\ UNCHANGED <<remoteVars, poller, items, itemRun, cursor, trigger, workRuns>>
\* GitHubPollConfig::from_workflow.
Pollable(w) == w.source = "githubIssues" /\ w.repo = "named"

-----------------------------------------------------------------------------
\* GitHub, external: its pages, and the changes others make.

PageOfIssues(n) == SubSeq(remote, (n - 1) * PageSize + 1, IF n * PageSize < Len(remote) THEN n * PageSize ELSE Len(remote))
Listed(n) == { PageOfIssues(n)[i] : i \in 1..Len(PageOfIssues(n)) }
RemoteEdit ==
  /\ version < MaxVersion
  /\ \E i \in Issues :
       \/ \E k \in 1..Len(remote) :
            /\ remote[k] = i
            /\ \/ remote' = SubSeq(remote, 1, k - 1) \o SubSeq(remote, k + 1, Len(remote)) /\ UNCHANGED labelOf
               \/ labelOf' = [labelOf EXCEPT ![i] = IF @ = "ready" THEN "bug" ELSE "ready"] /\ UNCHANGED remote
       \/ /\ \A k \in 1..Len(remote) : remote[k] # i
          /\ remote' = <<i>> \o remote /\ UNCHANGED labelOf
  /\ version' = IF PageOfIssues(1)' = PageOfIssues(1) /\ \A i \in Listed(1) : labelOf'[i] = labelOf[i]
                THEN version ELSE version + 1
  /\ UNCHANGED <<workflow, refresh, poller, items, itemRun, cursor, trigger, workRuns, asked>>

-----------------------------------------------------------------------------
\* The poller.

\* items_from_issues and WorkSourceLabelFilter::matches.
Selected(listed, states) == { i \in listed \ PullRequests : labelOf[i] \in states }

\* Mutant: a dismissed item is offered again when it is fetched.
MergeForgets(status) == IF status = "triggered" THEN status ELSE "available"
\* merged_work_item.
Merged(status) == IF status \in {"dismissed", "triggered"} THEN status ELSE "available"
\* upsert_work_items and mark_missing_work_items_stale.
Upserted(found) == [i \in Issues |-> IF i \in found THEN Merged(items[i]) ELSE items[i]]
MarkedStale(table, found) == [i \in Issues |-> IF i \notin found /\ table[i] = "available" THEN "stale" ELSE table[i]]

Sleeps == poller' = [NoPoll EXCEPT !.pc = "sleeping"]
\* One turn of run_work_source_poller, up to the first request: without a workflow of
\* this kind, or without a token, it only sleeps.
PollBegins ==
  /\ poller.pc = "top" /\ Pollable(workflow)
  /\ poller' = [pc |-> "fetching", page |-> 1, found |-> {}, tag |-> cursor.tag, states |-> workflow.states]
  /\ asked' = FALSE
  /\ UNCHANGED <<remoteVars, workflow, refresh, items, itemRun, cursor, trigger, workRuns>>
NothingToPoll ==
  /\ poller.pc = "top"
  /\ Sleeps /\ asked' = FALSE
  /\ UNCHANGED <<remoteVars, workflow, refresh, items, itemRun, cursor, trigger, workRuns>>

\* fetch and fetch_page: only the first page is asked for with the tag.
NotModified ==
  /\ poller.pc = "fetching" /\ poller.page = 1 /\ poller.tag = version
  /\ Sleeps
  /\ UNCHANGED <<remoteVars, workflow, refresh, items, itemRun, cursor, trigger, workRuns, asked>>
LastPage == Len(PageOfIssues(poller.page)) < PageSize \/ poller.page = MaxPages
FetchPage ==
  /\ poller.pc = "fetching" /\ (poller.page = 1 => poller.tag # version)
  /\ poller' = [poller EXCEPT !.found = @ \union Selected(Listed(poller.page), poller.states),
                              !.tag = IF poller.page = 1 THEN version ELSE @,
                              !.page = IF LastPage THEN @ ELSE @ + 1,
                              !.pc = IF LastPage THEN "storing" ELSE @]
  /\ UNCHANGED <<remoteVars, workflow, refresh, items, itemRun, cursor, trigger, workRuns, asked>>
\* A network error, a status with or without a rate limit, or a body that does not decode.
FetchFails ==
  /\ poller.pc = "fetching"
  /\ Sleeps
  /\ UNCHANGED <<remoteVars, workflow, refresh, items, itemRun, cursor, trigger, workRuns, asked>>

\* The rest of poll_github_once, under the lock of the store and in this order: the
\* items, the missing ones, the cursor.  Each is its own transaction.
StoreItems ==
  /\ poller.pc = "storing"
  /\ items' = MarkedStale(Upserted(poller.found), poller.found)
  /\ cursor' = [tag |-> poller.tag, states |-> poller.states]
  /\ Sleeps
  /\ UNCHANGED <<remoteVars, workflow, refresh, itemRun, trigger, workRuns, asked>>
\* Mutant: the cursor is saved before the items.
CursorFirst ==
  /\ poller.pc = "storing"
  /\ cursor' = [tag |-> poller.tag, states |-> poller.states]
  /\ items' \in {items, Upserted(poller.found)}
  /\ Sleeps
  /\ UNCHANGED <<remoteVars, workflow, refresh, itemRun, trigger, workRuns, asked>>
\* One of the statements fails: what came before it stays.
StoreFails ==
  /\ poller.pc = "storing"
  /\ items' \in {items, Upserted(poller.found), MarkedStale(Upserted(poller.found), poller.found)}
  /\ Sleeps
  /\ UNCHANGED <<remoteVars, workflow, refresh, itemRun, cursor, trigger, workRuns, asked>>

\* sleep_until_next_poll: the flag is swapped, or the deadline has passed.
PollerWakes ==
  /\ poller.pc = "sleeping"
  /\ poller' = NoPoll
  /\ refresh' \in {FALSE, refresh}
  /\ UNCHANGED <<remoteVars, workflow, items, itemRun, cursor, trigger, workRuns, asked>>
PollerStops ==
  /\ poller.pc \in {"top", "sleeping", "fetching"}
  /\ poller' = [NoPoll EXCEPT !.pc = "stopped"]
  /\ UNCHANGED <<remoteVars, workflow, refresh, items, itemRun, cursor, trigger, workRuns, asked>>

-----------------------------------------------------------------------------
\* The commands.

RefreshWorkItems ==
  /\ refresh' = TRUE /\ asked' = TRUE
  /\ UNCHANGED <<remoteVars, workflow, poller, items, itemRun, cursor, trigger, workRuns>>
DismissWorkItem(i) ==
  /\ items[i] # "none"
  /\ items' = [items EXCEPT ![i] = "dismissed"]
  /\ UNCHANGED <<remoteVars, workflow, refresh, poller, itemRun, cursor, trigger, workRuns, asked>>
\* trigger_work_item: the item is read, the run started and the item marked under
\* three locks; the status of the item is not looked at.
TriggerReads(u, i) ==
  /\ trigger[u].pc = "idle" /\ workflow # NoWorkflow /\ items[i] # "none"
  /\ trigger' = [trigger EXCEPT ![u] = [pc |-> "read", item |-> i, run |-> 0]]
  /\ UNCHANGED <<remoteVars, workflow, refresh, poller, items, itemRun, cursor, workRuns, asked>>
TriggerStarts(u) ==
  /\ trigger[u].pc = "read" /\ Len(workRuns) < MaxWorkRuns
  /\ workRuns' = Append(workRuns, trigger[u].item)
  /\ trigger' = [trigger EXCEPT ![u] = [@ EXCEPT !.pc = "started", !.run = Len(workRuns')]]
  /\ UNCHANGED <<remoteVars, workflow, refresh, poller, items, itemRun, cursor, asked>>
TriggerMarks(u) ==
  /\ trigger[u].pc = "started"
  /\ items' = [items EXCEPT ![trigger[u].item] = "triggered"]
  /\ itemRun' = [itemRun EXCEPT ![trigger[u].item] = trigger[u].run]
  /\ trigger' = [trigger EXCEPT ![u] = NoTrigger]
  /\ UNCHANGED <<remoteVars, workflow, refresh, poller, cursor, workRuns, asked>>
\* start_run refuses, for instance because the session is gone.
TriggerFails(u) ==
  /\ trigger[u].pc = "read"
  /\ trigger' = [trigger EXCEPT ![u] = NoTrigger]
  /\ UNCHANGED <<remoteVars, workflow, refresh, poller, items, itemRun, cursor, workRuns, asked>>

\* A crash loses the workflow, the flag and the handlers; the tables stay.
DaemonRestarts ==
  /\ poller' = NoPoll /\ workflow' = NoWorkflow /\ refresh' = FALSE /\ asked' = FALSE
  /\ trigger' = [u \in WorkUsers |-> NoTrigger]
  /\ UNCHANGED <<remoteVars, items, itemRun, cursor, workRuns>>

WorkInit ==
  /\ remote = <<>> /\ labelOf = [i \in Issues |-> "ready"] /\ version = 1
  /\ workflow = NoWorkflow /\ refresh = FALSE /\ poller = NoPoll
  /\ items = [i \in Issues |-> "none"] /\ itemRun = [i \in Issues |-> 0]
  /\ cursor = [tag |-> 0, states |-> {}]
  /\ trigger = [u \in WorkUsers |-> NoTrigger] /\ workRuns = <<>> /\ asked = FALSE
WorkNext ==
  \/ \E w \in Workflows : LoadWorkflow(w)
  \/ RemoteEdit \/ PollBegins \/ NothingToPoll \/ NotModified \/ FetchPage \/ FetchFails
  \/ StoreItems \/ StoreFails \/ PollerWakes \/ PollerStops \/ RefreshWorkItems \/ DaemonRestarts
  \/ \E i \in Issues : DismissWorkItem(i) \/ \E u \in WorkUsers : TriggerReads(u, i)
  \/ \E u \in WorkUsers : TriggerStarts(u) \/ TriggerMarks(u) \/ TriggerFails(u)
WorkSpec == WorkInit /\ [][WorkNext]_workVars

-----------------------------------------------------------------------------
\* Properties.

\* When the first page has not changed since the saved cursor, the poll that is told
\* so misses nothing of it: every issue on it that passes the labels the cursor was
\* fetched with is in the table and not stale, whatever failed or crashed in between.
NotModifiedIsTrue ==
  cursor.tag = version => \A i \in Selected(Listed(1), cursor.states) : items[i] \notin {"none", "stale"}

\* What a user decided stays decided: no poll, however late its answer is, offers an
\* item again that was dismissed or triggered, and the run it names was started for it.
DecisionKept ==
  [][\A i \in Issues :
       /\ items[i] \in {"dismissed", "triggered"} => items'[i] \in {"dismissed", "triggered"}
       /\ items'[i] = "triggered" => itemRun'[i] # 0 /\ workRuns'[itemRun'[i]] = i]_workVars

\* A refresh is not lost: asked for while a poll is under way, it is still seen when
\* that poll ends.
RefreshNotLost ==
  asked /\ poller.pc # "stopped" => refresh \/ poller.pc = "top"

\* A poll tells what the repository holds, and no request for one is lost.
WorkSound == NotModifiedIsTrue /\ RefreshNotLost
=============================================================================
