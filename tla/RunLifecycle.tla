--------------------------- MODULE RunLifecycle ---------------------------
(***************************************************************************)
(* The life of the runs of one session, from the request that creates a    *)
(* run to its terminal status, over crashes and restarts of the daemon:    *)
(* crates/ta-orchestrator/src/orchestration/run_execution/ (start, native  *)
(* children, forks, approvals, cancel, budget, provider sink, promotion),  *)
(* service/active_execution.rs and host/bootstrap/state.rs.                *)
(*                                                                         *)
(* Handlers run concurrently: one thread per client request and one per    *)
(* provider.  A handler takes the store's mutex several times and the      *)
(* scheduler's and the live-execution table's mutex in between; a step of  *)
(* this module is what one of them protects.  The rest of a handler is     *)
(* its stack, a sequence of frames, innermost call first:                  *)
(*   op    the function, at  where it is,  run  the run it works on,       *)
(*   kids  children it has still to cancel, or approvals still to expire.  *)
(***************************************************************************)
EXTENDS SchedulerOps, FiniteSets

CONSTANTS
    Children,   \* runs a provider starts as native children of another run
    Forks,      \* runs forked from another run
    Parent,     \* the parent of each child and fork
    Clients,    \* request threads of the daemon
    Boot,       \* the thread that boots the daemon
    Decisions,  \* statuses policy may give a run that can start
    Faults,     \* calls that may fail in this instance
    Requests,   \* requests clients and providers make in this instance
    MaxCrashes  \* bound: how often the daemon dies

ASSUME LifecycleAssumption ==
    /\ Children \subseteq Runs /\ Forks \subseteq Runs \ Children
    /\ Parallel \subseteq Children
    /\ Parent \in [Children \union Forks -> Runs]
    /\ Clients \intersect Runs = {} /\ Boot \notin Runs \union Clients
    /\ Decisions \subseteq {"running", "waitingForApproval", "failed"}
    /\ MaxCrashes \in Nat

VARIABLES
    \* durable, in the store
    status,    \* of each run; "absent" until its first commit
    created,   \* committed runs in the order of their first event
    approval,  \* of each run's start and of its tool call
    overdue,   \* pending approvals whose time to live is over
    \* volatile, in the daemon
    phase,     \* "down", "reconciled", "booting" or "up"
    sched,     \* the session's schedule
    live,      \* ActiveExecutionOwner: the entry of each run
    prov,      \* the provider of each run
    stopped,   \* runs whose provider's cancellation token is set
    stack,     \* the frames of each thread
    \* history
    issued,    \* run ids handed out
    launched,  \* how often a provider was launched for each run
    crashes

durable == <<status, created, approval, overdue>>
volatile == <<sched, live, prov, stopped>>
history == <<issued, launched, crashes>>
vars == <<durable, volatile, phase, stack, history>>

Threads == Clients \union Runs \union {Boot}   \* a provider's thread is its run
Approvals == Runs \X {"start", "tool"}

Active == {"waitingForApproval", "running"}
Cancellable == Active \union {"queued"}
Terminal == {"completed", "failed", "cancelled", "budgetExceeded"}

NoEntry == [entry |-> FALSE, handle |-> FALSE, requested |-> FALSE, delivered |-> FALSE]
Claimed == [NoEntry EXCEPT !.entry = TRUE]

LiveRunning(r) == status[r] = "running" /\ live[r].entry

---------------------------------------------------------------------------
(* Frames.                                                                 *)

Frame(op, at, r, kids) == [op |-> op, at |-> at, run |-> r, kids |-> kids]
Advance(r) == Frame("advance", "finish", r, {})

Idle(t) == stack[t] = <<>>
Top(t) == Head(stack[t])
At(t, at) == ~Idle(t) /\ Top(t).at = at

Become(t, f) == stack' = [stack EXCEPT ![t] = <<f>> \o Tail(@)]
Goto(t, at) == Become(t, [Top(t) EXCEPT !.at = at])
Return(t) == stack' = [stack EXCEPT ![t] = Tail(@)]
Call(t, f, at) ==
    stack' = [stack EXCEPT ![t] = <<f, [Head(@) EXCEPT !.at = at]>> \o Tail(@)]

\* An error leaves every caller, up to one that is in the middle of
\* start_provider_execution: that one keeps the result and goes on.
Raise(t) ==
    LET catch == { i \in 2..Len(stack[t]) : stack[t][i].at = "settleErr" }
    IN  stack' = [stack EXCEPT ![t] =
                    IF catch = {} THEN <<>>
                    ELSE SubSeq(@, CHOOSE i \in catch : \A j \in catch : i <= j, Len(@))]

---------------------------------------------------------------------------
Init ==
    /\ status = [r \in Runs |-> "absent"]
    /\ created = <<>>
    /\ approval = [a \in Approvals |-> "none"]
    /\ overdue = {}
    /\ phase = "up"
    /\ sched = EmptySchedule
    /\ live = [r \in Runs |-> NoEntry]
    /\ prov = [r \in Runs |-> "none"]
    /\ stopped = {}
    /\ stack = [t \in Threads |-> <<>>]
    /\ issued = {}
    /\ launched = [r \in Runs |-> 0]
    /\ crashes = 0

(* What a transaction of the store does to a run and to its approvals.     *)

PendingOf(r) == { a \in Approvals : a[1] = r /\ approval[a] = "pending" }

Resolve(as, d) ==
    /\ approval' = [a \in Approvals |-> IF a \in as THEN d ELSE approval[a]]
    /\ overdue' = overdue \ as

SetStatus(r, st) == status' = [status EXCEPT ![r] = st]

\* Mutant: a run that starts is not claimed.
StartTransitionUnclaimed(r, st) ==
    /\ SetStatus(r, st)
    /\ approval' = IF st = "waitingForApproval"
                   THEN [approval EXCEPT ![<<r, "start">>] = "pending"]
                   ELSE approval
    /\ UNCHANGED <<live, overdue>>

\* build_start_transition and the claim of a run that starts: policy lets the
\* run go, denies it, or asks the user.
StartTransition(r, st) ==
    /\ SetStatus(r, st)
    /\ approval' = IF st = "waitingForApproval"
                   THEN [approval EXCEPT ![<<r, "start">>] = "pending"]
                   ELSE approval
    /\ live' = IF st = "running" THEN [live EXCEPT ![r] = Claimed] ELSE live
    /\ UNCHANGED overdue

---------------------------------------------------------------------------
(* start_run, start_native_child_run, fork_run.                            *)

Op(r) == IF r \in Children THEN "child" ELSE IF r \in Forks THEN "fork" ELSE "start"

\* Who may ask for run r: a client for a run or for a fork of any run in the
\* store, a live run's provider for a native child.
StartAllowed(t, r) == t \in Clients
ForkAllowed(t, r) == t \in Clients /\ status[Parent[r]] # "absent"
ChildAllowed(t, r) == t = Parent[r] /\ prov[t] = "working" /\ LiveRunning(Parent[r])

\* The request and its checks.
RequestRun(t, r) ==
    /\ phase = "up" /\ Idle(t) /\ r \notin issued
    /\ Op(r) \in Requests
    /\ CASE r \in Children -> ChildAllowed(t, r)
         [] r \in Forks    -> ForkAllowed(t, r)
         [] OTHER          -> StartAllowed(t, r)
    /\ issued' = issued \union {r}
    /\ stack' = [stack EXCEPT ![t] = <<Frame(Op(r), "schedule", r, {})>>]
    /\ UNCHANGED <<durable, volatile, phase, launched, crashes>>

Schedule(t) ==
    /\ At(t, "schedule")
    /\ LET r == Top(t).run
       IN  IF QueueFull(sched, r)
           THEN Raise(t) /\ UNCHANGED sched
           ELSE /\ sched' = ScheduleStart(sched, r)
                /\ Goto(t, IF CanStartNow(sched, r) THEN "commitStart" ELSE "commitQueued")
    /\ UNCHANGED <<durable, live, prov, stopped, phase, history>>

\* fail_scheduled_run: the workspace, harness or commit failed.  The run that
\* finish_scheduled_run hands the slot to is dropped on the floor.
PrepareFails(t) ==
    /\ At(t, "commitStart") \/ At(t, "commitQueued")
    /\ "prepare" \in Faults
    /\ sched' = FinishRun(sched, Top(t).run)
    /\ Raise(t)
    /\ UNCHANGED <<durable, live, prov, stopped, phase, history>>

CommitQueued(t) ==
    /\ At(t, "commitQueued")
    /\ SetStatus(Top(t).run, "queued")
    /\ created' = Append(created, Top(t).run)
    /\ Return(t)
    /\ UNCHANGED <<approval, overdue, volatile, phase, history>>

CommitStart(t) ==
    /\ At(t, "commitStart")
    /\ \E st \in Decisions :
         LET r == Top(t).run
         IN  /\ StartTransition(r, st)
             /\ created' = Append(created, r)
             /\ CASE st = "running"                          -> Goto(t, "budget")
                  [] st = "failed" /\ Top(t).op = "start"    -> Become(t, Advance(r))
                  [] OTHER                                   -> Return(t)
    /\ UNCHANGED <<sched, prov, stopped, phase, history>>

---------------------------------------------------------------------------
(* start_provider_execution, inlined in its four callers.                  *)

BudgetOk(t) ==
    /\ At(t, "budget")
    /\ Goto(t, "launch")
    /\ UNCHANGED <<durable, volatile, phase, history>>

\* enforce_budget_before_dispatch finds the budget spent.
BudgetSpent(t) ==
    /\ At(t, "budget")
    /\ "budget" \in Requests
    /\ LET r == Top(t).run
       IN  IF status[r] = "running"
           THEN /\ SetStatus(r, "budgetExceeded")
                /\ Resolve(PendingOf(r), "rejected")
                /\ Call(t, Advance(r), "settleErr")
           ELSE Goto(t, "settleErr") /\ UNCHANGED <<status, approval, overdue>>
    /\ UNCHANGED <<created, volatile, phase, history>>

Launch(t) ==
    /\ At(t, "launch")
    /\ prov' = [prov EXCEPT ![Top(t).run] = "working"]
    /\ launched' = [launched EXCEPT ![Top(t).run] = @ + 1]
    /\ Goto(t, "attach")
    /\ UNCHANGED <<durable, sched, live, stopped, phase, issued, crashes>>

LaunchFails(t) ==
    /\ At(t, "launch")
    /\ "launch" \in Faults
    /\ Goto(t, "settleErr")
    /\ UNCHANGED <<durable, volatile, phase, history>>

\* Mutant: a handle that finds no entry is forgotten, not cancelled.
AttachUnstopped(t) ==
    /\ At(t, "attach")
    /\ LET r == Top(t).run
           e == live[r]
       IN  IF e.entry
           THEN /\ live' = [live EXCEPT ![r].handle = TRUE,
                                        ![r].delivered = e.requested \/ e.delivered]
                /\ stopped' = IF e.requested /\ ~e.delivered
                              THEN stopped \union {r} ELSE stopped
                /\ Goto(t, "settleOk")
           ELSE Goto(t, "settleErr") /\ UNCHANGED <<live, stopped>>
    /\ UNCHANGED <<durable, sched, prov, phase, history>>

\* attach_handle.  A handle that finds no entry is dropped, and dropping it
\* cancels the provider's token.
Attach(t) ==
    /\ At(t, "attach")
    /\ LET r == Top(t).run
           e == live[r]
       IN  IF e.entry
           THEN /\ live' = [live EXCEPT ![r].handle = TRUE,
                                        ![r].delivered = e.requested \/ e.delivered]
                /\ stopped' = IF e.requested /\ ~e.delivered
                              THEN stopped \union {r} ELSE stopped
                /\ Goto(t, "settleOk")
           ELSE /\ stopped' = stopped \union {r}
                /\ Goto(t, "settleErr")
                /\ UNCHANGED live
    /\ UNCHANGED <<durable, sched, prov, phase, history>>

\* The caller goes on with the run it reads back.
Settled(t, st) ==
    CASE Top(t).op = "advance" -> IF st = "failed" THEN Goto(t, "finish") ELSE Return(t)
      [] Top(t).op \in {"start", "decide"} /\ st = "failed" -> Become(t, Advance(Top(t).run))
      [] OTHER -> Return(t)

SettleOk(t) ==
    /\ At(t, "settleOk")
    /\ Settled(t, IF Top(t).op = "decide" THEN "running" ELSE status[Top(t).run])
    /\ UNCHANGED <<durable, volatile, phase, history>>

SettleErr(t) ==
    /\ At(t, "settleErr")
    /\ IF status[Top(t).run] = "running"
       THEN Goto(t, "failRun")
       ELSE Settled(t, status[Top(t).run])
    /\ UNCHANGED <<durable, volatile, phase, history>>

\* fail_live_run_without_publish, or ..._and_publish for a child or a fork,
\* which frees the slot by itself.
FailRun(t) ==
    /\ At(t, "failRun")
    /\ LET r == Top(t).run
       IN  IF LiveRunning(r)
           THEN /\ SetStatus(r, "failed")
                /\ IF Top(t).op \in {"child", "fork"}
                   THEN Become(t, Advance(r)) ELSE Settled(t, "failed")
           ELSE Raise(t) /\ UNCHANGED status
    /\ UNCHANGED <<created, approval, overdue, volatile, phase, history>>

---------------------------------------------------------------------------
(* advance_ready_queue, promote_queued_run.                                *)

\* Mutant: releases the entry and lets its handle live on.
FinishKeepsHandle(t) ==
    /\ At(t, "finish")
    /\ LET r == Top(t).run
           next == FinishPromotes(sched, r)
       IN  /\ sched' = FinishRun(sched, r)
           /\ live' = [live EXCEPT ![r] = NoEntry]
           /\ IF next = {} THEN Return(t)
              ELSE \E n \in next : Become(t, Frame("advance", "promote", n, {}))
    /\ UNCHANGED <<durable, prov, stopped, phase, history>>

\* finish_scheduled_run: its three tables are independent of each other.  The
\* handle of a released entry is dropped.
Finish(t) ==
    /\ At(t, "finish")
    /\ LET r == Top(t).run
           next == FinishPromotes(sched, r)
       IN  /\ sched' = FinishRun(sched, r)
           /\ live' = [live EXCEPT ![r] = NoEntry]
           /\ stopped' = IF live[r].handle THEN stopped \union {r} ELSE stopped
           /\ IF next = {} THEN Return(t)
              ELSE \E n \in next : Become(t, Frame("advance", "promote", n, {}))
    /\ UNCHANGED <<durable, prov, phase, history>>

Promote(t) ==
    /\ At(t, "promote")
    /\ status[Top(t).run] = "queued"
    /\ \E st \in Decisions :
         /\ StartTransition(Top(t).run, st)
         /\ CASE st = "running" -> Goto(t, "budget")
              [] OTHER          -> Settled(t, st)
    /\ UNCHANGED <<created, sched, prov, stopped, phase, history>>

\* The run is not in the store yet, is no longer queued, or its runtime profile
\* is gone.  (At boot that ends the process: see Crash.)
PromoteFails(t) ==
    /\ At(t, "promote")
    /\ \/ status[Top(t).run] # "queued"
       \/ "profile" \in Faults /\ Top(t).op # "boot"
    /\ Raise(t)
    /\ UNCHANGED <<durable, volatile, phase, history>>

---------------------------------------------------------------------------
(* decide_approval, list_approvals.                                        *)

\* The first critical section, for a pending approval a: it is too late ...
DecideOverdue(t, a) ==
    /\ a \in overdue
    /\ stack' = [stack EXCEPT ![t] = <<Frame("expire", "expire", a[1], {a})>>]
    /\ UNCHANGED <<status, approval, overdue, live>>

\* ... or a live provider asked ...
DecideLive(t, a, d) ==
    /\ a \notin overdue /\ LiveRunning(a[1])
    /\ Resolve({a}, d)
    /\ stack' = [stack EXCEPT ![t] = <<Frame("decide", "resolveLive", a[1], {})>>]
    /\ UNCHANGED <<status, live>>

\* Mutant: any answer starts the run.
DecideWaitingUnread(t, a, d) ==
    /\ a \notin overdue /\ status[a[1]] = "waitingForApproval"
    /\ Resolve({a}, d)
    /\ SetStatus(a[1], "running")
    /\ live' = [live EXCEPT ![a[1]] = Claimed]
    /\ stack' = [stack EXCEPT ![t] = <<Frame("decide", "profile", a[1], {})>>]

\* ... or the start of a run waits for it.
DecideWaiting(t, a, d) ==
    /\ a \notin overdue /\ status[a[1]] = "waitingForApproval"
    /\ Resolve({a}, d)
    /\ IF d = "approved"
       THEN /\ SetStatus(a[1], "running")
            /\ live' = [live EXCEPT ![a[1]] = Claimed]
            /\ stack' = [stack EXCEPT ![t] = <<Frame("decide", "profile", a[1], {})>>]
       ELSE /\ SetStatus(a[1], "failed")
            /\ stack' = [stack EXCEPT ![t] = <<Advance(a[1])>>]
            /\ UNCHANGED live

Decide(t, a, d) ==
    /\ phase = "up" /\ t \in Clients /\ Idle(t)
    /\ "decide" \in Requests
    /\ approval[a] = "pending"
    /\ DecideOverdue(t, a) \/ DecideLive(t, a, d) \/ DecideWaiting(t, a, d)
    /\ UNCHANGED <<created, sched, prov, stopped, phase, history>>

\* The runtime profile of an approved run is looked up after its commit.
Profile(t) ==
    /\ At(t, "profile")
    /\ Goto(t, "budget") \/ ("profile" \in Faults /\ Raise(t))
    /\ UNCHANGED <<durable, volatile, phase, history>>

\* resolve_live_approval: reaches a provider through its handle or fails.
ResolveLive(t) ==
    /\ At(t, "resolveLive")
    /\ LET r == Top(t).run
       IN  IF live[r].handle
           THEN /\ prov' = IF prov[r] = "asking" THEN [prov EXCEPT ![r] = "working"] ELSE prov
                /\ IF Top(t).op = "expire" THEN Goto(t, "expire") ELSE Return(t)
           ELSE Raise(t) /\ UNCHANGED prov
    /\ UNCHANGED <<durable, sched, live, stopped, phase, history>>

\* The clock passes an approval's time to live.
TtlPasses(a) ==
    /\ "expire" \in Requests
    /\ approval[a] = "pending" /\ a \notin overdue
    /\ overdue' = overdue \union {a}
    /\ UNCHANGED <<status, created, approval, volatile, phase, stack, history>>

\* expire_pending_approvals_for_session lists what is overdue ...
ListApprovals(t) ==
    /\ phase = "up" /\ t \in Clients /\ Idle(t)
    /\ overdue # {}
    /\ LET first == CHOOSE a \in overdue : TRUE
       IN  stack' = [stack EXCEPT ![t] = <<Frame("expire", "expire", first[1], overdue)>>]
    /\ UNCHANGED <<durable, volatile, phase, history>>

\* ... and expires one after the other.  The store refuses an approval that
\* somebody resolved meanwhile.
Expire(t) ==
    /\ At(t, "expire")
    /\ \/ Top(t).kids = {} /\ Return(t) /\ UNCHANGED durable
       \/ \E a \in Top(t).kids :
            LET r == a[1]
                f == Frame("expire", "expire", r, Top(t).kids \ {a})
            IN  IF approval[a] # "pending"
                THEN Raise(t) /\ UNCHANGED durable
                ELSE /\ Resolve({a}, "rejected")
                     /\ IF status[r] = "waitingForApproval"
                        THEN SetStatus(r, "failed") ELSE UNCHANGED status
                     /\ Become(t, IF LiveRunning(r) THEN [f EXCEPT !.at = "resolveLive"] ELSE f)
                     /\ UNCHANGED created
    /\ UNCHANGED <<volatile, phase, history>>

---------------------------------------------------------------------------
(* cancel_run.  A call for a child is a frame above the parent's.          *)

Cancel(t, r) ==
    /\ phase = "up" /\ t \in Clients /\ Idle(t)
    /\ "cancel" \in Requests
    /\ status[r] \in Cancellable
    /\ stack' = [stack EXCEPT ![t] = <<Frame("cancel", "check", r, {})>>]
    /\ UNCHANGED <<durable, volatile, phase, history>>

CancelCheck(t) ==
    /\ At(t, "check")
    /\ LET r == Top(t).run
       IN  CASE LiveRunning(r)                                  -> Goto(t, "cancelLive")
             [] status[r] \in {"queued", "waitingForApproval"} -> Goto(t, "commitCancel")
             [] OTHER                                          -> Raise(t)
    /\ UNCHANGED <<durable, volatile, phase, history>>

\* ActiveExecutionOwner::cancel_run asks for the cancel and delivers it once,
\* if the handle is there.  Without a handle it waits for one, "cancelWait",
\* and gives up after PENDING_HANDLE_WAIT.
DeliverCancel(t, r, last) ==
    /\ IF ~live[r].entry
       THEN Raise(t) /\ UNCHANGED <<live, stopped>>
       ELSE /\ live' = [live EXCEPT ![r].requested = TRUE, ![r].delivered = @ \/ live[r].handle]
            /\ stopped' = IF live[r].handle /\ ~live[r].delivered
                          THEN stopped \union {r} ELSE stopped
            /\ Goto(t, IF ~live[r].handle /\ ~last THEN "cancelWait"
                       ELSE IF Top(t).op = "budget" THEN "commitBudget" ELSE "commitCancel")
    /\ UNCHANGED <<durable, sched, prov, phase, history>>

CancelLive(t) == At(t, "cancelLive") /\ DeliverCancel(t, Top(t).run, FALSE)

CancelWait(t) == At(t, "cancelWait") /\ DeliverCancel(t, Top(t).run, TRUE)

\* Mutant: trusts the status that CancelCheck saw.
CommitCancelUnchecked(t) ==
    /\ At(t, "commitCancel")
    /\ SetStatus(Top(t).run, "cancelled")
    /\ Resolve(PendingOf(Top(t).run), "rejected")
    /\ Goto(t, "listKids")
    /\ UNCHANGED <<created, volatile, phase, history>>

CommitCancel(t) ==
    /\ At(t, "commitCancel")
    /\ LET r == Top(t).run
       IN  IF status[r] \in Cancellable
           THEN /\ SetStatus(r, "cancelled")
                /\ Resolve(PendingOf(r), "rejected")
                /\ Goto(t, "listKids")
           ELSE Raise(t) /\ UNCHANGED <<status, approval, overdue>>
    /\ UNCHANGED <<created, volatile, phase, history>>

\* cancellable_native_child_run_ids
ListKids(t) ==
    /\ At(t, "listKids")
    /\ Become(t, [Top(t) EXCEPT !.at = "kids", !.kids =
          { c \in Children : Parent[c] = Top(t).run /\ status[c] \in Cancellable }])
    /\ UNCHANGED <<durable, volatile, phase, history>>

CancelKids(t) ==
    /\ At(t, "kids")
    /\ IF Top(t).kids = {} THEN Become(t, Advance(Top(t).run))
       ELSE \E c \in Top(t).kids :
              stack' = [stack EXCEPT ![t] =
                 <<Frame("cancel", "check", c, {}), [Top(t) EXCEPT !.kids = Top(t).kids \ {c}]>>
                   \o Tail(@)]
    /\ UNCHANGED <<durable, volatile, phase, history>>

---------------------------------------------------------------------------
(* The provider of run r, through its ExecutionSink.  A cancelled provider *)
(* may still be anywhere: it looks at its token now and then.              *)

\* complete_live_run_transition: the run completes, or fails its output
\* contract; a receipt that cannot be stored ends the call there.
ProviderCompletes(r) ==
    /\ prov[r] = "working" /\ Idle(r)
    /\ LiveRunning(r)
    /\ \E st \in {"completed", "failed"} : SetStatus(r, st)
    /\ prov' = [prov EXCEPT ![r] = "over"]
    /\ \/ stack' = [stack EXCEPT ![r] = <<Advance(r)>>]
       \/ "receipt" \in Faults /\ UNCHANGED stack
    /\ UNCHANGED <<created, approval, overdue, sched, live, stopped, phase, history>>

\* fail_live_run_and_publish; refused once the run is not live.
ProviderFails(r) ==
    /\ prov[r] = "working" /\ Idle(r)
    /\ prov' = [prov EXCEPT ![r] = "over"]
    /\ IF LiveRunning(r)
       THEN SetStatus(r, "failed") /\ stack' = [stack EXCEPT ![r] = <<Advance(r)>>]
       ELSE UNCHANGED <<status, stack>>
    /\ UNCHANGED <<created, approval, overdue, sched, live, stopped, phase, history>>

\* ApprovalBridge::request: one tool call per run needs the user.
ProviderAsks(r) ==
    /\ prov[r] = "working" /\ Idle(r)
    /\ "ask" \in Requests
    /\ LiveRunning(r)
    /\ approval[<<r, "tool">>] = "none"
    /\ approval' = [approval EXCEPT ![<<r, "tool">>] = "pending"]
    /\ prov' = [prov EXCEPT ![r] = "asking"]
    /\ UNCHANGED <<status, created, overdue, sched, live, stopped, phase, stack, history>>

\* ApprovalBridge::wait sees the token first and withdraws the request.
ProviderInterrupted(r) ==
    /\ prov[r] = "asking" /\ r \in stopped
    /\ Resolve(IF LiveRunning(r) THEN PendingOf(r) ELSE {}, "rejected")
    /\ prov' = [prov EXCEPT ![r] = "working"]
    /\ UNCHANGED <<status, created, sched, live, stopped, phase, stack, history>>

\* enforce_budget_after_stream
ProviderSpendsBudget(r) ==
    /\ prov[r] = "working" /\ Idle(r)
    /\ "budget" \in Requests
    /\ LiveRunning(r)
    /\ prov' = [prov EXCEPT ![r] = "over"]
    /\ stack' = [stack EXCEPT ![r] = <<Frame("budget", "cancelLive", r, {})>>]
    /\ UNCHANGED <<durable, sched, live, stopped, phase, history>>

CommitBudget(t) ==
    /\ At(t, "commitBudget")
    /\ LET r == Top(t).run
       IN  IF status[r] = "running"
           THEN /\ SetStatus(r, "budgetExceeded")
                /\ Resolve(PendingOf(r), "rejected")
                /\ Become(t, Advance(r))
           ELSE Return(t) /\ UNCHANGED <<status, approval, overdue>>
    /\ UNCHANGED <<created, volatile, phase, history>>

---------------------------------------------------------------------------
(* The daemon dies and starts again.                                       *)

Crash ==
    /\ phase # "down" /\ crashes < MaxCrashes
    /\ crashes' = crashes + 1
    /\ phase' = "down"
    /\ sched' = EmptySchedule
    /\ live' = [r \in Runs |-> NoEntry]
    /\ prov' = [r \in Runs |-> "none"]
    /\ stopped' = {}
    /\ stack' = [t \in Threads |-> <<>>]
    /\ UNCHANGED <<durable, issued, launched>>

\* Mutant: a run that was running is queued again.
ReconcileRequeues ==
    /\ phase = "down"
    /\ LET lost == { r \in Runs : status[r] \in Active }
       IN  /\ status' = [r \in Runs |-> IF r \in lost
                                       THEN IF status[r] = "running" THEN "queued" ELSE "failed"
                                       ELSE status[r]]
           /\ Resolve(UNION { PendingOf(r) : r \in lost }, "rejected")
    /\ phase' = "reconciled"
    /\ UNCHANGED <<created, volatile, stack, history>>

\* reconcile_orphaned_running_runs, one transaction.
Reconcile ==
    /\ phase = "down"
    /\ LET lost == { r \in Runs : status[r] \in Active }
       IN  /\ status' = [r \in Runs |-> IF r \in lost THEN "failed" ELSE status[r]]
           /\ Resolve(UNION { PendingOf(r) : r \in lost }, "rejected")
    /\ phase' = "reconciled"
    /\ UNCHANGED <<created, volatile, stack, history>>

\* The queued runs of the store, oldest first.
QueuedAt == { i \in DOMAIN created : status[created[i]] = "queued" }
Nth(S, k) == CHOOSE n \in S : Cardinality({ m \in S : m < n }) = k - 1
QueuedRuns == [k \in 1..Cardinality(QueuedAt) |-> created[Nth(QueuedAt, k)]]

\* rehydrate_scheduler_on_boot: the first queued run gets the slot and is
\* promoted before the daemon serves.
Rehydrate ==
    /\ phase = "reconciled"
    /\ LET queued == QueuedRuns
       IN  /\ sched' = HandOver([EmptySchedule EXCEPT !.queue = queued])
           /\ stack' = [stack EXCEPT ![Boot] =
                 IF queued = <<>> THEN <<>>
                 ELSE <<Frame("boot", "promote", Head(queued), {})>>]
    /\ phase' = "booting"
    /\ UNCHANGED <<durable, live, prov, stopped, history>>

Booted ==
    /\ phase = "booting" /\ Idle(Boot)
    /\ phase' = "up"
    /\ UNCHANGED <<durable, volatile, stack, history>>

---------------------------------------------------------------------------
\* The next step of a handler.
Step(t) ==
    \/ Schedule(t) \/ PrepareFails(t) \/ CommitQueued(t) \/ CommitStart(t)
    \/ BudgetOk(t) \/ BudgetSpent(t) \/ Launch(t) \/ LaunchFails(t) \/ Attach(t)
    \/ SettleOk(t) \/ SettleErr(t) \/ FailRun(t)
    \/ Finish(t) \/ Promote(t) \/ PromoteFails(t)
    \/ Profile(t) \/ ResolveLive(t) \/ Expire(t)
    \/ CancelCheck(t) \/ CancelLive(t) \/ CancelWait(t) \/ CommitCancel(t)
    \/ ListKids(t) \/ CancelKids(t) \/ CommitBudget(t)

\* The provider of r stops by itself or because its token is set.
ProviderStep(r) ==
    \/ ProviderCompletes(r) \/ ProviderFails(r)
    \/ ProviderInterrupted(r) \/ ProviderSpendsBudget(r)

Request(t) ==
    \/ \E r \in Runs : RequestRun(t, r) \/ Cancel(t, r)
    \/ \E a \in Approvals, d \in {"approved", "rejected"} : Decide(t, a, d)
    \/ ListApprovals(t)

Next ==
    \/ \E t \in Threads : Step(t) \/ Request(t)
    \/ \E r \in Runs : ProviderStep(r) \/ ProviderAsks(r)
    \/ \E a \in Approvals : TtlPasses(a)
    \/ Crash \/ Reconcile \/ Rehydrate \/ Booted

Spec == Init /\ [][Next]_vars

\* Threads are scheduled; a provider whose token is set stops sooner or later (a
\* working one may go on for ever); a daemon that died is started again.
FairSpec ==
    /\ Spec
    /\ \A t \in Threads : WF_vars(Step(t))
    /\ \A r \in Runs : WF_vars(r \in stopped /\ ProviderStep(r))
    /\ WF_vars(Reconcile) /\ WF_vars(Rehydrate) /\ WF_vars(Booted)

---------------------------------------------------------------------------
(* Properties.                                                             *)

\* The tables keep their shapes: only runs of the session get a slot, a status or
\* a frame.
TypeOK ==
    /\ status \in [Runs -> Cancellable \union Terminal \union {"absent"}]
    /\ approval \in [Approvals -> {"none", "pending", "approved", "rejected"}]
    /\ overdue \subseteq Approvals
    /\ phase \in {"down", "reconciled", "booting", "up"}
    /\ sched \in Schedules
    /\ live \in [Runs -> [entry : BOOLEAN, handle : BOOLEAN,
                          requested : BOOLEAN, delivered : BOOLEAN]]
    /\ prov \in [Runs -> {"none", "working", "asking", "over"}]
    /\ stopped \subseteq Runs /\ issued \subseteq Runs
    /\ \A t \in Threads : \A i \in DOMAIN stack[t] : stack[t][i].run \in Runs

\* No handler moves a run out of a terminal status, whatever races with the
\* step that ended it: late completions, cancels, approvals, promotions,
\* reconciliation.
TerminalIsFinal ==
    [][\A r \in Runs : status[r] \in Terminal => status'[r] = status[r]]_vars

\* An approval is answered once: a late decision never overrides an expiry, a
\* cancel or a restart.
AnswerIsFinal ==
    [][\A a \in Approvals :
         approval[a] \in {"approved", "rejected"} => approval'[a] = approval[a]]_vars

\* What was decided stays decided, whoever comes late: an end of a run and an answer to its
\* approval.
DecisionsFinal == TerminalIsFinal /\ AnswerIsFinal

\* A run the store calls running has an entry in the live-execution table, so
\* that cancel_run and decide_approval can reach it.
RunningIsOwned ==
    phase # "down" => \A r \in Runs : status[r] = "running" => live[r].entry

\* A run that is running or waits for its approval holds a slot.
ActiveHoldsSlot ==
    phase # "down" => \A r \in Runs : status[r] \in Active => r \in sched.active

\* Two runs that share the workspace are never under way together, not even
\* while one is being cancelled, promoted or reconciled.
OneWriter ==
    \A r, s \in Exclusive : status[r] \in Active /\ status[s] \in Active => r = s

\* The slots of the scheduler and the statuses of the store say the same of who works in the
\* workspace, although no lock covers both.
SlotsSound == ActiveHoldsSlot /\ OneWriter

\* A run is handed to a provider at most once, over all promotions, approvals
\* and restarts: its work is never done twice.
LaunchedOnce == \A r \in Runs : launched[r] <= 1

\* A run whose start had to be approved is handed to a provider only after a
\* yes, and nothing that happens later takes that yes back.
LaunchedWithConsent ==
    \A r \in Runs : launched[r] > 0 => approval[<<r, "start">>] \in {"none", "approved"}

\* Some handler still works on run r.
OnItsWay(r) ==
    \E t \in Threads : \E i \in DOMAIN stack[t] : stack[t][i].run = r

\* A provider that works for a run that ended was told to stop, or a handler
\* that will tell it is still on its way.
NoOrphanProvider ==
    \A r \in Runs :
      status[r] \in Terminal /\ prov[r] \in {"working", "asking"} /\ r \notin stopped
        => OnItsWay(r)

\* The provider of a run that ended stops.
ProvidersStop ==
    \A r \in Runs : status[r] \in Terminal ~> prov[r] \notin {"working", "asking"}

\* No handler is stuck: not in the wait for a handle, not behind another one.
HandlersReturn == \A t \in Threads : ~Idle(t) ~> Idle(t)

\* Whatever a request, a fault or a crash leaves behind comes to an end: every handler returns,
\* and the provider of an ended run stops.
WorkEnds == ProvidersStop /\ HandlersReturn

\* While nothing is in flight, a queued run waits for a run that is under way.
QueueIsServed ==
    phase = "up" /\ (\A t \in Threads : Idle(t)) =>
      \A r \in Runs : status[r] = "queued" => \E s \in Runs : status[s] \in Active

\* A provider that waits for the user gets the answer the user gave.
AnswerArrives ==
    \A r \in Runs :
      prov[r] = "asking" /\ approval[<<r, "tool">>] = "approved" ~> prov[r] # "asking"
===========================================================================
