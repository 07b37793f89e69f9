--------------------------- MODULE SchedulerOps ---------------------------
(***************************************************************************)
(* The operations of the daemon's run scheduler for one session:           *)
(* crates/ta-orchestrator/src/orchestration/scheduler.rs.  Sessions never  *)
(* share state in it, and each operation holds the scheduler's mutex from  *)
(* its first line to its last, so an operation is one atomic step.         *)
(*                                                                         *)
(* A schedule is SessionRunSchedule: the runs that hold a slot, and the    *)
(* FIFO of runs that wait for one.  QueuedRun also stores the policy it    *)
(* was queued with; nothing reads it again, and it is always the one that  *)
(* scheduling_policy_for_run computes, so a queue entry here is a run.     *)
(***************************************************************************)
EXTENDS Naturals, Sequences, SequencesExt

CONSTANTS
    Runs,       \* identifiers of the runs of this session
    Parallel,   \* the runs scheduled ParallelIfBusy: worktree-writing children
    QueueCap    \* MAX_QUEUED_RUNS_PER_SESSION

ASSUME SchedulerAssumption ==
    /\ Parallel \subseteq Runs
    /\ QueueCap \in Nat

Exclusive == Runs \ Parallel

---------------------------------------------------------------------------
(* The operations, as functions of a schedule s.                           *)

EmptySchedule == [active |-> {}, queue |-> <<>>]

Schedules == [active : SUBSET Runs, queue : Seq(Runs)]

\* Mutant: a parallel run does not look at the queue.
CanStartNowPastQueue(s, r) ==
    s.active = {} \/ r \in Parallel

\* Mutant: does not look at the runs that hold a slot.
CanStartNowBusy(s, r) == s.queue = <<>>

CanStartNow(s, r) ==
    /\ s.queue = <<>>
    /\ s.active = {} \/ r \in Parallel

Activate(s, r) == [s EXCEPT !.active = @ \union {r}]

Enqueue(s, r) == [s EXCEPT !.queue = Append(@, r)]

QueueFull(s, r) == ~CanStartNow(s, r) /\ Len(s.queue) >= QueueCap

\* schedule_start_with_policy, when it does not answer QueueFull.
ScheduleStart(s, r) ==
    IF CanStartNow(s, r) THEN Activate(s, r) ELSE Enqueue(s, r)

\* Mutant: reads the head of the queue without taking it out.
HandOverPeek(s) ==
    IF s.active = {} /\ s.queue # <<>>
    THEN [s EXCEPT !.active = {Head(s.queue)}]
    ELSE s

\* The end of finish_run and of rehydrate_from_store: a schedule that nobody
\* holds hands its slot to the head of its queue, whatever that run's policy.
HandOver(s) ==
    IF s.active = {} /\ s.queue # <<>>
    THEN [active |-> {Head(s.queue)}, queue |-> Tail(s.queue)]
    ELSE s

\* The run HandOver starts: the answer of finish_run, as a set of at most one.
NextRun(s) == IF s.active = {} /\ s.queue # <<>> THEN {Head(s.queue)} ELSE {}

\* finish_run: frees the slot of r, or takes r out of the queue, or, for a run
\* the scheduler does not know, does nothing.
Free(s, r) == [s EXCEPT !.active = @ \ {r}]

\* Mutant: frees the slot and forgets the queue.
FinishRunNoHandOver(s, r) ==
    IF r \in s.active THEN Free(s, r)
    ELSE [s EXCEPT !.queue = RemoveFirst(@, r)]

FinishRun(s, r) ==
    IF r \in s.active
    THEN HandOver(Free(s, r))
    ELSE [s EXCEPT !.queue = RemoveFirst(@, r)]

FinishPromotes(s, r) == IF r \in s.active THEN NextRun(Free(s, r)) ELSE {}

\* One iteration of rehydrate_from_store's loop over a session's runs.  A run
\* the store calls running or waiting for approval that finds no slot is
\* demoted to the queue.
RehydrateRun(s, r, st) ==
    IF st # "queued" /\ CanStartNow(s, r) THEN Activate(s, r) ELSE Enqueue(s, r)
===========================================================================
