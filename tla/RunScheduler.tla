--------------------------- MODULE RunScheduler ---------------------------
(***************************************************************************)
(* The run scheduler as a component: a daemon that rehydrates its          *)
(* scheduler from the runs the store holds and then serves start and       *)
(* finish requests in any order (scheduler.rs, one session).               *)
(***************************************************************************)
EXTENDS SchedulerOps

CONSTANT MaxStored   \* bound: how many live runs the store may hold at boot

ASSUME StoredAssumption == MaxStored \in Nat

VARIABLES
    sched,    \* the schedule
    stored,   \* runs rehydrate_from_store has still to visit, in the order of
              \* their first event, each with its persisted status
    serving,  \* rehydration is over
    fresh     \* runs nobody has asked to start yet (run ids are never reused)

vars == <<sched, stored, serving, fresh>>

LiveStatus == {"queued", "waitingForApproval", "running"}

\* The orders in which a set of persisted runs can come out of the store.
StoredRuns == { q \in SeqOf([run : Runs, status : LiveStatus], MaxStored) :
                  \A i, j \in DOMAIN q : q[i].run = q[j].run => i = j }

Init ==
    /\ sched = EmptySchedule
    /\ stored \in StoredRuns
    /\ serving = FALSE
    /\ fresh = { r \in Runs : \A i \in DOMAIN stored : stored[i].run # r }

Rehydrate ==
    /\ ~serving
    /\ stored # <<>>
    /\ sched' = RehydrateRun(sched, Head(stored).run, Head(stored).status)
    /\ stored' = Tail(stored)
    /\ UNCHANGED <<serving, fresh>>

RehydrateDone ==
    /\ ~serving
    /\ stored = <<>>
    /\ sched' = HandOver(sched)
    /\ serving' = TRUE
    /\ UNCHANGED <<stored, fresh>>

Start(r) ==
    /\ serving
    /\ r \in fresh
    /\ fresh' = fresh \ {r}
    /\ sched' = IF QueueFull(sched, r) THEN sched ELSE ScheduleStart(sched, r)
    /\ UNCHANGED <<stored, serving>>

Finish(r) ==
    /\ serving
    /\ r \notin fresh
    /\ sched' = FinishRun(sched, r)
    /\ UNCHANGED <<stored, serving, fresh>>

Next ==
    \/ Rehydrate
    \/ RehydrateDone
    \/ \E r \in Runs : Start(r) \/ Finish(r)

Spec == Init /\ [][Next]_vars

\* Every run that holds a slot is finished some day, and the boot goes on.
FairSpec ==
    /\ Spec
    /\ WF_vars(Rehydrate \/ RehydrateDone)
    /\ \A r \in Runs : WF_vars(r \in sched.active /\ Finish(r))

---------------------------------------------------------------------------
(* Properties.                                                             *)

\* Only runs of the session hold a slot or wait for one: what schedule_start,
\* finish_run and rehydrate_from_store leave behind is a schedule.
TypeOK ==
    /\ sched \in Schedules
    /\ serving \in BOOLEAN
    /\ fresh \subseteq Runs

\* A run is waiting at most once, and never waits while it holds a slot, so a
\* finish_run that frees the slot leaves no second copy of the run behind.
NoDoubleEntry ==
    /\ \A r \in sched.active : \A i \in DOMAIN sched.queue : sched.queue[i] # r
    /\ \A i, j \in DOMAIN sched.queue :
          sched.queue[i] = sched.queue[j] => i = j

\* Once serving, nobody waits for a slot that nobody holds: a finish or a boot
\* that empties the slot always hands it over.
WorkConserving == serving /\ sched.queue # <<>> => sched.active # {}

\* Two runs that share the session's workspace never hold a slot together.
ExclusiveSlot ==
    \A r, s \in sched.active : r \in Exclusive /\ s \in Exclusive => r = s

\* What the schedule of a session keeps through starts, finishes and boots: no run has two
\* places in it, no slot is left free while a run waits, and the workspace has one holder.
ScheduleSound == TypeOK /\ NoDoubleEntry /\ WorkConserving /\ ExclusiveSlot

\* A run gets a slot only as the head of the queue or past an empty queue: a
\* parallel run never overtakes a run that already waits.
NoOvertaking ==
    [][ serving => \A r \in sched'.active \ sched.active :
          sched.queue = <<>> \/ r = Head(sched.queue) ]_vars

\* A waiting run gets its slot (or is withdrawn) if runs finish.
EventuallyLeavesQueue ==
    \A r \in Runs : Contains(sched.queue, r) ~> ~Contains(sched.queue, r)
===========================================================================
