-------------------------- MODULE RunSchedulerProofs --------------------------
(***************************************************************************)
(* The scheduler's promises for every set of runs, queue cap and stored    *)
(* history; then those of two modules beside it that share no state with   *)
(* it: the work items, whose polls ask for runs, and the credentials by    *)
(* which the daemon knows the clients that do.                             *)
(*                                                                         *)
(* A work item's tag is trusted because a poll past its first page holds a *)
(* tag newer than the cursor, and has found all of that page if the tag is *)
(* still the same.  A client keeps its session because a principal is one  *)
(* client's, in its file, at its seat or on the way between them, so that  *)
(* nobody else rotates the authority the client has in its file.           *)
(***************************************************************************)
EXTENDS RunScheduler, SequenceTheorems, WorkItems, SessionCredentials, TLAPS

Stored == [run : Runs, status : LiveStatus]

(* A run is known to the scheduler in one place only: it is still in the     *)
(* store, has never been asked for, holds a slot or waits.                   *)
StoredApart ==
    /\ stored \in Seq(Stored)
    /\ \A i, j \in DOMAIN stored : stored[i].run = stored[j].run => i = j
    /\ \A i \in DOMAIN stored :
          /\ stored[i].run \notin fresh
          /\ stored[i].run \notin sched.active
          /\ \A k \in DOMAIN sched.queue : sched.queue[k] # stored[i].run
    /\ serving => stored = <<>>

FreshApart ==
    \A r \in fresh :
      /\ r \notin sched.active
      /\ \A k \in DOMAIN sched.queue : sched.queue[k] # r

SchedInv ==
    /\ TypeOK
    /\ StoredApart
    /\ FreshApart
    /\ NoDoubleEntry
    /\ WorkConserving
    /\ ExclusiveSlot

Distinct(q) == \A i, j \in DOMAIN q : q[i] = q[j] => i = j

-------------------------------------------------------------------------------
(* The queue operations keep a duplicate-free queue of runs duplicate-free.  *)

(* Removing position k leaves the other entries, each once.                  *)
LEMMA RemoveAtDistinct ==
    ASSUME NEW q \in Seq(Runs), Distinct(q), NEW k \in DOMAIN q
    PROVE  /\ RemoveAt(q, k) \in Seq(Runs)
           /\ Distinct(RemoveAt(q, k))
           /\ \A i \in DOMAIN RemoveAt(q, k) : 
                 \E j \in DOMAIN q : j # k /\ RemoveAt(q, k)[i] = q[j]
<1>1. k \in 1..Len(q)
  OBVIOUS
<1> DEFINE a == SubSeq(q, 1, k - 1)
           b == SubSeq(q, k + 1, Len(q))
           p == RemoveAt(q, k)
<1>2. /\ a \in Seq(Runs) /\ Len(a) = k - 1
      /\ \A i \in 1..(k - 1) : a[i] = q[i]
  BY <1>1
<1>3. /\ b \in Seq(Runs) /\ Len(b) = Len(q) - k
      /\ \A i \in 1..(Len(q) - k) : b[i] = q[i + k]
  BY <1>1
<1>4. p = a \o b
  BY DEF RemoveAt
<1> HIDE DEF a, b, p
<1>5. /\ p \in Seq(Runs) /\ Len(p) = Len(q) - 1
      /\ \A i \in 1..(Len(q) - 1) : p[i] = IF i < k THEN q[i] ELSE q[i + 1]
  <2>1. /\ p \in Seq(Runs) /\ Len(p) = Len(a) + Len(b)
        /\ \A i \in 1..(Len(a) + Len(b)) :
              p[i] = IF i <= Len(a) THEN a[i] ELSE b[i - Len(a)]
    BY <1>2, <1>3, <1>4, ConcatProperties
  <2>2. Len(a) + Len(b) = Len(q) - 1
    BY <1>1, <1>2, <1>3
  <2>3. ASSUME NEW i \in 1..(Len(q) - 1), i < k
        PROVE  p[i] = q[i]
    BY <1>1, <1>2, <2>1, <2>2, <2>3
  <2>4. ASSUME NEW i \in 1..(Len(q) - 1), ~(i < k)
        PROVE  p[i] = q[i + 1]
    <3>1. i - Len(a) \in 1..(Len(q) - k) /\ i - Len(a) + k = i + 1
      BY <1>1, <1>2, <2>4
    <3>2. p[i] = b[i - Len(a)]
      BY <1>1, <1>2, <2>1, <2>2, <2>4
    <3> QED BY <1>3, <3>1, <3>2
  <2> QED BY <2>1, <2>2, <2>3, <2>4
<1>6. Distinct(p)
  <2> DEFINE g(i) == IF i < k THEN i ELSE i + 1
  <2>1. DOMAIN p = 1..(Len(q) - 1) /\ DOMAIN q = 1..Len(q) /\ Len(q) \in Nat
    BY <1>5
  <2>2. \A i \in DOMAIN p : g(i) \in DOMAIN q
    BY <1>1, <2>1
  <2>3. \A i \in DOMAIN p : p[i] = q[g(i)]
    BY <1>5, <2>1
  <2>4. \A i, j \in DOMAIN p : g(i) = g(j) => i = j
    BY <1>1, <2>1
  <2> HIDE DEF g
  <2> QED BY <2>2, <2>3, <2>4 DEF Distinct
<1>7. \A i \in DOMAIN p : \E j \in DOMAIN q : j # k /\ p[i] = q[j]
  <2> TAKE i \in DOMAIN p
  <2>1. i \in 1..(Len(q) - 1)
    BY <1>5
  <2>2. CASE i < k
    <3>1. i \in DOMAIN q /\ i # k /\ p[i] = q[i]
      BY <1>1, <1>5, <2>1, <2>2
    <3> QED BY <3>1
  <2>3. CASE ~(i < k)
    <3>1. i + 1 \in DOMAIN q /\ i + 1 # k /\ p[i] = q[i + 1]
      BY <1>1, <1>5, <2>1, <2>3
    <3> QED BY <3>1
  <2> QED BY <2>2, <2>3
<1> QED BY <1>5, <1>6, <1>7 DEF p

(* finish_run's removal of a queued run leaves exactly the other runs.       *)
LEMMA RemoveFirstDistinct ==
    ASSUME NEW q \in Seq(Runs), Distinct(q), NEW r
    PROVE  /\ RemoveFirst(q, r) \in Seq(Runs)
           /\ Distinct(RemoveFirst(q, r))
           /\ \A i \in DOMAIN RemoveFirst(q, r) : 
                 \E j \in DOMAIN q : RemoveFirst(q, r)[i] = q[j] /\ q[j] # r
<1>1. CASE ~\E i \in 1..Len(q) : q[i] = r
  <2>1. RemoveFirst(q, r) = q
    BY <1>1 DEF RemoveFirst
  <2> QED BY <1>1, <2>1
<1>2. CASE \E i \in 1..Len(q) : q[i] = r
  <2>1. PICK k \in 1..Len(q) : q[k] = r
    BY <1>2
  <2>2. { i \in 1..Len(q) : q[i] = r } = {k}
    BY <2>1 DEF Distinct
  <2>3. SelectInSeq(q, LAMBDA v : v = r) = Min({k})
    BY <2>2 DEF SelectInSeq
  <2>4. Min({k}) = k
    BY DEF Min
  <2>5. RemoveFirst(q, r) = RemoveAt(q, k)
    BY <1>2, <2>3, <2>4 DEF RemoveFirst
  <2>6. k \in DOMAIN q /\ \A j \in DOMAIN q : j # k => q[j] # r
    BY <2>1 DEF Distinct
  <2> QED BY <2>5, <2>6, RemoveAtDistinct
<1> QED BY <1>1, <1>2

-------------------------------------------------------------------------------
(* A schedule that satisfies the invariant, apart from its context.          *)

GoodQueue(s) ==
    /\ s \in Schedules
    /\ Distinct(s.queue)
    /\ \A r \in s.active : \A i \in DOMAIN s.queue : s.queue[i] # r
    /\ \A r, t \in s.active : r \in Exclusive /\ t \in Exclusive => r = t

Unknown(s, r) ==
    /\ r \notin s.active
    /\ \A k \in DOMAIN s.queue : s.queue[k] # r

(* What an update of a schedule's active set leaves: the record written out. *)
LEMMA RecordEta ==
    ASSUME NEW s \in Schedules, NEW A
    PROVE  [s EXCEPT !.active = A] = [active |-> A, queue |-> s.queue]
BY DEF Schedules

(* Queueing a run the schedule does not know keeps it good.                  *)
LEMMA EnqueueGood ==
    ASSUME NEW s, GoodQueue(s), NEW r \in Runs, Unknown(s, r)
    PROVE  /\ GoodQueue(Enqueue(s, r))
           /\ \A t : t # r /\ Unknown(s, t) => Unknown(Enqueue(s, r), t)
<1> DEFINE q == Append(s.queue, r)
<1>1. /\ s.active \in SUBSET Runs /\ s.queue \in Seq(Runs)
      /\ Enqueue(s, r) = [active |-> s.active, queue |-> q]
  BY DEF GoodQueue, Schedules, Enqueue
<1>2. /\ q \in Seq(Runs) /\ DOMAIN q = 1..(Len(s.queue) + 1)
      /\ DOMAIN s.queue = 1..Len(s.queue)
      /\ q[Len(s.queue) + 1] = r
      /\ \A i \in 1..Len(s.queue) : q[i] = s.queue[i]
  BY <1>1
<1> HIDE DEF q
<1> DEFINE n == Len(s.queue)
<1>n. n \in Nat
  BY <1>1
<1>a. \A i, j \in 1..n : s.queue[i] = s.queue[j] => i = j
  BY <1>2 DEF GoodQueue, Distinct
<1>b. \A i \in 1..n : s.queue[i] # r
  BY <1>2 DEF Unknown
<1> HIDE DEF n
<1>3. Distinct(q)
  <2> SUFFICES ASSUME NEW i \in 1..(n + 1), NEW j \in 1..(n + 1), q[i] = q[j]
               PROVE  i = j
    BY <1>2 DEF Distinct, n
  <2>1. CASE i \in 1..n /\ j \in 1..n
    BY <2>1, <1>2, <1>a DEF n
  <2>2. CASE i = n + 1 /\ j \in 1..n
    BY <2>2, <1>2, <1>b DEF n
  <2>3. CASE j = n + 1 /\ i \in 1..n
    BY <2>3, <1>2, <1>b DEF n
  <2> QED BY <1>n, <2>1, <2>2, <2>3
<1> QED BY <1>1, <1>2, <1>3 DEF GoodQueue, Unknown, Schedules

(* A run that passes can_start_now may take a slot.                          *)
LEMMA ActivateGood ==
    ASSUME NEW s, GoodQueue(s), NEW r \in Runs, Unknown(s, r), CanStartNow(s, r)
    PROVE  /\ GoodQueue(Activate(s, r))
           /\ \A t : t # r /\ Unknown(s, t) => Unknown(Activate(s, r), t)
<1>1. Activate(s, r) = [active |-> s.active \union {r}, queue |-> s.queue]
  BY RecordEta DEF GoodQueue, Activate
<1> QED BY <1>1 DEF GoodQueue, Unknown, Schedules, CanStartNow, Exclusive

(* Handing a free slot over keeps the schedule good and leaves nobody        *)
(* waiting for a slot that nobody holds.                                     *)
LEMMA HandOverGood ==
    ASSUME NEW s, GoodQueue(s)
    PROVE  /\ GoodQueue(HandOver(s))
           /\ HandOver(s).queue # <<>> => HandOver(s).active # {}
           /\ \A t : Unknown(s, t) => Unknown(HandOver(s), t)
<1>1. CASE s.active = {} /\ s.queue # <<>>
  <2> DEFINE q == Tail(s.queue)
  <2>1. HandOver(s) = [active |-> {Head(s.queue)}, queue |-> q]
    BY <1>1 DEF HandOver
  <2>2. /\ s.queue \in Seq(Runs) /\ Head(s.queue) = s.queue[1]
        /\ 1 \in DOMAIN s.queue /\ s.queue[1] \in Runs
    BY <1>1 DEF GoodQueue, Schedules
  <2>3. q \in Seq(Runs) /\ \A i \in DOMAIN q : 
            i + 1 \in DOMAIN s.queue /\ i + 1 # 1 /\ q[i] = s.queue[i + 1]
    BY <1>1, <2>2
  <2>4. DOMAIN q \subseteq Nat
    BY <2>3
  <2> HIDE DEF q
  <2>5. Distinct(q)
    BY <2>3, <2>4 DEF GoodQueue, Distinct
  <2>6. \A i \in DOMAIN q : q[i] # Head(s.queue)
    BY <2>2, <2>3 DEF GoodQueue, Distinct
  <2>7. \A t : Unknown(s, t) => Unknown(HandOver(s), t)
    BY <2>1, <2>2, <2>3 DEF Unknown
  <2>8. GoodQueue(HandOver(s))
    BY <2>1, <2>2, <2>3, <2>5, <2>6 DEF GoodQueue, Schedules
  <2>9. HandOver(s).active # {}
    BY <2>1
  <2> QED BY <2>7, <2>8, <2>9
<1>2. CASE ~(s.active = {} /\ s.queue # <<>>)
  BY <1>2 DEF HandOver
<1> QED BY <1>1, <1>2

(* finish_run keeps a good schedule good, whoever is finished.               *)
LEMMA FinishRunGood ==
    ASSUME NEW s, GoodQueue(s), s.queue # <<>> => s.active # {}, NEW r
    PROVE  /\ GoodQueue(FinishRun(s, r))
           /\ FinishRun(s, r).queue # <<>> => FinishRun(s, r).active # {}
           /\ \A t : Unknown(s, t) => Unknown(FinishRun(s, r), t)
<1>1. CASE r \in s.active
  <2>1. Free(s, r) = [active |-> s.active \ {r}, queue |-> s.queue]
    BY RecordEta DEF GoodQueue, Free
  <2>2. GoodQueue(Free(s, r)) /\ \A t : Unknown(s, t) => Unknown(Free(s, r), t)
    BY <2>1 DEF GoodQueue, Schedules, Unknown
  <2>3. FinishRun(s, r) = HandOver(Free(s, r))
    BY <1>1 DEF FinishRun
  <2> QED BY <2>2, <2>3, HandOverGood
<1>2. CASE r \notin s.active
  <2> DEFINE q == RemoveFirst(s.queue, r)
  <2>1. FinishRun(s, r) = [active |-> s.active, queue |-> q]
    BY <1>2 DEF FinishRun, GoodQueue, Schedules
  <2>2. s.queue \in Seq(Runs) /\ Distinct(s.queue)
    BY DEF GoodQueue, Schedules
  <2>3. /\ q \in Seq(Runs) /\ Distinct(q)
        /\ \A i \in DOMAIN q : \E j \in DOMAIN s.queue : q[i] = s.queue[j]
    BY <2>2, RemoveFirstDistinct
  <2> HIDE DEF q
  <2>4. s.queue = <<>> => q = <<>>
    <3>0. s.queue = <<>> => ~\E j \in DOMAIN s.queue : TRUE
      BY <2>2
    <3>1. s.queue = <<>> => ~\E i \in DOMAIN q : TRUE
      BY <2>3, <3>0, Zenon
    <3>2. q # <<>> => 1 \in DOMAIN q
      BY <2>3
    <3> QED BY <3>1, <3>2
  <2>5. GoodQueue(FinishRun(s, r))
    BY <2>1, <2>3 DEF GoodQueue, Schedules
  <2>6. \A t : Unknown(s, t) => Unknown(FinishRun(s, r), t)
    BY <2>1, <2>3 DEF Unknown
  <2> QED BY <2>1, <2>4, <2>5, <2>6
<1> QED BY <1>1, <1>2

-------------------------------------------------------------------------------
(* SchedInv in terms of the predicates of the lemmas.                        *)
LEMMA SchedInvSplit ==
    SchedInv <=> /\ GoodQueue(sched) /\ WorkConserving
                 /\ serving \in BOOLEAN /\ fresh \subseteq Runs
                 /\ stored \in Seq(Stored)
                 /\ \A i, j \in DOMAIN stored : stored[i].run = stored[j].run => i = j
                 /\ \A i \in DOMAIN stored : 
                       stored[i].run \notin fresh /\ Unknown(sched, stored[i].run)
                 /\ serving => stored = <<>>
                 /\ \A r \in fresh : Unknown(sched, r)
BY DEF SchedInv, TypeOK, StoredApart, FreshApart, NoDoubleEntry, ExclusiveSlot,
       GoodQueue, Unknown, Distinct

(* The daemon's empty scheduler, before it has read the store, satisfies it. *)
LEMMA InitInv == Init => SchedInv
<1> SUFFICES ASSUME Init PROVE SchedInv
  OBVIOUS
<1>1. stored \in Seq(Stored)
  <2>1. PICK m \in 0..MaxStored : stored \in [1..m -> Stored]
    BY DEF Init, StoredRuns, SeqOf, Stored
  <2> QED BY <2>1, StoredAssumption DEF StoredAssumption
<1>2. \A i \in DOMAIN stored : stored[i] \in Stored
  BY <1>1
<1>3. GoodQueue(sched) /\ \A r : Unknown(sched, r)
  BY DEF Init, EmptySchedule, GoodQueue, Schedules, Unknown, Distinct
<1>4. \A i, j \in DOMAIN stored : stored[i].run = stored[j].run => i = j
  BY DEF Init, StoredRuns
<1> QED BY <1>1, <1>2, <1>3, <1>4, SchedInvSplit DEF Init, WorkConserving, Stored

(* Every step of rehydrate_from_store, schedule_start and finish_run keeps   *)
(* the invariant.                                                            *)
LEMMA NextInv == SchedInv /\ [Next]_vars => SchedInv'
<1> SUFFICES ASSUME SchedInv, [Next]_vars PROVE SchedInv'
  OBVIOUS
<1>0. /\ GoodQueue(sched) /\ WorkConserving
      /\ serving \in BOOLEAN /\ fresh \subseteq Runs /\ stored \in Seq(Stored)
      /\ \A i, j \in DOMAIN stored : stored[i].run = stored[j].run => i = j
      /\ \A i \in DOMAIN stored : 
            stored[i].run \notin fresh /\ Unknown(sched, stored[i].run)
      /\ serving => stored = <<>>
      /\ \A r \in fresh : Unknown(sched, r)
  BY SchedInvSplit
<1> DEFINE Goal == /\ GoodQueue(sched') /\ WorkConserving'
                   /\ serving' \in BOOLEAN /\ fresh' \subseteq Runs
                   /\ stored' \in Seq(Stored)
                   /\ \A i, j \in DOMAIN stored' :
                         stored'[i].run = stored'[j].run => i = j
                   /\ \A i \in DOMAIN stored' : 
                         /\ stored'[i].run \notin fresh'
                         /\ Unknown(sched', stored'[i].run)
                   /\ serving' => stored' = <<>>
                   /\ \A r \in fresh' : Unknown(sched', r)
<1>S. SUFFICES Goal
  BY DEF SchedInv, TypeOK, StoredApart, FreshApart, NoDoubleEntry, ExclusiveSlot,
         GoodQueue, Unknown, Distinct, WorkConserving
<1>1. CASE Rehydrate
  <2> DEFINE r == Head(stored).run
             q == Tail(stored)
  <2>1. /\ 1 \in DOMAIN stored /\ Head(stored) = stored[1] /\ stored[1] \in Stored
    BY <1>0, <1>1 DEF Rehydrate
  <2>2. r \in Runs /\ Unknown(sched, r) /\ r \notin fresh
    BY <1>0, <2>1 DEF Stored
  <2>3. q \in Seq(Stored) /\ \A i \in DOMAIN q :
           i \in Nat /\ i + 1 \in DOMAIN stored /\ i + 1 # 1 /\ q[i] = stored[i + 1]
    BY <1>0, <1>1 DEF Rehydrate
  <2>4. /\ GoodQueue(sched')
        /\ \A t : t # r /\ Unknown(sched, t) => Unknown(sched', t)
    <3>1. \/ sched' = Activate(sched, r) /\ CanStartNow(sched, r) 
          \/ sched' = Enqueue(sched, r)
      BY <1>1 DEF Rehydrate, RehydrateRun
    <3> QED BY <1>0, <2>2, <3>1, ActivateGood, EnqueueGood
  <2>5. stored' = q /\ serving' = FALSE /\ serving = FALSE /\ fresh' = fresh
    BY <1>0, <1>1 DEF Rehydrate
  <2> HIDE DEF q, r
  <2>6. \A i \in DOMAIN q : q[i].run # r
    BY <1>0, <2>1, <2>3 DEF r
  <2>7. \A i, j \in DOMAIN q : q[i].run = q[j].run => i = j
    <3> SUFFICES ASSUME NEW i \in DOMAIN q, NEW j \in DOMAIN q, q[i].run = q[j].run
                 PROVE  i = j
      OBVIOUS
    <3>1. i + 1 = j + 1
      BY <1>0, <2>3
    <3> QED BY <2>3, <3>1
  <2>8. \A i \in DOMAIN q : q[i].run \notin fresh /\ Unknown(sched', q[i].run)
    BY <1>0, <2>3, <2>4, <2>6
  <2>9. \A t \in fresh : Unknown(sched', t)
    BY <1>0, <2>2, <2>4
  <2> QED BY <1>0, <2>3, <2>4, <2>5, <2>7, <2>8, <2>9 DEF WorkConserving
<1>2. CASE RehydrateDone
  BY <1>0, <1>2, HandOverGood DEF RehydrateDone, WorkConserving
<1>3. ASSUME NEW r \in Runs, Start(r) PROVE Goal
  <2>1. /\ GoodQueue(sched')
        /\ \A t : t # r /\ Unknown(sched, t) => Unknown(sched', t)
    <3>1. \/ sched' = Activate(sched, r) /\ CanStartNow(sched, r) 
          \/ sched' = Enqueue(sched, r)
          \/ sched' = sched
      BY <1>3 DEF Start, ScheduleStart
    <3> QED BY <1>0, <1>3, <3>1, ActivateGood, EnqueueGood DEF Start
  <2>2. WorkConserving'
    <3>1. CASE QueueFull(sched, r)
      BY <1>0, <1>3, <3>1 DEF Start, WorkConserving
    <3>2. CASE ~QueueFull(sched, r) /\ CanStartNow(sched, r)
      <4>1. sched' = [active |-> sched.active \union {r}, queue |-> sched.queue]
        BY <1>0, <1>3, <3>2, RecordEta DEF Start, ScheduleStart, Activate, GoodQueue
      <4> QED BY <4>1 DEF WorkConserving
    <3>3. CASE ~QueueFull(sched, r) /\ ~CanStartNow(sched, r)
      <4>1. sched'.active = sched.active
        BY <1>0, <1>3, <3>3 DEF Start, ScheduleStart, Enqueue, GoodQueue, Schedules
      <4>2. sched.active # {}
        BY <1>0, <1>3, <3>3 DEF CanStartNow, WorkConserving, Start
      <4> QED BY <4>1, <4>2 DEF WorkConserving
    <3> QED BY <3>1, <3>2, <3>3
  <2>3. /\ serving' = serving /\ stored' = stored /\ fresh' = fresh \ {r}
        /\ stored = <<>>
    BY <1>0, <1>3 DEF Start
  <2>4. \A t \in fresh' : Unknown(sched', t)
    BY <1>0, <2>1, <2>3
  <2> QED BY <1>0, <2>1, <2>2, <2>3, <2>4
<1>4. ASSUME NEW r \in Runs, Finish(r) PROVE Goal
  <2>1. sched.queue # <<>> => sched.active # {}
    BY <1>0, <1>4 DEF Finish, WorkConserving
  <2>2. /\ GoodQueue(sched')
        /\ sched'.queue # <<>> => sched'.active # {}
        /\ \A t : Unknown(sched, t) => Unknown(sched', t)
    BY <1>0, <1>4, <2>1, FinishRunGood DEF Finish
  <2> QED BY <1>0, <1>4, <2>2 DEF Finish, WorkConserving
<1>5. CASE UNCHANGED vars
  BY <1>0, <1>5 DEF vars, WorkConserving
<1> QED BY <1>1, <1>2, <1>3, <1>4, <1>5 DEF Next

(* The scheduler's invariant, for any number of runs, any mix of exclusive   *)
(* and parallel ones, any queue cap and any history in the store.            *)
THEOREM SchedulerInvariant == Spec => []SchedInv
BY InitInv, NextInv, PTL DEF Spec

(* schedule_start_with_policy, finish_run and rehydrate_from_store keep the  *)
(* type of the schedule.                                                     *)
THEOREM SchedulerTypeOK == Spec => []TypeOK
<1>1. SchedInv => TypeOK
  BY DEF SchedInv
<1> QED BY <1>1, SchedulerInvariant, PTL

(* Runs that share a workspace never hold a slot of the session together.    *)
THEOREM SchedulerExclusive == Spec => []ExclusiveSlot
<1>1. SchedInv => ExclusiveSlot
  BY DEF SchedInv
<1> QED BY <1>1, SchedulerInvariant, PTL

(* Once the daemon serves, a waiting run always waits for a run that holds   *)
(* a slot.                                                                   *)
THEOREM SchedulerWorkConserving == Spec => []WorkConserving
<1>1. SchedInv => WorkConserving
  BY DEF SchedInv
<1> QED BY <1>1, SchedulerInvariant, PTL

(* A run is waiting or running, and waits once.                              *)
THEOREM SchedulerNoDoubleEntry == Spec => []NoDoubleEntry
<1>1. SchedInv => NoDoubleEntry
  BY DEF SchedInv
<1> QED BY <1>1, SchedulerInvariant, PTL

(* What finish_run, schedule_start and rehydrate_from_store promise together:  *)
(* one place per run, no idle slot before a queue, one holder of the workspace. *)
THEOREM SchedulerSound == Spec => []ScheduleSound
<1>1. SchedInv => ScheduleSound
  BY DEF SchedInv, ScheduleSound
<1> QED BY <1>1, SchedulerInvariant, PTL

(* A slot goes to the head of the queue, or past an empty queue: a parallel  *)
(* child never overtakes a run that already waits.                           *)
THEOREM SchedulerNoOvertaking == Spec => NoOvertaking
<1> DEFINE Fair == serving => \A r \in sched'.active \ sched.active :
                       sched.queue = <<>> \/ r = Head(sched.queue)
<1>1. SchedInv /\ [Next]_vars => [Fair]_vars
  <2> SUFFICES ASSUME SchedInv, Next, serving, sched \in Schedules
               PROVE  \A r \in sched'.active \ sched.active :
                        sched.queue = <<>> \/ r = Head(sched.queue)
    BY DEF SchedInv, TypeOK
  <2>1. CASE Rehydrate \/ RehydrateDone
    BY <2>1 DEF Rehydrate, RehydrateDone
  <2>2. ASSUME NEW r \in Runs, Start(r)
        PROVE  sched.queue = <<>> \/ sched'.active = sched.active
    BY <2>2 DEF Start, ScheduleStart, CanStartNow, Enqueue, Schedules
  <2>3. ASSUME NEW r \in Runs, Finish(r)
        PROVE  sched'.active \subseteq sched.active \union {Head(sched.queue)}
    <3>1. Free(sched, r) = [active |-> sched.active \ {r}, queue |-> sched.queue]
      BY RecordEta DEF Free
    <3>2. CASE r \in sched.active
      <4>1. sched' = HandOver([active |-> sched.active \ {r}, queue |-> sched.queue])
        BY <2>3, <3>1, <3>2 DEF Finish, FinishRun
      <4> QED BY <4>1 DEF HandOver
    <3>3. CASE r \notin sched.active
      BY <2>3, <3>3 DEF Finish, FinishRun, Schedules
    <3> QED BY <3>2, <3>3
  <2> QED BY <2>1, <2>2, <2>3 DEF Next
<1> QED BY <1>1, SchedulerInvariant, PTL DEF Spec, NoOvertaking

(***************************************************************************)
(* The work items.                                                         *)
(***************************************************************************)
Labels == UNION { w.states : w \in Workflows }
Polls == [pc : {"top", "sleeping", "fetching", "storing", "stopped"}, page : Nat, found : SUBSET Issues, tag : Nat, states : SUBSET Labels]
Triggers == [pc : {"idle", "read", "started"}, item : Issues \union {0}, run : Nat]
WorkTyped ==
    /\ remote \in Seq(Issues)
    /\ version \in Nat
    /\ workflow \in Workflows \union {NoWorkflow}
    /\ poller \in Polls
    /\ items \in [Issues -> {"none", "available", "stale", "dismissed", "triggered"}]
    /\ itemRun \in [Issues -> Nat]
    /\ cursor \in [tag : Nat, states : SUBSET Labels]
    /\ trigger \in [WorkUsers -> Triggers]
    /\ workRuns \in Seq(Issues \union {0})

\* A tag the poller or the cursor holds was the tag of the repository.  A poll past the
\* first page has a newer tag than the cursor, and has found all of that page if it has
\* not changed since.
PastFirstPage == poller.pc = "storing" \/ (poller.pc = "fetching" /\ poller.page # 1)
PollIsNewer ==
    /\ cursor.tag <= version
    /\ poller.pc = "fetching" => poller.page # 0
    /\ poller.pc = "fetching" /\ poller.page = 1 => poller.tag = cursor.tag
    /\ PastFirstPage => cursor.tag < poller.tag /\ poller.tag <= version
    /\ PastFirstPage /\ poller.tag = version => Selected(Listed(1), poller.states) \subseteq poller.found
\* A trigger names the run that was started for its item, and so does a triggered item.
RunsAreForItems ==
    /\ \A u \in WorkUsers : trigger[u].pc = "started" =>
          trigger[u].run \in 1..Len(workRuns) /\ workRuns[trigger[u].run] = trigger[u].item
    /\ \A i \in Issues : items[i] = "triggered" => itemRun[i] \in 1..Len(workRuns) /\ workRuns[itemRun[i]] = i
WorkInvariant == WorkTyped /\ NotModifiedIsTrue /\ RefreshNotLost /\ PollIsNewer /\ RunsAreForItems

\* A page of the listing has issues of the repository.
LEMMA ListedAreIssues ==
  ASSUME WorkTyped, NEW n \in Nat \ {0}
  PROVE  Listed(n) \subseteq Issues
  <1> DEFINE first == (n - 1) * PageSize + 1
             last == IF n * PageSize < Len(remote) THEN n * PageSize ELSE Len(remote)
  <1>1. first \in Nat /\ first >= 1 /\ n * PageSize \in Nat /\ remote \in Seq(Issues)
    <2>1. PageSize \in Nat /\ n - 1 \in Nat
      BY WorkAssumption
    <2>2. (n - 1) * PageSize \in Nat /\ n * PageSize \in Nat
      BY <2>1
    <2> QED
      BY <2>2 DEF WorkTyped
  <1>2. last \in Nat /\ last <= Len(remote)
    BY <1>1
  <1> HIDE DEF first, last
  <1>3. \A i \in 1..Len(SubSeq(remote, first, last)) : SubSeq(remote, first, last)[i] \in Issues
    <2>1. \A i \in 1..(last - first + 1) : SubSeq(remote, first, last)[i] = remote[first + i - 1]
      BY <1>1, <1>2
    <2>2. Len(SubSeq(remote, first, last)) = IF first <= last THEN last - first + 1 ELSE 0
      BY <1>1, <1>2
    <2> QED
      BY <1>1, <1>2, <2>1, <2>2
  <1> QED
    BY <1>3 DEF Listed, PageOfIssues, first, last

\* Nothing is polled, stored or triggered.
LEMMA WorkInitially == WorkInit => WorkInvariant
  <1> SUFFICES ASSUME WorkInit
               PROVE  WorkInvariant
    OBVIOUS
  <1>1. WorkTyped
    BY DEF WorkInit, WorkTyped, NoPoll, NoWorkflow, NoTrigger, Polls, Triggers
  <1>2. NotModifiedIsTrue /\ RefreshNotLost /\ PollIsNewer /\ RunsAreForItems
    BY DEF WorkInit, NotModifiedIsTrue, RefreshNotLost, PollIsNewer, PastFirstPage, RunsAreForItems, NoPoll, NoTrigger
  <1> QED
    BY <1>1, <1>2 DEF WorkInvariant

(***************************************************************************)
(* The steps, by what they touch.                                          *)
(***************************************************************************)
\* The tables and GitHub are as they were, and the poller is at no page past the first.
TablesStand ==
    /\ UNCHANGED <<remote, labelOf, version, items, itemRun, cursor, workRuns>>
    /\ poller' = poller \/ (~PastFirstPage' /\ (poller'.pc = "fetching" => poller'.tag = cursor.tag))
\* While the tables stand, a poll is at most over or back at its first page.
LEMMA TablesStandKeeps ==
  ASSUME WorkInvariant, TablesStand
  PROVE  NotModifiedIsTrue' /\ PollIsNewer'
  <1>1. NotModifiedIsTrue'
    BY DEF WorkInvariant, TablesStand, NotModifiedIsTrue, Selected, Listed, PageOfIssues
  <1>2. Selected(Listed(1), poller.states)' = Selected(Listed(1), poller'.states)
    BY DEF TablesStand, Selected, Listed, PageOfIssues
  <1>3. PollIsNewer'
    BY <1>2 DEF WorkInvariant, TablesStand, PollIsNewer, PastFirstPage
  <1> QED
    BY <1>1, <1>3

\* What the poller and the commands do between their writes.
QuietStep ==
    \/ (\E w \in Workflows : LoadWorkflow(w)) \/ PollBegins \/ NothingToPoll \/ NotModified \/ FetchFails \/ PollerWakes
    \/ PollerStops \/ RefreshWorkItems
\* The poller and its requests, as long as nothing is stored.
LEMMA QuietStepKeeps ==
  ASSUME WorkInvariant, QuietStep
  PROVE  WorkInvariant'
  <1> USE DEF WorkInvariant
  <1>1. poller \in Polls /\ workflow \in Workflows \union {NoWorkflow} /\ cursor \in [tag : Nat, states : SUBSET Labels]
    BY DEF WorkTyped
  <1>2. workflow.states \subseteq Labels
    BY <1>1 DEF Labels, NoWorkflow
  <1>3. /\ TablesStand /\ trigger' = trigger
        /\ poller' \in Polls /\ workflow' \in Workflows \union {NoWorkflow}
        /\ RefreshNotLost'
    <2>1. CASE \E w \in Workflows : LoadWorkflow(w)
      BY <1>1, <2>1 DEF LoadWorkflow, TablesStand, RefreshNotLost, remoteVars
    <2>2. CASE PollBegins
      <3>1. poller' = [pc |-> "fetching", page |-> 1, found |-> {}, tag |-> cursor.tag, states |-> workflow.states]
        BY <2>2 DEF PollBegins
      <3>2. poller' \in Polls
        BY <1>1, <1>2, <3>1 DEF Polls
      <3>3. ~PastFirstPage' /\ poller'.tag = cursor.tag
        BY <3>1 DEF PastFirstPage
      <3> QED
        BY <1>1, <2>2, <3>2, <3>3 DEF PollBegins, TablesStand, RefreshNotLost, remoteVars
    <2>3. CASE NothingToPoll \/ NotModified \/ FetchFails \/ PollerStops \/ PollerWakes
      <3>1. poller' \in {NoPoll, [NoPoll EXCEPT !.pc = "sleeping"], [NoPoll EXCEPT !.pc = "stopped"]}
        BY <2>3 DEF NothingToPoll, NotModified, FetchFails, PollerStops, PollerWakes, Sleeps
      <3>2. poller' \in Polls /\ poller'.pc \in {"top", "sleeping", "stopped"}
        BY <3>1 DEF Polls, NoPoll
      <3>3. ~PastFirstPage'
        BY <3>2 DEF PastFirstPage
      <3>4. RefreshNotLost'
        <4>1. CASE NothingToPoll
          BY <4>1 DEF RefreshNotLost, NothingToPoll
        <4>2. CASE NotModified \/ FetchFails
          BY <4>2 DEF RefreshNotLost, NotModified, FetchFails
        <4>3. CASE PollerStops
          BY <4>3 DEF RefreshNotLost, PollerStops, NoPoll
        <4>4. CASE PollerWakes
          BY <4>4 DEF RefreshNotLost, PollerWakes, NoPoll
        <4> QED
          BY <2>3, <4>1, <4>2, <4>3, <4>4
      <3> QED
        BY <1>1, <2>3, <3>2, <3>3, <3>4 DEF NothingToPoll, NotModified, FetchFails, PollerStops, PollerWakes, TablesStand, remoteVars
    <2>4. CASE RefreshWorkItems
      BY <1>1, <2>4 DEF RefreshWorkItems, TablesStand, RefreshNotLost, remoteVars
    <2> QED
      BY <2>1, <2>2, <2>3, <2>4 DEF QuietStep
  <1>4. WorkTyped'
    BY <1>3 DEF WorkTyped, TablesStand
  <1>5. RunsAreForItems'
    BY <1>3 DEF RunsAreForItems, TablesStand
  <1> QED
    BY <1>3, <1>4, <1>5, TablesStandKeeps

\* A trigger begins or is given up, by itself or by a crash.
LEMMA TriggerStepKeeps ==
  ASSUME WorkInvariant,
         \/ DaemonRestarts
         \/ \E u \in WorkUsers : TriggerFails(u) \/ \E i \in Issues : TriggerReads(u, i)
  PROVE  WorkInvariant'
  <1> USE DEF WorkInvariant
  <1>0. poller \in Polls /\ trigger \in [WorkUsers -> Triggers]
    BY DEF WorkTyped
  <1>1. NoTrigger \in Triggers /\ NoTrigger.pc = "idle"
    BY DEF NoTrigger, Triggers
  <1>2. /\ TablesStand /\ workflow' \in Workflows \union {NoWorkflow} /\ poller' \in Polls /\ RefreshNotLost'
        /\ trigger' \in [WorkUsers -> Triggers]
        /\ \A u \in WorkUsers : trigger'[u].pc = "started" => trigger'[u] = trigger[u]
    <2>1. CASE DaemonRestarts
      <3>1. poller' = NoPoll /\ NoPoll.pc = "top" /\ NoPoll \in Polls
        BY <2>1 DEF DaemonRestarts, NoPoll, Polls
      <3>2. ~PastFirstPage'
        BY <3>1 DEF PastFirstPage
      <3> QED
        BY <1>1, <2>1, <3>1, <3>2 DEF DaemonRestarts, TablesStand, RefreshNotLost, remoteVars
    <2>2. CASE \E u \in WorkUsers : TriggerFails(u)
      BY <1>0, <1>1, <2>2 DEF TriggerFails, TablesStand, RefreshNotLost, remoteVars, WorkTyped
    <2>3. CASE \E u \in WorkUsers : \E i \in Issues : TriggerReads(u, i)
      <3>1. PICK u \in WorkUsers, i \in Issues : TriggerReads(u, i)
        BY <2>3
      <3> DEFINE read == [pc |-> "read", item |-> i, run |-> 0]
      <3>2. read \in Triggers /\ read.pc = "read"
        BY DEF Triggers
      <3>3. trigger' = [trigger EXCEPT ![u] = read]
        BY <3>1 DEF TriggerReads
      <3> HIDE DEF read
      <3> QED
        BY <1>0, <3>1, <3>2, <3>3 DEF TriggerReads, TablesStand, RefreshNotLost, remoteVars, WorkTyped
    <2> QED
      BY <2>1, <2>2, <2>3
  <1>3. WorkTyped'
    BY <1>2 DEF WorkTyped, TablesStand
  <1>4. RunsAreForItems'
    BY <1>2 DEF RunsAreForItems, TablesStand
  <1> QED
    BY <1>2, <1>3, <1>4, TablesStandKeeps

\* The repository changes: its tag tells whether the first page did.
LEMMA RemoteEditKeeps ==
  ASSUME WorkInvariant, RemoteEdit
  PROVE  WorkInvariant'
  <1> USE DEF WorkInvariant
  <1>1. remote \in Seq(Issues) /\ version \in Nat /\ poller \in Polls /\ cursor \in [tag : Nat, states : SUBSET Labels]
    BY DEF WorkTyped
  <1>2. remote' \in Seq(Issues)
    <2>1. PICK i \in Issues :
            \/ \E k \in 1..Len(remote) :
                 \/ remote' = SubSeq(remote, 1, k - 1) \o SubSeq(remote, k + 1, Len(remote))
                 \/ remote' = remote
            \/ remote' = <<i>> \o remote
      BY DEF RemoteEdit
    <2>2. ASSUME NEW k \in 1..Len(remote)
          PROVE  SubSeq(remote, 1, k - 1) \o SubSeq(remote, k + 1, Len(remote)) \in Seq(Issues)
      <3>1. SubSeq(remote, 1, k - 1) \in Seq(Issues)
        BY <1>1
      <3>2. SubSeq(remote, k + 1, Len(remote)) \in Seq(Issues)
        BY <1>1
      <3> QED
        BY <3>1, <3>2
    <2>3. <<i>> \o remote \in Seq(Issues)
      BY <1>1
    <2> QED
      BY <1>1, <2>1, <2>2, <2>3
  <1>3. UNCHANGED <<workflow, refresh, poller, items, itemRun, cursor, trigger, workRuns, asked>>
    BY DEF RemoteEdit
  <1>4. version' = version \/ version' = version + 1
    BY DEF RemoteEdit
  <1>5. ASSUME version' = version
        PROVE  \A states : Selected(Listed(1), states)' = Selected(Listed(1), states)
    <2>1. PageOfIssues(1)' = PageOfIssues(1) /\ \A i \in Listed(1) : labelOf'[i] = labelOf[i]
      BY <1>1, <1>5 DEF RemoteEdit
    <2>2. Listed(1)' = Listed(1)
      BY <2>1 DEF Listed
    <2> QED
      BY <2>1, <2>2 DEF Selected
  <1>6. WorkTyped'
    BY <1>1, <1>2, <1>3, <1>4 DEF WorkTyped
  <1>7. NotModifiedIsTrue' /\ PollIsNewer'
    <2>1. CASE version' = version
      <3>1. Selected(Listed(1), cursor.states)' = Selected(Listed(1), cursor.states)
        BY <1>3, <1>5, <2>1
      <3>2. Selected(Listed(1), poller.states)' = Selected(Listed(1), poller.states)
        BY <1>3, <1>5, <2>1
      <3>3. NotModifiedIsTrue'
        BY <1>3, <2>1, <3>1 DEF NotModifiedIsTrue
      <3> QED
        BY <1>3, <2>1, <3>2, <3>3 DEF PollIsNewer, PastFirstPage
    <2>2. CASE version' = version + 1
      <3>1. cursor.tag \in Nat /\ poller.tag \in Nat /\ cursor.tag <= version
        BY <1>1 DEF Polls, PollIsNewer
      <3>2. NotModifiedIsTrue'
        BY <1>1, <1>3, <2>2, <3>1 DEF NotModifiedIsTrue
      <3> QED
        BY <1>1, <1>3, <2>2, <3>1, <3>2 DEF PollIsNewer, PastFirstPage
    <2> QED
      BY <1>4, <2>1, <2>2
  <1>8. RefreshNotLost' /\ RunsAreForItems'
    BY <1>3 DEF RefreshNotLost, RunsAreForItems
  <1> QED
    BY <1>6, <1>7, <1>8

\* A page is read: the first one whole, and under the tag it has.
LEMMA FetchPageKeeps ==
  ASSUME WorkInvariant, FetchPage
  PROVE  WorkInvariant'
  <1> USE DEF WorkInvariant
  <1> DEFINE onPage == Selected(Listed(poller.page), poller.states)
  <1>1. /\ poller \in Polls /\ version \in Nat /\ cursor \in [tag : Nat, states : SUBSET Labels]
        /\ UNCHANGED <<remote, labelOf, version, workflow, refresh, items, itemRun, cursor, trigger, workRuns, asked>>
        /\ poller.pc = "fetching" /\ (poller.page = 1 => poller.tag # version)
    BY DEF WorkTyped, FetchPage, remoteVars
  <1>2. onPage \subseteq Issues
    <2>1. poller.page \in Nat \ {0}
      BY <1>1 DEF PollIsNewer, Polls
    <2> QED
      BY <2>1, ListedAreIssues DEF Selected
  <1>3. poller'.pc \in {"fetching", "storing"} /\ poller' \in Polls /\ PastFirstPage'
        /\ poller'.found = poller.found \union onPage /\ poller'.states = poller.states
        /\ poller'.tag = (IF poller.page = 1 THEN version ELSE poller.tag)
        /\ poller'.page # 0
    <2>1. poller.page \in Nat \ {0} /\ poller.page + 1 \in Nat /\ poller.page + 1 # 1 /\ poller.page + 1 # 0
          /\ poller.found \union onPage \in SUBSET Issues
      BY <1>1, <1>2 DEF PollIsNewer, Polls
    <2>2. poller' = [poller EXCEPT !.found = poller.found \union onPage,
                                   !.tag = IF poller.page = 1 THEN version ELSE poller.tag,
                                   !.page = IF LastPage THEN poller.page ELSE poller.page + 1,
                                   !.pc = IF LastPage THEN "storing" ELSE poller.pc]
      BY DEF FetchPage
    <2> HIDE DEF onPage
    <2>3. /\ poller'.pc = IF LastPage THEN "storing" ELSE "fetching"
          /\ poller'.page = IF LastPage THEN poller.page ELSE poller.page + 1
      BY <1>1, <2>2 DEF Polls
    <2>4. poller' \in Polls /\ poller'.found = poller.found \union onPage /\ poller'.states = poller.states
          /\ poller'.tag = (IF poller.page = 1 THEN version ELSE poller.tag)
      BY <1>1, <2>1, <2>2 DEF Polls
    <2> QED
      BY <2>1, <2>3, <2>4 DEF PastFirstPage
  <1> HIDE DEF onPage
  <1>4. PollIsNewer'
    <2>1. cursor.tag <= version /\ cursor.tag \in Nat /\ poller.tag \in Nat
      BY <1>1 DEF PollIsNewer, Polls
    <2>2. CASE poller.page = 1
      <3>1. cursor.tag < version /\ poller'.tag = version
        BY <1>1, <1>3, <2>1, <2>2 DEF PollIsNewer
      <3>2. onPage = Selected(Listed(1), poller.states)
        BY <2>2 DEF onPage
      <3>3. Selected(Listed(1), poller.states)' = Selected(Listed(1), poller.states)
        BY <1>1, <1>3 DEF Selected, Listed, PageOfIssues
      <3>4. Selected(Listed(1), poller.states)' \subseteq poller'.found
        BY <1>3, <3>2, <3>3
      <3>5. poller'.pc = "fetching" => poller'.page # 1
        BY <1>3 DEF PastFirstPage
      <3> QED
        BY <1>1, <1>3, <3>1, <3>4, <3>5 DEF PollIsNewer
    <2>3. CASE poller.page # 1
      <3>1. PastFirstPage /\ poller'.tag = poller.tag
        BY <1>1, <1>3, <2>3 DEF PastFirstPage
      <3>2. Selected(Listed(1), poller.states)' = Selected(Listed(1), poller.states)
        BY <1>1, <1>3 DEF Selected, Listed, PageOfIssues
      <3>3. poller.tag = version => Selected(Listed(1), poller.states)' \subseteq poller'.found
        BY <1>3, <3>1, <3>2 DEF PollIsNewer
      <3>4. poller'.pc = "fetching" => poller'.page # 1
        BY <1>3 DEF PastFirstPage
      <3> QED
        BY <1>1, <1>3, <3>1, <3>3, <3>4 DEF PollIsNewer
    <2> QED
      BY <2>2, <2>3
  <1>5. NotModifiedIsTrue'
    BY <1>1 DEF NotModifiedIsTrue, Selected, Listed, PageOfIssues
  <1>6. RefreshNotLost' /\ RunsAreForItems'
    BY <1>1, <1>3 DEF RefreshNotLost, RunsAreForItems
  <1>7. WorkTyped'
    BY <1>1, <1>3 DEF WorkTyped
  <1> QED
    BY <1>4, <1>5, <1>6, <1>7

\* What storing a poll does to the table.
StoredBy(found) == MarkedStale(Upserted(found), found)
\* The table after a poll is stored: what was found is available, what was decided stands.
LEMMA StoredTable ==
  ASSUME WorkTyped, NEW found \in SUBSET Issues, NEW table \in {Upserted(found), StoredBy(found)}
  PROVE  /\ table \in [Issues -> {"none", "available", "stale", "dismissed", "triggered"}]
         /\ \A i \in Issues : items[i] \in {"dismissed", "triggered"} => table[i] = items[i]
         /\ \A i \in Issues : table[i] = "triggered" => items[i] = "triggered"
         /\ \A i \in found : table[i] \notin {"none", "stale"}
  <1>1. /\ Upserted(found) \in [Issues -> {"none", "available", "stale", "dismissed", "triggered"}]
        /\ \A i \in Issues : items[i] \in {"dismissed", "triggered"} => Upserted(found)[i] = items[i]
        /\ \A i \in Issues : Upserted(found)[i] = "triggered" => items[i] = "triggered"
        /\ \A i \in found : Upserted(found)[i] \notin {"none", "stale"}
    BY DEF WorkTyped, Upserted, Merged
  <1>2. \A i \in Issues : StoredBy(found)[i] = IF i \notin found /\ Upserted(found)[i] = "available" THEN "stale" ELSE Upserted(found)[i]
    BY DEF StoredBy, MarkedStale
  <1>3. StoredBy(found) = [i \in Issues |-> StoredBy(found)[i]]
    BY DEF StoredBy, MarkedStale
  <1>4. StoredBy(found) \in [Issues -> {"none", "available", "stale", "dismissed", "triggered"}]
    BY <1>1, <1>2, <1>3
  <1> QED
    BY <1>1, <1>2, <1>4

\* A poll stores what it found, and the tag it had unless that fails.
LEMMA StoreKeeps ==
  ASSUME WorkInvariant, StoreItems \/ StoreFails
  PROVE  WorkInvariant'
  <1> USE DEF WorkInvariant
  <1>1. /\ poller.pc = "storing" /\ UNCHANGED <<remote, labelOf, version, workflow, refresh, itemRun, trigger, workRuns, asked>>
        /\ poller' = [NoPoll EXCEPT !.pc = "sleeping"] /\ poller \in Polls /\ cursor \in [tag : Nat, states : SUBSET Labels]
    BY DEF StoreItems, StoreFails, Sleeps, remoteVars, WorkTyped
  <1>2. items' \in {items, Upserted(poller.found), StoredBy(poller.found)}
    BY DEF StoreItems, StoreFails, StoredBy
  <1>3. poller.found \in SUBSET Issues
    BY <1>1 DEF Polls
  <1>4. /\ items' \in [Issues -> {"none", "available", "stale", "dismissed", "triggered"}]
        /\ \A i \in Issues : items'[i] = "triggered" => items[i] = "triggered"
    BY <1>2, <1>3, StoredTable DEF WorkTyped
  <1>5. poller' \in Polls /\ poller'.pc = "sleeping" /\ ~PastFirstPage'
    BY <1>1 DEF Polls, NoPoll, PastFirstPage
  <1>6. PastFirstPage
    BY <1>1 DEF PastFirstPage
  <1>7. RefreshNotLost'
    BY <1>1, <1>5 DEF RefreshNotLost
  <1>8. RunsAreForItems'
    BY <1>1, <1>4 DEF RunsAreForItems
  <1>9. CASE StoreItems
    <2>1. cursor' = [tag |-> poller.tag, states |-> poller.states] /\ items' = StoredBy(poller.found)
      BY <1>9 DEF StoreItems, StoredBy
    <2>2. cursor' \in [tag : Nat, states : SUBSET Labels] /\ cursor'.tag = poller.tag /\ cursor'.states = poller.states
      BY <1>1, <2>1 DEF Polls
    <2>3. Selected(Listed(1), cursor.states)' = Selected(Listed(1), poller.states)
      BY <1>1, <2>2 DEF Selected, Listed, PageOfIssues
    <2>4. NotModifiedIsTrue'
      <3>1. \A i \in poller.found : items'[i] \notin {"none", "stale"}
        BY <1>3, <2>1, StoredTable
      <3>2. poller.tag = version => Selected(Listed(1), poller.states) \subseteq poller.found
        BY <1>6 DEF PollIsNewer
      <3> QED
        BY <1>1, <2>2, <2>3, <3>1, <3>2 DEF NotModifiedIsTrue
    <2>5. PollIsNewer'
      BY <1>1, <1>5, <1>6, <2>2 DEF PollIsNewer
    <2>6. WorkTyped'
      BY <1>1, <1>4, <1>5, <2>2 DEF WorkTyped
    <2> QED
      BY <1>7, <1>8, <2>4, <2>5, <2>6
  <1>10. CASE StoreFails
    <2>1. cursor' = cursor
      BY <1>10 DEF StoreFails
    <2>2. cursor.tag < version
      BY <1>1, <1>6 DEF PollIsNewer, WorkTyped, Polls
    <2>3. NotModifiedIsTrue'
      BY <1>1, <2>1, <2>2 DEF NotModifiedIsTrue, WorkTyped
    <2>4. PollIsNewer'
      BY <1>1, <1>5, <2>1 DEF PollIsNewer
    <2>5. WorkTyped'
      BY <1>1, <1>4, <1>5, <2>1 DEF WorkTyped
    <2> QED
      BY <1>7, <1>8, <2>3, <2>4, <2>5
  <1> QED
    BY <1>9, <1>10

\* The writes of the users.
LEMMA PollStandsKeeps ==
  ASSUME WorkInvariant, UNCHANGED <<remote, labelOf, version, poller, cursor>>,
         items' = items \/ (\A j \in Issues : items'[j] = items[j] \/ items'[j] \in {"dismissed", "triggered"})
  PROVE  NotModifiedIsTrue' /\ PollIsNewer'
  <1> USE DEF WorkInvariant
  <1>1. NotModifiedIsTrue'
    <2>1. Selected(Listed(1), cursor.states)' = Selected(Listed(1), cursor.states)
      BY DEF Selected, Listed, PageOfIssues
    <2>2. Selected(Listed(1), cursor.states) \subseteq Issues
      BY ListedAreIssues DEF Selected
    <2> QED
      BY <2>1, <2>2 DEF NotModifiedIsTrue
  <1>2. PollIsNewer'
    <2>1. Selected(Listed(1), poller.states)' = Selected(Listed(1), poller.states)
      BY DEF Selected, Listed, PageOfIssues
    <2> QED
      BY <2>1 DEF PollIsNewer, PastFirstPage
  <1> QED
    BY <1>1, <1>2
\* A user dismisses an item: that is a decision.
LEMMA DismissKeeps ==
  ASSUME WorkInvariant, NEW i \in Issues, DismissWorkItem(i)
  PROVE  WorkInvariant'
  <1> USE DEF WorkInvariant
  <1>1. /\ items' = [items EXCEPT ![i] = "dismissed"]
        /\ UNCHANGED <<remote, labelOf, version, workflow, refresh, poller, itemRun, cursor, trigger, workRuns, asked>>
    BY DEF DismissWorkItem, remoteVars
  <1>2. \A j \in Issues : items'[j] = items[j] \/ items'[j] = "dismissed"
    BY <1>1 DEF WorkTyped
  <1>3. WorkTyped'
    BY <1>1 DEF WorkTyped
  <1>4. NotModifiedIsTrue' /\ PollIsNewer'
    BY <1>1, <1>2, PollStandsKeeps
  <1>6. RefreshNotLost' /\ RunsAreForItems'
    BY <1>1, <1>2 DEF RefreshNotLost, RunsAreForItems
  <1> QED
    BY <1>3, <1>4, <1>6

\* A trigger starts the run of an item that is available.
LEMMA TriggerStartsKeeps ==
  ASSUME WorkInvariant, NEW u \in WorkUsers, TriggerStarts(u)
  PROVE  WorkInvariant'
  <1> USE DEF WorkInvariant
  <1> DEFINE item == trigger[u].item
             longer == Append(workRuns, item)
             started == [trigger[u] EXCEPT !.pc = "started", !.run = Len(longer)]
  <1>1. /\ workRuns' = longer /\ trigger' = [trigger EXCEPT ![u] = started]
        /\ UNCHANGED <<remote, labelOf, version, workflow, refresh, poller, items, itemRun, cursor, asked>>
    BY DEF TriggerStarts, remoteVars
  <1>2. trigger \in [WorkUsers -> Triggers] /\ workRuns \in Seq(Issues \union {0}) /\ item \in Issues \union {0}
    BY DEF WorkTyped, Triggers
  <1> HIDE DEF item
  <1>3. /\ longer \in Seq(Issues \union {0}) /\ Len(longer) = Len(workRuns) + 1
        /\ \A n \in 1..Len(workRuns) : n \in 1..Len(longer) /\ longer[n] = workRuns[n]
        /\ longer[Len(longer)] = item /\ Len(longer) \in 1..Len(longer) /\ Len(longer) \in Nat
    BY <1>2
  <1> HIDE DEF longer
  <1>4. started \in Triggers /\ started.run = Len(longer) /\ started.item = item
    BY <1>2, <1>3 DEF Triggers, item
  <1> HIDE DEF started
  <1>5. trigger' \in [WorkUsers -> Triggers] /\ trigger'[u] = started /\ \A v \in WorkUsers \ {u} : trigger'[v] = trigger[v]
    BY <1>1, <1>2, <1>4
  <1>6. WorkTyped'
    BY <1>1, <1>3, <1>5 DEF WorkTyped
  <1>7. RunsAreForItems'
    <2>1. ASSUME NEW v \in WorkUsers, trigger'[v].pc = "started"
          PROVE  trigger'[v].run \in 1..Len(longer) /\ longer[trigger'[v].run] = trigger'[v].item
      BY <1>3, <1>4, <1>5, <2>1 DEF RunsAreForItems
    <2>2. ASSUME NEW i \in Issues, items[i] = "triggered"
          PROVE  itemRun[i] \in 1..Len(longer) /\ longer[itemRun[i]] = i
      BY <1>3, <2>2 DEF RunsAreForItems
    <2> QED
      BY <1>1, <2>1, <2>2 DEF RunsAreForItems
  <1>8. NotModifiedIsTrue' /\ PollIsNewer' /\ RefreshNotLost'
    BY <1>1, PollStandsKeeps DEF RefreshNotLost
  <1> QED
    BY <1>6, <1>7, <1>8

\* A trigger marks the item with the run it started.
LEMMA TriggerMarksKeeps ==
  ASSUME WorkInvariant, NEW u \in WorkUsers, TriggerMarks(u)
  PROVE  WorkInvariant'
  <1> USE DEF WorkInvariant
  <1> DEFINE item == trigger[u].item
             run == trigger[u].run
  <1>1. /\ trigger[u].pc = "started" /\ trigger[u] \in Triggers /\ run \in Nat
        /\ run \in 1..Len(workRuns) /\ workRuns[run] = item
    BY DEF TriggerMarks, WorkTyped, Triggers, RunsAreForItems
  <1>2. /\ items' = [items EXCEPT ![item] = "triggered"] /\ itemRun' = [itemRun EXCEPT ![item] = run]
        /\ trigger' = [trigger EXCEPT ![u] = NoTrigger]
        /\ UNCHANGED <<remote, labelOf, version, workflow, refresh, poller, cursor, workRuns, asked>>
    BY DEF TriggerMarks, remoteVars
  <1> HIDE DEF item, run
  <1>3. \A j \in Issues : IF j = item THEN items'[j] = "triggered" /\ itemRun'[j] = run ELSE items'[j] = items[j] /\ itemRun'[j] = itemRun[j]
    BY <1>2 DEF WorkTyped
  <1>4. NoTrigger \in Triggers /\ NoTrigger.pc = "idle"
    BY DEF NoTrigger, Triggers
  <1>5. trigger' \in [WorkUsers -> Triggers] /\ \A v \in WorkUsers : trigger'[v].pc = "started" => trigger'[v] = trigger[v]
    BY <1>2, <1>4 DEF WorkTyped
  <1>6. WorkTyped'
    BY <1>1, <1>2, <1>5 DEF WorkTyped
  <1>7. NotModifiedIsTrue' /\ PollIsNewer'
    BY <1>2, <1>3, PollStandsKeeps
  <1>8. RefreshNotLost'
    BY <1>2 DEF RefreshNotLost
  <1>9. RunsAreForItems'
    BY <1>1, <1>2, <1>3, <1>5 DEF RunsAreForItems
  <1> QED
    BY <1>6, <1>7, <1>8, <1>9

\* Every step of the work items.
LEMMA WorkStepKeeps ==
  ASSUME WorkInvariant, [WorkNext]_workVars
  PROVE  WorkInvariant'
  <1>1. CASE UNCHANGED workVars
    <2>1. NotModifiedIsTrue' /\ PollIsNewer'
      BY <1>1, PollStandsKeeps DEF workVars
    <2>2. WorkTyped' /\ RefreshNotLost' /\ RunsAreForItems'
      BY <1>1 DEF workVars, WorkInvariant, WorkTyped, RefreshNotLost, RunsAreForItems
    <2> QED
      BY <2>1, <2>2 DEF WorkInvariant
  <1>2. CASE WorkNext
    <2>1. CASE QuietStep
      BY <2>1, QuietStepKeeps
    <2>2. CASE DaemonRestarts \/ \E u \in WorkUsers : TriggerFails(u) \/ \E i \in Issues : TriggerReads(u, i)
      BY <2>2, TriggerStepKeeps
    <2>3. CASE RemoteEdit \/ FetchPage \/ StoreItems \/ StoreFails
      BY <2>3, RemoteEditKeeps, FetchPageKeeps, StoreKeeps
    <2>4. CASE \E i \in Issues : DismissWorkItem(i)
      BY <2>4, DismissKeeps
    <2>5. CASE \E u \in WorkUsers : TriggerStarts(u) \/ TriggerMarks(u)
      BY <2>5, TriggerStartsKeeps, TriggerMarksKeeps
    <2> QED
      BY <1>2, <2>1, <2>2, <2>3, <2>4, <2>5 DEF WorkNext, QuietStep
  <1> QED
    BY <1>1, <1>2

\* A poll that is told that nothing changed misses nothing, and no refresh is lost: for
\* every set of issues, workflows and users, and every size of the pages.
THEOREM WorkIsSound == WorkSpec => []WorkSound
  <1>1. WorkInit => WorkInvariant
    BY WorkInitially
  <1>2. WorkInvariant /\ [WorkNext]_workVars => WorkInvariant'
    BY WorkStepKeeps
  <1>3. WorkInvariant => WorkSound
    BY DEF WorkInvariant, WorkSound
  <1> QED
    BY <1>1, <1>2, <1>3, PTL DEF WorkSpec

\* What a user decided about an item stays decided, and the run of a triggered item was
\* started for it.
THEOREM DecisionsAreKept == WorkSpec => DecisionKept
  <1> DEFINE Kept == \A i \in Issues :
                       /\ items[i] \in {"dismissed", "triggered"} => items'[i] \in {"dismissed", "triggered"}
                       /\ items'[i] = "triggered" => itemRun'[i] # 0 /\ workRuns'[itemRun'[i]] = i
  <1>1. WorkInit => WorkInvariant
    BY WorkInitially
  <1>2. WorkInvariant /\ [WorkNext]_workVars => WorkInvariant'
    BY WorkStepKeeps
  <1>3. WorkInvariant /\ [WorkNext]_workVars => [Kept]_workVars
    <2> SUFFICES ASSUME WorkInvariant, WorkNext, WorkInvariant', NEW i \in Issues
                 PROVE  /\ items[i] \in {"dismissed", "triggered"} => items'[i] \in {"dismissed", "triggered"}
                        /\ items'[i] = "triggered" => itemRun'[i] # 0 /\ workRuns'[itemRun'[i]] = i
      BY <1>2
    <2>1. items'[i] = "triggered" => itemRun'[i] # 0 /\ workRuns'[itemRun'[i]] = i
      BY DEF WorkInvariant, RunsAreForItems
    <2>2. items[i] \in {"dismissed", "triggered"} => items'[i] \in {"dismissed", "triggered"}
      <3>1. CASE QuietStep \/ DaemonRestarts \/ RemoteEdit \/ FetchPage
                 \/ \E u \in WorkUsers : TriggerStarts(u) \/ TriggerFails(u) \/ \E j \in Issues : TriggerReads(u, j)
        BY <3>1 DEF QuietStep, LoadWorkflow, PollBegins, NothingToPoll, NotModified, FetchFails, PollerWakes, PollerStops,
                    RefreshWorkItems, DaemonRestarts, RemoteEdit, FetchPage, TriggerStarts, TriggerFails, TriggerReads
      <3>2. CASE StoreItems \/ StoreFails
        <4>1. items' \in {items, Upserted(poller.found), StoredBy(poller.found)}
          BY <3>2 DEF StoreItems, StoreFails, StoredBy
        <4>2. poller.found \in SUBSET Issues
          BY DEF WorkInvariant, WorkTyped, Polls
        <4> QED
          BY <4>1, <4>2, StoredTable DEF WorkInvariant
      <3>3. CASE (\E j \in Issues : DismissWorkItem(j)) \/ \E u \in WorkUsers : TriggerMarks(u)
        BY <3>3 DEF DismissWorkItem, TriggerMarks, WorkInvariant, WorkTyped
      <3> QED
        BY <3>1, <3>2, <3>3 DEF WorkNext, QuietStep
    <2> QED
      BY <2>1, <2>2
  <1> QED
    BY <1>1, <1>2, <1>3, PTL DEF WorkSpec, DecisionKept

(***************************************************************************)
(* The credentials of a session.                                           *)
(***************************************************************************)
Methods == {"initialize", "open", "attach", "query"}
Requests == [id : Nat \ {0}, method : Methods, arg : Int]
Values == Int \union {"gone", "rejected", "unattached", "uninitialized", "internal"}
Answers == [id : Nat \ {0}, ok : BOOLEAN, value : Values]
Seats == [principal : Nat, attached : BOOLEAN]
Links == [stage : {"off", "starting", "ready"}, nextId : Nat \ {0}, waiting : Nat, method : Methods \union {"none"}, sent : Int]
Sessions == [owner : Nat, current : Nat, recovery : Int]
SessionTyped ==
    /\ credentialFile \in [Clients -> Int] /\ authorityFile \in [Clients -> Int]
    /\ link \in [Clients -> Links]
    /\ requests \in [Clients -> Seq(Requests)] /\ answers \in [Clients -> Seq(Answers)]
    /\ seat \in [Clients -> Seats]
    /\ orphans \subseteq [seat : Seats, request : {r \in Requests : r.method = "attach"}]
    /\ issued \in Nat /\ session \in Sessions /\ overtaken \in BOOLEAN

\* The lines of a connection: they have the numbers of their calls, in order, and the one
\* the client waits for is the last it sent.
LinesInOrder(c) ==
    /\ \A i, j \in DOMAIN requests[c] : i < j => requests[c][i].id < requests[c][j].id
    /\ link[c].stage # "off" =>
         /\ \A i \in DOMAIN requests[c] : requests[c][i].id < link[c].nextId
         /\ \A i \in DOMAIN answers[c] : answers[c][i].id < link[c].nextId
    /\ link[c].stage = "off" => link[c] = Off
    /\ link[c].waiting # 0 => link[c].waiting = link[c].nextId - 1
    /\ link[c].stage = "starting" => link[c].waiting # 0 /\ link[c].method = "initialize" /\ link[c].sent = credentialFile[c]
    /\ \A i \in DOMAIN answers[c] : answers[c][i].ok => answers[c][i].value \in Nat
\* The answer the client waits for, once it is there.
AnswersCall(c, i) == link[c].waiting # 0 /\ answers[c][i].id = link[c].waiting
CallIsLast(c) ==
    /\ \A i \in DOMAIN requests[c] :
          link[c].waiting # 0 /\ requests[c][i].id = link[c].waiting =>
            requests[c][i].method = link[c].method /\ requests[c][i].arg = link[c].sent
    /\ \A i \in DOMAIN answers[c] : AnswersCall(c, i) => requests[c] = <<>>
LinesSound(c) == LinesInOrder(c) /\ CallIsLast(c)

\* Where a client has a principal: in its file, at its seat, and on the way between them.
Has(c, p) ==
    \/ credentialFile[c] = p
    \/ seat[c].principal = p
    \/ \E i \in DOMAIN requests[c] : requests[c][i].method = "initialize" /\ requests[c][i].arg = p
    \/ link[c].stage = "starting" /\ \E i \in DOMAIN answers[c] : AnswersCall(c, i) /\ answers[c][i].ok /\ answers[c][i].value = p
\* A principal was issued, and to one client.
PrincipalsApart ==
    \A p \in Nat \ {0} :
        /\ \A c \in Clients : Has(c, p) => p <= issued
        /\ \A c, d \in Clients : Has(c, p) /\ Has(d, p) => c = d

\* The session is opened once.
Opening(c, i) == i \in DOMAIN requests[c] /\ requests[c][i].method = "open"
OpenedOnce ==
    /\ \A c \in Clients : \A i \in DOMAIN requests[c] : requests[c][i].method = "open" => session.owner = 0
    /\ \A c, d \in Clients : \A i \in DOMAIN requests[c] : \A j \in DOMAIN requests[d] :
          requests[c][i].method = "open" /\ requests[d][j].method = "open" => c = d /\ i = j
    /\ \A c \in Clients : seat[c].attached => session.owner # 0 /\ seat[c].principal = session.owner

\* While no request of a former connection has rotated the authority: a client presents
\* what is in its file, and an answer it waits for has the current authority.
Authorities(c) ==
    /\ authorityFile[c] <= session.current
    /\ session.owner = 0 => authorityFile[c] < 0
    /\ \A i \in DOMAIN requests[c] : requests[c][i].method = "attach" => authorityFile[c] < 0 \/ requests[c][i].arg = authorityFile[c]
    /\ \A i \in DOMAIN answers[c] :
          AnswersCall(c, i) /\ answers[c][i].ok /\ link[c].method \in {"open", "attach"} =>
            /\ session.owner # 0 /\ seat[c].principal = session.owner
            /\ answers[c][i].value = session.current
    /\ session.owner # 0 /\ credentialFile[c] = session.owner /\ authorityFile[c] >= 0 /\ session.current <= authorityFile[c] + 1
         => authorityFile[c] \in {session.current, session.recovery}
AuthoritiesKept ==
    /\ session.recovery < session.current
    /\ ~overtaken => \A c \in Clients : Authorities(c)
CredentialInvariant ==
    /\ SessionTyped
    /\ \A c \in Clients : LinesSound(c)
    /\ PrincipalsApart /\ OpenedOnce /\ AuthoritiesKept

\* No client has a credential and no session is open.
LEMMA CredentialInitially == CredentialInit => CredentialInvariant
  <1> SUFFICES ASSUME CredentialInit
               PROVE  CredentialInvariant
    OBVIOUS
  <1>1. SessionTyped
    <2>1. None \in Int /\ Off \in Links /\ NoSeat \in Seats /\ <<>> \in Seq(Requests) /\ <<>> \in Seq(Answers)
      BY DEF None, Off, NoSeat, Links, Seats, Methods
    <2>2. session \in Sessions /\ issued \in Nat /\ overtaken \in BOOLEAN /\ orphans = {}
      <3>1. session = [owner |-> 0, current |-> 0, recovery |-> -1]
        BY DEF CredentialInit, None
      <3>2. session \in Sessions
        BY <3>1 DEF Sessions
      <3> QED
        BY <3>2 DEF CredentialInit
    <2>3. credentialFile \in [Clients -> Int] /\ authorityFile \in [Clients -> Int] /\ link \in [Clients -> Links]
      BY <2>1 DEF CredentialInit
    <2>4. requests \in [Clients -> Seq(Requests)] /\ answers \in [Clients -> Seq(Answers)] /\ seat \in [Clients -> Seats]
      BY <2>1 DEF CredentialInit
    <2> QED
      BY <2>2, <2>3, <2>4 DEF SessionTyped
  <1>2. ASSUME NEW c \in Clients
        PROVE  /\ requests[c] = <<>> /\ answers[c] = <<>> /\ link[c] = Off /\ ~seat[c].attached /\ seat[c].principal = 0
               /\ credentialFile[c] = -1 /\ authorityFile[c] = -1
    BY DEF CredentialInit, NoSeat, None
  <1>3. Off.stage = "off" /\ Off.waiting = 0
    BY DEF Off
  <1>4. ASSUME NEW c \in Clients
        PROVE  LinesSound(c)
    <2>1. DOMAIN requests[c] = {} /\ DOMAIN answers[c] = {}
      BY <1>2
    <2>2. LinesInOrder(c)
      BY <1>2, <1>3, <2>1 DEF LinesInOrder
    <2> QED
      BY <1>3, <2>1, <2>2 DEF LinesSound, CallIsLast
  <1>5. PrincipalsApart
    BY <1>2, <1>3 DEF PrincipalsApart, Has
  <1>6. OpenedOnce
    BY <1>2 DEF OpenedOnce
  <1>7. AuthoritiesKept
    BY <1>2, <1>3 DEF AuthoritiesKept, Authorities, CredentialInit, None
  <1> QED
    BY <1>1, <1>4, <1>5, <1>6, <1>7 DEF CredentialInvariant

\* The invariant is what the run checks, and more.
LEMMA CredentialInvariantIsSound == CredentialInvariant => CredentialsSound
  BY DEF CredentialInvariant, CredentialsSound, StoredIsAccepted, AttachedIsOwned, AuthoritiesKept, Authorities, OpenedOnce

(***************************************************************************)
(* What serving a request does.                                            *)
(***************************************************************************)
Refuses(at, s) == s.seat = at /\ s.session = session /\ s.issued = issued /\ ~s.ok /\ s.value \in Values
Introduces(r, s) ==
    /\ r.method = "initialize" /\ s.ok /\ s.value = s.seat.principal /\ s.seat.principal = Principal(r.arg)
    /\ ~s.seat.attached /\ s.session = session
    /\ s.issued = IF s.seat.principal > issued THEN s.seat.principal ELSE issued
Opens(at, r, s) ==
    /\ r.method = "open" /\ at.principal # 0 /\ s.issued = issued
    /\ s.session = [owner |-> at.principal, current |-> 0, recovery |-> -1]
    /\ s.seat.principal = at.principal
    /\ \/ s.seat.attached /\ s.ok /\ s.value = 0
       \/ s.seat = at /\ ~s.ok /\ s.value = "internal"
Rotates(at, r, s) ==
    /\ r.method = "attach" /\ at.principal # 0 /\ session.owner = at.principal /\ s.issued = issued
    /\ r.arg \in {session.current, session.recovery} /\ r.arg # -1
    /\ s.session.owner = session.owner /\ s.session.current = session.current + 1
    /\ s.session.recovery = (IF r.arg = session.current THEN session.current ELSE -1)
    /\ s.seat.principal = at.principal
    /\ \/ s.seat.attached /\ s.ok /\ s.value = session.current + 1
       \/ s.seat = at /\ ~s.ok /\ s.value = "internal"
Replies(at, r, s) ==
    /\ r.method = "query" /\ s.seat = at /\ s.session = session /\ s.issued = issued /\ s.ok /\ s.value = 0
Outcome(at, r, s) == Refuses(at, s) \/ Introduces(r, s) \/ Opens(at, r, s) \/ Rotates(at, r, s) \/ Replies(at, r, s)
Outcomes == [seat : Seats, session : Sessions, issued : Nat, ok : BOOLEAN, value : Values]

\* A request is refused, introduces its client, opens, rotates or replies.
LEMMA RequestIsServed ==
  ASSUME SessionTyped, NEW at \in Seats, NEW r \in Requests, NEW s \in HandleRequest(at, r)
  PROVE  s \in Outcomes /\ Outcome(at, r, s)
  <1>1. session \in Sessions /\ issued \in Nat /\ r.method \in Methods /\ r.arg \in Int
    BY DEF SessionTyped, Requests
  <1>2. \A why \in {"gone", "rejected", "unattached", "uninitialized"} :
           Refused(at, why) \in Outcomes /\ Refuses(at, Refused(at, why))
    BY <1>1 DEF Refused, Served, Outcomes, Refuses, Values
  <1>3. CASE r.method = "initialize"
    <2>1. s = Initialize(at, r.arg)
      BY <1>3 DEF HandleRequest
    <2>2. Principal(r.arg) \in Nat
      BY <1>1 DEF Principal
    <2>3. s \in Outcomes /\ Introduces(r, s)
      BY <1>1, <1>3, <2>1, <2>2 DEF Initialize, Served, Outcomes, Introduces, Seats, Values
    <2> QED
      BY <2>3 DEF Outcome
  <1>4. CASE r.method = "open"
    <2>1. s = Refused(at, "uninitialized") \/ (at.principal # 0 /\ s \in {OpenSession(at), CursorFails(at, OpenSession(at))})
      BY <1>4 DEF HandleRequest, RequirePrincipal
    <2> DEFINE opened == [owner |-> at.principal, current |-> 0, recovery |-> -1]
               taken == [at EXCEPT !.attached = TRUE]
               o == OpenSession(at)
    <2>2. ASSUME at.principal # 0
          PROVE  o \in Outcomes /\ Opens(at, r, o)
      <3>1. o = [seat |-> taken, session |-> opened, issued |-> issued, ok |-> TRUE, value |-> 0]
        BY DEF OpenSession, Served, None
      <3>2. opened \in Sessions
        BY DEF Sessions, Seats
      <3>3. taken \in Seats /\ taken.principal = at.principal /\ taken.attached
        BY DEF Seats
      <3>4. 0 \in Values
        BY DEF Values
      <3> HIDE DEF opened, taken, o
      <3>5. o \in Outcomes
        BY <1>1, <3>1, <3>2, <3>3, <3>4 DEF Outcomes
      <3>6. o.seat = taken /\ o.session = opened /\ o.issued = issued /\ o.ok /\ o.value = 0
        BY <3>1
      <3>7. Opens(at, r, o)
        BY <1>4, <2>2, <3>3, <3>6 DEF Opens, opened
      <3> QED
        BY <3>5, <3>7
    <2>3. ASSUME at.principal # 0
          PROVE  CursorFails(at, o) \in Outcomes /\ Opens(at, r, CursorFails(at, o))
      <3> HIDE DEF o
      <3>1. o \in Outcomes /\ Opens(at, r, o)
        BY <2>2, <2>3
      <3> QED
        BY <1>4, <2>3, <3>1 DEF CursorFails, Outcomes, Opens, Values
    <2> HIDE DEF o
    <2> QED
      BY <1>2, <2>1, <2>2, <2>3 DEF Outcome, o
  <1>5. CASE r.method = "attach"
    <2> DEFINE a == AttachSession(at, r.arg)
    <2>1. s = Refused(at, "uninitialized") \/ (at.principal # 0 /\ (s = a \/ (a.ok /\ s = CursorFails(at, a))))
      BY <1>5 DEF HandleRequest, RequirePrincipal
    <2>2. ASSUME at.principal # 0
          PROVE  a \in Outcomes /\ (Refuses(at, a) \/ (Rotates(at, r, a) /\ a.ok))
      <3>1. CASE session.owner = 0 \/ session.owner # at.principal \/ r.arg \notin {session.current, session.recovery} \ {None}
        BY <1>2, <3>1 DEF AttachSession
      <3>2. CASE ~(session.owner = 0 \/ session.owner # at.principal \/ r.arg \notin {session.current, session.recovery} \ {None})
        <4> DEFINE rotated == RotateAuthority(r.arg)
        <4>1. a = Served([at EXCEPT !.attached = TRUE], rotated, issued, TRUE, rotated.current)
          BY <3>2 DEF AttachSession
        <4>2. /\ rotated \in Sessions /\ rotated.owner = session.owner /\ rotated.current = session.current + 1
              /\ rotated.recovery = (IF r.arg = session.current THEN session.current ELSE -1)
          <5>1. rotated.owner = session.owner
            BY <1>1 DEF RotateAuthority, Sessions
          <5>2. rotated.current = session.current + 1
            BY <1>1 DEF RotateAuthority, Sessions
          <5>3. rotated.recovery = (IF r.arg = session.current THEN session.current ELSE -1)
            BY <1>1 DEF RotateAuthority, Sessions, None
          <5>4. (IF r.arg = session.current THEN session.current ELSE -1) \in Int /\ session.current + 1 \in Nat
            BY <1>1 DEF Sessions
          <5>5. rotated \in Sessions
            BY <1>1, <5>4 DEF RotateAuthority, Sessions, None
          <5> QED
            BY <5>1, <5>2, <5>3, <5>5
        <4>3. rotated.current \in Values /\ session.current \in Nat
          BY <1>1, <4>2 DEF Values, Sessions
        <4> HIDE DEF rotated
        <4>6. [at EXCEPT !.attached = TRUE] \in Seats
          BY DEF Seats
        <4>4. a \in Outcomes /\ a.ok
          BY <1>1, <4>1, <4>2, <4>3, <4>6 DEF Served, Outcomes
        <4>5. Rotates(at, r, a)
          BY <1>1, <1>5, <2>2, <3>2, <4>1, <4>2, <4>3 DEF Served, Rotates, Seats, None
        <4> QED
          BY <4>4, <4>5
      <3> QED
        BY <3>1, <3>2
    <2> HIDE DEF a
    <2>3. ASSUME at.principal # 0, a.ok
          PROVE  CursorFails(at, a) \in Outcomes /\ Rotates(at, r, CursorFails(at, a))
      <3>1. a \in Outcomes /\ Rotates(at, r, a)
        BY <2>2, <2>3 DEF Refuses
      <3> QED
        BY <3>1 DEF CursorFails, Outcomes, Rotates, Values
    <2> QED
      BY <1>2, <2>1, <2>2, <2>3 DEF Outcome
  <1>6. CASE r.method = "query"
    <2>1. s = Refused(at, "uninitialized") \/ s = Refused(at, "unattached") \/ s = Served(at, session, issued, TRUE, 0)
      BY <1>6 DEF HandleRequest, RequirePrincipal, RequireAttached
    <2>2. Served(at, session, issued, TRUE, 0) \in Outcomes /\ Replies(at, r, Served(at, session, issued, TRUE, 0))
      BY <1>1, <1>6 DEF Served, Outcomes, Replies, Values
    <2> QED
      BY <1>2, <2>1, <2>2 DEF Outcome
  <1> QED
    BY <1>1, <1>3, <1>4, <1>5, <1>6 DEF Methods

(***************************************************************************)
(* A step of one client leaves the others as they are.                     *)
(***************************************************************************)
Aside(c) ==
    \A d \in Clients \ {c} :
        /\ credentialFile'[d] = credentialFile[d] /\ authorityFile'[d] = authorityFile[d] /\ link'[d] = link[d]
        /\ requests'[d] = requests[d] /\ answers'[d] = answers[d] /\ seat'[d] = seat[d]
Daemon == <<issued, session, overtaken>>

\* What holds of a client that no step touched.
LEMMA OthersKept ==
  ASSUME NEW c \in Clients, Aside(c), NEW d \in Clients, d # c
  PROVE  /\ LinesSound(d) => LinesSound(d)'
         /\ \A p \in Nat \ {0} : Has(d, p)' => Has(d, p)
         /\ session' = session => (Authorities(d) => Authorities(d)')
  <1>1. /\ credentialFile'[d] = credentialFile[d] /\ authorityFile'[d] = authorityFile[d] /\ link'[d] = link[d]
        /\ requests'[d] = requests[d] /\ answers'[d] = answers[d] /\ seat'[d] = seat[d]
    BY DEF Aside
  <1>2. \A i : AnswersCall(d, i)' <=> AnswersCall(d, i)
    BY <1>1 DEF AnswersCall
  <1>3. LinesInOrder(d) => LinesInOrder(d)'
    BY <1>1 DEF LinesInOrder
  <1>4. CallIsLast(d) => CallIsLast(d)'
    BY <1>1, <1>2 DEF CallIsLast
  <1>5. \A p \in Nat \ {0} : Has(d, p)' => Has(d, p)
    BY <1>1, <1>2 DEF Has
  <1>6. session' = session => (Authorities(d) => Authorities(d)')
    BY <1>1, <1>2 DEF Authorities
  <1> QED
    BY <1>3, <1>4, <1>5, <1>6 DEF LinesSound

\* What a principal is known by moves within a client, or is new.
LEMMA PrincipalsStayApart ==
  ASSUME PrincipalsApart, NEW c \in Clients, Aside(c), issued \in Nat, issued' \in Nat, issued <= issued',
         \A p \in Nat \ {0} : Has(c, p)' => Has(c, p) \/ (issued < p /\ p <= issued')
  PROVE  PrincipalsApart'
  <1> SUFFICES ASSUME NEW p \in Nat \ {0}
               PROVE  /\ \A d \in Clients : Has(d, p)' => p <= issued'
                      /\ \A d, e \in Clients : Has(d, p)' /\ Has(e, p)' => d = e
    BY DEF PrincipalsApart
  <1>1. /\ \A d \in Clients : Has(d, p) => p <= issued
        /\ \A d, e \in Clients : Has(d, p) /\ Has(e, p) => d = e
    BY DEF PrincipalsApart
  <1>2. \A d \in Clients : d # c /\ Has(d, p)' => Has(d, p)
    BY OthersKept
  <1>3. Has(c, p)' => Has(c, p) \/ (issued < p /\ p <= issued')
    OBVIOUS
  <1> QED
    BY <1>1, <1>2, <1>3

\* A step of a client that opens nothing and leaves the daemon as it is.
Quiet(c) ==
    /\ UNCHANGED Daemon /\ Aside(c)
    /\ \A i \in DOMAIN requests'[c] : requests'[c][i].method = "open" => i \in DOMAIN requests[c] /\ requests[c][i].method = "open"
    /\ seat'[c].attached => seat'[c] = seat[c]

\* A step that sends no open keeps the session opened once.
LEMMA OpensStayOnce ==
  ASSUME OpenedOnce, NEW c \in Clients, Quiet(c)
  PROVE  OpenedOnce'
  <1>1. \A d \in Clients : \A i \in DOMAIN requests'[d] :
           requests'[d][i].method = "open" => i \in DOMAIN requests[d] /\ requests[d][i].method = "open"
    BY DEF Quiet, Aside
  <1>2. \A d \in Clients : seat'[d].attached => seat'[d] = seat[d]
    BY DEF Quiet, Aside
  <1>3. session' = session
    BY DEF Quiet, Daemon
  <1> QED
    BY <1>1, <1>2, <1>3 DEF OpenedOnce

\* A step of one client that leaves the daemon as it is.
LEMMA ClientKeeps ==
  ASSUME CredentialInvariant, SessionTyped', NEW c \in Clients, UNCHANGED Daemon, Aside(c), OpenedOnce',
         LinesSound(c)', \A p \in Nat \ {0} : Has(c, p)' => Has(c, p),
         ~overtaken /\ Authorities(c) => Authorities(c)'
  PROVE  CredentialInvariant'
  <1>1. /\ SessionTyped /\ (\A d \in Clients : LinesSound(d)) /\ PrincipalsApart /\ AuthoritiesKept
        /\ issued' = issued /\ session' = session /\ overtaken' = overtaken
    BY DEF CredentialInvariant, Daemon
  <1>2. issued \in Nat
    BY <1>1 DEF SessionTyped
  <1>3. ASSUME NEW d \in Clients
        PROVE  LinesSound(d)' /\ (~overtaken /\ Authorities(d) => Authorities(d)')
    BY <1>1, OthersKept
  <1>4. PrincipalsApart'
    BY <1>1, <1>2, PrincipalsStayApart
  <1>5. AuthoritiesKept'
    BY <1>1, <1>3 DEF AuthoritiesKept
  <1> QED
    BY <1>3, <1>4, <1>5 DEF CredentialInvariant

(***************************************************************************)
(* The calls of a client.                                                  *)
(***************************************************************************)
LEMMA CallIsSent ==
  ASSUME CredentialInvariant, NEW c \in Clients, NEW m \in Methods, NEW arg \in Int, link[c].stage = "ready", Call(c, m, arg)
  PROVE  /\ link' \in [Clients -> Links] /\ requests' \in [Clients -> Seq(Requests)]
         /\ link'[c] \in Links /\ link'[c].stage = "ready" /\ link'[c].nextId = link[c].nextId + 1
         /\ link'[c].waiting = link[c].nextId /\ link'[c].method = m /\ link'[c].sent = arg
         /\ requests'[c] = Append(requests[c], [id |-> link[c].nextId, method |-> m, arg |-> arg])
         /\ \A d \in Clients \ {c} : link'[d] = link[d] /\ requests'[d] = requests[d]
  <1>1. link \in [Clients -> Links] /\ requests \in [Clients -> Seq(Requests)]
    BY DEF CredentialInvariant, SessionTyped
  <1> DEFINE l == [link[c] EXCEPT !.nextId = @ + 1, !.waiting = link[c].nextId, !.method = m, !.sent = arg]
             r == [id |-> link[c].nextId, method |-> m, arg |-> arg]
  <1>2. link[c] \in Links
    BY <1>1
  <1>3. l \in Links /\ l.stage = "ready" /\ l.nextId = link[c].nextId + 1 /\ l.waiting = link[c].nextId /\ l.method = m /\ l.sent = arg
    <2>1. link[c].nextId + 1 \in Nat \ {0} /\ link[c].nextId \in Nat /\ link[c].stage \in {"off", "starting", "ready"}
      BY <1>2 DEF Links
    <2>2. l \in Links
      BY <1>2, <2>1 DEF Links
    <2>3. l.stage = link[c].stage /\ l.nextId = link[c].nextId + 1 /\ l.waiting = link[c].nextId /\ l.method = m /\ l.sent = arg
      BY <1>2 DEF Links
    <2> QED
      BY <2>2, <2>3
  <1>4. r \in Requests
    BY <1>2 DEF Links, Requests
  <1>5. link' = [link EXCEPT ![c] = l] /\ requests' = [requests EXCEPT ![c] = Append(requests[c], r)]
    BY DEF Call
  <1>6. Append(requests[c], r) \in Seq(Requests)
    BY <1>1, <1>4
  <1> HIDE DEF l, r
  <1>7. link' \in [Clients -> Links] /\ requests' \in [Clients -> Seq(Requests)]
    BY <1>1, <1>3, <1>5, <1>6
  <1>8. link'[c] = l /\ requests'[c] = Append(requests[c], r) /\ \A d \in Clients \ {c} : link'[d] = link[d] /\ requests'[d] = requests[d]
    BY <1>1, <1>5
  <1> QED
    BY <1>3, <1>7, <1>8 DEF r

\* A call has the number after the last one's, so nothing that is there answers it.
LEMMA CallKeepsLines ==
  ASSUME CredentialInvariant, NEW c \in Clients, NEW m \in Methods, NEW arg \in Int, link[c].stage = "ready", Call(c, m, arg),
         answers'[c] = answers[c], seat'[c] = seat[c], credentialFile'[c] = credentialFile[c]
  PROVE  /\ LinesSound(c)'
         /\ (m = "initialize" => arg = -1) => \A p \in Nat \ {0} : Has(c, p)' => Has(c, p)
  <1> DEFINE r == [id |-> link[c].nextId, method |-> m, arg |-> arg]
             n == Len(requests[c])
  <1>1. LinesInOrder(c) /\ CallIsLast(c) /\ requests[c] \in Seq(Requests) /\ answers[c] \in Seq(Answers) /\ link[c] \in Links
    BY DEF CredentialInvariant, SessionTyped, LinesSound
  <1>2. /\ requests'[c] = Append(requests[c], r) /\ answers'[c] = answers[c]
        /\ link'[c].stage = "ready" /\ link'[c].nextId = link[c].nextId + 1
        /\ link'[c].waiting = link[c].nextId /\ link'[c].method = m /\ link'[c].sent = arg
    BY CallIsSent
  <1>3. n \in Nat /\ DOMAIN requests[c] = 1..n /\ link[c].nextId \in Nat \ {0}
    BY <1>1 DEF Links
  <1>4. /\ DOMAIN requests'[c] = 1..(n + 1)
        /\ \A i \in 1..n : requests'[c][i] = requests[c][i]
        /\ requests'[c][n + 1] = r
    BY <1>1, <1>2
  <1>5. r.id = link[c].nextId /\ r.method = m /\ r.arg = arg
    OBVIOUS
  <1> HIDE DEF r, n
  <1>6. /\ \A i \in 1..n : requests[c][i].id < link[c].nextId
        /\ \A i \in DOMAIN answers[c] : answers[c][i].id < link[c].nextId
        /\ \A i, j \in 1..n : i < j => requests[c][i].id < requests[c][j].id
        /\ \A i \in DOMAIN answers[c] : answers[c][i].ok => answers[c][i].value \in Nat
    BY <1>1, <1>3 DEF LinesInOrder
  <1>7. \A i \in 1..n : requests[c][i].id \in Nat
    <2>1. \A i \in 1..n : requests[c][i] \in Requests
      BY <1>1, <1>3
    <2> QED
      BY <2>1 DEF Requests
  <1>8. \A i \in DOMAIN answers[c] : answers[c][i].id \in Nat
    <2>1. \A i \in DOMAIN answers[c] : answers[c][i] \in Answers
      BY <1>1
    <2> QED
      BY <2>1 DEF Answers
  <1>9. \A i \in DOMAIN answers'[c] : ~AnswersCall(c, i)'
    BY <1>2, <1>3, <1>6, <1>8 DEF AnswersCall
  <1>10. LinesInOrder(c)'
    <2>1. \A i, j \in DOMAIN requests'[c] : i < j => requests'[c][i].id < requests'[c][j].id
      <3> SUFFICES ASSUME NEW i \in 1..(n + 1), NEW j \in 1..(n + 1), i < j
                   PROVE  requests'[c][i].id < requests'[c][j].id
        BY <1>4
      <3>1. i \in 1..n /\ requests'[c][i] = requests[c][i]
        BY <1>3, <1>4
      <3>2. CASE j \in 1..n
        BY <1>4, <1>6, <3>1, <3>2
      <3>3. CASE j = n + 1
        BY <1>4, <1>5, <1>6, <3>1, <3>3
      <3> QED
        BY <1>3, <3>2, <3>3
    <2>2. \A i \in DOMAIN requests'[c] : requests'[c][i].id < link'[c].nextId
      BY <1>2, <1>3, <1>4, <1>5, <1>6, <1>7
    <2>3. \A i \in DOMAIN answers'[c] : answers'[c][i].id < link'[c].nextId
      BY <1>2, <1>3, <1>6, <1>8
    <2>4. link'[c].waiting = link'[c].nextId - 1
      BY <1>2, <1>3
    <2> QED
      BY <1>2, <1>6, <2>1, <2>2, <2>3, <2>4 DEF LinesInOrder
  <1>11. CallIsLast(c)'
    <2>1. ASSUME NEW i \in 1..(n + 1), requests'[c][i].id = link'[c].waiting
          PROVE  requests'[c][i].method = link'[c].method /\ requests'[c][i].arg = link'[c].sent
      <3>1. i = n + 1
        BY <1>2, <1>3, <1>4, <1>6, <1>7, <2>1
      <3> QED
        BY <1>2, <1>4, <1>5, <3>1
    <2> QED
      BY <1>4, <1>9, <2>1 DEF CallIsLast
  <1>12. ASSUME m = "initialize" => arg = -1, NEW p \in Nat \ {0}, Has(c, p)'
         PROVE  Has(c, p)
    <2>1. CASE credentialFile'[c] = p \/ seat'[c].principal = p
      BY <2>1 DEF Has
    <2>2. CASE \E i \in DOMAIN requests'[c] : requests'[c][i].method = "initialize" /\ requests'[c][i].arg = p
      <3>1. PICK i \in 1..(n + 1) : requests'[c][i].method = "initialize" /\ requests'[c][i].arg = p
        BY <1>4, <2>2
      <3>2. i # n + 1
        BY <1>4, <1>5, <1>12, <3>1
      <3>3. i \in DOMAIN requests[c] /\ requests[c][i].method = "initialize" /\ requests[c][i].arg = p
        BY <1>3, <1>4, <3>1, <3>2
      <3> QED
        BY <3>3 DEF Has
    <2>3. link'[c].stage # "starting"
      BY <1>2
    <2> QED
      BY <1>12, <2>1, <2>2, <2>3 DEF Has
  <1> QED
    BY <1>10, <1>11, <1>12 DEF LinesSound

\* A call: it waits for an answer that is not there yet, and presents what is in the file.
LEMMA CallKeeps ==
  ASSUME CredentialInvariant, NEW c \in Clients, NEW m \in Methods, NEW arg \in Int, link[c].stage = "ready", Call(c, m, arg),
         UNCHANGED <<credentialFile, answers, seat, orphans, issued, session, overtaken>>,
         authorityFile' \in [Clients -> Int], \A d \in Clients \ {c} : authorityFile'[d] = authorityFile[d],
         authorityFile'[c] = authorityFile[c] \/ (authorityFile[c] < 0 /\ authorityFile'[c] < 0),
         m = "initialize" => arg = -1, m = "attach" => arg = authorityFile[c],
         m = "open" => session.owner = 0 /\ \A d \in Clients : \A i \in DOMAIN requests[d] : requests[d][i].method # "open"
  PROVE  CredentialInvariant'
  <1> DEFINE r == [id |-> link[c].nextId, method |-> m, arg |-> arg]
             n == Len(requests[c])
  <1>1. /\ SessionTyped /\ OpenedOnce /\ requests[c] \in Seq(Requests) /\ answers[c] \in Seq(Answers) /\ link[c] \in Links
        /\ LinesInOrder(c)
    BY DEF CredentialInvariant, SessionTyped, LinesSound
  <1>2. /\ requests' \in [Clients -> Seq(Requests)] /\ link' \in [Clients -> Links]
        /\ requests'[c] = Append(requests[c], r)
        /\ link'[c].waiting = link[c].nextId /\ link'[c].stage = "ready"
        /\ \A d \in Clients \ {c} : link'[d] = link[d] /\ requests'[d] = requests[d]
    BY CallIsSent
  <1>3. n \in Nat /\ DOMAIN requests[c] = 1..n /\ link[c].nextId \in Nat \ {0}
    BY <1>1 DEF Links
  <1>4. /\ DOMAIN requests'[c] = 1..(n + 1)
        /\ \A i \in 1..n : requests'[c][i] = requests[c][i]
        /\ requests'[c][n + 1] = r
    BY <1>1, <1>2
  <1>5. r.method = m /\ r.arg = arg
    OBVIOUS
  <1> HIDE DEF r, n
  <1>6. SessionTyped'
    BY <1>1, <1>2 DEF SessionTyped
  <1>7. Aside(c) /\ UNCHANGED Daemon
    BY <1>2 DEF Aside, Daemon
  <1>8. LinesSound(c)' /\ \A p \in Nat \ {0} : Has(c, p)' => Has(c, p)
    BY CallKeepsLines
  <1>9. OpenedOnce'
    <2>1. CASE m # "open"
      <3>1. \A i \in DOMAIN requests'[c] : requests'[c][i].method = "open" => i \in DOMAIN requests[c] /\ requests[c][i].method = "open"
        BY <1>3, <1>4, <1>5, <2>1
      <3>2. Quiet(c)
        BY <1>7, <3>1 DEF Quiet
      <3> QED
        BY <1>1, <3>2, OpensStayOnce
    <2>2. CASE m = "open"
      <3>1. session.owner = 0 /\ \A d \in Clients : \A i \in DOMAIN requests[d] : requests[d][i].method # "open"
        BY <2>2
      <3>2. ASSUME NEW d \in Clients, NEW i \in DOMAIN requests'[d], requests'[d][i].method = "open"
            PROVE  d = c /\ i = n + 1
        <4>1. d = c
          BY <1>2, <3>1, <3>2
        <4>2. i \in 1..(n + 1) /\ requests'[c][i].method = "open"
          BY <1>4, <3>2, <4>1
        <4>3. i \notin 1..n
          BY <1>3, <1>4, <3>1, <4>2
        <4> QED
          BY <1>3, <4>1, <4>2, <4>3
      <3> QED
        BY <1>1, <3>1, <3>2 DEF OpenedOnce
    <2> QED
      BY <2>1, <2>2
  <1>10. ASSUME ~overtaken, Authorities(c)
         PROVE  Authorities(c)'
    <2>1. session' = session /\ credentialFile'[c] = credentialFile[c] /\ seat'[c] = seat[c] /\ answers'[c] = answers[c]
      OBVIOUS
    <2>2. \A i \in DOMAIN answers'[c] : ~AnswersCall(c, i)'
      <3>1. \A i \in DOMAIN answers[c] : answers[c][i] \in Answers /\ answers[c][i].id < link[c].nextId
        BY <1>1, <1>2, CallIsSent DEF LinesInOrder
      <3>2. \A i \in DOMAIN answers[c] : answers[c][i].id \in Nat
        BY <3>1 DEF Answers
      <3> QED
        BY <1>2, <1>3, <2>1, <3>1, <3>2 DEF AnswersCall
    <2>3. session.current \in Nat /\ authorityFile[c] \in Int /\ authorityFile'[c] \in Int
      BY <1>1 DEF SessionTyped, Sessions
    <2>4. authorityFile'[c] <= session.current /\ (session.owner = 0 => authorityFile'[c] < 0)
      BY <1>10, <2>3 DEF Authorities
    <2>5. ASSUME NEW i \in DOMAIN requests'[c], requests'[c][i].method = "attach"
          PROVE  authorityFile'[c] < 0 \/ requests'[c][i].arg = authorityFile'[c]
      <3>1. CASE i = n + 1
        BY <1>4, <1>5, <2>5, <3>1
      <3>2. CASE i \in 1..n
        BY <1>3, <1>4, <1>10, <2>5, <3>2 DEF Authorities
      <3> QED
        BY <1>3, <1>4, <3>1, <3>2
    <2>6. session.owner # 0 /\ credentialFile[c] = session.owner /\ authorityFile'[c] >= 0 /\ session.current <= authorityFile'[c] + 1
            => authorityFile'[c] \in {session.current, session.recovery}
      BY <1>10, <2>3 DEF Authorities
    <2> QED
      BY <2>1, <2>2, <2>4, <2>5, <2>6 DEF Authorities
  <1> QED
    BY <1>6, <1>7, <1>8, <1>9, <1>10, ClientKeeps

\* The calls of a connected client.
LEMMA CallsKeep ==
  ASSUME CredentialInvariant, NEW c \in Clients, Reinitialize(c) \/ OpenCall(c) \/ AttachCall(c) \/ QueryCall(c)
  PROVE  CredentialInvariant'
  <1>1. SessionTyped /\ (\A d \in Clients : LinesSound(d)) /\ -1 \in Int
    BY DEF CredentialInvariant
  <1>2. authorityFile \in [Clients -> Int]
    BY <1>1 DEF SessionTyped
  <1>3. CASE Reinitialize(c)
    <2>1. link[c].stage = "ready" /\ Call(c, "initialize", -1) /\ "initialize" \in Methods
      BY <1>3 DEF Reinitialize, None, Methods
    <2>2. UNCHANGED <<credentialFile, authorityFile, answers, seat, orphans, issued, session, overtaken>>
      BY <1>3 DEF Reinitialize
    <2> QED
      BY <1>1, <1>2, <2>1, <2>2, CallKeeps
  <1>4. CASE OpenCall(c)
    <2>1. link[c].stage = "ready" /\ Call(c, "open", -1) /\ "open" \in Methods
      BY <1>4 DEF OpenCall, None, Methods
    <2>2. UNCHANGED <<credentialFile, authorityFile, answers, seat, orphans, issued, session, overtaken>>
      BY <1>4 DEF OpenCall
    <2>3. session.owner = 0 /\ \A d \in Clients : \A i \in DOMAIN requests[d] : requests[d][i].method # "open"
      BY <1>4 DEF OpenCall
    <2> QED
      BY <1>1, <1>2, <2>1, <2>2, <2>3, CallKeeps
  <1>5. CASE QueryCall(c)
    <2>1. link[c].stage = "ready" /\ Call(c, "query", -1) /\ "query" \in Methods
      BY <1>5 DEF QueryCall, None, Methods
    <2>2. UNCHANGED <<credentialFile, authorityFile, answers, seat, orphans, issued, session, overtaken>>
      BY <1>5 DEF QueryCall
    <2> QED
      BY <1>1, <1>2, <2>1, <2>2, CallKeeps
  <1>6. CASE AttachCall(c)
    <2>1. /\ link[c].stage = "ready" /\ authorityFile' = [authorityFile EXCEPT ![c] = Load(authorityFile[c])]
          /\ UNCHANGED <<credentialFile, answers, seat, orphans, issued, session, overtaken>>
      BY <1>6 DEF AttachCall
    <2>2. Load(authorityFile[c]) = authorityFile[c] \/ (authorityFile[c] < 0 /\ Load(authorityFile[c]) < 0)
      BY <1>2 DEF Load, Torn, None
    <2>3. Load(authorityFile[c]) \in Int
      BY <1>2 DEF Load, None
    <2>4. /\ authorityFile' \in [Clients -> Int] /\ \A d \in Clients \ {c} : authorityFile'[d] = authorityFile[d]
          /\ authorityFile'[c] = authorityFile[c] \/ (authorityFile[c] < 0 /\ authorityFile'[c] < 0)
      BY <1>2, <2>1, <2>2, <2>3
    <2>5. CASE Load(authorityFile[c]) = None
      <3>1. link' = link /\ requests' = requests
        BY <1>6, <2>5 DEF AttachCall
      <3>2. SessionTyped'
        BY <1>1, <2>1, <2>4, <3>1 DEF SessionTyped
      <3>3. Aside(c) /\ UNCHANGED Daemon
        BY <2>1, <2>4, <3>1 DEF Aside, Daemon
      <3>4. Quiet(c)
        BY <2>1, <3>1, <3>3 DEF Quiet
      <3>5. OpenedOnce'
        BY <3>4, OpensStayOnce DEF CredentialInvariant
      <3>6. \A i : AnswersCall(c, i)' <=> AnswersCall(c, i)
        BY <2>1, <3>1 DEF AnswersCall
      <3>7. LinesSound(c)'
        BY <1>1, <2>1, <3>1, <3>6 DEF LinesSound, LinesInOrder, CallIsLast
      <3>8. \A p \in Nat \ {0} : Has(c, p)' => Has(c, p)
        BY <2>1, <3>1, <3>6 DEF Has
      <3>9. authorityFile'[c] = -1
        BY <1>2, <2>1, <2>5 DEF None
      <3>10. session.current \in Nat
        BY <1>1 DEF SessionTyped, Sessions
      <3>11. Authorities(c) => Authorities(c)'
        BY <2>1, <3>1, <3>6, <3>9, <3>10 DEF Authorities
      <3> QED
        BY <3>2, <3>3, <3>5, <3>7, <3>8, <3>11, ClientKeeps
    <2>6. CASE Load(authorityFile[c]) # None
      <3>1. Call(c, "attach", authorityFile[c]) /\ "attach" \in Methods /\ authorityFile[c] \in Int
        BY <1>2, <1>6, <2>6 DEF AttachCall, Methods
      <3> QED
        BY <2>1, <2>4, <3>1, CallKeeps
    <2> QED
      BY <2>5, <2>6
  <1> QED
    BY <1>3, <1>4, <1>5, <1>6

(***************************************************************************)
(* A connection begins and ends.                                           *)
(***************************************************************************)
LEMMA LeavingKeeps ==
  ASSUME CredentialInvariant, NEW c \in Clients, Leave(c), UNCHANGED Daemon,
         credentialFile' \in [Clients -> Int], authorityFile' \in [Clients -> Int],
         \A d \in Clients \ {c} : credentialFile'[d] = credentialFile[d] /\ authorityFile'[d] = authorityFile[d],
         credentialFile'[c] = credentialFile[c] \/ credentialFile'[c] < 0,
         authorityFile'[c] = authorityFile[c] \/ authorityFile'[c] < 0
  PROVE  CredentialInvariant'
  <1>1. SessionTyped /\ OpenedOnce
    BY DEF CredentialInvariant
  <1>2. /\ requests'[c] = <<>> /\ answers'[c] = <<>> /\ link'[c] = Off /\ seat'[c] = NoSeat
        /\ \A d \in Clients \ {c} : requests'[d] = requests[d] /\ answers'[d] = answers[d] /\ link'[d] = link[d] /\ seat'[d] = seat[d]
    BY <1>1 DEF Leave, SessionTyped
  <1>3. Off.stage = "off" /\ Off.waiting = 0 /\ Off \in Links /\ ~NoSeat.attached /\ NoSeat.principal = 0 /\ NoSeat \in Seats
    BY DEF Off, NoSeat, Links, Seats, None
  <1>4. DOMAIN requests'[c] = {} /\ DOMAIN answers'[c] = {}
    BY <1>2
  <1>5. SessionTyped'
    <2>1. /\ link' \in [Clients -> Links] /\ requests' \in [Clients -> Seq(Requests)] /\ answers' \in [Clients -> Seq(Answers)]
          /\ seat' \in [Clients -> Seats]
      BY <1>1, <1>3 DEF Leave, SessionTyped
    <2>2. ASSUME NEW i \in DOMAIN requests[c], requests[c][i].method = "attach"
          PROVE  [seat |-> seat[c], request |-> requests[c][i]] \in [seat : Seats, request : {r \in Requests : r.method = "attach"}]
      <3>1. seat[c] \in Seats /\ requests[c] \in Seq(Requests)
        BY <1>1 DEF SessionTyped
      <3>2. requests[c][i] \in Requests
        BY <3>1
      <3> QED
        BY <2>2, <3>1, <3>2
    <2>3. orphans' \subseteq [seat : Seats, request : {r \in Requests : r.method = "attach"}]
      BY <1>1, <2>2 DEF Leave, SessionTyped
    <2> QED
      BY <1>1, <2>1, <2>3 DEF SessionTyped, Daemon
  <1>6. Aside(c)
    BY <1>2 DEF Aside
  <1>7. Quiet(c)
    BY <1>2, <1>3, <1>4, <1>6 DEF Quiet
  <1>8. OpenedOnce'
    BY <1>1, <1>7, OpensStayOnce
  <1>9. LinesSound(c)'
    BY <1>2, <1>3, <1>4 DEF LinesSound, LinesInOrder, CallIsLast
  <1>10. credentialFile[c] \in Int /\ credentialFile'[c] \in Int /\ authorityFile[c] \in Int /\ authorityFile'[c] \in Int
         /\ session.current \in Nat /\ session.owner \in Nat
    BY <1>1 DEF SessionTyped, Sessions
  <1>11. ASSUME NEW p \in Nat \ {0}, Has(c, p)'
         PROVE  Has(c, p)
    <2>1. credentialFile'[c] = p
      BY <1>2, <1>3, <1>4, <1>11 DEF Has
    <2> QED
      BY <1>10, <2>1 DEF Has
  <1>12. ASSUME Authorities(c)
         PROVE  Authorities(c)'
    <2>1. session' = session
      BY DEF Daemon
    <2>2. authorityFile[c] <= session.current /\ (session.owner = 0 => authorityFile[c] < 0)
      BY <1>12 DEF Authorities
    <2>3. authorityFile'[c] <= session.current /\ (session.owner = 0 => authorityFile'[c] < 0)
      BY <1>10, <2>2
    <2>4. session.owner # 0 /\ credentialFile'[c] = session.owner /\ authorityFile'[c] >= 0 /\ session.current <= authorityFile'[c] + 1
            => authorityFile'[c] \in {session.current, session.recovery}
      BY <1>10, <1>12 DEF Authorities
    <2> QED
      BY <1>4, <2>1, <2>3, <2>4 DEF Authorities
  <1> QED
    BY <1>5, <1>6, <1>8, <1>9, <1>11, <1>12, ClientKeeps

\* A client leaves, or is killed as it writes.
LEMMA LeavesKeep ==
  ASSUME CredentialInvariant, NEW c \in Clients, Disconnect(c) \/ KilledWriting(c)
  PROVE  CredentialInvariant'
  <1>1. credentialFile \in [Clients -> Int] /\ authorityFile \in [Clients -> Int]
    BY DEF CredentialInvariant, SessionTyped
  <1>2. None \in Int /\ Torn \in Int /\ None < 0 /\ Torn < 0
    BY DEF None, Torn
  <1>3. CASE Disconnect(c)
    <2>1. Leave(c) /\ UNCHANGED Daemon /\ credentialFile' = credentialFile /\ authorityFile' = authorityFile
      BY <1>3 DEF Disconnect, Daemon
    <2> QED
      BY <1>1, <2>1, LeavingKeeps
  <1>4. CASE KilledWriting(c)
    <2>1. Leave(c) /\ UNCHANGED Daemon
      BY <1>4 DEF KilledWriting, Daemon
    <2>2. /\ credentialFile' = credentialFile \/ credentialFile' = [credentialFile EXCEPT ![c] = Torn]
          /\ \/ authorityFile' = authorityFile
             \/ authorityFile' = [authorityFile EXCEPT ![c] = Torn]
             \/ authorityFile' = [authorityFile EXCEPT ![c] = None]
      BY <1>4 DEF KilledWriting
    <2>3. /\ credentialFile' \in [Clients -> Int] /\ authorityFile' \in [Clients -> Int]
          /\ \A d \in Clients \ {c} : credentialFile'[d] = credentialFile[d] /\ authorityFile'[d] = authorityFile[d]
          /\ credentialFile'[c] = credentialFile[c] \/ credentialFile'[c] < 0
          /\ authorityFile'[c] = authorityFile[c] \/ authorityFile'[c] < 0
      BY <1>1, <1>2, <2>2
    <2> QED
      BY <2>1, <2>3, LeavingKeeps
  <1> QED
    BY <1>3, <1>4

\* A client connects with what is in its file.
LEMMA ConnectKeeps ==
  ASSUME CredentialInvariant, NEW c \in Clients, Connect(c)
  PROVE  CredentialInvariant'
  <1> DEFINE credential == Load(credentialFile[c])
             l == [stage |-> "starting", nextId |-> 2, waiting |-> 1, method |-> "initialize", sent |-> credential]
             r == [id |-> 1, method |-> "initialize", arg |-> credential]
  <1>1. SessionTyped /\ OpenedOnce
    BY DEF CredentialInvariant
  <1>2. /\ link' = [link EXCEPT ![c] = l] /\ requests' = [requests EXCEPT ![c] = <<r>>] /\ answers' = [answers EXCEPT ![c] = <<>>]
        /\ seat' = [seat EXCEPT ![c] = NoSeat] /\ credentialFile' = [credentialFile EXCEPT ![c] = credential]
        /\ UNCHANGED <<authorityFile, orphans, issued, session, overtaken>>
    BY DEF Connect
  <1>3. credentialFile[c] \in Int /\ credential \in Int /\ (credential = credentialFile[c] \/ credential = -1)
    BY <1>1 DEF SessionTyped, Load, None
  <1> HIDE DEF credential
  <1>4. l \in Links /\ r \in Requests /\ NoSeat \in Seats /\ NoSeat.principal = 0 /\ ~NoSeat.attached
    BY <1>3 DEF Links, Requests, Methods, NoSeat, Seats
  <1>5. /\ l.stage = "starting" /\ l.waiting = 1 /\ l.nextId = 2 /\ l.method = "initialize" /\ l.sent = credential
        /\ r.id = 1 /\ r.method = "initialize" /\ r.arg = credential
    OBVIOUS
  <1> HIDE DEF l, r
  <1>6. /\ link'[c] = l /\ requests'[c] = <<r>> /\ answers'[c] = <<>> /\ seat'[c] = NoSeat /\ credentialFile'[c] = credential
        /\ authorityFile'[c] = authorityFile[c] /\ session' = session
    BY <1>1, <1>2 DEF SessionTyped
  <1>7. SessionTyped'
    <2>1. <<r>> \in Seq(Requests) /\ <<>> \in Seq(Answers)
      BY <1>4
    <2>2. requests' \in [Clients -> Seq(Requests)] /\ answers' \in [Clients -> Seq(Answers)]
      BY <1>1, <1>2, <2>1 DEF SessionTyped
    <2>3. link' \in [Clients -> Links] /\ seat' \in [Clients -> Seats] /\ credentialFile' \in [Clients -> Int]
      BY <1>1, <1>2, <1>3, <1>4 DEF SessionTyped
    <2> QED
      BY <1>1, <1>2, <2>2, <2>3 DEF SessionTyped
  <1>8. Aside(c) /\ UNCHANGED Daemon
    BY <1>1, <1>2 DEF Aside, Daemon, SessionTyped
  <1>9. DOMAIN requests'[c] = {1} /\ requests'[c][1] = r /\ DOMAIN answers'[c] = {}
    BY <1>6
  <1>10. LinesSound(c)'
    <2>1. LinesInOrder(c)'
      BY <1>5, <1>6, <1>9 DEF LinesInOrder
    <2> QED
      BY <1>5, <1>6, <1>9, <2>1 DEF LinesSound, CallIsLast
  <1>11. OpenedOnce'
    <2>1. Quiet(c)
      BY <1>4, <1>5, <1>6, <1>8, <1>9 DEF Quiet
    <2> QED
      BY <1>1, <2>1, OpensStayOnce
  <1>12. ASSUME NEW p \in Nat \ {0}, Has(c, p)'
         PROVE  Has(c, p)
    <2>1. p = credential \/ p = 0
      BY <1>4, <1>5, <1>6, <1>9, <1>12 DEF Has
    <2> QED
      BY <1>3, <2>1 DEF Has
  <1>13. Authorities(c) => Authorities(c)'
    <2>1. session.owner \in Nat
      BY <1>1 DEF SessionTyped, Sessions
    <2>2. credential = session.owner => credentialFile[c] = session.owner
      BY <1>3, <2>1
    <2> QED
      BY <1>5, <1>6, <1>9, <2>2 DEF Authorities
  <1> QED
    BY <1>7, <1>8, <1>10, <1>11, <1>12, <1>13, ClientKeeps

(***************************************************************************)
(* A call returns.                                                         *)
(***************************************************************************)
\* What a return leaves: the client waits for nothing, and its files hold what they held,
\* nothing, or what the answer to the call said.
Told(c, value) ==
    \E i \in DOMAIN answers[c] : AnswersCall(c, i) /\ answers[c][i].ok /\ answers[c][i].value = value
KeepsFiles(c) ==
    /\ \/ credentialFile'[c] = credentialFile[c]
       \/ link[c].stage = "starting" /\ Told(c, credentialFile'[c])
    /\ \/ authorityFile'[c] = authorityFile[c] /\ credentialFile'[c] = credentialFile[c]
       \/ authorityFile'[c] < 0
       \/ link[c].method \in {"open", "attach"} /\ Told(c, authorityFile'[c])

\* A call that returns keeps the file it had, empties it, or has the answer in it.
LEMMA ReturningKeeps ==
  ASSUME CredentialInvariant, NEW c \in Clients, NEW ok \in BOOLEAN, link[c].waiting # 0, Returns(c, ok), KeepsFiles(c),
         answers' = answers \/ (answers[c] # <<>> /\ answers' = [answers EXCEPT ![c] = Tail(answers[c])]),
         UNCHANGED <<requests, seat, orphans, issued, session, overtaken>>,
         credentialFile' \in [Clients -> Int], authorityFile' \in [Clients -> Int],
         \A d \in Clients \ {c} : credentialFile'[d] = credentialFile[d] /\ authorityFile'[d] = authorityFile[d]
  PROVE  CredentialInvariant'
  <1> DEFINE l == [link[c] EXCEPT !.stage = "ready", !.waiting = 0, !.method = "none", !.sent = None]
  <1>1. /\ SessionTyped /\ OpenedOnce /\ LinesInOrder(c) /\ CallIsLast(c)
        /\ link[c] \in Links /\ answers[c] \in Seq(Answers)
    BY DEF CredentialInvariant, LinesSound, SessionTyped
  <1>2. Off.stage = "off" /\ Off.waiting = 0 /\ Off \in Links
    BY DEF Off, Links, None
  <1>3. l \in Links /\ l.stage = "ready" /\ l.waiting = 0 /\ l.nextId = link[c].nextId
    <2>1. None \in Int /\ 0 \in Nat
      BY DEF None
    <2>2. l \in Links
      BY <1>1, <2>1 DEF Links
    <2>3. l.stage = "ready" /\ l.waiting = 0 /\ l.nextId = link[c].nextId
      BY <1>1 DEF Links
    <2> QED
      BY <2>2, <2>3
  <1>4. link' = [link EXCEPT ![c] = IF link[c].stage = "starting" /\ ~ok THEN Off ELSE l]
    BY DEF Returns
  <1> HIDE DEF l
  <1>5. /\ link' \in [Clients -> Links] /\ (link'[c] = Off \/ link'[c] = l)
        /\ \A d \in Clients \ {c} : link'[d] = link[d]
    BY <1>1, <1>2, <1>3, <1>4 DEF SessionTyped
  <1>6. link'[c].waiting = 0 /\ link'[c].stage # "starting" /\ (link'[c].stage # "off" => link'[c].nextId = link[c].nextId)
        /\ (link'[c].stage = "off" => link'[c] = Off)
    BY <1>2, <1>3, <1>5
  <1>7. link[c].stage # "off"
    BY <1>1, <1>2 DEF LinesInOrder
  <1>8. /\ answers' \in [Clients -> Seq(Answers)] /\ \A d \in Clients \ {c} : answers'[d] = answers[d]
        /\ answers'[c] = answers[c] \/ (answers[c] # <<>> /\ answers'[c] = Tail(answers[c]))
    <2>1. answers \in [Clients -> Seq(Answers)]
      BY <1>1 DEF SessionTyped
    <2>2. answers[c] # <<>> => Tail(answers[c]) \in Seq(Answers)
      BY <2>1
    <2> QED
      BY <2>1, <2>2
  <1>9. \A i \in DOMAIN answers'[c] : \E j \in DOMAIN answers[c] : answers'[c][i] = answers[c][j]
    <2>1. CASE answers'[c] = answers[c]
      BY <2>1
    <2>2. CASE answers[c] # <<>> /\ answers'[c] = Tail(answers[c])
      <3>1. DOMAIN Tail(answers[c]) = 1..(Len(answers[c]) - 1) /\ DOMAIN answers[c] = 1..Len(answers[c]) /\ Len(answers[c]) \in Nat
        BY <1>1, <2>2
      <3>2. \A i \in 1..(Len(answers[c]) - 1) : Tail(answers[c])[i] = answers[c][i + 1] /\ i + 1 \in 1..Len(answers[c])
        BY <1>1, <2>2, <3>1
      <3> QED
        BY <2>2, <3>1, <3>2
    <2> QED
      BY <1>8, <2>1, <2>2
  <1>10. SessionTyped'
    BY <1>1, <1>5, <1>8 DEF SessionTyped
  <1>11. Aside(c) /\ UNCHANGED Daemon
    BY <1>5, <1>8 DEF Aside, Daemon
  <1>12. Quiet(c) /\ OpenedOnce'
    <2>1. Quiet(c)
      BY <1>11 DEF Quiet
    <2> QED
      BY <1>1, <2>1, OpensStayOnce
  <1>13. LinesSound(c)'
    <2>1. \A i \in DOMAIN answers'[c] :
             (link'[c].stage # "off" => answers'[c][i].id < link'[c].nextId) /\ (answers'[c][i].ok => answers'[c][i].value \in Nat)
      BY <1>1, <1>6, <1>7, <1>9 DEF LinesInOrder
    <2>2. LinesInOrder(c)'
      BY <1>1, <1>6, <1>7, <2>1 DEF LinesInOrder
    <2> QED
      BY <1>6, <2>2 DEF LinesSound, CallIsLast, AnswersCall
  <1>14. ASSUME NEW p \in Nat \ {0}, Has(c, p)'
         PROVE  Has(c, p)
    <2>1. credentialFile'[c] # p => Has(c, p)
      BY <1>6, <1>14 DEF Has
    <2>2. credentialFile'[c] = p => Has(c, p)
      BY DEF KeepsFiles, Told, Has
    <2> QED
      BY <2>1, <2>2
  <1>15. ASSUME ~overtaken, Authorities(c)
         PROVE  Authorities(c)'
    <2>1. /\ credentialFile'[c] \in Int /\ authorityFile'[c] \in Int /\ session.current \in Nat /\ authorityFile[c] \in Int
          /\ session' = session /\ requests' = requests
      BY <1>1, <1>10 DEF SessionTyped, Sessions
    <2>2. \A i \in DOMAIN answers'[c] : ~AnswersCall(c, i)'
      BY <1>6 DEF AnswersCall
    <2>3. CASE authorityFile'[c] = authorityFile[c] /\ credentialFile'[c] = credentialFile[c]
      BY <1>15, <2>1, <2>2, <2>3 DEF Authorities
    <2>4. CASE authorityFile'[c] < 0
      BY <2>1, <2>2, <2>4 DEF Authorities
    <2>5. CASE link[c].method \in {"open", "attach"} /\ Told(c, authorityFile'[c])
      <3>1. PICK i \in DOMAIN answers[c] : AnswersCall(c, i) /\ answers[c][i].ok /\ answers[c][i].value = authorityFile'[c]
        BY <2>5 DEF Told
      <3>2. session.owner # 0 /\ authorityFile'[c] = session.current
        BY <1>15, <2>5, <3>1 DEF Authorities
      <3>3. requests[c] = <<>>
        BY <1>1, <3>1 DEF CallIsLast
      <3> QED
        BY <2>1, <2>2, <3>2, <3>3 DEF Authorities
    <2> QED
      BY <2>3, <2>4, <2>5 DEF KeepsFiles
  <1> QED
    BY <1>10, <1>11, <1>12, <1>13, <1>14, <1>15, ClientKeeps

\* A call returns with its answer, with another's, or with none.
LEMMA ReturnsKeep ==
  ASSUME CredentialInvariant, NEW c \in Clients, ReadAnswer(c) \/ ResponseTimeout(c)
  PROVE  CredentialInvariant'
  <1>1. /\ SessionTyped /\ credentialFile \in [Clients -> Int] /\ authorityFile \in [Clients -> Int]
        /\ answers[c] \in Seq(Answers) /\ LinesInOrder(c)
    BY DEF CredentialInvariant, SessionTyped, LinesSound
  <1>2. CASE ResponseTimeout(c)
    <2>1. /\ link[c].waiting # 0 /\ Returns(c, FALSE)
          /\ UNCHANGED <<credentialFile, authorityFile, requests, answers, seat, orphans, issued, session, overtaken>>
      BY <1>2 DEF ResponseTimeout
    <2>2. KeepsFiles(c)
      BY <2>1 DEF KeepsFiles
    <2> QED
      BY <1>1, <2>1, <2>2, ReturningKeeps
  <1>3. CASE ReadAnswer(c)
    <2> DEFINE answer == Head(answers[c])
    <2>1. /\ link[c].waiting # 0 /\ answers[c] # <<>> /\ answers' = [answers EXCEPT ![c] = Tail(answers[c])]
          /\ UNCHANGED <<requests, seat, orphans, issued, session, overtaken>>
      BY <1>3 DEF ReadAnswer
    <2>2. 1 \in DOMAIN answers[c] /\ answer = answers[c][1] /\ answer \in Answers
      BY <1>1, <2>1
    <2>3. answer.ok \in BOOLEAN
      BY <2>2 DEF Answers
    <2>4. CASE ~MatchesCall(c, answer)
      <3>1. Returns(c, FALSE) /\ UNCHANGED <<credentialFile, authorityFile>>
        BY <1>3, <2>4 DEF ReadAnswer
      <3>2. KeepsFiles(c)
        BY <3>1 DEF KeepsFiles
      <3> QED
        BY <1>1, <2>1, <3>1, <3>2, ReturningKeeps
    <2>5. CASE MatchesCall(c, answer)
      <3>1. Returns(c, answer.ok) /\ Keep(c, answer)
        BY <1>3, <2>5 DEF ReadAnswer
      <3>2. answer.ok => answer.value \in Nat /\ Told(c, answer.value)
        BY <1>1, <2>1, <2>2, <2>5 DEF LinesInOrder, Told, AnswersCall, MatchesCall
      <3> HIDE DEF answer
      <3>3. /\ link[c].stage = "starting" => link[c].method = "initialize" /\ link[c].sent = credentialFile[c]
        BY <1>1 DEF LinesInOrder
      <3>4. CASE link[c].stage = "starting" /\ answer.ok
        <4>1. credentialFile' = [credentialFile EXCEPT ![c] = answer.value]
          BY <3>1, <3>3, <3>4 DEF Keep
        <4>2. authorityFile' = IF answer.value # link[c].sent THEN [authorityFile EXCEPT ![c] = None] ELSE authorityFile
          BY <3>1, <3>3, <3>4 DEF Keep
        <4>3. /\ credentialFile' \in [Clients -> Int] /\ authorityFile' \in [Clients -> Int]
              /\ \A d \in Clients \ {c} : credentialFile'[d] = credentialFile[d] /\ authorityFile'[d] = authorityFile[d]
              /\ credentialFile'[c] = answer.value
              /\ answer.value # link[c].sent => authorityFile'[c] < 0
              /\ answer.value = link[c].sent => authorityFile'[c] = authorityFile[c]
          BY <1>1, <3>2, <3>4, <4>1, <4>2 DEF None
        <4>4. KeepsFiles(c)
          BY <3>2, <3>3, <3>4, <4>3 DEF KeepsFiles
        <4> QED
          BY <2>1, <2>3, <3>1, <4>3, <4>4, ReturningKeeps
      <3>5. CASE ~(link[c].stage = "starting" /\ answer.ok)
        <4>1. credentialFile' = credentialFile
          BY <3>1, <3>5 DEF Keep
        <4>2. \/ authorityFile' = authorityFile
              \/ authorityFile' = [authorityFile EXCEPT ![c] = None]
              \/ link[c].method \in {"open", "attach"} /\ answer.ok /\ authorityFile' = [authorityFile EXCEPT ![c] = answer.value]
          BY <3>1, <3>5 DEF Keep
        <4>3. /\ authorityFile' \in [Clients -> Int]
              /\ \A d \in Clients \ {c} : authorityFile'[d] = authorityFile[d]
              /\ \/ authorityFile'[c] = authorityFile[c]
                 \/ authorityFile'[c] < 0
                 \/ link[c].method \in {"open", "attach"} /\ answer.ok /\ authorityFile'[c] = answer.value
          BY <1>1, <3>2, <4>2 DEF None
        <4>4. KeepsFiles(c)
          BY <3>2, <4>1, <4>3 DEF KeepsFiles
        <4> QED
          BY <1>1, <2>1, <2>3, <3>1, <4>1, <4>3, <4>4, ReturningKeeps
      <3> QED
        BY <3>4, <3>5
    <2> QED
      BY <2>4, <2>5
  <1> QED
    BY <1>2, <1>3

(***************************************************************************)
(* A request is served: how the lines move, and what the answer says.      *)
(***************************************************************************)
AnswerTo(r, s) == [id |-> r.id, ok |-> s.ok, value |-> s.value]
Serves(c, r, s) ==
    /\ r \in Requests /\ requests[c] # <<>> /\ r = Head(requests[c]) /\ s \in Outcomes /\ Outcome(seat[c], r, s)
    /\ seat' = [seat EXCEPT ![c] = s.seat] /\ session' = s.session /\ issued' = s.issued
    /\ answers' = [answers EXCEPT ![c] = Append(answers[c], AnswerTo(r, s))]
    /\ requests' = [requests EXCEPT ![c] = Tail(requests[c])]
    /\ UNCHANGED <<credentialFile, authorityFile, link, orphans, overtaken>>

\* What the connection loop does with the next line.
LEMMA RequestServes ==
  ASSUME CredentialInvariant, NEW c \in Clients, ServeRequest(c)
  PROVE  \E r, s : Serves(c, r, s)
  <1> DEFINE r == Head(requests[c])
  <1>1. SessionTyped /\ seat[c] \in Seats /\ requests[c] \in Seq(Requests)
    BY DEF CredentialInvariant, SessionTyped
  <1>2. requests[c] # <<>>
    BY DEF ServeRequest
  <1>3. r \in Requests
    BY <1>1, <1>2
  <1>4. PICK s \in HandleRequest(seat[c], r) :
           /\ seat' = [seat EXCEPT ![c] = s.seat] /\ session' = s.session /\ issued' = s.issued
           /\ answers' = [answers EXCEPT ![c] = Append(answers[c], AnswerTo(r, s))]
    BY DEF ServeRequest, AnswerTo
  <1>5. /\ requests' = [requests EXCEPT ![c] = Tail(requests[c])]
        /\ UNCHANGED <<credentialFile, authorityFile, link, orphans, overtaken>>
    BY DEF ServeRequest
  <1>6. s \in Outcomes /\ Outcome(seat[c], r, s)
    BY <1>1, <1>3, <1>4, RequestIsServed
  <1> QED
    BY <1>2, <1>3, <1>4, <1>5, <1>6 DEF Serves

\* Where the lines of the connection are afterwards, and that only the last answer can be the
\* one the client waits for; then no request is left.
LinesMove(c, r, s) ==
    /\ \A i \in DOMAIN requests'[c] : i \in Nat \ {0} /\ i + 1 \in DOMAIN requests[c] /\ requests'[c][i] = requests[c][i + 1]
    /\ 1 \in DOMAIN requests[c] /\ requests[c][1] = r
    /\ \A i \in DOMAIN answers[c] : ~AnswersCall(c, i)
    /\ \A i \in DOMAIN answers'[c] :
          \/ i \in DOMAIN answers[c] /\ answers'[c][i] = answers[c][i] /\ ~AnswersCall(c, i)'
          \/ answers'[c][i] = AnswerTo(r, s)
    /\ \A i \in DOMAIN answers'[c] : AnswersCall(c, i)' =>
          /\ answers'[c][i] = AnswerTo(r, s)
          /\ r.method = link[c].method /\ r.arg = link[c].sent /\ requests'[c] = <<>>

\* The line is gone, the answer is the last, and only that can be the one waited for.
LEMMA ServedLinesMove ==
  ASSUME CredentialInvariant, NEW c \in Clients, NEW r, NEW s, Serves(c, r, s)
  PROVE  LinesMove(c, r, s) /\ Aside(c) /\ SessionTyped'
  <1> DEFINE a == AnswerTo(r, s)
             n == Len(requests[c])
             k == Len(answers[c])
  <1>1. /\ SessionTyped /\ LinesInOrder(c) /\ CallIsLast(c) /\ requests[c] \in Seq(Requests) /\ answers[c] \in Seq(Answers)
        /\ link[c] \in Links
    BY DEF CredentialInvariant, SessionTyped, LinesSound
  <1>2. /\ requests[c] # <<>> /\ r \in Requests /\ r = Head(requests[c]) /\ s \in Outcomes
        /\ seat' = [seat EXCEPT ![c] = s.seat] /\ session' = s.session /\ issued' = s.issued
        /\ answers' = [answers EXCEPT ![c] = Append(answers[c], a)] /\ requests' = [requests EXCEPT ![c] = Tail(requests[c])]
        /\ UNCHANGED <<credentialFile, authorityFile, link, orphans, overtaken>>
    BY DEF Serves
  <1>3. a \in Answers /\ a.id = r.id
    BY <1>2 DEF AnswerTo, Answers, Requests, Outcomes
  <1>4. s.seat \in Seats /\ s.session \in Sessions /\ s.issued \in Nat
    BY <1>2 DEF Outcomes
  <1> HIDE DEF a
  <1>5. SessionTyped'
    <2>1. answers' \in [Clients -> Seq(Answers)]
      <3>1. Append(answers[c], a) \in Seq(Answers)
        BY <1>1, <1>3
      <3> QED
        BY <1>1, <1>2, <3>1 DEF SessionTyped
    <2>2. requests' \in [Clients -> Seq(Requests)]
      <3>1. Tail(requests[c]) \in Seq(Requests)
        BY <1>1, <1>2
      <3> QED
        BY <1>1, <1>2, <3>1 DEF SessionTyped
    <2>3. seat' \in [Clients -> Seats]
      BY <1>1, <1>2, <1>4 DEF SessionTyped
    <2> QED
      BY <1>1, <1>2, <1>4, <2>1, <2>2, <2>3 DEF SessionTyped
  <1>6. Aside(c)
    BY <1>1, <1>2 DEF Aside, SessionTyped
  <1>7. requests'[c] = Tail(requests[c]) /\ answers'[c] = Append(answers[c], a) /\ link' = link
    BY <1>1, <1>2 DEF SessionTyped
  <1>8. n \in Nat \ {0} /\ k \in Nat /\ DOMAIN requests[c] = 1..n /\ DOMAIN answers[c] = 1..k
    BY <1>1, <1>2
  <1>9. DOMAIN requests'[c] = 1..(n - 1) /\ \A i \in 1..(n - 1) : requests'[c][i] = requests[c][i + 1]
    <2>1. DOMAIN Tail(requests[c]) = 1..(Len(requests[c]) - 1)
      BY <1>1, <1>2
    <2>2. \A i \in 1..(Len(requests[c]) - 1) : Tail(requests[c])[i] = requests[c][i + 1]
      BY <1>1, <1>2
    <2> QED
      BY <1>7, <2>1, <2>2
  <1>10. /\ DOMAIN answers'[c] = 1..(k + 1) /\ answers'[c][k + 1] = a
         /\ \A i \in 1..k : answers'[c][i] = answers[c][i]
    BY <1>1, <1>3, <1>7, <1>8
  <1>11. 1 \in DOMAIN requests[c] /\ requests[c][1] = r
    BY <1>1, <1>2, <1>8
  <1> HIDE DEF n, k
  <1>12. \A i \in 1..(n - 1) : i \in Nat \ {0} /\ i + 1 \in 1..n
    BY <1>8
  <1>13. \A i \in DOMAIN answers[c] : ~AnswersCall(c, i)
    BY <1>1, <1>2 DEF CallIsLast
  <1>14. \A i \in 1..k : ~AnswersCall(c, i)'
    BY <1>7, <1>8, <1>10, <1>13 DEF AnswersCall
  <1>15. ASSUME NEW i \in DOMAIN answers'[c], AnswersCall(c, i)'
         PROVE  answers'[c][i] = a /\ r.method = link[c].method /\ r.arg = link[c].sent /\ requests'[c] = <<>>
    <2>1. i = k + 1
      BY <1>8, <1>10, <1>14, <1>15
    <2>2. answers'[c][i] = a /\ link[c].waiting # 0 /\ r.id = link[c].waiting
      BY <1>3, <1>7, <1>10, <1>15, <2>1 DEF AnswersCall
    <2>3. r.method = link[c].method /\ r.arg = link[c].sent
      BY <1>1, <1>11, <2>2 DEF CallIsLast
    <2>4. n = 1
      <3>1. SUFFICES ASSUME n > 1
                     PROVE  FALSE
        BY <1>8
      <3>2. 2 \in DOMAIN requests[c] /\ requests[c][2] \in Requests
        BY <1>1, <1>8, <3>1
      <3>3. link[c].stage # "off"
        BY <1>1, <2>2 DEF LinesInOrder, Off
      <3>4. requests[c][1].id < requests[c][2].id /\ requests[c][2].id < link[c].nextId
        BY <1>1, <1>11, <3>2, <3>3 DEF LinesInOrder
      <3>5. link[c].waiting = link[c].nextId - 1
        BY <1>1, <2>2 DEF LinesInOrder
      <3>6. requests[c][2].id \in Nat /\ r.id \in Nat /\ link[c].nextId \in Nat
        BY <1>1, <1>2, <3>2 DEF Requests, Links
      <3> QED
        BY <1>11, <2>2, <3>4, <3>5, <3>6
    <2>5. requests'[c] = <<>>
      <3>1. requests'[c] \in Seq(Requests) /\ Len(requests'[c]) = 0
        <4>1. Len(Tail(requests[c])) = Len(requests[c]) - 1 /\ Tail(requests[c]) \in Seq(Requests)
          BY <1>1, <1>2
        <4> QED
          BY <1>7, <2>4, <4>1 DEF n
      <3> QED
        BY <3>1
    <2> QED
      BY <2>2, <2>3, <2>5
  <1> USE DEF a
  <1>16. LinesMove(c, r, s)
    BY <1>8, <1>9, <1>10, <1>11, <1>12, <1>13, <1>14, <1>15 DEF LinesMove
  <1> QED
    BY <1>5, <1>6, <1>16

\* The lines are in order after a request is served.
LEMMA ServedLinesSound ==
  ASSUME CredentialInvariant, NEW c \in Clients, NEW r, NEW s, Serves(c, r, s), LinesMove(c, r, s)
  PROVE  LinesSound(c)'
  <1> DEFINE a == AnswerTo(r, s)
  <1>1. /\ LinesInOrder(c) /\ CallIsLast(c) /\ session \in Sessions
        /\ requests[c] \in Seq(Requests)
    BY DEF CredentialInvariant, SessionTyped, LinesSound
  <1>2. s \in Outcomes /\ Outcome(seat[c], r, s) /\ link' = link /\ credentialFile' = credentialFile
    BY DEF Serves
  <1>3. a.id = r.id /\ a.ok = s.ok /\ a.value = s.value
    BY DEF AnswerTo
  <1> HIDE DEF a
  <1>4. s.ok => s.value \in Nat
    <2>1. CASE Introduces(r, s)
      BY <1>2, <2>1 DEF Introduces, Outcomes, Seats
    <2>2. CASE Rotates(seat[c], r, s)
      BY <1>1, <1>2, <2>2 DEF Rotates, Outcomes, Sessions
    <2> QED
      BY <1>2, <2>1, <2>2 DEF Outcome, Refuses, Opens, Replies
  <1>5. /\ \A i \in DOMAIN requests'[c] : i \in Nat \ {0} /\ i + 1 \in DOMAIN requests[c] /\ requests'[c][i] = requests[c][i + 1]
        /\ 1 \in DOMAIN requests[c] /\ requests[c][1] = r
        /\ \A i \in DOMAIN answers'[c] : (i \in DOMAIN answers[c] /\ answers'[c][i] = answers[c][i]) \/ answers'[c][i] = a
    BY DEF LinesMove, a
  <1>6. \A i, j \in DOMAIN requests'[c] : i < j => requests'[c][i].id < requests'[c][j].id
    BY <1>1, <1>5 DEF LinesInOrder
  <1>7. link[c].stage # "off" =>
          /\ \A i \in DOMAIN requests'[c] : requests'[c][i].id < link[c].nextId
          /\ \A i \in DOMAIN answers'[c] : answers'[c][i].id < link[c].nextId
    BY <1>1, <1>3, <1>5 DEF LinesInOrder
  <1>8. \A i \in DOMAIN answers'[c] : answers'[c][i].ok => answers'[c][i].value \in Nat
    BY <1>1, <1>3, <1>4, <1>5 DEF LinesInOrder
  <1>9. LinesInOrder(c)'
    BY <1>1, <1>2, <1>6, <1>7, <1>8 DEF LinesInOrder
  <1>10. CallIsLast(c)'
    <2>1. \A i \in DOMAIN requests'[c] :
             link[c].waiting # 0 /\ requests'[c][i].id = link[c].waiting =>
               requests'[c][i].method = link[c].method /\ requests'[c][i].arg = link[c].sent
      BY <1>1, <1>5 DEF CallIsLast
    <2>2. \A i \in DOMAIN answers'[c] : AnswersCall(c, i)' => requests'[c] = <<>>
      BY DEF LinesMove
    <2> QED
      BY <1>2, <2>1, <2>2 DEF CallIsLast
  <1> QED
    BY <1>9, <1>10 DEF LinesSound

\* A principal that a request brings to a seat is the client's own, or new.
LEMMA ServedPrincipalsApart ==
  ASSUME CredentialInvariant, NEW c \in Clients, NEW r, NEW s, Serves(c, r, s), LinesMove(c, r, s), Aside(c), SessionTyped'
  PROVE  PrincipalsApart'
  <1>1. /\ SessionTyped /\ PrincipalsApart /\ LinesInOrder(c) /\ issued \in Nat /\ issued' \in Nat
    BY DEF CredentialInvariant, SessionTyped, LinesSound
  <1>2. /\ s \in Outcomes /\ Outcome(seat[c], r, s) /\ link' = link /\ credentialFile' = credentialFile /\ issued' = s.issued
        /\ seat'[c] = s.seat /\ r \in Requests
    BY <1>1 DEF Serves, SessionTyped
  <1>3. r.arg \in Int /\ s.seat.principal \in Nat
    BY <1>2 DEF Requests, Outcomes, Seats
  <1>4. 1 \in DOMAIN requests[c] /\ requests[c][1] = r
    BY DEF LinesMove
  <1>5. issued <= issued'
    BY <1>1, <1>2, <1>3 DEF Outcome, Refuses, Introduces, Opens, Rotates, Replies
  <1>6. ASSUME NEW p \in Nat \ {0}, Introduces(r, s), s.seat.principal = p
        PROVE  Has(c, p) \/ (issued < p /\ p <= issued')
    <2>1. p = Principal(r.arg) /\ r.method = "initialize" /\ issued' = IF p > issued THEN p ELSE issued
      BY <1>2, <1>6 DEF Introduces
    <2>2. CASE r.arg \in 1..issued
      <3>1. r.arg = p
        BY <2>1, <2>2 DEF Principal
      <3> QED
        BY <1>4, <2>1, <3>1 DEF Has
    <2>3. CASE r.arg \notin 1..issued
      <3>1. p = issued + 1
        BY <2>1, <2>3 DEF Principal
      <3> QED
        BY <1>1, <2>1, <3>1
    <2> QED
      BY <2>2, <2>3
  <1>7. ASSUME ~Introduces(r, s)
        PROVE  s.seat.principal = seat[c].principal
    BY <1>2, <1>7 DEF Outcome, Refuses, Opens, Rotates, Replies
  <1>8. ASSUME NEW p \in Nat \ {0}, Has(c, p)'
        PROVE  Has(c, p) \/ (issued < p /\ p <= issued')
    <2>1. CASE credentialFile'[c] = p
      BY <1>2, <2>1 DEF Has
    <2>2. CASE seat'[c].principal = p
      BY <1>2, <1>6, <1>7, <2>2 DEF Has
    <2>3. CASE \E i \in DOMAIN requests'[c] : requests'[c][i].method = "initialize" /\ requests'[c][i].arg = p
      BY <2>3 DEF Has, LinesMove
    <2>4. CASE link'[c].stage = "starting" /\ \E i \in DOMAIN answers'[c] : AnswersCall(c, i)' /\ answers'[c][i].ok /\ answers'[c][i].value = p
      <3>1. PICK i \in DOMAIN answers'[c] : AnswersCall(c, i)' /\ answers'[c][i].ok /\ answers'[c][i].value = p
        BY <2>4
      <3>2. answers'[c][i] = AnswerTo(r, s) /\ r.method = link[c].method
        BY <3>1 DEF LinesMove
      <3>3. s.ok /\ s.value = p
        BY <3>1, <3>2 DEF AnswerTo
      <3>4. r.method = "initialize"
        BY <1>1, <1>2, <2>4, <3>2 DEF LinesInOrder
      <3>5. Introduces(r, s)
        BY <1>2, <3>3, <3>4 DEF Outcome, Refuses, Opens, Rotates, Replies
      <3>6. s.seat.principal = p
        BY <3>3, <3>5 DEF Introduces
      <3> QED
        BY <1>6, <3>5, <3>6
    <2> QED
      BY <1>8, <2>1, <2>2, <2>3, <2>4 DEF Has
  <1> QED
    BY <1>1, <1>5, <1>8, PrincipalsStayApart

\* The session is opened by the one request for it, and nobody was attached before.
LEMMA ServedOpensOnce ==
  ASSUME CredentialInvariant, NEW c \in Clients, NEW r, NEW s, Serves(c, r, s), LinesMove(c, r, s), Aside(c)
  PROVE  OpenedOnce'
  <1>1. SessionTyped /\ OpenedOnce /\ session \in Sessions
    BY DEF CredentialInvariant, SessionTyped
  <1>2. s \in Outcomes /\ Outcome(seat[c], r, s) /\ session' = s.session /\ seat'[c] = s.seat
    BY <1>1 DEF Serves, SessionTyped
  <1>3. /\ \A i \in DOMAIN requests'[c] : i \in Nat \ {0} /\ i + 1 \in DOMAIN requests[c] /\ requests'[c][i] = requests[c][i + 1]
        /\ 1 \in DOMAIN requests[c] /\ requests[c][1] = r
    BY DEF LinesMove
  <1>4. \A d \in Clients \ {c} : requests'[d] = requests[d] /\ seat'[d] = seat[d]
    BY DEF Aside
  <1>5. CASE Opens(seat[c], r, s)
    <2>1. /\ r.method = "open" /\ session'.owner = seat[c].principal /\ seat[c].principal # 0
          /\ s.seat.principal = seat[c].principal /\ (s.seat.attached \/ s.seat = seat[c])
      BY <1>2, <1>5 DEF Opens
    <2>2. session.owner = 0
      BY <1>1, <1>3, <2>1 DEF OpenedOnce
    <2>3. ASSUME NEW d \in Clients, NEW i \in DOMAIN requests'[d]
          PROVE  requests'[d][i].method # "open"
      <3>1. CASE d = c
        <4>1. i \in Nat \ {0} /\ i + 1 \in DOMAIN requests[c] /\ requests'[c][i] = requests[c][i + 1]
          BY <1>3, <3>1
        <4>2. requests[c][i + 1].method = "open" => i + 1 = 1
          BY <1>1, <1>3, <2>1, <4>1 DEF OpenedOnce
        <4> QED
          BY <3>1, <4>1, <4>2
      <3>2. CASE d # c
        <4>1. i \in DOMAIN requests[d] /\ requests'[d][i] = requests[d][i]
          BY <1>4, <3>2
        <4>2. requests[d][i].method = "open" => d = c
          BY <1>1, <1>3, <2>1, <4>1 DEF OpenedOnce
        <4> QED
          BY <3>2, <4>1, <4>2
      <3> QED
        BY <3>1, <3>2
    <2>4. \A d \in Clients : ~seat[d].attached
      BY <1>1, <2>2 DEF OpenedOnce
    <2>5. \A d \in Clients : seat'[d].attached => session'.owner # 0 /\ seat'[d].principal = session'.owner
      BY <1>2, <1>4, <2>1, <2>4
    <2> QED
      BY <2>3, <2>5 DEF OpenedOnce
  <1>6. CASE ~Opens(seat[c], r, s)
    <2>1. session'.owner = session.owner
      BY <1>2, <1>6 DEF Outcome, Refuses, Introduces, Rotates, Replies
    <2>2. seat[c].attached => session.owner # 0 /\ seat[c].principal = session.owner
      BY <1>1 DEF OpenedOnce
    <2>3. s.seat.attached => session.owner # 0 /\ s.seat.principal = session.owner
      BY <1>2, <1>6, <2>2 DEF Outcome, Refuses, Introduces, Rotates, Replies
    <2>4. \A d \in Clients : seat'[d].attached => session'.owner # 0 /\ seat'[d].principal = session'.owner
      BY <1>1, <1>2, <1>4, <2>1, <2>3 DEF OpenedOnce
    <2> DEFINE At(d, i) == IF d = c THEN i + 1 ELSE i
    <2>5. \A d \in Clients : \A i \in DOMAIN requests'[d] : At(d, i) \in DOMAIN requests[d] /\ requests'[d][i] = requests[d][At(d, i)]
      BY <1>3, <1>4
    <2>6. \A d \in Clients : \A i \in DOMAIN requests'[d] : \A j \in DOMAIN requests'[d] : At(d, i) = At(d, j) => i = j
      BY <1>3
    <2> HIDE DEF At
    <2>7. \A d \in Clients : \A i \in DOMAIN requests'[d] : requests'[d][i].method = "open" => session'.owner = 0
      BY <1>1, <2>1, <2>5 DEF OpenedOnce
    <2>8. ASSUME NEW d \in Clients, NEW e \in Clients, NEW i \in DOMAIN requests'[d], NEW j \in DOMAIN requests'[e],
                 requests'[d][i].method = "open", requests'[e][j].method = "open"
          PROVE  d = e /\ i = j
      <3>1. d = e /\ At(d, i) = At(e, j)
        BY <1>1, <2>5, <2>8 DEF OpenedOnce
      <3> QED
        BY <2>6, <3>1
    <2> QED
      BY <2>4, <2>7, <2>8 DEF OpenedOnce
  <1> QED
    BY <1>5, <1>6

\* A client that rotates the authority is the owner's, and presented what it has in its file.
LEMMA ServedAuthoritiesKept ==
  ASSUME CredentialInvariant, NEW c \in Clients, NEW r, NEW s, Serves(c, r, s), LinesMove(c, r, s), Aside(c)
  PROVE  AuthoritiesKept'
  <1>1. SessionTyped /\ OpenedOnce /\ PrincipalsApart /\ AuthoritiesKept /\ session \in Sessions /\ authorityFile \in [Clients -> Int]
    BY DEF CredentialInvariant, SessionTyped
  <1>2. /\ s \in Outcomes /\ Outcome(seat[c], r, s) /\ session' = s.session /\ seat'[c] = s.seat /\ overtaken' = overtaken
        /\ link' = link /\ credentialFile' = credentialFile /\ authorityFile' = authorityFile
    BY <1>1 DEF Serves, SessionTyped
  <1>3. /\ \A i \in DOMAIN requests'[c] : i + 1 \in DOMAIN requests[c] /\ requests'[c][i] = requests[c][i + 1]
        /\ 1 \in DOMAIN requests[c] /\ requests[c][1] = r
        /\ \A i \in DOMAIN answers[c] : ~AnswersCall(c, i)
        /\ \A i \in DOMAIN answers'[c] : AnswersCall(c, i)' =>
              answers'[c][i] = AnswerTo(r, s) /\ r.method = link[c].method
    BY DEF LinesMove
  <1>4. AnswerTo(r, s).ok = s.ok /\ AnswerTo(r, s).value = s.value
    BY DEF AnswerTo
  <1>5. \A d \in Clients \ {c} : /\ requests'[d] = requests[d] /\ answers'[d] = answers[d] /\ seat'[d] = seat[d]
                                /\ \A i \in DOMAIN answers[d] : AnswersCall(d, i)' <=> AnswersCall(d, i)
    BY <1>2 DEF Aside, AnswersCall
  <1>6. session.owner \in Nat /\ session.current \in Nat /\ session.recovery \in Int
    BY <1>1 DEF Sessions
  <1>7. session'.recovery < session'.current
    <2>1. session.recovery < session.current
      BY <1>1 DEF AuthoritiesKept
    <2> QED
      BY <1>2, <1>6, <2>1 DEF Outcome, Refuses, Introduces, Opens, Rotates, Replies
  <1>8. ASSUME ~overtaken
        PROVE  \A d \in Clients : Authorities(d)'
    <2>0. \A d \in Clients : Authorities(d)
      BY <1>1, <1>8 DEF AuthoritiesKept
    <2>1. \A d \in Clients : \A i \in DOMAIN requests'[d] :
             requests'[d][i].method = "attach" => authorityFile[d] < 0 \/ requests'[d][i].arg = authorityFile[d]
      BY <1>3, <1>5, <2>0 DEF Authorities
    <2>2. CASE Opens(seat[c], r, s)
      <3>1. /\ r.method = "open" /\ session' = [owner |-> seat[c].principal, current |-> 0, recovery |-> -1] /\ seat[c].principal # 0
            /\ s.seat.principal = seat[c].principal /\ (s.ok => s.value = 0)
        BY <1>2, <2>2 DEF Opens
      <3>2. session.owner = 0
        BY <1>1, <1>3, <3>1 DEF OpenedOnce
      <3>3. \A d \in Clients : authorityFile[d] < 0 /\ authorityFile[d] \in Int
        BY <1>1, <2>0, <3>2 DEF Authorities
      <3>4. ASSUME NEW d \in Clients, NEW i \in DOMAIN answers'[d], AnswersCall(d, i)', answers'[d][i].ok, link[d].method \in {"open", "attach"}
            PROVE  session'.owner # 0 /\ seat'[d].principal = session'.owner /\ answers'[d][i].value = session'.current
        <4>1. d = c
          BY <1>5, <2>0, <3>2, <3>4 DEF Authorities
        <4> QED
          BY <1>2, <1>3, <1>4, <3>1, <3>4, <4>1
      <3>5. session'.current = 0
        BY <3>1
      <3> QED
        BY <1>2, <2>1, <3>3, <3>4, <3>5 DEF Authorities
    <2>3. CASE Rotates(seat[c], r, s)
      <3>1. /\ r.method = "attach" /\ session.owner = seat[c].principal /\ session.owner # 0
            /\ session'.owner = session.owner /\ session'.current = session.current + 1
            /\ session'.recovery = (IF r.arg = session.current THEN session.current ELSE -1)
            /\ s.seat.principal = session.owner /\ (s.ok => s.value = session.current + 1)
        BY <1>2, <2>3 DEF Rotates
      <3>2. \A d \in Clients : Has(d, session.owner) => d = c
        BY <1>1, <1>6, <3>1 DEF PrincipalsApart, Has
      <3>3. \A d \in Clients : credentialFile[d] = session.owner \/ seat[d].principal = session.owner => d = c
        BY <3>2 DEF Has
      <3>4. ASSUME NEW d \in Clients, NEW i \in DOMAIN answers'[d], AnswersCall(d, i)', answers'[d][i].ok, link[d].method \in {"open", "attach"}
            PROVE  session'.owner # 0 /\ seat'[d].principal = session'.owner /\ answers'[d][i].value = session'.current
        <4>1. d = c
          <5>1. d # c => seat[d].principal = session.owner
            BY <1>5, <2>0, <3>4 DEF Authorities
          <5> QED
            BY <3>3, <5>1
        <4> QED
          BY <1>2, <1>3, <1>4, <3>1, <3>4, <4>1
      <3>5. ASSUME NEW d \in Clients
            PROVE  authorityFile[d] <= session'.current /\ (session'.owner = 0 => authorityFile[d] < 0)
        <4>1. authorityFile[d] <= session.current /\ authorityFile[d] \in Int
          BY <1>1, <2>0 DEF Authorities
        <4> QED
          BY <1>6, <3>1, <4>1
      <3>6. ASSUME NEW d \in Clients, credentialFile[d] = session.owner, authorityFile[d] >= 0, session'.current <= authorityFile[d] + 1
            PROVE  authorityFile[d] \in {session'.current, session'.recovery}
        <4>1. d = c
          BY <3>3, <3>6
        <4>2. authorityFile[c] \in Int /\ authorityFile[c] <= session.current /\ r.arg = authorityFile[c]
          <5>1. authorityFile[c] < 0 \/ r.arg = authorityFile[c]
            BY <1>3, <2>0, <3>1 DEF Authorities
          <5> QED
            BY <1>1, <2>0, <3>6, <4>1, <5>1 DEF Authorities
        <4>3. authorityFile[c] = session.current
          BY <1>6, <3>1, <3>6, <4>1, <4>2
        <4> QED
          BY <3>1, <4>1, <4>2, <4>3
      <3> QED
        BY <1>2, <2>1, <3>1, <3>4, <3>5, <3>6 DEF Authorities
    <2>4. CASE Refuses(seat[c], s) \/ Introduces(r, s) \/ Replies(seat[c], r, s)
      <3>1. session' = session /\ (s.ok => r.method \notin {"open", "attach"})
        BY <1>2, <2>4 DEF Refuses, Introduces, Replies
      <3>2. ASSUME NEW d \in Clients, NEW i \in DOMAIN answers'[d], AnswersCall(d, i)', answers'[d][i].ok, link[d].method \in {"open", "attach"}
            PROVE  session'.owner # 0 /\ seat'[d].principal = session'.owner /\ answers'[d][i].value = session'.current
        <4>1. d # c
          BY <1>3, <1>4, <3>1, <3>2
        <4> QED
          BY <1>5, <2>0, <3>1, <3>2, <4>1 DEF Authorities
      <3> QED
        BY <1>2, <2>0, <2>1, <3>1, <3>2 DEF Authorities
    <2> QED
      BY <1>2, <2>2, <2>3, <2>4 DEF Outcome
  <1> QED
    BY <1>2, <1>7, <1>8 DEF AuthoritiesKept

\* A request is served.
LEMMA ServingKeeps ==
  ASSUME CredentialInvariant, NEW c \in Clients, ServeRequest(c)
  PROVE  CredentialInvariant'
  <1>1. PICK r, s : Serves(c, r, s)
    BY RequestServes
  <1>2. LinesMove(c, r, s) /\ Aside(c) /\ SessionTyped'
    BY <1>1, ServedLinesMove
  <1>3. \A d \in Clients : LinesSound(d)'
    BY <1>1, <1>2, ServedLinesSound, OthersKept DEF CredentialInvariant
  <1>4. PrincipalsApart' /\ OpenedOnce' /\ AuthoritiesKept'
    BY <1>1, <1>2, ServedPrincipalsApart, ServedOpensOnce, ServedAuthoritiesKept
  <1> QED
    BY <1>2, <1>3, <1>4 DEF CredentialInvariant

\* A request of a connection that was left can do nothing but rotate the authority.
LEMMA OrphansKeep ==
  ASSUME CredentialInvariant, ServeOrphan
  PROVE  CredentialInvariant'
  <1>1. SessionTyped /\ session \in Sessions /\ issued \in Nat
    BY DEF CredentialInvariant, SessionTyped
  <1>2. PICK o \in orphans :
          /\ \E s \in HandleRequest(o.seat, o.request) :
                session' = s.session /\ issued' = s.issued /\ overtaken' = (overtaken \/ s.session # session)
          /\ orphans' = orphans \ {o}
          /\ UNCHANGED <<credentialFile, authorityFile, link, requests, answers, seat>>
    BY DEF ServeOrphan
  <1>3. PICK s \in HandleRequest(o.seat, o.request) :
          session' = s.session /\ issued' = s.issued /\ overtaken' = (overtaken \/ s.session # session)
    BY <1>2
  <1>4. o.seat \in Seats /\ o.request \in Requests /\ o.request.method = "attach"
    BY <1>1 DEF SessionTyped
  <1>5. s \in Outcomes /\ Outcome(o.seat, o.request, s)
    BY <1>1, <1>3, <1>4, RequestIsServed
  <1>6. Refuses(o.seat, s) \/ Rotates(o.seat, o.request, s)
    BY <1>4, <1>5 DEF Outcome, Introduces, Opens, Replies
  <1>7. SessionTyped'
    <2>1. s.session \in Sessions /\ s.issued \in Nat /\ overtaken' \in BOOLEAN
      BY <1>1, <1>3, <1>5 DEF Outcomes, SessionTyped
    <2> QED
      BY <1>1, <1>2, <1>3, <2>1 DEF SessionTyped
  <1>8. issued' = issued /\ session'.owner = session.owner
    BY <1>3, <1>6 DEF Refuses, Rotates
  <1>9. \A c \in Clients : \A i : AnswersCall(c, i)' <=> AnswersCall(c, i)
    BY <1>2 DEF AnswersCall
  <1>10. \A c \in Clients : LinesSound(c)'
    BY <1>2, <1>9 DEF CredentialInvariant, LinesSound, LinesInOrder, CallIsLast
  <1>11. PrincipalsApart'
    <2>1. \A c \in Clients : \A p : Has(c, p)' <=> Has(c, p)
      BY <1>2, <1>9 DEF Has
    <2> QED
      BY <1>8, <2>1 DEF CredentialInvariant, PrincipalsApart
  <1>12. OpenedOnce'
    BY <1>2, <1>8 DEF CredentialInvariant, OpenedOnce
  <1>13. AuthoritiesKept'
    <2>1. CASE Refuses(o.seat, s)
      <3>1. session' = session /\ (overtaken' <=> overtaken)
        BY <1>3, <2>1 DEF Refuses
      <3>2. \A c \in Clients : Authorities(c) => Authorities(c)'
        BY <1>2, <1>9, <3>1 DEF Authorities
      <3> QED
        BY <3>1, <3>2 DEF CredentialInvariant, AuthoritiesKept
    <2>2. CASE Rotates(o.seat, o.request, s)
      <3>1. /\ session'.current = session.current + 1
            /\ session'.recovery = (IF o.request.arg = session.current THEN session.current ELSE -1)
        BY <1>3, <2>2 DEF Rotates
      <3>2. session.current \in Nat
        BY <1>1 DEF Sessions
      <3>3. s.session # session
        BY <1>3, <3>1, <3>2
      <3>4. overtaken'
        BY <1>3, <3>3
      <3> QED
        BY <3>1, <3>2, <3>4 DEF AuthoritiesKept
    <2> QED
      BY <1>6, <2>1, <2>2
  <1> QED
    BY <1>7, <1>10, <1>11, <1>12, <1>13 DEF CredentialInvariant

\* A step that changes nothing.
LEMMA CredentialUnchanged == CredentialInvariant /\ UNCHANGED credentialVars => CredentialInvariant'
  <1> SUFFICES ASSUME CredentialInvariant, UNCHANGED credentialVars
               PROVE  CredentialInvariant'
    OBVIOUS
  <1>1. /\ credentialFile' = credentialFile /\ authorityFile' = authorityFile /\ link' = link /\ requests' = requests
        /\ answers' = answers /\ seat' = seat /\ orphans' = orphans /\ issued' = issued /\ session' = session /\ overtaken' = overtaken
    BY DEF credentialVars
  <1>2. \A c : \A i : AnswersCall(c, i)' <=> AnswersCall(c, i)
    BY <1>1 DEF AnswersCall
  <1>3. SessionTyped' /\ OpenedOnce'
    BY <1>1 DEF CredentialInvariant, SessionTyped, OpenedOnce
  <1>4. \A c \in Clients : LinesSound(c)'
    BY <1>1, <1>2 DEF CredentialInvariant, LinesSound, LinesInOrder, CallIsLast
  <1>5. \A c \in Clients : \A p : Has(c, p)' <=> Has(c, p)
    BY <1>1, <1>2 DEF Has
  <1>6. PrincipalsApart'
    BY <1>1, <1>5 DEF CredentialInvariant, PrincipalsApart
  <1>7. AuthoritiesKept'
    BY <1>1, <1>2 DEF CredentialInvariant, AuthoritiesKept, Authorities
  <1> QED
    BY <1>3, <1>4, <1>6, <1>7 DEF CredentialInvariant

\* A client's credential is one the daemon takes, and what its connection may do is what it was
\* attached for: through lost and late answers, restarts, and files that are half written.
THEOREM CredentialsAreSound == CredentialSpec => []CredentialsSound
  <1>1. CredentialInvariant /\ [CredentialNext]_credentialVars => CredentialInvariant'
    BY OrphansKeep, ConnectKeeps, CallsKeep, ServingKeeps, ReturnsKeep, LeavesKeep, CredentialUnchanged DEF CredentialNext
  <1> QED
    BY <1>1, CredentialInitially, CredentialInvariantIsSound, PTL DEF CredentialSpec
=============================================================================
