-------------------------- MODULE LifecycleProofs --------------------------
(***************************************************************************)
(* Theorems on RunLifecycle, for every set of runs, clients, children and  *)
(* forks, every policy, fault and number of crashes.                       *)
(*                                                                         *)
(* The argument rests on the frames.  Only the top frame of a stack can    *)
(* act, and every frame below it belongs to a run that has ended: a call   *)
(* is made by start_provider_execution once the budget has ended the run   *)
(* and by a cancel that has been committed.  So whatever an error or a     *)
(* return uncovers is harmless (LowerFramesEnded), and it is enough to say *)
(* of the top frames what their threads have still the right to do         *)
(* (TopsSound) and that no two threads have the same right (TopsApart).    *)
(*                                                                         *)
(* Most steps only end runs, answer approvals and move one thread along a  *)
(* path that gives it no new right.  They are Calm, and one lemma carries  *)
(* the invariant over all of them; the others are taken one by one.        *)
(* The last part is about the providers of runs that ended.                *)
(***************************************************************************)
EXTENDS RunLifecycle, FiniteSetTheorems, TLAPS

Ops == {"start", "child", "fork", "advance", "boot", "decide", "cancel", "budget"}
Places == {"schedule", "commitStart", "commitQueued", "budget", "launch", "attach",
           "settleOk", "settleErr", "failRun", "finish", "promote", "profile", "resolveLive",
           "check", "cancelLive", "cancelWait", "commitCancel", "listKids", "kids",
           "commitBudget"}

LiveEntries ==
    [entry : BOOLEAN, handle : BOOLEAN, requested : BOOLEAN, delivered : BOOLEAN]

\* The frames a stack may hold: those that expire approvals and all others.
RunFrames == [op : Ops, at : Places, run : Runs, kids : SUBSET Runs]
ExpiryFrames ==
    [op : {"expire"}, at : {"expire", "resolveLive"}, run : Runs, kids : SUBSET Approvals]
Frames == RunFrames \union ExpiryFrames

\* Where a handler may still give the run its first status, hand it to a provider, or release
\* what it holds.
Birth == {"schedule", "commitStart", "commitQueued"}
Starting == {"profile", "budget", "launch"}
Ending == {"finish", "listKids", "kids"}

\* A run with one of these has never been handed to a provider.
Beginning == {"absent", "queued", "waitingForApproval"}

---------------------------------------------------------------------------
(* The inductive invariant, by its parts.                                  *)

TypeData ==
    /\ status \in [Runs -> Cancellable \union Terminal \union {"absent"}]
    /\ created \in Seq(Runs)
    /\ approval \in [Approvals -> {"none", "pending", "approved", "rejected"}]
    /\ overdue \subseteq Approvals
    /\ phase \in {"down", "reconciled", "booting", "up"}
    /\ sched \in Schedules
    /\ live \in [Runs -> [entry : BOOLEAN, handle : BOOLEAN,
                          requested : BOOLEAN, delivered : BOOLEAN]]
    /\ prov \in [Runs -> {"none", "working", "asking", "over"}]
    /\ stopped \subseteq Runs /\ issued \subseteq Runs
    /\ launched \in [Runs -> Nat]

TypeInv == TypeData /\ stack \in [Threads -> Seq(Frames)]

\* The frames of s below its top belong to runs that have ended, by the statuses st.
LowerEnded(s, st) ==
    \A i \in 2..Len(s) : s[i].at \in {"settleErr", "kids"} /\ st[s[i].run] \in Terminal

LowerFramesEnded == \A t \in Threads : LowerEnded(stack[t], status)

\* Somebody is about to create the run.
Creating(r) == \E u \in Threads : ~Idle(u) /\ Top(u).at \in Birth /\ Top(u).run = r

FrameSound(f) ==
    /\ f.at \in Birth => status[f.run] = "absent" /\ f.run \in issued
    /\ f.at = "commitStart" => f.run \in sched.active
    /\ f.at \in Starting =>
         /\ status[f.run] \notin Beginning
         /\ launched[f.run] = 0
         /\ approval[<<f.run, "start">>] \in {"none", "approved"}
    /\ f.at \in Ending => status[f.run] \in Terminal
    /\ f.at = "promote" => f.run \in issued
    /\ f.at = "promote" /\ (status[f.run] = "queued" \/ Creating(f.run)) =>
         f.run \in sched.active

TopsSound == \A t \in Threads : ~Idle(t) => FrameSound(Top(t))

\* No two threads are about to create, nor about to launch, the same run.
FramesApart(f, g) ==
    f.run = g.run => /\ ~(f.at \in Birth /\ g.at \in Birth)
                     /\ ~(f.at \in Starting /\ g.at \in Starting)

TopsApart ==
    \A t, u \in Threads : t # u /\ ~Idle(t) /\ ~Idle(u) => FramesApart(Top(t), Top(u))

\* What the store says of one run fits together.
RunSound(r) ==
    /\ status[r] # "absent" => r \in issued
    /\ approval[<<r, "start">>] = "pending" <=> status[r] = "waitingForApproval"
    /\ status[r] \in {"absent", "queued"} => approval[<<r, "start">>] = "none"
    /\ status[r] \in Beginning => approval[<<r, "tool">>] = "none" /\ launched[r] = 0
    /\ launched[r] > 0 => approval[<<r, "start">>] \in {"none", "approved"}
    /\ launched[r] <= 1

RunsSound == \A r \in Runs : RunSound(r)

\* A daemon that is down, or boots and has not read its queue, does nothing.
Still == phase \in {"down", "reconciled"}
StillSound ==
    /\ Still => \A t \in Threads : Idle(t)
    /\ Still => \A r \in Runs : prov[r] = "none"
    /\ phase = "reconciled" => \A r \in Runs : status[r] \notin Active

\* Whoever waits has asked for its run.
QueueIssued == sched.queue \in Seq(issued)

OneExclusiveSlot == \A r, s \in Exclusive : r \in sched.active /\ s \in sched.active => r = s

StateInv ==
    /\ LowerFramesEnded
    /\ TopsSound
    /\ TopsApart
    /\ RunsSound
    /\ StillSound
    /\ QueueIssued

SlotInv == ActiveHoldsSlot /\ OneExclusiveSlot /\ OneWriter

IInv == TypeInv /\ StateInv /\ RunningIsOwned /\ SlotInv

---------------------------------------------------------------------------
(* Numbers.                                                                *)

Below(S, n) == { m \in S : m < n }

(* How many members are smaller tells the members apart, and no rank is free. *)
LEMMA RankOf ==
    ASSUME NEW S \in SUBSET Nat, IsFiniteSet(S)
    PROVE  /\ Cardinality(S) \in Nat
           /\ \A n \in S : Cardinality(Below(S, n)) \in 0..(Cardinality(S) - 1)
           /\ \A m, n \in S : m < n => Cardinality(Below(S, m)) < Cardinality(Below(S, n))
           /\ \A k \in 0..(Cardinality(S) - 1) : \E n \in S : Cardinality(Below(S, n)) = k
<1>1. Cardinality(S) \in Nat
  BY FS_CardinalityType
<1>2. ASSUME NEW n \in S
      PROVE  IsFiniteSet(Below(S, n)) /\ Cardinality(Below(S, n)) \in 0..(Cardinality(S) - 1)
  <2>1. Below(S, n) \in SUBSET S /\ Below(S, n) # S
    BY DEF Below
  <2>2. /\ IsFiniteSet(Below(S, n)) /\ Cardinality(Below(S, n)) <= Cardinality(S)
        /\ Cardinality(S) # Cardinality(Below(S, n))
    BY <2>1, FS_Subset
  <2>3. Cardinality(Below(S, n)) \in Nat
    BY <2>2, FS_CardinalityType
  <2> QED BY <1>1, <2>2, <2>3
<1>3. ASSUME NEW m \in S, NEW n \in S, m < n
      PROVE  Cardinality(Below(S, m)) < Cardinality(Below(S, n))
  <2>1. Below(S, m) \in SUBSET Below(S, n)
    <3> SUFFICES ASSUME NEW x \in S, x < m PROVE x < n
      BY DEF Below
    <3>1. x \in Nat /\ m \in Nat /\ n \in Nat
      OBVIOUS
    <3> QED BY <1>3, <3>1
  <2>2. m \in Below(S, n) /\ m \notin Below(S, m)
    BY <1>3 DEF Below
  <2>3. /\ Cardinality(Below(S, m)) <= Cardinality(Below(S, n))
        /\ Cardinality(Below(S, n)) = Cardinality(Below(S, m)) => Below(S, n) = Below(S, m)
    BY <1>2, <2>1, FS_Subset
  <2> QED BY <1>1, <1>2, <2>2, <2>3
<1>4. \A k \in 0..(Cardinality(S) - 1) : \E n \in S : Cardinality(Below(S, n)) = k
  <2> DEFINE R == 0..(Cardinality(S) - 1)
             f == [n \in S |-> Cardinality(Below(S, n))]
  <2>1. IsFiniteSet(R) /\ Cardinality(R) = Cardinality(S)
    <3>1. 0 \in Int /\ Cardinality(S) - 1 \in Int
      BY <1>1
    <3>2. IsFiniteSet(R) /\ Cardinality(R) =
            IF 0 > Cardinality(S) - 1 THEN 0 ELSE Cardinality(S) - 1 - 0 + 1
      BY <3>1, FS_Interval
    <3> QED BY <1>1, <3>2
  <2>2. f \in [S -> R]
    BY <1>2
  <2>3. \A m, n \in S : f[m] = f[n] => m = n
    <3> SUFFICES ASSUME NEW m \in S, NEW n \in S, f[m] = f[n] PROVE m = n
      OBVIOUS
    <3>1. ~(m < n) /\ ~(n < m)
      BY <1>1, <1>2, <1>3
    <3> QED BY <3>1
  <2> HIDE DEF R, f
  <2>4. f \in Injection(S, R)
    BY <2>2, <2>3 DEF Injection, IsInjective
  <2>5. f \in Surjection(S, R)
    BY <2>1, <2>4, FS_Injection
  <2>6. \A k \in R : \E n \in S : f[n] = k
    BY <2>5 DEF Surjection
  <2> QED BY <2>6 DEF R, f
<1> QED BY <1>1, <1>2, <1>3, <1>4
(* A finite set of natural numbers that is not empty has a smallest element. *)
LEMMA SmallestOf ==
    ASSUME NEW S \in SUBSET Nat, IsFiniteSet(S), S # {}
    PROVE  \E i \in S : \A j \in S : i <= j
<1> DEFINE r(n) == Cardinality(Below(S, n))
<1>1. /\ Cardinality(S) \in Nat
      /\ \A n \in S : r(n) \in 0..(Cardinality(S) - 1)
      /\ \A m, n \in S : m < n => r(m) < r(n)
      /\ \A k \in 0..(Cardinality(S) - 1) : \E n \in S : r(n) = k
  BY RankOf
<1> HIDE DEF r
<1>2. PICK n \in S : TRUE
  OBVIOUS
<1>3. r(n) \in 0..(Cardinality(S) - 1)
  BY <1>1
<1>4. 0 \in 0..(Cardinality(S) - 1)
  BY <1>1, <1>3
<1>5. PICK x \in S : r(x) = 0
  BY <1>1, <1>4
<1>6. ASSUME NEW m \in S PROVE x <= m
  <2>1. m \in Nat /\ x \in Nat /\ r(m) \in 0..(Cardinality(S) - 1)
    BY <1>1
  <2>2. ~(m < x)
    BY <1>1, <1>5, <2>1
  <2> QED BY <2>1, <2>2
<1> QED BY <1>6

(* The queue that the daemon reads at its boot is made of the queued runs it stored. *)
LEMMA QueuedTyped ==
    ASSUME created \in Seq(Runs)
    PROVE  QueuedRuns \in Seq({ r \in Runs : status[r] = "queued" })
<1> DEFINE S == QueuedAt
           Q == { r \in Runs : status[r] = "queued" }
           c == Cardinality(S)
<1>1. S \in SUBSET Nat /\ IsFiniteSet(S) /\ \A i \in S : created[i] \in Q
  <2>1. S \in SUBSET (1..Len(created)) /\ \A i \in S : created[i] \in Q
    BY DEF QueuedAt
  <2>2. Len(created) \in Nat
    OBVIOUS
  <2> HIDE DEF S, Q
  <2>3. IsFiniteSet(1..Len(created))
    BY <2>2, FS_Interval
  <2>4. IsFiniteSet(S)
    BY <2>1, <2>3, FS_Subset
  <2>5. S \in SUBSET Nat
    BY <2>1
  <2> QED BY <2>1, <2>4, <2>5
<1>2. c \in Nat /\ \A k \in 0..(c - 1) : \E n \in S : Cardinality(Below(S, n)) = k
  BY <1>1, RankOf
<1> HIDE DEF S, c, Q
<1>3. ASSUME NEW k \in 1..c PROVE created[Nth(S, k)] \in Q
  <2>1. k - 1 \in 0..(c - 1)
    BY <1>2
  <2>2. \E n \in S : Cardinality({ m \in S : m < n }) = k - 1
    BY <1>2, <2>1 DEF Below
  <2>3. Nth(S, k) \in S
    BY <2>2 DEF Nth
  <2> QED BY <1>1, <2>3
<1>4. QueuedRuns = [k \in 1..c |-> created[Nth(S, k)]]
  BY DEF QueuedRuns, S, c
<1>5. QueuedRuns \in [1..c -> Q]
  BY <1>3, <1>4
<1>6. QueuedRuns \in Seq(Q)
  BY <1>2, <1>5
<1> QED BY <1>6 DEF Q

---------------------------------------------------------------------------
(* Frames and stacks.                                                      *)

\* A thread's next stack has top f; the others keep theirs.
NewTop(t, f) ==
    /\ stack' \in [Threads -> Seq(Frames)]
    /\ \A u \in Threads : u # t => stack'[u] = stack[u]
    /\ stack'[t] # <<>> /\ Head(stack'[t]) = f
    /\ LowerEnded(stack'[t], status')

\* A thread is done, or goes on with a call of a run that has ended.
Uncovered(t) ==
    /\ stack' \in [Threads -> Seq(Frames)]
    /\ \A u \in Threads : u # t => stack'[u] = stack[u]
    /\ LowerEnded(stack'[t], status')
    /\ stack'[t] # <<>> =>
         /\ Head(stack'[t]).at \in {"settleErr", "kids"}
         /\ status'[Head(stack'[t]).run] \in Terminal

(* A sequence whose elements but the first are those of s. *)
LEMMA PushedOnTail ==
    ASSUME NEW s \in Seq(Frames), s # <<>>, NEW f \in Frames
    PROVE  LET q == <<f>> \o Tail(s)
           IN  /\ q \in Seq(Frames) /\ q # <<>> /\ Head(q) = f /\ Len(q) = Len(s)
               /\ \A i \in 2..Len(q) : q[i] = s[i]
<1> DEFINE q == <<f>> \o Tail(s)
<1>1. Tail(s) \in Seq(Frames) /\ Len(Tail(s)) = Len(s) - 1 /\ Len(s) \in Nat \ {0}
  OBVIOUS
<1>2. \A i \in 1..Len(Tail(s)) : Tail(s)[i] = s[i + 1]
  OBVIOUS
<1>3. <<f>> \in Seq(Frames) /\ Len(<<f>>) = 1
  OBVIOUS
<1>4. q \in Seq(Frames) /\ Len(q) = Len(s)
  BY <1>1, <1>3
<1>5. q # <<>> /\ Head(q) = f
  BY <1>1, <1>4
<1>6. ASSUME NEW i \in 2..Len(q) PROVE q[i] = s[i]
  <2>1. i - 1 \in 1..Len(Tail(s)) /\ i - 1 + 1 = i /\ i \in Nat
    BY <1>1, <1>4
  <2>2. q[i] = Tail(s)[i - 1]
    BY <1>1, <1>3, <2>1
  <2> QED BY <1>2, <2>1, <2>2
<1> QED BY <1>4, <1>5, <1>6

(* The steps of a stack, each with what it leaves on top: a frame replaced. *)
LEMMA BecomeHolds ==
    ASSUME stack \in [Threads -> Seq(Frames)], NEW t \in Threads, ~Idle(t), NEW f \in Frames,
           Become(t, f), LowerEnded(stack[t], status')
    PROVE  NewTop(t, f)
<1>1. stack[t] \in Seq(Frames) /\ stack[t] # <<>>
  BY DEF Idle
<1> DEFINE q == <<f>> \o Tail(stack[t])
<1>2. /\ q \in Seq(Frames) /\ q # <<>> /\ Head(q) = f /\ Len(q) = Len(stack[t])
      /\ \A i \in 2..Len(q) : q[i] = stack[t][i]
  BY <1>1, PushedOnTail
<1>3. stack' = [stack EXCEPT ![t] = q]
  BY DEF Become
<1> HIDE DEF q
<1>4. LowerEnded(q, status')
  BY <1>2 DEF LowerEnded
<1> QED BY <1>2, <1>3, <1>4 DEF NewTop

(* A frame moved on to another place. *)
LEMMA GotoHolds ==
    ASSUME stack \in [Threads -> Seq(Frames)], NEW t \in Threads, ~Idle(t), NEW at \in Places,
           Goto(t, at), LowerEnded(stack[t], status'), Top(t) \in RunFrames
    PROVE  /\ NewTop(t, [Top(t) EXCEPT !.at = at])
           /\ [Top(t) EXCEPT !.at = at].at = at
           /\ [Top(t) EXCEPT !.at = at].run = Top(t).run
<1>1. /\ [Top(t) EXCEPT !.at = at] \in RunFrames
      /\ [Top(t) EXCEPT !.at = at].at = at
      /\ [Top(t) EXCEPT !.at = at].run = Top(t).run
  BY DEF RunFrames
<1>2. [Top(t) EXCEPT !.at = at] \in Frames
  BY <1>1 DEF Frames
<1> QED BY <1>1, <1>2, BecomeHolds DEF Goto

(* A return: the frame below belongs to a run that has ended. *)
LEMMA ReturnHolds ==
    ASSUME stack \in [Threads -> Seq(Frames)], NEW t \in Threads, ~Idle(t),
           Return(t), LowerEnded(stack[t], status')
    PROVE  Uncovered(t)
<1>1. stack[t] \in Seq(Frames) /\ stack[t] # <<>>
  BY DEF Idle
<1> DEFINE s == stack[t]
           q == Tail(s)
<1>2. q \in Seq(Frames) /\ Len(q) = Len(s) - 1 /\ Len(s) \in Nat \ {0}
  BY <1>1
<1>3. \A i \in 1..Len(q) : q[i] = s[i + 1]
  BY <1>1
<1>4. stack' = [stack EXCEPT ![t] = q]
  BY DEF Return
<1>5. LowerEnded(s, status')
  OBVIOUS
<1>6. q # <<>> => Head(q) = s[2] /\ 2 \in 2..Len(s)
  <2> SUFFICES ASSUME q # <<>> PROVE Head(q) = s[2] /\ 2 \in 2..Len(s)
    OBVIOUS
  <2>1. Len(q) >= 1 /\ Head(q) = q[1]
    BY <1>2
  <2> QED BY <1>2, <1>3, <2>1
<1> HIDE DEF s, q
<1>7. LowerEnded(q, status')
  <2> SUFFICES ASSUME NEW i \in 2..Len(q)
               PROVE  q[i].at \in {"settleErr", "kids"} /\ status'[q[i].run] \in Terminal
    BY DEF LowerEnded
  <2>1. i \in 1..Len(q) /\ i + 1 \in 2..Len(s)
    BY <1>2
  <2> QED BY <1>3, <1>5, <2>1 DEF LowerEnded
<1> QED BY <1>2, <1>4, <1>5, <1>6, <1>7 DEF Uncovered, LowerEnded

(* An error: it ends in a caller that keeps the result, or ends the handler. *)
LEMMA RaiseHolds ==
    ASSUME stack \in [Threads -> Seq(Frames)], NEW t \in Threads, ~Idle(t),
           Raise(t), LowerEnded(stack[t], status')
    PROVE  Uncovered(t)
<1>1. stack[t] \in Seq(Frames) /\ stack[t] # <<>>
  BY DEF Idle
<1> DEFINE s == stack[t]
           catch == { i \in 2..Len(s) : s[i].at = "settleErr" }
           k == CHOOSE i \in catch : \A j \in catch : i <= j
           q == SubSeq(s, k, Len(s))
<1>2. LowerEnded(s, status') /\ s \in Seq(Frames) /\ Len(s) \in Nat
  BY <1>1
<1>3. stack' = [stack EXCEPT ![t] = IF catch = {} THEN <<>> ELSE q]
  BY DEF Raise
<1>4. CASE catch = {}
  <2>1. stack' = [stack EXCEPT ![t] = <<>>]
    BY <1>3, <1>4
  <2>2. <<>> \in Seq(Frames) /\ LowerEnded(<<>>, status')
    BY DEF LowerEnded
  <2> QED BY <2>1, <2>2 DEF Uncovered
<1>5. CASE catch # {}
  <2>1. k \in 2..Len(s)
    <3>1. catch \in SUBSET Nat /\ IsFiniteSet(catch)
      <4>1. catch \in SUBSET (2..Len(s)) /\ IsFiniteSet(2..Len(s))
        BY <1>2, FS_Interval
      <4> QED BY <1>2, <4>1, FS_Subset
    <3>2. \E i \in catch : \A j \in catch : i <= j
      <4> HIDE DEF catch
      <4> QED BY <1>5, <3>1, SmallestOf
    <3> QED BY <3>2
  <2>2. stack' = [stack EXCEPT ![t] = q]
    BY <1>3, <1>5
  <2> HIDE DEF catch, k
  <2>3. q \in Seq(Frames) /\ Len(q) = Len(s) - k + 1 /\ k \in Nat
    BY <1>2, <2>1
  <2>4. \A i \in 1..Len(q) : q[i] = s[k + i - 1]
    BY <1>2, <2>1
  <2>5. Head(q) = s[k]
    <3>1. 1 \in 1..Len(q) /\ k + 1 - 1 = k
      BY <1>2, <2>1, <2>3
    <3>2. Head(q) = q[1]
      <4>1. q \in Seq(Frames) /\ Len(q) >= 1
        BY <1>2, <2>1, <2>3
      <4> HIDE DEF q, s
      <4> QED BY <4>1
    <3> QED BY <2>4, <3>1, <3>2
  <2> HIDE DEF q
  <2>6. LowerEnded(q, status')
    <3> SUFFICES ASSUME NEW i \in 2..Len(q)
                 PROVE  q[i].at \in {"settleErr", "kids"} /\ status'[q[i].run] \in Terminal
      BY DEF LowerEnded
    <3>1. i \in 1..Len(q) /\ k + i - 1 \in 2..Len(s)
      BY <1>2, <2>1, <2>3
    <3> QED BY <1>2, <2>4, <3>1 DEF LowerEnded
  <2>7. s[k].at \in {"settleErr", "kids"} /\ status'[s[k].run] \in Terminal
    BY <1>2, <2>1 DEF LowerEnded
  <2> HIDE DEF s
  <2> QED BY <2>2, <2>3, <2>5, <2>6, <2>7 DEF Uncovered
<1> QED BY <1>4, <1>5

(* A call: the caller, whose run has ended, is left below the frame f. *)
LEMMA PushHolds ==
    ASSUME stack \in [Threads -> Seq(Frames)], NEW t \in Threads, ~Idle(t),
           NEW f \in Frames, NEW g \in Frames,
           stack' = [stack EXCEPT ![t] = <<f, g>> \o Tail(stack[t])],
           g.at \in {"settleErr", "kids"}, status'[g.run] \in Terminal,
           LowerEnded(stack[t], status')
    PROVE  NewTop(t, f)
<1>1. stack[t] \in Seq(Frames) /\ stack[t] # <<>>
  BY DEF Idle
<1> DEFINE s == stack[t]
           q == <<f, g>> \o Tail(s)
<1>2. Tail(s) \in Seq(Frames) /\ Len(Tail(s)) = Len(s) - 1 /\ Len(s) \in Nat \ {0}
  BY <1>1
<1>3. <<f, g>> \in Seq(Frames) /\ Len(<<f, g>>) = 2
  OBVIOUS
<1>4. q \in Seq(Frames) /\ Len(q) = Len(s) + 1
  BY <1>2, <1>3
<1>5. q # <<>> /\ Head(q) = f /\ q[2] = g
  BY <1>2, <1>3, <1>4
<1>6. \A i \in 1..Len(Tail(s)) : Tail(s)[i] = s[i + 1]
  BY <1>1
<1>7. LowerEnded(q, status')
  <2> SUFFICES ASSUME NEW i \in 2..Len(q)
               PROVE  q[i].at \in {"settleErr", "kids"} /\ status'[q[i].run] \in Terminal
    BY DEF LowerEnded
  <2>1. CASE i = 2
    BY <1>5, <2>1
  <2>2. CASE i # 2
    <3>1. i - 2 \in 1..Len(Tail(s)) /\ i - 2 + 1 \in 2..Len(s) /\ i \in Nat
      BY <1>2, <1>4, <2>2
    <3>2. q[i] = Tail(s)[i - 2]
      BY <1>2, <1>3, <3>1
    <3>3. q[i] = s[i - 2 + 1]
      BY <1>6, <3>1, <3>2
    <3> QED BY <3>1, <3>3 DEF LowerEnded
  <2> QED BY <2>1, <2>2
<1>8. stack' = [stack EXCEPT ![t] = q]
  OBVIOUS
<1> HIDE DEF q
<1> QED BY <1>4, <1>5, <1>7, <1>8 DEF NewTop

(* A handler that begins. *)
LEMMA BeginHolds ==
    ASSUME stack \in [Threads -> Seq(Frames)], NEW t \in Threads, NEW f \in Frames,
           stack' = [stack EXCEPT ![t] = <<f>>]
    PROVE  NewTop(t, f)
<1>1. <<f>> \in Seq(Frames) /\ <<f>> # <<>> /\ Head(<<f>>) = f /\ Len(<<f>>) = 1
  OBVIOUS
<1>2. LowerEnded(<<f>>, status')
  BY <1>1 DEF LowerEnded
<1> QED BY <1>1, <1>2 DEF NewTop

---------------------------------------------------------------------------
(* Calm steps: runs end, approvals are asked for or answered, and threads  *)
(* go on without a right they did not have.                                *)

RunsOnlyEnd ==
    \A r \in Runs : \/ status'[r] = status[r]
                    \/ status[r] \in Cancellable /\ status'[r] \in Terminal

AnswersOnlyCome ==
    \A a \in Approvals :
      \/ approval'[a] = approval[a]
      \/ approval[a] = "pending" /\ approval'[a] \in {"approved", "rejected"}
      \/ /\ a[2] = "tool" /\ status[a[1]] = "running"
         /\ approval[a] = "none" /\ approval'[a] = "pending"

\* The approval of a start is answered exactly when the run stops waiting for it.
StartsAnswered ==
    \A r \in Runs : status[r] = "waitingForApproval" =>
      (approval'[<<r, "start">>] = "pending" <=> status'[r] = "waitingForApproval")

CalmTop(t) ==
    /\ LowerEnded(stack'[t], status')
    /\ stack'[t] # <<>> =>
         LET f == Head(stack'[t])
         IN  /\ f.at \notin Birth /\ f.at # "promote"
             /\ f.at \in Starting =>
                  ~Idle(t) /\ Top(t).at \in Starting /\ Top(t).run = f.run
             /\ f.at \in Ending => status'[f.run] \in Terminal

Calm ==
    /\ ~Still
    /\ RunsOnlyEnd /\ AnswersOnlyCome /\ StartsAnswered
    /\ \A t \in Threads : stack'[t] = stack[t] \/ CalmTop(t)
    /\ \A r \in Runs : live'[r].entry = live[r].entry
    /\ UNCHANGED <<phase, sched, issued, launched>>

\* The invariants of the top frames, on the next state.
CreatingNext(r) ==
    \E u \in Threads : /\ stack'[u] # <<>>
                       /\ Head(stack'[u]).at \in Birth /\ Head(stack'[u]).run = r

FrameSoundNext(f) ==
    /\ f.at \in Birth => status'[f.run] = "absent" /\ f.run \in issued'
    /\ f.at = "commitStart" => f.run \in sched'.active
    /\ f.at \in Starting =>
         /\ status'[f.run] \notin Beginning
         /\ launched'[f.run] = 0
         /\ approval'[<<f.run, "start">>] \in {"none", "approved"}
    /\ f.at \in Ending => status'[f.run] \in Terminal
    /\ f.at = "promote" => f.run \in issued'
    /\ f.at = "promote" /\ (status'[f.run] = "queued" \/ CreatingNext(f.run)) =>
         f.run \in sched'.active

\* What no step may do to an end or to an answer.
KeepsDecisions ==
    /\ \A r \in Runs : status[r] \in Terminal => status'[r] = status[r]
    /\ \A a \in Approvals : approval[a] \in {"approved", "rejected"} => approval'[a] = approval[a]

(* The parts of the invariant that a step concerns. *)
LEMMA FramesTyped ==
    ASSUME TypeInv, NEW t \in Threads, ~Idle(t)
    PROVE  /\ stack[t] \in Seq(Frames) /\ stack[t] # <<>>
           /\ Top(t) \in Frames /\ Top(t).run \in Runs
           /\ Top(t).at # "expire" /\ Top(t).op # "expire" => Top(t) \in RunFrames
           /\ Top(t).at \notin {"expire", "resolveLive"} => Top(t) \in RunFrames
           /\ Top(t).at = "expire" => Top(t) \in ExpiryFrames
<1>1. stack[t] \in Seq(Frames) /\ stack[t] # <<>>
  BY DEF TypeInv, Idle
<1>2. Top(t) \in Frames
  BY <1>1 DEF Top
<1> QED BY <1>1, <1>2 DEF Frames, RunFrames, ExpiryFrames, Ops, Places

LEMMA ApprovalsOf ==
    ASSUME NEW r \in Runs
    PROVE  <<r, "start">> \in Approvals /\ <<r, "tool">> \in Approvals
  BY DEF Approvals

(* What lies below the tops stays ended while runs only end. *)
LEMMA LowerStays ==
    ASSUME TypeInv, NEW t \in Threads, LowerFramesEnded,
           \A r \in Runs : status[r] \in Terminal => status'[r] \in Terminal
    PROVE  LowerEnded(stack[t], status')
<1>1. stack[t] \in Seq(Frames)
  BY DEF TypeInv
<1> SUFFICES ASSUME NEW i \in 2..Len(stack[t])
             PROVE  /\ stack[t][i].at \in {"settleErr", "kids"}
                    /\ status'[stack[t][i].run] \in Terminal
  BY DEF LowerEnded
<1>2. stack[t][i] \in Frames
  BY <1>1
<1>3. stack[t][i].run \in Runs
  BY <1>2 DEF Frames, RunFrames, ExpiryFrames
<1>4. stack[t][i].at \in {"settleErr", "kids"} /\ status[stack[t][i].run] \in Terminal
  BY DEF LowerFramesEnded, LowerEnded
<1> QED BY <1>3, <1>4

LEMMA TopsSoundNext ==
    ASSUME \A t \in Threads : stack'[t] # <<>> => FrameSoundNext(Head(stack'[t]))
    PROVE  TopsSound'
  BY DEF TopsSound, FrameSound, FrameSoundNext, Creating, CreatingNext, Idle, Top

LEMMA TopsApartNext ==
    ASSUME \A t, u \in Threads : t # u /\ stack'[t] # <<>> /\ stack'[u] # <<>> =>
              FramesApart(Head(stack'[t]), Head(stack'[u]))
    PROVE  TopsApart'
  BY DEF TopsApart, FramesApart, Idle, Top

LEMMA CalmKeeps ==
    ASSUME TypeInv, TypeInv', StateInv, RunningIsOwned, SlotInv, Calm
    PROVE  StateInv' /\ RunningIsOwned' /\ SlotInv' /\ KeepsDecisions
<1>1. /\ LowerFramesEnded /\ TopsSound /\ TopsApart /\ RunsSound /\ StillSound /\ QueueIssued
      /\ ActiveHoldsSlot /\ OneExclusiveSlot /\ OneWriter
  BY DEF StateInv, SlotInv
<1>2. /\ ~Still /\ phase' = phase /\ sched' = sched /\ issued' = issued /\ launched' = launched
      /\ RunsOnlyEnd /\ AnswersOnlyCome /\ StartsAnswered
      /\ \A r \in Runs : live'[r].entry = live[r].entry
      /\ \A t \in Threads : stack'[t] = stack[t] \/ CalmTop(t)
  BY DEF Calm
<1>3. \A r \in Runs : /\ status[r] \in Terminal => status'[r] = status[r]
                      /\ status'[r] \in Cancellable \union {"absent"} => status'[r] = status[r]
                      /\ status[r] = "absent" => status'[r] = "absent"
                      /\ status[r] \notin Beginning => status'[r] \notin Beginning
  BY <1>2 DEF RunsOnlyEnd, Cancellable, Active, Terminal, Beginning
<1>4. \A a \in Approvals :
         /\ approval[a] \in {"approved", "rejected"} => approval'[a] = approval[a]
         /\ approval[a] = "none" =>
              approval'[a] = "none" \/ (status[a[1]] = "running" /\ a[2] = "tool")
  BY <1>2 DEF AnswersOnlyCome
<1>5. KeepsDecisions
  BY <1>3, <1>4 DEF KeepsDecisions
<1>6. ASSUME NEW t \in Threads PROVE LowerEnded(stack'[t], status')
  <2>1. LowerEnded(stack[t], status')
    BY <1>1, <1>3, LowerStays
  <2> QED BY <1>2, <2>1 DEF CalmTop
\* Every right a thread has after the step, it had before.
<1>7. ASSUME NEW t \in Threads, stack'[t] # <<>>
      PROVE  LET f == Head(stack'[t])
             IN  /\ f.run \in Runs
                 /\ f.at \in Birth => ~Idle(t) /\ f = Top(t)
                 /\ f.at = "promote" => ~Idle(t) /\ f = Top(t)
                 /\ f.at \in Starting =>
                      ~Idle(t) /\ Top(t).at \in Starting /\ Top(t).run = f.run
                 /\ f.at \in Ending => status'[f.run] \in Terminal
  <2>1. Head(stack'[t]).run \in Runs
    <3>1. stack'[t] \in Seq(Frames)
      BY DEF TypeInv
    <3>2. Head(stack'[t]) \in Frames
      BY <1>7, <3>1
    <3> QED BY <3>2 DEF Frames, RunFrames, ExpiryFrames
  <2>2. CASE stack'[t] = stack[t]
    <3>1. ~Idle(t) /\ Head(stack'[t]) = Top(t)
      BY <1>7, <2>2 DEF Idle, Top
    <3>2. FrameSound(Top(t))
      BY <1>1, <3>1 DEF TopsSound
    <3>3. Top(t).at \in Ending => status[Top(t).run] \in Terminal
      BY <3>2 DEF FrameSound
    <3> QED BY <1>3, <2>1, <3>1, <3>3
  <2>3. CASE CalmTop(t)
    BY <1>7, <2>1, <2>3 DEF CalmTop
  <2> QED BY <1>2, <2>2, <2>3
<1>8. ASSUME NEW r, CreatingNext(r) PROVE Creating(r)
  <2>1. PICK u \in Threads : /\ stack'[u] # <<>>
                             /\ Head(stack'[u]).at \in Birth /\ Head(stack'[u]).run = r
    BY <1>8 DEF CreatingNext
  <2>2. ~Idle(u) /\ Head(stack'[u]) = Top(u)
    BY <1>7, <2>1
  <2> QED BY <2>1, <2>2 DEF Creating
<1>9. LowerFramesEnded'
  BY <1>6 DEF LowerFramesEnded
<1>10. TopsSound'
  <2> SUFFICES ASSUME NEW t \in Threads, stack'[t] # <<>> PROVE FrameSoundNext(Head(stack'[t]))
    BY TopsSoundNext
  <2> DEFINE f == Head(stack'[t])
             r == f.run
  <2>1. /\ r \in Runs
        /\ f.at \in Birth \/ f.at = "promote" => ~Idle(t) /\ f = Top(t)
        /\ f.at \in Starting => ~Idle(t) /\ Top(t).at \in Starting /\ Top(t).run = r
        /\ f.at \in Ending => status'[r] \in Terminal
    BY <1>7
  <2>2. ~Idle(t) => FrameSound(Top(t))
    BY <1>1 DEF TopsSound
  <2> HIDE DEF f
  <2>3. f.at \in Birth => status'[r] = "absent" /\ r \in issued'
    BY <1>2, <1>3, <2>1, <2>2 DEF FrameSound
  <2>4. f.at = "commitStart" => r \in sched'.active
    BY <1>2, <2>1, <2>2 DEF FrameSound, Birth
  <2>5. f.at \in Starting => /\ status'[r] \notin Beginning
                             /\ launched'[r] = 0
                             /\ approval'[<<r, "start">>] \in {"none", "approved"}
    <3> SUFFICES ASSUME f.at \in Starting
                 PROVE  /\ status'[r] \notin Beginning
                        /\ launched'[r] = 0
                        /\ approval'[<<r, "start">>] \in {"none", "approved"}
      OBVIOUS
    <3>1. /\ status[r] \notin Beginning /\ launched[r] = 0
          /\ approval[<<r, "start">>] \in {"none", "approved"}
      BY <2>1, <2>2 DEF FrameSound
    <3>2. <<r, "start">> \in Approvals /\ <<r, "start">>[2] # "tool"
      BY <2>1, ApprovalsOf
    <3>3. approval'[<<r, "start">>] = approval[<<r, "start">>]
      BY <1>4, <3>1, <3>2
    <3> QED BY <1>2, <1>3, <2>1, <3>1, <3>3
  <2>8. f.at = "promote" => r \in issued'
    BY <1>2, <2>1, <2>2 DEF FrameSound
  <2>6. f.at = "promote" /\ (status'[r] = "queued" \/ CreatingNext(r)) => r \in sched'.active
    BY <1>2, <1>3, <1>8, <2>1, <2>2 DEF FrameSound, Cancellable
  <2>7. FrameSoundNext(f)
    BY <2>1, <2>3, <2>4, <2>5, <2>6, <2>8 DEF FrameSoundNext
  <2> QED BY <2>7 DEF f
<1>11. TopsApart'
  <2> SUFFICES ASSUME NEW t \in Threads, NEW u \in Threads, t # u,
                      stack'[t] # <<>>, stack'[u] # <<>>
               PROVE  FramesApart(Head(stack'[t]), Head(stack'[u]))
    BY TopsApartNext
  <2>1. ~Idle(t) /\ ~Idle(u) => FramesApart(Top(t), Top(u))
    BY <1>1 DEF TopsApart
  <2> DEFINE f == Head(stack'[t])
             g == Head(stack'[u])
  <2>2. /\ f.at \in Birth => ~Idle(t) /\ f = Top(t)
        /\ g.at \in Birth => ~Idle(u) /\ g = Top(u)
        /\ f.at \in Starting => ~Idle(t) /\ Top(t).at \in Starting /\ Top(t).run = f.run
        /\ g.at \in Starting => ~Idle(u) /\ Top(u).at \in Starting /\ Top(u).run = g.run
    BY <1>7
  <2> HIDE DEF f, g
  <2>3. FramesApart(f, g)
    BY <2>1, <2>2 DEF FramesApart
  <2> QED BY <2>3 DEF f, g
<1>12. RunsSound'
  <2> SUFFICES ASSUME NEW r \in Runs PROVE RunSound(r)'
    BY DEF RunsSound
  <2>1. RunSound(r)
    BY <1>1 DEF RunsSound
  <2> DEFINE a == <<r, "start">>
             b == <<r, "tool">>
  <2>2. a \in Approvals /\ b \in Approvals /\ a[2] = "start" /\ a[1] = r /\ b[1] = r
    BY ApprovalsOf
  <2>3. /\ approval[a] = "none" => approval'[a] = "none"
        /\ approval[b] = "none" => approval'[b] = "none" \/ status[r] = "running"
        /\ approval[a] = "approved" => approval'[a] = "approved"
        /\ approval'[a] = "pending" => approval[a] = "pending"
    <3>1. approval'[a] = "pending" => approval[a] = "pending"
      BY <1>2, <2>2 DEF AnswersOnlyCome
    <3> QED BY <1>4, <2>2, <3>1
  <2>4. status'[r] \in Beginning => status'[r] = status[r] /\ status[r] # "running"
    BY <1>3 DEF Beginning, Cancellable, Active
  <2>5. approval'[a] = "pending" <=> status'[r] = "waitingForApproval"
    BY <1>2, <2>1, <2>3, <2>4 DEF StartsAnswered, RunSound, Beginning
  <2>6. status'[r] \in {"absent", "queued"} => approval'[a] = "none"
    BY <2>1, <2>3, <2>4 DEF RunSound, Beginning
  <2>7. status'[r] \in Beginning => approval'[b] = "none" /\ launched'[r] = 0
    BY <1>2, <2>1, <2>3, <2>4 DEF RunSound
  <2>8. launched'[r] > 0 => approval'[a] \in {"none", "approved"}
    BY <1>2, <2>1, <2>3 DEF RunSound
  <2>9. status'[r] # "absent" => r \in issued'
    BY <1>2, <1>3, <2>1 DEF RunSound
  <2>10. launched'[r] <= 1
    BY <1>2, <2>1 DEF RunSound
  <2> QED BY <2>5, <2>6, <2>7, <2>8, <2>9, <2>10 DEF RunSound
<1>13. StillSound'
  BY <1>2 DEF StillSound, Still
<1>14. RunningIsOwned'
  BY <1>2, <1>3 DEF RunningIsOwned, Cancellable, Active
<1>15. SlotInv'
  <2>1. ActiveHoldsSlot'
    BY <1>1, <1>2, <1>3 DEF ActiveHoldsSlot, Cancellable
  <2>2. OneExclusiveSlot'
    BY <1>1, <1>2 DEF OneExclusiveSlot
  <2>3. OneWriter'
    <3> SUFFICES ASSUME NEW r \in Exclusive, NEW s \in Exclusive,
                        status'[r] \in Active, status'[s] \in Active
                 PROVE  r = s
      BY DEF OneWriter
    <3>1. r \in Runs /\ s \in Runs
      BY DEF Exclusive
    <3>2. status[r] \in Active /\ status[s] \in Active
      BY <1>3, <3>1 DEF Cancellable
    <3> QED BY <1>1, <3>2 DEF OneWriter
  <2> QED BY <2>1, <2>2, <2>3 DEF SlotInv
<1>16. QueueIssued'
  BY <1>1, <1>2 DEF QueueIssued
<1> QED BY <1>16, <1>5, <1>9, <1>10, <1>11, <1>12, <1>13, <1>14, <1>15 DEF StateInv

---------------------------------------------------------------------------
(* What a calm step is made of: what it does in the store, ...             *)

StoreCalm ==
    /\ status' \in [Runs -> Cancellable \union Terminal \union {"absent"}]
    /\ approval' \in [Approvals -> {"none", "pending", "approved", "rejected"}]
    /\ overdue' \subseteq Approvals
    /\ RunsOnlyEnd /\ AnswersOnlyCome /\ StartsAnswered

\* ... to the stacks ...
StackCalm ==
    /\ stack' \in [Threads -> Seq(Frames)]
    /\ \A t \in Threads : stack'[t] = stack[t] \/ CalmTop(t)

\* ... and to the rest.
RestCalm ==
    /\ live' \in [Runs -> [entry : BOOLEAN, handle : BOOLEAN,
                           requested : BOOLEAN, delivered : BOOLEAN]]
    /\ \A r \in Runs : live'[r].entry = live[r].entry
    /\ prov' \in [Runs -> {"none", "working", "asking", "over"}]
    /\ stopped' \subseteq Runs
    /\ UNCHANGED <<created, phase, sched, issued, launched>>

LEMMA RestUnchanged ==
    ASSUME IInv, UNCHANGED <<created, volatile, phase, history>>
    PROVE  RestCalm
  BY DEF IInv, TypeInv, TypeData, RestCalm, volatile, history

LEMMA CalmStep ==
    ASSUME IInv, ~Still, StoreCalm, StackCalm, RestCalm
    PROVE  IInv' /\ KeepsDecisions
<1>1. TypeInv'
  <2>1. TypeData
    BY DEF IInv, TypeInv
  <2>2. UNCHANGED <<created, phase, sched, issued, launched>>
    BY DEF RestCalm
  <2>3. TypeData'
    BY <2>1, <2>2 DEF StoreCalm, RestCalm, TypeData
  <2> QED BY <2>3 DEF StackCalm, TypeInv
<1>2. Calm
  BY DEF StoreCalm, StackCalm, RestCalm, Calm
<1> QED BY <1>1, <1>2, CalmKeeps DEF IInv

(* The top of a thread that acts. *)
LEMMA TopFacts ==
    ASSUME IInv, NEW t \in Threads, ~Idle(t)
    PROVE  /\ ~Still
           /\ FrameSound(Top(t))
           /\ stack \in [Threads -> Seq(Frames)]
           /\ Top(t) \in Frames /\ Top(t).run \in Runs
           /\ Top(t).at \notin {"expire", "resolveLive"} => Top(t) \in RunFrames
           /\ Top(t).op # "expire" /\ Top(t).at # "expire" => Top(t) \in RunFrames
           /\ Top(t).at = "expire" => Top(t) \in ExpiryFrames
<1>1. TypeInv /\ TopsSound /\ StillSound
  BY DEF IInv, StateInv
<1>2. ~Still
  BY <1>1 DEF StillSound
<1>3. FrameSound(Top(t))
  BY <1>1 DEF TopsSound
<1>4. stack \in [Threads -> Seq(Frames)]
  BY <1>1 DEF TypeInv
<1> QED BY <1>1, <1>2, <1>3, <1>4, FramesTyped

LEMMA LowerCalm ==
    ASSUME IInv, NEW t \in Threads, StoreCalm
    PROVE  LowerEnded(stack[t], status') /\ stack \in [Threads -> Seq(Frames)]
<1>1. \A r \in Runs : status[r] \in Terminal => status'[r] \in Terminal
  BY DEF StoreCalm, RunsOnlyEnd
<1>2. TypeInv /\ LowerFramesEnded
  BY DEF IInv, StateInv
<1> QED BY <1>1, <1>2, LowerStays DEF TypeInv

(* The store: nothing happens, ... *)
LEMMA StoreUnchanged ==
    ASSUME IInv, UNCHANGED <<status, approval, overdue>>
    PROVE  StoreCalm
<1>1. \A r \in Runs : RunSound(r)
  BY DEF IInv, StateInv, RunsSound
<1>2. StartsAnswered
  BY <1>1 DEF StartsAnswered, RunSound
<1> QED BY <1>2 DEF IInv, TypeInv, TypeData, StoreCalm, RunsOnlyEnd, AnswersOnlyCome

(* ... a run ends that is running or queued, ... *)
LEMMA RunningEnds ==
    ASSUME IInv, NEW r \in Runs, NEW st \in Terminal, status[r] \in {"running", "queued"},
           SetStatus(r, st), UNCHANGED <<approval, overdue>>
    PROVE  StoreCalm
<1>1. /\ TypeData
      /\ \A s \in Runs : RunSound(s)
  BY DEF IInv, TypeInv, StateInv, RunsSound
<1>2. status' \in [Runs -> Cancellable \union Terminal \union {"absent"}]
  BY <1>1 DEF TypeData, SetStatus
<1>3. RunsOnlyEnd /\ AnswersOnlyCome
  BY <1>1 DEF TypeData, SetStatus, RunsOnlyEnd, AnswersOnlyCome, Cancellable, Active
<1>4. StartsAnswered
  BY <1>1 DEF TypeData, SetStatus, StartsAnswered, RunSound
<1> QED BY <1>1, <1>2, <1>3, <1>4 DEF TypeData, StoreCalm

(* ... a run ends and its approvals are rejected with it, ... *)
LEMMA RunEndsWithApprovals ==
    ASSUME IInv, NEW r \in Runs, NEW st \in Terminal, status[r] \in Cancellable,
           SetStatus(r, st), Resolve(PendingOf(r), "rejected")
    PROVE  StoreCalm
<1>1. /\ TypeData
      /\ \A s \in Runs : RunSound(s)
  BY DEF IInv, TypeInv, StateInv, RunsSound
<1>2. status' \in [Runs -> Cancellable \union Terminal \union {"absent"}]
  BY <1>1 DEF TypeData, SetStatus
<1>3. /\ approval' \in [Approvals -> {"none", "pending", "approved", "rejected"}]
      /\ overdue' \subseteq Approvals
  BY <1>1 DEF TypeData, Resolve
<1>4. RunsOnlyEnd
  BY <1>1 DEF TypeData, SetStatus, RunsOnlyEnd
<1>5. AnswersOnlyCome
  BY <1>1 DEF TypeData, Resolve, PendingOf, AnswersOnlyCome
<1>6. StartsAnswered
  <2> SUFFICES ASSUME NEW s \in Runs, status[s] = "waitingForApproval"
               PROVE  approval'[<<s, "start">>] = "pending" <=> status'[s] = "waitingForApproval"
    BY DEF StartsAnswered
  <2>1. <<s, "start">> \in Approvals /\ approval[<<s, "start">>] = "pending"
    BY <1>1, ApprovalsOf DEF RunSound
  <2>2. CASE s = r
    <3>1. <<s, "start">> \in PendingOf(r)
      BY <2>1, <2>2 DEF PendingOf
    <3>2. approval'[<<s, "start">>] = "rejected"
      BY <2>1, <3>1 DEF Resolve
    <3>3. status'[s] = st
      BY <1>1, <2>2 DEF TypeData, SetStatus
    <3> QED BY <3>2, <3>3 DEF Terminal
  <2>3. CASE s # r
    <3>1. <<s, "start">> \notin PendingOf(r)
      BY <2>3 DEF PendingOf
    <3>2. approval'[<<s, "start">>] = "pending"
      BY <2>1, <3>1 DEF Resolve
    <3>3. status'[s] = "waitingForApproval"
      BY <1>1, <2>3 DEF TypeData, SetStatus
    <3> QED BY <3>2, <3>3
  <2> QED BY <2>2, <2>3
<1> QED BY <1>2, <1>3, <1>4, <1>5, <1>6 DEF StoreCalm

(* ... a start that waits for its approval is turned down, ... *)
LEMMA StartRejected ==
    ASSUME IInv, NEW a \in Approvals, NEW d \in {"approved", "rejected"},
           approval[a] = "pending", status[a[1]] = "waitingForApproval",
           SetStatus(a[1], "failed"), Resolve({a}, d)
    PROVE  StoreCalm
<1> DEFINE r == a[1]
<1>1. /\ TypeData
      /\ \A s \in Runs : RunSound(s)
  BY DEF IInv, TypeInv, StateInv, RunsSound
<1>2. r \in Runs /\ a = <<r, "start">>
  <2>1. r \in Runs /\ (a = <<r, "start">> \/ a = <<r, "tool">>)
    BY DEF Approvals
  <2>2. approval[<<r, "tool">>] = "none"
    BY <1>1, <2>1 DEF RunSound, Beginning
  <2> QED BY <2>1, <2>2
<1>3. status' \in [Runs -> Cancellable \union Terminal \union {"absent"}]
  BY <1>1 DEF TypeData, SetStatus, Terminal
<1>4. /\ approval' \in [Approvals -> {"none", "pending", "approved", "rejected"}]
      /\ overdue' \subseteq Approvals
  BY <1>1 DEF TypeData, Resolve
<1>5. RunsOnlyEnd
  BY <1>1 DEF TypeData, SetStatus, RunsOnlyEnd, Cancellable, Active, Terminal
<1>6. AnswersOnlyCome
  BY <1>1 DEF TypeData, Resolve, AnswersOnlyCome
<1>7. StartsAnswered
  <2> SUFFICES ASSUME NEW s \in Runs, status[s] = "waitingForApproval"
               PROVE  approval'[<<s, "start">>] = "pending" <=> status'[s] = "waitingForApproval"
    BY DEF StartsAnswered
  <2>1. <<s, "start">> \in Approvals /\ approval[<<s, "start">>] = "pending"
    BY <1>1, ApprovalsOf DEF RunSound
  <2>2. CASE s = r
    BY <1>1, <1>2, <2>1, <2>2 DEF TypeData, SetStatus, Resolve
  <2>3. CASE s # r
    <3>1. <<s, "start">> # a
      BY <1>2, <2>3
    <3>2. approval'[<<s, "start">>] = "pending"
      BY <2>1, <3>1 DEF Resolve
    <3>3. status'[s] = "waitingForApproval"
      BY <1>1, <2>3 DEF TypeData, SetStatus
    <3> QED BY <3>2, <3>3
  <2> QED BY <2>2, <2>3
<1> QED BY <1>3, <1>4, <1>5, <1>6, <1>7 DEF StoreCalm

(* ... an approval of a run that does not wait for its start is answered, ... *)
LEMMA ToolAnswered ==
    ASSUME IInv, NEW as \in SUBSET Approvals, NEW d \in {"approved", "rejected"},
           \A a \in as : approval[a] = "pending" /\ status[a[1]] # "waitingForApproval",
           UNCHANGED status, Resolve(as, d)
    PROVE  StoreCalm
<1>1. /\ TypeData
      /\ \A s \in Runs : RunSound(s)
  BY DEF IInv, TypeInv, StateInv, RunsSound
<1>2. /\ approval' \in [Approvals -> {"none", "pending", "approved", "rejected"}]
      /\ overdue' \subseteq Approvals
  BY <1>1 DEF TypeData, Resolve
<1>3. RunsOnlyEnd /\ AnswersOnlyCome
  BY <1>1 DEF TypeData, Resolve, RunsOnlyEnd, AnswersOnlyCome
<1>4. StartsAnswered
  <2> SUFFICES ASSUME NEW s \in Runs, status[s] = "waitingForApproval"
               PROVE  approval'[<<s, "start">>] = "pending"
    BY DEF StartsAnswered
  <2>1. <<s, "start">> \in Approvals /\ approval[<<s, "start">>] = "pending"
    BY <1>1, ApprovalsOf DEF RunSound
  <2>2. <<s, "start">> \notin as
    OBVIOUS
  <2> QED BY <2>1, <2>2 DEF Resolve
<1> QED BY <1>1, <1>2, <1>3, <1>4 DEF TypeData, StoreCalm

(* ... or a tool call of a running run is asked about. *)
LEMMA ToolAsked ==
    ASSUME IInv, NEW r \in Runs, status[r] = "running", approval[<<r, "tool">>] = "none",
           approval' = [approval EXCEPT ![<<r, "tool">>] = "pending"],
           UNCHANGED <<status, overdue>>
    PROVE  StoreCalm
<1>1. /\ TypeData
      /\ \A s \in Runs : RunSound(s)
  BY DEF IInv, TypeInv, StateInv, RunsSound
<1>2. <<r, "tool">> \in Approvals /\ <<r, "tool">>[1] = r /\ <<r, "tool">>[2] = "tool"
  BY ApprovalsOf
<1>3. approval' \in [Approvals -> {"none", "pending", "approved", "rejected"}]
  BY <1>1 DEF TypeData
<1>4. RunsOnlyEnd /\ AnswersOnlyCome
  BY <1>1, <1>2 DEF TypeData, RunsOnlyEnd, AnswersOnlyCome
<1>5. StartsAnswered
  <2> SUFFICES ASSUME NEW s \in Runs, status[s] = "waitingForApproval"
               PROVE  approval'[<<s, "start">>] = "pending"
    BY DEF StartsAnswered
  <2>1. <<s, "start">> \in Approvals /\ approval[<<s, "start">>] = "pending"
    BY <1>1, ApprovalsOf DEF RunSound
  <2>2. <<s, "start">> # <<r, "tool">>
    OBVIOUS
  <2> QED BY <1>1, <2>1, <2>2 DEF TypeData
<1> QED BY <1>1, <1>3, <1>4, <1>5 DEF TypeData, StoreCalm

(* The stacks: nothing moves, ... *)
LEMMA StackUnchanged ==
    ASSUME IInv, UNCHANGED stack
    PROVE  StackCalm
  BY DEF IInv, TypeInv, StackCalm

(* ... a handler begins, ... *)
LEMMA BeginCalm ==
    ASSUME IInv, StoreCalm, NEW t \in Threads, NEW f \in Frames,
           stack' = [stack EXCEPT ![t] = <<f>>],
           f.at \notin Birth \union Starting \union {"promote"},
           f.at \in Ending => status'[f.run] \in Terminal
    PROVE  StackCalm
<1>1. NewTop(t, f)
  BY BeginHolds DEF IInv, TypeInv
<1> QED BY <1>1 DEF NewTop, CalmTop, StackCalm

(* ... a frame is replaced, ... *)
LEMMA BecomeCalm ==
    ASSUME IInv, StoreCalm, NEW t \in Threads, ~Idle(t), NEW f \in Frames, Become(t, f),
           f.at \notin Birth \union Starting \union {"promote"},
           f.at \in Ending => status'[f.run] \in Terminal
    PROVE  StackCalm
<1>1. NewTop(t, f)
  BY LowerCalm, BecomeHolds
<1> QED BY <1>1 DEF NewTop, CalmTop, StackCalm

(* ... goes on, ... *)
LEMMA GotoCalm ==
    ASSUME IInv, StoreCalm, NEW t \in Threads, ~Idle(t), NEW at \in Places, Goto(t, at),
           Top(t) \in RunFrames,
           at \notin Birth /\ at # "promote",
           at \in Starting => Top(t).at \in Starting,
           at \in Ending => status'[Top(t).run] \in Terminal
    PROVE  StackCalm
<1> DEFINE f == [Top(t) EXCEPT !.at = at]
<1>1. NewTop(t, f) /\ f.at = at /\ f.run = Top(t).run
  BY LowerCalm, GotoHolds
<1> HIDE DEF f
<1>2. CalmTop(t)
  BY <1>1 DEF NewTop, CalmTop
<1> QED BY <1>1, <1>2 DEF NewTop, StackCalm

(* ... returns, ends with an error, ... *)
LEMMA ReturnCalm ==
    ASSUME IInv, StoreCalm, NEW t \in Threads, ~Idle(t), Return(t)
    PROVE  StackCalm
<1>1. Uncovered(t)
  BY LowerCalm, ReturnHolds
<1> QED BY <1>1 DEF Uncovered, CalmTop, StackCalm, Birth, Starting

LEMMA RaiseCalm ==
    ASSUME IInv, StoreCalm, NEW t \in Threads, ~Idle(t), Raise(t)
    PROVE  StackCalm
<1>1. Uncovered(t)
  BY LowerCalm, RaiseHolds
<1> QED BY <1>1 DEF Uncovered, CalmTop, StackCalm, Birth, Starting

(* ... or calls. *)
LEMMA PushCalm ==
    ASSUME IInv, StoreCalm, NEW t \in Threads, ~Idle(t), NEW f \in Frames, NEW g \in Frames,
           stack' = [stack EXCEPT ![t] = <<f, g>> \o Tail(stack[t])],
           g.at \in {"settleErr", "kids"}, status'[g.run] \in Terminal,
           f.at \notin Birth \union Starting \union {"promote"},
           f.at \in Ending => status'[f.run] \in Terminal
    PROVE  StackCalm
<1>1. NewTop(t, f)
  BY LowerCalm, PushHolds
<1> QED BY <1>1 DEF NewTop, CalmTop, StackCalm

(* advance_ready_queue for a run that has ended. *)
LEMMA AdvanceTyped ==
    ASSUME NEW r \in Runs
    PROVE  /\ Advance(r) \in Frames /\ Advance(r).at = "finish" /\ Advance(r).run = r
           /\ Advance(r).at \notin Birth \union Starting \union {"promote"}
  BY DEF Advance, Frame, Frames, RunFrames, Ops, Places, Birth, Starting

(* The caller of start_provider_execution goes on. *)
LEMMA SettledCalm ==
    ASSUME IInv, StoreCalm, NEW t \in Threads, ~Idle(t), Top(t) \in RunFrames,
           NEW st, Settled(t, st), st = "failed" => status'[Top(t).run] \in Terminal
    PROVE  StackCalm
<1>1. Top(t).run \in Runs
  BY DEF RunFrames
<1>2. CASE Top(t).op = "advance" /\ st = "failed"
  <2>1. Goto(t, "finish")
    BY <1>2 DEF Settled
  <2>2. "finish" \in Places /\ "finish" \notin Birth /\ "finish" # "promote" /\ "finish" \notin Starting
    BY DEF Places, Birth, Starting
  <2> QED BY <1>2, <2>1, <2>2, GotoCalm
<1>3. CASE Top(t).op \in {"start", "decide"} /\ st = "failed"
  <2>1. Become(t, Advance(Top(t).run))
    BY <1>3 DEF Settled
  <2> QED BY <1>1, <1>3, <2>1, AdvanceTyped, BecomeCalm
<1>4. CASE ~(Top(t).op = "advance" /\ st = "failed")
           /\ ~(Top(t).op \in {"start", "decide"} /\ st = "failed")
  <2>1. Return(t)
    BY <1>4 DEF Settled
  <2> QED BY <2>1, ReturnCalm
<1> QED BY <1>2, <1>3, <1>4

---------------------------------------------------------------------------
(* The calm steps, one by one.                                             *)

Kept == IInv' /\ KeepsDecisions

(* Steps that only move a thread along. *)
LEMMA MovesOn ==
    ASSUME IInv, ~Still, StackCalm, UNCHANGED <<durable, volatile, phase, history>>
    PROVE  Kept
<1>1. StoreCalm
  BY StoreUnchanged DEF durable
<1>2. RestCalm
  BY RestUnchanged DEF durable
<1> QED BY <1>1, <1>2, CalmStep DEF Kept

LEMMA BudgetOkKeeps ==
    ASSUME IInv, NEW t \in Threads, BudgetOk(t)
    PROVE  Kept
<1>1. ~Idle(t) /\ Top(t).at = "budget" /\ UNCHANGED <<durable, volatile, phase, history>>
  BY DEF BudgetOk, At
<1>2. StoreCalm
  BY <1>1, StoreUnchanged DEF durable
<1>3. Top(t) \in RunFrames /\ ~Still
  BY <1>1, TopFacts
<1>4. Goto(t, "launch")
  BY DEF BudgetOk
<1>5. StackCalm
  BY <1>1, <1>2, <1>3, <1>4, GotoCalm DEF Places, Birth, Starting, Ending
<1> QED BY <1>1, <1>3, <1>5, MovesOn

LEMMA BudgetSpentKeeps ==
    ASSUME IInv, NEW t \in Threads, BudgetSpent(t)
    PROVE  Kept
<1> DEFINE r == Top(t).run
<1>1. ~Idle(t) /\ Top(t).at = "budget" /\ UNCHANGED <<created, volatile, phase, history>>
  BY DEF BudgetSpent, At
<1>2. Top(t) \in RunFrames /\ ~Still /\ r \in Runs /\ stack \in [Threads -> Seq(Frames)]
  BY <1>1, TopFacts
<1>3. RestCalm
  BY <1>1, RestUnchanged
<1>4. CASE status[r] = "running"
  <2>1. /\ SetStatus(r, "budgetExceeded") /\ Resolve(PendingOf(r), "rejected")
        /\ Call(t, Advance(r), "settleErr")
    BY <1>4 DEF BudgetSpent
  <2>2. StoreCalm
    BY <1>2, <1>4, <2>1, RunEndsWithApprovals DEF Cancellable, Active, Terminal
  <2> DEFINE g == [Top(t) EXCEPT !.at = "settleErr"]
  <2>3. g \in Frames /\ g.at = "settleErr" /\ g.run = r
    BY <1>2 DEF RunFrames, Frames, Places
  <2>4. stack' = [stack EXCEPT ![t] = <<Advance(r), g>> \o Tail(stack[t])]
    BY <1>2, <2>1 DEF Call, Top
  <2>5. status'[r] \in Terminal
    BY <1>2, <2>1 DEF SetStatus, Terminal, IInv, TypeInv, TypeData
  <2> HIDE DEF g
  <2>6. StackCalm
    BY <1>1, <1>2, <2>2, <2>3, <2>4, <2>5, AdvanceTyped, PushCalm
  <2> QED BY <1>2, <1>3, <2>2, <2>6, CalmStep DEF Kept
<1>5. CASE status[r] # "running"
  <2>1. Goto(t, "settleErr") /\ UNCHANGED <<status, approval, overdue>>
    BY <1>5 DEF BudgetSpent
  <2>2. StoreCalm
    BY <2>1, StoreUnchanged
  <2>3. StackCalm
    BY <1>1, <1>2, <2>1, <2>2, GotoCalm DEF Places, Birth, Starting, Ending
  <2> QED BY <1>2, <1>3, <2>2, <2>3, CalmStep DEF Kept
<1> QED BY <1>4, <1>5

LEMMA LaunchFailsKeeps ==
    ASSUME IInv, NEW t \in Threads, LaunchFails(t)
    PROVE  Kept
<1>1. ~Idle(t) /\ Top(t).at = "launch" /\ UNCHANGED <<durable, volatile, phase, history>>
  BY DEF LaunchFails, At
<1>2. StoreCalm
  BY <1>1, StoreUnchanged DEF durable
<1>3. Top(t) \in RunFrames /\ ~Still
  BY <1>1, TopFacts
<1>4. Goto(t, "settleErr")
  BY DEF LaunchFails
<1>5. StackCalm
  BY <1>1, <1>2, <1>3, <1>4, GotoCalm DEF Places, Birth, Starting, Ending
<1> QED BY <1>1, <1>3, <1>5, MovesOn

LEMMA AttachKeeps ==
    ASSUME IInv, NEW t \in Threads, Attach(t)
    PROVE  Kept
<1> DEFINE r == Top(t).run
<1>1. /\ ~Idle(t) /\ Top(t).at = "attach"
      /\ UNCHANGED <<durable, sched, prov, phase, history>>
  BY DEF Attach, At
<1>2. Top(t) \in RunFrames /\ ~Still /\ r \in Runs
  BY <1>1, TopFacts
<1>3. StoreCalm
  BY <1>1, StoreUnchanged DEF durable
<1>4. RestCalm
  <2>1. TypeData
    BY DEF IInv, TypeInv
  <2>2. /\ live' \in [Runs -> [entry : BOOLEAN, handle : BOOLEAN,
                              requested : BOOLEAN, delivered : BOOLEAN]]
        /\ \A s \in Runs : live'[s].entry = live[s].entry
    <3>1. CASE live[r].entry
      <4>1. live' = [live EXCEPT ![r].handle = TRUE,
                                 ![r].delivered = live[r].requested \/ live[r].delivered]
        BY <3>1 DEF Attach
      <4> DEFINE d == live[r].requested \/ live[r].delivered
      <4>2. live[r] \in LiveEntries
        BY <1>2, <2>1 DEF TypeData, LiveEntries
      <4>3. d \in BOOLEAN
        OBVIOUS
      <4>4. live' = [live EXCEPT ![r].handle = TRUE, ![r].delivered = d]
        BY <4>1
      <4> HIDE DEF d
      <4> DEFINE e == [live[r] EXCEPT !.handle = TRUE, !.delivered = d]
      <4>5. e \in LiveEntries /\ e.entry = live[r].entry
        BY <4>2, <4>3 DEF LiveEntries
      <4>6. live' = [live EXCEPT ![r] = e]
        BY <2>1, <4>2, <4>4 DEF TypeData, LiveEntries
      <4> HIDE DEF e
      <4> QED BY <1>2, <2>1, <4>5, <4>6 DEF TypeData, LiveEntries
    <3>2. CASE ~live[r].entry
      BY <2>1, <3>2 DEF Attach, TypeData
    <3> QED BY <3>1, <3>2
  <2>3. stopped' \subseteq Runs
    BY <1>2, <2>1 DEF Attach, TypeData
  <2> QED BY <1>1, <2>1, <2>2, <2>3 DEF RestCalm, TypeData, durable, history
<1>5. Goto(t, "settleOk") \/ Goto(t, "settleErr")
  BY DEF Attach
<1>6. StackCalm
  BY <1>1, <1>2, <1>3, <1>5, GotoCalm DEF Places, Birth, Starting, Ending
<1> QED BY <1>2, <1>3, <1>4, <1>6, CalmStep DEF Kept

LEMMA SettleOkKeeps ==
    ASSUME IInv, NEW t \in Threads, SettleOk(t)
    PROVE  Kept
<1> DEFINE st == IF Top(t).op = "decide" THEN "running" ELSE status[Top(t).run]
<1>1. ~Idle(t) /\ Top(t).at = "settleOk" /\ UNCHANGED <<durable, volatile, phase, history>>
  BY DEF SettleOk, At
<1>2. Top(t) \in RunFrames /\ ~Still
  BY <1>1, TopFacts
<1>3. StoreCalm
  BY <1>1, StoreUnchanged DEF durable
<1>4. Settled(t, st) /\ (st = "failed" => status'[Top(t).run] \in Terminal)
  BY <1>1 DEF SettleOk, durable, Terminal
<1> HIDE DEF st
<1>5. StackCalm
  BY <1>1, <1>2, <1>3, <1>4, SettledCalm
<1> QED BY <1>1, <1>2, <1>5, MovesOn

LEMMA SettleErrKeeps ==
    ASSUME IInv, NEW t \in Threads, SettleErr(t)
    PROVE  Kept
<1>1. ~Idle(t) /\ Top(t).at = "settleErr" /\ UNCHANGED <<durable, volatile, phase, history>>
  BY DEF SettleErr, At
<1>2. Top(t) \in RunFrames /\ ~Still
  BY <1>1, TopFacts
<1>3. StoreCalm
  BY <1>1, StoreUnchanged DEF durable
<1>4. CASE status[Top(t).run] = "running"
  <2>1. Goto(t, "failRun")
    BY <1>4 DEF SettleErr
  <2>2. StackCalm
    BY <1>1, <1>2, <1>3, <2>1, GotoCalm DEF Places, Birth, Starting, Ending
  <2> QED BY <1>1, <1>2, <2>2, MovesOn
<1>5. CASE status[Top(t).run] # "running"
  <2> DEFINE st == status[Top(t).run]
  <2>1. Settled(t, st) /\ (st = "failed" => status'[Top(t).run] \in Terminal)
    BY <1>1, <1>5 DEF SettleErr, durable, Terminal
  <2> HIDE DEF st
  <2>2. StackCalm
    BY <1>1, <1>2, <1>3, <2>1, SettledCalm
  <2> QED BY <1>1, <1>2, <2>2, MovesOn
<1> QED BY <1>4, <1>5

LEMMA FailRunKeeps ==
    ASSUME IInv, NEW t \in Threads, FailRun(t)
    PROVE  Kept
<1> DEFINE r == Top(t).run
<1>1. /\ ~Idle(t) /\ Top(t).at = "failRun"
      /\ UNCHANGED <<created, approval, overdue, volatile, phase, history>>
  BY DEF FailRun, At
<1>2. Top(t) \in RunFrames /\ ~Still /\ r \in Runs
  BY <1>1, TopFacts
<1>3. RestCalm
  BY <1>1, RestUnchanged
<1>4. CASE LiveRunning(r)
  <2>1. SetStatus(r, "failed") /\ status[r] = "running"
    BY <1>4 DEF FailRun, LiveRunning
  <2>2. StoreCalm
    BY <1>1, <1>2, <2>1, RunningEnds DEF Terminal
  <2>3. status'[r] \in Terminal
    BY <1>2, <2>1 DEF SetStatus, Terminal, IInv, TypeInv, TypeData
  <2>4. Become(t, Advance(r)) \/ Settled(t, "failed")
    BY <1>4 DEF FailRun
  <2>5. StackCalm
    BY <1>1, <1>2, <2>2, <2>3, <2>4, AdvanceTyped, BecomeCalm, SettledCalm
  <2> QED BY <1>2, <1>3, <2>2, <2>5, CalmStep DEF Kept
<1>5. CASE ~LiveRunning(r)
  <2>1. Raise(t) /\ UNCHANGED status
    BY <1>5 DEF FailRun
  <2>2. StoreCalm
    BY <1>1, <2>1, StoreUnchanged
  <2>3. StackCalm
    BY <1>1, <2>1, <2>2, RaiseCalm
  <2> QED BY <1>2, <1>3, <2>2, <2>3, CalmStep DEF Kept
<1> QED BY <1>4, <1>5

LEMMA PromoteFailsKeeps ==
    ASSUME IInv, NEW t \in Threads, PromoteFails(t)
    PROVE  Kept
<1>1. ~Idle(t) /\ Raise(t) /\ UNCHANGED <<durable, volatile, phase, history>>
  BY DEF PromoteFails, At
<1>2. StoreCalm
  BY <1>1, StoreUnchanged DEF durable
<1>3. StackCalm
  BY <1>1, <1>2, RaiseCalm
<1> QED BY <1>1, <1>3, TopFacts, MovesOn

LEMMA ProfileKeeps ==
    ASSUME IInv, NEW t \in Threads, Profile(t)
    PROVE  Kept
<1>1. ~Idle(t) /\ Top(t).at = "profile" /\ UNCHANGED <<durable, volatile, phase, history>>
  BY DEF Profile, At
<1>2. Top(t) \in RunFrames /\ ~Still
  BY <1>1, TopFacts
<1>3. StoreCalm
  BY <1>1, StoreUnchanged DEF durable
<1>4. CASE Goto(t, "budget")
  <2>1. StackCalm
    BY <1>1, <1>2, <1>3, <1>4, GotoCalm DEF Places, Birth, Starting, Ending
  <2> QED BY <1>1, <1>2, <2>1, MovesOn
<1>5. CASE Raise(t)
  <2>1. StackCalm
    BY <1>1, <1>3, <1>5, RaiseCalm
  <2> QED BY <1>1, <1>2, <2>1, MovesOn
<1> QED BY <1>4, <1>5 DEF Profile

LEMMA ResolveLiveKeeps ==
    ASSUME IInv, NEW t \in Threads, ResolveLive(t)
    PROVE  Kept
<1> DEFINE r == Top(t).run
<1>1. /\ ~Idle(t) /\ Top(t).at = "resolveLive"
      /\ UNCHANGED <<durable, sched, live, stopped, phase, history>>
  BY DEF ResolveLive, At
<1>2. /\ Top(t) \in Frames /\ ~Still /\ r \in Runs
      /\ Top(t).op # "expire" => Top(t) \in RunFrames
  BY <1>1, TopFacts
<1>3. StoreCalm
  BY <1>1, StoreUnchanged DEF durable
<1>4. RestCalm
  <2>1. TypeData
    BY DEF IInv, TypeInv
  <2>2. prov' \in [Runs -> {"none", "working", "asking", "over"}]
    <3>1. UNCHANGED prov \/ prov' = [prov EXCEPT ![r] = "working"]
      BY DEF ResolveLive
    <3>2. prov \in [Runs -> {"none", "working", "asking", "over"}]
      BY <2>1 DEF TypeData
    <3> QED BY <1>2, <3>1, <3>2
  <2> QED BY <1>1, <2>1, <2>2 DEF RestCalm, TypeData, durable, history
<1>5. CASE Raise(t)
  <2>1. StackCalm
    BY <1>1, <1>3, <1>5, RaiseCalm
  <2> QED BY <1>2, <1>3, <1>4, <2>1, CalmStep DEF Kept
<1>6. CASE Return(t)
  <2>1. StackCalm
    BY <1>1, <1>3, <1>6, ReturnCalm
  <2> QED BY <1>2, <1>3, <1>4, <2>1, CalmStep DEF Kept
<1>7. CASE Top(t).op = "expire" /\ Goto(t, "expire")
  <2> DEFINE f == [Top(t) EXCEPT !.at = "expire"]
  <2>1. f \in Frames /\ f.at = "expire"
    BY <1>2, <1>7 DEF Frames, RunFrames, ExpiryFrames, Ops
  <2>2. Become(t, f)
    BY <1>7 DEF Goto
  <2> HIDE DEF f
  <2>3. StackCalm
    BY <1>1, <1>3, <2>1, <2>2, BecomeCalm DEF Birth, Starting, Ending
  <2> QED BY <1>2, <1>3, <1>4, <2>3, CalmStep DEF Kept
<1> QED BY <1>5, <1>6, <1>7 DEF ResolveLive

LEMMA ExpireKeeps ==
    ASSUME IInv, NEW t \in Threads, Expire(t)
    PROVE  Kept
<1>1. /\ ~Idle(t) /\ Top(t).at = "expire"
      /\ UNCHANGED <<created, volatile, phase, history>>
  BY DEF Expire, At, durable
<1>2. Top(t) \in ExpiryFrames /\ ~Still
  BY <1>1, TopFacts
<1>3. RestCalm
  BY <1>1, RestUnchanged
<1>4. CASE Return(t) /\ UNCHANGED durable
  <2>1. StoreCalm
    BY <1>4, StoreUnchanged DEF durable
  <2>2. StackCalm
    BY <1>1, <1>4, <2>1, ReturnCalm
  <2> QED BY <1>2, <1>3, <2>1, <2>2, CalmStep DEF Kept
<1>5. ASSUME NEW a \in Top(t).kids, approval[a] # "pending", Raise(t), UNCHANGED durable
      PROVE  Kept
  <2>1. StoreCalm
    BY <1>5, StoreUnchanged DEF durable
  <2>2. StackCalm
    BY <1>1, <1>5, <2>1, RaiseCalm
  <2> QED BY <1>2, <1>3, <2>1, <2>2, CalmStep DEF Kept
<1>6. ASSUME NEW a \in Top(t).kids,
             approval[a] = "pending", Resolve({a}, "rejected"),
             IF status[a[1]] = "waitingForApproval"
             THEN SetStatus(a[1], "failed") ELSE UNCHANGED status,
             Become(t, IF LiveRunning(a[1])
                       THEN [Frame("expire", "expire", a[1], Top(t).kids \ {a})
                               EXCEPT !.at = "resolveLive"]
                       ELSE Frame("expire", "expire", a[1], Top(t).kids \ {a}))
      PROVE  Kept
  <2>1. a \in Approvals /\ a[1] \in Runs /\ Top(t).kids \in SUBSET Approvals
    BY <1>2 DEF ExpiryFrames, Approvals
  <2>2. StoreCalm
    <3>1. CASE status[a[1]] = "waitingForApproval"
      BY <1>6, <2>1, <3>1, StartRejected
    <3>2. CASE status[a[1]] # "waitingForApproval"
      <4>1. UNCHANGED status /\ {a} \in SUBSET Approvals
        BY <1>6, <2>1, <3>2
      <4>2. \A x \in {a} : approval[x] = "pending" /\ status[x[1]] # "waitingForApproval"
        BY <1>6, <3>2
      <4> QED BY <1>6, <4>1, <4>2, ToolAnswered
    <3> QED BY <3>1, <3>2
  <2> DEFINE f == Frame("expire", "expire", a[1], Top(t).kids \ {a})
             g == [f EXCEPT !.at = "resolveLive"]
  <2>3. /\ f \in Frames /\ f.at = "expire"
        /\ g \in Frames /\ g.at = "resolveLive"
    BY <2>1 DEF Frame, Frames, ExpiryFrames
  <2>4. Become(t, f) \/ Become(t, g)
    BY <1>6
  <2> HIDE DEF f, g
  <2>5. StackCalm
    BY <1>1, <2>2, <2>3, <2>4, BecomeCalm DEF Birth, Starting, Ending
  <2> QED BY <1>2, <1>3, <2>2, <2>5, CalmStep DEF Kept
<1> QED BY <1>4, <1>5, <1>6 DEF Expire

LEMMA CancelCheckKeeps ==
    ASSUME IInv, NEW t \in Threads, CancelCheck(t)
    PROVE  Kept
<1>1. ~Idle(t) /\ Top(t).at = "check" /\ UNCHANGED <<durable, volatile, phase, history>>
  BY DEF CancelCheck, At
<1>2. Top(t) \in RunFrames /\ ~Still
  BY <1>1, TopFacts
<1>3. StoreCalm
  BY <1>1, StoreUnchanged DEF durable
<1>4. Goto(t, "cancelLive") \/ Goto(t, "commitCancel") \/ Raise(t)
  <2> DEFINE r == Top(t).run
  <2>1. CASE LiveRunning(r)
    <3>1. ~(status[r] \in {"queued", "waitingForApproval"})
      BY <2>1 DEF LiveRunning
    <3> QED BY <2>1, <3>1 DEF CancelCheck
  <2>2. CASE ~LiveRunning(r)
    BY <2>2 DEF CancelCheck
  <2> QED BY <2>1, <2>2
<1>5. StackCalm
  BY <1>1, <1>2, <1>3, <1>4, GotoCalm, RaiseCalm DEF Places, Birth, Starting, Ending
<1> QED BY <1>1, <1>2, <1>5, MovesOn

LEMMA DeliverCancelKeeps ==
    ASSUME IInv, NEW t \in Threads, NEW last \in BOOLEAN, ~Idle(t),
           Top(t).at \in {"cancelLive", "cancelWait"}, DeliverCancel(t, Top(t).run, last)
    PROVE  Kept
<1> DEFINE r == Top(t).run
<1>1. UNCHANGED <<durable, sched, prov, phase, history>>
  BY DEF DeliverCancel
<1>2. Top(t) \in RunFrames /\ ~Still /\ r \in Runs
  BY TopFacts
<1>3. StoreCalm
  BY <1>1, StoreUnchanged DEF durable
<1>4. TypeData
  BY DEF IInv, TypeInv
<1>5. CASE ~live[r].entry
  <2>1. Raise(t) /\ UNCHANGED <<live, stopped>>
    BY <1>5 DEF DeliverCancel
  <2>2. StackCalm
    BY <1>3, <2>1, RaiseCalm
  <2>3. RestCalm
    BY <1>1, <1>4, <2>1 DEF RestCalm, TypeData, durable, history
  <2> QED BY <1>2, <1>3, <2>2, <2>3, CalmStep DEF Kept
<1>6. CASE live[r].entry
  <2>1. Goto(t, "cancelWait") \/ Goto(t, "commitBudget") \/ Goto(t, "commitCancel")
    BY <1>6 DEF DeliverCancel
  <2>2. StackCalm
    BY <1>2, <1>3, <2>1, GotoCalm DEF Places, Birth, Starting, Ending
  <2>3. stopped' \subseteq Runs
    BY <1>2, <1>4, <1>6 DEF DeliverCancel, TypeData
  <2> DEFINE d == live[r].delivered \/ live[r].handle
  <2>4. live[r] \in LiveEntries
    BY <1>2, <1>4 DEF TypeData, LiveEntries
  <2>5. d \in BOOLEAN
    OBVIOUS
  <2>6. live' = [live EXCEPT ![r].requested = TRUE, ![r].delivered = @ \/ live[r].handle]
    BY <1>6 DEF DeliverCancel
  <2>7. live' = [live EXCEPT ![r].requested = TRUE, ![r].delivered = d]
    BY <1>2, <1>4, <2>4, <2>6 DEF TypeData, LiveEntries
  <2> HIDE DEF d
  <2> DEFINE e == [live[r] EXCEPT !.requested = TRUE, !.delivered = d]
  <2>8. e \in LiveEntries /\ e.entry = live[r].entry
    BY <2>4, <2>5 DEF LiveEntries
  <2>9. live' = [live EXCEPT ![r] = e]
    BY <1>4, <2>4, <2>7 DEF TypeData, LiveEntries
  <2> HIDE DEF e
  <2>10. live' \in [Runs -> LiveEntries] /\ \A s \in Runs : live'[s].entry = live[s].entry
    BY <1>2, <1>4, <2>8, <2>9 DEF TypeData, LiveEntries
  <2>11. RestCalm
    BY <1>1, <1>4, <2>3, <2>10 DEF RestCalm, TypeData, LiveEntries, durable, history
  <2> QED BY <1>2, <1>3, <2>2, <2>11, CalmStep DEF Kept
<1> QED BY <1>5, <1>6

LEMMA CommitCancelKeeps ==
    ASSUME IInv, NEW t \in Threads, CommitCancel(t)
    PROVE  Kept
<1> DEFINE r == Top(t).run
<1>1. /\ ~Idle(t) /\ Top(t).at = "commitCancel"
      /\ UNCHANGED <<created, volatile, phase, history>>
  BY DEF CommitCancel, At
<1>2. Top(t) \in RunFrames /\ ~Still /\ r \in Runs
  BY <1>1, TopFacts
<1>3. RestCalm
  BY <1>1, RestUnchanged
<1>4. CASE status[r] \in Cancellable
  <2>1. SetStatus(r, "cancelled") /\ Resolve(PendingOf(r), "rejected") /\ Goto(t, "listKids")
    BY <1>4 DEF CommitCancel
  <2>2. StoreCalm
    BY <1>2, <1>4, <2>1, RunEndsWithApprovals DEF Terminal
  <2>3. status'[r] \in Terminal
    BY <1>2, <2>1 DEF SetStatus, Terminal, IInv, TypeInv, TypeData
  <2>4. StackCalm
    BY <1>1, <1>2, <2>1, <2>2, <2>3, GotoCalm DEF Places, Birth, Starting, Ending
  <2> QED BY <1>2, <1>3, <2>2, <2>4, CalmStep DEF Kept
<1>5. CASE status[r] \notin Cancellable
  <2>1. Raise(t) /\ UNCHANGED <<status, approval, overdue>>
    BY <1>5 DEF CommitCancel
  <2>2. StoreCalm
    BY <2>1, StoreUnchanged
  <2>3. StackCalm
    BY <1>1, <2>1, <2>2, RaiseCalm
  <2> QED BY <1>2, <1>3, <2>2, <2>3, CalmStep DEF Kept
<1> QED BY <1>4, <1>5

LEMMA ListKidsKeeps ==
    ASSUME IInv, NEW t \in Threads, ListKids(t)
    PROVE  Kept
<1>1. ~Idle(t) /\ Top(t).at = "listKids" /\ UNCHANGED <<durable, volatile, phase, history>>
  BY DEF ListKids, At
<1>2. Top(t) \in RunFrames /\ ~Still /\ FrameSound(Top(t))
  BY <1>1, TopFacts
<1>3. StoreCalm
  BY <1>1, StoreUnchanged DEF durable
<1>4. status'[Top(t).run] \in Terminal
  BY <1>1, <1>2 DEF FrameSound, Ending, durable
<1> DEFINE K == { c \in Children : Parent[c] = Top(t).run /\ status[c] \in Cancellable }
           f == [Top(t) EXCEPT !.at = "kids", !.kids = K]
<1>5. Become(t, f)
  BY DEF ListKids
<1>6. K \in SUBSET Runs
  BY LifecycleAssumption
<1> HIDE DEF K
<1>7. f \in Frames /\ f.at = "kids" /\ f.run = Top(t).run
  BY <1>2, <1>6 DEF Frames, RunFrames, Places
<1> HIDE DEF f
<1>8. StackCalm
  BY <1>1, <1>3, <1>4, <1>5, <1>7, BecomeCalm DEF Birth, Starting
<1> QED BY <1>1, <1>2, <1>8, MovesOn

LEMMA CancelKidsKeeps ==
    ASSUME IInv, NEW t \in Threads, CancelKids(t)
    PROVE  Kept
<1>1. ~Idle(t) /\ Top(t).at = "kids" /\ UNCHANGED <<durable, volatile, phase, history>>
  BY DEF CancelKids, At
<1>2. Top(t) \in RunFrames /\ ~Still /\ FrameSound(Top(t)) /\ Top(t).run \in Runs
      /\ stack \in [Threads -> Seq(Frames)]
  BY <1>1, TopFacts
<1>3. StoreCalm
  BY <1>1, StoreUnchanged DEF durable
<1>4. status'[Top(t).run] \in Terminal
  BY <1>1, <1>2 DEF FrameSound, Ending, durable
<1>5. CASE Top(t).kids = {}
  <2>1. Become(t, Advance(Top(t).run))
    BY <1>5 DEF CancelKids
  <2>2. StackCalm
    BY <1>1, <1>2, <1>3, <1>4, <2>1, AdvanceTyped, BecomeCalm
  <2> QED BY <1>1, <1>2, <2>2, MovesOn
<1>6. CASE Top(t).kids # {}
  <2>1. PICK c \in Top(t).kids :
          stack' = [stack EXCEPT ![t] =
            <<Frame("cancel", "check", c, {}), [Top(t) EXCEPT !.kids = Top(t).kids \ {c}]>>
              \o Tail(stack[t])]
    BY <1>6 DEF CancelKids, Top
  <2> DEFINE f == Frame("cancel", "check", c, {})
             g == [Top(t) EXCEPT !.kids = @ \ {c}]
  <2>2. /\ f \in Frames /\ f.at = "check"
        /\ g \in Frames /\ g.at = "kids" /\ g.run = Top(t).run
    <3>1. Top(t).kids \in SUBSET Runs
      BY <1>2 DEF RunFrames
    <3>2. c \in Runs /\ {} \in SUBSET Runs
      BY <3>1
    <3>3. f \in Frames /\ f.at = "check"
      BY <3>2 DEF Frame, Frames, RunFrames, Ops, Places
    <3> DEFINE K == Top(t).kids \ {c}
    <3>4. K \in SUBSET Runs /\ g = [Top(t) EXCEPT !.kids = K]
      BY <3>1
    <3> HIDE DEF K, g
    <3>5. g \in RunFrames /\ g.at = "kids" /\ g.run = Top(t).run
      BY <1>1, <1>2, <3>4 DEF RunFrames
    <3> QED BY <3>3, <3>5 DEF Frames
  <2>3. stack' = [stack EXCEPT ![t] = <<f, g>> \o Tail(stack[t])]
    BY <2>1
  <2> HIDE DEF f, g
  <2>4. StackCalm
    BY <1>1, <1>3, <1>4, <2>2, <2>3, PushCalm DEF Birth, Starting, Ending
  <2> QED BY <1>1, <1>2, <2>4, MovesOn
<1> QED BY <1>5, <1>6

LEMMA CommitBudgetKeeps ==
    ASSUME IInv, NEW t \in Threads, CommitBudget(t)
    PROVE  Kept
<1> DEFINE r == Top(t).run
<1>1. /\ ~Idle(t) /\ Top(t).at = "commitBudget"
      /\ UNCHANGED <<created, volatile, phase, history>>
  BY DEF CommitBudget, At
<1>2. Top(t) \in RunFrames /\ ~Still /\ r \in Runs
  BY <1>1, TopFacts
<1>3. RestCalm
  BY <1>1, RestUnchanged
<1>4. CASE status[r] = "running"
  <2>1. /\ SetStatus(r, "budgetExceeded") /\ Resolve(PendingOf(r), "rejected")
        /\ Become(t, Advance(r))
    BY <1>4 DEF CommitBudget
  <2>2. StoreCalm
    BY <1>2, <1>4, <2>1, RunEndsWithApprovals DEF Cancellable, Active, Terminal
  <2>3. status'[r] \in Terminal
    BY <1>2, <2>1 DEF SetStatus, Terminal, IInv, TypeInv, TypeData
  <2>4. StackCalm
    BY <1>1, <1>2, <2>1, <2>2, <2>3, AdvanceTyped, BecomeCalm
  <2> QED BY <1>2, <1>3, <2>2, <2>4, CalmStep DEF Kept
<1>5. CASE status[r] # "running"
  <2>1. Return(t) /\ UNCHANGED <<status, approval, overdue>>
    BY <1>5 DEF CommitBudget
  <2>2. StoreCalm
    BY <2>1, StoreUnchanged
  <2>3. StackCalm
    BY <1>1, <2>1, <2>2, ReturnCalm
  <2> QED BY <1>2, <1>3, <2>2, <2>3, CalmStep DEF Kept
<1> QED BY <1>4, <1>5

LEMMA CancelKeeps ==
    ASSUME IInv, NEW t \in Threads, NEW r \in Runs, Cancel(t, r)
    PROVE  Kept
<1>1. /\ phase = "up" /\ UNCHANGED <<durable, volatile, phase, history>>
      /\ stack' = [stack EXCEPT ![t] = <<Frame("cancel", "check", r, {})>>]
  BY DEF Cancel
<1>2. StoreCalm /\ ~Still
  BY <1>1, StoreUnchanged DEF durable, Still
<1>3. /\ Frame("cancel", "check", r, {}) \in Frames
      /\ Frame("cancel", "check", r, {}).at = "check"
  BY DEF Frame, Frames, RunFrames, Ops, Places
<1>4. StackCalm
  BY <1>1, <1>2, <1>3, BeginCalm DEF Birth, Starting, Ending
<1> QED BY <1>1, <1>2, <1>4, MovesOn

LEMMA ListApprovalsKeeps ==
    ASSUME IInv, NEW t \in Threads, ListApprovals(t)
    PROVE  Kept
<1> DEFINE first == CHOOSE a \in overdue : TRUE
           f == Frame("expire", "expire", first[1], overdue)
<1>1. /\ phase = "up" /\ overdue # {} /\ UNCHANGED <<durable, volatile, phase, history>>
      /\ stack' = [stack EXCEPT ![t] = <<f>>]
  BY DEF ListApprovals
<1>2. StoreCalm /\ ~Still
  BY <1>1, StoreUnchanged DEF durable, Still
<1>3. overdue \in SUBSET Approvals
  BY DEF IInv, TypeInv, TypeData
<1>4. first \in overdue
  BY <1>1
<1>5. first[1] \in Runs
  BY <1>3, <1>4 DEF Approvals
<1> HIDE DEF first
<1>6. f \in Frames /\ f.at = "expire"
  BY <1>3, <1>5 DEF Frame, Frames, ExpiryFrames
<1> HIDE DEF f
<1>7. StackCalm
  BY <1>1, <1>2, <1>6, BeginCalm DEF Birth, Starting, Ending
<1> QED BY <1>1, <1>2, <1>7, MovesOn

LEMMA DecideOverdueKeeps ==
    ASSUME IInv, NEW t \in Threads, NEW a \in Approvals, ~Still, DecideOverdue(t, a),
           UNCHANGED <<created, sched, prov, stopped, phase, history>>
    PROVE  Kept
<1> DEFINE f == Frame("expire", "expire", a[1], {a})
<1>1. StoreCalm
  BY StoreUnchanged DEF DecideOverdue
<1>2. f \in Frames /\ f.at = "expire"
  BY DEF Frame, Frames, ExpiryFrames, Approvals
<1>3. stack' = [stack EXCEPT ![t] = <<f>>]
  BY DEF DecideOverdue
<1> HIDE DEF f
<1>4. StackCalm
  BY <1>1, <1>2, <1>3, BeginCalm DEF Birth, Starting, Ending
<1>5. RestCalm
  BY RestUnchanged DEF DecideOverdue, volatile
<1> QED BY <1>1, <1>4, <1>5, CalmStep DEF Kept

LEMMA DecideLiveKeeps ==
    ASSUME IInv, NEW t \in Threads, NEW a \in Approvals, NEW d \in {"approved", "rejected"},
           ~Still, approval[a] = "pending", DecideLive(t, a, d),
           UNCHANGED <<created, sched, prov, stopped, phase, history>>
    PROVE  Kept
<1> DEFINE f == Frame("decide", "resolveLive", a[1], {})
<1>1. Resolve({a}, d) /\ status[a[1]] = "running" /\ UNCHANGED <<status, live>>
  BY DEF DecideLive, LiveRunning
<1>2. \A x \in {a} : approval[x] = "pending" /\ status[x[1]] # "waitingForApproval"
  BY <1>1
<1>3. StoreCalm
  <2>1. {a} \in SUBSET Approvals
    OBVIOUS
  <2> QED BY <1>1, <1>2, <2>1, ToolAnswered
<1>4. f \in Frames /\ f.at = "resolveLive"
  BY DEF Frame, Frames, RunFrames, Ops, Places, Approvals
<1>5. stack' = [stack EXCEPT ![t] = <<f>>]
  BY DEF DecideLive
<1> HIDE DEF f
<1>6. StackCalm
  BY <1>3, <1>4, <1>5, BeginCalm DEF Birth, Starting, Ending
<1>7. RestCalm
  BY <1>1, RestUnchanged DEF volatile
<1> QED BY <1>3, <1>6, <1>7, CalmStep DEF Kept

LEMMA DecideRejectedKeeps ==
    ASSUME IInv, NEW t \in Threads, NEW a \in Approvals, NEW d \in {"approved", "rejected"},
           ~Still, approval[a] = "pending", DecideWaiting(t, a, d), d # "approved",
           UNCHANGED <<created, sched, prov, stopped, phase, history>>
    PROVE  Kept
<1>1. /\ status[a[1]] = "waitingForApproval" /\ Resolve({a}, d) /\ SetStatus(a[1], "failed")
      /\ stack' = [stack EXCEPT ![t] = <<Advance(a[1])>>] /\ UNCHANGED live
  BY DEF DecideWaiting
<1>2. StoreCalm
  BY <1>1, StartRejected
<1>3. a[1] \in Runs
  BY DEF Approvals
<1>4. status'[a[1]] \in Terminal
  BY <1>1, <1>3 DEF SetStatus, Terminal, IInv, TypeInv, TypeData
<1>5. StackCalm
  BY <1>1, <1>2, <1>3, <1>4, AdvanceTyped, BeginCalm
<1>6. RestCalm
  BY <1>1, RestUnchanged DEF volatile
<1> QED BY <1>2, <1>5, <1>6, CalmStep DEF Kept

(* The provider of a run: it works, so the daemon is up. *)
LEMMA ProviderFacts ==
    ASSUME IInv, NEW r \in Runs, prov[r] # "none"
    PROVE  /\ ~Still /\ r \in Threads
           /\ TypeData /\ prov \in [Runs -> {"none", "working", "asking", "over"}]
  BY DEF IInv, StateInv, StillSound, Threads, TypeInv, TypeData

LEMMA ProviderRest ==
    ASSUME IInv, NEW r \in Runs, NEW p \in {"working", "asking", "over"},
           prov' = [prov EXCEPT ![r] = p],
           UNCHANGED <<created, sched, live, stopped, phase, history>>
    PROVE  RestCalm
<1>1. TypeData
  BY DEF IInv, TypeInv
<1>2. prov' \in [Runs -> {"none", "working", "asking", "over"}]
  BY <1>1 DEF TypeData
<1> QED BY <1>1, <1>2 DEF TypeData, RestCalm, history

LEMMA ProviderCompletesKeeps ==
    ASSUME IInv, NEW r \in Runs, ProviderCompletes(r)
    PROVE  Kept
<1>1. /\ prov[r] = "working" /\ status[r] = "running"
      /\ prov' = [prov EXCEPT ![r] = "over"]
      /\ UNCHANGED <<created, approval, overdue, sched, live, stopped, phase, history>>
  BY DEF ProviderCompletes, LiveRunning
<1>2. PICK st \in {"completed", "failed"} : SetStatus(r, st)
  BY DEF ProviderCompletes
<1>3. ~Still /\ r \in Threads /\ TypeData
  BY <1>1, ProviderFacts
<1>4. st \in Terminal
  BY DEF Terminal
<1>5. StoreCalm
  BY <1>1, <1>2, <1>4, RunningEnds
<1>6. status'[r] \in Terminal
  BY <1>2, <1>3, <1>4 DEF SetStatus, TypeData
<1>7. RestCalm
  BY <1>1, ProviderRest
<1>8. StackCalm
  <2>1. CASE stack' = [stack EXCEPT ![r] = <<Advance(r)>>]
    BY <1>3, <1>5, <1>6, <2>1, AdvanceTyped, BeginCalm
  <2>2. CASE UNCHANGED stack
    BY <2>2, StackUnchanged
  <2> QED BY <2>1, <2>2 DEF ProviderCompletes
<1> QED BY <1>3, <1>5, <1>7, <1>8, CalmStep DEF Kept

LEMMA ProviderFailsKeeps ==
    ASSUME IInv, NEW r \in Runs, ProviderFails(r)
    PROVE  Kept
<1>1. /\ prov[r] = "working" /\ prov' = [prov EXCEPT ![r] = "over"]
      /\ UNCHANGED <<created, approval, overdue, sched, live, stopped, phase, history>>
  BY DEF ProviderFails
<1>2. ~Still /\ r \in Threads /\ TypeData
  BY <1>1, ProviderFacts
<1>3. RestCalm
  BY <1>1, ProviderRest
<1>4. CASE LiveRunning(r)
  <2>1. /\ SetStatus(r, "failed") /\ status[r] = "running"
        /\ stack' = [stack EXCEPT ![r] = <<Advance(r)>>]
    BY <1>4 DEF ProviderFails, LiveRunning
  <2>2. StoreCalm
    BY <1>1, <2>1, RunningEnds DEF Terminal
  <2>3. status'[r] \in Terminal
    BY <1>2, <2>1 DEF SetStatus, Terminal, TypeData
  <2>4. StackCalm
    BY <1>2, <2>1, <2>2, <2>3, AdvanceTyped, BeginCalm
  <2> QED BY <1>2, <1>3, <2>2, <2>4, CalmStep DEF Kept
<1>5. CASE ~LiveRunning(r)
  <2>1. UNCHANGED <<status, stack>>
    BY <1>5 DEF ProviderFails
  <2>2. StoreCalm /\ StackCalm
    BY <1>1, <2>1, StoreUnchanged, StackUnchanged
  <2> QED BY <1>2, <1>3, <2>2, CalmStep DEF Kept
<1> QED BY <1>4, <1>5

LEMMA ProviderAsksKeeps ==
    ASSUME IInv, NEW r \in Runs, ProviderAsks(r)
    PROVE  Kept
<1>1. /\ prov[r] = "working" /\ status[r] = "running" /\ approval[<<r, "tool">>] = "none"
      /\ approval' = [approval EXCEPT ![<<r, "tool">>] = "pending"]
      /\ prov' = [prov EXCEPT ![r] = "asking"]
      /\ UNCHANGED <<status, created, overdue, sched, live, stopped, phase, stack, history>>
  BY DEF ProviderAsks, LiveRunning
<1>2. ~Still
  BY <1>1, ProviderFacts
<1>3. StoreCalm
  BY <1>1, ToolAsked
<1>4. RestCalm
  BY <1>1, ProviderRest
<1>5. StackCalm
  BY <1>1, StackUnchanged
<1> QED BY <1>2, <1>3, <1>4, <1>5, CalmStep DEF Kept

LEMMA ProviderInterruptedKeeps ==
    ASSUME IInv, NEW r \in Runs, ProviderInterrupted(r)
    PROVE  Kept
<1> DEFINE as == IF LiveRunning(r) THEN PendingOf(r) ELSE {}
<1>1. /\ prov[r] = "asking" /\ Resolve(as, "rejected")
      /\ prov' = [prov EXCEPT ![r] = "working"]
      /\ UNCHANGED <<status, created, sched, live, stopped, phase, stack, history>>
  BY DEF ProviderInterrupted
<1>2. ~Still
  BY <1>1, ProviderFacts
<1>3. /\ as \in SUBSET Approvals
      /\ \A a \in as : approval[a] = "pending" /\ status[a[1]] # "waitingForApproval"
  BY DEF PendingOf, LiveRunning
<1> HIDE DEF as
<1>4. StoreCalm
  BY <1>1, <1>3, ToolAnswered
<1>5. RestCalm
  BY <1>1, ProviderRest
<1>6. StackCalm
  BY <1>1, StackUnchanged
<1> QED BY <1>2, <1>4, <1>5, <1>6, CalmStep DEF Kept

LEMMA ProviderSpendsBudgetKeeps ==
    ASSUME IInv, NEW r \in Runs, ProviderSpendsBudget(r)
    PROVE  Kept
<1> DEFINE f == Frame("budget", "cancelLive", r, {})
<1>1. /\ prov[r] = "working" /\ prov' = [prov EXCEPT ![r] = "over"]
      /\ stack' = [stack EXCEPT ![r] = <<f>>]
      /\ UNCHANGED <<durable, sched, live, stopped, phase, history>>
  BY DEF ProviderSpendsBudget
<1>2. ~Still /\ r \in Threads
  BY <1>1, ProviderFacts
<1>3. StoreCalm
  BY <1>1, StoreUnchanged DEF durable
<1>4. f \in Frames /\ f.at = "cancelLive"
  BY DEF Frame, Frames, RunFrames, Ops, Places
<1> HIDE DEF f
<1>5. RestCalm
  BY <1>1, ProviderRest DEF durable
<1>6. StackCalm
  BY <1>1, <1>2, <1>3, <1>4, BeginCalm DEF Birth, Starting, Ending
<1> QED BY <1>2, <1>3, <1>5, <1>6, CalmStep DEF Kept

(* A step that touches nothing the invariant speaks of, like the clock's, or a daemon that *)
(* begins to serve.                                                                        *)
LEMMA Undisturbed ==
    ASSUME IInv, TypeData', UNCHANGED <<status, approval, sched, live, prov, issued, launched, stack>>,
           phase' = phase \/ (phase = "booting" /\ phase' = "up")
    PROVE  Kept
<1>1. Still' = Still /\ (phase' = "reconciled" <=> phase = "reconciled")
           /\ (phase' = "down" <=> phase = "down")
  BY DEF Still
<1>2. TypeInv'
  BY DEF IInv, TypeInv
<1>3. LowerFramesEnded' /\ TopsApart'
  BY DEF IInv, StateInv, LowerFramesEnded, LowerEnded, TopsApart, FramesApart, Idle, Top
<1>4. TopsSound'
  BY DEF IInv, StateInv, TopsSound, FrameSound, Creating, Idle, Top
<1>5. RunsSound'
  BY DEF IInv, StateInv, RunsSound, RunSound
<1>6. StillSound'
  BY <1>1 DEF IInv, StateInv, StillSound, Idle
<1>7. RunningIsOwned' /\ SlotInv'
  BY <1>1 DEF IInv, RunningIsOwned, SlotInv, ActiveHoldsSlot, OneExclusiveSlot, OneWriter
<1>8. KeepsDecisions
  BY DEF KeepsDecisions
<1>9. QueueIssued'
  BY DEF IInv, StateInv, QueueIssued
<1> QED BY <1>9, <1>2, <1>3, <1>4, <1>5, <1>6, <1>7, <1>8 DEF Kept, IInv, StateInv

LEMMA TtlPassesKeeps ==
    ASSUME IInv, NEW a \in Approvals, TtlPasses(a)
    PROVE  Kept
<1>1. TypeData'
  BY DEF IInv, TypeInv, TypeData, TtlPasses, volatile, history
<1> QED BY <1>1, Undisturbed DEF TtlPasses, volatile, history

LEMMA BootedKeeps ==
    ASSUME IInv, Booted
    PROVE  Kept
<1>1. TypeData'
  BY DEF IInv, TypeInv, TypeData, Booted, durable, volatile, history
<1> QED BY <1>1, Undisturbed DEF Booted, durable, volatile, history

LEMMA StutterKeeps ==
    ASSUME IInv, UNCHANGED vars
    PROVE  Kept
<1>1. TypeData'
  BY DEF IInv, TypeInv, TypeData, vars, durable, volatile, history
<1> QED BY <1>1, Undisturbed DEF vars, durable, volatile, history

---------------------------------------------------------------------------
(* The scheduler's operations, for runs of a set S.                        *)

LEMMA RemoveFirstTyped ==
    ASSUME NEW S, NEW q \in Seq(S), NEW r
    PROVE  RemoveFirst(q, r) \in Seq(S)
<1>1. CASE ~\E i \in 1..Len(q) : q[i] = r
  <2>1. RemoveFirst(q, r) = q
    BY <1>1 DEF RemoveFirst
  <2> QED BY <2>1
<1>2. CASE \E i \in 1..Len(q) : q[i] = r
  <2> DEFINE I == { i \in 1..Len(q) : q[i] = r }
             k == CHOOSE x \in I : \A y \in I : x <= y
  <2>1. Len(q) \in Nat /\ I \in SUBSET (1..Len(q)) /\ I # {}
    BY <1>2
  <2>2. SelectInSeq(q, LAMBDA v : v = r) = k
    BY <2>1 DEF SelectInSeq, Min
  <2> HIDE DEF I
  <2>3. k \in 1..Len(q)
    <3>1. IsFiniteSet(1..Len(q))
      BY <2>1, FS_Interval
    <3>2. IsFiniteSet(I) /\ I \in SUBSET Nat
      <4>1. IsFiniteSet(I)
        BY <2>1, <3>1, FS_Subset
      <4>2. I \in SUBSET Nat
        BY <2>1
      <4> QED BY <4>1, <4>2
    <3>3. \E x \in I : \A y \in I : x <= y
      BY <2>1, <3>2, SmallestOf
    <3> QED BY <2>1, <3>3
  <2> HIDE DEF k
  <2>4. RemoveFirst(q, r) = SubSeq(q, 1, k - 1) \o SubSeq(q, k + 1, Len(q))
    BY <1>2, <2>2 DEF RemoveFirst, RemoveAt
  <2>5. SubSeq(q, 1, k - 1) \in Seq(S) /\ SubSeq(q, k + 1, Len(q)) \in Seq(S)
    BY <2>1, <2>3
  <2> QED BY <2>4, <2>5
<1> QED BY <1>1, <1>2

LEMMA SeqWidens ==
    ASSUME NEW S, NEW T, S \subseteq T, NEW q \in Seq(S)
    PROVE  q \in Seq(T)
<1>1. q \in [1..Len(q) -> S] /\ Len(q) \in Nat
  OBVIOUS
<1>2. q \in [1..Len(q) -> T]
  BY <1>1
<1> QED BY <1>1, <1>2

(* Handing the slot over: only when nobody holds one, and to one run. *)
LEMMA HandOverHolds ==
    ASSUME NEW S, NEW s \in [active : SUBSET Runs, queue : Seq(S)], S \subseteq Runs
    PROVE  /\ HandOver(s) \in [active : SUBSET Runs, queue : Seq(S)]
           /\ s.active \subseteq HandOver(s).active
           /\ NextRun(s) \subseteq S /\ NextRun(s) \subseteq HandOver(s).active
           /\ \/ HandOver(s).active = s.active
              \/ \E n \in S : HandOver(s).active = {n}
<1>1. CASE s.active = {} /\ s.queue # <<>>
  <2>1. Head(s.queue) \in S /\ Tail(s.queue) \in Seq(S)
    BY <1>1
  <2>2. HandOver(s) = [active |-> {Head(s.queue)}, queue |-> Tail(s.queue)]
    BY <1>1 DEF HandOver
  <2>3. NextRun(s) = {Head(s.queue)}
    BY <1>1 DEF NextRun
  <2> QED BY <1>1, <2>1, <2>2, <2>3
<1>2. CASE ~(s.active = {} /\ s.queue # <<>>)
  <2>1. HandOver(s) = s
    BY <1>2 DEF HandOver
  <2>2. NextRun(s) = {}
    BY <1>2 DEF NextRun
  <2> QED BY <2>1, <2>2
<1> QED BY <1>1, <1>2

\* The slots T are some of the slots S, or one alone.
OneMoreOnly(S, T) == \A x, y \in T : (x \in S /\ y \in S) \/ x = y

(* finish_run: nobody else loses a slot, and the run it promotes has one. *)
LEMMA FinishHolds ==
    ASSUME NEW S, NEW s \in [active : SUBSET Runs, queue : Seq(S)], S \subseteq Runs,
           NEW r \in Runs
    PROVE  /\ FinishRun(s, r) \in [active : SUBSET Runs, queue : Seq(S)]
           /\ s.active \ {r} \subseteq FinishRun(s, r).active
           /\ FinishPromotes(s, r) \subseteq S
           /\ FinishPromotes(s, r) \subseteq FinishRun(s, r).active
           /\ OneMoreOnly(s.active, FinishRun(s, r).active)
<1>1. CASE r \in s.active
  <2> DEFINE p == Free(s, r)
  <2>1. p \in [active : SUBSET Runs, queue : Seq(S)] /\ p.active = s.active \ {r}
    BY DEF Free
  <2>2. FinishRun(s, r) = HandOver(p) /\ FinishPromotes(s, r) = NextRun(p)
    BY <1>1 DEF FinishRun, FinishPromotes
  <2> HIDE DEF p
  <2>3. /\ HandOver(p) \in [active : SUBSET Runs, queue : Seq(S)]
        /\ p.active \subseteq HandOver(p).active
        /\ NextRun(p) \subseteq S /\ NextRun(p) \subseteq HandOver(p).active
        /\ \/ HandOver(p).active = p.active
           \/ \E n \in S : HandOver(p).active = {n}
    BY <2>1, HandOverHolds
  <2> QED BY <2>1, <2>2, <2>3 DEF OneMoreOnly
<1>2. CASE r \notin s.active
  <2> DEFINE q == RemoveFirst(s.queue, r)
  <2>1. q \in Seq(S)
    BY RemoveFirstTyped
  <2>2. FinishRun(s, r) = [s EXCEPT !.queue = q] /\ FinishPromotes(s, r) = {}
    BY <1>2 DEF FinishRun, FinishPromotes
  <2> HIDE DEF q
  <2> QED BY <2>1, <2>2 DEF OneMoreOnly
<1> QED BY <1>1, <1>2

(* schedule_start_with_policy: a run that starts at once finds no other holder, or runs beside *)
(* it.                                                                                         *)
LEMMA StartHolds ==
    ASSUME NEW S, NEW s \in [active : SUBSET Runs, queue : Seq(S)], S \subseteq Runs,
           NEW r \in S
    PROVE  /\ ScheduleStart(s, r) \in [active : SUBSET Runs, queue : Seq(S)]
           /\ s.active \subseteq ScheduleStart(s, r).active
           /\ CanStartNow(s, r) => r \in ScheduleStart(s, r).active
           /\ \/ ScheduleStart(s, r).active = s.active
              \/ ScheduleStart(s, r).active = {r}
              \/ r \in Parallel /\ ScheduleStart(s, r).active = s.active \union {r}
<1>1. CASE CanStartNow(s, r)
  BY <1>1 DEF ScheduleStart, Activate, CanStartNow
<1>2. CASE ~CanStartNow(s, r)
  <2>1. Append(s.queue, r) \in Seq(S)
    OBVIOUS
  <2>2. ScheduleStart(s, r) = [s EXCEPT !.queue = Append(s.queue, r)]
    BY <1>2 DEF ScheduleStart, Enqueue
  <2> QED BY <1>2, <2>1, <2>2
<1> QED BY <1>1, <1>2

---------------------------------------------------------------------------
(* A step about one run r, by a thread t: the others are as they were.     *)

ElsewhereSame(r) ==
    \A s \in Runs \ {r} :
      /\ status'[s] = status[s] /\ launched'[s] = launched[s]
      /\ approval'[<<s, "start">>] = approval[<<s, "start">>]
      /\ approval'[<<s, "tool">>] = approval[<<s, "tool">>]
      /\ live'[s].entry = live[s].entry
      /\ s \in sched.active => s \in sched'.active
      /\ s \in issued' <=> s \in issued

\* A frame that has no right, but perhaps the one to promote a run that has its slot.
Harmless(f) ==
    /\ f.at \notin Birth \union Starting
    /\ f.at \in Ending => status'[f.run] \in Terminal
    /\ f.at = "promote" => f.run \in issued' /\ f.run \in sched'.active

\* The top t gets: none, a harmless one, or one that works on r and is as it should be.
TopOf(t, r) ==
    /\ stack' \in [Threads -> Seq(Frames)]
    /\ \A u \in Threads : u # t => stack'[u] = stack[u]
    /\ LowerEnded(stack'[t], status')
    /\ stack'[t] # <<>> =>
         LET f == Head(stack'[t])
         IN  \/ Harmless(f)
             \/ f.run = r /\ FrameSoundNext(f)
                /\ \A u \in Threads : u # t /\ ~Idle(u) => FramesApart(f, Top(u))

\* The other threads that work on r have no right that the step takes away.
SameRun(t, r) ==
    \A u \in Threads : u # t /\ ~Idle(u) /\ Top(u).run = r => FrameSoundNext(Top(u))

RunSoundNext(r) ==
    /\ status'[r] # "absent" => r \in issued'
    /\ approval'[<<r, "start">>] = "pending" <=> status'[r] = "waitingForApproval"
    /\ status'[r] \in {"absent", "queued"} => approval'[<<r, "start">>] = "none"
    /\ status'[r] \in Beginning => approval'[<<r, "tool">>] = "none" /\ launched'[r] = 0
    /\ launched'[r] > 0 => approval'[<<r, "start">>] \in {"none", "approved"}
    /\ launched'[r] <= 1
    /\ status'[r] = "running" => live'[r].entry
    /\ status'[r] \in Active => r \in sched'.active
    /\ status[r] \in Terminal => status'[r] = status[r]
    /\ approval[<<r, "start">>] \in {"approved", "rejected"} =>
         approval'[<<r, "start">>] = approval[<<r, "start">>]
    /\ approval[<<r, "tool">>] \in {"approved", "rejected"} =>
         approval'[<<r, "tool">>] = approval[<<r, "tool">>]

LEMMA SpecialStep ==
    ASSUME IInv, TypeInv', NEW t \in Threads, NEW r \in Runs,
           ~Still, phase' = phase,
           ElsewhereSame(r), TopOf(t, r), SameRun(t, r), RunSoundNext(r),
           QueueIssued', OneExclusiveSlot'
    PROVE  Kept
<1>1. /\ TypeInv /\ LowerFramesEnded /\ TopsSound /\ TopsApart /\ RunsSound /\ StillSound
      /\ RunningIsOwned /\ ActiveHoldsSlot
  BY DEF IInv, StateInv, SlotInv
<1>2. \A s \in Runs : status[s] \in Terminal => status'[s] = status[s]
  BY DEF ElsewhereSame, RunSoundNext
<1>3. KeepsDecisions
  <2>1. ASSUME NEW a \in Approvals, approval[a] \in {"approved", "rejected"}
        PROVE  approval'[a] = approval[a]
    <3>1. PICK s \in Runs : a = <<s, "start">> \/ a = <<s, "tool">>
      BY DEF Approvals
    <3>2. CASE s = r
      BY <2>1, <3>1, <3>2 DEF RunSoundNext
    <3>3. CASE s # r
      BY <3>1, <3>3 DEF ElsewhereSame
    <3> QED BY <3>2, <3>3
  <2> QED BY <1>2, <2>1 DEF KeepsDecisions
<1>4. LowerFramesEnded'
  <2> SUFFICES ASSUME NEW u \in Threads PROVE LowerEnded(stack'[u], status')
    BY DEF LowerFramesEnded
  <2>1. CASE u = t
    BY <2>1 DEF TopOf
  <2>2. CASE u # t
    <3>1. LowerEnded(stack[u], status')
      BY <1>1, <1>2, LowerStays
    <3> QED BY <2>2, <3>1 DEF TopOf
  <2> QED BY <2>1, <2>2
<1>5. ASSUME NEW u \in Threads, u # t, stack'[u] # <<>>
      PROVE  ~Idle(u) /\ Head(stack'[u]) = Top(u) /\ FrameSound(Top(u)) /\ Top(u).run \in Runs
  <2>1. ~Idle(u) /\ Head(stack'[u]) = Top(u)
    BY <1>5 DEF TopOf, Idle, Top
  <2> QED BY <1>1, <2>1, FramesTyped DEF TopsSound
<1>6. ASSUME NEW s \in Runs, s # r, CreatingNext(s) PROVE Creating(s)
  <2>1. PICK u \in Threads : /\ stack'[u] # <<>>
                             /\ Head(stack'[u]).at \in Birth /\ Head(stack'[u]).run = s
    BY <1>6 DEF CreatingNext
  <2>2. u # t
    BY <1>6, <2>1 DEF TopOf, Harmless
  <2> QED BY <1>5, <2>1, <2>2 DEF Creating
<1>7. TopsSound'
  <2> SUFFICES ASSUME NEW u \in Threads, stack'[u] # <<>> PROVE FrameSoundNext(Head(stack'[u]))
    BY TopsSoundNext
  <2>1. CASE u = t
    <3> DEFINE f == Head(stack'[t])
    <3>1. Harmless(f) => FrameSoundNext(f)
      BY DEF Harmless, FrameSoundNext, Birth
    <3>2. Harmless(f) \/ FrameSoundNext(f)
      BY <2>1 DEF TopOf
    <3> QED BY <2>1, <3>1, <3>2
  <2>2. CASE u # t
    <3> DEFINE f == Top(u)
    <3>1. ~Idle(u) /\ Head(stack'[u]) = f /\ FrameSound(f) /\ f.run \in Runs
      BY <1>5, <2>2
    <3>2. CASE f.run = r
      BY <2>2, <3>1, <3>2 DEF SameRun
    <3>3. CASE f.run # r
      <4> HIDE DEF f
      <4> DEFINE s == f.run
      <4>1. /\ status'[s] = status[s] /\ launched'[s] = launched[s]
            /\ approval'[<<s, "start">>] = approval[<<s, "start">>]
            /\ s \in sched.active => s \in sched'.active
            /\ s \in issued' <=> s \in issued
        BY <3>1, <3>3 DEF ElsewhereSame
      <4>2. CreatingNext(s) => Creating(s)
        BY <1>6, <3>1, <3>3
      <4>3. FrameSoundNext(f)
        BY <3>1, <4>1, <4>2 DEF FrameSound, FrameSoundNext
      <4> QED BY <3>1, <4>3
    <3> QED BY <3>2, <3>3
  <2> QED BY <2>1, <2>2
<1>8. TopsApart'
  <2>1. ASSUME NEW u \in Threads, u # t, stack'[u] # <<>>, stack'[t] # <<>>
        PROVE  /\ FramesApart(Head(stack'[t]), Head(stack'[u]))
               /\ FramesApart(Head(stack'[u]), Head(stack'[t]))
    <3> DEFINE f == Head(stack'[t])
    <3>1. ~Idle(u) /\ Head(stack'[u]) = Top(u)
      BY <1>5, <2>1
    <3>2. Harmless(f) => FramesApart(f, Top(u))
      BY DEF Harmless, FramesApart
    <3>3. Harmless(f) \/ FramesApart(f, Top(u))
      BY <2>1, <3>1 DEF TopOf
    <3> HIDE DEF f
    <3>4. FramesApart(f, Top(u)) /\ FramesApart(Top(u), f)
      BY <3>2, <3>3 DEF FramesApart
    <3> QED BY <3>1, <3>4 DEF f
  <2>2. ASSUME NEW u \in Threads, NEW v \in Threads, u # v, u # t, v # t,
               stack'[u] # <<>>, stack'[v] # <<>>
        PROVE  FramesApart(Head(stack'[u]), Head(stack'[v]))
    BY <1>1, <1>5, <2>2 DEF TopsApart
  <2> QED BY <2>1, <2>2, TopsApartNext
<1>9. RunsSound'
  <2> SUFFICES ASSUME NEW s \in Runs PROVE RunSound(s)'
    BY DEF RunsSound
  <2>1. CASE s = r
    BY <2>1 DEF RunSoundNext, RunSound
  <2>2. CASE s # r
    <3>1. RunSound(s)
      BY <1>1 DEF RunsSound
    <3>2. /\ status'[s] = status[s] /\ launched'[s] = launched[s]
          /\ approval'[<<s, "start">>] = approval[<<s, "start">>]
          /\ approval'[<<s, "tool">>] = approval[<<s, "tool">>]
          /\ s \in issued' <=> s \in issued
      BY <2>2 DEF ElsewhereSame
    <3> QED BY <3>1, <3>2 DEF RunSound
  <2> QED BY <2>1, <2>2
<1>10. StillSound'
  BY DEF StillSound, Still
<1>11. RunningIsOwned'
  BY <1>1 DEF RunningIsOwned, ElsewhereSame, RunSoundNext, Still
<1>12. ActiveHoldsSlot'
  BY <1>1 DEF ActiveHoldsSlot, ElsewhereSame, RunSoundNext, Still
<1>13. OneWriter'
  BY <1>12 DEF ActiveHoldsSlot, OneExclusiveSlot, OneWriter, Exclusive, Still
<1> QED BY <1>3, <1>4, <1>7, <1>8, <1>9, <1>10, <1>11, <1>12, <1>13
        DEF Kept, IInv, StateInv, SlotInv

---------------------------------------------------------------------------
(* The other steps, one by one.                                            *)

(* Who else works on a run that has not begun. *)
LEMMA SameRunTops ==
    ASSUME IInv, NEW t \in Threads, NEW r \in Runs, status[r] \in Beginning,
           NEW u \in Threads, u # t, ~Idle(u), Top(u).run = r,
           \/ status[r] # "absent"
           \/ r \notin issued
           \/ ~Idle(t) /\ Top(t).at \in Birth /\ Top(t).run = r
    PROVE  /\ FrameSound(Top(u))
           /\ Top(u).at \notin Birth \union Starting \union Ending
           /\ Top(u).at # "commitStart"
<1>1. TopsSound /\ TopsApart
  BY DEF IInv, StateInv
<1>2. FrameSound(Top(u))
  BY <1>1 DEF TopsSound
<1>3. Top(u).at \notin Starting \union Ending
  BY <1>2 DEF FrameSound, Beginning, Terminal
<1>4. Top(u).at \notin Birth
  BY <1>1, <1>2 DEF FrameSound, TopsApart, FramesApart
<1> QED BY <1>2, <1>3, <1>4 DEF Birth

LEMMA CreatingOnlyBy ==
    ASSUME IInv, NEW t \in Threads, NEW r \in Runs, CreatingNext(r),
           \A u \in Threads : u # t => stack'[u] = stack[u],
           stack'[t] # <<>> => ~(Head(stack'[t]).at \in Birth /\ Head(stack'[t]).run = r)
    PROVE  \E u \in Threads : u # t /\ ~Idle(u) /\ Top(u).at \in Birth /\ Top(u).run = r
  BY DEF CreatingNext, Idle, Top

LEMMA SchedTyped ==
    ASSUME IInv
    PROVE  sched \in [active : SUBSET Runs, queue : Seq(issued)] /\ issued \subseteq Runs
  BY DEF IInv, TypeInv, TypeData, StateInv, QueueIssued, Schedules

\* The daemon accepts a request for a new run.
LEMMA RequestRunKeeps ==
    ASSUME IInv, NEW t \in Threads, NEW r \in Runs, RequestRun(t, r)
    PROVE  Kept
<1> DEFINE f == Frame(Op(r), "schedule", r, {})
<1>1. /\ phase = "up" /\ r \notin issued /\ issued' = issued \union {r}
      /\ stack' = [stack EXCEPT ![t] = <<f>>]
      /\ UNCHANGED <<durable, volatile, phase, launched, crashes>>
  BY DEF RequestRun
<1>2. UNCHANGED <<status, created, approval, overdue, sched, live, prov, stopped, phase, launched>>
  BY <1>1 DEF durable, volatile
<1>3. TypeInv /\ TypeData /\ RunSound(r) /\ RunningIsOwned /\ SlotInv /\ QueueIssued
  BY DEF IInv, TypeInv, StateInv, RunsSound
<1>4. status[r] = "absent"
  BY <1>1, <1>3 DEF RunSound
<1>5. /\ f \in Frames /\ f.at = "schedule" /\ f.run = r
  BY DEF Frame, Op, Frames, RunFrames, Ops, Places
<1> HIDE DEF f
<1>6. NewTop(t, f)
  BY <1>1, <1>3, <1>5, BeginHolds DEF TypeInv
<1>7. TypeInv'
  BY <1>1, <1>2, <1>3, <1>6 DEF TypeInv, TypeData, NewTop
<1>8. \A u \in Threads : u # t /\ ~Idle(u) /\ Top(u).run = r =>
        FrameSound(Top(u)) /\ Top(u).at \notin Birth \union Starting \union Ending
           /\ Top(u).at # "commitStart"
  BY <1>1, <1>4, SameRunTops DEF Beginning
<1>9. ElsewhereSame(r)
  BY <1>1, <1>2 DEF ElsewhereSame
<1>10. TopOf(t, r)
  <2>1. FrameSoundNext(f)
    BY <1>1, <1>2, <1>4, <1>5 DEF FrameSoundNext, Starting, Ending
  <2>2. \A u \in Threads : u # t /\ ~Idle(u) => FramesApart(f, Top(u))
    BY <1>5, <1>8 DEF FramesApart, Starting
  <2> QED BY <1>5, <1>6, <2>1, <2>2 DEF TopOf, NewTop
<1>11. SameRun(t, r)
  <2> SUFFICES ASSUME NEW u \in Threads, u # t, ~Idle(u), Top(u).run = r
               PROVE  FrameSoundNext(Top(u))
    BY DEF SameRun
  <2>1. Top(u).at # "promote"
    BY <1>1, <1>8 DEF FrameSound
  <2> QED BY <1>8, <2>1 DEF FrameSoundNext
<1>12. RunSoundNext(r)
  BY <1>1, <1>2, <1>3, <1>4 DEF RunSound, RunSoundNext, Active, Terminal
<1>13. QueueIssued'
  <2>1. sched.queue \in Seq(issued) /\ issued \subseteq issued'
    BY <1>1, <1>3 DEF QueueIssued
  <2>2. sched.queue \in Seq(issued')
    BY <2>1, SeqWidens
  <2> QED BY <1>2, <2>2 DEF QueueIssued
<1>14. OneExclusiveSlot'
  BY <1>2, <1>3 DEF SlotInv, OneExclusiveSlot
<1> QED BY <1>1, <1>2, <1>7, <1>9, <1>10, <1>11, <1>12, <1>13, <1>14, SpecialStep DEF Still

LEMMA ScheduleKeeps ==
    ASSUME IInv, NEW t \in Threads, Schedule(t)
    PROVE  Kept
<1> DEFINE r == Top(t).run
<1>1. /\ ~Idle(t) /\ Top(t).at = "schedule"
      /\ UNCHANGED <<durable, live, prov, stopped, phase, history>>
  BY DEF Schedule, At
<1>2. /\ Top(t) \in RunFrames /\ ~Still /\ r \in Runs /\ FrameSound(Top(t))
      /\ stack \in [Threads -> Seq(Frames)]
  BY <1>1, TopFacts
<1>3. CASE QueueFull(sched, r)
  <2>1. Raise(t) /\ UNCHANGED sched
    BY <1>3 DEF Schedule
  <2>2. StoreCalm
    BY <1>1, StoreUnchanged DEF durable
  <2>3. StackCalm
    BY <1>1, <2>1, <2>2, RaiseCalm
  <2> QED BY <1>1, <1>2, <2>1, <2>3, MovesOn DEF volatile
<1>4. CASE ~QueueFull(sched, r)
  <2> DEFINE at == IF CanStartNow(sched, r) THEN "commitStart" ELSE "commitQueued"
             f == [Top(t) EXCEPT !.at = at]
  <2>1. sched' = ScheduleStart(sched, r) /\ Goto(t, at)
    BY <1>4 DEF Schedule
  <2>2. UNCHANGED <<status, created, approval, overdue, live, prov, stopped, phase, issued, launched>>
    BY <1>1 DEF durable, history
  <2>3. TypeInv /\ TypeData /\ RunSound(r) /\ RunningIsOwned /\ SlotInv /\ LowerFramesEnded
    BY <1>2 DEF IInv, TypeInv, StateInv, RunsSound
  <2>4. status[r] = "absent" /\ r \in issued
    BY <1>1, <1>2 DEF FrameSound, Birth
  <2>5. sched \in [active : SUBSET Runs, queue : Seq(issued)] /\ issued \subseteq Runs
    BY SchedTyped
  <2>6. /\ sched' \in [active : SUBSET Runs, queue : Seq(issued)]
        /\ sched.active \subseteq sched'.active
        /\ CanStartNow(sched, r) => r \in sched'.active
        /\ \/ sched'.active = sched.active
           \/ sched'.active = {r}
           \/ r \in Parallel /\ sched'.active = sched.active \union {r}
    BY <2>1, <2>4, <2>5, StartHolds
  <2>7. LowerEnded(stack[t], status')
    BY <2>2, <2>3, LowerStays
  <2>8. /\ at \in Places /\ at \in {"commitStart", "commitQueued"}
        /\ at = "commitStart" => r \in sched'.active
    BY <2>6 DEF Places
  <2> HIDE DEF at
  <2>9. NewTop(t, f) /\ f.at = at /\ f.run = r
    BY <1>1, <1>2, <2>1, <2>7, <2>8, GotoHolds
  <2> HIDE DEF f
  <2>10. TypeInv'
    <3>1. sched' \in Schedules
      <4>1. sched'.queue \in Seq(Runs)
        BY <2>5, <2>6, SeqWidens
      <4> QED BY <2>6, <4>1 DEF Schedules
    <3> QED BY <2>2, <2>3, <2>9, <3>1 DEF TypeInv, TypeData, NewTop
  <2>11. \A u \in Threads : u # t /\ ~Idle(u) /\ Top(u).run = r =>
          FrameSound(Top(u)) /\ Top(u).at \notin Birth \union Starting \union Ending
             /\ Top(u).at # "commitStart"
    BY <1>1, <1>2, <2>4, SameRunTops DEF Beginning, Birth
  <2>12. ElsewhereSame(r)
    BY <2>2, <2>6 DEF ElsewhereSame
  <2>13. TopOf(t, r)
    <3>1. FrameSoundNext(f)
      BY <2>2, <2>4, <2>8, <2>9 DEF FrameSoundNext, Birth, Starting, Ending
    <3>2. \A u \in Threads : u # t /\ ~Idle(u) => FramesApart(f, Top(u))
      BY <2>8, <2>9, <2>11 DEF FramesApart, Starting
    <3> QED BY <2>9, <3>1, <3>2 DEF TopOf, NewTop
  <2>14. SameRun(t, r)
    <3> SUFFICES ASSUME NEW u \in Threads, u # t, ~Idle(u), Top(u).run = r
                 PROVE  FrameSoundNext(Top(u))
      BY DEF SameRun
    <3>1. Creating(r)
      BY <1>1 DEF Creating, Birth
    <3>2. Top(u).at = "promote" => r \in issued /\ r \in sched.active
      BY <2>11, <3>1 DEF FrameSound
    <3> QED BY <2>2, <2>6, <2>11, <3>2 DEF FrameSoundNext
  <2>15. RunSoundNext(r)
    BY <2>2, <2>3, <2>4 DEF RunSound, RunSoundNext, Active, Terminal
  <2>16. QueueIssued'
    BY <2>2, <2>6 DEF QueueIssued
  <2>17. OneExclusiveSlot'
    BY <2>3, <2>6 DEF SlotInv, OneExclusiveSlot, Exclusive
  <2> QED BY <1>2, <2>2, <2>10, <2>12, <2>13, <2>14, <2>15, <2>16, <2>17, SpecialStep
<1> QED BY <1>3, <1>4

LEMMA PrepareFailsKeeps ==
    ASSUME IInv, NEW t \in Threads, PrepareFails(t)
    PROVE  Kept
<1> DEFINE r == Top(t).run
<1>1. /\ ~Idle(t) /\ Top(t).at \in Birth
      /\ sched' = FinishRun(sched, r) /\ Raise(t)
      /\ UNCHANGED <<durable, live, prov, stopped, phase, history>>
  BY DEF PrepareFails, At, Birth
<1>2. ~Still /\ r \in Runs /\ FrameSound(Top(t)) /\ stack \in [Threads -> Seq(Frames)]
  BY <1>1, TopFacts
<1>3. UNCHANGED <<status, created, approval, overdue, live, prov, stopped, phase, issued, launched>>
  BY <1>1 DEF durable, history
<1>4. TypeInv /\ TypeData /\ RunSound(r) /\ RunningIsOwned /\ SlotInv /\ LowerFramesEnded
  BY <1>2 DEF IInv, TypeInv, StateInv, RunsSound
<1>5. status[r] = "absent" /\ r \in issued
  BY <1>1, <1>2 DEF FrameSound
<1>6. sched \in [active : SUBSET Runs, queue : Seq(issued)] /\ issued \subseteq Runs
  BY SchedTyped
<1>7. /\ sched' \in [active : SUBSET Runs, queue : Seq(issued)]
      /\ sched.active \ {r} \subseteq sched'.active
      /\ OneMoreOnly(sched.active, sched'.active)
  <2> HIDE DEF r
  <2>1. /\ FinishRun(sched, r) \in [active : SUBSET Runs, queue : Seq(issued)]
        /\ sched.active \ {r} \subseteq FinishRun(sched, r).active
        /\ OneMoreOnly(sched.active, FinishRun(sched, r).active)
    BY <1>2, <1>6, FinishHolds
  <2> QED BY <1>1, <2>1
<1>8. LowerEnded(stack[t], status')
  BY <1>3, <1>4, LowerStays
<1>9. Uncovered(t)
  BY <1>1, <1>2, <1>8, RaiseHolds
<1>10. TypeInv'
  <2>1. sched' \in Schedules
    <3>1. sched'.queue \in Seq(Runs)
      BY <1>6, <1>7, SeqWidens
    <3> QED BY <1>7, <3>1 DEF Schedules
  <2> QED BY <1>3, <1>4, <1>9, <2>1 DEF TypeInv, TypeData, Uncovered
<1>11. \A u \in Threads : u # t /\ ~Idle(u) /\ Top(u).run = r =>
        FrameSound(Top(u)) /\ Top(u).at \notin Birth \union Starting \union Ending
           /\ Top(u).at # "commitStart"
  BY <1>1, <1>2, <1>5, SameRunTops DEF Beginning
<1>12. ElsewhereSame(r)
  BY <1>3, <1>7 DEF ElsewhereSame
<1>13. TopOf(t, r)
  BY <1>9 DEF TopOf, Uncovered, Harmless, Birth, Starting
<1>14. SameRun(t, r)
  <2> SUFFICES ASSUME NEW u \in Threads, u # t, ~Idle(u), Top(u).run = r
               PROVE  FrameSoundNext(Top(u))
    BY DEF SameRun
  <2>1. ~CreatingNext(r)
    <3> SUFFICES ASSUME CreatingNext(r) PROVE FALSE
      OBVIOUS
    <3>1. /\ \A v \in Threads : v # t => stack'[v] = stack[v]
          /\ stack'[t] # <<>> => Head(stack'[t]).at \notin Birth
      BY <1>9 DEF Uncovered, Birth
    <3>2. \E v \in Threads : v # t /\ ~Idle(v) /\ Top(v).at \in Birth /\ Top(v).run = r
      BY <1>2, <3>1, CreatingOnlyBy
    <3> QED BY <1>11, <3>2
  <2>2. Top(u).at = "promote" => r \in issued
    BY <1>11 DEF FrameSound
  <2> QED BY <1>3, <1>5, <1>11, <2>1, <2>2 DEF FrameSoundNext
<1>15. RunSoundNext(r)
  BY <1>3, <1>4, <1>5 DEF RunSound, RunSoundNext, Active, Terminal
<1>16. QueueIssued'
  BY <1>3, <1>7 DEF QueueIssued
<1>17. OneExclusiveSlot'
  BY <1>4, <1>7 DEF SlotInv, OneExclusiveSlot, OneMoreOnly
<1> QED BY <1>2, <1>3, <1>10, <1>12, <1>13, <1>14, <1>15, <1>16, <1>17, SpecialStep

LEMMA CommitQueuedKeeps ==
    ASSUME IInv, NEW t \in Threads, CommitQueued(t)
    PROVE  Kept
<1> DEFINE r == Top(t).run
<1>1. /\ ~Idle(t) /\ Top(t).at \in Birth
      /\ SetStatus(r, "queued") /\ created' = Append(created, r) /\ Return(t)
      /\ UNCHANGED <<approval, overdue, sched, live, prov, stopped, phase, issued, launched>>
  BY DEF CommitQueued, At, Birth, volatile, history
<1>2. ~Still /\ r \in Runs /\ FrameSound(Top(t)) /\ stack \in [Threads -> Seq(Frames)]
  BY <1>1, TopFacts
<1>3. TypeInv /\ TypeData /\ RunSound(r) /\ RunningIsOwned /\ SlotInv /\ LowerFramesEnded
      /\ QueueIssued
  BY <1>2 DEF IInv, TypeInv, StateInv, RunsSound
<1>4. status[r] = "absent" /\ r \in issued
  BY <1>1, <1>2 DEF FrameSound
<1>5. status' = [status EXCEPT ![r] = "queued"] /\ status'[r] = "queued"
      /\ \A s \in Runs : s # r => status'[s] = status[s]
  BY <1>1, <1>2, <1>3 DEF SetStatus, TypeData
<1>6. LowerEnded(stack[t], status')
  <2>1. \A s \in Runs : status[s] \in Terminal => status'[s] \in Terminal
    BY <1>4, <1>5 DEF Terminal
  <2> QED BY <1>3, <2>1, LowerStays
<1>7. Uncovered(t)
  BY <1>1, <1>2, <1>6, ReturnHolds
<1>8. TypeInv'
  <2>1. created' \in Seq(Runs)
    BY <1>1, <1>2, <1>3 DEF TypeData
  <2>2. status' \in [Runs -> Cancellable \union Terminal \union {"absent"}]
    BY <1>2, <1>3, <1>5 DEF TypeData, Cancellable
  <2> QED BY <1>1, <1>3, <1>7, <2>1, <2>2 DEF TypeInv, TypeData, Uncovered
<1>9. \A u \in Threads : u # t /\ ~Idle(u) /\ Top(u).run = r =>
        FrameSound(Top(u)) /\ Top(u).at \notin Birth \union Starting \union Ending
           /\ Top(u).at # "commitStart"
  BY <1>1, <1>2, <1>4, SameRunTops DEF Beginning
<1>10. ElsewhereSame(r)
  BY <1>1, <1>5 DEF ElsewhereSame
<1>11. TopOf(t, r)
  BY <1>7 DEF TopOf, Uncovered, Harmless, Birth, Starting
<1>12. SameRun(t, r)
  <2> SUFFICES ASSUME NEW u \in Threads, u # t, ~Idle(u), Top(u).run = r
               PROVE  FrameSoundNext(Top(u))
    BY DEF SameRun
  <2>1. Creating(r)
    BY <1>1 DEF Creating
  <2>2. Top(u).at = "promote" => r \in issued /\ r \in sched.active
    BY <1>9, <2>1 DEF FrameSound
  <2> QED BY <1>1, <1>9, <2>2 DEF FrameSoundNext
<1>13. RunSoundNext(r)
  BY <1>1, <1>3, <1>4, <1>5 DEF RunSound, RunSoundNext, Active, Terminal, Beginning
<1>14. QueueIssued' /\ OneExclusiveSlot'
  BY <1>1, <1>3 DEF QueueIssued, SlotInv, OneExclusiveSlot
<1> QED BY <1>1, <1>2, <1>8, <1>10, <1>11, <1>12, <1>13, <1>14, SpecialStep

(* The first status of a run that starts: policy lets it go, denies it, or asks the user. *)
LEMMA TransitionHolds ==
    ASSUME IInv, NEW r \in Runs, NEW st \in {"running", "waitingForApproval", "failed"},
           status[r] \in {"absent", "queued"}, r \in issued, r \in sched.active,
           StartTransition(r, st), UNCHANGED <<sched, issued, launched>>
    PROVE  /\ status'[r] = st
           /\ status' \in [Runs -> Cancellable \union Terminal \union {"absent"}]
           /\ approval' \in [Approvals -> {"none", "pending", "approved", "rejected"}]
           /\ live' \in [Runs -> LiveEntries]
           /\ st = "running" => launched'[r] = 0 /\ approval'[<<r, "start">>] = "none"
           /\ \A s \in Runs : status[s] \in Terminal => status'[s] \in Terminal
           /\ ElsewhereSame(r) /\ RunSoundNext(r)
<1>1. TypeData /\ RunSound(r)
  BY DEF IInv, TypeInv, StateInv, RunsSound
<1> DEFINE a == <<r, "start">>
<1>2. a \in Approvals /\ <<r, "tool">> \in Approvals /\ <<r, "tool">> # a
  BY ApprovalsOf
<1>3. approval[a] = "none" /\ approval[<<r, "tool">>] = "none" /\ launched[r] = 0
  BY <1>1 DEF RunSound, Beginning
<1>4. /\ status'[r] = st
      /\ \A s \in Runs : s # r => status'[s] = status[s]
      /\ status' \in [Runs -> Cancellable \union Terminal \union {"absent"}]
  BY <1>1 DEF StartTransition, SetStatus, TypeData, Cancellable, Active, Terminal
<1>5. /\ approval' \in [Approvals -> {"none", "pending", "approved", "rejected"}]
      /\ approval'[a] = IF st = "waitingForApproval" THEN "pending" ELSE "none"
      /\ \A x \in Approvals : x # a => approval'[x] = approval[x]
  <2>1. CASE st = "waitingForApproval"
    BY <1>1, <1>2, <2>1 DEF StartTransition, TypeData
  <2>2. CASE st # "waitingForApproval"
    BY <1>1, <1>3, <2>2 DEF StartTransition, TypeData
  <2> QED BY <2>1, <2>2
<1>6. /\ live' \in [Runs -> LiveEntries]
      /\ st = "running" => live'[r].entry
      /\ \A s \in Runs : s # r => live'[s] = live[s]
  <2>1. live \in [Runs -> LiveEntries] /\ Claimed \in LiveEntries /\ Claimed.entry
    BY <1>1 DEF TypeData, LiveEntries, Claimed, NoEntry
  <2>2. live' = IF st = "running" THEN [live EXCEPT ![r] = Claimed] ELSE live
    BY DEF StartTransition
  <2> QED BY <2>1, <2>2
<1>7. \A s \in Runs : status[s] \in Terminal => status'[s] \in Terminal
  BY <1>4 DEF Terminal
<1>8. ElsewhereSame(r)
  <2> SUFFICES ASSUME NEW s \in Runs, s # r
               PROVE  /\ status'[s] = status[s] /\ live'[s].entry = live[s].entry
                      /\ approval'[<<s, "start">>] = approval[<<s, "start">>]
                      /\ approval'[<<s, "tool">>] = approval[<<s, "tool">>]
    BY DEF ElsewhereSame
  <2>1. <<s, "start">> \in Approvals /\ <<s, "tool">> \in Approvals
    BY ApprovalsOf
  <2>2. <<s, "start">> # a /\ <<s, "tool">> # a
    OBVIOUS
  <2> QED BY <1>4, <1>5, <1>6, <2>1, <2>2
<1>9. RunSoundNext(r)
  <2>1. approval'[<<r, "tool">>] = "none" /\ launched'[r] = 0
    BY <1>2, <1>3, <1>5
  <2>2. status[r] \notin Terminal
    BY DEF Terminal
  <2> QED BY <1>3, <1>4, <1>5, <1>6, <2>1, <2>2 DEF RunSoundNext, Beginning
<1> QED BY <1>3, <1>4, <1>5, <1>6, <1>7, <1>8, <1>9

LEMMA CommitStartKeeps ==
    ASSUME IInv, NEW t \in Threads, CommitStart(t)
    PROVE  Kept
<1> DEFINE r == Top(t).run
<1>1. /\ ~Idle(t) /\ Top(t).at = "commitStart"
      /\ UNCHANGED <<sched, prov, stopped, phase, issued, launched>>
  BY DEF CommitStart, At, history
<1>2. /\ ~Still /\ r \in Runs /\ FrameSound(Top(t)) /\ stack \in [Threads -> Seq(Frames)]
      /\ Top(t) \in RunFrames
  BY <1>1, TopFacts
<1>3. TypeInv /\ TypeData /\ RunSound(r) /\ SlotInv /\ LowerFramesEnded /\ QueueIssued
  BY <1>2 DEF IInv, TypeInv, StateInv, RunsSound
<1>4. status[r] = "absent" /\ r \in issued /\ r \in sched.active
  BY <1>1, <1>2 DEF FrameSound, Birth
<1>5. PICK st \in Decisions :
        /\ StartTransition(r, st) /\ created' = Append(created, r)
        /\ \/ st = "running" /\ Goto(t, "budget")
           \/ st = "failed" /\ Become(t, Advance(r))
           \/ st # "running" /\ Return(t)
  BY DEF CommitStart
<1>6. st \in {"running", "waitingForApproval", "failed"}
  BY LifecycleAssumption
<1>7. /\ status'[r] = st
      /\ status' \in [Runs -> Cancellable \union Terminal \union {"absent"}]
      /\ approval' \in [Approvals -> {"none", "pending", "approved", "rejected"}]
      /\ live' \in [Runs -> LiveEntries]
      /\ st = "running" => launched'[r] = 0 /\ approval'[<<r, "start">>] = "none"
      /\ \A s \in Runs : status[s] \in Terminal => status'[s] \in Terminal
      /\ ElsewhereSame(r) /\ RunSoundNext(r)
  BY <1>1, <1>2, <1>4, <1>5, <1>6, TransitionHolds
<1> HIDE DEF r
<1>8. LowerEnded(stack[t], status')
  BY <1>3, <1>7, LowerStays
<1>9. \A u \in Threads : u # t /\ ~Idle(u) /\ Top(u).run = r =>
        FrameSound(Top(u)) /\ Top(u).at \notin Birth \union Starting \union Ending
           /\ Top(u).at # "commitStart"
  BY <1>1, <1>2, <1>4, SameRunTops DEF Beginning, Birth, r
<1>10. TopOf(t, r) /\ (stack'[t] # <<>> => Head(stack'[t]).at \notin Birth)
  <2>1. CASE st = "running" /\ Goto(t, "budget")
    <3> DEFINE f == [Top(t) EXCEPT !.at = "budget"]
    <3>1. NewTop(t, f) /\ f.at = "budget" /\ f.run = r
      <4>1. "budget" \in Places
        BY DEF Places
      <4> QED BY <1>1, <1>2, <1>8, <2>1, <4>1, GotoHolds DEF r
    <3> HIDE DEF f
    <3>2. FrameSoundNext(f)
      BY <1>7, <2>1, <3>1 DEF FrameSoundNext, Birth, Ending, Beginning
    <3>3. \A u \in Threads : u # t /\ ~Idle(u) => FramesApart(f, Top(u))
      BY <1>9, <3>1 DEF FramesApart
    <3> QED BY <3>1, <3>2, <3>3 DEF TopOf, NewTop, Birth
  <2>2. CASE st = "failed" /\ Become(t, Advance(r))
    <3>1. NewTop(t, Advance(r))
      BY <1>1, <1>2, <1>8, <2>2, AdvanceTyped, BecomeHolds
    <3>2. Harmless(Advance(r))
      BY <1>2, <1>7, <2>2, AdvanceTyped DEF Harmless, Terminal
    <3> QED BY <1>2, <3>1, <3>2, AdvanceTyped DEF TopOf, NewTop
  <2>3. CASE Return(t)
    <3>1. Uncovered(t)
      BY <1>1, <1>2, <1>8, <2>3, ReturnHolds
    <3> QED BY <3>1 DEF TopOf, Uncovered, Harmless, Birth, Starting
  <2> QED BY <1>5, <2>1, <2>2, <2>3
<1>11. TypeInv'
  <2>1. created' \in Seq(Runs)
    BY <1>2, <1>3, <1>5 DEF TypeData
  <2>2. overdue' \subseteq Approvals
    BY <1>3, <1>5 DEF TypeData, StartTransition
  <2> QED BY <1>1, <1>3, <1>7, <1>10, <2>1, <2>2 DEF TypeInv, TypeData, TopOf, LiveEntries
<1>12. SameRun(t, r)
  <2> SUFFICES ASSUME NEW u \in Threads, u # t, ~Idle(u), Top(u).run = r
               PROVE  FrameSoundNext(Top(u))
    BY DEF SameRun
  <2>1. ~CreatingNext(r)
    <3> SUFFICES ASSUME CreatingNext(r) PROVE FALSE
      OBVIOUS
    <3>1. /\ \A v \in Threads : v # t => stack'[v] = stack[v]
          /\ stack'[t] # <<>> => Head(stack'[t]).at \notin Birth
      BY <1>10 DEF TopOf
    <3>2. \E v \in Threads : v # t /\ ~Idle(v) /\ Top(v).at \in Birth /\ Top(v).run = r
      BY <1>2, <3>1, CreatingOnlyBy
    <3> QED BY <1>9, <3>2
  <2>2. Top(u).at = "promote" => r \in issued
    BY <1>9 DEF FrameSound
  <2>3. status'[r] # "queued"
    BY <1>6, <1>7
  <2> QED BY <1>1, <1>9, <2>1, <2>2, <2>3 DEF FrameSoundNext
<1>13. QueueIssued' /\ OneExclusiveSlot'
  BY <1>1, <1>3 DEF QueueIssued, SlotInv, OneExclusiveSlot
<1> QED BY <1>1, <1>2, <1>7, <1>10, <1>11, <1>12, <1>13, SpecialStep

LEMMA PromoteKeeps ==
    ASSUME IInv, NEW t \in Threads, Promote(t)
    PROVE  Kept
<1> DEFINE r == Top(t).run
<1>1. /\ ~Idle(t) /\ Top(t).at = "promote" /\ status[r] = "queued"
      /\ UNCHANGED <<created, sched, prov, stopped, phase, issued, launched, crashes>>
  BY DEF Promote, At, history
<1>2. /\ ~Still /\ r \in Runs /\ FrameSound(Top(t)) /\ stack \in [Threads -> Seq(Frames)]
      /\ Top(t) \in RunFrames
  BY <1>1, TopFacts
<1>3. TypeInv /\ TypeData /\ RunSound(r) /\ SlotInv /\ LowerFramesEnded /\ QueueIssued
  BY <1>2 DEF IInv, TypeInv, StateInv, RunsSound
<1>4. r \in issued /\ r \in sched.active
  BY <1>1, <1>2 DEF FrameSound
<1>5. PICK st \in Decisions :
        /\ StartTransition(r, st)
        /\ IF st = "running" THEN Goto(t, "budget") ELSE Settled(t, st)
  BY DEF Promote
<1>6. st \in {"running", "waitingForApproval", "failed"}
  BY LifecycleAssumption
<1>7. /\ status'[r] = st
      /\ status' \in [Runs -> Cancellable \union Terminal \union {"absent"}]
      /\ approval' \in [Approvals -> {"none", "pending", "approved", "rejected"}]
      /\ live' \in [Runs -> LiveEntries]
      /\ st = "running" => launched'[r] = 0 /\ approval'[<<r, "start">>] = "none"
      /\ \A s \in Runs : status[s] \in Terminal => status'[s] \in Terminal
      /\ ElsewhereSame(r) /\ RunSoundNext(r)
  BY <1>1, <1>2, <1>4, <1>5, <1>6, TransitionHolds
<1> HIDE DEF r
<1>8. LowerEnded(stack[t], status')
  BY <1>3, <1>7, LowerStays
<1>9. \A u \in Threads : u # t /\ ~Idle(u) /\ Top(u).run = r =>
        FrameSound(Top(u)) /\ Top(u).at \notin Birth \union Starting \union Ending
           /\ Top(u).at # "commitStart"
  BY <1>1, <1>2, SameRunTops DEF Beginning
<1>10. CASE st = "failed"
  <2>1. SetStatus(r, "failed") /\ UNCHANGED <<approval, live, overdue>>
    BY <1>5, <1>10 DEF StartTransition
  <2>2. StoreCalm
    BY <1>1, <1>2, <2>1, RunningEnds DEF Terminal
  <2>3. Settled(t, st) /\ status'[Top(t).run] \in Terminal
    BY <1>5, <1>7, <1>10 DEF r, Terminal
  <2>4. StackCalm
    BY <1>1, <1>2, <2>2, <2>3, SettledCalm
  <2>5. RestCalm
    BY <1>1, <2>1, RestUnchanged DEF volatile, history
  <2> QED BY <1>2, <2>2, <2>4, <2>5, CalmStep DEF Kept
<1>11. CASE st # "failed"
  <2>1. TopOf(t, r) /\ (stack'[t] # <<>> => Head(stack'[t]).at \notin Birth)
    <3>1. CASE st = "running"
      <4> DEFINE f == [Top(t) EXCEPT !.at = "budget"]
      <4>1. NewTop(t, f) /\ f.at = "budget" /\ f.run = r
        <5>1. "budget" \in Places /\ Goto(t, "budget")
          BY <1>5, <3>1 DEF Places
        <5> QED BY <1>1, <1>2, <1>8, <5>1, GotoHolds DEF r
      <4> HIDE DEF f
      <4>2. FrameSoundNext(f)
        BY <1>7, <3>1, <4>1 DEF FrameSoundNext, Birth, Ending, Beginning
      <4>3. \A u \in Threads : u # t /\ ~Idle(u) => FramesApart(f, Top(u))
        BY <1>9, <4>1 DEF FramesApart
      <4> QED BY <4>1, <4>2, <4>3 DEF TopOf, NewTop, Birth
    <3>2. CASE st = "waitingForApproval"
      <4>1. Return(t)
        BY <1>5, <3>2 DEF Settled
      <4>2. Uncovered(t)
        BY <1>1, <1>2, <1>8, <4>1, ReturnHolds
      <4> QED BY <4>2 DEF TopOf, Uncovered, Harmless, Birth, Starting
    <3> QED BY <1>6, <1>11, <3>1, <3>2
  <2>2. TypeInv'
    <3>1. overdue' \subseteq Approvals
      BY <1>3, <1>5 DEF TypeData, StartTransition
    <3> QED BY <1>1, <1>3, <1>7, <2>1, <3>1 DEF TypeInv, TypeData, TopOf, LiveEntries
  <2>3. SameRun(t, r)
    <3> SUFFICES ASSUME NEW u \in Threads, u # t, ~Idle(u), Top(u).run = r
                 PROVE  FrameSoundNext(Top(u))
      BY DEF SameRun
    <3>1. ~CreatingNext(r)
      <4> SUFFICES ASSUME CreatingNext(r) PROVE FALSE
        OBVIOUS
      <4>1. /\ \A v \in Threads : v # t => stack'[v] = stack[v]
            /\ stack'[t] # <<>> => Head(stack'[t]).at \notin Birth
        BY <2>1 DEF TopOf
      <4>2. \E v \in Threads : v # t /\ ~Idle(v) /\ Top(v).at \in Birth /\ Top(v).run = r
        BY <1>2, <4>1, CreatingOnlyBy
      <4> QED BY <1>9, <4>2
    <3>2. Top(u).at = "promote" => r \in issued
      BY <1>9 DEF FrameSound
    <3>3. status'[r] # "queued"
      BY <1>6, <1>7
    <3> QED BY <1>1, <1>9, <3>1, <3>2, <3>3 DEF FrameSoundNext
  <2>4. QueueIssued' /\ OneExclusiveSlot'
    BY <1>1, <1>3 DEF QueueIssued, SlotInv, OneExclusiveSlot
  <2> QED BY <1>1, <1>2, <1>7, <2>1, <2>2, <2>3, <2>4, SpecialStep
<1> QED BY <1>10, <1>11


\* start_execution: the run gets its provider.
LEMMA LaunchKeeps ==
    ASSUME IInv, NEW t \in Threads, Launch(t)
    PROVE  Kept
<1> DEFINE r == Top(t).run
           f == [Top(t) EXCEPT !.at = "attach"]
<1>1. /\ ~Idle(t) /\ Top(t).at = "launch" /\ Goto(t, "attach")
      /\ prov' = [prov EXCEPT ![r] = "working"]
      /\ launched' = [launched EXCEPT ![r] = launched[r] + 1]
      /\ UNCHANGED <<status, created, approval, overdue, sched, live, stopped, phase, issued>>
  BY DEF Launch, At, durable
<1>2. /\ ~Still /\ r \in Runs /\ FrameSound(Top(t)) /\ stack \in [Threads -> Seq(Frames)]
      /\ Top(t) \in RunFrames
  BY <1>1, TopFacts
<1>3. /\ TypeInv /\ TypeData /\ RunSound(r) /\ SlotInv /\ LowerFramesEnded /\ QueueIssued
      /\ TopsSound /\ TopsApart /\ RunningIsOwned
  BY <1>2 DEF IInv, TypeInv, StateInv, RunsSound
<1>4. /\ status[r] \notin Beginning /\ launched[r] = 0
      /\ approval[<<r, "start">>] \in {"none", "approved"}
  BY <1>1, <1>2 DEF FrameSound, Starting
<1>5. /\ launched' \in [Runs -> Nat] /\ launched'[r] = 1
      /\ \A s \in Runs : s # r => launched'[s] = launched[s]
  BY <1>1, <1>2, <1>3, <1>4 DEF TypeData
<1>6. LowerEnded(stack[t], status')
  BY <1>1, <1>3, LowerStays
<1>7. NewTop(t, f) /\ f.at = "attach" /\ f.run = r
  <2>1. "attach" \in Places
    BY DEF Places
  <2> QED BY <1>1, <1>2, <1>6, <2>1, GotoHolds
<1> HIDE DEF f
<1>8. TypeInv'
  <2>1. prov' \in [Runs -> {"none", "working", "asking", "over"}]
    BY <1>1, <1>3 DEF TypeData
  <2> QED BY <1>1, <1>3, <1>5, <1>7, <2>1 DEF TypeInv, TypeData, NewTop
<1>9. ElsewhereSame(r)
  BY <1>1, <1>5 DEF ElsewhereSame
<1>10. TopOf(t, r)
  BY <1>7 DEF TopOf, NewTop, Harmless, Birth, Starting, Ending
<1>11. SameRun(t, r)
  <2> SUFFICES ASSUME NEW u \in Threads, u # t, ~Idle(u), Top(u).run = r
               PROVE  FrameSoundNext(Top(u))
    BY DEF SameRun
  <2>1. FrameSound(Top(u)) /\ Top(u).at \notin Birth \union Starting
    BY <1>1, <1>3, <1>4 DEF TopsSound, FrameSound, Beginning, TopsApart, FramesApart, Starting
  <2>2. CreatingNext(r) => Creating(r)
    <3>1. /\ \A v \in Threads : v # t => stack'[v] = stack[v]
          /\ stack'[t] # <<>> => Head(stack'[t]).at \notin Birth
      BY <1>7 DEF NewTop, Birth
    <3>2. CreatingNext(r) =>
            \E v \in Threads : v # t /\ ~Idle(v) /\ Top(v).at \in Birth /\ Top(v).run = r
      BY <1>2, <3>1, CreatingOnlyBy
    <3> QED BY <3>2 DEF Creating
  <2>3. Top(u).at # "commitStart"
    BY <2>1 DEF Birth
  <2> QED BY <1>1, <2>1, <2>2, <2>3 DEF FrameSound, FrameSoundNext
<1>12. RunSoundNext(r)
  BY <1>1, <1>2, <1>3, <1>4, <1>5
     DEF RunSound, RunSoundNext, RunningIsOwned, SlotInv, ActiveHoldsSlot, Still, Beginning
<1>13. QueueIssued' /\ OneExclusiveSlot'
  BY <1>1, <1>3 DEF QueueIssued, SlotInv, OneExclusiveSlot
<1> QED BY <1>1, <1>2, <1>8, <1>9, <1>10, <1>11, <1>12, <1>13, SpecialStep

\* finish_scheduled_run: the run is over, and the next one may be promoted.
LEMMA FinishKeeps ==
    ASSUME IInv, NEW t \in Threads, Finish(t)
    PROVE  Kept
<1> DEFINE r == Top(t).run
           next == FinishPromotes(sched, r)
<1>1. /\ ~Idle(t) /\ Top(t).at = "finish"
      /\ sched' = FinishRun(sched, r)
      /\ live' = [live EXCEPT ![r] = NoEntry]
      /\ stopped' = IF live[r].handle THEN stopped \union {r} ELSE stopped
      /\ \/ Return(t)
         \/ \E n \in next : Become(t, Frame("advance", "promote", n, {}))
      /\ UNCHANGED <<status, created, approval, overdue, prov, phase, issued, launched>>
  BY DEF Finish, At, durable, history
<1>2. ~Still /\ r \in Runs /\ FrameSound(Top(t)) /\ stack \in [Threads -> Seq(Frames)]
  BY <1>1, TopFacts
<1>3. /\ TypeInv /\ TypeData /\ RunSound(r) /\ SlotInv /\ LowerFramesEnded /\ QueueIssued
      /\ TopsSound
  BY <1>2 DEF IInv, TypeInv, StateInv, RunsSound
<1>4. status[r] \in Terminal
  BY <1>1, <1>2 DEF FrameSound, Ending
<1>5. sched \in [active : SUBSET Runs, queue : Seq(issued)] /\ issued \subseteq Runs
  BY SchedTyped
<1>6. /\ sched' \in [active : SUBSET Runs, queue : Seq(issued)]
      /\ sched.active \ {r} \subseteq sched'.active
      /\ next \subseteq issued /\ next \subseteq sched'.active
      /\ OneMoreOnly(sched.active, sched'.active)
  <2> HIDE DEF r
  <2>1. /\ FinishRun(sched, r) \in [active : SUBSET Runs, queue : Seq(issued)]
        /\ sched.active \ {r} \subseteq FinishRun(sched, r).active
        /\ FinishPromotes(sched, r) \subseteq issued
        /\ FinishPromotes(sched, r) \subseteq FinishRun(sched, r).active
        /\ OneMoreOnly(sched.active, FinishRun(sched, r).active)
    BY <1>2, <1>5, FinishHolds
  <2> QED BY <1>1, <2>1
<1> HIDE DEF next
<1>7. LowerEnded(stack[t], status')
  BY <1>1, <1>3, LowerStays
<1>8. TopOf(t, r) /\ (stack'[t] # <<>> => Head(stack'[t]).at \notin Birth)
  <2>1. CASE Return(t)
    <3>1. Uncovered(t)
      BY <1>1, <1>2, <1>7, <2>1, ReturnHolds
    <3> QED BY <3>1 DEF TopOf, Uncovered, Harmless, Birth, Starting
  <2>2. ASSUME NEW n \in next, Become(t, Frame("advance", "promote", n, {}))
        PROVE  TopOf(t, r) /\ (stack'[t] # <<>> => Head(stack'[t]).at \notin Birth)
    <3> DEFINE f == Frame("advance", "promote", n, {})
    <3>1. f \in Frames /\ f.at = "promote" /\ f.run = n
      BY <1>5, <1>6 DEF Frame, Frames, RunFrames, Ops, Places
    <3> HIDE DEF f
    <3>2. NewTop(t, f)
      BY <1>1, <1>2, <1>7, <2>2, <3>1, BecomeHolds DEF f
    <3>3. Harmless(f)
      BY <1>1, <1>6, <3>1 DEF Harmless, Birth, Starting, Ending
    <3> QED BY <3>1, <3>2, <3>3 DEF TopOf, NewTop, Birth
  <2> QED BY <1>1, <2>1, <2>2
<1>9. /\ live' \in [Runs -> LiveEntries]
      /\ \A s \in Runs : s # r => live'[s] = live[s]
  <2>1. live \in [Runs -> LiveEntries] /\ NoEntry \in LiveEntries
    BY <1>3 DEF TypeData, LiveEntries, NoEntry
  <2> QED BY <1>1, <1>2, <2>1
<1>10. TypeInv'
  <2>1. sched' \in Schedules
    <3>1. sched'.queue \in Seq(Runs)
      BY <1>5, <1>6, SeqWidens
    <3> QED BY <1>6, <3>1 DEF Schedules
  <2>2. stopped' \subseteq Runs
    BY <1>1, <1>2, <1>3 DEF TypeData
  <2> QED BY <1>1, <1>3, <1>8, <1>9, <2>1, <2>2 DEF TypeInv, TypeData, TopOf, LiveEntries
<1>11. ElsewhereSame(r)
  BY <1>1, <1>6, <1>9 DEF ElsewhereSame
<1>12. SameRun(t, r)
  <2> SUFFICES ASSUME NEW u \in Threads, u # t, ~Idle(u), Top(u).run = r
               PROVE  FrameSoundNext(Top(u))
    BY DEF SameRun
  <2>1. \A v \in Threads : ~Idle(v) /\ Top(v).run = r => FrameSound(Top(v)) /\ Top(v).at \notin Birth
    BY <1>3, <1>4 DEF TopsSound, FrameSound, Terminal
  <2>2. ~CreatingNext(r)
    <3>1. /\ \A v \in Threads : v # t => stack'[v] = stack[v]
          /\ stack'[t] # <<>> => Head(stack'[t]).at \notin Birth
      BY <1>8 DEF TopOf
    <3>2. CreatingNext(r) =>
            \E v \in Threads : v # t /\ ~Idle(v) /\ Top(v).at \in Birth /\ Top(v).run = r
      BY <1>2, <3>1, CreatingOnlyBy
    <3> QED BY <2>1, <3>2
  <2>3. Top(u).at # "commitStart" /\ status[r] # "queued"
    BY <1>4, <2>1 DEF Birth, Terminal
  <2> QED BY <1>1, <2>1, <2>2, <2>3 DEF FrameSound, FrameSoundNext
<1>13. RunSoundNext(r)
  BY <1>1, <1>2, <1>3, <1>4 DEF RunSound, RunSoundNext, Active, Terminal, Beginning
<1>14. QueueIssued'
  BY <1>1, <1>6 DEF QueueIssued
<1>15. OneExclusiveSlot'
  BY <1>3, <1>6 DEF SlotInv, OneExclusiveSlot, OneMoreOnly
<1> QED BY <1>1, <1>2, <1>8, <1>10, <1>11, <1>12, <1>13, <1>14, <1>15, SpecialStep

\* The user lets a run start.
LEMMA DecideApprovedKeeps ==
    ASSUME IInv, NEW t \in Threads, NEW a \in Approvals, ~Still,
           approval[a] = "pending", DecideWaiting(t, a, "approved"),
           UNCHANGED <<created, sched, prov, stopped, phase, history>>
    PROVE  Kept
<1> DEFINE r == a[1]
           f == Frame("decide", "profile", r, {})
<1>1. /\ status[r] = "waitingForApproval" /\ Resolve({a}, "approved")
      /\ SetStatus(r, "running") /\ live' = [live EXCEPT ![r] = Claimed]
      /\ stack' = [stack EXCEPT ![t] = <<f>>]
      /\ UNCHANGED <<issued, launched>>
  BY DEF DecideWaiting, history
<1>2. r \in Runs /\ (a = <<r, "start">> \/ a = <<r, "tool">>)
  BY DEF Approvals
<1>3. /\ TypeInv /\ TypeData /\ RunSound(r) /\ SlotInv /\ QueueIssued
      /\ stack \in [Threads -> Seq(Frames)]
  BY <1>2 DEF IInv, TypeInv, StateInv, RunsSound
<1>4. a = <<r, "start">> /\ approval[<<r, "tool">>] = "none" /\ launched[r] = 0
  BY <1>1, <1>2, <1>3 DEF RunSound, Beginning
<1>5. r \in issued /\ r \in sched.active
  BY <1>1, <1>2, <1>3 DEF RunSound, SlotInv, ActiveHoldsSlot, Active, Still
<1>6. /\ f \in Frames /\ f.at = "profile" /\ f.run = r
  BY <1>2 DEF Frame, Frames, RunFrames, Ops, Places
<1> HIDE DEF f, r
<1>7. NewTop(t, f)
  BY <1>1, <1>3, <1>6, BeginHolds
<1>8. /\ status'[r] = "running"
      /\ \A s \in Runs : s # r => status'[s] = status[s]
      /\ status' \in [Runs -> Cancellable \union Terminal \union {"absent"}]
  BY <1>1, <1>2, <1>3 DEF SetStatus, TypeData, Cancellable, Active
<1>9. /\ approval' \in [Approvals -> {"none", "pending", "approved", "rejected"}]
      /\ approval'[a] = "approved"
      /\ \A x \in Approvals : x # a => approval'[x] = approval[x]
      /\ overdue' \subseteq Approvals
  BY <1>1, <1>3 DEF Resolve, TypeData
<1>10. /\ live' \in [Runs -> LiveEntries] /\ live'[r].entry
       /\ \A s \in Runs : s # r => live'[s] = live[s]
  <2>1. live \in [Runs -> LiveEntries] /\ Claimed \in LiveEntries /\ Claimed.entry
    BY <1>3 DEF TypeData, LiveEntries, Claimed, NoEntry
  <2> QED BY <1>1, <1>2, <2>1
<1>11. TypeInv'
  BY <1>1, <1>3, <1>7, <1>8, <1>9, <1>10 DEF TypeInv, TypeData, NewTop, LiveEntries
<1>12. \A u \in Threads : u # t /\ ~Idle(u) /\ Top(u).run = r =>
        FrameSound(Top(u)) /\ Top(u).at \notin Birth \union Starting \union Ending
           /\ Top(u).at # "commitStart"
  BY <1>1, <1>2, SameRunTops DEF Beginning
<1>13. ElsewhereSame(r)
  <2> SUFFICES ASSUME NEW s \in Runs, s # r
               PROVE  /\ status'[s] = status[s] /\ live'[s].entry = live[s].entry
                      /\ approval'[<<s, "start">>] = approval[<<s, "start">>]
                      /\ approval'[<<s, "tool">>] = approval[<<s, "tool">>]
    BY <1>1 DEF ElsewhereSame
  <2>1. <<s, "start">> \in Approvals /\ <<s, "tool">> \in Approvals
    BY ApprovalsOf
  <2>2. <<s, "start">> # a /\ <<s, "tool">> # a
    BY <1>4
  <2> QED BY <1>8, <1>9, <1>10, <2>1, <2>2
<1>14. TopOf(t, r)
  <2>1. FrameSoundNext(f)
    BY <1>1, <1>4, <1>6, <1>8, <1>9 DEF FrameSoundNext, Birth, Ending, Beginning
  <2>2. \A u \in Threads : u # t /\ ~Idle(u) => FramesApart(f, Top(u))
    BY <1>6, <1>12 DEF FramesApart
  <2> QED BY <1>6, <1>7, <2>1, <2>2 DEF TopOf, NewTop
<1>15. SameRun(t, r)
  <2> SUFFICES ASSUME NEW u \in Threads, u # t, ~Idle(u), Top(u).run = r
               PROVE  FrameSoundNext(Top(u))
    BY DEF SameRun
  <2>1. Top(u).at = "promote" => r \in issued
    BY <1>12 DEF FrameSound
  <2> QED BY <1>1, <1>5, <1>12, <2>1 DEF FrameSoundNext
<1>16. RunSoundNext(r)
  <2>1. approval'[<<r, "tool">>] = "none" /\ status[r] \notin Terminal
    BY <1>1, <1>2, <1>4, <1>9, ApprovalsOf DEF Terminal
  <2> QED BY <1>1, <1>4, <1>5, <1>8, <1>9, <1>10, <2>1 DEF RunSoundNext, Beginning
<1>17. QueueIssued' /\ OneExclusiveSlot'
  BY <1>1, <1>3 DEF QueueIssued, SlotInv, OneExclusiveSlot
<1> QED BY <1>1, <1>2, <1>11, <1>13, <1>14, <1>15, <1>16, <1>17, SpecialStep

LEMMA DecideKeeps ==
    ASSUME IInv, NEW t \in Threads, NEW a \in Approvals, NEW d \in {"approved", "rejected"},
           Decide(t, a, d)
    PROVE  Kept
<1>1. /\ ~Still /\ approval[a] = "pending"
      /\ UNCHANGED <<created, sched, prov, stopped, phase, history>>
  BY DEF Decide, Still
<1>2. CASE DecideOverdue(t, a)
  BY <1>1, <1>2, DecideOverdueKeeps
<1>3. CASE DecideLive(t, a, d)
  BY <1>1, <1>3, DecideLiveKeeps
<1>4. CASE DecideWaiting(t, a, d) /\ d = "approved"
  BY <1>1, <1>4, DecideApprovedKeeps
<1>5. CASE DecideWaiting(t, a, d) /\ d # "approved"
  BY <1>1, <1>5, DecideRejectedKeeps
<1> QED BY <1>2, <1>3, <1>4, <1>5 DEF Decide

---------------------------------------------------------------------------
(* The daemon dies and starts again: whatever it does, no thread has begun. *)

\* The invariant of a daemon in which only the thread b has a frame, f, or none has.
LEMMA QuietHolds ==
    ASSUME TypeInv', RunsSound', StillSound', QueueIssued', RunningIsOwned', SlotInv',
           NEW b \in Threads, \A t \in Threads : t # b => stack'[t] = <<>>,
           Len(stack'[b]) <= 1,
           stack'[b] # <<>> => LET f == Head(stack'[b])
                               IN  f.at = "promote" /\ f.run \in issued' /\ f.run \in sched'.active
    PROVE  IInv'
<1>1. LowerFramesEnded'
  <2> SUFFICES ASSUME NEW t \in Threads, NEW i \in 2..Len(stack'[t]) PROVE FALSE
    BY DEF LowerFramesEnded, LowerEnded
  <2>1. stack'[t] \in Seq(Frames)
    BY DEF TypeInv
  <2>2. Len(stack'[t]) <= 1 /\ Len(stack'[t]) \in Nat
    BY <2>1
  <2> QED BY <2>2
<1>2. TopsSound'
  <2>1. ASSUME NEW t \in Threads, stack'[t] # <<>> PROVE FrameSoundNext(Head(stack'[t]))
    BY <2>1 DEF FrameSoundNext, Birth, Starting, Ending
  <2> QED BY <2>1, TopsSoundNext
<1>3. TopsApart'
  <2>1. \A t, u \in Threads : t # u /\ stack'[t] # <<>> /\ stack'[u] # <<>> => FALSE
    OBVIOUS
  <2> QED BY <2>1, TopsApartNext
<1> QED BY <1>1, <1>2, <1>3 DEF IInv, StateInv

LEMMA CrashKeeps ==
    ASSUME IInv, Crash
    PROVE  Kept
<1>1. /\ phase' = "down" /\ sched' = EmptySchedule /\ live' = [r \in Runs |-> NoEntry]
      /\ prov' = [r \in Runs |-> "none"] /\ stopped' = {} /\ stack' = [t \in Threads |-> <<>>]
      /\ UNCHANGED <<status, created, approval, overdue, issued, launched>>
  BY DEF Crash, durable
<1>2. TypeInv /\ TypeData /\ RunsSound /\ OneWriter
  BY DEF IInv, TypeInv, StateInv, SlotInv
<1>3. TypeInv'
  <2>1. EmptySchedule \in Schedules /\ <<>> \in Seq(Frames)
    BY DEF EmptySchedule, Schedules
  <2>2. TypeData'
    BY <1>1, <1>2, <2>1 DEF TypeData, NoEntry
  <2> QED BY <1>1, <2>1, <2>2 DEF TypeInv
<1>4. RunsSound' /\ StillSound'
  BY <1>1, <1>2 DEF RunsSound, RunSound, StillSound, Idle
<1>5. QueueIssued' /\ RunningIsOwned' /\ SlotInv'
  BY <1>1, <1>2 DEF QueueIssued, EmptySchedule, RunningIsOwned, SlotInv, ActiveHoldsSlot,
                    OneExclusiveSlot, OneWriter
<1>6. Boot \in Threads /\ Len(<<>>) <= 1
  BY DEF Threads
<1>7. IInv'
  BY <1>1, <1>3, <1>4, <1>5, <1>6, QuietHolds
<1> QED BY <1>1, <1>7 DEF Kept, KeepsDecisions

\* reconcile_orphaned_running_runs
LEMMA ReconcileKeeps ==
    ASSUME IInv, Reconcile
    PROVE  Kept
<1> DEFINE lost == { r \in Runs : status[r] \in Active }
           as == UNION { PendingOf(r) : r \in lost }
<1>1. /\ phase = "down" /\ phase' = "reconciled"
      /\ status' = [r \in Runs |-> IF r \in lost THEN "failed" ELSE status[r]]
      /\ Resolve(as, "rejected")
      /\ UNCHANGED <<created, sched, live, prov, stopped, stack, issued, launched>>
  BY DEF Reconcile, volatile, history
<1>2. /\ TypeInv /\ TypeData /\ RunsSound /\ StillSound /\ QueueIssued
      /\ OneExclusiveSlot
  BY DEF IInv, TypeInv, StateInv, SlotInv
<1>3. /\ \A t \in Threads : Idle(t)
      /\ \A r \in Runs : prov[r] = "none"
  BY <1>1, <1>2 DEF StillSound, Still
<1>4. \A r \in Runs : \/ status[r] \in Active /\ status'[r] = "failed"
                      \/ status[r] \notin Active /\ status'[r] = status[r]
  BY <1>1
<1>5. \A a \in Approvals : \/ approval'[a] = approval[a] /\ a \notin as
                           \/ approval[a] = "pending" /\ approval'[a] = "rejected"
  <2>1. \A a \in as : approval[a] = "pending"
    BY DEF PendingOf
  <2> HIDE DEF as
  <2> QED BY <1>1, <2>1 DEF Resolve
<1>6. \A r \in Runs : status[r] \in Active => approval'[<<r, "start">>] # "pending"
  <2> SUFFICES ASSUME NEW r \in Runs, status[r] \in Active, approval'[<<r, "start">>] = "pending"
               PROVE  FALSE
    OBVIOUS
  <2>1. <<r, "start">> \in Approvals
    BY ApprovalsOf
  <2>2. approval[<<r, "start">>] = "pending" /\ <<r, "start">> \notin as
    BY <1>5, <2>1
  <2>3. <<r, "start">> \in PendingOf(r) /\ r \in lost
    BY <2>1, <2>2 DEF PendingOf
  <2> QED BY <2>2, <2>3
<1> HIDE DEF as, lost
<1>7. TypeInv'
  <2>1. status' \in [Runs -> Cancellable \union Terminal \union {"absent"}]
    BY <1>1, <1>2 DEF TypeData, Terminal
  <2>2. /\ approval' \in [Approvals -> {"none", "pending", "approved", "rejected"}]
        /\ overdue' \subseteq Approvals
    BY <1>1, <1>2 DEF TypeData, Resolve
  <2> QED BY <1>1, <1>2, <2>1, <2>2 DEF TypeInv, TypeData
<1>8. RunsSound'
  <2> SUFFICES ASSUME NEW r \in Runs PROVE RunSound(r)'
    BY DEF RunsSound
  <2>1. RunSound(r) /\ <<r, "start">> \in Approvals /\ <<r, "tool">> \in Approvals
    BY <1>2, ApprovalsOf DEF RunsSound
  <2>2. CASE status[r] \in Active
    <3>1. status'[r] = "failed" /\ status[r] # "absent" /\ approval'[<<r, "start">>] # "pending"
      BY <1>4, <1>6, <2>2 DEF Active
    <3>2. launched[r] > 0 => approval'[<<r, "start">>] \in {"none", "approved"}
      BY <1>5, <2>1 DEF RunSound
    <3> QED BY <1>1, <2>1, <3>1, <3>2 DEF RunSound, Beginning
  <2>3. CASE status[r] \notin Active
    <3>1. status'[r] = status[r] /\ status[r] # "waitingForApproval"
      BY <1>4, <2>3 DEF Active
    <3>2. approval'[<<r, "start">>] = approval[<<r, "start">>]
      BY <1>5, <2>1, <3>1 DEF RunSound
    <3>3. approval[<<r, "tool">>] = "none" => approval'[<<r, "tool">>] = "none"
      BY <1>5, <2>1
    <3> QED BY <1>1, <2>1, <3>1, <3>2, <3>3 DEF RunSound
  <2> QED BY <2>2, <2>3
<1>9. /\ StillSound' /\ RunningIsOwned' /\ ActiveHoldsSlot' /\ OneWriter'
  <2>1. \A r \in Runs : status'[r] \notin Active
    BY <1>4 DEF Active
  <2>2. StillSound'
    BY <1>1, <1>3, <2>1 DEF StillSound, Idle
  <2> QED BY <2>1, <2>2 DEF RunningIsOwned, ActiveHoldsSlot, OneWriter, Active, Exclusive
<1>10. QueueIssued' /\ OneExclusiveSlot'
  BY <1>1, <1>2 DEF QueueIssued, OneExclusiveSlot
<1>11. Boot \in Threads /\ \A t \in Threads : stack'[t] = <<>>
  BY <1>1, <1>3 DEF Threads, Idle
<1>12. IInv'
  BY <1>7, <1>8, <1>9, <1>10, <1>11, QuietHolds DEF SlotInv
<1>13. KeepsDecisions
  BY <1>4, <1>5 DEF KeepsDecisions, Active, Terminal
<1> QED BY <1>12, <1>13 DEF Kept

\* rehydrate_scheduler_on_boot
LEMMA RehydrateKeeps ==
    ASSUME IInv, Rehydrate
    PROVE  Kept
<1> DEFINE queued == QueuedRuns
           s == [EmptySchedule EXCEPT !.queue = queued]
           f == Frame("boot", "promote", Head(queued), {})
<1>1. /\ phase = "reconciled" /\ phase' = "booting"
      /\ sched' = HandOver(s)
      /\ stack' = [stack EXCEPT ![Boot] = IF queued = <<>> THEN <<>> ELSE <<f>>]
      /\ UNCHANGED <<status, created, approval, overdue, live, prov, stopped, issued, launched>>
  BY DEF Rehydrate, durable, history
<1>2. TypeInv /\ TypeData /\ RunsSound /\ StillSound
  BY DEF IInv, TypeInv, StateInv
<1>3. /\ \A t \in Threads : Idle(t)
      /\ \A r \in Runs : prov[r] = "none" /\ status[r] \notin Active
  BY <1>1, <1>2 DEF StillSound, Still
<1>4. queued \in Seq(issued) /\ issued \subseteq Runs
  <2>1. queued \in Seq({ r \in Runs : status[r] = "queued" })
    BY <1>2, QueuedTyped DEF TypeData
  <2>2. { r \in Runs : status[r] = "queued" } \subseteq issued
    BY <1>2 DEF RunsSound, RunSound
  <2> HIDE DEF queued
  <2>3. queued \in Seq(issued)
    BY <2>1, <2>2, SeqWidens
  <2> QED BY <1>2, <2>3 DEF TypeData
<1> HIDE DEF queued
<1>5. /\ s \in [active : SUBSET Runs, queue : Seq(issued)]
      /\ s.active = {} /\ s.queue = queued
  BY <1>4 DEF EmptySchedule
<1> HIDE DEF s
<1>6. /\ sched' \in [active : SUBSET Runs, queue : Seq(issued)]
      /\ NextRun(s) \subseteq issued /\ NextRun(s) \subseteq sched'.active
      /\ \/ sched'.active = {}
         \/ \E n \in issued : sched'.active = {n}
  BY <1>1, <1>4, <1>5, HandOverHolds
<1>7. queued # <<>> => f.run \in issued /\ f.run \in sched'.active /\ f \in Frames
  <2>1. queued # <<>> => NextRun(s) = {Head(queued)}
    BY <1>5 DEF NextRun
  <2>2. queued # <<>> => Head(queued) \in issued /\ Head(queued) \in sched'.active
    BY <1>6, <2>1
  <2> QED BY <1>4, <2>2 DEF Frame, Frames, RunFrames, Ops, Places
<1>8. f.at = "promote"
  BY DEF Frame
<1> HIDE DEF f
<1>9. Boot \in Threads /\ stack \in [Threads -> Seq(Frames)]
  BY <1>2 DEF Threads, TypeInv
<1>10. /\ stack' \in [Threads -> Seq(Frames)]
       /\ \A t \in Threads : t # Boot => stack'[t] = <<>>
       /\ Len(stack'[Boot]) <= 1
       /\ stack'[Boot] # <<>> => queued # <<>> /\ Head(stack'[Boot]) = f
  <2>1. CASE queued = <<>>
    BY <1>1, <1>3, <1>9, <2>1 DEF Idle
  <2>2. CASE queued # <<>>
    <3>1. <<f>> \in Seq(Frames) /\ Len(<<f>>) = 1 /\ Head(<<f>>) = f
      BY <1>7, <2>2
    <3> QED BY <1>1, <1>3, <1>9, <2>2, <3>1 DEF Idle
  <2> QED BY <2>1, <2>2
<1>11. TypeInv'
  <2>1. sched' \in Schedules
    <3>1. sched'.queue \in Seq(Runs)
      BY <1>4, <1>6, SeqWidens
    <3> QED BY <1>6, <3>1 DEF Schedules
  <2> QED BY <1>1, <1>2, <1>10, <2>1 DEF TypeInv, TypeData
<1>12. RunsSound' /\ StillSound' /\ QueueIssued'
  BY <1>1, <1>2, <1>6 DEF RunsSound, RunSound, StillSound, Still, QueueIssued
<1>13. RunningIsOwned' /\ SlotInv'
  BY <1>1, <1>3, <1>6 DEF RunningIsOwned, SlotInv, ActiveHoldsSlot, OneExclusiveSlot, OneWriter,
                          Active, Exclusive
<1>14. IInv'
  BY <1>7, <1>8, <1>9, <1>10, <1>11, <1>12, <1>13, <1>1, QuietHolds
<1> QED BY <1>1, <1>14 DEF Kept, KeepsDecisions

---------------------------------------------------------------------------
(* The invariant.                                                          *)

LEMMA InitHolds == Init => IInv
<1> SUFFICES ASSUME Init PROVE IInv
  OBVIOUS
<1>1. /\ \A t \in Threads : Idle(t)
      /\ phase = "up" /\ sched = EmptySchedule /\ issued = {}
      /\ \A r \in Runs : status[r] = "absent" /\ launched[r] = 0
      /\ \A a \in Approvals : approval[a] = "none"
  BY DEF Init, Idle
<1>2. TypeInv
  <2>1. EmptySchedule \in Schedules /\ <<>> \in Seq(Frames) /\ <<>> \in Seq(Runs)
    BY DEF EmptySchedule, Schedules
  <2> QED BY <2>1 DEF Init, TypeInv, TypeData, NoEntry
<1>3. LowerFramesEnded /\ TopsSound /\ TopsApart
  BY <1>1 DEF LowerFramesEnded, LowerEnded, TopsSound, TopsApart, Idle
<1>4. RunsSound /\ StillSound /\ QueueIssued
  BY <1>1, ApprovalsOf DEF RunsSound, RunSound, StillSound, Still, QueueIssued, EmptySchedule
<1>5. RunningIsOwned /\ SlotInv
  BY <1>1 DEF RunningIsOwned, SlotInv, ActiveHoldsSlot, OneExclusiveSlot, OneWriter,
              EmptySchedule, Active, Exclusive
<1> QED BY <1>2, <1>3, <1>4, <1>5 DEF IInv, StateInv

LEMMA NextKeeps ==
    ASSUME IInv, [Next]_vars
    PROVE  Kept
<1>1. ASSUME NEW t \in Threads, Step(t) PROVE Kept
  <2>1. CASE Schedule(t) \/ PrepareFails(t) \/ CommitQueued(t) \/ CommitStart(t)
    BY <2>1, ScheduleKeeps, PrepareFailsKeeps, CommitQueuedKeeps, CommitStartKeeps
  <2>2. CASE BudgetOk(t) \/ BudgetSpent(t) \/ Launch(t) \/ LaunchFails(t) \/ Attach(t)
    BY <2>2, BudgetOkKeeps, BudgetSpentKeeps, LaunchKeeps, LaunchFailsKeeps, AttachKeeps
  <2>3. CASE SettleOk(t) \/ SettleErr(t) \/ FailRun(t)
    BY <2>3, SettleOkKeeps, SettleErrKeeps, FailRunKeeps
  <2>4. CASE Finish(t) \/ Promote(t) \/ PromoteFails(t)
    BY <2>4, FinishKeeps, PromoteKeeps, PromoteFailsKeeps
  <2>5. CASE Profile(t) \/ ResolveLive(t) \/ Expire(t)
    BY <2>5, ProfileKeeps, ResolveLiveKeeps, ExpireKeeps
  <2>6. CASE CancelLive(t)
    BY <2>6, DeliverCancelKeeps DEF CancelLive, At
  <2>7. CASE CancelWait(t)
    BY <2>7, DeliverCancelKeeps DEF CancelWait, At
  <2>8. CASE CancelCheck(t) \/ CommitCancel(t) \/ ListKids(t) \/ CancelKids(t) \/ CommitBudget(t)
    BY <2>8, CancelCheckKeeps, CommitCancelKeeps, ListKidsKeeps, CancelKidsKeeps, CommitBudgetKeeps
  <2> QED BY <1>1, <2>1, <2>2, <2>3, <2>4, <2>5, <2>6, <2>7, <2>8 DEF Step
<1>2. ASSUME NEW t \in Threads, Request(t) PROVE Kept
  BY <1>2, RequestRunKeeps, CancelKeeps, DecideKeeps, ListApprovalsKeeps DEF Request
<1>3. ASSUME NEW r \in Runs, ProviderStep(r) \/ ProviderAsks(r) PROVE Kept
  BY <1>3, ProviderCompletesKeeps, ProviderFailsKeeps, ProviderInterruptedKeeps,
     ProviderSpendsBudgetKeeps, ProviderAsksKeeps DEF ProviderStep
<1>4. ASSUME NEW a \in Approvals, TtlPasses(a) PROVE Kept
  BY <1>4, TtlPassesKeeps
<1>5. CASE Crash \/ Reconcile \/ Rehydrate \/ Booted
  BY <1>5, CrashKeeps, ReconcileKeeps, RehydrateKeeps, BootedKeeps
<1>6. CASE UNCHANGED vars
  BY <1>6, StutterKeeps
<1> QED BY <1>1, <1>2, <1>3, <1>4, <1>5, <1>6 DEF Next

\* The invariant, of every reachable state: whatever handlers, providers, faults and restarts
\* interleave, the frames, the store, the slots and the live-execution table fit together.
THEOREM LifecycleInvariant == Spec => []IInv
<1>1. IInv /\ [Next]_vars => IInv'
  BY NextKeeps DEF Kept
<1> QED BY InitHolds, <1>1, PTL DEF Spec

\* Only runs of the session get a slot, a status or a frame, and every table keeps its shape.
THEOREM LifecycleTypeOK == Spec => []TypeOK
<1>1. IInv => TypeOK
  <2> SUFFICES ASSUME IInv PROVE TypeOK
    OBVIOUS
  <2>1. TypeInv /\ TypeData
    BY DEF IInv, TypeInv
  <2>2. \A t \in Threads : \A i \in DOMAIN stack[t] : stack[t][i].run \in Runs
    <3> SUFFICES ASSUME NEW t \in Threads, NEW i \in DOMAIN stack[t]
                 PROVE  stack[t][i].run \in Runs
      OBVIOUS
    <3>1. stack[t] \in Seq(Frames)
      BY <2>1 DEF TypeInv
    <3>2. stack[t][i] \in Frames
      BY <3>1
    <3> QED BY <3>2 DEF Frames, RunFrames, ExpiryFrames
  <2> QED BY <2>1, <2>2 DEF TypeData, TypeOK
<1> QED BY LifecycleInvariant, <1>1, PTL

\* cancel_run and decide_approval reach every run that the store calls running: it has its entry
\* in ActiveExecutionOwner from the commit that starts it to the one that ends it.
THEOREM RunsAreOwned == Spec => []RunningIsOwned
<1>1. IInv => RunningIsOwned
  BY DEF IInv
<1> QED BY LifecycleInvariant, <1>1, PTL

\* A provider works only on runs that policy let go or that the user approved.
THEOREM LaunchesHaveConsent == Spec => []LaunchedWithConsent
<1>1. IInv => LaunchedWithConsent
  BY DEF IInv, StateInv, RunsSound, RunSound, LaunchedWithConsent
<1> QED BY LifecycleInvariant, <1>1, PTL

\* No race of promotions, approvals, retries and restarts hands a run to a provider twice.
THEOREM LaunchesOnce == Spec => []LaunchedOnce
<1>1. IInv => LaunchedOnce
  BY DEF IInv, StateInv, RunsSound, RunSound, LaunchedOnce
<1> QED BY LifecycleInvariant, <1>1, PTL

\* What the scheduler and the store say of who works in the workspace agrees, and that is one
\* run at most beside those that write their own worktree.
THEOREM SlotsAlwaysSound == Spec => []SlotsSound
<1>1. IInv => SlotsSound
  BY DEF IInv, SlotInv, SlotsSound
<1> QED BY LifecycleInvariant, <1>1, PTL

\* No late completion, cancel, decision, expiry, promotion or reconciliation changes the end of
\* a run or the answer to an approval.
THEOREM DecisionsStayFinal == Spec => DecisionsFinal
<1>1. IInv /\ [Next]_vars =>
        [\A r \in Runs : status[r] \in Terminal => status'[r] = status[r]]_vars
  BY NextKeeps DEF Kept, KeepsDecisions
<1>2. IInv /\ [Next]_vars =>
        [\A a \in Approvals :
           approval[a] \in {"approved", "rejected"} => approval'[a] = approval[a]]_vars
  BY NextKeeps DEF Kept, KeepsDecisions
<1> QED BY LifecycleInvariant, <1>1, <1>2, PTL DEF Spec, DecisionsFinal, TerminalIsFinal, AnswerIsFinal

---------------------------------------------------------------------------
(* The providers of runs that ended.  Only a cancel ends a run under its   *)
(* provider; the thread that committed it is the one that releases the     *)
(* entry, and who releases the entry stops the provider whose handle is    *)
(* there.  A handle that comes later finds no entry.                       *)

Works(r) == prov[r] \in {"working", "asking"}
Loose(r) == Works(r) /\ r \notin stopped
Handed(r) == live[r].entry /\ live[r].handle

IsAt(t, r, places) == ~Idle(t) /\ Top(t).run = r /\ Top(t).at \in places
Starts(r) == \E t \in Threads : IsAt(t, r, Starting)
Attaches(r) == \E t \in Threads : IsAt(t, r, {"attach"})

\* The thread goes on to release the entry of the run, and nothing is in its way.
Releases(t, r) ==
    IsAt(t, r, {"listKids", "finish"}) \/ (IsAt(t, r, {"kids"}) /\ Top(t).kids = {})

Childless(r) == \A c \in Children : Parent[c] # r

\* After an error of the start only a run that has no provider to stop is failed; one whose
\* handle is attached late has begun.
Failing == {"settleErr", "failRun"}
Late == Failing \union {"attach"}

ProviderSound(r) ==
    /\ Works(r) => launched[r] > 0
    /\ Loose(r) => Attaches(r) \/ Handed(r)
    /\ Childless(r) /\ (Loose(r) \/ Starts(r)) /\ status[r] \in Terminal /\ live[r].entry =>
          \E t \in Threads : Releases(t, r)
    /\ \A t \in Threads : IsAt(t, r, Failing) =>
          status[r] \notin Beginning /\ (status[r] = "running" => ~Starts(r) /\ ~Loose(r))
    /\ Attaches(r) => status[r] \notin Beginning

ProvidersSound == \A r \in Runs : ProviderSound(r)

(* What a step of thread t may do, by the tables it changes. *)
ProvidersKept ==
    /\ launched' = launched /\ stopped \subseteq stopped'
    /\ \A r \in Runs : Works(r)' => Works(r)

EntriesKept == \A r \in Runs :
    /\ live'[r].entry => live[r].entry \/ status'[r] \notin Terminal
    /\ Loose(r)' /\ Handed(r) => Handed(r)'

StatusKept == \A r \in Runs :
    /\ status'[r] \in Beginning => status[r] \in Beginning
    /\ status'[r] = "running" => status[r] = "running" \/ status[r] \in Beginning
    /\ status'[r] \in Terminal =>
          \/ status[r] \in Terminal
          \/ ~Starts(r)' /\ ~Loose(r)'
          \/ \E u \in Threads : Releases(u, r)'

Begins(r) == status[r] \in Beginning /\ status'[r] = "running"
TopKept(t) ==
    /\ \A u \in Threads : u # t => stack'[u] = stack[u]
    /\ \A r \in Runs :
         /\ IsAt(t, r, Starting)' => IsAt(t, r, Starting) \/ Begins(r)
         /\ IsAt(t, r, Failing)' =>
              \/ IsAt(t, r, Failing)
              \/ status'[r] \notin Beginning /\ (status'[r] = "running" => ~Starts(r)' /\ ~Loose(r)')
         /\ IsAt(t, r, {"attach"})' => IsAt(t, r, {"attach"})
         /\ IsAt(t, r, {"attach"}) => IsAt(t, r, {"attach"})' \/ ~Loose(r)' \/ Handed(r)'
         /\ Releases(t, r) /\ Childless(r) => Releases(t, r)' \/ ~live'[r].entry

(* A run that has a provider or is about to get one has begun. *)
LEMMA Begun ==
    ASSUME IInv, NEW r \in Runs
    PROVE  /\ Starts(r) => status[r] \notin Beginning /\ launched[r] = 0
           /\ launched[r] > 0 => status[r] \notin Beginning
<1>1. RunSound(r) /\ launched[r] \in Nat
  BY DEF IInv, StateInv, RunsSound, TypeInv, TypeData
<1>2. ASSUME NEW t \in Threads, IsAt(t, r, Starting)
      PROVE  status[r] \notin Beginning /\ launched[r] = 0
  BY <1>2 DEF IInv, StateInv, TopsSound, FrameSound, IsAt
<1> QED BY <1>1, <1>2 DEF Starts, RunSound

LEMMA OtherTops ==
    ASSUME NEW t \in Threads, TopKept(t), NEW u \in Threads, u # t, NEW r, NEW places
    PROVE  (IsAt(u, r, places)' <=> IsAt(u, r, places)) /\ (Releases(u, r)' <=> Releases(u, r))
  BY DEF TopKept, IsAt, Releases, Idle, Top

LEMMA ProvidersStaySound ==
    ASSUME IInv, ProvidersSound, NEW t \in Threads,
           ProvidersKept, EntriesKept, StatusKept, TopKept(t)
    PROVE  ProvidersSound'
<1> SUFFICES ASSUME NEW r \in Runs PROVE ProviderSound(r)'
  BY DEF ProvidersSound
<1>1. ProviderSound(r)
  BY DEF ProvidersSound
<1>2. Loose(r)' => Loose(r)
  BY DEF ProvidersKept, Loose
<1>3. Starts(r)' => Starts(r) \/ Begins(r)
  BY OtherTops DEF Starts, TopKept
<1>4. Begins(r) => ~Starts(r) /\ ~Works(r) /\ status'[r] = "running"
  BY <1>1, Begun DEF Begins, ProviderSound
<1>5. Works(r)' => launched'[r] > 0
  BY <1>1 DEF ProvidersKept, ProviderSound
<1>6. Loose(r)' => Attaches(r)' \/ Handed(r)'
  <2> SUFFICES ASSUME Loose(r)', ~Handed(r)' PROVE Attaches(r)'
    OBVIOUS
  <2>1. Attaches(r)
    BY <1>1, <1>2 DEF ProviderSound, EntriesKept
  <2>2. PICK u \in Threads : IsAt(u, r, {"attach"})
    BY <2>1 DEF Attaches
  <2>3. IsAt(u, r, {"attach"})'
    BY <2>2, OtherTops DEF TopKept
  <2> QED BY <2>3 DEF Attaches
<1>7. Childless(r) /\ (Loose(r)' \/ Starts(r)') /\ status'[r] \in Terminal /\ live'[r].entry =>
         \E u \in Threads : Releases(u, r)'
  <2> SUFFICES ASSUME Childless(r), Loose(r)' \/ Starts(r)', status'[r] \in Terminal, live'[r].entry,
                      ~\E u \in Threads : Releases(u, r)'
               PROVE  FALSE
    OBVIOUS
  <2>1. status[r] \in Terminal /\ live[r].entry
    BY DEF StatusKept, EntriesKept
  <2>2. Loose(r) \/ Starts(r)
    BY <1>2, <1>3, <1>4 DEF Terminal
  <2>3. PICK u \in Threads : Releases(u, r)
    BY <1>1, <2>1, <2>2 DEF ProviderSound
  <2>4. Releases(u, r)'
    BY <2>3, OtherTops DEF TopKept
  <2> QED BY <2>4
<1>8. ASSUME NEW u \in Threads, IsAt(u, r, Failing)'
      PROVE  status'[r] \notin Beginning /\ (status'[r] = "running" => ~Starts(r)' /\ ~Loose(r)')
  <2>1. CASE IsAt(u, r, Failing)
    <3>1. status[r] \notin Beginning /\ (status[r] = "running" => ~Starts(r) /\ ~Loose(r))
      BY <1>1, <2>1 DEF ProviderSound
    <3> QED BY <1>2, <1>3, <3>1 DEF StatusKept, Begins
  <2>2. CASE ~IsAt(u, r, Failing)
    BY <1>8, <2>2, OtherTops DEF TopKept
  <2> QED BY <2>1, <2>2
<1>9. Attaches(r)' => status'[r] \notin Beginning
  BY <1>1, OtherTops DEF Attaches, TopKept, StatusKept, ProviderSound
<1>10. Childless(r)' <=> Childless(r)
  BY DEF Childless
<1> QED BY <1>5, <1>6, <1>7, <1>8, <1>9, <1>10 DEF ProviderSound

(* What an action may count on. *)
Sound == IInv /\ IInv' /\ KeepsDecisions /\ ProvidersSound

LEMMA LowerHere ==
    ASSUME Sound, NEW t \in Threads
    PROVE  LowerEnded(stack[t], status') /\ stack \in [Threads -> Seq(Frames)]
<1>1. \A r \in Runs : status[r] \in Terminal => status'[r] \in Terminal
  BY DEF Sound, KeepsDecisions
<1>2. TypeInv /\ LowerFramesEnded
  BY DEF Sound, IInv, StateInv
<1> QED BY <1>1, <1>2, LowerStays DEF TypeInv

\* The thread neither attaches a handle nor releases an entry.
Aside(t) == Idle(t) \/ Top(t).at \notin Ending \union {"attach"}

LEMMA AsideHolds ==
    ASSUME NEW t \in Threads, Aside(t), NEW r
    PROVE  ~IsAt(t, r, {"attach"}) /\ ~Releases(t, r)
  BY DEF Aside, IsAt, Releases, Ending

(* The stack: a frame on top, ... *)
LEMMA TopReplaced ==
    ASSUME NEW t \in Threads, Aside(t), NEW f, NewTop(t, f), f.at # "attach",
           f.at \in Starting => IsAt(t, f.run, Starting) \/ Begins(f.run),
           f.at \in Failing =>
              IsAt(t, f.run, Failing) \/ status'[f.run] \notin Beginning \union {"running"}
    PROVE  TopKept(t)
<1>1. ASSUME NEW r \in Runs, NEW places, IsAt(t, r, places)' PROVE f.run = r /\ f.at \in places
  BY <1>1 DEF NewTop, IsAt, Top
<1>2. ASSUME NEW r \in Runs
      PROVE  /\ IsAt(t, r, Starting)' => IsAt(t, r, Starting) \/ Begins(r)
             /\ IsAt(t, r, Failing)' => IsAt(t, r, Failing) \/ status'[r] \notin Beginning \union {"running"}
             /\ ~IsAt(t, r, {"attach"})'
  BY <1>1
<1> QED BY <1>2, AsideHolds DEF NewTop, TopKept

(* ... or what was below it. *)
LEMMA TopUncovered ==
    ASSUME NEW t \in Threads, Aside(t), Uncovered(t)
    PROVE  TopKept(t)
<1>1. ASSUME NEW r \in Runs, NEW places, IsAt(t, r, places)'
      PROVE  places \intersect {"settleErr", "kids"} # {} /\ status'[r] \in Terminal
  BY <1>1 DEF Uncovered, IsAt, Top, Idle
<1>2. ASSUME NEW r \in Runs
      PROVE  /\ ~IsAt(t, r, Starting)' /\ ~IsAt(t, r, {"attach"})'
             /\ IsAt(t, r, Failing)' => status'[r] \notin Beginning \union {"running"}
  BY <1>1 DEF Starting, Beginning, Terminal
<1> QED BY <1>2, AsideHolds DEF Uncovered, TopKept

LEMMA StackKept ==
    ASSUME NEW t \in Threads, stack' = stack
    PROVE  TopKept(t)
<1>1. \A r \in Runs : /\ \A places : IsAt(t, r, places)' <=> IsAt(t, r, places)
                      /\ Releases(t, r)' <=> Releases(t, r)
  BY DEF IsAt, Releases, Idle, Top
<1> QED BY <1>1 DEF TopKept

LEMMA BeginTop ==
    ASSUME Sound, NEW t \in Threads, Idle(t), NEW f \in Frames, stack' = [stack EXCEPT ![t] = <<f>>],
           f.at \notin Late, f.at \in Starting => Begins(f.run)
    PROVE  TopKept(t)
  BY LowerHere, BeginHolds, TopReplaced DEF Aside, Late

LEMMA BecomeTop ==
    ASSUME Sound, NEW t \in Threads, ~Idle(t), Aside(t), NEW f \in Frames, Become(t, f),
           f.at \notin Late \union Starting
    PROVE  TopKept(t)
  BY LowerHere, BecomeHolds, TopReplaced DEF Late

LEMMA GotoTop ==
    ASSUME Sound, NEW t \in Threads, ~Idle(t), Aside(t), NEW at \in Places, Goto(t, at),
           Top(t) \in RunFrames, at # "attach",
           at \in Starting => Top(t).at \in Starting \/ Begins(Top(t).run),
           at \in Failing =>
              Top(t).at \in Failing \/ status'[Top(t).run] \notin Beginning \union {"running"}
    PROVE  TopKept(t)
<1> DEFINE f == [Top(t) EXCEPT !.at = at]
<1>1. NewTop(t, f) /\ f.at = at /\ f.run = Top(t).run
  BY LowerHere, GotoHolds
<1> HIDE DEF f
<1>2. \A places : Top(t).at \in places => IsAt(t, f.run, places)
  BY <1>1 DEF IsAt
<1> QED BY <1>1, <1>2, TopReplaced

LEMMA ReturnTop ==
    ASSUME Sound, NEW t \in Threads, ~Idle(t), Aside(t), Return(t)
    PROVE  TopKept(t)
  BY LowerHere, ReturnHolds, TopUncovered

LEMMA RaiseTop ==
    ASSUME Sound, NEW t \in Threads, ~Idle(t), Aside(t), Raise(t)
    PROVE  TopKept(t)
  BY LowerHere, RaiseHolds, TopUncovered

LEMMA SettledTop ==
    ASSUME Sound, NEW t \in Threads, ~Idle(t), Aside(t), Top(t) \in RunFrames, NEW st, Settled(t, st)
    PROVE  TopKept(t)
<1>1. "finish" \in Places /\ "finish" \notin Starting \union Failing /\ Top(t).run \in Runs
  BY DEF Places, Starting, Failing, Late, RunFrames
<1>2. Goto(t, "finish") \/ Become(t, Advance(Top(t).run)) \/ Return(t)
  BY DEF Settled
<1>3. Advance(Top(t).run) \in Frames /\ Advance(Top(t).run).at = "finish"
  BY <1>1, AdvanceTyped
<1> QED BY <1>1, <1>2, <1>3, GotoTop, BecomeTop, ReturnTop DEF Late

(* The tables: a step that leaves the providers and the entries alone, ... *)
LEMMA ProvidersUnchanged ==
    ASSUME UNCHANGED <<prov, stopped, launched>>
    PROVE  ProvidersKept
  BY DEF ProvidersKept, Works

LEMMA EntriesUnchanged ==
    ASSUME UNCHANGED live
    PROVE  EntriesKept
  BY DEF EntriesKept, Handed

LEMMA StatusUnchanged ==
    ASSUME UNCHANGED status
    PROVE  StatusKept
  BY DEF StatusKept

(* ... and that changes only its thread. *)
LEMMA ThreadMoves ==
    ASSUME Sound, NEW t \in Threads, TopKept(t), UNCHANGED <<status, live, prov, stopped, launched>>
    PROVE  ProvidersSound'
  BY ProvidersUnchanged, EntriesUnchanged, StatusUnchanged, ProvidersStaySound DEF Sound

(* Steps that only move their thread. *)
LEMMA RequestRunSound ==
    ASSUME Sound, NEW t \in Threads, NEW r \in Runs, RequestRun(t, r)
    PROVE  ProvidersSound'
<1> DEFINE f == Frame(Op(r), "schedule", r, {})
<1>1. /\ Idle(t) /\ stack' = [stack EXCEPT ![t] = <<f>>]
      /\ UNCHANGED <<status, live, prov, stopped, launched>>
  BY DEF RequestRun, durable, volatile
<1>2. f \in Frames /\ f.at \notin Late \union Starting
  BY DEF Frame, Frames, RunFrames, Op, Ops, Places, Failing, Late, Starting
<1> HIDE DEF f
<1> QED BY <1>1, <1>2, BeginTop, ThreadMoves

LEMMA ScheduleOrFailsSound ==
    ASSUME Sound, NEW t \in Threads, Schedule(t) \/ PrepareFails(t)
    PROVE  ProvidersSound'
<1>1. /\ ~Idle(t) /\ Top(t).at \in Birth
      /\ UNCHANGED <<status, live, prov, stopped, launched>>
      /\ Raise(t) \/ Goto(t, "commitStart") \/ Goto(t, "commitQueued")
  BY DEF Schedule, PrepareFails, At, Birth, durable, history
<1>2. Top(t) \in RunFrames /\ Aside(t)
  BY <1>1, TopFacts DEF Sound, Birth, Aside, Ending
<1>3. {"commitStart", "commitQueued"} \subseteq Places
      /\ {"commitStart", "commitQueued"} \intersect (Starting \union Failing) = {}
  BY DEF Places, Starting, Failing, Late
<1>4. TopKept(t)
  BY <1>1, <1>2, <1>3, RaiseTop, GotoTop
<1> QED BY <1>1, <1>4, ThreadMoves

LEMMA BudgetOkSound ==
    ASSUME Sound, NEW t \in Threads, BudgetOk(t)
    PROVE  ProvidersSound'
<1>1. /\ ~Idle(t) /\ Top(t).at = "budget" /\ Goto(t, "launch")
      /\ UNCHANGED <<status, live, prov, stopped, launched>>
  BY DEF BudgetOk, At, durable, volatile, history
<1>2. Top(t) \in RunFrames /\ Aside(t) /\ Top(t).at \in Starting /\ "launch" \in Places /\ "launch" \notin Failing
  BY <1>1, TopFacts DEF Sound, Aside, Ending, Starting, Places, Failing, Late
<1>3. TopKept(t)
  BY <1>1, <1>2, GotoTop
<1> QED BY <1>1, <1>3, ThreadMoves

LEMMA ProfileSound ==
    ASSUME Sound, NEW t \in Threads, Profile(t)
    PROVE  ProvidersSound'
<1>1. /\ ~Idle(t) /\ Top(t).at = "profile" /\ (Goto(t, "budget") \/ Raise(t))
      /\ UNCHANGED <<status, live, prov, stopped, launched>>
  BY DEF Profile, At, durable, volatile, history
<1>2. Top(t) \in RunFrames /\ Aside(t) /\ Top(t).at \in Starting /\ "budget" \in Places /\ "budget" \notin Failing
  BY <1>1, TopFacts DEF Sound, Aside, Ending, Starting, Places, Failing, Late
<1>3. TopKept(t)
  BY <1>1, <1>2, GotoTop, RaiseTop
<1> QED BY <1>1, <1>3, ThreadMoves

LEMMA SettleSound ==
    ASSUME Sound, NEW t \in Threads, SettleOk(t) \/ SettleErr(t)
    PROVE  ProvidersSound'
<1>1. /\ ~Idle(t) /\ Top(t).at \in {"settleOk", "settleErr"}
      /\ \/ \E st \in {"running", status[Top(t).run]} : Settled(t, st)
         \/ Top(t).at = "settleErr" /\ Goto(t, "failRun")
      /\ UNCHANGED <<status, live, prov, stopped, launched>>
  BY DEF SettleOk, SettleErr, At, durable, volatile, history
<1>2. Top(t) \in RunFrames /\ Aside(t) /\ "failRun" \in Places /\ "failRun" \notin Starting
  BY <1>1, TopFacts DEF Sound, Aside, Ending, Starting, Places
<1>3. TopKept(t)
  BY <1>1, <1>2, GotoTop, SettledTop DEF Failing, Late
<1> QED BY <1>1, <1>3, ThreadMoves

LEMMA RaisesSound ==
    ASSUME Sound, NEW t \in Threads, PromoteFails(t)
    PROVE  ProvidersSound'
<1>1. /\ ~Idle(t) /\ Top(t).at = "promote" /\ Raise(t)
      /\ UNCHANGED <<status, live, prov, stopped, launched>>
  BY DEF PromoteFails, At, durable, volatile, history
<1>2. Aside(t)
  BY <1>1 DEF Aside, Ending
<1> QED BY <1>1, <1>2, RaiseTop, ThreadMoves

LEMMA CancelCheckSound ==
    ASSUME Sound, NEW t \in Threads, CancelCheck(t)
    PROVE  ProvidersSound'
<1>1. /\ ~Idle(t) /\ Top(t).at = "check"
      /\ UNCHANGED <<status, live, prov, stopped, launched>>
  BY DEF CancelCheck, At, durable, volatile, history
<1>2. Goto(t, "cancelLive") \/ Goto(t, "commitCancel") \/ Raise(t)
  BY DEF CancelCheck
<1>3. Top(t) \in RunFrames /\ Aside(t)
  BY <1>1, TopFacts DEF Sound, Aside, Ending
<1>4. {"cancelLive", "commitCancel"} \subseteq Places
      /\ {"cancelLive", "commitCancel"} \intersect (Starting \union Failing) = {}
  BY DEF Places, Starting, Failing, Late
<1>5. TopKept(t)
  BY <1>1, <1>2, <1>3, <1>4, GotoTop, RaiseTop
<1> QED BY <1>1, <1>5, ThreadMoves

LEMMA CancelSound ==
    ASSUME Sound, NEW t \in Threads, NEW r \in Runs, Cancel(t, r)
    PROVE  ProvidersSound'
<1> DEFINE f == Frame("cancel", "check", r, {})
<1>1. /\ Idle(t) /\ stack' = [stack EXCEPT ![t] = <<f>>]
      /\ UNCHANGED <<status, live, prov, stopped, launched>>
  BY DEF Cancel, durable, volatile, history
<1>2. f \in Frames /\ f.at \notin Late \union Starting
  BY DEF Frame, Frames, RunFrames, Ops, Places, Failing, Late, Starting
<1> HIDE DEF f
<1> QED BY <1>1, <1>2, BeginTop, ThreadMoves

(* A run gets a status: its first ones while it has no provider, its last one once nobody is *)
(* about to start it and none works for it, or from the thread that will release it.         *)
LEMMA StatusMoves ==
    ASSUME Sound, NEW t \in Threads, NEW r \in Runs, NEW st, SetStatus(r, st),
           TopKept(t), ProvidersKept,
           \/ status[r] \in Beginning
           \/ st \in Terminal /\ ((~Starts(r)' /\ ~Loose(r)') \/ Releases(t, r)')
    PROVE  StatusKept
<1>1. \A s \in Runs : status'[s] = IF s = r THEN st ELSE status[s]
  BY DEF SetStatus, Sound, IInv, TypeInv, TypeData
<1>2. CASE status[r] \in Beginning
  <2>1. ProviderSound(r) /\ ~Starts(r) /\ launched[r] = 0 /\ launched[r] \in Nat
    BY <1>2, Begun DEF Sound, ProvidersSound, IInv, StateInv, RunsSound, RunSound, TypeInv, TypeData
  <2>2. ~Loose(r)'
    BY <2>1 DEF ProviderSound, ProvidersKept, Loose
  <2>3. st # "running" => ~Starts(r)'
    BY <1>1, <2>1, OtherTops DEF Starts, TopKept, Begins
  <2> QED BY <1>1, <1>2, <2>2, <2>3 DEF StatusKept, Terminal
<1>3. CASE st \in Terminal /\ ((~Starts(r)' /\ ~Loose(r)') \/ Releases(t, r)')
  BY <1>1, <1>3 DEF StatusKept, Terminal, Beginning
<1> QED BY <1>2, <1>3

\* A run that begins gets an entry.
LEMMA ClaimKept ==
    ASSUME Sound, NEW r \in Runs, status[r] \in Beginning, ProvidersKept,
           SetStatus(r, "running"), live' = [live EXCEPT ![r] = Claimed]
    PROVE  EntriesKept
<1>1. /\ \A s \in Runs : status'[s] = IF s = r THEN "running" ELSE status[s]
      /\ \A s \in Runs : s # r => live'[s] = live[s]
  BY DEF SetStatus, Sound, IInv, TypeInv, TypeData
<1>2. ProviderSound(r) /\ launched[r] = 0
  BY DEF Sound, ProvidersSound, IInv, StateInv, RunsSound, RunSound
<1>3. ~Loose(r)'
  BY <1>2 DEF ProviderSound, ProvidersKept, Loose
<1> QED BY <1>1, <1>3 DEF EntriesKept, Handed, Terminal

LEMMA ListApprovalsSound ==
    ASSUME Sound, NEW t \in Threads, ListApprovals(t)
    PROVE  ProvidersSound'
<1> DEFINE first == CHOOSE a \in overdue : TRUE
           f == Frame("expire", "expire", first[1], overdue)
<1>1. /\ Idle(t) /\ overdue # {} /\ stack' = [stack EXCEPT ![t] = <<f>>]
      /\ UNCHANGED <<status, live, prov, stopped, launched>>
  BY DEF ListApprovals, durable, volatile, history
<1>2. overdue \in SUBSET Approvals
  BY DEF Sound, IInv, TypeInv, TypeData
<1>3. first[1] \in Runs
  BY <1>1, <1>2 DEF Approvals
<1> HIDE DEF first
<1>4. f \in Frames /\ f.at \notin Late \union Starting
  BY <1>2, <1>3 DEF Frame, Frames, ExpiryFrames, Failing, Late, Starting
<1> HIDE DEF f
<1> QED BY <1>1, <1>4, BeginTop, ThreadMoves

LEMMA DecideOverdueSound ==
    ASSUME Sound, NEW t \in Threads, NEW a \in Approvals, Idle(t), DecideOverdue(t, a),
           UNCHANGED <<prov, stopped, launched>>
    PROVE  ProvidersSound'
<1> DEFINE f == Frame("expire", "expire", a[1], {a})
<1>1. stack' = [stack EXCEPT ![t] = <<f>>] /\ UNCHANGED <<status, live>>
  BY DEF DecideOverdue
<1>2. f \in Frames /\ f.at \notin Late \union Starting
  BY DEF Frame, Frames, ExpiryFrames, Approvals, Failing, Late, Starting
<1> HIDE DEF f
<1> QED BY <1>1, <1>2, BeginTop, ThreadMoves

LEMMA DecideLiveSound ==
    ASSUME Sound, NEW t \in Threads, NEW a \in Approvals, NEW d, Idle(t), DecideLive(t, a, d),
           UNCHANGED <<prov, stopped, launched>>
    PROVE  ProvidersSound'
<1> DEFINE f == Frame("decide", "resolveLive", a[1], {})
<1>1. stack' = [stack EXCEPT ![t] = <<f>>] /\ UNCHANGED <<status, live>>
  BY DEF DecideLive
<1>2. f \in Frames /\ f.at \notin Late \union Starting
  BY DEF Frame, Frames, RunFrames, Ops, Places, Approvals, Failing, Late, Starting
<1> HIDE DEF f
<1> QED BY <1>1, <1>2, BeginTop, ThreadMoves

LEMMA DecideWaitingSound ==
    ASSUME Sound, NEW t \in Threads, NEW a \in Approvals, NEW d, Idle(t), DecideWaiting(t, a, d),
           UNCHANGED <<prov, stopped, launched>>
    PROVE  ProvidersSound'
<1> DEFINE r == a[1]
<1>1. r \in Runs /\ status[r] \in Beginning
  BY DEF DecideWaiting, Approvals, Beginning
<1>2. ProvidersKept
  BY ProvidersUnchanged
<1>3. CASE d = "approved"
  <2> DEFINE f == Frame("decide", "profile", r, {})
  <2>1. /\ SetStatus(r, "running") /\ live' = [live EXCEPT ![r] = Claimed]
        /\ stack' = [stack EXCEPT ![t] = <<f>>]
    BY <1>3 DEF DecideWaiting
  <2>2. f \in Frames /\ f.at \notin Late /\ f.run = r
    BY <1>1 DEF Frame, Frames, RunFrames, Ops, Places, Failing, Late
  <2>3. Begins(r)
    BY <1>1, <2>1 DEF Begins, SetStatus, Sound, IInv, TypeInv, TypeData
  <2> HIDE DEF f, r
  <2>4. TopKept(t)
    BY <2>1, <2>2, <2>3, BeginTop
  <2>5. StatusKept /\ EntriesKept
    BY <1>1, <1>2, <2>1, <2>4, StatusMoves, ClaimKept
  <2> QED BY <1>2, <2>4, <2>5, ProvidersStaySound DEF Sound
<1>4. CASE d # "approved"
  <2>1. /\ SetStatus(r, "failed") /\ UNCHANGED live
        /\ stack' = [stack EXCEPT ![t] = <<Advance(r)>>]
    BY <1>4 DEF DecideWaiting
  <2> HIDE DEF r
  <2>2. TopKept(t)
    BY <1>1, <2>1, BeginTop, AdvanceTyped DEF Failing, Late, Starting
  <2>3. StatusKept /\ EntriesKept
    BY <1>1, <1>2, <2>1, <2>2, StatusMoves, EntriesUnchanged
  <2> QED BY <1>2, <2>2, <2>3, ProvidersStaySound DEF Sound
<1> QED BY <1>3, <1>4

LEMMA DecideSound ==
    ASSUME Sound, NEW t \in Threads, NEW a \in Approvals, NEW d, Decide(t, a, d)
    PROVE  ProvidersSound'
<1>1. /\ Idle(t) /\ UNCHANGED <<prov, stopped, launched>>
      /\ DecideOverdue(t, a) \/ DecideLive(t, a, d) \/ DecideWaiting(t, a, d)
  BY DEF Decide, history
<1> QED BY <1>1, DecideOverdueSound, DecideLiveSound, DecideWaitingSound

(* A frame on top whose thread may have attached a handle or released an entry. *)
LEMMA TopGoesOn ==
    ASSUME NEW t \in Threads, NEW f, NewTop(t, f), f.at \notin Starting \union {"attach"},
           f.at \in Failing =>
              /\ status'[f.run] \notin Beginning
              /\ status'[f.run] = "running" => ~Starts(f.run)' /\ ~Loose(f.run)',
           \A r \in Runs : IsAt(t, r, {"attach"}) => ~Loose(r)' \/ Handed(r)',
           \A r \in Runs : Releases(t, r) /\ Childless(r) => Releases(t, r)' \/ ~live'[r].entry
    PROVE  TopKept(t)
<1>1. ASSUME NEW r \in Runs, NEW places, IsAt(t, r, places)' PROVE f.run = r /\ f.at \in places
  BY <1>1 DEF NewTop, IsAt, Top
<1>2. ASSUME NEW r \in Runs
      PROVE  /\ ~IsAt(t, r, Starting)' /\ ~IsAt(t, r, {"attach"})'
             /\ IsAt(t, r, Failing)' => /\ status'[r] \notin Beginning
                                        /\ status'[r] = "running" => ~Starts(r)' /\ ~Loose(r)'
  BY <1>1
<1> QED BY <1>2 DEF NewTop, TopKept

\* The thread has come to the end of the run.
LEMMA NowReleases ==
    ASSUME NEW t \in Threads, NEW f, NewTop(t, f), f.at \in {"finish", "listKids"}
    PROVE  Releases(t, f.run)'
  BY DEF NewTop, Releases, IsAt, Idle, Top

LEMMA ResolveLiveSound ==
    ASSUME Sound, NEW t \in Threads, ResolveLive(t)
    PROVE  ProvidersSound'
<1> DEFINE r == Top(t).run
<1>1. /\ ~Idle(t) /\ Top(t).at = "resolveLive"
      /\ UNCHANGED <<status, live, stopped, launched>>
  BY DEF ResolveLive, At, durable, history
<1>2. Top(t) \in Frames /\ r \in Runs /\ Aside(t)
  BY <1>1, TopFacts DEF Sound, Aside, Ending
<1>3. ProvidersKept
  <2>1. UNCHANGED prov \/ (prov[r] = "asking" /\ prov' = [prov EXCEPT ![r] = "working"])
    BY DEF ResolveLive
  <2>2. prov \in [Runs -> {"none", "working", "asking", "over"}]
    BY DEF Sound, IInv, TypeInv, TypeData
  <2> QED BY <1>1, <2>1, <2>2 DEF ProvidersKept, Works
<1>4. TopKept(t)
  <2>1. CASE Raise(t) \/ Return(t)
    BY <1>1, <1>2, <2>1, RaiseTop, ReturnTop
  <2>2. CASE Top(t).op = "expire" /\ Goto(t, "expire")
    <3> DEFINE f == [Top(t) EXCEPT !.at = "expire"]
    <3>1. f \in Frames /\ f.at = "expire" /\ Become(t, f)
      BY <1>2, <2>2 DEF Frames, RunFrames, ExpiryFrames, Ops, Goto
    <3> HIDE DEF f
    <3> QED BY <1>1, <1>2, <3>1, BecomeTop DEF Failing, Late, Starting
  <2> QED BY <2>1, <2>2 DEF ResolveLive
<1>5. EntriesKept /\ StatusKept
  BY <1>1, EntriesUnchanged, StatusUnchanged
<1> QED BY <1>3, <1>4, <1>5, ProvidersStaySound DEF Sound

LEMMA ExpireSound ==
    ASSUME Sound, NEW t \in Threads, Expire(t)
    PROVE  ProvidersSound'
<1>1. /\ ~Idle(t) /\ Top(t).at = "expire"
      /\ UNCHANGED <<live, prov, stopped, launched>>
  BY DEF Expire, At, volatile, history
<1>2. Top(t) \in ExpiryFrames /\ Aside(t)
  BY <1>1, TopFacts DEF Sound, Aside, Ending
<1>3. CASE (Return(t) \/ Raise(t)) /\ UNCHANGED durable
  <2>1. TopKept(t) /\ UNCHANGED status
    BY <1>1, <1>2, <1>3, ReturnTop, RaiseTop DEF durable
  <2> QED BY <1>1, <2>1, ThreadMoves
<1>4. ASSUME NEW a \in Top(t).kids,
             IF status[a[1]] = "waitingForApproval"
             THEN SetStatus(a[1], "failed") ELSE UNCHANGED status,
             Become(t, IF LiveRunning(a[1])
                       THEN [Frame("expire", "expire", a[1], Top(t).kids \ {a})
                               EXCEPT !.at = "resolveLive"]
                       ELSE Frame("expire", "expire", a[1], Top(t).kids \ {a}))
      PROVE  ProvidersSound'
  <2>1. a \in Approvals /\ a[1] \in Runs /\ Top(t).kids \in SUBSET Approvals
    BY <1>2 DEF ExpiryFrames, Approvals
  <2> DEFINE f == Frame("expire", "expire", a[1], Top(t).kids \ {a})
             g == [f EXCEPT !.at = "resolveLive"]
  <2>2. /\ f \in Frames /\ f.at = "expire"
        /\ g \in Frames /\ g.at = "resolveLive"
    BY <2>1 DEF Frame, Frames, ExpiryFrames
  <2>3. Become(t, f) \/ Become(t, g)
    BY <1>4
  <2> HIDE DEF f, g
  <2>4. TopKept(t)
    BY <1>1, <1>2, <2>2, <2>3, BecomeTop DEF Failing, Late, Starting
  <2>5. ProvidersKept /\ EntriesKept
    BY <1>1, ProvidersUnchanged, EntriesUnchanged
  <2>6. StatusKept
    <3>1. CASE status[a[1]] = "waitingForApproval"
      BY <1>4, <2>1, <2>4, <2>5, <3>1, StatusMoves DEF Beginning
    <3>2. CASE status[a[1]] # "waitingForApproval"
      BY <1>4, <3>2, StatusUnchanged
    <3> QED BY <3>1, <3>2
  <2> QED BY <2>4, <2>5, <2>6, ProvidersStaySound DEF Sound
<1> QED BY <1>3, <1>4 DEF Expire

LEMMA CommitQueuedSound ==
    ASSUME Sound, NEW t \in Threads, CommitQueued(t)
    PROVE  ProvidersSound'
<1> DEFINE r == Top(t).run
<1>1. /\ ~Idle(t) /\ Top(t).at = "commitQueued" /\ SetStatus(r, "queued") /\ Return(t)
      /\ UNCHANGED <<live, prov, stopped, launched>>
  BY DEF CommitQueued, At, volatile, history
<1>2. r \in Runs /\ Aside(t) /\ status[r] \in Beginning
  BY <1>1, TopFacts DEF Sound, Aside, Ending, FrameSound, Birth, Beginning
<1> HIDE DEF r
<1>3. TopKept(t) /\ ProvidersKept /\ EntriesKept
  BY <1>1, <1>2, ReturnTop, ProvidersUnchanged, EntriesUnchanged
<1>4. StatusKept
  BY <1>1, <1>2, <1>3, StatusMoves
<1> QED BY <1>3, <1>4, ProvidersStaySound DEF Sound

\* A run that policy has let go, denied, or left to the user.
LEMMA TransitionSound ==
    ASSUME Sound, NEW t \in Threads, ~Idle(t), Top(t) \in RunFrames, Aside(t),
           status[Top(t).run] \in Beginning, NEW st, StartTransition(Top(t).run, st),
           IF st = "running" THEN Goto(t, "budget") ELSE TopKept(t),
           UNCHANGED <<prov, stopped, launched>>
    PROVE  ProvidersSound'
<1> DEFINE r == Top(t).run
<1>1. r \in Runs /\ SetStatus(r, st)
      /\ (IF st = "running" THEN live' = [live EXCEPT ![r] = Claimed] ELSE live' = live)
  BY DEF RunFrames, StartTransition
<1>2. st = "running" => Begins(r)
  BY <1>1 DEF Begins, SetStatus, Sound, IInv, TypeInv, TypeData
<1>3. TopKept(t)
  <2>1. "budget" \in Places /\ "budget" \notin Failing
    BY DEF Places, Failing, Late
  <2> QED BY <1>2, <2>1, GotoTop
<1>4. ProvidersKept
  BY ProvidersUnchanged
<1> HIDE DEF r
<1>5. status[r] \in Beginning
  BY DEF r
<1>6. StatusKept
  BY <1>1, <1>3, <1>4, <1>5, StatusMoves
<1>7. EntriesKept
  BY <1>1, <1>4, <1>5, ClaimKept, EntriesUnchanged
<1> QED BY <1>3, <1>4, <1>6, <1>7, ProvidersStaySound DEF Sound

LEMMA GotoFrame ==
    ASSUME Sound, NEW t \in Threads, ~Idle(t), NEW at \in Places, Goto(t, at), Top(t) \in RunFrames
    PROVE  \E f : NewTop(t, f) /\ f.at = at /\ f.run = Top(t).run
<1>1. LET f == [Top(t) EXCEPT !.at = at]
      IN  NewTop(t, f) /\ f.at = at /\ f.run = Top(t).run
  BY LowerHere, GotoHolds
<1> QED BY <1>1

LEMMA CommitStartSound ==
    ASSUME Sound, NEW t \in Threads, CommitStart(t)
    PROVE  ProvidersSound'
<1> DEFINE r == Top(t).run
<1>1. /\ ~Idle(t) /\ Top(t).at = "commitStart"
      /\ UNCHANGED <<prov, stopped, launched>>
  BY DEF CommitStart, At, history
<1>2. Top(t) \in RunFrames /\ r \in Runs /\ Aside(t) /\ status[r] \in Beginning
  BY <1>1, TopFacts DEF Sound, Aside, Ending, FrameSound, Birth, Beginning
<1>3. PICK st \in Decisions :
        /\ StartTransition(r, st)
        /\ CASE st = "running"                          -> Goto(t, "budget")
             [] st = "failed" /\ Top(t).op = "start"    -> Become(t, Advance(r))
             [] OTHER                                   -> Return(t)
  BY DEF CommitStart
<1>4. IF st = "running" THEN Goto(t, "budget") ELSE TopKept(t)
  <2>1. CASE st = "running"
    BY <1>3, <2>1
  <2>2. CASE st # "running"
    <3>1. Become(t, Advance(r)) \/ Return(t)
      BY <1>3, <2>2
    <3>2. Advance(r) \in Frames /\ Advance(r).at \notin Late \union Starting
      BY <1>2, AdvanceTyped DEF Late, Failing, Starting
    <3>3. TopKept(t)
      BY <1>1, <1>2, <3>1, <3>2, BecomeTop, ReturnTop
    <3> QED BY <2>2, <3>3
  <2> QED BY <2>1, <2>2
<1> QED BY <1>1, <1>2, <1>3, <1>4, TransitionSound

LEMMA PromoteSound ==
    ASSUME Sound, NEW t \in Threads, Promote(t)
    PROVE  ProvidersSound'
<1> DEFINE r == Top(t).run
<1>1. /\ ~Idle(t) /\ Top(t).at = "promote" /\ status[r] \in Beginning
      /\ UNCHANGED <<prov, stopped, launched>>
  BY DEF Promote, At, history, Beginning
<1>2. Top(t) \in RunFrames /\ Aside(t)
  BY <1>1, TopFacts DEF Sound, Aside, Ending
<1>3. PICK st \in Decisions :
        /\ StartTransition(r, st)
        /\ IF st = "running" THEN Goto(t, "budget") ELSE Settled(t, st)
  BY DEF Promote
<1>4. IF st = "running" THEN Goto(t, "budget") ELSE TopKept(t)
  BY <1>1, <1>2, <1>3, SettledTop
<1> QED BY <1>1, <1>2, <1>3, <1>4, TransitionSound

\* Who leaves the start of a run leaves it to nobody else.
LEMMA AloneStarting ==
    ASSUME Sound, NEW t \in Threads, NEW r, IsAt(t, r, Starting),
           NEW f, NewTop(t, f), f.at \notin Starting
    PROVE  ~Starts(r)'
<1> SUFFICES ASSUME NEW u \in Threads, IsAt(u, r, Starting)'
             PROVE  FALSE
  BY DEF Starts
<1>1. u # t
  BY DEF NewTop, IsAt, Top
<1>2. stack'[u] = stack[u]
  BY <1>1 DEF NewTop
<1>3. IsAt(u, r, Starting)
  BY <1>2 DEF IsAt, Idle, Top
<1>4. FramesApart(Top(t), Top(u))
  BY <1>1, <1>3 DEF Sound, IInv, StateInv, TopsApart, IsAt
<1> QED BY <1>3, <1>4 DEF FramesApart, IsAt

\* A run that is about to be started has no provider yet.
LEMMA NotYetLoose ==
    ASSUME Sound, ProvidersKept, NEW t \in Threads, NEW r, IsAt(t, r, Starting)
    PROVE  ~Loose(r)' /\ r \in Runs /\ status[r] \notin Beginning
<1>1. r \in Runs /\ launched[r] = 0 /\ status[r] \notin Beginning
  BY TopFacts DEF Sound, FrameSound, IsAt
<1>2. ~Works(r)
  BY <1>1 DEF Sound, ProvidersSound, ProviderSound
<1> QED BY <1>1, <1>2 DEF ProvidersKept, Loose

LEMMA BudgetSpentSound ==
    ASSUME Sound, NEW t \in Threads, BudgetSpent(t)
    PROVE  ProvidersSound'
<1>1. ~Idle(t) /\ Top(t).at = "budget" /\ UNCHANGED <<live, prov, stopped, launched>>
  BY DEF BudgetSpent, At, volatile, history
<1> PICK r \in Runs : r = Top(t).run
  BY <1>1, TopFacts DEF Sound
<1>2. /\ Top(t) \in RunFrames /\ Aside(t) /\ status[r] \notin Beginning
      /\ stack \in [Threads -> Seq(Frames)] /\ LowerEnded(stack[t], status')
  BY <1>1, TopFacts, LowerHere DEF Sound, Aside, Ending, Starting, FrameSound
<1>3. ProvidersKept /\ EntriesKept
  BY <1>1, ProvidersUnchanged, EntriesUnchanged
<1>4. CASE status[r] = "running"
  <2>1. SetStatus(r, "budgetExceeded") /\ Call(t, Advance(r), "settleErr")
    BY <1>4 DEF BudgetSpent
  <2> DEFINE g == [Top(t) EXCEPT !.at = "settleErr"]
  <2>2. g \in Frames /\ g.at = "settleErr" /\ g.run = r
    BY <1>2 DEF RunFrames, Frames, Places
  <2>3. stack' = [stack EXCEPT ![t] = <<Advance(r), g>> \o Tail(stack[t])]
    BY <1>2, <2>1 DEF Call, Top
  <2>4. status'[r] \in Terminal
    BY <1>2, <2>1 DEF SetStatus, Terminal, Sound, IInv, TypeInv, TypeData
  <2> HIDE DEF g
  <2>5. NewTop(t, Advance(r))
    BY <1>1, <1>2, <2>2, <2>3, <2>4, AdvanceTyped, PushHolds
  <2>6. TopKept(t)
    BY <1>2, <2>5, AdvanceTyped, TopReplaced DEF Starting, Failing
  <2>7. Releases(t, r)'
    BY <1>2, <2>5, AdvanceTyped, NowReleases
  <2>8. StatusKept
    BY <1>2, <1>3, <2>1, <2>6, <2>7, StatusMoves DEF Terminal
  <2> QED BY <1>3, <2>6, <2>8, ProvidersStaySound DEF Sound
<1>5. CASE status[r] # "running"
  <2>1. Goto(t, "settleErr") /\ UNCHANGED status
    BY <1>5 DEF BudgetSpent
  <2>2. TopKept(t)
    BY <1>1, <1>2, <1>5, <2>1, GotoTop DEF Places, Starting
  <2> QED BY <1>1, <2>1, <2>2, ThreadMoves
<1> QED BY <1>4, <1>5

LEMMA LaunchFailsSound ==
    ASSUME Sound, NEW t \in Threads, LaunchFails(t)
    PROVE  ProvidersSound'
<1>1. /\ ~Idle(t) /\ Top(t).at = "launch" /\ Goto(t, "settleErr")
      /\ UNCHANGED <<status, live, prov, stopped, launched>>
  BY DEF LaunchFails, At, Starting, durable, volatile, history
<1> PICK r \in Runs : r = Top(t).run
  BY <1>1, TopFacts DEF Sound
<1>2. Top(t) \in RunFrames /\ Aside(t) /\ IsAt(t, r, Starting)
  BY <1>1, TopFacts DEF Sound, Aside, Ending, IsAt, Starting
<1>3. PICK f : NewTop(t, f) /\ f.at = "settleErr" /\ f.run = r
  BY <1>1, <1>2, GotoFrame DEF Places
<1>4. ProvidersKept
  BY <1>1, ProvidersUnchanged
<1>5. ~Starts(r)' /\ ~Loose(r)' /\ status'[r] \notin Beginning
  BY <1>1, <1>2, <1>3, <1>4, AloneStarting, NotYetLoose DEF Starting
<1>6. TopKept(t)
  BY <1>2, <1>3, <1>5, AsideHolds, TopGoesOn DEF Starting
<1> QED BY <1>1, <1>6, ThreadMoves

LEMMA AttachSound ==
    ASSUME Sound, NEW t \in Threads, Attach(t)
    PROVE  ProvidersSound'
<1>1. ~Idle(t) /\ Top(t).at = "attach" /\ UNCHANGED <<status, prov, launched, phase>>
  BY DEF Attach, At, durable, history
<1> PICK r \in Runs : r = Top(t).run
  BY <1>1, TopFacts DEF Sound
<1>2. /\ Top(t) \in RunFrames /\ phase # "down"
      /\ live \in [Runs -> LiveEntries] /\ stopped \subseteq stopped'
  BY <1>1, TopFacts DEF Sound, Still, IInv, TypeInv, TypeData, LiveEntries, Attach
<1>3. \A s \in Runs : /\ ~Releases(t, s)
                      /\ IsAt(t, s, {"attach"}) => s = r
  BY <1>1 DEF Releases, IsAt
<1>4. ProvidersKept /\ StatusKept
  BY <1>1, <1>2, StatusUnchanged DEF ProvidersKept, Works
<1>5. CASE live[r].entry
  <2> DEFINE d == live[r].requested \/ live[r].delivered
             e == [live[r] EXCEPT !.handle = TRUE, !.delivered = d]
  <2>1. /\ Goto(t, "settleOk")
        /\ live' = [live EXCEPT ![r].handle = TRUE, ![r].delivered = d]
    BY <1>5 DEF Attach
  <2>2. PICK f : NewTop(t, f) /\ f.at = "settleOk" /\ f.run = r
    BY <1>1, <1>2, <2>1, GotoFrame DEF Places
  <2>3. live[r] \in LiveEntries /\ d \in BOOLEAN
    BY <1>2
  <2> HIDE DEF d
  <2>4. e \in LiveEntries /\ e.entry = live[r].entry /\ e.handle
    BY <2>3 DEF LiveEntries
  <2>5. live' = [live EXCEPT ![r] = e]
    BY <1>2, <2>1, <2>3 DEF LiveEntries
  <2> HIDE DEF e
  <2>6. \A s \in Runs : live'[s] = IF s = r THEN e ELSE live[s]
    BY <1>2, <2>5
  <2>7. Handed(r)'
    BY <1>2, <1>5, <2>4, <2>6 DEF Handed
  <2>8. EntriesKept
    BY <1>1, <2>4, <2>6 DEF EntriesKept, Handed
  <2>9. TopKept(t)
    BY <1>3, <2>2, <2>7, TopGoesOn DEF Starting, Failing
  <2> QED BY <1>4, <2>8, <2>9, ProvidersStaySound DEF Sound
<1>6. CASE ~live[r].entry
  <2>1. Goto(t, "settleErr") /\ r \in stopped' /\ UNCHANGED live
    BY <1>6 DEF Attach
  <2>2. PICK f : NewTop(t, f) /\ f.at = "settleErr" /\ f.run = r
    BY <1>1, <1>2, <2>1, GotoFrame DEF Places
  <2>3. ~Loose(r)'
    BY <2>1 DEF Loose
  <2>4. status'[r] # "running"
    BY <1>1, <1>2, <1>6 DEF Sound, IInv, RunningIsOwned
  <2>5. status'[r] \notin Beginning
    BY <1>1, <1>2 DEF Sound, ProvidersSound, ProviderSound, Attaches, IsAt
  <2>6. TopKept(t)
    BY <1>3, <2>2, <2>3, <2>4, <2>5, TopGoesOn DEF Starting
  <2>7. EntriesKept
    BY <2>1, EntriesUnchanged
  <2> QED BY <1>4, <2>6, <2>7, ProvidersStaySound DEF Sound
<1> QED BY <1>5, <1>6

LEMMA LaunchSound ==
    ASSUME Sound, NEW t \in Threads, Launch(t)
    PROVE  ProvidersSound'
<1>1. /\ ~Idle(t) /\ Top(t).at = "launch" /\ Goto(t, "attach")
      /\ prov' = [prov EXCEPT ![Top(t).run] = "working"]
      /\ launched' = [launched EXCEPT ![Top(t).run] = launched[Top(t).run] + 1]
      /\ UNCHANGED <<status, live, stopped>>
  BY DEF Launch, At, durable
<1> PICK r \in Runs : r = Top(t).run
  BY <1>1, TopFacts DEF Sound
<1>2. Top(t) \in RunFrames /\ IsAt(t, r, Starting)
  BY <1>1, TopFacts DEF Sound, IsAt, Starting
<1>3. PICK f : NewTop(t, f) /\ f.at = "attach" /\ f.run = r
  BY <1>1, <1>2, GotoFrame DEF Places
<1>4. /\ prov \in [Runs -> {"none", "working", "asking", "over"}]
      /\ launched \in [Runs -> Nat]
  BY DEF Sound, IInv, TypeInv, TypeData
<1>5. ASSUME NEW u \in Threads, u # t, NEW s, NEW places
      PROVE  (IsAt(u, s, places)' <=> IsAt(u, s, places)) /\ (Releases(u, s)' <=> Releases(u, s))
  BY <1>3, <1>5 DEF NewTop, IsAt, Releases, Idle, Top
<1>6. \A s \in Runs : \A places : IsAt(t, s, places)' => s = r /\ "attach" \in places
  BY <1>3 DEF NewTop, IsAt, Top
<1>7. \A s \in Runs : ~Releases(t, s) /\ ~IsAt(t, s, {"attach"})
  BY <1>1 DEF Releases, IsAt
<1> SUFFICES ASSUME NEW s \in Runs PROVE ProviderSound(s)'
  BY DEF ProvidersSound
<1>8. ProviderSound(s) /\ (Childless(s)' <=> Childless(s))
  BY DEF Sound, ProvidersSound, Childless
<1>9. /\ Starts(s)' => Starts(s)
      /\ (\E u \in Threads : Releases(u, s)) => \E u \in Threads : Releases(u, s)'
      /\ \A u \in Threads : IsAt(u, s, Failing)' => IsAt(u, s, Failing)
      /\ Attaches(s)' => Attaches(s) \/ s = r
      /\ Attaches(s) => Attaches(s)'
  <2>1. "attach" \notin Starting /\ "attach" \notin Failing
    BY DEF Starting, Failing
  <2> QED BY <1>5, <1>6, <1>7, <2>1 DEF Starts, Attaches
<1>10. CASE s # r
  <2>1. /\ (Works(s)' <=> Works(s)) /\ (Loose(s)' <=> Loose(s)) /\ (Handed(s)' <=> Handed(s))
        /\ launched'[s] = launched[s] /\ status'[s] = status[s] /\ live'[s] = live[s]
    BY <1>1, <1>4, <1>10 DEF Works, Loose, Handed
  <2> QED BY <1>8, <1>9, <1>10, <2>1 DEF ProviderSound
<1>11. CASE s = r
  <2>1. launched'[r] > 0 /\ status'[r] = status[r] /\ live'[r] = live[r]
    BY <1>1, <1>4
  <2>2. Attaches(r)'
    BY <1>3 DEF Attaches, IsAt, NewTop, Idle, Top
  <2>3. Starts(r) /\ status[r] \notin Beginning
    BY <1>2, Begun DEF Sound, Starts
  <2> QED BY <1>8, <1>9, <1>11, <2>1, <2>2, <2>3 DEF ProviderSound
<1> QED BY <1>10, <1>11

LEMMA FailRunSound ==
    ASSUME Sound, NEW t \in Threads, FailRun(t)
    PROVE  ProvidersSound'
<1>1. ~Idle(t) /\ Top(t).at = "failRun" /\ UNCHANGED <<live, prov, stopped, launched>>
  BY DEF FailRun, At, volatile, history
<1> PICK r \in Runs : r = Top(t).run
  BY <1>1, TopFacts DEF Sound
<1>2. Top(t) \in RunFrames /\ Aside(t) /\ IsAt(t, r, Failing)
  BY <1>1, TopFacts DEF Sound, Aside, Ending, IsAt, Failing
<1>3. ProvidersKept /\ EntriesKept
  BY <1>1, ProvidersUnchanged, EntriesUnchanged
<1>4. CASE LiveRunning(r)
  <2>1. /\ SetStatus(r, "failed") /\ status[r] = "running"
        /\ Become(t, Advance(r)) \/ Settled(t, "failed")
    BY <1>4 DEF FailRun, LiveRunning
  <2>2. ~Starts(r) /\ ~Loose(r)
    BY <1>2, <2>1 DEF Sound, ProvidersSound, ProviderSound
  <2>3. TopKept(t)
    BY <1>1, <1>2, <2>1, AdvanceTyped, BecomeTop, SettledTop DEF Late, Failing, Starting
  <2>4. ~Loose(r)'
    BY <1>3, <2>2 DEF ProvidersKept, Loose
  <2>5. ~Starts(r)'
    BY <2>1, <2>2, <2>3, OtherTops DEF Starts, TopKept, Begins, Beginning
  <2>6. StatusKept
    BY <1>3, <2>1, <2>3, <2>4, <2>5, StatusMoves DEF Terminal
  <2> QED BY <1>3, <2>3, <2>6, ProvidersStaySound DEF Sound
<1>5. CASE ~LiveRunning(r)
  <2>1. Raise(t) /\ UNCHANGED status
    BY <1>5 DEF FailRun
  <2> QED BY <1>1, <1>2, <2>1, RaiseTop, ThreadMoves
<1> QED BY <1>4, <1>5

\* A thread that may have attached a handle or released an entry, and is done.
LEMMA TopReturns ==
    ASSUME NEW t \in Threads, Uncovered(t),
           \A r \in Runs : IsAt(t, r, {"attach"}) => ~Loose(r)' \/ Handed(r)',
           \A r \in Runs : Releases(t, r) /\ Childless(r) => Releases(t, r)' \/ ~live'[r].entry
    PROVE  TopKept(t)
<1>1. ASSUME NEW r \in Runs, NEW places, IsAt(t, r, places)'
      PROVE  places \intersect {"settleErr", "kids"} # {} /\ status'[r] \in Terminal
  BY <1>1 DEF Uncovered, IsAt, Top, Idle
<1>2. ASSUME NEW r \in Runs
      PROVE  /\ ~IsAt(t, r, Starting)' /\ ~IsAt(t, r, {"attach"})'
             /\ IsAt(t, r, Failing)' => status'[r] \notin Beginning \union {"running"}
  BY <1>1 DEF Starting, Beginning, Terminal
<1> QED BY <1>2 DEF Uncovered, TopKept

LEMMA FinishSound ==
    ASSUME Sound, NEW t \in Threads, Finish(t)
    PROVE  ProvidersSound'
<1> DEFINE next == FinishPromotes(sched, Top(t).run)
<1>1. /\ ~Idle(t) /\ Top(t).at = "finish"
      /\ live' = [live EXCEPT ![Top(t).run] = NoEntry]
      /\ stopped' = IF live[Top(t).run].handle THEN stopped \union {Top(t).run} ELSE stopped
      /\ \/ Return(t)
         \/ \E n \in next : Become(t, Frame("advance", "promote", n, {}))
      /\ UNCHANGED <<status, prov, launched>>
  BY DEF Finish, At, durable, history
<1> PICK r \in Runs : r = Top(t).run
  BY <1>1, TopFacts DEF Sound
<1>2. live \in [Runs -> LiveEntries] /\ \A s \in Runs : IsAt(t, s, {"attach"}) => FALSE
  BY <1>1 DEF Sound, IInv, TypeInv, TypeData, LiveEntries, IsAt
<1>3. /\ \A s \in Runs : live'[s] = IF s = r THEN NoEntry ELSE live[s]
      /\ ~NoEntry.entry /\ stopped \subseteq stopped' /\ (live[r].handle => r \in stopped')
  BY <1>1, <1>2 DEF NoEntry
<1>4. ProvidersKept /\ StatusKept /\ EntriesKept
  <2>1. ProvidersKept /\ StatusKept
    BY <1>1, <1>3, StatusUnchanged DEF ProvidersKept, Works
  <2>2. EntriesKept
    BY <1>1, <1>3 DEF EntriesKept, Handed, Loose
  <2> QED BY <2>1, <2>2
<1>5. \A s \in Runs : Releases(t, s) => ~live'[s].entry
  BY <1>3 DEF Releases, IsAt
<1>6. LowerEnded(stack[t], status') /\ stack \in [Threads -> Seq(Frames)]
  BY LowerHere
<1>7. CASE Return(t)
  <2>1. Uncovered(t)
    BY <1>1, <1>6, <1>7, ReturnHolds
  <2> QED BY <1>2, <1>4, <1>5, <2>1, TopReturns, ProvidersStaySound DEF Sound
<1>8. ASSUME NEW n \in next, Become(t, Frame("advance", "promote", n, {}))
      PROVE  ProvidersSound'
  <2>1. sched \in [active : SUBSET Runs, queue : Seq(issued)] /\ issued \subseteq Runs
    BY SchedTyped DEF Sound
  <2>2. FinishPromotes(sched, r) \subseteq issued
    BY <2>1, FinishHolds
  <2>3. n \in Runs
    BY <1>8, <2>1, <2>2
  <2> DEFINE f == Frame("advance", "promote", n, {})
  <2>4. f \in Frames /\ f.at = "promote"
    BY <2>3 DEF Frame, Frames, RunFrames, Ops, Places
  <2>5. Become(t, f)
    BY <1>8
  <2> HIDE DEF f
  <2>6. NewTop(t, f)
    BY <1>1, <1>6, <2>4, <2>5, BecomeHolds
  <2>7. TopKept(t)
    BY <1>2, <1>5, <2>4, <2>6, TopGoesOn DEF Starting, Failing
  <2> QED BY <1>4, <2>7, ProvidersStaySound DEF Sound
<1> QED BY <1>1, <1>7, <1>8

LEMMA DeliverCancelSound ==
    ASSUME Sound, NEW t \in Threads, NEW last \in BOOLEAN, ~Idle(t),
           Top(t).at \in {"cancelLive", "cancelWait"}, DeliverCancel(t, Top(t).run, last)
    PROVE  ProvidersSound'
<1> DEFINE r == Top(t).run
<1>1. UNCHANGED <<status, prov, launched>>
  BY DEF DeliverCancel, durable, history
<1>2. Top(t) \in RunFrames /\ r \in Runs /\ Aside(t) /\ live \in [Runs -> LiveEntries]
  BY TopFacts DEF Sound, Aside, Ending, IInv, TypeInv, TypeData, LiveEntries
<1>3. CASE ~live[r].entry
  <2>1. Raise(t) /\ UNCHANGED <<live, stopped>>
    BY <1>3 DEF DeliverCancel
  <2> QED BY <1>1, <1>2, <2>1, RaiseTop, ThreadMoves
<1>4. CASE live[r].entry
  <2>1. /\ Goto(t, "cancelWait") \/ Goto(t, "commitBudget") \/ Goto(t, "commitCancel")
        /\ live' = [live EXCEPT ![r].requested = TRUE, ![r].delivered = @ \/ live[r].handle]
        /\ stopped \subseteq stopped'
    BY <1>4 DEF DeliverCancel
  <2>2. TopKept(t)
    <3>1. \A at \in {"cancelWait", "commitBudget", "commitCancel"} :
            at \in Places /\ at \notin Starting \union Late
      BY DEF Places, Starting, Late, Failing
    <3> QED BY <1>2, <2>1, <3>1, GotoTop DEF Late
  <2>3. \A s \in Runs : live'[s].entry = live[s].entry /\ live'[s].handle = live[s].handle
    <3> DEFINE d == live[r].delivered \/ live[r].handle
    <3>1. live[r] \in LiveEntries
      BY <1>2
    <3>2. live' = [live EXCEPT ![r].requested = TRUE, ![r].delivered = d]
      BY <1>2, <2>1, <3>1 DEF LiveEntries
    <3> HIDE DEF d
    <3> DEFINE e == [live[r] EXCEPT !.requested = TRUE, !.delivered = d]
    <3>3. e.entry = live[r].entry /\ e.handle = live[r].handle
      BY <3>1 DEF LiveEntries
    <3>4. live' = [live EXCEPT ![r] = e]
      BY <1>2, <3>1, <3>2 DEF LiveEntries
    <3> HIDE DEF e
    <3> QED BY <1>2, <3>3, <3>4
  <2>4. ProvidersKept /\ StatusKept
    BY <1>1, <2>1, StatusUnchanged DEF ProvidersKept, Works
  <2>5. EntriesKept
    BY <2>3 DEF EntriesKept, Handed
  <2> QED BY <2>2, <2>4, <2>5, ProvidersStaySound DEF Sound
<1> QED BY <1>3, <1>4

LEMMA CommitCancelSound ==
    ASSUME Sound, NEW t \in Threads, CommitCancel(t)
    PROVE  ProvidersSound'
<1>1. ~Idle(t) /\ Top(t).at = "commitCancel" /\ UNCHANGED <<live, prov, stopped, launched>>
  BY DEF CommitCancel, At, volatile, history
<1> PICK r \in Runs : r = Top(t).run
  BY <1>1, TopFacts DEF Sound
<1>2. Top(t) \in RunFrames /\ Aside(t)
  BY <1>1, TopFacts DEF Sound, Aside, Ending
<1>3. ProvidersKept /\ EntriesKept
  BY <1>1, ProvidersUnchanged, EntriesUnchanged
<1>4. CASE status[r] \in Cancellable
  <2>1. SetStatus(r, "cancelled") /\ Goto(t, "listKids")
    BY <1>4 DEF CommitCancel
  <2>2. PICK f : NewTop(t, f) /\ f.at = "listKids" /\ f.run = r
    BY <1>1, <1>2, <2>1, GotoFrame DEF Places
  <2>3. TopKept(t)
    BY <1>2, <2>2, TopReplaced DEF Starting, Failing
  <2>4. Releases(t, r)'
    BY <2>2, NowReleases
  <2>5. StatusKept
    BY <1>3, <2>1, <2>3, <2>4, StatusMoves DEF Terminal
  <2> QED BY <1>3, <2>3, <2>5, ProvidersStaySound DEF Sound
<1>5. CASE status[r] \notin Cancellable
  <2>1. Raise(t) /\ UNCHANGED status
    BY <1>5 DEF CommitCancel
  <2> QED BY <1>1, <1>2, <2>1, RaiseTop, ThreadMoves
<1> QED BY <1>4, <1>5

LEMMA CommitBudgetSound ==
    ASSUME Sound, NEW t \in Threads, CommitBudget(t)
    PROVE  ProvidersSound'
<1>1. ~Idle(t) /\ Top(t).at = "commitBudget" /\ UNCHANGED <<live, prov, stopped, launched>>
  BY DEF CommitBudget, At, volatile, history
<1> PICK r \in Runs : r = Top(t).run
  BY <1>1, TopFacts DEF Sound
<1>2. Aside(t)
  BY <1>1 DEF Aside, Ending
<1>3. ProvidersKept /\ EntriesKept
  BY <1>1, ProvidersUnchanged, EntriesUnchanged
<1>4. CASE status[r] = "running"
  <2>1. SetStatus(r, "budgetExceeded") /\ Become(t, Advance(r))
    BY <1>4 DEF CommitBudget
  <2>2. NewTop(t, Advance(r))
    BY <1>1, <2>1, AdvanceTyped, LowerHere, BecomeHolds
  <2>3. TopKept(t)
    BY <1>2, <2>2, AdvanceTyped, TopReplaced DEF Starting, Failing
  <2>4. Releases(t, r)'
    BY <2>2, AdvanceTyped, NowReleases
  <2>5. StatusKept
    BY <1>3, <2>1, <2>3, <2>4, StatusMoves DEF Terminal
  <2> QED BY <1>3, <2>3, <2>5, ProvidersStaySound DEF Sound
<1>5. CASE status[r] # "running"
  <2>1. Return(t) /\ UNCHANGED status
    BY <1>5 DEF CommitBudget
  <2> QED BY <1>1, <1>2, <2>1, ReturnTop, ThreadMoves
<1> QED BY <1>4, <1>5

\* A run without native children is released at once.
LEMMA ListKidsSound ==
    ASSUME Sound, NEW t \in Threads, ListKids(t)
    PROVE  ProvidersSound'
<1> DEFINE K == { c \in Children : Parent[c] = Top(t).run /\ status[c] \in Cancellable }
           g == [Top(t) EXCEPT !.at = "kids", !.kids = K]
<1>1. /\ ~Idle(t) /\ Top(t).at = "listKids" /\ Become(t, g)
      /\ UNCHANGED <<status, live, prov, stopped, launched>>
  BY DEF ListKids, At, durable, volatile, history
<1>2. Top(t) \in RunFrames /\ (Childless(Top(t).run) => K = {})
  BY <1>1, TopFacts DEF Sound, Childless
<1>3. K \in SUBSET Runs
  BY LifecycleAssumption
<1> HIDE DEF K
<1>4. g \in Frames /\ g.at = "kids" /\ g.run = Top(t).run /\ g.kids = K
  BY <1>2, <1>3 DEF Frames, RunFrames, Places
<1> HIDE DEF g
<1>5. NewTop(t, g)
  BY <1>1, <1>4, LowerHere, BecomeHolds
<1>6. PICK f : NewTop(t, f) /\ f.at = "kids" /\ f.run = Top(t).run /\ f.kids = K
  BY <1>4, <1>5
<1>7. ASSUME NEW s \in Runs, Releases(t, s), Childless(s) PROVE Releases(t, s)'
  <2>1. s = f.run /\ f.kids = {}
    BY <1>1, <1>2, <1>6, <1>7 DEF Releases, IsAt
  <2> QED BY <1>6, <2>1 DEF NewTop, Releases, IsAt, Idle, Top
<1>8. \A s \in Runs : ~IsAt(t, s, {"attach"})
  BY <1>1 DEF IsAt
<1>9. TopKept(t)
  BY <1>6, <1>7, <1>8, TopGoesOn DEF Starting, Failing
<1> QED BY <1>1, <1>9, ThreadMoves

LEMMA CancelKidsSound ==
    ASSUME Sound, NEW t \in Threads, CancelKids(t)
    PROVE  ProvidersSound'
<1>1. /\ ~Idle(t) /\ Top(t).at = "kids"
      /\ UNCHANGED <<status, live, prov, stopped, launched>>
  BY DEF CancelKids, At, durable, volatile, history
<1>2. /\ Top(t) \in RunFrames /\ FrameSound(Top(t)) /\ Top(t).run \in Runs
      /\ LowerEnded(stack[t], status') /\ stack \in [Threads -> Seq(Frames)]
  BY <1>1, TopFacts, LowerHere DEF Sound
<1> PICK r \in Runs : r = Top(t).run
  BY <1>2
<1>3. \A s \in Runs : ~IsAt(t, s, {"attach"}) /\ (Releases(t, s) => s = r /\ Top(t).kids = {})
  BY <1>1 DEF Releases, IsAt
<1>4. CASE Top(t).kids = {}
  <2>1. Become(t, Advance(r))
    BY <1>4 DEF CancelKids
  <2>2. NewTop(t, Advance(r))
    BY <1>1, <1>2, <2>1, AdvanceTyped, BecomeHolds
  <2>3. Releases(t, r)'
    BY <2>2, AdvanceTyped, NowReleases
  <2>4. TopKept(t)
    BY <1>3, <2>2, <2>3, AdvanceTyped, TopGoesOn DEF Starting, Failing
  <2> QED BY <1>1, <2>4, ThreadMoves
<1>5. CASE Top(t).kids # {}
  <2>1. PICK c \in Top(t).kids :
          stack' = [stack EXCEPT ![t] =
            <<Frame("cancel", "check", c, {}), [Top(t) EXCEPT !.kids = Top(t).kids \ {c}]>>
              \o Tail(stack[t])]
    BY <1>5 DEF CancelKids, Top
  <2> DEFINE f == Frame("cancel", "check", c, {})
             K == Top(t).kids \ {c}
             g == [Top(t) EXCEPT !.kids = K]
  <2>2. c \in Runs /\ K \in SUBSET Runs
    BY <1>2 DEF RunFrames
  <2>3. f \in Frames /\ f.at = "check"
    BY <2>2 DEF Frame, Frames, RunFrames, Ops, Places
  <2>4. stack' = [stack EXCEPT ![t] = <<f, g>> \o Tail(stack[t])]
    BY <2>1
  <2> HIDE DEF f, K
  <2>5. g \in Frames /\ g.at = "kids" /\ status'[g.run] \in Terminal
    BY <1>1, <1>2, <2>2 DEF RunFrames, Frames, FrameSound, Ending
  <2> HIDE DEF g
  <2>6. NewTop(t, f)
    BY <1>1, <1>2, <2>3, <2>4, <2>5, PushHolds
  <2>7. TopKept(t)
    BY <1>3, <1>5, <2>3, <2>6, TopGoesOn DEF Starting, Failing
  <2> QED BY <1>1, <2>7, ThreadMoves
<1> QED BY <1>4, <1>5

(* The provider of run r. *)
LEMMA ProviderMoves ==
    ASSUME Sound, NEW r \in Runs, NEW p, prov' = [prov EXCEPT ![r] = p], Works(r),
           UNCHANGED <<stopped, launched>>
    PROVE  /\ ProvidersKept /\ r \in Threads
           /\ p = "over" => ~Loose(r)'
           /\ ~Starts(r) /\ status[r] \notin Beginning
<1>1. prov \in [Runs -> {"none", "working", "asking", "over"}] /\ r \in Threads
  BY DEF Sound, IInv, TypeInv, TypeData, Threads
<1>2. \A s \in Runs : prov'[s] = IF s = r THEN p ELSE prov[s]
  BY <1>1
<1>3. launched[r] > 0 /\ launched[r] # 0
  BY DEF Sound, ProvidersSound, ProviderSound, IInv, TypeInv, TypeData
<1> QED BY <1>1, <1>2, <1>3, Begun DEF Sound, ProvidersKept, Works, Loose

\* The provider ends its run.
LEMMA ProviderEnds ==
    ASSUME Sound, NEW r \in Runs, prov' = [prov EXCEPT ![r] = "over"], Works(r), Idle(r),
           NEW st \in Terminal, SetStatus(r, st),
           stack' = [stack EXCEPT ![r] = <<Advance(r)>>] \/ UNCHANGED stack,
           UNCHANGED <<live, stopped, launched>>
    PROVE  ProvidersSound'
<1>1. /\ ProvidersKept /\ r \in Threads
      /\ ~Loose(r)' /\ ~Starts(r) /\ status[r] \notin Beginning
  BY ProviderMoves
<1>2. TopKept(r)
  <2>1. Advance(r) \in Frames /\ Advance(r).at \notin Late \union Starting
    BY AdvanceTyped DEF Late, Failing, Starting
  <2> QED BY <1>1, <2>1, BeginTop, StackKept
<1>3. ~Starts(r)'
  BY <1>1, <1>2, OtherTops DEF Starts, TopKept, Begins
<1>4. StatusKept /\ EntriesKept
  BY <1>1, <1>2, <1>3, StatusMoves, EntriesUnchanged
<1> QED BY <1>1, <1>2, <1>4, ProvidersStaySound DEF Sound

LEMMA ProviderStepSound ==
    ASSUME Sound, NEW r \in Runs, ProviderStep(r) \/ ProviderAsks(r)
    PROVE  ProvidersSound'
<1>1. CASE ProviderCompletes(r)
  BY <1>1, ProviderEnds DEF ProviderCompletes, Works, Terminal, history
<1>2. CASE ProviderFails(r) /\ LiveRunning(r)
  BY <1>2, ProviderEnds DEF ProviderFails, Works, Terminal, history
<1>3. CASE ProviderFails(r) /\ ~LiveRunning(r)
  <2>1. /\ prov' = [prov EXCEPT ![r] = "over"] /\ Works(r)
        /\ UNCHANGED <<status, stack, live, stopped, launched>>
    BY <1>3 DEF ProviderFails, Works, history
  <2>2. ProvidersKept /\ r \in Threads
    BY <2>1, ProviderMoves
  <2> QED BY <2>1, <2>2, StackKept, StatusUnchanged, EntriesUnchanged, ProvidersStaySound DEF Sound
<1>4. CASE ProviderInterrupted(r) \/ ProviderAsks(r)
  <2>1. /\ prov' = [prov EXCEPT ![r] = "working"] \/ prov' = [prov EXCEPT ![r] = "asking"]
        /\ Works(r) /\ UNCHANGED <<status, stack, live, stopped, launched>>
    BY <1>4 DEF ProviderInterrupted, ProviderAsks, Works, history
  <2>2. ProvidersKept /\ r \in Threads
    BY <2>1, ProviderMoves
  <2> QED BY <2>1, <2>2, StackKept, StatusUnchanged, EntriesUnchanged, ProvidersStaySound DEF Sound
<1>5. CASE ProviderSpendsBudget(r)
  <2> DEFINE f == Frame("budget", "cancelLive", r, {})
  <2>1. /\ prov' = [prov EXCEPT ![r] = "over"] /\ Works(r) /\ Idle(r)
        /\ stack' = [stack EXCEPT ![r] = <<f>>]
        /\ UNCHANGED <<status, live, stopped, launched>>
    BY <1>5 DEF ProviderSpendsBudget, Works, durable, history
  <2>2. f \in Frames /\ f.at \notin Late \union Starting
    BY DEF Frame, Frames, RunFrames, Ops, Places, Late, Failing, Starting
  <2> HIDE DEF f
  <2>3. ProvidersKept /\ r \in Threads
    BY <2>1, ProviderMoves
  <2>4. TopKept(r)
    BY <2>1, <2>2, <2>3, BeginTop
  <2> QED BY <2>1, <2>3, <2>4, StatusUnchanged, EntriesUnchanged, ProvidersStaySound DEF Sound
<1> QED BY <1>1, <1>2, <1>3, <1>4, <1>5 DEF ProviderStep

(* Steps that disturb no thread. *)
LEMMA QuietSound ==
    ASSUME Sound, UNCHANGED <<status, stack, live, prov, stopped, launched>>
    PROVE  ProvidersSound'
<1>1. Boot \in Threads
  BY DEF Threads
<1> QED BY <1>1, StackKept, ThreadMoves

(* The daemon dies and starts again: no provider works. *)
LEMMA NothingWorks ==
    ASSUME \A r \in Runs : prov'[r] = "none",
           \A t \in Threads : stack'[t] = <<>> \/ Head(stack'[t]).at = "promote"
    PROVE  ProvidersSound'
<1> SUFFICES ASSUME NEW r \in Runs PROVE ProviderSound(r)'
  BY DEF ProvidersSound
<1>1. \A t \in Threads : ~IsAt(t, r, Starting)' /\ ~IsAt(t, r, Failing)' /\ ~IsAt(t, r, {"attach"})'
  BY DEF IsAt, Idle, Top, Starting, Failing
<1>2. ~Works(r)' /\ ~Loose(r)' /\ ~Starts(r)' /\ ~Attaches(r)'
  BY <1>1 DEF Works, Loose, Starts, Attaches
<1> QED BY <1>1, <1>2 DEF ProviderSound

LEMMA RestartSound ==
    ASSUME Sound, Crash \/ Reconcile \/ Rehydrate
    PROVE  ProvidersSound'
<1>1. \A r \in Runs : prov'[r] = "none"
  BY DEF Crash, Reconcile, Rehydrate, volatile, Sound, IInv, StateInv, StillSound, Still
<1>2. \A t \in Threads : stack'[t] = <<>> \/ Head(stack'[t]).at = "promote"
  <2>1. CASE Crash
    BY <2>1 DEF Crash
  <2>2. CASE Reconcile
    BY <2>2 DEF Reconcile, Sound, IInv, StateInv, StillSound, Still, Idle
  <2>3. CASE Rehydrate
    <3> DEFINE f == Frame("boot", "promote", Head(QueuedRuns), {})
    <3>1. /\ \A t \in Threads : stack[t] = <<>>
          /\ stack' = [stack EXCEPT ![Boot] = IF QueuedRuns = <<>> THEN <<>> ELSE <<f>>]
      BY <2>3 DEF Rehydrate, Sound, IInv, StateInv, StillSound, Still, Idle
    <3>2. Head(<<f>>).at = "promote"
      BY DEF Frame
    <3> HIDE DEF f
    <3> QED BY <3>1, <3>2 DEF Sound, IInv, TypeInv
  <2> QED BY <2>1, <2>2, <2>3
<1> QED BY <1>1, <1>2, NothingWorks

LEMMA InitSound == Init => ProvidersSound
<1> SUFFICES ASSUME Init, NEW r \in Runs PROVE ProviderSound(r)
  BY DEF ProvidersSound
<1>1. \A t \in Threads : Idle(t)
  BY DEF Init, Idle
<1>2. ~Works(r)
  BY DEF Init, Works
<1> QED BY <1>1, <1>2 DEF ProviderSound, Loose, Starts, Attaches, IsAt

(* Every step of the daemon. *)
LEMMA StepSound ==
    ASSUME Sound, NEW t \in Threads, Step(t)
    PROVE  ProvidersSound'
<1>1. CASE \/ Schedule(t) \/ PrepareFails(t) \/ CommitQueued(t) \/ CommitStart(t)
           \/ BudgetOk(t) \/ BudgetSpent(t) \/ Launch(t) \/ LaunchFails(t) \/ Attach(t)
  BY <1>1, ScheduleOrFailsSound, CommitQueuedSound, CommitStartSound, BudgetOkSound,
     BudgetSpentSound, LaunchSound, LaunchFailsSound, AttachSound
<1>2. CASE \/ SettleOk(t) \/ SettleErr(t) \/ FailRun(t)
           \/ Finish(t) \/ Promote(t) \/ PromoteFails(t)
           \/ Profile(t) \/ ResolveLive(t) \/ Expire(t)
  BY <1>2, SettleSound, FailRunSound, FinishSound, PromoteSound, RaisesSound, ProfileSound,
     ResolveLiveSound, ExpireSound
<1>3. CASE CancelLive(t) \/ CancelWait(t)
  BY <1>3, DeliverCancelSound DEF CancelLive, CancelWait, At
<1>4. CASE \/ CancelCheck(t) \/ CommitCancel(t) \/ ListKids(t) \/ CancelKids(t) \/ CommitBudget(t)
  BY <1>4, CancelCheckSound, CommitCancelSound, ListKidsSound, CancelKidsSound, CommitBudgetSound
<1> QED BY <1>1, <1>2, <1>3, <1>4 DEF Step

LEMMA NextSound ==
    ASSUME IInv, ProvidersSound, [Next]_vars
    PROVE  ProvidersSound'
<1>1. Sound
  BY NextKeeps DEF Sound, Kept
<1>2. CASE \E t \in Threads : Step(t)
  BY <1>1, <1>2, StepSound
<1>3. CASE \E t \in Threads : Request(t)
  BY <1>1, <1>3, RequestRunSound, CancelSound, DecideSound, ListApprovalsSound DEF Request
<1>4. CASE \E r \in Runs : ProviderStep(r) \/ ProviderAsks(r)
  BY <1>1, <1>4, ProviderStepSound
<1>5. CASE Crash \/ Reconcile \/ Rehydrate
  BY <1>1, <1>5, RestartSound
<1>6. CASE (\E a \in Approvals : TtlPasses(a)) \/ Booted \/ UNCHANGED vars
  <2>1. UNCHANGED <<status, stack, live, prov, stopped, launched>>
    BY <1>6 DEF TtlPasses, Booted, vars, durable, volatile, history
  <2> QED BY <1>1, <2>1, QuietSound
<1> QED BY <1>2, <1>3, <1>4, <1>5, <1>6 DEF Next

\* A run that has no native children: once it has ended, its provider has been told to stop
\* or a handler that will tell it is on its way.
ChildlessProvidersTold ==
    \A r \in Runs :
      Childless(r) /\ status[r] \in Terminal /\ prov[r] \in {"working", "asking"} /\ r \notin stopped
        => OnItsWay(r)

LEMMA TopIsOnItsWay ==
    ASSUME TypeInv, NEW t \in Threads, NEW r \in Runs, NEW places, IsAt(t, r, places)
    PROVE  OnItsWay(r)
<1>1. stack[t] \in Seq(Frames) /\ stack[t] # <<>> /\ Head(stack[t]).run = r
  BY DEF TypeInv, IsAt, Idle, Top
<1>2. 1 \in DOMAIN stack[t] /\ stack[t][1] = Head(stack[t])
  BY <1>1
<1> QED BY <1>1, <1>2 DEF OnItsWay

LEMMA SoundTold ==
    ASSUME IInv, ProvidersSound
    PROVE  ChildlessProvidersTold
<1> SUFFICES ASSUME NEW r \in Runs, Childless(r), status[r] \in Terminal, Loose(r)
             PROVE  OnItsWay(r)
  BY DEF ChildlessProvidersTold, Loose, Works
<1>1. ProviderSound(r) /\ TypeInv
  BY DEF ProvidersSound, IInv
<1>2. Attaches(r) \/ \E t \in Threads : Releases(t, r)
  BY <1>1 DEF ProviderSound, Handed
<1>3. \E t \in Threads : \E places : IsAt(t, r, places)
  BY <1>2 DEF Attaches, Releases
<1> QED BY <1>1, <1>3, TopIsOnItsWay

(* The provider of a run that ended has been told to stop or is going to be (cancel.rs,      *)
(* active_execution.rs), whatever raced with the end of the run, for every run that started  *)
(* no native child.                                                                          *)
THEOREM ChildlessProvidersStop == Spec => []ChildlessProvidersTold
<1>1. Init => IInv /\ ProvidersSound
  BY InitHolds, InitSound
<1>2. IInv /\ ProvidersSound /\ [Next]_vars => IInv' /\ ProvidersSound'
  BY NextKeeps, NextSound DEF Kept
<1>3. IInv /\ ProvidersSound => ChildlessProvidersTold
  BY SoundTold
<1> QED BY <1>1, <1>2, <1>3, PTL DEF Spec

(* Where no run starts native children that is NoOrphanProvider.  With native children it is *)
(* not: an error in the cancel of a child ends the cancel of its parent (cancel.rs).         *)
THEOREM NoProviderIsOrphaned ==
    ASSUME Children = {}
    PROVE  Spec => []NoOrphanProvider
<1>1. ChildlessProvidersTold => NoOrphanProvider
  BY DEF ChildlessProvidersTold, NoOrphanProvider, Childless
<1> QED BY <1>1, ChildlessProvidersStop, PTL
=============================================================================
