----------------------------- MODULE EventHub -----------------------------
(***************************************************************************)
(* The events of one session between the store and the daemon's clients:   *)
(* the sequence numbers a commit hands out (ta-store/src/sqlite/commits.rs,*)
(* memory/commits.rs) and the fan-out of RuntimeEventHub                   *)
(* (ta-orchestrator/src/host/event_hub/mod.rs).                            *)
(*                                                                         *)
(* A thread commits under the store's mutex and publishes what it          *)
(* committed after it let go of it, so two threads publish in any order.   *)
(* An event is its sequence number, its place in log; log says whether it  *)
(* is durable and whether it is one the observed subscribers look for.     *)
(* The subscribers themselves are in the modules that extend this one.     *)
(***************************************************************************)
EXTENDS Naturals, Sequences, FiniteSets, SequencesExt

CONSTANTS
    Publishers,   \* threads that commit events of the session
    Subscribers,  \* subscriptions of the hub
    BacklogCap,   \* MAX_EVENT_BACKLOG_DEPTH
    SubscriberCap,     \* MAX_SUBSCRIBER_QUEUE_DEPTH
    MaxEvents     \* bound: how many events are committed

ASSUME HubAssumption ==
    /\ BacklogCap \in Nat \ {0}
    /\ SubscriberCap \in Nat \ {0}
    /\ MaxEvents \in Nat

VARIABLES
    log,      \* the events committed, in the order of their sequence numbers
    pending,  \* of each publisher, what it committed and has still to publish
    hub,      \* latest_sequence_by_session and SessionEventBacklog
    subs      \* of each subscription, its bounded queue

hubVars == <<log, pending, hub, subs>>

Events == [durable : BOOLEAN, mine : BOOLEAN]

Larger(a, b) == IF a >= b THEN a ELSE b

\* The sequence number of the last of a set of events; 0 stands for None.
LastOf(S) == CHOOSE n \in S \union {0} : \A m \in S : m <= n

Durables == { n \in DOMAIN log : log[n].durable }

\* The members of a finite set of numbers, the least first.
Ascending(S) ==
    [k \in 1..Cardinality(S) |-> CHOOSE n \in S : Cardinality({ m \in S : m < n }) = k - 1]

---------------------------------------------------------------------------
NoSubscription == [on |-> FALSE, queue |-> <<>>, overflowed |-> FALSE, all |-> FALSE]

HubInit ==
    /\ log = <<>>
    /\ pending = [p \in Publishers |-> <<>>]
    /\ hub = [latest |-> 0, backlog |-> <<>>, required |-> 0]
    /\ subs = [s \in Subscribers |-> NoSubscription]

\* A transaction of publisher p with one event in it.
Commit(p, e) ==
    /\ Len(log) < MaxEvents
    /\ log' = Append(log, e)
    /\ pending' = [pending EXCEPT ![p] = Append(@, Len(log) + 1)]
    /\ UNCHANGED <<hub, subs>>

\* SessionEventBacklog::push: one event too many costs the oldest transient
\* one, or else the oldest, and then a resume must start after that one.
Push(h, n) ==
    LET all == Append(h.backlog, n)
        live == { i \in DOMAIN all : ~log[all[i]].durable }
    IN  IF Len(all) <= BacklogCap
        THEN [h EXCEPT !.backlog = all]
        ELSE IF live # {}
        THEN [h EXCEPT !.backlog = RemoveAt(all, CHOOSE i \in live : \A j \in live : i <= j)]
        ELSE [h EXCEPT !.backlog = Tail(all), !.required = Larger(@, Head(all))]

\* Whether an event is for the subscription.
Wants(sub, n) == sub.on /\ (sub.all \/ log[n].mine)

\* Mutant: a full queue loses the event and nobody is told.
OfferDrops(sub, n) ==
    IF ~Wants(sub, n) \/ Len(sub.queue) >= SubscriberCap THEN sub
    ELSE [sub EXCEPT !.queue = Append(@, n)]

\* try_send: a subscriber whose queue is full is marked and removed.
Offer(sub, n) ==
    IF ~Wants(sub, n) THEN sub
    ELSE IF Len(sub.queue) >= SubscriberCap
    THEN [sub EXCEPT !.on = FALSE, !.overflowed = TRUE]
    ELSE [sub EXCEPT !.queue = Append(@, n)]

Publish(p) ==
    /\ pending[p] # <<>>
    /\ LET n == Head(pending[p])
       IN  /\ hub' = Push([hub EXCEPT !.latest = Larger(@, n)], n)
           /\ subs' = [s \in Subscribers |-> Offer(subs[s], n)]
    /\ pending' = [pending EXCEPT ![p] = Tail(@)]
    /\ UNCHANGED log

---------------------------------------------------------------------------
(* subscribe.  persisted is the last durable sequence the caller knows.    *)

Latest(persisted) == Larger(hub.latest, persisted)

CanResumeFrom(after) == after >= hub.required

EventsAfter(after, all) ==
    LET kept == hub.backlog
        wanted == { i \in DOMAIN kept : kept[i] > after /\ (all \/ log[kept[i]].mine) }
    IN  [k \in 1..Cardinality(wanted) |-> kept[Ascending(wanted)[k]]]

\* A cursor of this daemon instance and session: is there a gap behind it?
HasGap(persisted, after) ==
    \/ after > Latest(persisted)
    \/ after < Latest(persisted) /\ ~(hub.backlog # <<>> /\ CanResumeFrom(after))

Subscribe(s, all) ==
    subs' = [subs EXCEPT ![s] = [NoSubscription EXCEPT !.on = TRUE, !.all = all]]

\* RuntimeEventSubscriptionCleanup and the receiver are dropped.
Unsubscribe(s) == subs' = [subs EXCEPT ![s].on = FALSE, ![s].queue = <<>>]

HubTypeOK ==
    /\ log \in Seq(Events)
    /\ pending \in [Publishers -> Seq(DOMAIN log)]
    /\ hub \in [latest : Nat, backlog : Seq(DOMAIN log), required : Nat]
    /\ subs \in [Subscribers -> [on : BOOLEAN, queue : Seq(DOMAIN log),
                                 overflowed : BOOLEAN, all : BOOLEAN]]
===========================================================================
