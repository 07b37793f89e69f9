-------------------------- MODULE RunEventSplice --------------------------
(***************************************************************************)
(* The event stream of one run: ta-orchestrator/src/orchestration/         *)
(* run_events_subscribe.rs joins what the store replays to what the hub    *)
(* still publishes, and host/rpc/mod.rs forwards it to the client.  The    *)
(* join is a sequence number, the replay boundary: the store answers for   *)
(* the events up to it, the hub for the ones after it.                     *)
(***************************************************************************)
EXTENDS EventHub

CONSTANTS
    ChannelCap,   \* RUN_EVENT_SUBSCRIBER_QUEUE_DEPTH
    ReplayCap     \* RUN_EVENT_REPLAY_TOTAL_LIMIT

ASSUME SpliceAssumption == ChannelCap \in Nat \ {0} /\ ReplayCap \in Nat

VARIABLES
    run,      \* the run: "absent", "running" or "over"
    watch,    \* of each subscription: where the handler is, and what it read
    bridge,   \* of each subscription: the thread run-event-splice
    channel,  \* the events the bridge sent and the forwarder has not yet
    ending,   \* the error behind them in the channel, if any
    got,      \* the events the client received
    told      \* the error the client received, if any

clientVars == <<watch, bridge, channel, ending, got, told>>
spliceVars == <<hubVars, run, clientVars>>

NoWatch == [at |-> "idle", after |-> 0, last |-> 0, boundary |-> 0, live |-> FALSE]

SpliceInit ==
    /\ HubInit
    /\ run = "absent"
    /\ watch = [s \in Subscribers |-> NoWatch]
    /\ bridge = [s \in Subscribers |-> "off"]
    /\ channel = [s \in Subscribers |-> <<>>]
    /\ ending = [s \in Subscribers |-> "none"]
    /\ got = [s \in Subscribers |-> <<>>]
    /\ told = [s \in Subscribers |-> "none"]

RunDurables == { n \in Durables : log[n].mine }

---------------------------------------------------------------------------
(* The run and the session around it.                                      *)

StartRun(p) ==
    /\ run = "absent" /\ run' = "running"
    /\ Commit(p, [durable |-> TRUE, mine |-> TRUE])
    /\ UNCHANGED clientVars

EndRun(p) ==
    /\ run = "running" /\ run' = "over"
    /\ Commit(p, [durable |-> TRUE, mine |-> TRUE])
    /\ UNCHANGED clientVars

\* An event of the run, or of another run of the session.
Emit(p, e) ==
    /\ e.mine => run = "running"
    /\ Commit(p, e)
    /\ UNCHANGED <<run, clientVars>>

PublishNext(p) == Publish(p) /\ UNCHANGED <<run, clientVars>>

---------------------------------------------------------------------------
(* subscribe_run_events_inner.                                             *)

\* The first critical section reads the run: its status and last_event_seq.
ReadRun(s, after) ==
    /\ watch[s].at = "idle"
    /\ run # "absent"
    /\ watch' = [watch EXCEPT ![s] =
          [at |-> IF run = "running" THEN "liveCheck" ELSE "replay",
           after |-> after, last |-> LastOf(RunDurables),
           boundary |-> LastOf(RunDurables), live |-> FALSE]]
    /\ UNCHANGED <<hubVars, run, bridge, channel, ending, got, told>>

\* is_live_run_running: a run that ended meanwhile may have lost its entry.
LiveCheck(s) ==
    /\ watch[s].at = "liveCheck"
    /\ \/ watch' = [watch EXCEPT ![s].at = "subscribe"]
       \/ run = "over" /\ watch' = [watch EXCEPT ![s].at = "replay"]
    /\ UNCHANGED <<hubVars, run, bridge, channel, ending, got, told>>

\* Mutant: the boundary is what the store said before the subscription.
SubscribeLiveStale(s) ==
    /\ watch[s].at = "subscribe"
    /\ Subscribe(s, TRUE)
    /\ watch' = [watch EXCEPT ![s].at = "replay", ![s].live = TRUE]
    /\ UNCHANGED <<log, pending, hub, run, bridge, channel, ending, got, told>>

SubscribeLive(s) ==
    /\ watch[s].at = "subscribe"
    /\ Subscribe(s, TRUE)
    /\ watch' = [watch EXCEPT ![s].at = "replay", ![s].live = TRUE,
                              ![s].boundary = Latest(watch[s].last)]
    /\ UNCHANGED <<log, pending, hub, run, bridge, channel, ending, got, told>>

\* replay_run_events_until: the durable events of the run behind after, up to
\* the boundary, and at most ReplayCap of them.
Wanted(w) == { n \in RunDurables : w.after < n /\ n <= w.boundary }
Replayed(w) == Ascending(Wanted(w))
Gap(w) == Len(Replayed(w)) > ReplayCap

\* The second critical section, and the answer to the client.
Replay(s) ==
    /\ watch[s].at = "replay"
    /\ watch' = [watch EXCEPT ![s].at = "open", ![s].live = @ /\ ~Gap(watch[s])]
    /\ got' = [got EXCEPT ![s] =
          SubSeq(Replayed(watch[s]), 1, IF Gap(watch[s]) THEN ReplayCap ELSE Len(Replayed(watch[s])))]
    /\ IF Gap(watch[s])
       THEN /\ ending' = [ending EXCEPT ![s] = "historyGap"]
            /\ bridge' = [bridge EXCEPT ![s] = "done"]
            /\ Unsubscribe(s)
       ELSE /\ bridge' = [bridge EXCEPT ![s] = IF watch[s].live THEN "check" ELSE "done"]
            /\ UNCHANGED <<ending, subs>>
    /\ UNCHANGED <<log, pending, hub, run, channel, told>>

---------------------------------------------------------------------------
(* spawn_run_event_delta_bridge.                                           *)

BridgeCheck(s) ==
    /\ bridge[s] = "check"
    /\ bridge' = [bridge EXCEPT ![s] = IF subs[s].overflowed THEN "lag" ELSE "recv"]
    /\ UNCHANGED <<hubVars, run, watch, channel, ending, got, told>>

Passes(s, n) == log[n].mine /\ n > watch[s].boundary

BridgeRecv(s) ==
    /\ bridge[s] = "recv"
    /\ subs[s].queue # <<>>
    /\ LET n == Head(subs[s].queue)
           full == Len(channel[s]) >= ChannelCap
       IN  /\ subs' = [subs EXCEPT ![s].queue = Tail(@),
                                   ![s].overflowed = @ \/ (Passes(s, n) /\ full)]
           /\ channel' = IF Passes(s, n) /\ ~full
                         THEN [channel EXCEPT ![s] = Append(@, n)] ELSE channel
           /\ bridge' = [bridge EXCEPT ![s] =
                 IF Passes(s, n) /\ full THEN "lag" ELSE "check"]
    /\ UNCHANGED <<log, pending, hub, run, watch, ending, got, told>>

\* The client is gone, or the hub dropped the subscription: recv or try_send fails.
BridgeEnds(s) ==
    /\ bridge[s] = "recv" /\ subs[s].queue = <<>> /\ ~subs[s].on
    /\ bridge' = [bridge EXCEPT ![s] = IF subs[s].overflowed THEN "lag" ELSE "done"]
    /\ UNCHANGED <<hubVars, run, watch, channel, ending, got, told>>

\* The last word of the bridge waits for a place in the channel; it fails when
\* the client is gone.
BridgeLag(s) ==
    /\ bridge[s] = "lag"
    /\ watch[s].at = "left" \/ Len(channel[s]) < ChannelCap
    /\ ending' = IF watch[s].at = "left" THEN ending
                 ELSE [ending EXCEPT ![s] = "lagged"]
    /\ bridge' = [bridge EXCEPT ![s] = "done"]
    /\ UNCHANGED <<hubVars, run, watch, channel, got, told>>

---------------------------------------------------------------------------
(* spawn_run_event_forwarder.                                              *)

Shut(s, at) ==
    /\ watch' = [watch EXCEPT ![s].at = at]
    /\ Unsubscribe(s)

Forward(s) ==
    /\ watch[s].at = "open"
    /\ channel[s] # <<>>
    /\ got' = [got EXCEPT ![s] = Append(@, Head(channel[s]))]
    /\ channel' = [channel EXCEPT ![s] = Tail(@)]
    /\ UNCHANGED <<hubVars, run, watch, bridge, ending, told>>

\* An error is the last thing the client hears.
ForwardError(s) ==
    /\ watch[s].at = "open"
    /\ channel[s] = <<>> /\ ending[s] # "none"
    /\ told' = [told EXCEPT ![s] = ending[s]]
    /\ Shut(s, "closed")
    /\ UNCHANGED <<log, pending, hub, run, bridge, channel, ending, got>>

\* The channel is empty and disconnected.
ForwardEnds(s) ==
    /\ watch[s].at = "open"
    /\ channel[s] = <<>> /\ ending[s] = "none" /\ bridge[s] = "done"
    /\ Shut(s, "closed")
    /\ UNCHANGED <<log, pending, hub, run, bridge, channel, ending, got, told>>

\* The client goes away; the forwarder sees that its session is closed.
Disconnect(s) ==
    /\ watch[s].at = "open"
    /\ Shut(s, "left")
    /\ UNCHANGED <<log, pending, hub, run, bridge, channel, ending, got, told>>

---------------------------------------------------------------------------
Handler(s) == LiveCheck(s) \/ SubscribeLive(s) \/ Replay(s)
Bridge(s) == BridgeCheck(s) \/ BridgeRecv(s) \/ BridgeEnds(s) \/ BridgeLag(s)
Forwarder(s) == Forward(s) \/ ForwardError(s) \/ ForwardEnds(s)

SpliceNext ==
    \/ \E p \in Publishers :
         \/ StartRun(p) \/ EndRun(p) \/ PublishNext(p)
         \/ \E e \in Events : Emit(p, e)
    \/ \E s \in Subscribers :
         \/ \E after \in 0..Len(log) : ReadRun(s, after)
         \/ Handler(s) \/ Bridge(s) \/ Forwarder(s) \/ Disconnect(s)

SpliceSpec == SpliceInit /\ [][SpliceNext]_spliceVars

\* Threads are scheduled and the socket takes what the forwarder writes.
FairSplice ==
    /\ SpliceSpec
    /\ \A p \in Publishers : WF_spliceVars(PublishNext(p))
    /\ \A s \in Subscribers :
         WF_spliceVars(Handler(s)) /\ WF_spliceVars(Bridge(s)) /\ WF_spliceVars(Forwarder(s))

---------------------------------------------------------------------------
(* Properties.                                                             *)

\* The threads and the hub pass sequence numbers of committed events around.
SpliceTypeOK ==
    /\ HubTypeOK
    /\ run \in {"absent", "running", "over"}
    /\ watch \in [Subscribers ->
          [at : {"idle", "liveCheck", "subscribe", "replay", "open", "closed", "left"},
           after : Nat, last : Nat, boundary : Nat, live : BOOLEAN]]
    /\ bridge \in [Subscribers -> {"off", "check", "recv", "lag", "done"}]
    /\ channel \in [Subscribers -> Seq(DOMAIN log)]
    /\ got \in [Subscribers -> Seq(DOMAIN log)]
    /\ ending \in [Subscribers -> {"none", "historyGap", "lagged"}]
    /\ told \in [Subscribers -> {"none", "historyGap", "lagged"}]

\* A client never receives an event twice, whichever of the store and the hub it
\* came from and in whatever order the publishers got there.
NoEventTwice == \A s \in Subscribers : IsInjective(got[s] \o channel[s])

\* The events the client has, and the ones in a queue between it and the store.
OnTheWay(s) ==
    ToSet(got[s]) \union ToSet(channel[s]) \union ToSet(subs[s].queue)
      \union UNION { ToSet(pending[p]) : p \in Publishers }

\* While a live stream is open, every durable event of the run behind the
\* client's position is delivered, or still on its way, or the client is going
\* to hear that it lags.
NothingSkipped ==
    \A s \in Subscribers :
      watch[s].at = "open" /\ watch[s].live /\ ~subs[s].overflowed =>
        \A n \in RunDurables : n > watch[s].after => n \in OnTheWay(s)

\* What the client of a run's event stream holds at any time: nothing twice, and no hole.
SpliceSound == NoEventTwice /\ NothingSkipped

\* A client that falls behind is told that it missed something, unless it leaves.
LagIsTold ==
    \A s \in Subscribers :
      subs[s].overflowed ~> told[s] # "none" \/ watch[s].at = "left"

\* Every durable event of the run reaches every client of a live stream, unless
\* the client leaves or is told that it missed something.
EventuallyDelivered ==
    \A s \in Subscribers : \A n \in 1..MaxEvents :
      (watch[s].at = "open" /\ watch[s].live /\ n \in RunDurables /\ n > watch[s].after)
        ~> (n \in ToSet(got[s]) \/ told[s] # "none" \/ watch[s].at = "left")
\* A live stream comes to its end: what was committed arrives, or the client hears why not.
StreamCompletes == LagIsTold /\ EventuallyDelivered
===========================================================================
