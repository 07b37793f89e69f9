--------------------------- MODULE SessionStream ---------------------------
(***************************************************************************)
(* The event stream of a session in the desktop: a SessionStreamConnection *)
(* (apps/desktop/packages/main/src/session-stream-connection.ts) with one  *)
(* port of one kind, over a connection that may break, to the daemon's     *)
(* subscribe handler and event forwarder (ta-orchestrator/src/host/rpc/).  *)
(*                                                                         *)
(* The desktop runs one callback at a time.  What a socket chunk holds is  *)
(* handled before any awaiting function goes on, so notifications may be   *)
(* handled between the answer to a request and the code that awaits it.    *)
(* A subscription is the number of the connection it was made on.          *)
(***************************************************************************)
EXTENDS EventHub

CONSTANT MaxLosses   \* bound: how often the connection breaks

ASSUME StreamAssumption == MaxLosses \in Nat /\ Subscribers = 1..(MaxLosses + 1)

VARIABLES
    link,    \* the connection: its number, and what is under way on it
    wire,    \* messages from the daemon that the desktop has not handled
    answer,  \* the answer to daemon.subscribe that an await has yet to see
    cursor,  \* latestCursor; 0 stands for null
    port,    \* the port: its state, its cursor and what waits to be flushed
    posted,  \* the events the port received
    gapTold, \* the port received a historyGap
    opened   \* the events that were committed when the port opened

desktopVars == <<link, wire, answer, cursor, port, posted, gapTold, opened>>
streamVars == <<hubVars, desktopVars>>

NoAnswer == [type |-> "none", n |-> 0, gap |-> FALSE]
EventMsg(n) == [type |-> "event", n |-> n, gap |-> FALSE]

StreamInit ==
    /\ HubInit
    /\ link = [no |-> 1, at |-> "down", persisted |-> 0]
    /\ wire = <<>>
    /\ answer = NoAnswer
    /\ cursor = 0
    /\ port = [at |-> "none", after |-> 0, buffer |-> <<>>]
    /\ posted = <<>>
    /\ gapTold = FALSE
    /\ opened = 0

SessionCommits(p, e) == Commit(p, e) /\ UNCHANGED desktopVars
SessionPublishes(p) == Publish(p) /\ UNCHANGED desktopVars

---------------------------------------------------------------------------
(* The desktop.                                                            *)

\* The renderer reads a page of the session and asks for the events behind it.
AttachPort ==
    /\ port.at = "none"
    /\ port' = [at |-> "pending", after |-> LastOf(Durables), buffer |-> <<>>]
    /\ UNCHANGED <<hubVars, link, wire, answer, cursor, posted, gapTold, opened>>

\* noteLatestCursor
Noted(n) == Larger(cursor, n)

\* ensureConnected, for a new port or for restoreSubscriptions: initialize, and
\* attach, whose answer holds the daemon's last durable sequence.
Connect ==
    /\ link.at = "down" /\ port.at # "none"
    /\ link' = [link EXCEPT !.at = "attached"]
    /\ cursor' = Noted(LastOf(Durables))
    /\ UNCHANGED <<hubVars, wire, answer, port, posted, gapTold, opened>>

\* requestDaemonEventSubscription: a new port brings its own cursor, a restored
\* subscription starts at latestCursor.
After == IF port.at = "pending" THEN port.after ELSE cursor

\* The await on daemon.subscribe goes on.  A new port is told the status, is
\* opened and gets what was buffered for it; an open one hears of a gap.
Continue ==
    /\ answer.type = "subscribed"
    /\ answer' = NoAnswer
    /\ cursor' = Noted(answer.n)
    /\ link' = [link EXCEPT !.at = "up"]
    /\ IF port.at = "pending"
       THEN /\ port' = [port EXCEPT !.at = "open", !.buffer = <<>>]
            /\ posted' = IF answer.gap THEN posted ELSE posted \o port.buffer
            /\ opened' = Len(log)
       ELSE UNCHANGED <<port, posted, opened>>
    /\ gapTold' = (gapTold \/ answer.gap)
    /\ UNCHANGED <<hubVars, wire>>

\* Mutant: an event that is not new is dispatched all the same.
IsNewAlways(n) == TRUE

\* recordEvent
IsNew(n) == n > cursor

\* handleDaemonEventEnvelope: the port, or the buffer of a pending one, gets a
\* new event that lies behind the port's cursor.
HandleEvent ==
    /\ wire # <<>> /\ Head(wire).type = "event"
    /\ wire' = Tail(wire)
    /\ LET n == Head(wire).n
           take == IsNew(n) /\ n > port.after
       IN  /\ cursor' = IF IsNew(n) THEN Noted(n) ELSE cursor
           /\ posted' = IF take /\ port.at = "open" THEN Append(posted, n) ELSE posted
           /\ port' = IF take /\ port.at = "pending"
                      THEN [port EXCEPT !.buffer = Append(@, n)] ELSE port
    /\ UNCHANGED <<hubVars, link, answer, gapTold, opened>>

HandleAnswer ==
    /\ wire # <<>> /\ Head(wire).type = "subscribed"
    /\ wire' = Tail(wire)
    /\ answer' = Head(wire)
    /\ UNCHANGED <<hubVars, link, cursor, port, posted, gapTold, opened>>

\* The transport ends.  An open port's subscription is restored later; the
\* attachment of a pending port fails.
Terminated ==
    /\ link.no <= MaxLosses
    /\ link' = [no |-> link.no + 1, at |-> "down", persisted |-> 0]
    /\ wire' = <<>>
    /\ answer' = NoAnswer
    /\ port' = IF port.at = "pending" THEN [port EXCEPT !.at = "none", !.buffer = <<>>] ELSE port
    /\ Unsubscribe(link.no)
    /\ UNCHANGED <<log, pending, hub, cursor, posted, gapTold, opened>>

Lose == link.at # "down" /\ Terminated

---------------------------------------------------------------------------
(* The daemon's side of the connection.                                    *)

\* DaemonRpcRequest::Subscribe reads the last durable sequence from the store ...
ReadLatest ==
    /\ link.at = "attached"
    /\ link' = [link EXCEPT !.at = "asked", !.persisted = LastOf(Durables)]
    /\ UNCHANGED <<hubVars, wire, answer, cursor, port, posted, gapTold, opened>>

\* ... and subscribes.  The answer goes out before what the backlog replays and
\* before what the forwarder sends.
SubscribeStream ==
    /\ link.at = "asked"
    /\ Subscribe(link.no, FALSE)
    /\ LET gap == After # 0 /\ HasGap(link.persisted, After)
           replay == IF After = 0 \/ gap \/ After = Latest(link.persisted) THEN <<>>
                     ELSE EventsAfter(After, FALSE)
           n == IF gap THEN link.persisted ELSE Latest(link.persisted)
       IN  wire' = <<[type |-> "subscribed", n |-> n, gap |-> gap]>>
                   \o [i \in DOMAIN replay |-> EventMsg(replay[i])]
    /\ link' = [link EXCEPT !.at = "subscribed"]
    /\ UNCHANGED <<log, pending, hub, answer, cursor, port, posted, gapTold, opened>>

\* spawn_event_forwarder
ForwardEvent ==
    /\ ~subs[link.no].overflowed
    /\ subs[link.no].queue # <<>>
    /\ wire' = Append(wire, EventMsg(Head(subs[link.no].queue)))
    /\ subs' = [subs EXCEPT ![link.no].queue = Tail(@)]
    /\ UNCHANGED <<log, pending, hub, link, answer, cursor, port, posted, gapTold, opened>>

\* close_session_on_subscriber_overflow
CloseOverflowed == subs[link.no].overflowed /\ Terminated

---------------------------------------------------------------------------
StreamNext ==
    \/ \E p \in Publishers : SessionPublishes(p) \/ \E e \in Events : SessionCommits(p, e)
    \/ AttachPort \/ Connect \/ Continue \/ HandleEvent \/ HandleAnswer \/ Lose
    \/ ReadLatest \/ SubscribeStream \/ ForwardEvent \/ CloseOverflowed

StreamSpec == StreamInit /\ [][StreamNext]_streamVars

---------------------------------------------------------------------------
(* Properties.                                                             *)

\* The desktop handles sequence numbers of committed events only.
StreamTypeOK ==
    /\ HubTypeOK
    /\ link \in [no : Subscribers, persisted : Nat,
                 at : {"down", "attached", "asked", "subscribed", "up"}]
    /\ \A i \in DOMAIN wire : wire[i].n \in 0..Len(log)
    /\ cursor \in 0..Len(log)
    /\ port.at \in {"none", "pending", "open"}
    /\ posted \in Seq(DOMAIN log)

\* The renderer sees the events of a session in the order of their sequence
\* numbers and none twice: over replays of the backlog, reconnects and
\* publishers that overtake each other.
PostedInOrder ==
    \A i, j \in DOMAIN posted : i < j => posted[i] < posted[j]

\* Nothing is under way between the store and the port.
Quiet ==
    /\ link.at = "up" /\ port.at = "open"
    /\ wire = <<>> /\ subs[link.no].on /\ subs[link.no].queue = <<>>
    /\ \A p \in Publishers : pending[p] = <<>>

Missed(S) == \E n \in S : log[n].mine /\ n \notin ToSet(posted)

\* A port that is open when a durable event is committed receives it, or is told
\* of a gap.
OpenPortMissesNothing ==
    Quiet /\ ~gapTold => ~Missed({ n \in Durables : n > opened })

\* A port on a connection that has not broken misses a durable event only if a
\* later event was published, and reached the port, before it: overflow and
\* eviction never cost it an event in silence.
MissesOnlyOvertaken ==
    Quiet /\ ~gapTold /\ link.no = 1 =>
      ~Missed({ n \in Durables : n > opened /\ \A m \in ToSet(posted) : m < n })
\* What the renderer has of a session's stream at any time.
PortSound == PostedInOrder /\ MissesOnlyOvertaken
===========================================================================
