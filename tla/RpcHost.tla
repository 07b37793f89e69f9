------------------------------ MODULE RpcHost ------------------------------
(***************************************************************************)
(* The JSON-RPC host of the daemon: the accept loop with its limit and its *)
(* shutdown, the loop of a connection, the handlers by what they need and  *)
(* do, the actions deferred until the answer is queued, the bounded queue  *)
(* to the client, and the threads that forward published events into it.   *)
(*                                                                         *)
(* A peer k sends at most MaxLines lines, those in Asked[k], and it        *)
(* subscribes once.  A record is an event that a mutation commits; it is   *)
(* published after the answer.  What a method does to runs and sessions is *)
(* modelled elsewhere.                                                     *)
(***************************************************************************)
EXTENDS Integers, Sequences, FiniteSets, TLC

CONSTANTS Peers, Asked, MaxInFlight, OutboundDepth, FeedDepth, MaxLines, MaxRecords

ASSUME HostAssumption ==
  /\ IsFiniteSet(Peers) /\ MaxInFlight \in Nat
  /\ OutboundDepth \in Nat \ {0} /\ FeedDepth \in Nat \ {0}
  /\ MaxLines \in Nat /\ MaxRecords \in Nat

VARIABLES conn,      \* peer -> its connection: life, initialized, attached, subscribed, forwarding, request timeout armed
          inbox,     \* peer -> the lines it has sent
          sent,      \* peer -> how many lines it has sent
          reply,     \* peer -> the answer its handler has returned, or NoReply
          deferred,  \* peer -> the actions that wait for the answer to be queued
          outbound,  \* peer -> the bounded queue to its writer
          feed,      \* peer -> the queue of its event subscription
          due,       \* peer -> the records published since it subscribed, in order
          seen,      \* peer -> those it has read
          committed, \* how many records are committed
          listener,  \* "accepting", "rejecting" or "returned"
          inFlight,  \* the slots in use of the local and of the websocket listener
          stop, wake \* the shutdown flag, and a wake-up connection in the backlog

hostVars == <<conn, inbox, sent, reply, deferred, outbound, feed, due, seen, committed, listener, inFlight, stop, wake>>

-----------------------------------------------------------------------------
\* The requests: what a connection needs for them.  DaemonRpcRequest::parse knows
\* these and refuses every other method.

OpenRequests == [status |-> "nothing", controlStatus |-> "nothing", diagnosticsSnapshot |-> "initialized"]
WorkspaceRequests == [workspaceOpen |-> "initialized", workspaceList |-> "initialized", workspaceGet |-> "initialized"]
SessionRequests ==
  [initialize |-> "nothing", sessionOpen |-> "initialized", sessionAttach |-> "initialized", sessionList |-> "initialized",
   sessionOverview |-> "initialized", activityPage |-> "attached", agentTurnsPage |-> "attached", sessionGet |-> "attached"]
ApprovalRequests == [approvalList |-> "attached", approvalDecide |-> "attached"]
WorkRequests ==
  [workItemList |-> "initialized", workItemRefresh |-> "initialized", workItemDismiss |-> "initialized",
   workItemTrigger |-> "attached", workflowLoad |-> "initialized", workflowStatus |-> "initialized",
   workflowReload |-> "initialized", workflowValidate |-> "initialized"]
ArtifactRequests ==
  [artifactGet |-> "attached", artifactList |-> "attached", receiptsList |-> "attached",
   receiptsPromote |-> "attached", receiptsQuarantine |-> "attached"]
RunRequests ==
  [runStart |-> "attached", runCompleteWithResult |-> "attached", runResume |-> "attached", runFork |-> "attached",
   runReplayEvents |-> "attached", runSubscribeEvents |-> "attached", runCancel |-> "attached"]
RunReads == [runList |-> "attached", runListNative |-> "attached", runGet |-> "attached", runTimeline |-> "attached", recipesList |-> "initialized"]
RuntimeRequests ==
  [runtimeGet |-> "initialized", profileSelect |-> "initialized", profilePatch |-> "initialized",
   authLogin |-> "initialized", authLogout |-> "initialized", extensionSet |-> "initialized"]
\* Both internal.stop, for a control token, and subscribe.
StreamRequests == [internalStop |-> "initialized", subscribe |-> "attached"]
Needs ==
  OpenRequests @@ WorkspaceRequests @@ SessionRequests @@ ApprovalRequests @@ WorkRequests @@ ArtifactRequests
  @@ RunRequests @@ RunReads @@ RuntimeRequests @@ StreamRequests
\* Those that commit records and leave their publication to after the answer.
Mutations == {"approvalDecide", "workItemTrigger", "receiptsPromote", "receiptsQuarantine",
              "runStart", "runCompleteWithResult", "runCancel"}
\* Lines that are no request: one that does not decode, and a notification.
Lines == DOMAIN Needs \union {"garbage", "notification", "unknownMethod"}

Allowed(k, m) ==
  /\ m \in DOMAIN Needs
  /\ Needs[m] # "nothing" => conn[k].initialized
  /\ Needs[m] = "attached" => conn[k].attached

-----------------------------------------------------------------------------
\* The accept loop and its peers.

Out == [life |-> "out", remote |-> FALSE, initialized |-> FALSE, attached |-> FALSE, subscribed |-> FALSE, forwarding |-> FALSE, armed |-> TRUE]
\* The deferred start of a forwarder; the other deferred actions are records.
Forward == 0
NoReply == [kind |-> "none", record |-> 0]
\* Each listener counts its own connections.
ListenerOf(k) == IF conn[k].remote THEN "remote" ELSE "local"
Slots(k) == inFlight[ListenerOf(k)]
TakesSlot(k, n) == inFlight' = [inFlight EXCEPT ![ListenerOf(k)] = @ + n]
Live == { k \in Peers : conn[k].life \in {"open", "shut", "draining"} }

\* A peer connects, over the local socket or the websocket.
Dial(k, remotely) ==
  /\ conn[k].life = "out" /\ listener # "returned"
  /\ conn' = [conn EXCEPT ![k].life = "waiting", ![k].remote = remotely]
  /\ UNCHANGED <<inbox, sent, reply, deferred, outbound, feed, due, seen, committed, listener, inFlight, stop, wake>>
\* The loop looks at the flag before it accepts and again after.
ListenerReturns ==
  /\ listener = "accepting" /\ stop /\ (wake \/ \E k \in Peers : conn[k].life = "waiting" /\ ~conn[k].remote)
  /\ listener' = "returned" /\ wake' = FALSE
  /\ conn' = [k \in Peers |-> IF conn[k].life = "waiting" THEN [conn[k] EXCEPT !.life = "gone"] ELSE conn[k]]
  /\ UNCHANGED <<inbox, sent, reply, deferred, outbound, feed, due, seen, committed, inFlight, stop>>
\* A wake-up without the flag cannot come: the flag is set first.
Accept(k) ==
  /\ ~conn[k].remote /\ listener = "accepting" /\ ~stop /\ conn[k].life = "waiting"
  /\ IF Slots(k) >= MaxInFlight
     THEN conn' = [conn EXCEPT ![k].life = "over"] /\ listener' = "rejecting" /\ UNCHANGED inFlight
     ELSE conn' = [conn EXCEPT ![k].life = "open"] /\ TakesSlot(k, 1) /\ UNCHANGED listener
  /\ UNCHANGED <<inbox, sent, reply, deferred, outbound, feed, due, seen, committed, stop, wake>>
\* serve_remote_until, whose loop is told to stop with the other one, drops a
\* connection over the limit.
AcceptRemote(k) ==
  /\ conn[k].remote /\ listener # "returned" /\ ~stop /\ conn[k].life = "waiting"
  /\ IF Slots(k) >= MaxInFlight
     THEN conn' = [conn EXCEPT ![k].life = "gone"] /\ UNCHANGED inFlight
     ELSE conn' = [conn EXCEPT ![k].life = "open"] /\ TakesSlot(k, 1)
  /\ UNCHANGED <<inbox, sent, reply, deferred, outbound, feed, due, seen, committed, listener, stop, wake>>
\* Mutant: the flag is set and the accept loop is not woken.
NobodyWakes(m) == stop' = (stop \/ m = "internalStop") /\ UNCHANGED wake
\* internal.stop: the flag, then a connection to the daemon's own socket.
StopsFor(m) == stop' = (stop \/ m = "internalStop") /\ wake' = (wake \/ m = "internalStop")
\* serve: when the websocket listener fails or panics the local one is stopped too.
RemoteListenerFails ==
  /\ ~stop
  /\ StopsFor("internalStop")
  /\ UNCHANGED <<conn, inbox, sent, reply, deferred, outbound, feed, due, seen, committed, listener, inFlight>>
\* reject_overloaded_connection_async waits, in the accept loop and without a
\* timeout, for a line of the peer (which it answers) or for its end.
RejectOverloaded(k) ==
  /\ conn[k].life = "over" /\ listener = "rejecting"
  /\ conn' = [conn EXCEPT ![k].life = "gone"] /\ listener' = "accepting"
  /\ UNCHANGED <<inbox, sent, reply, deferred, outbound, feed, due, seen, committed, inFlight, stop, wake>>

\* A peer writes a line; the loop takes the next one when it is done with the last.
Send(k, m) ==
  /\ conn[k].life = "open" /\ sent[k] < MaxLines /\ inbox[k] = <<>>
  /\ m \in Mutations => committed < MaxRecords
  /\ m = "subscribe" => ~conn[k].subscribed
  /\ inbox' = [inbox EXCEPT ![k] = Append(@, m)] /\ sent' = [sent EXCEPT ![k] = @ + 1]
  /\ UNCHANGED <<conn, reply, deferred, outbound, feed, due, seen, committed, listener, inFlight, stop, wake>>

-----------------------------------------------------------------------------
\* The loop of a connection.

\* Mutant: the record is published by the handler.
PublishesAtOnce(k, m) ==
  IF m \in Mutations
  THEN /\ due' = [j \in Peers |-> IF conn[j].subscribed THEN Append(due[j], committed + 1) ELSE due[j]]
       /\ feed' = [j \in Peers |-> IF conn[j].subscribed THEN Append(feed[j], committed + 1) ELSE feed[j]]
       /\ deferred' = deferred
  ELSE /\ deferred' = [deferred EXCEPT ![k] = IF m = "subscribe" THEN <<Forward>> ELSE <<>>]
       /\ UNCHANGED <<due, feed>>
\* json_deferred_mutation_result and defer_until_response.
Defer(k, m) ==
  /\ deferred' = [deferred EXCEPT ![k] = CASE m \in Mutations -> <<committed + 1>> [] m = "subscribe" -> <<Forward>> [] OTHER -> <<>>]
  /\ UNCHANGED <<due, feed>>

\* process_connection_message and process_jsonrpc_request: the handler succeeds.
HandleLine(k) ==
  /\ conn[k].life = "open" /\ inbox[k] # <<>> /\ reply[k] = NoReply /\ deferred[k] = <<>>
  /\ LET m == Head(inbox[k]) IN
       /\ Allowed(k, m)
       /\ LET c == conn[k] IN
            conn' = [conn EXCEPT ![k] = [c EXCEPT !.initialized = c.initialized \/ m = "initialize", !.armed = c.armed /\ m # "initialize",
                                                  !.attached = (c.attached \/ m = "sessionOpen") /\ m # "initialize",
                                                  !.subscribed = c.subscribed \/ m = "subscribe"]]
       /\ committed' = committed + (IF m \in Mutations THEN 1 ELSE 0)
       /\ reply' = [reply EXCEPT ![k] = [kind |-> "answer", record |-> IF m \in Mutations THEN committed + 1 ELSE 0]]
       /\ Defer(k, m)
       /\ StopsFor(m)
  /\ inbox' = [inbox EXCEPT ![k] = Tail(@)]
  /\ UNCHANGED <<sent, outbound, seen, listener, inFlight>>
\* The line is no request, the connection may not ask for it, or the handler fails
\* or panics: an error, and what it deferred is dropped.  A notification has no answer.
HandleFails(k) ==
  /\ conn[k].life = "open" /\ inbox[k] # <<>> /\ reply[k] = NoReply /\ deferred[k] = <<>>
  /\ reply' = [reply EXCEPT ![k] = IF Head(inbox[k]) = "notification" THEN @ ELSE [kind |-> "error", record |-> 0]]
  /\ inbox' = [inbox EXCEPT ![k] = Tail(@)]
  /\ UNCHANGED <<conn, sent, deferred, outbound, feed, due, seen, committed, listener, inFlight, stop, wake>>

\* A connection ends: its handler and what it deferred go, its subscription is
\* cleaned up, its queues are dropped and the slot is given back.
Gone(k) ==
  /\ conn' = [conn EXCEPT ![k] = [Out EXCEPT !.life = "gone"]]
  /\ TakesSlot(k, -1)
  /\ deferred' = [deferred EXCEPT ![k] = <<>>] /\ reply' = [reply EXCEPT ![k] = NoReply]
  /\ inbox' = [inbox EXCEPT ![k] = <<>>] /\ sent' = [sent EXCEPT ![k] = 0]
  /\ outbound' = [outbound EXCEPT ![k] = <<>>] /\ feed' = [feed EXCEPT ![k] = <<>>]
  /\ due' = [due EXCEPT ![k] = <<>>] /\ seen' = [seen EXCEPT ![k] = <<>>]

\* enqueue_outbound_message, when there is room.
Enqueue(k, message) ==
  /\ Len(outbound[k]) < OutboundDepth
  /\ outbound' = [outbound EXCEPT ![k] = Append(@, message)]

\* The answer is queued.
QueueReply(k) ==
  /\ conn[k].life \in {"open", "shut"} /\ reply[k] # NoReply
  /\ Enqueue(k, reply[k])
  /\ reply' = [reply EXCEPT ![k] = NoReply]
  /\ UNCHANGED <<conn, inbox, sent, deferred, feed, due, seen, committed, listener, inFlight, stop, wake>>
\* There is no room for the answer, or the writer has ended because the peer hung
\* up: the loop ends with an error.  Over the websocket the loop writes the answer
\* itself before it goes on, which may also fail.
ReplyFails(k) ==
  /\ conn[k].life \in {"open", "shut"}
  /\ reply[k] # NoReply \/ (conn[k].remote /\ deferred[k] # <<>>)
  /\ Gone(k)
  /\ UNCHANGED <<committed, listener, stop, wake>>

\* run_after_response_actions: a record is published to every subscription (one
\* whose queue is full is closed), or the forwarder of this connection starts.
RunDeferred(k) ==
  /\ conn[k].life \in {"open", "shut"} /\ reply[k] = NoReply /\ deferred[k] # <<>>
  /\ LET action == Head(deferred[k])
         told == { j \in Peers : conn[j].subscribed } IN
       IF action = Forward
       THEN conn' = [conn EXCEPT ![k].forwarding = TRUE] /\ UNCHANGED <<due, feed>>
       ELSE /\ due' = [j \in Peers |-> IF j \in told THEN Append(due[j], action) ELSE due[j]]
            /\ feed' = [j \in Peers |-> IF j \in told /\ Len(feed[j]) < FeedDepth THEN Append(feed[j], action) ELSE feed[j]]
            /\ conn' = [j \in Peers |-> IF j \in told /\ Len(feed[j]) = FeedDepth /\ conn[j].life = "open"
                                        THEN [conn[j] EXCEPT !.life = "shut"] ELSE conn[j]]
  /\ deferred' = [deferred EXCEPT ![k] = Tail(@)]
  /\ UNCHANGED <<inbox, sent, reply, outbound, seen, committed, listener, inFlight, stop, wake>>

\* spawn_event_forwarder: one event into the queue; without room the session is shut.
ForwardNews(k) ==
  /\ conn[k].life = "open" /\ conn[k].forwarding /\ feed[k] # <<>>
  /\ Enqueue(k, [kind |-> "news", record |-> Head(feed[k])])
  /\ feed' = [feed EXCEPT ![k] = Tail(@)]
  /\ UNCHANGED <<conn, inbox, sent, reply, deferred, due, seen, committed, listener, inFlight, stop, wake>>
ForwarderOverflows(k) ==
  /\ conn[k].life = "open" /\ conn[k].forwarding /\ feed[k] # <<>> /\ Len(outbound[k]) = OutboundDepth
  /\ conn' = [conn EXCEPT ![k].life = "shut"]
  /\ UNCHANGED <<inbox, sent, reply, deferred, outbound, feed, due, seen, committed, listener, inFlight, stop, wake>>

\* The loop sees that the session is shut, between two lines, and then waits for the
\* writer to write what is queued; over the websocket the loop writes itself.
LoopEnds(k) ==
  /\ conn[k].life = "shut" /\ reply[k] = NoReply /\ deferred[k] = <<>>
  /\ \/ (conn[k].remote \/ outbound[k] = <<>>) /\ Gone(k)
     \/ /\ ~conn[k].remote /\ outbound[k] # <<>>
        /\ conn' = [conn EXCEPT ![k].life = "draining"]
        /\ UNCHANGED <<inFlight, deferred, reply, inbox, sent, outbound, feed, due, seen>>
  /\ UNCHANGED <<committed, listener, stop, wake>>
WriterDone(k) ==
  /\ conn[k].life = "draining" /\ outbound[k] = <<>>
  /\ Gone(k)
  /\ UNCHANGED <<committed, listener, stop, wake>>
\* The request timeout, which holds until initialize was answered.
RequestTimeout(k) ==
  /\ conn[k].life = "open" /\ conn[k].armed /\ inbox[k] = <<>> /\ reply[k] = NoReply /\ deferred[k] = <<>>
  /\ Gone(k)
  /\ UNCHANGED <<committed, listener, stop, wake>>

\* The peer reads one message, or goes away.
ReadMessage(k) ==
  /\ outbound[k] # <<>> /\ conn[k].life \in {"open", "shut", "draining"}
  /\ outbound' = [outbound EXCEPT ![k] = Tail(@)]
  /\ seen' = IF Head(outbound[k]).kind = "news" THEN [seen EXCEPT ![k] = Append(@, Head(outbound[k]).record)] ELSE seen
  /\ UNCHANGED <<conn, inbox, sent, reply, deferred, feed, due, committed, listener, inFlight, stop, wake>>
HangUp(k) ==
  /\ k \in Live /\ reply[k] = NoReply /\ deferred[k] = <<>>
  /\ Gone(k)
  /\ UNCHANGED <<committed, listener, stop, wake>>

HostInit ==
  /\ conn = [k \in Peers |-> Out] /\ inbox = [k \in Peers |-> <<>>] /\ sent = [k \in Peers |-> 0]
  /\ reply = [k \in Peers |-> NoReply] /\ deferred = [k \in Peers |-> <<>>]
  /\ outbound = [k \in Peers |-> <<>>] /\ feed = [k \in Peers |-> <<>>]
  /\ due = [k \in Peers |-> <<>>] /\ seen = [k \in Peers |-> <<>>]
  /\ committed = 0 /\ listener = "accepting" /\ inFlight = [local |-> 0, remote |-> 0] /\ stop = FALSE /\ wake = FALSE

HostNext ==
  \/ ListenerReturns \/ RemoteListenerFails
  \/ \E k \in Peers :
       \/ (\E remotely \in BOOLEAN : Dial(k, remotely)) \/ Accept(k) \/ AcceptRemote(k) \/ RejectOverloaded(k) \/ (\E m \in Asked[k] : Send(k, m))
       \/ HandleLine(k) \/ HandleFails(k) \/ QueueReply(k) \/ ReplyFails(k) \/ RunDeferred(k)
       \/ ForwardNews(k) \/ ForwarderOverflows(k) \/ LoopEnds(k) \/ WriterDone(k) \/ RequestTimeout(k)
       \/ ReadMessage(k) \/ HangUp(k)

\* The accept loop is a task of its own.
HostFairness == WF_hostVars(ListenerReturns)
HostSpec == HostInit /\ [][HostNext]_hostVars /\ HostFairness

-----------------------------------------------------------------------------
\* Properties.

\* `at` lists the places of the news in a queue, in their order.
NewsPlaces(queue, n, at) ==
  /\ \A i, j \in 1..n : i < j => at[i] < at[j]
  /\ \A p \in DOMAIN queue : queue[p].kind = "news" <=> \E i \in 1..n : at[i] = p
\* An open connection that has subscribed misses nothing: what its client has read,
\* what is queued for it and what its forwarder holds is what was published since.  A
\* client too slow for that loses the connection, never an event.
OpenMissesNothing ==
  \A k \in Peers : conn[k].life = "open" /\ conn[k].subscribed =>
    \E n \in 0..Len(outbound[k]) : \E at \in [1..n -> DOMAIN outbound[k]] :
      /\ NewsPlaces(outbound[k], n, at)
      /\ due[k] = seen[k] \o [i \in 1..n |-> outbound[k][at[i]].record] \o feed[k]
\* A client has the answer to its own request before any news of what it did.
AnswerBeforeNews ==
  \A k \in Peers : \A i \in DOMAIN outbound[k] :
    outbound[k][i].kind = "news" =>
      /\ outbound[k][i].record # reply[k].record
      /\ \A j \in DOMAIN outbound[k] : j > i /\ outbound[k][j].kind = "answer" => outbound[k][j].record # outbound[k][i].record
\* A slot is in use for every connection that lives, and for no other.
SlotsReturned == \A kind \in {"local", "remote"} : inFlight[kind] = Cardinality({ k \in Live : ListenerOf(k) = kind })
ConnectionsSound == OpenMissesNothing /\ AnswerBeforeNews /\ SlotsReturned

\* A daemon that was told to stop stops listening.  Only a connection over the limit
\* whose peer neither says anything nor hangs up can hold it up: the accept loop waits
\* for that peer without a timeout.
StopReturns == stop ~> listener \in {"returned", "rejecting"}
=============================================================================
