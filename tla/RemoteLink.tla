----------------------------- MODULE RemoteLink -----------------------------
(* The websocket of the daemon: its handshake, the frames it reads and answers *)
(* under the request timeout, the bound on its connections, and the task that  *)
(* serves the local and the remote listener together and ends both.            *)
EXTENDS Naturals, Sequences, FiniteSets

CONSTANTS
  Guests,        \* peers that dial the websocket, each once
  Frames,        \* the frames they may send: [kind, version, fields, method, id]
  MaxGuests,     \* max_in_flight_requests
  MaxFrames      \* bound on the frames of a connection

ASSUME SomeRoom == MaxGuests \in Nat \ {0} /\ IsFiniteSet(Guests)
ASSUME FrameKinds == \A f \in Frames : f.kind \in {"text", "binary", "ping", "pong", "close"}

VARIABLES
  guest,      \* guest |-> [life, path, token, armed, answers, took]
  slots,      \* in_flight
  refused,    \* history: the number of live connections at each refusal
  flag,       \* shutdown_requested
  wakers,     \* who has set the flag and still has to wake the accept loop
  knock,      \* a connection waits in the local accept queue
  local,      \* "binding", "top", "accepting", "ok" or "failed"
  remote,     \* "serving", "erring", "ok", "failed" or "panicked"
  served      \* "select", "localFirst", "remoteFirst", "ok", "local", "remote" or "joinPanicked"

guestVars == <<guest, slots, refused>>
serveVars == <<flag, wakers, knock, local, remote, served>>
linkVars == <<guestVars, serveVars>>

NewGuest == [life |-> "none", path |-> "none", token |-> "none", armed |-> TRUE, answers |-> <<>>, took |-> <<>>]
Alive(g) == guest[g].life \in {"handshake", "open"}

-----------------------------------------------------------------------------
(* A connection: counted when it is accepted, before it has said anything.    *)
\* serve_remote_until: one too many is dropped at once.
AcceptGuest(g, path, token) ==
  /\ remote = "serving" /\ ~flag /\ guest[g].life = "none"
  /\ IF slots >= MaxGuests
     THEN /\ refused' = refused \cup {Cardinality({h \in Guests : Alive(h)})}
          /\ guest' = [guest EXCEPT ![g].life = "gone"] /\ UNCHANGED slots
     ELSE /\ slots' = slots + 1 /\ UNCHANGED refused
          /\ guest' = [guest EXCEPT ![g].life = "handshake", ![g].path = path, ![g].token = token]
  /\ UNCHANGED serveVars
\* on_request: the path first, then the bearer token.
OnRequest(g) == IF guest[g].path # "rpc" THEN "notFound" ELSE IF guest[g].token # "right" THEN "unauthorized" ELSE "welcome"
Ends(g) == guest' = [guest EXCEPT ![g] = [NewGuest EXCEPT !.life = "gone"]] /\ slots' = slots - 1
\* handle_remote_connection: the handshake has no deadline; an accepted one polls under the request timeout.
Handshake(g) ==
  /\ guest[g].life = "handshake"
  /\ IF OnRequest(g) = "welcome" THEN guest' = [guest EXCEPT ![g].life = "open"] /\ UNCHANGED slots ELSE Ends(g)
  /\ UNCHANGED <<refused, serveVars>>
\* The peer goes away, closes, or a frame cannot be written.
GuestGone(g) == Alive(g) /\ Ends(g) /\ UNCHANGED <<refused, serveVars>>
\* read_frame: a timeout ends the connection only while the request timeout is armed.
TimesOut(g) == guest[g].life = "open" /\ guest[g].armed /\ Ends(g) /\ UNCHANGED <<refused, serveVars>>

\* decode_message: the first shape, in this order, that has its fields and no other, at version 2.0.
DecodeMessage(f) ==
  LET has(must, may) == must \subseteq f.fields /\ f.fields \subseteq must \cup may IN
  IF f.version # "2.0" THEN "invalid"
  ELSE IF has({"id", "method"}, {"params"}) THEN "request"
  ELSE IF has({"method"}, {"params"}) THEN "notification"
  ELSE IF has({"id", "result"}, {}) THEN "response"
  ELSE IF has({"error"}, {"id"}) THEN "error" ELSE "invalid"
NoAnswer == [kind |-> "none", id |-> 0]
ErrorWithoutId == [kind |-> "error", id |-> 0]
\* process_text_message
ProcessText(f, ok) ==
  CASE DecodeMessage(f) = "request" -> [kind |-> IF ok THEN "response" ELSE "error", id |-> f.id]
    [] DecodeMessage(f) = "notification" -> NoAnswer
    [] OTHER -> ErrorWithoutId
\* process_message: a ping is answered at once, outside of the queue.
ProcessFrame(f, ok) ==
  CASE f.kind = "text" -> ProcessText(f, ok) [] f.kind = "binary" -> ErrorWithoutId [] OTHER -> NoAnswer
\* should_enter_persistent_poll_mode: the request that was asked for, answered with a result.
ShouldPersist(f, answer) ==
  f.kind = "text" /\ DecodeMessage(f) = "request" /\ f.method = "initialize" /\ answer.kind = "response"
\* observe_message: once persistent, always.
ObserveMessage(armed, f, answer) == armed /\ ~ShouldPersist(f, answer)
\* One turn of run_jsonrpc_connection_loop.
TakeFrame(g, f, ok) ==
  LET answer == ProcessFrame(f, ok) IN
  /\ guest[g].life = "open" /\ Len(guest[g].took) < MaxFrames
  /\ guest' = [guest EXCEPT ![g].took = Append(@, <<f, ok>>), ![g].armed = ObserveMessage(@, f, answer),
                            ![g].answers = IF answer = NoAnswer THEN @ ELSE Append(@, answer)]
  /\ UNCHANGED <<slots, refused, serveVars>>

-----------------------------------------------------------------------------
(* serve: two listeners and one flag. The local accept loop sleeps in accept   *)
(* and has to be woken; the remote one polls.                                  *)
\* Whoever ends the daemon sets the flag, and then connects to the local socket.
Flag(who) == flag' = TRUE /\ wakers' = wakers \cup {who}
\* wake_local_server_accept_loop: nobody is woken before the socket is bound.
WakeLocal(who) ==
  /\ who \in wakers /\ wakers' = wakers \ {who} /\ knock' = (knock \/ local \in {"top", "accepting"})
  /\ UNCHANGED <<guestVars, flag, local, remote, served>>
StopRequested == local \in {"top", "accepting"} /\ ~flag /\ Flag("stop") /\ UNCHANGED <<guestVars, knock, local, remote, served>>
\* serve_until: the flag is looked at before and after each accept.
LocalTurn ==
  /\ \/ local = "binding" /\ local' \in {"top", "failed"} /\ UNCHANGED knock
     \/ local = "top" /\ local' = (IF flag THEN "ok" ELSE "accepting") /\ UNCHANGED knock
     \/ local = "accepting" /\ knock /\ knock' = FALSE /\ local' = (IF flag THEN "ok" ELSE "top")
     \/ local = "accepting" /\ local' = "failed" /\ UNCHANGED knock
  /\ UNCHANGED <<guestVars, flag, wakers, remote, served>>
LocalDial == local = "accepting" /\ ~knock /\ knock' = TRUE /\ UNCHANGED <<guestVars, flag, wakers, local, remote, served>>
\* spawn_remote_server: an error of the listener ends the daemon from inside the task; a panic does not.
RemoteTurn ==
  /\ \/ remote = "serving" /\ flag /\ remote' = "ok" /\ UNCHANGED <<flag, wakers>>
     \/ remote = "serving" /\ remote' = "panicked" /\ UNCHANGED <<flag, wakers>>
     \/ remote = "serving" /\ remote' = "erring" /\ Flag("task")
     \/ remote = "erring" /\ "task" \notin wakers /\ remote' = "failed" /\ UNCHANGED <<flag, wakers>>
  /\ UNCHANGED <<guestVars, knock, local, served>>
RemoteOver == remote \in {"ok", "failed", "panicked"}
LocalOver == local \in {"ok", "failed"}
\* Mutant: the local listener is not woken.
SelectUnwoken ==
  /\ served = "select"
  /\ \/ RemoteOver /\ served' = "remoteFirst" /\ flag' = TRUE /\ UNCHANGED wakers
     \/ ~RemoteOver /\ LocalOver /\ served' = "localFirst" /\ flag' = TRUE /\ UNCHANGED wakers
  /\ UNCHANGED <<guestVars, knock, local, remote>>
\* The select of serve, which looks at the remote task first.
SelectFirst ==
  /\ served = "select"
  /\ \/ RemoteOver /\ served' = "remoteFirst" /\ Flag("serve")
     \/ ~RemoteOver /\ LocalOver /\ served' = "localFirst" /\ flag' = TRUE /\ UNCHANGED wakers
  /\ UNCHANGED <<guestVars, knock, local, remote>>
LocalResult == IF local = "failed" THEN "local" ELSE "ok"
\* finalize_with_remote_first
FinalizeRemoteFirst ==
  /\ served = "remoteFirst" /\ "serve" \notin wakers /\ LocalOver
  /\ served' = (CASE remote = "ok" -> LocalResult [] remote = "failed" -> "remote" [] remote = "panicked" -> "joinPanicked")
  /\ UNCHANGED <<guestVars, flag, wakers, knock, local, remote>>
\* The rest of serve: the error of the local listener goes first.
FinalizeLocalFirst ==
  /\ served = "localFirst" /\ RemoteOver
  /\ served' = (IF local = "failed" THEN "local" ELSE CASE remote = "ok" -> "ok" [] remote = "failed" -> "remote" [] remote = "panicked" -> "joinPanicked")
  /\ UNCHANGED <<guestVars, flag, wakers, knock, local, remote>>

-----------------------------------------------------------------------------
LinkInit ==
  /\ guest = [g \in Guests |-> NewGuest] /\ slots = 0 /\ refused = {}
  /\ flag = FALSE /\ wakers = {} /\ knock = FALSE /\ local = "binding" /\ remote = "serving" /\ served = "select"
GuestNext ==
  \E g \in Guests :
    \/ \E path \in {"rpc", "other"}, token \in {"right", "wrong", "none"} : AcceptGuest(g, path, token)
    \/ Handshake(g) \/ GuestGone(g) \/ TimesOut(g)
    \/ \E f \in Frames, ok \in BOOLEAN : TakeFrame(g, f, ok)
ServeNext ==
  \/ StopRequested \/ LocalTurn \/ LocalDial \/ RemoteTurn \/ SelectFirst \/ FinalizeRemoteFirst \/ FinalizeLocalFirst
  \/ \E who \in wakers : WakeLocal(who)
LinkNext == GuestNext \/ ServeNext
LinkSpec == LinkInit /\ [][LinkNext]_linkVars

-----------------------------------------------------------------------------
\* Nothing of a peer is handled that did not show the path and the token.
OnlyWelcome == \A g \in Guests : guest[g].took # <<>> => guest[g].path = "rpc" /\ guest[g].token = "right"
\* Every request is answered once, with its own id and in the order of the requests; every frame
\* that is neither a request nor a notification is answered without an id, and nothing else is.
AnswersMatch ==
  \A g \in Guests :
    LET took == guest[g].took
        answers == guest[g].answers
        text(t) == t[1].kind = "text"
        asks(t) == text(t) /\ t[1].version = "2.0" /\ t[1].fields \in {{"id", "method"}, {"id", "method", "params"}}
        quiet(t) == \/ text(t) /\ t[1].version = "2.0" /\ t[1].fields \in {{"method"}, {"method", "params"}}
                    \/ t[1].kind \in {"ping", "pong", "close"}
    IN \E at \in [DOMAIN answers -> DOMAIN took] :
         /\ \A i, j \in DOMAIN answers : i < j => at[i] < at[j]
         /\ \A n \in DOMAIN took : ~quiet(took[n]) <=> \E i \in DOMAIN answers : at[i] = n
         /\ \A i \in DOMAIN answers : answers[i].id = IF asks(took[at[i]]) THEN took[at[i]][1].id ELSE 0
\* A connection may be idle for ever only after an initialize that succeeded.
IdleAfterInitialize ==
  \A g \in Guests : ~guest[g].armed =>
    \E i \in DOMAIN guest[g].took : guest[g].took[i][1].method = "initialize" /\ guest[g].took[i][2]
\* The slots are those of the live connections, and a peer is refused only when all are taken.
SlotsCounted ==
  /\ slots = Cardinality({g \in Guests : Alive(g)}) /\ slots <= MaxGuests
  /\ refused \subseteq {MaxGuests}
\* When the daemon is told to end and everybody has done his part, the local accept loop is not
\* left asleep, whoever asked and however the remote listener ended.
WokenToStop == flag /\ wakers = {} /\ local = "accepting" => knock
\* serve returns only when both listeners have ended, and reports a failure exactly when one failed.
BothEnd ==
  /\ served \notin {"select", "localFirst", "remoteFirst"} => LocalOver /\ RemoteOver
  /\ served = "ok" => local = "ok" /\ remote = "ok"
  /\ served \in {"local", "remote", "joinPanicked"} => local = "failed" \/ remote \in {"failed", "panicked"}
\* What the websocket and the task that serves guarantee.
RemoteSound == OnlyWelcome /\ AnswersMatch /\ IdleAfterInitialize /\ SlotsCounted /\ WokenToStop /\ BothEnd
=============================================================================
