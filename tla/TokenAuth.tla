------------------------------ MODULE TokenAuth ------------------------------
(* Subscription sign-in: the token manager (ta-auth-openai), which refreshes a  *)
(* rotating refresh token for many concurrent turns, the login with its callback*)
(* worker, the logout, and the profile state that the desktop shows.  A refresh *)
(* token is a number: the authorization server gives a new one with every       *)
(* refresh and refuses the old one from then on.                                *)
EXTENDS Integers, Sequences, FiniteSets, Functions

CONSTANTS
  MaxCallers,     \* turns that need a bearer token
  MaxConsecutiveFailures,   \* RefreshPolicy::max_consecutive_failures
  EventDepth,     \* capacity of the lifecycle broadcast (32)
  MaxLogins,      \* bound on login calls
  MaxStarted,     \* bound on the calls of all kinds
  MaxTokens       \* bound on the tokens the server gives out

ASSUME AuthBounds == MaxCallers \in Nat /\ MaxLogins \in Nat /\ EventDepth \in Nat

VARIABLES
  cred,       \* the credential store: [rt, fresh], rt = 0 without credentials
  tokens,     \* the server: [good |-> live refresh tokens, last |-> newest]
  caller,     \* per caller: pc, force, held (the token it sends), got (the answer)
  lockQueue,  \* refresh_locks: the head holds the mutex, which is fair
  failures,   \* failure_counts
  profile,    \* ProfileRuntimeState: [cred, pending, reauth]
  lifecycle,  \* events the listener has not applied
  logins,     \* per login call: [call, took, worker, cancelled]
  slot,       \* pending_login: the login whose worker may be cancelled, or 0
  logout,     \* [pc, took, n, beside |-> a login call ran beside it]
  loader,     \* the thread that reads the credentials at start
  strayed,    \* history: a logout failed, or two login calls overlapped
  rotated,    \* history: tokens whose successor was stored
  signedOut   \* history: a logout that nothing in flight can undo

authVars == <<cred, tokens, caller, lockQueue, failures, profile, lifecycle, logins, slot, logout, loader, strayed, rotated, signedOut>>

NoCred == [rt |-> 0, fresh |-> FALSE]
Logins == 1 .. MaxLogins
Callers == 1 .. MaxCallers
\* The calls so far.
Started == FoldFunction(LAMBDA r, n : n + r.n, 0, caller) + Cardinality({l \in Logins : logins[l].call # "none"}) + logout.n
Live == {"waiting", "exchanging", "persisting", "emitting", "recording", "failing"}

-----------------------------------------------------------------------------
(* The profile, and the events that change it as well.                        *)
RecordConnected(p) == [cred |-> "connected", pending |-> FALSE, reauth |-> FALSE]
RecordLoggedOut(p) == [cred |-> "out", pending |-> FALSE, reauth |-> FALSE]
RecordNeedsReauth(p) == [p EXCEPT !.pending = FALSE, !.reauth = TRUE]
RecordLoginFailed(p) == [p EXCEPT !.pending = FALSE]
\* record_refresh_error, and apply_event for the event of the same name.
Recorded(what, p) ==
  CASE what = "connected" -> RecordConnected(p)
    [] what = "out" -> RecordLoggedOut(p)
    [] what = "reauth" -> RecordNeedsReauth(p)
    [] what = "loginFailed" -> RecordLoginFailed(p)
    [] what = "failed" -> p
\* A full broadcast drops its oldest event; the listener goes on behind the gap.
Emit(list) ==
  lifecycle' = LET all == lifecycle \o list IN SubSeq(all, IF Len(all) > EventDepth THEN Len(all) - EventDepth + 1 ELSE 1, Len(all))
ApplyEvent ==
  /\ lifecycle # <<>>
  /\ profile' = Recorded(Head(lifecycle), profile) /\ lifecycle' = Tail(lifecycle)
  /\ UNCHANGED <<cred, tokens, caller, lockQueue, failures, logins, slot, logout, loader, strayed, rotated, signedOut>>

\* initialize_profile_state: a thread reads the store, and what it read counts only
\* while nothing else has been recorded.
LoaderReads ==
  /\ loader = "start" /\ \E got \in {IF cred = NoCred THEN "out" ELSE "connected", "unavailable"} : loader' = got
  /\ UNCHANGED <<cred, tokens, caller, lockQueue, failures, profile, lifecycle, logins, slot, logout, strayed, rotated, signedOut>>
RecordInitialCredentials ==
  /\ loader \in {"out", "connected", "unavailable"} /\ loader' = "done"
  /\ profile' = IF profile.cred = "loading" THEN [profile EXCEPT !.cred = loader] ELSE profile
  /\ UNCHANGED <<cred, tokens, caller, lockQueue, failures, lifecycle, logins, slot, logout, strayed, rotated, signedOut>>

-----------------------------------------------------------------------------
(* ensure_fresh and force_refresh.                                            *)

\* The access token comes into the window before its end.
TokenAges ==
  /\ cred.fresh /\ cred' = [cred EXCEPT !.fresh = FALSE]
  /\ UNCHANGED <<tokens, caller, lockQueue, failures, profile, lifecycle, logins, slot, logout, loader, strayed, rotated, signedOut>>

\* access_token_from_credentials, NoCredentials or another error: what access_token
\* records when the manager returns.
Begun(c) == IF caller[c].pc = "idle" THEN 1 ELSE 0
Returns(c, what) == caller' = [caller EXCEPT ![c].pc = "returning", ![c].got = what, ![c].n = @ + Begun(c)]
\* The callers are alike: they ask for the first time in order.
MayAsk(c) == Started < MaxStarted /\ \A k \in 1 .. c - 1 : caller[k].n > 0
EnsureFresh(c) ==
  /\ caller[c].pc = "idle" /\ MayAsk(c)
  /\ CASE cred = NoCred -> Returns(c, "out") /\ UNCHANGED lockQueue
       [] cred.fresh -> Returns(c, "connected") /\ UNCHANGED lockQueue
       [] OTHER -> /\ caller' = [caller EXCEPT ![c].pc = "locking", ![c].force = FALSE, ![c].held = cred.rt, ![c].n = @ + 1]
                   /\ lockQueue' = Append(lockQueue, c)
  /\ UNCHANGED <<cred, tokens, failures, profile, lifecycle, logins, slot, logout, loader, strayed, rotated, signedOut>>
\* After a 401 of the model endpoint, whatever the age of the token.
ForceRefresh(c) ==
  /\ caller[c].pc = "idle" /\ MayAsk(c)
  /\ caller' = [caller EXCEPT ![c].pc = "locking", ![c].force = TRUE, ![c].held = cred.rt, ![c].n = @ + 1]
  /\ lockQueue' = Append(lockQueue, c)
  /\ UNCHANGED <<cred, tokens, failures, profile, lifecycle, logins, slot, logout, loader, strayed, rotated, signedOut>>

Release(c) == lockQueue' = Tail(lockQueue)
Sends(c, rt) == caller' = [caller EXCEPT ![c].pc = "sent", ![c].held = rt] /\ UNCHANGED lockQueue
\* Mutant: under the lock, the credentials read before it are used.
LockedStale(c) ==
  /\ caller[c].pc = "locking" /\ lockQueue[1] = c
  /\ Sends(c, caller[c].held)
  /\ UNCHANGED <<cred, tokens, failures, profile, lifecycle, logins, slot, logout, loader, strayed, rotated, signedOut>>
\* Under the lock the credentials are read again: another call may have refreshed them.
Locked(c) ==
  /\ caller[c].pc = "locking" /\ lockQueue[1] = c
  /\ CASE cred = NoCred -> Returns(c, "out") /\ Release(c)
       [] cred.fresh /\ ~caller[c].force -> Returns(c, "connected") /\ Release(c)
       [] OTHER -> Sends(c, cred.rt)
  /\ UNCHANGED <<cred, tokens, failures, profile, lifecycle, logins, slot, logout, loader, strayed, rotated, signedOut>>

\* The token endpoint: a live token is rotated, and the answer may be lost on the way
\* back; a spent or revoked one is refused with 401 invalid_grant.
ServerRefreshes(c) ==
  /\ caller[c].pc = "sent" /\ tokens.last < MaxTokens
  /\ \/ /\ caller[c].held \in tokens.good
        /\ tokens' = [good |-> (tokens.good \ {caller[c].held}) \union {tokens.last + 1}, last |-> tokens.last + 1]
        /\ \E got \in {"ok", "network"} : caller' = [caller EXCEPT ![c].pc = "answered", ![c].got = got, ![c].new = tokens.last + 1]
     \/ /\ caller[c].held \notin tokens.good
        /\ caller' = [caller EXCEPT ![c].pc = "answered", ![c].got = "revoked"] /\ UNCHANGED tokens
  /\ UNCHANGED <<cred, lockQueue, failures, profile, lifecycle, logins, slot, logout, loader, strayed, rotated, signedOut>>
\* No connection, a 5xx or an answer that cannot be read: the token was not rotated.
ServerUnreachable(c) ==
  /\ caller[c].pc = "sent"
  /\ caller' = [caller EXCEPT ![c].pc = "answered", ![c].got = "network"]
  /\ UNCHANGED <<cred, tokens, lockQueue, failures, profile, lifecycle, logins, slot, logout, loader, strayed, rotated, signedOut>>

\* refresh_with_credentials, the three arms.
RefreshStored(c) ==
  /\ caller[c].pc = "answered" /\ caller[c].got = "ok"
  /\ cred' = [rt |-> caller[c].new, fresh |-> TRUE] /\ rotated' = rotated \union {caller[c].held}
  /\ failures' = 0 /\ Emit(<<"connected">>)
  /\ Returns(c, "connected") /\ Release(c)
  /\ UNCHANGED <<tokens, profile, logins, slot, logout, loader, strayed, signedOut>>
\* Nothing tells when the new token ends (no expires_in, and the old account info), or
\* the store refuses: the error leaves the spent token where it was.
RefreshNotKept(c) ==
  /\ caller[c].pc = "answered" /\ caller[c].got = "ok"
  /\ Returns(c, "failed") /\ Release(c)
  /\ UNCHANGED <<cred, tokens, failures, profile, lifecycle, logins, slot, logout, loader, strayed, rotated, signedOut>>
RefreshRevoked(c) ==
  /\ caller[c].pc = "answered" /\ caller[c].got = "revoked"
  /\ \/ cred' = NoCred /\ failures' = 0 /\ Emit(<<"reauth">>) /\ Returns(c, "reauth")
     \/ Returns(c, "failed") /\ UNCHANGED <<cred, failures, lifecycle>>
  /\ Release(c)
  /\ UNCHANGED <<tokens, profile, logins, slot, logout, loader, strayed, rotated, signedOut>>
RefreshFails(c) ==
  /\ caller[c].pc = "answered" /\ caller[c].got = "network"
  /\ failures' = IF failures < MaxConsecutiveFailures THEN failures + 1 ELSE failures
  /\ IF failures' >= MaxConsecutiveFailures THEN Emit(<<"failed", "reauth">>) /\ Returns(c, "reauth")
     ELSE Emit(<<"failed">>) /\ Returns(c, "failed")
  /\ Release(c)
  /\ UNCHANGED <<cred, tokens, profile, logins, slot, logout, loader, strayed, rotated, signedOut>>
\* access_token: the profile is written after the lock is free.
AccessToken(c) ==
  /\ caller[c].pc = "returning"
  /\ profile' = Recorded(caller[c].got, profile)
  /\ caller' = [caller EXCEPT ![c] = [pc |-> "idle", force |-> FALSE, held |-> 0, got |-> "none", new |-> 0, n |-> caller[c].n]]
  /\ UNCHANGED <<cred, tokens, lockQueue, failures, lifecycle, logins, slot, logout, loader, strayed, rotated, signedOut>>

-----------------------------------------------------------------------------
(* login: the call, and the worker that waits for the browser.                *)

\* PendingLoginTask::cancel and drop: the worker is told.
CancelWorker(w) == IF w = 0 THEN logins ELSE [logins EXCEPT ![w].cancelled = TRUE]
\* The wait for a cancelled worker is over when it ended, or after 250 ms; a worker
\* inside a store call cannot be aborted and may outlive it.
WaitOver(w) == w # 0 => logins[w].worker \notin Live \ {"persisting"}
\* A login call is under way.
Calling == \E l \in Logins : logins[l].call \in {"cancelling", "starting", "replacing"}
Others == <<cred, tokens, caller, lockQueue, failures, lifecycle, loader, strayed, rotated>>

Login(l) ==
  /\ logins[l].call = "none" /\ Started < MaxStarted /\ \A k \in 1 .. l - 1 : logins[k].call # "none"
  /\ logins' = [CancelWorker(slot) EXCEPT ![l].call = "cancelling", ![l].took = slot]
  /\ slot' = 0 /\ signedOut' = FALSE /\ logout' = [logout EXCEPT !.beside = TRUE]
  /\ strayed' = (strayed \/ Calling)
  /\ UNCHANGED <<cred, tokens, caller, lockQueue, failures, lifecycle, loader, rotated, profile>>
RecordPendingLogin(l) ==
  /\ logins[l].call = "cancelling" /\ WaitOver(logins[l].took)
  /\ logins' = [logins EXCEPT ![l].call = "starting"] /\ profile' = [profile EXCEPT !.pending = TRUE]
  /\ UNCHANGED <<Others, slot, logout, signedOut>>
\* No callback port is free, or the configuration is refused.
LoginFails(l) ==
  /\ logins[l].call = "starting"
  /\ logins' = [logins EXCEPT ![l].call = "done"] /\ profile' = RecordLoginFailed(profile)
  /\ UNCHANGED <<Others, slot, logout, signedOut>>
SpawnCompletionWorker(l) ==
  /\ logins[l].call = "starting"
  /\ logins' = [CancelWorker(slot) EXCEPT ![l].call = "replacing", ![l].took = slot, ![l].worker = "waiting"]
  /\ slot' = 0
  /\ UNCHANGED <<Others, profile, logout, signedOut>>
\* Whatever was put into the slot meanwhile is dropped, which cancels it.
ReplacePendingLogin(l) ==
  /\ logins[l].call = "replacing" /\ WaitOver(logins[l].took)
  /\ logins' = [CancelWorker(slot) EXCEPT ![l].call = "done"] /\ slot' = l
  /\ UNCHANGED <<Others, profile, logout, signedOut>>

Moves(l, pc) == logins' = [logins EXCEPT ![l].worker = pc]
\* handle_connection and parse_callback_query: a request that is no GET of the callback
\* path is answered and the server waits on; the state is compared before the error or
\* the code is looked at, and what does not bring a code ends the login.
CallbackRequests == {"elsewhere", "otherState", "denied", "noCode", "code"}
CallbackOutcome(request) == CASE request = "elsewhere" -> "waiting" [] request = "code" -> "exchanging" [] OTHER -> "failing"
AwaitCode(l) ==
  /\ logins[l].worker = "waiting" /\ ~logins[l].cancelled
  /\ \E request \in CallbackRequests : Moves(l, CallbackOutcome(request))
  /\ UNCHANGED <<Others, profile, slot, logout, signedOut>>
CallbackTimeout(l) ==
  /\ logins[l].worker = "waiting" /\ ~logins[l].cancelled /\ Moves(l, "failing")
  /\ UNCHANGED <<Others, profile, slot, logout, signedOut>>
\* exchange_code: the code for tokens, then the id token, if there is one, for a platform
\* token; an account without an organization goes on without that one.
ApiTokenRefused(answer) == answer \notin {"token", "noOrganization"}
ExchangeOutcome(tokenAnswer, hasIdToken, apiAnswer) ==
  IF tokenAnswer # "tokens" \/ (hasIdToken /\ ApiTokenRefused(apiAnswer)) THEN "failing" ELSE "persisting"
ExchangeCode(l) ==
  /\ logins[l].worker = "exchanging" /\ ~logins[l].cancelled
  /\ \E tokenAnswer \in {"tokens", "refused", "noRefreshToken"}, hasIdToken \in BOOLEAN, apiAnswer \in {"token", "noOrganization", "refused"} :
       Moves(l, ExchangeOutcome(tokenAnswer, hasIdToken, apiAnswer))
  /\ UNCHANGED <<Others, profile, slot, logout, signedOut>>
\* Cancelled, or aborted at an await.
WorkerStops(l) ==
  /\ logins[l].worker \in {"waiting", "exchanging", "emitting"} /\ logins[l].cancelled
  /\ Moves(l, "dead")
  /\ UNCHANGED <<Others, profile, slot, logout, signedOut>>
StoreLoginCredentials(l) ==
  /\ logins[l].worker = "persisting"
  /\ \/ /\ tokens.last < MaxTokens
        /\ tokens' = [good |-> tokens.good \union {tokens.last + 1}, last |-> tokens.last + 1]
        /\ cred' = [rt |-> tokens.last + 1, fresh |-> TRUE] /\ Moves(l, "emitting")
     \/ Moves(l, "failing") /\ UNCHANGED <<cred, tokens>>
  /\ UNCHANGED <<caller, lockQueue, failures, profile, lifecycle, slot, logout, loader, strayed, rotated, signedOut>>
LoginEmits(l) ==
  /\ logins[l].worker = "emitting"
  /\ failures' = 0 /\ Emit(<<"connected">>) /\ Moves(l, "recording")
  /\ UNCHANGED <<cred, tokens, caller, lockQueue, profile, slot, logout, loader, strayed, rotated, signedOut>>
WorkerConnected(l) ==
  /\ logins[l].worker = "recording" /\ Moves(l, "dead") /\ profile' = RecordConnected(profile)
  /\ UNCHANGED <<Others, slot, logout, signedOut>>
RecordLoginCompletionFailed(l) ==
  /\ logins[l].worker = "failing" /\ Moves(l, "dead")
  /\ profile' = RecordLoginFailed(profile) /\ Emit(<<"loginFailed">>)
  /\ UNCHANGED <<cred, tokens, caller, lockQueue, failures, slot, logout, loader, strayed, rotated, signedOut>>

-----------------------------------------------------------------------------
(* logout, which takes no refresh lock.                                       *)
Logout ==
  /\ logout.pc = "idle" /\ Started < MaxStarted
  /\ logout' = [logout EXCEPT !.pc = "cancelling", !.took = slot, !.n = @ + 1, !.beside = Calling]
  /\ logins' = CancelWorker(slot) /\ slot' = 0
  /\ UNCHANGED <<Others, profile, signedOut>>
\* The refresh token is revoked if the endpoint answers; nothing is stored otherwise.
RevokeToken ==
  /\ logout.pc = "cancelling" /\ WaitOver(logout.took)
  /\ IF cred = NoCred THEN logout' = [logout EXCEPT !.pc = "recording"] /\ UNCHANGED tokens
     ELSE /\ logout' = [logout EXCEPT !.pc = "deleting"]
          /\ \E good \in {tokens.good, tokens.good \ {cred.rt}} : tokens' = [tokens EXCEPT !.good = good]
  /\ UNCHANGED <<cred, caller, lockQueue, failures, profile, lifecycle, logins, slot, loader, strayed, rotated, signedOut>>
\* History: what was under way when the credentials went, and can bring them back.
Undoable ==
  \/ \E c \in Callers : caller[c].pc \in {"sent", "answered"}
  \/ logout.beside \/ \E l \in Logins : logins[l].cancelled /\ logins[l].worker = "persisting"
DeleteCredentials ==
  /\ logout.pc = "deleting" /\ cred' = NoCred /\ failures' = 0 /\ Emit(<<"out">>)
  /\ logout' = [logout EXCEPT !.pc = "recording"] /\ signedOut' = ~Undoable
  /\ UNCHANGED <<tokens, caller, lockQueue, profile, logins, slot, loader, strayed, rotated>>
\* The store cannot be read or written: logout returns the error and the profile keeps
\* its flags.
LogoutFails ==
  /\ logout.pc \in {"cancelling", "deleting"} /\ WaitOver(logout.took)
  /\ logout' = [logout EXCEPT !.pc = "idle"] /\ strayed' = TRUE
  /\ UNCHANGED <<cred, tokens, caller, lockQueue, failures, lifecycle, loader, rotated, profile, logins, slot, signedOut>>
RecordLogout ==
  /\ logout.pc = "recording" /\ logout' = [logout EXCEPT !.pc = "idle"]
  /\ profile' = RecordLoggedOut(profile)
  /\ UNCHANGED <<Others, logins, slot, signedOut>>

-----------------------------------------------------------------------------
AuthInit ==
  /\ cred \in {NoCred, [rt |-> 1, fresh |-> FALSE]} /\ tokens = [good |-> {1}, last |-> 1]
  /\ caller = [c \in Callers |-> [pc |-> "idle", force |-> FALSE, held |-> 0, got |-> "none", new |-> 0, n |-> 0]]
  /\ lockQueue = <<>> /\ failures = 0 /\ lifecycle = <<>>
  /\ profile = [cred |-> "loading", pending |-> FALSE, reauth |-> FALSE]
  /\ logins = [l \in Logins |-> [call |-> "none", took |-> 0, worker |-> "none", cancelled |-> FALSE]]
  /\ slot = 0 /\ logout = [pc |-> "idle", took |-> 0, n |-> 0, beside |-> FALSE]
  /\ loader = "start" /\ strayed = FALSE /\ rotated = {} /\ signedOut = FALSE
\* What moves without a caller: the events' listener, the thread of the start, and time.
HostNext == ApplyEvent \/ LoaderReads \/ RecordInitialCredentials \/ TokenAges
TurnNext(c) ==
  \/ EnsureFresh(c) \/ ForceRefresh(c) \/ Locked(c) \/ ServerRefreshes(c) \/ ServerUnreachable(c)
  \/ RefreshStored(c) \/ RefreshNotKept(c) \/ RefreshRevoked(c) \/ RefreshFails(c) \/ AccessToken(c)
LoginNext(l) ==
  Login(l) \/ RecordPendingLogin(l) \/ LoginFails(l) \/ SpawnCompletionWorker(l) \/ ReplacePendingLogin(l)
WorkerNext(l) ==
  \/ AwaitCode(l) \/ CallbackTimeout(l) \/ ExchangeCode(l) \/ WorkerStops(l) \/ StoreLoginCredentials(l) \/ LoginEmits(l)
  \/ WorkerConnected(l) \/ RecordLoginCompletionFailed(l)
LogoutNext == Logout \/ RevokeToken \/ DeleteCredentials \/ LogoutFails \/ RecordLogout
AuthNext == HostNext \/ (\E c \in Callers : TurnNext(c)) \/ (\E l \in Logins : LoginNext(l) \/ WorkerNext(l)) \/ LogoutNext
AuthSpec == AuthInit /\ [][AuthNext]_authVars

-----------------------------------------------------------------------------
\* A refresh token whose successor is stored is never sent again (a server that sees it
\* twice revokes the sign-in): the second check under the lock of ensure_fresh.
RotatedOnce == \A c \in Callers : caller[c].pc = "sent" => caller[c].held \notin rotated
\* The profile says that a login is pending only while one is: the call is under way,
\* or its worker lives, or a logout has cancelled it (if no logout failed on its way and
\* no two login calls overlapped, which may leave the flag behind).
PendingIsBacked ==
  profile.pending => \/ strayed \/ logout.pc # "idle"
                     \/ Calling \/ \E l \in Logins : logins[l].worker \in Live
\* After a logout beside which no refresh and no login was under way, the credentials
\* stay away until the next login call, whatever a cancelled worker still does.
LogoutLasts == signedOut => cred = NoCred
\* The three promises of the sign-in under concurrent turns, logins and logouts.
AuthSound == RotatedOnce /\ PendingIsBacked /\ LogoutLasts
=============================================================================
