---------------------------- MODULE AgentProofs -----------------------------
(***************************************************************************)
(* The sign-in of a model provider and the turns of an agent.  First the   *)
(* three promises of the sign-in, for any number of turns and logins.      *)
(* A refresh token is sent once, because the lock makes the turns take     *)
(* theirs from the store one after another; a login is pending only while  *)
(* somebody ends it, because a worker that is not cancelled is in the slot *)
(* or about to be; and a logout lasts, because it cancels what is in the   *)
(* slot before it deletes.  Then the promise of the turn loop, for any     *)
(* model, policy and bounds: consent, answered requests, closed calls.     *)
(***************************************************************************)
EXTENDS TokenAuth, AgentTurn, SequenceTheorems, WellFoundedInduction, TLAPS

-----------------------------------------------------------------------------
(* The inductive invariant of the three promises.                             *)

CallerState ==
  [pc : {"idle", "locking", "sent", "answered", "returning"}, force : BOOLEAN, held : Nat,
   got : {"none", "ok", "network", "revoked", "out", "connected", "reauth", "failed"}, new : Nat, n : Nat]
LoginState ==
  [call : {"none", "cancelling", "starting", "replacing", "done"}, took : 0 .. MaxLogins, worker : Live \union {"none", "dead"}, cancelled : BOOLEAN]
ProfileState == [cred : {"loading", "unavailable", "out", "connected"}, pending : BOOLEAN, reauth : BOOLEAN]
Told == {"out", "connected", "reauth", "failed"}
AuthTypes ==
  /\ cred \in [rt : Nat, fresh : BOOLEAN] /\ tokens \in [good : SUBSET Nat, last : Nat]
  /\ caller \in [Callers -> CallerState] /\ lockQueue \in Seq(Callers)
  /\ profile \in ProfileState
  /\ lifecycle \in Seq(Told \union {"loginFailed"})
  /\ logins \in [Logins -> LoginState] /\ slot \in 0 .. MaxLogins
  /\ logout \in [pc : {"idle", "cancelling", "deleting", "recording"}, took : 0 .. MaxLogins, n : Nat, beside : BOOLEAN]
  /\ strayed \in BOOLEAN /\ signedOut \in BOOLEAN /\ loader \in {"start", "unavailable", "out", "connected", "done"}
\* A request for new tokens is under way: its caller holds the lock.
Asking(c) == caller[c].pc \in {"sent", "answered"}
Queued(c) == \E i \in 1 .. Len(lockQueue) : lockQueue[i] = c
LockIsHeld ==
  \A c \in Callers : /\ caller[c].pc \in {"locking", "sent", "answered"} => Queued(c)
                     /\ Asking(c) => lockQueue[1] = c
\* Tokens are numbered as they are given out, and the stored one has no successor yet.
Answered(c) == caller[c].pc = "answered" /\ caller[c].got = "ok"
TokensGrow ==
  /\ rotated \subseteq 1 .. tokens.last
  /\ cred.rt <= tokens.last /\ cred.rt \notin rotated /\ (cred = NoCred \/ cred.rt > 0)
  /\ \A c \in Callers : Asking(c) => caller[c].held \in 1 .. tokens.last
  /\ \A c \in Callers : Answered(c) => caller[c].held < caller[c].new /\ caller[c].new <= tokens.last /\ caller[c].new \notin rotated
\* What a caller brings back is one of the four outcomes a profile knows.
ReturnsKnown == \A c \in Callers : caller[c].pc = "returning" => caller[c].got \in Told

IsCalling(l) == logins[l].call \in {"cancelling", "starting", "replacing"}
Lives(l) == logins[l].worker \in Live
\* A worker is cancelled by taking it out of the slot; a live one that is not is in the
\* slot, or its own call is about to put it there.
SlotOwned ==
  /\ \A l \in Logins : logins[l].call # "done" => ~logins[l].cancelled /\ slot # l
  /\ \A l \in Logins : logins[l].call \in {"none", "cancelling", "starting"} => ~Lives(l)
  /\ \A l \in Logins : logins[l].cancelled => slot # l
  /\ \A l \in Logins : Lives(l) /\ ~logins[l].cancelled => slot = l \/ logins[l].call = "replacing"
  /\ ~strayed => \A k, l \in Logins : IsCalling(k) /\ IsCalling(l) => k = l
PendingOwned ==
  /\ ~strayed /\ profile.pending => \A l \in Logins : logins[l].call = "replacing" => Lives(l)
  /\ profile.pending /\ ~strayed /\ logout.pc = "idle" /\ ~Calling => \E l \in Logins : slot = l /\ Lives(l)
\* Nothing that a logout ran beside can bring the credentials back.
OutStays ==
  /\ logout.pc # "idle" /\ ~logout.beside => ~Calling /\ \A l \in Logins : Lives(l) => logins[l].cancelled
  /\ signedOut => /\ cred = NoCred /\ ~Calling /\ \A c \in Callers : ~Asking(c)
                  /\ \A l \in Logins : Lives(l) => logins[l].cancelled /\ logins[l].worker # "persisting"
AuthInv == AuthTypes /\ LockIsHeld /\ TokensGrow /\ RotatedOnce /\ ReturnsKnown /\ SlotOwned /\ PendingOwned /\ OutStays
-----------------------------------------------------------------------------
(* Sequences: the queue of the lock, and the events that are kept.            *)

\* What a full broadcast keeps of its events are some of them.
LEMMA KeepsLast ==
  ASSUME NEW S, NEW s \in Seq(S), NEW k \in 1 .. Len(s) + 1
  PROVE  SubSeq(s, k, Len(s)) \in Seq(S)
<1>1. \A i \in k .. Len(s) : s[i] \in S
  BY ElementOfSeq, SMT
<1>2. Len(s) \in Nat
  BY LenProperties
<1>. QED
  BY <1>1, <1>2, SubSeqProperties

\* What Emit leaves in the broadcast is typed as its events are.
LEMMA EmitTyped ==
  ASSUME NEW S, lifecycle \in Seq(S), NEW list \in Seq(S), Emit(list)
  PROVE  lifecycle' \in Seq(S)
<1>. DEFINE all == lifecycle \o list
            k == IF Len(all) > EventDepth THEN Len(all) - EventDepth + 1 ELSE 1
<1>1. all \in Seq(S) /\ Len(all) \in Nat
  BY ConcatProperties, LenProperties
<1>2. k \in 1 .. Len(all) + 1
  BY <1>1, AuthBounds
<1>3. lifecycle' = SubSeq(all, k, Len(all))
  BY DEF Emit
<1>. HIDE DEF all, k
<1>. QED
  BY <1>1, <1>2, <1>3, KeepsLast

\* A turn that joins the queue of the lock leaves the others where they are.
LEMMA JoinsQueue ==
  ASSUME NEW S, NEW q \in Seq(S), NEW c \in S, NEW p \in Seq(S), p = Append(q, c)
  PROVE  /\ \E i \in 1 .. Len(p) : p[i] = c
         /\ \A d : (\E i \in 1 .. Len(q) : q[i] = d) => (\E i \in 1 .. Len(p) : p[i] = d) /\ p[1] = q[1]
<1>1. Len(p) = Len(q) + 1 /\ Len(q) \in Nat /\ p[Len(q) + 1] = c /\ \A i \in 1 .. Len(q) : p[i] = q[i]
  BY AppendProperties, LenProperties
<1>. QED
  BY <1>1

\* When the holder leaves, every other turn that was in the queue still is.
LEMMA LeavesQueue ==
  ASSUME NEW S, NEW q \in Seq(S), NEW d, NEW i \in 1 .. Len(q), q[i] = d, q[1] # d
  PROVE  \E j \in 1 .. Len(Tail(q)) : Tail(q)[j] = d
<1>1. q # <<>> /\ i # 1 /\ Len(q) \in Nat
  BY EmptySeq, LenProperties
<1>2. Len(Tail(q)) = Len(q) - 1 /\ \A j \in 1 .. Len(Tail(q)) : Tail(q)[j] = q[j + 1]
  BY <1>1, HeadTailProperties, LenProperties
<1>3. i - 1 \in 1 .. Len(Tail(q)) /\ Tail(q)[i - 1] = d
  BY <1>1, <1>2
<1>. QED
  BY <1>3

-----------------------------------------------------------------------------
(* Types.  What the steps of the model do to a caller, a login call and the   *)
(* broadcast keeps them what they are.                                        *)

Callings == [Callers -> CallerState]
LoginCalls == [Logins -> LoginState]
Events == Seq(Told \union {"loginFailed"})

LEMMA RecordedTyped ==
  ASSUME NEW e \in Told \union {"loginFailed"}, NEW p \in ProfileState
  PROVE  /\ Recorded(e, p) \in ProfileState
         /\ Recorded(e, p).pending => p.pending
BY DEF ProfileState, Told, Recorded, RecordConnected, RecordLoggedOut, RecordNeedsReauth, RecordLoginFailed

LEMMA ReturnsTyped ==
  ASSUME caller \in Callings, NEW c \in Callers, NEW what \in Told, Returns(c, what)
  PROVE  caller' \in Callings
<1>1. caller[c].n + Begun(c) \in Nat
  BY DEF Callings, CallerState, Begun
<1>2. [caller[c] EXCEPT !.pc = "returning", !.got = what, !.n = caller[c].n + Begun(c)] \in CallerState
  BY <1>1 DEF Callings, CallerState, Told
<1>3. caller' = [caller EXCEPT ![c] = [caller[c] EXCEPT !.pc = "returning", !.got = what, !.n = caller[c].n + Begun(c)]]
  BY DEF Callings, CallerState, Returns
<1>. QED
  BY <1>2, <1>3 DEF Callings

LEMMA SendsTyped ==
  ASSUME caller \in Callings, NEW c \in Callers, NEW rt \in Nat, Sends(c, rt)
  PROVE  caller' \in Callings
<1>1. caller[c] \in CallerState
  BY DEF Callings
<1>2. [caller[c] EXCEPT !.pc = "sent", !.held = rt] \in CallerState
  BY <1>1 DEF CallerState
<1>3. caller' = [caller EXCEPT ![c] = [caller[c] EXCEPT !.pc = "sent", !.held = rt]]
  BY DEF Callings, CallerState, Sends
<1>. QED
  BY <1>2, <1>3 DEF Callings

LEMMA MovesTyped ==
  ASSUME logins \in LoginCalls, NEW l \in Logins, NEW step \in Live \union {"dead"}, Moves(l, step)
  PROVE  logins' \in LoginCalls
BY DEF LoginCalls, LoginState, Moves

LEMMA CancelTyped ==
  ASSUME logins \in LoginCalls, slot \in 0 .. MaxLogins
  PROVE  CancelWorker(slot) \in LoginCalls
<1>1. slot # 0 => slot \in Logins
  BY AuthBounds DEF Logins
<1>. QED
  BY <1>1 DEF LoginCalls, LoginState, CancelWorker

LEMMA EventsTyped ==
  ASSUME lifecycle \in Events,
         \/ UNCHANGED lifecycle
         \/ \E e \in Told \union {"loginFailed"} : Emit(<<e>>)
         \/ Emit(<<"failed", "reauth">>)
  PROVE  lifecycle' \in Events
<1>1. \A e \in Told \union {"loginFailed"} : <<e>> \in Events
  BY DEF Events
<1>2. <<"failed", "reauth">> \in Events
  BY DEF Events, Told
<1>. QED
  BY <1>1, <1>2, EmitTyped DEF Events

\* The holder of the lock leaves its queue.
LEMMA ReleaseTyped ==
  ASSUME AuthTypes, LockIsHeld, NEW c \in Callers, caller[c].pc \in {"locking", "sent", "answered"}
  PROVE  Tail(lockQueue) \in Seq(Callers)
<1>1. lockQueue # <<>> /\ lockQueue \in Seq(Callers)
  BY EmptySeq DEF AuthTypes, LockIsHeld, Queued
<1>. QED
  BY <1>1, HeadTailProperties

LEMMA HostTypes ==
  ASSUME AuthTypes, HostNext
  PROVE  AuthTypes'
<1>. USE DEF AuthTypes
<1>1. CASE ApplyEvent
  <2>1. Head(lifecycle) \in Told \union {"loginFailed"} /\ Tail(lifecycle) \in Events
    BY <1>1, HeadTailProperties DEF ApplyEvent, Events
  <2>. QED
    BY <1>1, <2>1, RecordedTyped DEF ApplyEvent, Events
<1>2. CASE LoaderReads \/ RecordInitialCredentials
  BY <1>2 DEF ProfileState, LoaderReads, RecordInitialCredentials
<1>3. CASE TokenAges
  BY <1>3 DEF TokenAges
<1>. QED
  BY <1>1, <1>2, <1>3 DEF HostNext

LEMMA TurnTypes ==
  ASSUME AuthTypes, LockIsHeld, ReturnsKnown, NEW c \in Callers, TurnNext(c)
  PROVE  AuthTypes'
<1>a. caller \in Callings /\ lifecycle \in Events /\ cred.rt \in Nat
  BY DEF AuthTypes, Callings, Events
<1>b. ASSUME caller' \in Callings, lifecycle' \in Events, lockQueue' \in Seq(Callers),
             cred' \in [rt : Nat, fresh : BOOLEAN], tokens' \in [good : SUBSET Nat, last : Nat], profile' \in ProfileState,
             UNCHANGED <<logins, slot, logout, loader, strayed, signedOut>>
      PROVE  AuthTypes'
  BY <1>b DEF AuthTypes, Callings, Events
<1>c. /\ lockQueue \in Seq(Callers) /\ cred \in [rt : Nat, fresh : BOOLEAN]
      /\ tokens \in [good : SUBSET Nat, last : Nat] /\ profile \in ProfileState
  BY DEF AuthTypes
<1>1. CASE EnsureFresh(c)
  <2>1. lockQueue' \in Seq(Callers)
    <3>1. lockQueue' \in {lockQueue, Append(lockQueue, c)}
      BY <1>1 DEF EnsureFresh
    <3>. QED
      BY <1>c, <3>1, AppendProperties
  <2>2. CASE \E what \in Told : Returns(c, what)
    BY <1>1, <1>a, <1>b, <1>c, <2>1, <2>2, ReturnsTyped DEF EnsureFresh
  <2>3. CASE caller' = [caller EXCEPT ![c].pc = "locking", ![c].force = FALSE, ![c].held = cred.rt, ![c].n = @ + 1]
    <3>1. caller' \in Callings
      BY <1>a, <2>3 DEF Callings, CallerState
    <3>. QED
      BY <1>1, <1>a, <1>b, <1>c, <2>1, <3>1 DEF EnsureFresh
  <2>. QED
    BY <1>1, <2>2, <2>3 DEF EnsureFresh, Told
<1>2. CASE ForceRefresh(c)
  <2>1. lockQueue' \in Seq(Callers)
    BY <1>2, <1>c, AppendProperties DEF ForceRefresh
  <2>2. caller' \in Callings
    BY <1>2, <1>a DEF ForceRefresh, Callings, CallerState
  <2>. QED
    BY <1>2, <1>a, <1>b, <1>c, <2>1, <2>2 DEF ForceRefresh
<1>3. CASE Locked(c)
  <2>1. lockQueue' \in Seq(Callers)
    BY <1>3, <1>c, ReleaseTyped DEF Locked, Release, Sends
  <2>2. (\E what \in Told : Returns(c, what)) \/ Sends(c, cred.rt)
    BY <1>3 DEF Locked, Told
  <2>. QED
    BY <1>3, <1>a, <1>b, <1>c, <2>1, <2>2, ReturnsTyped, SendsTyped DEF Locked
<1>4. CASE ServerRefreshes(c) \/ ServerUnreachable(c)
  <2>1. caller' \in Callings
    <3>1. /\ [caller[c] EXCEPT !.pc = "answered", !.got = "revoked"] \in CallerState
          /\ [caller[c] EXCEPT !.pc = "answered", !.got = "network"] \in CallerState
          /\ \A got \in {"ok", "network"} :
               [caller[c] EXCEPT !.pc = "answered", !.got = got, !.new = tokens.last + 1] \in CallerState
      <4>1. caller[c] \in CallerState /\ tokens.last + 1 \in Nat
        BY <1>a, <1>c DEF Callings
      <4>. QED
        BY <4>1 DEF CallerState
    <3>2. CASE ServerRefreshes(c)
      BY <1>a, <3>1, <3>2 DEF ServerRefreshes, Callings
    <3>3. CASE ServerUnreachable(c)
      BY <1>a, <3>1, <3>3 DEF ServerUnreachable, Callings
    <3>. QED
      BY <1>4, <3>2, <3>3
  <2>2. tokens' \in [good : SUBSET Nat, last : Nat]
    BY <1>4, <1>c DEF ServerRefreshes, ServerUnreachable
  <2>. QED
    BY <1>4, <1>a, <1>b, <1>c, <2>1, <2>2 DEF ServerRefreshes, ServerUnreachable
<1>5. CASE RefreshStored(c) \/ RefreshNotKept(c) \/ RefreshRevoked(c) \/ RefreshFails(c)
  <2>1. lockQueue' \in Seq(Callers)
    BY <1>5, ReleaseTyped DEF RefreshStored, RefreshNotKept, RefreshRevoked, RefreshFails, Release
  <2>2. \E what \in Told : Returns(c, what)
    BY <1>5 DEF RefreshStored, RefreshNotKept, RefreshRevoked, RefreshFails, Told
  <2>3. \/ UNCHANGED lifecycle
        \/ \E e \in Told \union {"loginFailed"} : Emit(<<e>>)
        \/ Emit(<<"failed", "reauth">>)
    BY <1>5 DEF RefreshStored, RefreshNotKept, RefreshRevoked, RefreshFails, Told
  <2>4. caller[c].new \in Nat
    BY <1>a DEF Callings, CallerState
  <2>5. cred' \in [rt : Nat, fresh : BOOLEAN]
    <3>1. cred' \in {cred, NoCred, [rt |-> caller[c].new, fresh |-> TRUE]}
      BY <1>5 DEF RefreshStored, RefreshNotKept, RefreshRevoked, RefreshFails
    <3>2. NoCred \in [rt : Nat, fresh : BOOLEAN] /\ [rt |-> caller[c].new, fresh |-> TRUE] \in [rt : Nat, fresh : BOOLEAN]
      BY <2>4 DEF NoCred
    <3>. QED
      BY <1>c, <3>1, <3>2
  <2>6. UNCHANGED <<tokens, profile, logins, slot, logout, loader, strayed, signedOut>>
    BY <1>5 DEF RefreshStored, RefreshNotKept, RefreshRevoked, RefreshFails
  <2>. QED
    BY <1>a, <1>b, <1>c, <2>1, <2>2, <2>3, <2>5, <2>6, ReturnsTyped, EventsTyped
<1>6. CASE AccessToken(c)
  <2>1. profile' \in ProfileState
    BY <1>6, <1>c, RecordedTyped DEF AccessToken, ReturnsKnown
  <2>2. caller' \in Callings
    BY <1>6, <1>a DEF AccessToken, Callings, CallerState
  <2>. QED
    BY <1>6, <1>a, <1>b, <1>c, <2>1, <2>2 DEF AccessToken
<1>. QED
  BY <1>1, <1>2, <1>3, <1>4, <1>5, <1>6 DEF TurnNext

LEMMA LoginTypes ==
  ASSUME AuthTypes, NEW l \in Logins, LoginNext(l) \/ WorkerNext(l)
  PROVE  AuthTypes'
<1>a. logins \in LoginCalls /\ lifecycle \in Events /\ slot \in 0 .. MaxLogins /\ profile \in ProfileState
  BY DEF AuthTypes, LoginCalls, Events
<1>b. ASSUME logins' \in LoginCalls, slot' \in 0 .. MaxLogins, profile' \in ProfileState, UNCHANGED logout,
             UNCHANGED <<caller, lockQueue, loader>>, lifecycle' \in Events,
             cred' \in [rt : Nat, fresh : BOOLEAN], tokens' \in [good : SUBSET Nat, last : Nat],
             strayed' \in BOOLEAN, signedOut' \in BOOLEAN
      PROVE  AuthTypes'
  BY <1>b DEF AuthTypes, LoginCalls, Events
<1>c. /\ cred \in [rt : Nat, fresh : BOOLEAN] /\ tokens \in [good : SUBSET Nat, last : Nat]
      /\ strayed \in BOOLEAN /\ signedOut \in BOOLEAN
  BY DEF AuthTypes
<1>d. CancelWorker(slot) \in LoginCalls
  BY <1>a, CancelTyped
<1>e. l \in 0 .. MaxLogins /\ 0 \in 0 .. MaxLogins
  BY AuthBounds DEF Logins
<1>f. ASSUME NEW p \in {profile, RecordLoginFailed(profile), RecordConnected(profile), [profile EXCEPT !.pending = TRUE]}
      PROVE  p \in ProfileState
  <2>1. RecordLoginFailed(profile) \in ProfileState
    BY <1>a DEF ProfileState, RecordLoginFailed
  <2>2. RecordConnected(profile) \in ProfileState
    BY DEF ProfileState, RecordConnected
  <2>3. [profile EXCEPT !.pending = TRUE] \in ProfileState
    BY <1>a DEF ProfileState
  <2>. QED
    BY <1>a, <1>f, <2>1, <2>2, <2>3
<1>1. CASE Login(l)
  <2>1. logins' \in LoginCalls
    <3> DEFINE before == CancelWorker(slot)
    <3>1. before \in LoginCalls /\ slot \in 0 .. MaxLogins
      BY <1>a, <1>d
    <3>2. logins' = [before EXCEPT ![l].call = "cancelling", ![l].took = slot]
      BY <1>1 DEF Login
    <3> HIDE DEF before
    <3>3. [before[l] EXCEPT !.call = "cancelling", !.took = slot] \in LoginState
      BY <3>1 DEF LoginCalls, LoginState
    <3>4. logins' = [before EXCEPT ![l] = [before[l] EXCEPT !.call = "cancelling", !.took = slot]]
      BY <3>1, <3>2 DEF LoginCalls, LoginState
    <3>. QED
      BY <3>1, <3>3, <3>4 DEF LoginCalls
  <2>2. logout' \in [pc : {"idle", "cancelling", "deleting", "recording"}, took : 0 .. MaxLogins, n : Nat, beside : BOOLEAN]
    BY <1>1 DEF Login, AuthTypes
  <2>3. strayed' \in BOOLEAN /\ signedOut' \in BOOLEAN
    BY <1>1, <1>c DEF Login, Calling
  <2>. QED
    BY <1>1, <1>a, <1>e, <2>1, <2>2, <2>3 DEF Login, AuthTypes, LoginCalls
<1>2. CASE RecordPendingLogin(l) \/ LoginFails(l)
  <2>1. logins' \in LoginCalls
    BY <1>2, <1>a DEF RecordPendingLogin, LoginFails, LoginCalls, LoginState
  <2>2. profile' \in ProfileState
    BY <1>2, <1>f DEF RecordPendingLogin, LoginFails
  <2>. QED
    BY <1>2, <1>a, <1>b, <1>c, <2>1, <2>2 DEF RecordPendingLogin, LoginFails, Others
<1>3. CASE SpawnCompletionWorker(l)
  <2>1. logins' \in LoginCalls
    <3>1. CancelWorker(slot)[l] \in LoginState
      BY <1>d DEF LoginCalls
    <3>2. [CancelWorker(slot)[l] EXCEPT !.call = "replacing", !.took = slot, !.worker = "waiting"] \in LoginState
      BY <1>a, <3>1 DEF LoginState, Live
    <3>. QED
      BY <1>3, <1>d, <3>2 DEF SpawnCompletionWorker, LoginCalls
  <2>. QED
    BY <1>3, <1>a, <1>b, <1>c, <1>e, <2>1 DEF SpawnCompletionWorker, Others
<1>4. CASE ReplacePendingLogin(l)
  <2>1. logins' \in LoginCalls
    BY <1>4, <1>a, <1>d DEF ReplacePendingLogin, LoginCalls, LoginState
  <2>. QED
    BY <1>4, <1>a, <1>b, <1>c, <1>e, <2>1 DEF ReplacePendingLogin, Others
<1>5. CASE AwaitCode(l) \/ CallbackTimeout(l) \/ ExchangeCode(l) \/ WorkerStops(l)
  <2>1. \E step \in Live \union {"dead"} : Moves(l, step)
    BY <1>5 DEF AwaitCode, CallbackTimeout, ExchangeCode, WorkerStops, CallbackOutcome, CallbackRequests, ExchangeOutcome, Live
  <2>. QED
    BY <1>5, <1>a, <1>b, <1>c, <2>1, MovesTyped DEF AwaitCode, CallbackTimeout, ExchangeCode, WorkerStops, Others
<1>6. CASE StoreLoginCredentials(l)
  <2>1. \E step \in Live \union {"dead"} : Moves(l, step)
    BY <1>6 DEF StoreLoginCredentials, Live
  <2>2. tokens' \in [good : SUBSET Nat, last : Nat] /\ cred' \in [rt : Nat, fresh : BOOLEAN]
    <3>1. tokens.last + 1 \in Nat
      BY <1>c
    <3>2. CASE UNCHANGED <<cred, tokens>>
      BY <1>c, <3>2
    <3>3. CASE /\ tokens' = [good |-> tokens.good \union {tokens.last + 1}, last |-> tokens.last + 1]
               /\ cred' = [rt |-> tokens.last + 1, fresh |-> TRUE]
      BY <1>c, <3>1, <3>3
    <3>. QED
      BY <1>6, <3>2, <3>3 DEF StoreLoginCredentials
  <2>. QED
    BY <1>6, <1>a, <1>b, <1>c, <2>1, <2>2, MovesTyped DEF StoreLoginCredentials
<1>7. CASE LoginEmits(l) \/ WorkerConnected(l) \/ RecordLoginCompletionFailed(l)
  <2>1. \E step \in Live \union {"dead"} : Moves(l, step)
    BY <1>7 DEF LoginEmits, WorkerConnected, RecordLoginCompletionFailed, Live
  <2>2. \/ UNCHANGED lifecycle
        \/ \E e \in Told \union {"loginFailed"} : Emit(<<e>>)
    BY <1>7 DEF LoginEmits, WorkerConnected, RecordLoginCompletionFailed, Told, Others
  <2>3. profile' \in ProfileState
    BY <1>7, <1>f DEF LoginEmits, WorkerConnected, RecordLoginCompletionFailed
  <2>4. UNCHANGED <<cred, tokens, caller, lockQueue, slot, logout, loader, strayed, signedOut>>
    BY <1>7 DEF LoginEmits, WorkerConnected, RecordLoginCompletionFailed, Others
  <2>. QED
    BY <1>a, <1>b, <1>c, <2>1, <2>2, <2>3, <2>4, MovesTyped, EventsTyped
<1>. QED
  BY <1>1, <1>2, <1>3, <1>4, <1>5, <1>6, <1>7 DEF LoginNext, WorkerNext

LEMMA LogoutTypes ==
  ASSUME AuthTypes, LogoutNext
  PROVE  AuthTypes'
<1>. DEFINE LogoutState == [pc : {"idle", "cancelling", "deleting", "recording"}, took : 0 .. MaxLogins, n : Nat, beside : BOOLEAN]
<1>a. logins \in LoginCalls /\ slot \in 0 .. MaxLogins /\ lifecycle \in Events /\ logout \in LogoutState /\ profile \in ProfileState
  BY DEF AuthTypes, LoginCalls, Events
<1>b. 0 \in 0 .. MaxLogins
  BY AuthBounds
<1>1. CASE Logout
  <2>1. logins' \in LoginCalls
    BY <1>1, <1>a, CancelTyped DEF Logout
  <2>2. logout' \in LogoutState
    <3>1. Calling \in BOOLEAN
      BY DEF Calling
    <3>2. [logout EXCEPT !.pc = "cancelling", !.took = slot, !.n = logout.n + 1, !.beside = Calling] \in LogoutState
      <4>1. \A n \in Nat, b \in BOOLEAN : [logout EXCEPT !.pc = "cancelling", !.took = slot, !.n = n, !.beside = b] \in LogoutState
        BY <1>a
      <4>2. logout.n + 1 \in Nat
        BY <1>a
      <4>. HIDE DEF LogoutState
      <4>. QED
        BY <3>1, <4>1, <4>2
    <3>. QED
      BY <1>1, <1>a, <3>2 DEF Logout
  <2>. QED
    BY <1>1, <1>b, <2>1, <2>2 DEF Logout, Others, AuthTypes, LoginCalls
<1>2. CASE RevokeToken
  <2>1. logout' \in LogoutState
    BY <1>2, <1>a DEF RevokeToken
  <2>2. tokens' \in [good : SUBSET Nat, last : Nat]
    BY <1>2 DEF RevokeToken, AuthTypes
  <2>. QED
    BY <1>2, <2>1, <2>2 DEF RevokeToken, AuthTypes
<1>3. CASE DeleteCredentials
  <2>1. lifecycle' \in Events
    BY <1>3, <1>a, EventsTyped DEF DeleteCredentials, Told
  <2>2. logout' \in LogoutState
    BY <1>3, <1>a DEF DeleteCredentials
  <2>3. signedOut' \in BOOLEAN
    BY <1>3 DEF DeleteCredentials, Undoable
  <2>4. cred' \in [rt : Nat, fresh : BOOLEAN]
    BY <1>3 DEF DeleteCredentials, NoCred
  <2>. QED
    BY <1>3, <2>1, <2>2, <2>3, <2>4 DEF DeleteCredentials, AuthTypes, Events
<1>4. CASE LogoutFails \/ RecordLogout
  <2>1. logout' \in LogoutState
    BY <1>4, <1>a DEF LogoutFails, RecordLogout
  <2>2. profile' \in ProfileState
    <3>1. RecordLoggedOut(profile) \in ProfileState
      BY DEF RecordLoggedOut, ProfileState
    <3>. QED
      BY <1>4, <1>a, <3>1 DEF LogoutFails, RecordLogout
  <2>. QED
    BY <1>4, <2>1, <2>2 DEF LogoutFails, RecordLogout, Others, AuthTypes
<1>. QED
  BY <1>1, <1>2, <1>3, <1>4 DEF LogoutNext

-----------------------------------------------------------------------------
(* The lock: a turn that asks for tokens is at its head.                      *)

\* A turn takes one step; the others are where they were.
OthersStay(c) == \A d \in Callers \ {c} : caller'[d] = caller[d]

LEMMA TurnsApart ==
  ASSUME AuthTypes, NEW c \in Callers, TurnNext(c)
  PROVE  OthersStay(c)
<1>. caller \in [Callers -> CallerState]
  BY DEF AuthTypes
<1>1. CASE EnsureFresh(c) \/ ForceRefresh(c)
  BY <1>1 DEF OthersStay, EnsureFresh, ForceRefresh, Returns
<1>2. CASE Locked(c)
  BY <1>2 DEF OthersStay, Locked, Returns, Sends
<1>3. CASE ServerRefreshes(c) \/ ServerUnreachable(c) \/ AccessToken(c)
  BY <1>3 DEF OthersStay, ServerRefreshes, ServerUnreachable, AccessToken
<1>4. CASE RefreshStored(c) \/ RefreshNotKept(c) \/ RefreshRevoked(c) \/ RefreshFails(c)
  <2>1. \E what \in Told : Returns(c, what)
    BY <1>4 DEF RefreshStored, RefreshNotKept, RefreshRevoked, RefreshFails, Told
  <2>. QED
    BY <2>1 DEF OthersStay, Returns
<1>. QED
  BY <1>1, <1>2, <1>3, <1>4 DEF TurnNext

LEMMA LockReleased ==
  ASSUME AuthTypes, LockIsHeld, NEW c \in Callers, caller[c].pc \in {"locking", "sent", "answered"}, lockQueue[1] = c,
         lockQueue' = Tail(lockQueue), OthersStay(c), caller'[c].pc = "returning"
  PROVE  LockIsHeld'
<1>1. lockQueue \in Seq(Callers)
  BY DEF AuthTypes
<1>2. ASSUME NEW d \in Callers, caller'[d].pc \in {"locking", "sent", "answered"}
      PROVE  Queued(d)' /\ ~Asking(d)'
  <2>1. d # c /\ caller'[d] = caller[d]
    BY <1>2 DEF OthersStay
  <2>2. PICK i \in 1 .. Len(lockQueue) : lockQueue[i] = d
    BY <1>2, <2>1 DEF LockIsHeld, Queued
  <2>3. Queued(d)'
    BY <1>1, <2>1, <2>2, LeavesQueue DEF Queued
  <2>4. ~Asking(d)'
    BY <2>1 DEF LockIsHeld, Asking
  <2>. QED
    BY <2>3, <2>4
<1>. QED
  BY <1>2 DEF LockIsHeld, Asking

LEMMA LockJoined ==
  ASSUME AuthTypes, LockIsHeld, NEW c \in Callers, caller[c].pc = "idle",
         lockQueue' = Append(lockQueue, c), OthersStay(c), caller'[c].pc = "locking"
  PROVE  LockIsHeld'
<1>1. lockQueue \in Seq(Callers) /\ lockQueue' \in Seq(Callers)
  BY AppendProperties DEF AuthTypes
<1>2. Queued(c)' /\ ~Asking(c)'
  BY <1>1, JoinsQueue DEF Queued, Asking
<1>3. ASSUME NEW d \in Callers \ {c}, caller'[d].pc \in {"locking", "sent", "answered"}
      PROVE  Queued(d)' /\ (Asking(d)' => lockQueue'[1] = d)
  <2>1. Queued(d) /\ caller'[d] = caller[d]
    BY <1>3 DEF LockIsHeld, OthersStay
  <2>2. Queued(d)' /\ lockQueue'[1] = lockQueue[1]
    BY <1>1, <2>1, JoinsQueue DEF Queued
  <2>. QED
    BY <2>1, <2>2 DEF LockIsHeld, Asking
<1>. QED
  BY <1>2, <1>3 DEF LockIsHeld, Asking

\* The lock is kept by a turn that goes on under it, and no turn outside it is touched.
LEMMA LockKept ==
  ASSUME AuthTypes, LockIsHeld, NEW c \in Callers, UNCHANGED lockQueue, OthersStay(c),
         \/ caller'[c].pc \notin {"locking", "sent", "answered"}
         \/ caller[c].pc = "locking" /\ lockQueue[1] = c
         \/ Asking(c)
  PROVE  LockIsHeld'
BY DEF LockIsHeld, Asking, Queued, OthersStay

\* Where each step leaves its turn, and what it does to the queue.
LEMMA TurnSteps ==
  ASSUME AuthTypes, LockIsHeld, NEW c \in Callers, TurnNext(c)
  PROVE  \/ caller[c].pc = "idle" /\ caller'[c].pc = "locking" /\ lockQueue' = Append(lockQueue, c)
         \/ /\ caller[c].pc \in {"locking", "answered"} /\ lockQueue[1] = c
            /\ caller'[c].pc = "returning" /\ lockQueue' = Tail(lockQueue)
         \/ UNCHANGED lockQueue /\ caller'[c].pc \in {"returning", "idle"}
         \/ UNCHANGED lockQueue /\ caller[c].pc = "locking" /\ lockQueue[1] = c /\ caller'[c].pc = "sent"
         \/ UNCHANGED lockQueue /\ caller[c].pc = "sent" /\ caller'[c].pc = "answered"
<1>. caller \in [Callers -> CallerState]
  BY DEF AuthTypes
<1>a. caller[c].pc = "answered" => lockQueue[1] = c
  BY DEF LockIsHeld, Asking
<1>b. ASSUME NEW what, Returns(c, what) PROVE caller'[c].pc = "returning" /\ caller'[c].got = what
  BY <1>b DEF Returns, CallerState
<1>1. CASE EnsureFresh(c)
  <2>1. \/ lockQueue' = Append(lockQueue, c) /\ caller'[c].pc = "locking"
        \/ UNCHANGED lockQueue /\ \E what \in Told : Returns(c, what)
    BY <1>1 DEF EnsureFresh, Told, CallerState
  <2>. QED
    BY <1>1, <1>b, <2>1 DEF EnsureFresh
<1>2. CASE ForceRefresh(c)
  BY <1>2 DEF ForceRefresh, CallerState
<1>3. CASE Locked(c)
  <2>1. \/ lockQueue' = Tail(lockQueue) /\ \E what \in Told : Returns(c, what)
        \/ UNCHANGED lockQueue /\ caller'[c].pc = "sent"
    BY <1>3 DEF Locked, Told, Release, Sends, CallerState
  <2>. QED
    BY <1>3, <1>b, <2>1 DEF Locked
<1>4. CASE ServerRefreshes(c) \/ ServerUnreachable(c) \/ AccessToken(c)
  BY <1>4 DEF ServerRefreshes, ServerUnreachable, AccessToken, CallerState
<1>5. CASE RefreshStored(c) \/ RefreshNotKept(c) \/ RefreshRevoked(c) \/ RefreshFails(c)
  <2>1. /\ lockQueue' = Tail(lockQueue) /\ caller[c].pc = "answered"
        /\ \E what \in Told : Returns(c, what)
    BY <1>5 DEF RefreshStored, RefreshNotKept, RefreshRevoked, RefreshFails, Told, Release
  <2>. QED
    BY <1>a, <1>b, <2>1
<1>. QED
  BY <1>1, <1>2, <1>3, <1>4, <1>5 DEF TurnNext

LEMMA LockStep ==
  ASSUME AuthTypes, LockIsHeld, NEW c \in Callers, TurnNext(c)
  PROVE  LockIsHeld'
<1>1. OthersStay(c)
  BY TurnsApart
<1>. QED
  BY <1>1, TurnSteps, LockReleased, LockJoined, LockKept DEF Asking

-----------------------------------------------------------------------------
(* The tokens: what the lock is for.                                          *)

\* What a turn returns with is told to the profile.
LEMMA ReturnsStep ==
  ASSUME AuthTypes, LockIsHeld, ReturnsKnown, NEW c \in Callers, TurnNext(c)
  PROVE  ReturnsKnown'
<1>. caller \in [Callers -> CallerState]
  BY DEF AuthTypes
<1>1. ASSUME NEW what \in Told, Returns(c, what) PROVE caller'[c].got \in Told
  BY <1>1 DEF Returns, CallerState
<1>2. caller'[c].pc = "returning" => caller'[c].got \in Told
  <2>1. CASE EnsureFresh(c) \/ ForceRefresh(c)
    BY <1>1, <2>1 DEF EnsureFresh, ForceRefresh, Told, CallerState
  <2>2. CASE Locked(c)
    BY <1>1, <2>2 DEF Locked, Sends, Told, CallerState
  <2>3. CASE ServerRefreshes(c) \/ ServerUnreachable(c) \/ AccessToken(c)
    BY <2>3 DEF ServerRefreshes, ServerUnreachable, AccessToken, CallerState
  <2>4. CASE RefreshStored(c) \/ RefreshNotKept(c) \/ RefreshRevoked(c) \/ RefreshFails(c)
    BY <1>1, <2>4 DEF RefreshStored, RefreshNotKept, RefreshRevoked, RefreshFails, Told
  <2>. QED
    BY <2>1, <2>2, <2>3, <2>4 DEF TurnNext
<1>. QED
  BY <1>2, TurnsApart DEF ReturnsKnown, OthersStay

\* Only one turn has a request under way.
LEMMA AsksAlone ==
  ASSUME LockIsHeld, NEW c \in Callers, NEW d \in Callers, lockQueue[1] = c, Asking(d)
  PROVE  c = d
BY DEF LockIsHeld

LEMMA TokensTurn ==
  ASSUME AuthTypes, LockIsHeld, TokensGrow, RotatedOnce, NEW c \in Callers, TurnNext(c)
  PROVE  TokensGrow' /\ RotatedOnce'
<1>a. caller \in [Callers -> CallerState] /\ tokens.last \in Nat /\ cred.rt \in Nat
  BY DEF AuthTypes
<1>b. OthersStay(c)
  BY TurnsApart
<1>c. ASSUME UNCHANGED <<cred, tokens, rotated>>, ~Asking(c)' \/ UNCHANGED <<caller[c].pc, caller[c].held, caller[c].got, caller[c].new>>
      PROVE  TokensGrow' /\ RotatedOnce'
  BY <1>b, <1>c DEF TokensGrow, RotatedOnce, Asking, Answered, OthersStay
<1>d. ASSUME NEW what, Returns(c, what) PROVE ~Asking(c)'
  BY <1>a, <1>d DEF Returns, CallerState, Asking
<1>1. CASE EnsureFresh(c) \/ ForceRefresh(c) \/ AccessToken(c)
  <2>1. ~Asking(c)'
    BY <1>1, <1>a, <1>d DEF EnsureFresh, ForceRefresh, AccessToken, CallerState, Asking
  <2>. QED
    BY <1>1, <1>c, <2>1 DEF EnsureFresh, ForceRefresh, AccessToken
<1>2. CASE Locked(c)
  <2>1. CASE \E what \in Told : Returns(c, what)
    BY <1>2, <1>c, <1>d, <2>1 DEF Locked
  <2>2. CASE cred # NoCred /\ Sends(c, cred.rt)
    <3>1. /\ caller'[c].pc = "sent" /\ caller'[c].held = cred.rt
          /\ cred.rt \in 1 .. tokens.last /\ cred.rt \notin rotated /\ UNCHANGED <<cred, tokens, rotated>>
      BY <1>2, <1>a, <2>2 DEF Sends, CallerState, TokensGrow, Locked
    <3>. QED
      BY <1>b, <3>1 DEF TokensGrow, RotatedOnce, Asking, Answered, OthersStay
  <2>. QED
    BY <1>2, <2>1, <2>2 DEF Locked, Told
<1>3. CASE ServerRefreshes(c)
  <2>1. /\ UNCHANGED <<cred, rotated>> /\ caller[c].pc = "sent"
        /\ caller'[c].pc = "answered" /\ caller'[c].held = caller[c].held
        /\ tokens'.last \in Nat /\ tokens.last <= tokens'.last
        /\ caller'[c].got = "ok" => caller'[c].new = tokens.last + 1 /\ tokens'.last = tokens.last + 1
    BY <1>3, <1>a DEF ServerRefreshes, CallerState
  <2>2. Asking(c) /\ rotated \subseteq 1 .. tokens'.last /\ tokens.last + 1 \notin rotated
    BY <1>a, <2>1 DEF Asking, TokensGrow
  <2>. QED
    BY <1>a, <1>b, <2>1, <2>2 DEF TokensGrow, RotatedOnce, Asking, Answered, OthersStay, CallerState
<1>4. CASE ServerUnreachable(c)
  <2>1. /\ UNCHANGED <<cred, tokens, rotated>> /\ caller[c].pc = "sent"
        /\ caller'[c].pc = "answered" /\ caller'[c].held = caller[c].held /\ caller'[c].got = "network"
    BY <1>4, <1>a DEF ServerUnreachable, CallerState
  <2>. QED
    BY <1>b, <2>1 DEF TokensGrow, RotatedOnce, Asking, Answered, OthersStay
<1>5. CASE RefreshStored(c)
  <2>1. /\ cred' = [rt |-> caller[c].new, fresh |-> TRUE] /\ rotated' = rotated \union {caller[c].held}
        /\ UNCHANGED tokens /\ Answered(c) /\ Asking(c) /\ ~Asking(c)'
    BY <1>5, <1>d DEF RefreshStored, Answered, Asking
  <2>2. \A d \in Callers \ {c} : ~Asking(d) /\ ~Asking(d)'
    BY <1>b, <2>1 DEF LockIsHeld, Asking, OthersStay
  <2>3. caller[c].held \in 1 .. tokens.last /\ caller[c].new \in Nat /\ caller[c].held < caller[c].new
    BY <1>a, <2>1 DEF TokensGrow, CallerState
  <2>4. cred'.rt <= tokens'.last /\ cred'.rt \notin rotated' /\ cred'.rt > 0
    BY <1>a, <2>1, <2>3 DEF TokensGrow
  <2>. QED
    BY <2>1, <2>2, <2>3, <2>4 DEF TokensGrow, RotatedOnce, Asking, Answered
<1>6. CASE RefreshNotKept(c) \/ RefreshFails(c)
  BY <1>6, <1>c, <1>d DEF RefreshNotKept, RefreshFails
<1>7. CASE RefreshRevoked(c)
  <2>1. ~Asking(c)' /\ UNCHANGED <<tokens, rotated>> /\ cred' \in {cred, NoCred}
    BY <1>7, <1>d DEF RefreshRevoked
  <2>. QED
    BY <1>a, <1>b, <2>1 DEF TokensGrow, RotatedOnce, Asking, Answered, OthersStay, NoCred
<1>. QED
  BY <1>1, <1>2, <1>3, <1>4, <1>5, <1>6, <1>7 DEF TurnNext

\* The other steps that write the store or are given tokens.
LEMMA TokensElsewhere ==
  ASSUME AuthTypes, TokensGrow, RotatedOnce, UNCHANGED <<caller, rotated>>,
         \/ UNCHANGED <<cred, tokens.last>>
         \/ cred' = NoCred /\ UNCHANGED tokens
         \/ cred'.rt = cred.rt /\ cred # NoCred /\ UNCHANGED tokens
         \/ cred'.rt = tokens.last + 1 /\ tokens'.last = tokens.last + 1
  PROVE  TokensGrow' /\ RotatedOnce'
<1>a. caller \in [Callers -> CallerState] /\ tokens.last \in Nat /\ cred.rt \in Nat
  BY DEF AuthTypes
<1>1. tokens'.last \in Nat /\ tokens.last <= tokens'.last /\ rotated' \subseteq 1 .. tokens'.last
  BY <1>a DEF TokensGrow
<1>2. cred'.rt <= tokens'.last /\ cred'.rt \notin rotated' /\ (cred' = NoCred \/ cred'.rt > 0)
  BY <1>a DEF TokensGrow, NoCred
<1>3. \A c \in Callers : caller[c].held \in Nat /\ caller[c].new \in Nat
  BY <1>a DEF CallerState
<1>4. RotatedOnce'
  BY DEF RotatedOnce
<1>. QED
  BY <1>a, <1>1, <1>2, <1>3, <1>4 DEF TokensGrow, Asking, Answered

-----------------------------------------------------------------------------
(* The logins: who owns a worker, and who takes back the flag.                *)

\* What the step of a worker may do.
LEMMA WorkerSteps ==
  ASSUME AuthTypes, NEW l \in Logins, WorkerNext(l)
  PROVE  /\ UNCHANGED <<slot, logout, strayed, signedOut, caller>>
         /\ Lives(l) /\ \E step \in Live \union {"dead"} : Moves(l, step)
         /\ profile'.pending => profile.pending
         /\ Lives(l)' \/ ~profile'.pending \/ logins[l].cancelled
         /\ logins[l].cancelled /\ Lives(l)' => logins[l].worker # "waiting" /\ logins'[l].worker # "persisting"
         /\ UNCHANGED cred \/ logins[l].worker = "persisting"
<1>a. logins \in [Logins -> LoginState] /\ profile \in ProfileState
  BY DEF AuthTypes
<1>b. ASSUME NEW step, Moves(l, step) PROVE logins'[l].worker = step
  BY <1>a, <1>b DEF Moves, LoginState
<1>1. CASE AwaitCode(l) \/ CallbackTimeout(l) \/ ExchangeCode(l)
  <2>1. /\ \E step \in Live : Moves(l, step)
        /\ ~logins[l].cancelled /\ logins[l].worker \in {"waiting", "exchanging"}
    BY <1>1 DEF AwaitCode, CallbackTimeout, ExchangeCode, CallbackOutcome, CallbackRequests, ExchangeOutcome, Live
  <2>2. UNCHANGED <<slot, logout, strayed, signedOut, caller, profile, cred>>
    BY <1>1 DEF AwaitCode, CallbackTimeout, ExchangeCode, Others
  <2>. QED
    BY <1>b, <2>1, <2>2 DEF Lives, Live
<1>2. CASE WorkerStops(l)
  BY <1>2, <1>b DEF WorkerStops, Others, Lives, Live
<1>3. CASE StoreLoginCredentials(l)
  BY <1>3, <1>b DEF StoreLoginCredentials, Lives, Live
<1>4. CASE LoginEmits(l)
  BY <1>4, <1>b DEF LoginEmits, Lives, Live
<1>5. CASE WorkerConnected(l)
  BY <1>5, <1>b DEF WorkerConnected, RecordConnected, Others, Lives, Live
<1>6. CASE RecordLoginCompletionFailed(l)
  BY <1>a, <1>6, <1>b DEF RecordLoginCompletionFailed, RecordLoginFailed, ProfileState, Lives, Live
<1>. QED
  BY <1>1, <1>2, <1>3, <1>4, <1>5, <1>6 DEF WorkerNext

\* Only the worker of a login call moves.
LEMMA MovesOnly ==
  ASSUME AuthTypes, NEW l \in Logins, NEW step \in Live \union {"dead"}, Moves(l, step)
  PROVE  \A k \in Logins : /\ logins'[k].call = logins[k].call /\ logins'[k].cancelled = logins[k].cancelled
                           /\ k # l => logins'[k].worker = logins[k].worker
BY DEF AuthTypes, LoginState, Moves

LEMMA CallsMoveNot ==
  ASSUME \A k \in Logins : logins'[k].call = logins[k].call
  PROVE  Calling' = Calling /\ \A k \in Logins : IsCalling(k)' = IsCalling(k)
BY DEF Calling, IsCalling

LEMMA SlotWorker ==
  ASSUME AuthTypes, SlotOwned, NEW l \in Logins, WorkerNext(l)
  PROVE  SlotOwned'
<1>1. /\ UNCHANGED <<slot, strayed>> /\ Lives(l)
      /\ \E step \in Live \union {"dead"} : Moves(l, step)
  BY WorkerSteps
<1>2. \A k \in Logins : /\ logins'[k].call = logins[k].call /\ logins'[k].cancelled = logins[k].cancelled
                        /\ k # l => logins'[k].worker = logins[k].worker
  BY <1>1, MovesOnly
<1>. QED
  BY <1>1, <1>2 DEF SlotOwned, Lives, IsCalling

LEMMA PendingWorker ==
  ASSUME AuthTypes, SlotOwned, PendingOwned, NEW l \in Logins, WorkerNext(l)
  PROVE  PendingOwned'
<1>1. /\ UNCHANGED <<slot, logout, strayed>> /\ \E step \in Live \union {"dead"} : Moves(l, step)
      /\ profile'.pending => profile.pending
      /\ Lives(l)' \/ ~profile'.pending \/ logins[l].cancelled
  BY WorkerSteps
<1>2. \A k \in Logins : /\ logins'[k].call = logins[k].call /\ logins'[k].cancelled = logins[k].cancelled
                        /\ k # l => logins'[k].worker = logins[k].worker
  BY <1>1, MovesOnly
<1>3. Calling' = Calling
  BY <1>2, CallsMoveNot
<1>4. logins[l].cancelled => slot # l /\ logins[l].call = "done"
  BY DEF SlotOwned
<1>. QED
  BY <1>1, <1>2, <1>3, <1>4 DEF PendingOwned, Lives

LEMMA OutWorker ==
  ASSUME AuthTypes, OutStays, NEW l \in Logins, WorkerNext(l)
  PROVE  OutStays'
<1>1. /\ UNCHANGED <<slot, logout, strayed, signedOut, caller>>
      /\ Lives(l) /\ \E step \in Live \union {"dead"} : Moves(l, step)
      /\ logins[l].cancelled /\ Lives(l)' => logins[l].worker # "waiting" /\ logins'[l].worker # "persisting"
      /\ UNCHANGED cred \/ logins[l].worker = "persisting"
  BY WorkerSteps
<1>2. \A k \in Logins : /\ logins'[k].call = logins[k].call /\ logins'[k].cancelled = logins[k].cancelled
                        /\ k # l => logins'[k].worker = logins[k].worker
  BY <1>1, MovesOnly
<1>3. Calling' = Calling
  BY <1>2, CallsMoveNot
<1>. QED
  BY <1>1, <1>2, <1>3 DEF OutStays, Lives, Asking

-----------------------------------------------------------------------------
(* The login calls.                                                           *)

\* Taking the worker out of the slot cancels it, and changes nothing else.
LEMMA CancelsSlot ==
  ASSUME AuthTypes, NEW k \in Logins
  PROVE  LET m == CancelWorker(slot) IN
         /\ m[k].call = logins[k].call /\ m[k].worker = logins[k].worker
         /\ m[k].cancelled <=> (logins[k].cancelled \/ k = slot)
<1>1. slot # 0 => slot \in Logins
  BY AuthBounds DEF AuthTypes, Logins
<1>2. k # 0
  BY AuthBounds DEF Logins
<1>. QED
  BY <1>1, <1>2 DEF AuthTypes, LoginState, CancelWorker

\* What the step of a login call may do.
LEMMA LoginSteps ==
  ASSUME AuthTypes, SlotOwned, NEW l \in Logins, LoginNext(l)
  PROVE  /\ UNCHANGED <<cred, caller>>
         /\ \A k \in Logins \ {l} : /\ logins'[k].call = logins[k].call /\ logins'[k].worker = logins[k].worker
                                    /\ logins'[k].cancelled <=> (logins[k].cancelled \/ (slot = k /\ slot' # k))
         /\ logins[l].call # "done" /\ slot # l /\ ~logins[l].cancelled /\ ~logins'[l].cancelled
         /\ \/ /\ logins[l].call = "none" /\ logins'[l].call = "cancelling" /\ logins'[l].worker = logins[l].worker
               /\ slot' = 0 /\ ~signedOut' /\ logout'.beside /\ (strayed' <=> (strayed \/ Calling))
               /\ UNCHANGED profile /\ logout'.pc = logout.pc
            \/ /\ logins[l].call = "cancelling" /\ logins'[l].call = "starting" /\ logins'[l].worker = logins[l].worker
               /\ UNCHANGED <<slot, strayed, logout, signedOut>>
            \/ /\ logins[l].call = "starting" /\ logins'[l].call = "done" /\ logins'[l].worker = logins[l].worker
               /\ UNCHANGED <<slot, strayed, logout, signedOut>> /\ ~profile'.pending
            \/ /\ logins[l].call = "starting" /\ logins'[l].call = "replacing" /\ logins'[l].worker = "waiting"
               /\ slot' = 0 /\ UNCHANGED <<strayed, logout, signedOut, profile>>
            \/ /\ logins[l].call = "replacing" /\ logins'[l].call = "done" /\ logins'[l].worker = logins[l].worker
               /\ slot' = l /\ UNCHANGED <<strayed, logout, signedOut, profile>>
<1>a. logins \in LoginCalls /\ profile \in ProfileState /\ slot \in 0 .. MaxLogins
  BY DEF AuthTypes, LoginCalls
<1>b. CancelWorker(slot) \in LoginCalls
  BY <1>a, CancelTyped
<1>c. \A k \in Logins : /\ CancelWorker(slot)[k].call = logins[k].call /\ CancelWorker(slot)[k].worker = logins[k].worker
                        /\ CancelWorker(slot)[k].cancelled <=> (logins[k].cancelled \/ k = slot)
  BY CancelsSlot
<1>d. logins[l].call # "done" => slot # l /\ ~logins[l].cancelled
  BY DEF SlotOwned
<1>e. 0 \notin Logins
  BY AuthBounds DEF Logins
<1>1. CASE Login(l)
  <2>1. /\ \A k \in Logins \ {l} : logins'[k] = CancelWorker(slot)[k]
        /\ logins'[l].call = "cancelling" /\ logins'[l].worker = CancelWorker(slot)[l].worker
        /\ logins'[l].cancelled = CancelWorker(slot)[l].cancelled
    BY <1>1, <1>b DEF Login, LoginCalls, LoginState
  <2>2. logout'.beside /\ logout'.pc = logout.pc
    BY <1>1 DEF Login, AuthTypes
  <2>. QED
    <3>1. slot' = 0 /\ ~signedOut' /\ (strayed' <=> (strayed \/ Calling)) /\ logins[l].call = "none" /\ UNCHANGED <<cred, caller, profile>>
      BY <1>1 DEF Login
    <3>. QED
      BY <1>c, <1>d, <1>e, <2>1, <2>2, <3>1
<1>2. CASE RecordPendingLogin(l) \/ LoginFails(l)
  <2>1. /\ \A k \in Logins \ {l} : logins'[k] = logins[k]
        /\ logins'[l].worker = logins[l].worker /\ logins'[l].cancelled = logins[l].cancelled
        /\ RecordPendingLogin(l) => logins'[l].call = "starting"
        /\ LoginFails(l) => logins'[l].call = "done"
    BY <1>2, <1>a DEF RecordPendingLogin, LoginFails, LoginCalls, LoginState
  <2>2. LoginFails(l) => ~profile'.pending
    BY <1>a DEF LoginFails, RecordLoginFailed, ProfileState
  <2>. QED
    <3>1. /\ UNCHANGED <<cred, caller, slot, strayed, logout, signedOut>>
          /\ RecordPendingLogin(l) => logins[l].call = "cancelling"
          /\ LoginFails(l) => logins[l].call = "starting"
      BY <1>2 DEF RecordPendingLogin, LoginFails, Others
    <3>. QED
      BY <1>2, <1>d, <2>1, <2>2, <3>1
<1>3. CASE SpawnCompletionWorker(l)
  <2>1. /\ \A k \in Logins \ {l} : logins'[k] = CancelWorker(slot)[k]
        /\ logins'[l].call = "replacing" /\ logins'[l].worker = "waiting"
        /\ logins'[l].cancelled = CancelWorker(slot)[l].cancelled
    BY <1>3, <1>b DEF SpawnCompletionWorker, LoginCalls, LoginState
  <2>. QED
    <3>1. slot' = 0 /\ logins[l].call = "starting" /\ UNCHANGED <<cred, caller, strayed, logout, signedOut, profile>>
      BY <1>3 DEF SpawnCompletionWorker, Others
    <3>. QED
      BY <1>c, <1>d, <1>e, <2>1, <3>1
<1>4. CASE ReplacePendingLogin(l)
  <2>1. /\ \A k \in Logins \ {l} : logins'[k] = CancelWorker(slot)[k]
        /\ logins'[l].call = "done" /\ logins'[l].worker = CancelWorker(slot)[l].worker
        /\ logins'[l].cancelled = CancelWorker(slot)[l].cancelled
    BY <1>4, <1>b DEF ReplacePendingLogin, LoginCalls, LoginState
  <2>. QED
    <3>1. slot' = l /\ logins[l].call = "replacing" /\ UNCHANGED <<cred, caller, strayed, logout, signedOut, profile>>
      BY <1>4 DEF ReplacePendingLogin, Others
    <3>. QED
      BY <1>c, <1>d, <1>e, <2>1, <3>1
<1>. QED
  BY <1>1, <1>2, <1>3, <1>4 DEF LoginNext

LEMMA SlotLogin ==
  ASSUME AuthTypes, SlotOwned, NEW l \in Logins, LoginNext(l)
  PROVE  SlotOwned'
<1>. USE LoginSteps DEF SlotOwned
<1>a. 0 \notin Logins /\ slot' \in {0, slot, l}
  BY AuthBounds DEF Logins
<1>1. \A k \in Logins : logins'[k].call # "done" => ~logins'[k].cancelled /\ slot' # k
  BY <1>a
<1>2. \A k \in Logins : logins'[k].call \in {"none", "cancelling", "starting"} => ~Lives(k)'
  BY DEF Lives
<1>3. \A k \in Logins : logins'[k].cancelled => slot' # k
  BY <1>a
<1>4. \A k \in Logins : Lives(k)' /\ ~logins'[k].cancelled => slot' = k \/ logins'[k].call = "replacing"
  <2>1. ASSUME NEW k \in Logins \ {l}, Lives(k)', ~logins'[k].cancelled
        PROVE  slot' = k \/ logins'[k].call = "replacing"
    BY <2>1 DEF Lives
  <2>2. ASSUME Lives(l)' PROVE slot' = l \/ logins'[l].call = "replacing"
    BY <2>2 DEF Lives
  <2>. QED
    BY <2>1, <2>2
<1>5. ~strayed' => \A j, k \in Logins : IsCalling(j)' /\ IsCalling(k)' => j = k
  <2>1. ASSUME NEW k \in Logins \ {l} PROVE IsCalling(k)' <=> IsCalling(k)
    BY DEF IsCalling
  <2>2. IsCalling(l)' => IsCalling(l) \/ (strayed' <=> strayed \/ Calling)
    BY DEF IsCalling
  <2>3. Calling <=> \E k \in Logins : IsCalling(k)
    BY DEF Calling, IsCalling
  <2>4. strayed => strayed'
    OBVIOUS
  <2>. QED
    BY <2>1, <2>2, <2>3, <2>4
<1>. QED
  BY <1>1, <1>2, <1>3, <1>4, <1>5

LEMMA PendingLogin ==
  ASSUME AuthTypes, SlotOwned, PendingOwned, NEW l \in Logins, LoginNext(l)
  PROVE  PendingOwned'
<1>. USE LoginSteps
<1>a. Calling' <=> \E k \in Logins : IsCalling(k)'
  BY DEF Calling, IsCalling
<1>b. Calling <=> \E k \in Logins : IsCalling(k)
  BY DEF Calling, IsCalling
<1>1. ASSUME ~strayed', profile'.pending, NEW k \in Logins, logins'[k].call = "replacing"
      PROVE  Lives(k)'
  <2>1. CASE k = l
    BY <1>1, <2>1 DEF Lives, Live
  <2>2. CASE k # l
    <3>1. IsCalling(k) /\ (Lives(k)' <=> Lives(k)) /\ ~strayed
      BY <1>1, <2>2 DEF IsCalling, Lives
    <3>2. ~IsCalling(l) /\ Calling
      BY <1>b, <2>2, <3>1 DEF SlotOwned
    <3>. QED
      BY <1>1, <3>2 DEF IsCalling
  <2>. QED
    BY <2>1, <2>2
<1>2. ASSUME ~strayed', profile'.pending, logout'.pc = "idle", ~Calling'
      PROVE  \E k \in Logins : slot' = k /\ Lives(k)'
  <2>1. ~IsCalling(l)'
    BY <1>2, <1>a
  <2>2. logins[l].call = "replacing" /\ slot' = l /\ UNCHANGED <<strayed, profile>> /\ logins'[l].worker = logins[l].worker
    BY <1>2, <2>1 DEF IsCalling
  <2>3. Lives(l)
    BY <1>2, <2>2 DEF PendingOwned
  <2>. QED
    BY <2>2, <2>3 DEF Lives
<1>. QED
  BY <1>1, <1>2 DEF PendingOwned

LEMMA OutLogin ==
  ASSUME AuthTypes, SlotOwned, OutStays, NEW l \in Logins, LoginNext(l)
  PROVE  OutStays'
<1>. USE LoginSteps
<1>1. IsCalling(l) => Calling
  BY DEF IsCalling, Calling
<1>2. logins[l].call = "none" => logout'.beside /\ ~signedOut'
  OBVIOUS
<1>3. logins[l].call # "none" => IsCalling(l) /\ UNCHANGED <<logout, signedOut>>
  BY DEF IsCalling
<1>. QED
  BY <1>1, <1>2, <1>3 DEF OutStays

-----------------------------------------------------------------------------
(* The logout.                                                                *)

\* What the step of a logout may do.
LEMMA LogoutSteps ==
  ASSUME AuthTypes, LogoutNext
  PROVE  /\ UNCHANGED caller
         /\ strayed => strayed'
         /\ \A k \in Logins : logins'[k].call = logins[k].call /\ logins'[k].worker = logins[k].worker
         /\ \/ /\ logout'.pc = "cancelling" /\ (logout'.beside <=> Calling) /\ slot' = 0
               /\ \A k \in Logins : logins'[k].cancelled <=> logins[k].cancelled \/ slot = k
               /\ UNCHANGED <<cred, profile, strayed, signedOut>>
            \/ /\ UNCHANGED <<logins, slot>> /\ logout.pc # "idle" /\ logout'.beside = logout.beside
               /\ \/ logout'.pc # "idle" /\ UNCHANGED <<cred, profile, strayed, signedOut>>
                  \/ logout'.pc # "idle" /\ UNCHANGED <<profile, strayed>> /\ cred' = NoCred /\ (signedOut' <=> ~Undoable)
                  \/ UNCHANGED <<cred, signedOut, profile>> /\ strayed'
                  \/ UNCHANGED <<cred, signedOut, strayed>> /\ ~profile'.pending
<1>a. logins \in LoginCalls /\ slot \in 0 .. MaxLogins
  BY DEF AuthTypes, LoginCalls
<1>b. logout \in [pc : {"idle", "cancelling", "deleting", "recording"}, took : 0 .. MaxLogins, n : Nat, beside : BOOLEAN]
  BY DEF AuthTypes
<1>1. CASE Logout
  <2>1. UNCHANGED <<caller, cred, profile, strayed, signedOut>> /\ slot' = 0 /\ logins' = CancelWorker(slot)
    BY <1>1 DEF Logout, Others
  <2>2. logout'.pc = "cancelling" /\ (logout'.beside <=> Calling)
    BY <1>1, <1>b DEF Logout
  <2>. QED
    BY <2>1, <2>2, CancelsSlot
<1>2. CASE RevokeToken
  BY <1>2, <1>b DEF RevokeToken
<1>3. CASE DeleteCredentials
  BY <1>3, <1>b DEF DeleteCredentials
<1>4. CASE LogoutFails
  BY <1>4, <1>b DEF LogoutFails
<1>5. CASE RecordLogout
  BY <1>5, <1>b DEF RecordLogout, RecordLoggedOut, Others
<1>. QED
  BY <1>1, <1>2, <1>3, <1>4, <1>5 DEF LogoutNext

LEMMA SlotLogout ==
  ASSUME AuthTypes, SlotOwned, LogoutNext
  PROVE  SlotOwned'
<1>. USE LogoutSteps
<1>a. 0 \notin Logins
  BY AuthBounds DEF Logins
<1>1. CASE UNCHANGED <<logins, slot>>
  BY <1>1 DEF SlotOwned, Lives, IsCalling
<1>2. CASE slot' = 0 /\ \A k \in Logins : logins'[k].cancelled <=> logins[k].cancelled \/ slot = k
  <2>1. \A k \in Logins : (IsCalling(k)' <=> IsCalling(k)) /\ (Lives(k)' <=> Lives(k))
    BY DEF IsCalling, Lives
  <2>. QED
    BY <1>a, <1>2, <2>1 DEF SlotOwned
<1>. QED
  BY <1>1, <1>2

LEMMA PendingLogout ==
  ASSUME AuthTypes, PendingOwned, LogoutNext
  PROVE  PendingOwned'
<1>. USE LogoutSteps
<1>1. \A k \in Logins : Lives(k)' <=> Lives(k)
  BY DEF Lives
<1>2. profile'.pending /\ ~strayed' => profile.pending /\ ~strayed /\ logout'.pc # "idle"
  OBVIOUS
<1>. QED
  BY <1>1, <1>2 DEF PendingOwned

LEMMA OutLogout ==
  ASSUME AuthTypes, SlotOwned, OutStays, LogoutNext
  PROVE  OutStays'
<1>a. UNCHANGED caller
  BY LogoutSteps
<1>b. \A c \in Callers : Asking(c)' <=> Asking(c)
  BY <1>a DEF Asking
<1>. USE LogoutSteps
<1>1. \A k \in Logins : Lives(k)' <=> Lives(k)
  BY DEF Lives
<1>2. Calling' = Calling
  BY CallsMoveNot
<1>3. \A k \in Logins : logins[k].cancelled => logins'[k].cancelled
  OBVIOUS
<1>4. ASSUME logout'.pc # "idle", ~logout'.beside
      PROVE  ~Calling /\ \A k \in Logins : Lives(k) => logins'[k].cancelled
  <2>1. CASE logout.pc # "idle" /\ logout'.beside = logout.beside
    BY <1>3, <1>4, <2>1 DEF OutStays
  <2>2. CASE ~Calling /\ \A k \in Logins : logins'[k].cancelled <=> logins[k].cancelled \/ slot = k
    BY <2>2 DEF SlotOwned, Calling
  <2>. QED
    BY <1>4, <2>1, <2>2
<1>5. ASSUME signedOut'
      PROVE  /\ cred' = NoCred /\ ~Calling /\ \A c \in Callers : ~Asking(c)
             /\ \A k \in Logins : Lives(k) => logins'[k].cancelled /\ logins[k].worker # "persisting"
  <2>1. CASE signedOut
    <3>1. cred' = NoCred
      BY <2>1 DEF OutStays
    <3>. QED
      BY <1>3, <2>1, <3>1 DEF OutStays
  <2>2. CASE ~signedOut
    <3>1. cred' = NoCred /\ ~Undoable /\ logout.pc # "idle"
      BY <1>5, <2>2
    <3>. QED
      BY <1>3, <3>1 DEF OutStays, Undoable, Asking
  <2>. QED
    BY <2>1, <2>2
<1>. QED
  BY <1>b, <1>1, <1>2, <1>4, <1>5 DEF OutStays

-----------------------------------------------------------------------------
(* The turns and the host change none of that.                                *)

LEMMA ProfileOnly ==
  ASSUME UNCHANGED <<logins, slot, logout, strayed>>, profile'.pending => profile.pending, SlotOwned, PendingOwned
  PROVE  SlotOwned' /\ PendingOwned'
<1>1. Calling' = Calling /\ \A l \in Logins : (Lives(l)' <=> Lives(l)) /\ (IsCalling(l)' <=> IsCalling(l))
  BY DEF Calling, Lives, IsCalling
<1>. QED
  BY <1>1 DEF SlotOwned, PendingOwned

LEMMA LoginsBesideTurn ==
  ASSUME AuthTypes, ReturnsKnown, SlotOwned, PendingOwned, OutStays, NEW c \in Callers, TurnNext(c), LockIsHeld
  PROVE  SlotOwned' /\ PendingOwned' /\ OutStays'
<1>1. UNCHANGED <<logins, slot, logout, strayed, signedOut>>
  BY DEF TurnNext, EnsureFresh, ForceRefresh, Locked, ServerRefreshes, ServerUnreachable,
         RefreshStored, RefreshNotKept, RefreshRevoked, RefreshFails, AccessToken
<1>2. profile'.pending => profile.pending
  <2>1. CASE AccessToken(c)
    <3>1. caller[c].got \in Told \union {"loginFailed"} /\ profile \in ProfileState
      BY <2>1 DEF AccessToken, ReturnsKnown, AuthTypes
    <3>. QED
      BY <2>1, <3>1, RecordedTyped DEF AccessToken
  <2>2. CASE ~AccessToken(c)
    <3>1. UNCHANGED profile
      BY <2>2 DEF TurnNext, EnsureFresh, ForceRefresh, Locked, ServerRefreshes, ServerUnreachable,
             RefreshStored, RefreshNotKept, RefreshRevoked, RefreshFails
    <3>. QED
      BY <3>1
  <2>. QED
    BY <2>1, <2>2
<1>3. signedOut => cred' = NoCred /\ ~Asking(c)'
  <2>. SUFFICES ASSUME signedOut PROVE cred' = NoCred /\ ~Asking(c)'
    OBVIOUS
  <2>1. cred = NoCred /\ ~Asking(c)
    BY DEF OutStays
  <2>2. caller'[c].pc \notin {"sent", "answered"}
    <3>1. CASE Locked(c)
      <4>1. \E what \in Told : Returns(c, what)
        BY <2>1, <3>1 DEF Locked, Told
      <4>. QED
        BY <4>1 DEF Returns, AuthTypes, CallerState
    <3>2. CASE ~Locked(c)
      <4>1. caller'[c].pc \notin {"sent", "answered"} \/ caller[c].pc = "sent" \/ Locked(c)
        BY <3>2, TurnSteps DEF TurnNext, EnsureFresh, ForceRefresh, ServerRefreshes, ServerUnreachable,
               RefreshStored, RefreshNotKept, RefreshRevoked, RefreshFails, AccessToken
      <4>. QED
        BY <2>1, <3>2, <4>1 DEF Asking
    <3>. QED
      BY <3>1, <3>2
  <2>3. UNCHANGED cred
    BY <2>1 DEF Asking, TurnNext, EnsureFresh, ForceRefresh, Locked, ServerRefreshes, ServerUnreachable,
         RefreshStored, RefreshNotKept, RefreshRevoked, RefreshFails, AccessToken
  <2>. QED
    BY <2>1, <2>2, <2>3 DEF Asking
<1>4. Calling' = Calling
  BY <1>1 DEF Calling
<1>5. OutStays'
  BY <1>1, <1>3, <1>4, TurnsApart DEF OutStays, OthersStay, Asking, Lives
<1>. QED
  BY <1>1, <1>2, <1>5, ProfileOnly

LEMMA HostSteps ==
  ASSUME AuthTypes, HostNext
  PROVE  /\ UNCHANGED <<tokens, caller, lockQueue, logins, slot, logout, strayed, rotated, signedOut>>
         /\ profile'.pending => profile.pending
         /\ UNCHANGED cred \/ (cred # NoCred /\ cred'.rt = cred.rt)
<1>. profile \in ProfileState /\ cred \in [rt : Nat, fresh : BOOLEAN]
  BY DEF AuthTypes
<1>1. CASE ApplyEvent
  <2>1. Head(lifecycle) \in Told \union {"loginFailed"}
    BY <1>1, HeadTailProperties DEF ApplyEvent, AuthTypes
  <2>. QED
    BY <1>1, <2>1, RecordedTyped DEF ApplyEvent
<1>2. CASE LoaderReads
  BY <1>2 DEF LoaderReads
<1>3. CASE RecordInitialCredentials
  BY <1>3 DEF RecordInitialCredentials, ProfileState
<1>4. CASE TokenAges
  BY <1>4 DEF TokenAges, NoCred
<1>. QED
  BY <1>1, <1>2, <1>3, <1>4 DEF HostNext

-----------------------------------------------------------------------------
(* The theorem.                                                               *)

LEMMA AuthStarts == AuthInit => AuthInv
<1>. SUFFICES ASSUME AuthInit PROVE AuthInv
  OBVIOUS
<1>. USE AuthBounds DEF AuthInit
<1>1. AuthTypes
  <2>1. cred \in [rt : Nat, fresh : BOOLEAN] /\ tokens \in [good : SUBSET Nat, last : Nat]
    <3>1. tokens = [good |-> {1}, last |-> 1]
      OBVIOUS
    <3>2. tokens \in [good : SUBSET Nat, last : Nat]
      BY <3>1
    <3>3. cred \in [rt : Nat, fresh : BOOLEAN]
      <4>1. cred \in {NoCred, [rt |-> 1, fresh |-> FALSE]}
        OBVIOUS
      <4>2. NoCred \in [rt : Nat, fresh : BOOLEAN] /\ [rt |-> 1, fresh |-> FALSE] \in [rt : Nat, fresh : BOOLEAN]
        BY DEF NoCred
      <4>. QED
        BY <4>1, <4>2
    <3>. QED
      BY <3>2, <3>3
  <2>2. caller \in [Callers -> CallerState]
    BY DEF CallerState
  <2>3. logins \in [Logins -> LoginState]
    BY DEF LoginState
  <2>4. profile \in ProfileState
    BY DEF ProfileState
  <2>5. lockQueue \in Seq(Callers) /\ lifecycle \in Seq(Told \union {"loginFailed"})
    BY EmptySeq
  <2>6. logout \in [pc : {"idle", "cancelling", "deleting", "recording"}, took : 0 .. MaxLogins, n : Nat, beside : BOOLEAN]
    OBVIOUS
  <2>. QED
    BY <2>1, <2>2, <2>3, <2>4, <2>5, <2>6 DEF AuthTypes
<1>2. LockIsHeld /\ RotatedOnce /\ ReturnsKnown
  BY DEF LockIsHeld, RotatedOnce, ReturnsKnown, Asking
<1>3. TokensGrow
  BY DEF TokensGrow, Asking, Answered, NoCred
<1>4. \A l \in Logins : ~Lives(l) /\ ~IsCalling(l) /\ ~logins[l].cancelled
  BY DEF Lives, Live, IsCalling
<1>5. 0 \notin Logins /\ ~Calling
  BY <1>4 DEF Logins, Calling, IsCalling
<1>6. SlotOwned /\ PendingOwned /\ OutStays
  BY <1>4, <1>5 DEF SlotOwned, PendingOwned, OutStays
<1>. QED
  BY <1>1, <1>2, <1>3, <1>6 DEF AuthInv

LEMMA AuthKept == AuthInv /\ [AuthNext]_authVars => AuthInv'
<1>. SUFFICES ASSUME AuthInv, [AuthNext]_authVars PROVE AuthInv'
  OBVIOUS
<1>. USE DEF AuthInv
<1>1. CASE HostNext
  <2>1. UNCHANGED <<tokens, caller, lockQueue, logins, slot, logout, strayed, rotated, signedOut>>
    BY <1>1, HostSteps
  <2>2. LockIsHeld' /\ ReturnsKnown'
    BY <2>1 DEF LockIsHeld, ReturnsKnown, Asking, Queued
  <2>3. TokensGrow' /\ RotatedOnce'
    BY <1>1, <2>1, HostSteps, TokensElsewhere
  <2>4. SlotOwned' /\ PendingOwned'
    BY <1>1, HostSteps, ProfileOnly
  <2>5. OutStays'
    BY <1>1, <2>1, HostSteps DEF OutStays, Calling, Lives, Asking
  <2>. QED
    BY <1>1, <2>2, <2>3, <2>4, <2>5, HostTypes
<1>2. CASE \E c \in Callers : TurnNext(c)
  BY <1>2, TurnTypes, LockStep, TokensTurn, ReturnsStep, LoginsBesideTurn
<1>3. ASSUME NEW l \in Logins, LoginNext(l) PROVE AuthInv'
  <2>1. UNCHANGED <<cred, caller, lockQueue, tokens, rotated>>
    BY <1>3 DEF LoginNext, Login, RecordPendingLogin, LoginFails, SpawnCompletionWorker, ReplacePendingLogin, Others
  <2>2. LockIsHeld' /\ ReturnsKnown'
    BY <2>1 DEF LockIsHeld, ReturnsKnown, Asking, Queued
  <2>3. TokensGrow' /\ RotatedOnce'
    BY <2>1, TokensElsewhere
  <2>. QED
    BY <1>3, <2>2, <2>3, LoginTypes, SlotLogin, PendingLogin, OutLogin
<1>4. ASSUME NEW l \in Logins, WorkerNext(l) PROVE AuthInv'
  <2>1. /\ UNCHANGED <<caller, lockQueue, rotated>>
        /\ \/ UNCHANGED <<cred, tokens>>
           \/ cred'.rt = tokens.last + 1 /\ tokens'.last = tokens.last + 1
    BY <1>4 DEF WorkerNext, AwaitCode, CallbackTimeout, ExchangeCode, WorkerStops, StoreLoginCredentials, LoginEmits,
         WorkerConnected, RecordLoginCompletionFailed, Others
  <2>2. LockIsHeld' /\ ReturnsKnown'
    BY <2>1 DEF LockIsHeld, ReturnsKnown, Asking, Queued
  <2>3. TokensGrow' /\ RotatedOnce'
    BY <2>1, TokensElsewhere
  <2>. QED
    BY <1>4, <2>2, <2>3, LoginTypes, SlotWorker, PendingWorker, OutWorker
<1>5. CASE LogoutNext
  <2>1. /\ UNCHANGED <<caller, lockQueue, rotated>>
        /\ \/ UNCHANGED <<cred, tokens.last>>
           \/ cred' = NoCred /\ UNCHANGED tokens
    BY <1>5 DEF LogoutNext, Logout, RevokeToken, DeleteCredentials, LogoutFails, RecordLogout, Others, AuthTypes
  <2>2. LockIsHeld' /\ ReturnsKnown'
    BY <2>1 DEF LockIsHeld, ReturnsKnown, Asking, Queued
  <2>3. TokensGrow' /\ RotatedOnce'
    BY <2>1, TokensElsewhere
  <2>. QED
    BY <1>5, <2>2, <2>3, LogoutTypes, SlotLogout, PendingLogout, OutLogout
<1>6. CASE UNCHANGED authVars
  BY <1>6 DEF authVars, AuthTypes, LockIsHeld, TokensGrow, RotatedOnce, ReturnsKnown, SlotOwned, PendingOwned, OutStays,
         Asking, Queued, Answered, IsCalling, Lives, Calling
<1>. QED
  BY <1>1, <1>2, <1>3, <1>4, <1>5, <1>6 DEF AuthNext

LEMMA AuthPromises == AuthInv => AuthSound
<1>. SUFFICES ASSUME AuthInv PROVE PendingIsBacked
  BY DEF AuthInv, AuthSound, OutStays, LogoutLasts
<1>1. strayed \in BOOLEAN
  BY DEF AuthInv, AuthTypes
<1>. QED
  BY <1>1 DEF AuthInv, PendingOwned, PendingIsBacked, Lives

\* In every execution, whatever the number of turns, logins and tokens: a refresh token whose
\* successor is stored is not sent again, a pending login is backed by something that ends it,
\* and a logout that nothing ran beside keeps the credentials away until the next login.
THEOREM AuthAlwaysSound == AuthSpec => []AuthSound
<1>1. AuthInit => AuthInv
  BY AuthStarts
<1>2. AuthInv /\ [AuthNext]_authVars => AuthInv'
  BY AuthKept
<1>3. AuthInv => AuthSound
  BY AuthPromises
<1>. QED
  BY <1>1, <1>2, <1>3, PTL DEF AuthSpec

-----------------------------------------------------------------------------
(***************************************************************************)
(* The inductive invariant of the turn loop.  LoopKept places the loop in  *)
(* the turn; ConsentsKept ties the tables of approvals to the tasks that   *)
(* wait for them; LogKept and SessionKept tie the stream and the session   *)
(* to Owed, the calls of the turn that have no result yet: they are the    *)
(* ones the stream may still close and the session must still answer.      *)
(***************************************************************************)
Pairs == Nat \X Nat
TurnMessages == [role : {"user", "assistant", "tool", "repaired"},
                 calls : Seq(Pairs), of : Pairs \cup {<<>>}]
TurnFrames == [kind : FrameKinds, turn : Nat, item : Pairs \cup {<<>>}]
TaskStates == {"queued", "spawned", "waiting", "running", "result", "failed"}

LoopTypes ==
    /\ pc \in {"top", "stream", "settle", "announce", "tools", "results", "done"}
    /\ turns \in 0..MaxTurns
    /\ contextRetries \in 0..MaxContextRetries /\ continuations \in 0..MaxContinuations
    /\ calls \in Replies \cup {<<>>}
    /\ announced \in 0..Len(calls) /\ taken \in 0..Len(calls)
    /\ group \in Pairs /\ group[1] >= 1 /\ group[2] >= group[1] - 1 /\ group[2] <= Len(calls)
    /\ group = NoGroup \/ group[1] <= group[2]
    /\ task \in [Positions -> TaskStates]

StreamTypes ==
    /\ history \in Seq(TurnMessages)
    /\ log \in Seq(TurnFrames) /\ views \in Seq(Seq(TurnMessages)) /\ Len(views) = Len(log)

ApprovalTypes ==
    /\ DOMAIN asked \subseteq Pairs
    /\ bridge \in [DOMAIN asked -> {"pending", "allow", "deny", "interrupted"}]
    /\ asked \in [DOMAIN asked -> {"pending", "approved", "rejected"}]
    /\ undelivered \subseteq DOMAIN asked
    /\ cancelled \in BOOLEAN /\ live \in BOOLEAN
    /\ outcome \in {"none", "completed", "failed", "cancelled"}

AgentTypes == LoopTypes /\ StreamTypes /\ ApprovalTypes

LoopKept ==
    /\ pc = "done" => ~live
    /\ pc = "announce" =>
          /\ announced < Len(calls) /\ taken = 0 /\ group = NoGroup
          /\ \A i \in Positions : task[i] = "queued"
    /\ pc \in {"tools", "results"} => announced = Len(calls) /\ calls # <<>>
    /\ pc = "tools" =>
          /\ taken \in (group[1] - 1)..group[2]
          /\ \A i \in 1..taken : task[i] = "result"
    /\ pc = "results" => taken < Len(calls) /\ \A i \in Positions : task[i] = "result"

\* The calls of the turn whose result the session still owes.
Owed ==
    { Call(i) : i \in { j \in Positions :
                          \/ pc \in {"announce", "tools"}
                          \/ pc = "results" /\ j > taken } }

Early == pc \in {"stream", "settle", "announce"}

ConsentsKept ==
    /\ \A c \in DOMAIN asked :
          /\ c[1] <= turns
          /\ Early => c[1] < turns
          /\ bridge[c] = "allow" => asked[c] = "approved"
          /\ bridge[c] # "pending" => asked[c] # "pending"
          /\ c \in undelivered => asked[c] # "pending"
          /\ live /\ asked[c] = "pending" =>
                pc = "tools" /\ \E i \in Positions : c = Call(i) /\ task[i] = "waiting"
          /\ outcome = "completed" => asked[c] # "pending"
    /\ pc = "tools" => \A i \in Positions :
          /\ task[i] \in {"queued", "spawned"} => Call(i) \notin DOMAIN asked
          /\ task[i] = "waiting" => Call(i) \in DOMAIN asked
    /\ outcome = "completed" => ~live
    /\ RanWithConsent

Closed(l, c) == \E j \in 1..Len(l) : l[j].kind = "callCompleted" /\ l[j].item = c

LogKept ==
    /\ \A j \in 1..Len(log) : log[j].kind \in {"callStarted", "callCompleted"} =>
          /\ log[j].item \in Pairs
          /\ log[j].item[1] <= turns
          /\ pc \in {"stream", "settle"} => log[j].item[1] < turns
    /\ \A j \in 1..Len(log) : log[j].kind = "callCompleted" =>
          /\ log[j].item \in Owed => pc = "tools" /\ task[log[j].item[2]] = "failed"
          /\ \A i \in 1..Len(log) :
                log[i].kind = "callCompleted" /\ log[i].item = log[j].item => i = j
          /\ \E i \in 1..(j - 1) : log[i].kind = "callStarted" /\ log[i].item = log[j].item
    /\ pc \in {"announce", "tools", "results"} =>
          \A i \in 1..announced : \E j \in 1..Len(log) :
             log[j].kind = "callStarted" /\ log[j].item = Call(i)
    /\ \A j \in 1..Len(log) : log[j].kind = "callStarted" /\ pc # "done" =>
          log[j].item \in Owed \/ Closed(log, log[j].item)
    /\ outcome = "completed" =>
          \A j \in 1..Len(log) : log[j].kind = "callStarted" => Closed(log, log[j].item)

Answers(h, m, c) ==
    \E r \in (m + 1)..Len(h) :
        /\ h[r].of = c /\ h[r].role = "tool"
        /\ \A q \in 1..Len(h) : h[q].of = c => q = r
SessionKept ==
    pc # "done" =>
    /\ Len(history) >= 1 /\ history[1].calls = <<>>
    /\ \A m \in 1..Len(history) : \A n \in 1..Len(history[m].calls) :
          LET c == history[m].calls[n]
          IN  /\ c[1] <= turns
              /\ pc \in {"stream", "settle"} => c[1] < turns
              /\ c \in Owed \/ Answers(history, m, c)
    /\ \A r \in 1..Len(history) : history[r].of # <<>> =>
          /\ history[r].of[1] <= turns
          /\ pc \in {"stream", "settle"} => history[r].of[1] < turns
          /\ history[r].of \notin Owed

TurnInvariant == AgentTypes /\ LoopKept /\ ConsentsKept /\ LogKept /\ SessionKept

-----------------------------------------------------------------------------
LEMMA EmptyIsNoPair ==
    ASSUME NEW i, NEW j PROVE <<i, j>> # <<>>
BY Len(<<i, j>>) = 2, Len(<<>>) = 0

LEMMA EmptyIsNone == <<>> \notin Pairs
BY EmptyIsNoPair DEF Pairs

LEMMA CallIsPair ==
    ASSUME turns \in Nat, NEW i \in Nat
    PROVE  /\ Call(i) \in Pairs /\ Call(i)[1] = turns /\ Call(i)[2] = i
           /\ Call(i) # <<>>
BY EmptyIsNoPair DEF Call, Pairs

LEMMA OneMore ==
    ASSUME NEW S, NEW s \in Seq(S), NEW e \in S
    PROVE  /\ s \o <<e>> \in Seq(S) /\ Len(s \o <<e>>) = Len(s) + 1
           /\ \A i \in 1..Len(s) : (s \o <<e>>)[i] = s[i]
           /\ (s \o <<e>>)[Len(s) + 1] = e
<1>1. <<e>> \in Seq(S) /\ Len(<<e>>) = 1 /\ <<e>>[1] = e
    OBVIOUS
<1> QED BY <1>1, ConcatProperties

LEMMA FrameKind ==
    ASSUME NEW kind \in FrameKinds, NEW turn \in Nat, NEW item \in Pairs \cup {<<>>}
    PROVE  /\ Frame(kind, turn, item) \in TurnFrames
           /\ Frame(kind, turn, item).kind = kind /\ Frame(kind, turn, item).item = item
BY DEF Frame, TurnFrames

LEMMA MessageKinds ==
    /\ User \in TurnMessages
    /\ \A s \in Seq(Pairs) : Assistant(s) \in TurnMessages
    /\ \A c \in Pairs : ToolResult(c) \in TurnMessages /\ Repaired(c) \in TurnMessages
<1>1. <<>> \in Seq(Pairs)
    OBVIOUS
<1> QED BY <1>1 DEF User, Assistant, ToolResult, Repaired, TurnMessages

\* What a frame that is committed does to the stream.
Adds(f) ==
    /\ log' \in Seq(TurnFrames) /\ Len(log') = Len(log) + 1
    /\ \A j \in 1..Len(log) : log'[j] = log[j]
    /\ log'[Len(log) + 1] = f
    /\ views' \in Seq(Seq(TurnMessages)) /\ Len(views') = Len(log')

LEMMA CommitAdds ==
    ASSUME AgentTypes, NEW f \in TurnFrames, NEW seen \in Seq(TurnMessages),
           CommitSeeing(<<f>>, seen)
    PROVE  Adds(f)
<1>1. log \in Seq(TurnFrames) /\ views \in Seq(Seq(TurnMessages)) /\ Len(views) = Len(log)
    BY DEF AgentTypes, StreamTypes, ApprovalTypes
<1>2. log' = log \o <<f>> /\ views' = views \o [i \in 1..Len(<<f>>) |-> seen]
    BY DEF CommitSeeing
<1>3. Len(<<f>>) = 1
    OBVIOUS
<1>4. [i \in 1..1 |-> seen] = <<seen>>
    OBVIOUS
<1>5. views' = views \o <<seen>>
    BY <1>2, <1>3, <1>4
<1>6. /\ log' \in Seq(TurnFrames) /\ Len(log') = Len(log) + 1
      /\ \A j \in 1..Len(log) : log'[j] = log[j]
      /\ log'[Len(log) + 1] = f
    BY <1>1, <1>2, OneMore
<1>7. views' \in Seq(Seq(TurnMessages)) /\ Len(views') = Len(views) + 1
    <2> DEFINE V == Seq(TurnMessages)
    <2>1. views \in Seq(V) /\ seen \in V
        BY <1>1
    <2> HIDE DEF V
    <2>2. views \o <<seen>> \in Seq(V) /\ Len(views \o <<seen>>) = Len(views) + 1
        BY <2>1, OneMore
    <2> QED BY <2>2, <1>5 DEF V
<1> QED BY <1>1, <1>6, <1>7 DEF Adds

\* A step leaves the stream as it is or adds the frame f to it.
Kept == log' = log /\ views' = views

LEMMA EndAdds ==
    ASSUME AgentTypes, NEW how \in {"completed", "failed"}, NEW why, End(how, why)
    PROVE  /\ pc' = "done" /\ live' = FALSE
           /\ live => outcome' = how /\ Adds(Frame("run", 0, <<>>))
           /\ ~live => outcome' = outcome /\ Kept
<1>1. live \in BOOLEAN /\ history \in Seq(TurnMessages)
    BY DEF AgentTypes, StreamTypes, ApprovalTypes
<1>2. Frame("run", 0, <<>>) \in TurnFrames
    BY FrameKind DEF FrameKinds
<1>3. CASE live
    <2>1. CommitSeeing(<<Frame("run", 0, <<>>)>>, history)
        BY <1>3 DEF End, Commit
    <2> QED BY <1>1, <1>2, <1>3, <2>1, CommitAdds DEF End
<1>4. CASE ~live
    BY <1>1, <1>4 DEF End, Silent, Kept
<1> QED BY <1>1, <1>3, <1>4

-----------------------------------------------------------------------------
\* Replies are sequences of tools, so the calls of a turn have positions.
LEMMA CallsAreListed ==
    ASSUME NEW r \in Replies \cup {<<>>}
    PROVE  r \in Seq(DOMAIN Policy) /\ Len(r) \in Nat
<1>1. CASE r \in Replies
    BY <1>1, TurnAssumption
<1>2. CASE r = <<>>
    BY <1>2
<1> QED BY <1>1, <1>2

LEMMA LoopNumbers ==
    ASSUME LoopTypes
    PROVE  /\ turns \in Nat /\ Len(calls) \in Nat /\ taken \in Nat /\ announced \in Nat
           /\ group[1] \in Nat /\ group[2] \in Nat /\ Positions = 1..Len(calls)
           /\ InGroup \subseteq Positions
           /\ \A i \in Positions : i \in Nat
<1>1. Len(calls) \in Nat
    BY CallsAreListed DEF LoopTypes
<1>2. group[1] \in Nat /\ group[2] \in Nat
    BY DEF LoopTypes, Pairs
<1>3. turns \in Nat /\ taken \in Nat /\ announced \in Nat
    BY <1>1, TurnAssumption DEF LoopTypes
<1>4. Positions = 1..Len(calls)
    BY DEF Positions
<1>5. InGroup \subseteq Positions /\ \A i \in Positions : i \in Nat
    BY <1>1, <1>2, <1>4 DEF LoopTypes, InGroup
<1> QED BY <1>1, <1>2, <1>3, <1>4, <1>5

LEMMA SmallestPosition ==
    ASSUME NEW S \in SUBSET Nat, NEW k \in S
    PROVE  \E m \in S : \A n \in S : m <= n
<1>1. PICK m \in S : \A n \in S : <<n, m>> \notin OpToRel(<, Nat)
    BY WFMin, NatLessThanWellFounded
<1>2. \A n \in S : ~(n < m)
    BY <1>1 DEF OpToRel
<1> QED BY <1>2

\* The safe calls from a position on end somewhere.
LEMMA SafeUntilEnds ==
    ASSUME LoopTypes, NEW i \in Positions
    PROVE  SafeUntil(i) \in (i - 1)..Len(calls)
<1> DEFINE End0(j) == j < Len(calls) => calls[j + 1] \notin ParallelSafe
           S == { j \in (i - 1)..Len(calls) : End0(j) }
<1>1. Len(calls) \in Nat /\ i \in 1..Len(calls)
    BY LoopNumbers
<1>2. Len(calls) \in S /\ S \in SUBSET Nat
    BY <1>1
<1>3. PICK m \in S : \A n \in S : m <= n
    BY <1>2, SmallestPosition
<1>4. m \in (i - 1)..Len(calls) /\ End0(m) /\ m \in Nat
    BY <1>1, <1>3
<1>5. \A k \in i..m : calls[k] \in ParallelSafe
    <2> SUFFICES ASSUME NEW k \in i..m, calls[k] \notin ParallelSafe PROVE FALSE
        OBVIOUS
    <2>1. k - 1 \in (i - 1)..Len(calls) /\ (k - 1) + 1 = k
        BY <1>1, <1>4
    <2>2. k - 1 \in S
        BY <2>1
    <2>3. m <= k - 1
        BY <2>2, <1>3
    <2> QED BY <2>1, <2>3, <1>1, <1>4
<1> QED BY <1>4, <1>5 DEF SafeUntil

LEMMA GroupEnds ==
    ASSUME LoopTypes, NEW i \in Positions
    PROVE  GroupEnd(i) \in i..Len(calls)
<1>1. Len(calls) \in Nat /\ i \in 1..Len(calls)
    BY LoopNumbers
<1>2. SafeUntil(i) \in (i - 1)..Len(calls)
    BY SafeUntilEnds
<1> QED BY <1>1, <1>2 DEF GroupEnd

-----------------------------------------------------------------------------
\* Outside the tools of a turn nothing is owed, so a request repairs nothing.
LEMMA NothingOwed ==
    ASSUME pc \notin {"announce", "tools", "results"} PROVE Owed = {}
BY DEF Owed

LEMMA SessionIsWhole ==
    ASSUME StreamTypes, SessionKept, pc = "top" PROVE Repair(history) = history
<1>1. history \in Seq(TurnMessages) /\ Len(history) \in Nat
    BY DEF StreamTypes
<1>2. Owed = {}
    BY NothingOwed
<1>3. ASSUME NEW m \in 1..Len(history), NEW n \in 1..Len(history[m].calls)
      PROVE  \E r \in 1..Len(history) : history[r].of = history[m].calls[n]
    <2>1. Answers(history, m, history[m].calls[n])
        BY <1>2 DEF SessionKept
    <2>2. PICK r \in (m + 1)..Len(history) : history[r].of = history[m].calls[n]
        BY <2>1 DEF Answers
    <2> QED BY <2>2, <1>1
<1>4. Whole(history)
    BY <1>3 DEF Whole
<1> QED BY <1>4 DEF Repair

LEMMA Compacted ==
    ASSUME NEW h \in Seq(TurnMessages), Len(h) >= 1
    PROVE  /\ Compact(h) \in Seq(TurnMessages)
           /\ Len(h) > 2 =>
                /\ Len(Compact(h)) = Len(h) - 1 /\ Compact(h)[1] = h[1]
                /\ \A i \in 2..(Len(h) - 1) : Compact(h)[i] = h[i + 1]
           /\ Len(h) <= 2 => Compact(h) = h
<1>1. CASE Len(h) > 2
    <2> DEFINE a == SubSeq(h, 1, 1) b == SubSeq(h, 3, Len(h))
    <2>1. a \in Seq(TurnMessages) /\ Len(a) = 1 /\ a[1] = h[1]
        BY <1>1, SubSeqProperties
    <2>2. b \in Seq(TurnMessages) /\ Len(b) = Len(h) - 2
          /\ \A i \in 1..(Len(h) - 2) : b[i] = h[i + 2]
        BY <1>1, SubSeqProperties
    <2>3. Compact(h) = a \o b
        BY <1>1 DEF Compact, RemoveAt
    <2> HIDE DEF a, b
    <2>d. a \o b \in Seq(TurnMessages) /\ Len(a \o b) = Len(a) + Len(b)
        BY <2>1, <2>2, ConcatProperties
    <2>c. \A i \in 1..(Len(a) + Len(b)) :
             (a \o b)[i] = IF i <= Len(a) THEN a[i] ELSE b[i - Len(a)]
        BY <2>1, <2>2, ConcatProperties
    <2>e. 1 \in 1..(Len(a) + Len(b)) /\ Len(a) + Len(b) = Len(h) - 1
        BY <1>1, <2>1, <2>2
    <2>4. a \o b \in Seq(TurnMessages) /\ Len(a \o b) = Len(h) - 1
          /\ (a \o b)[1] = h[1]
        BY <2>1, <2>c, <2>d, <2>e
    <2>5. ASSUME NEW i \in 2..(Len(h) - 1) PROVE (a \o b)[i] = h[i + 1]
        <3>1. i \in 1..(Len(a) + Len(b)) /\ ~(i <= Len(a)) /\ i - Len(a) = i - 1
            BY <1>1, <2>1, <2>2
        <3>2. (a \o b)[i] = b[i - Len(a)]
            BY <2>c, <3>1
        <3>3. i - 1 \in 1..(Len(h) - 2) /\ (i - 1) + 2 = i + 1
            BY <1>1
        <3> QED BY <3>1, <3>2, <3>3, <2>2
    <2> QED BY <1>1, <2>3, <2>4, <2>5
<1>2. CASE Len(h) <= 2
    BY <1>2 DEF Compact
<1> QED BY <1>1, <1>2

-----------------------------------------------------------------------------
(***************************************************************************)
(* Types.  The stream and the approvals first: every step keeps the events *)
(* it finds and the table of approvals it finds.                           *)
(***************************************************************************)
LEMMA InterruptTypes ==
    ASSUME ApprovalTypes, NEW S, Interrupt(S)
    PROVE  /\ DOMAIN asked' = DOMAIN asked
           /\ bridge' \in [DOMAIN asked -> {"pending", "allow", "deny", "interrupted"}]
           /\ asked' \in [DOMAIN asked -> {"pending", "approved", "rejected"}]
           /\ \A c \in DOMAIN asked :
                 /\ c \in Interruptible(S) => bridge'[c] = "interrupted" /\ asked'[c] = "rejected"
                 /\ c \notin Interruptible(S) => bridge'[c] = bridge[c] /\ asked'[c] = asked[c]
<1>1. DOMAIN bridge = DOMAIN asked
    BY DEF ApprovalTypes
<1>2. bridge' = [c \in DOMAIN asked |-> IF c \in Interruptible(S) THEN "interrupted" ELSE bridge[c]]
      /\ asked' = [c \in DOMAIN asked |-> IF c \in Interruptible(S) THEN "rejected" ELSE asked[c]]
    BY <1>1 DEF Interrupt
<1> QED BY <1>2 DEF ApprovalTypes

LEMMA EnteredTypes ==
    ASSUME NEW T, "pending" \in T, NEW table, table \in [DOMAIN table -> T], NEW call
    PROVE  /\ Entered(table, call) \in [DOMAIN table \cup {call} -> T]
           /\ DOMAIN Entered(table, call) = DOMAIN table \cup {call}
           /\ Entered(table, call)[call] = "pending"
           /\ \A c \in DOMAIN table \ {call} : Entered(table, call)[c] = table[c]
BY DEF Entered

EndKeeps == outcome' \in {"none", "completed", "failed", "cancelled"} /\ live' \in BOOLEAN

LEMMA EndTypes ==
    ASSUME AgentTypes, NEW how \in {"completed", "failed"}, NEW why, End(how, why)
    PROVE  pc' = "done" /\ EndKeeps /\ (Kept \/ Adds(Frame("run", 0, <<>>)))
<1>1. live \in BOOLEAN /\ outcome \in {"none", "completed", "failed", "cancelled"}
    BY DEF AgentTypes, ApprovalTypes
<1> QED BY <1>1, EndAdds DEF EndKeeps

LEMMA AddedTypes ==
    ASSUME StreamTypes, history' \in Seq(TurnMessages), Kept \/ \E f : Adds(f)
    PROVE  StreamTypes'
BY DEF StreamTypes, Kept, Adds

LEMMA QuietApprovals ==
    ASSUME ApprovalTypes, UNCHANGED approvalVars, cancelled' \in BOOLEAN, EndKeeps
    PROVE  ApprovalTypes'
BY DEF ApprovalTypes, approvalVars, EndKeeps

LEMMA LiveKept ==
    ASSUME ApprovalTypes, UNCHANGED endVars PROVE EndKeeps
BY DEF ApprovalTypes, endVars, EndKeeps

-----------------------------------------------------------------------------
LEMMA LoopTypesStep ==
    ASSUME AgentTypes, LoopKept, Next PROVE LoopTypes'
<1> USE DEF AgentTypes
<1>n. /\ turns \in Nat /\ Len(calls) \in Nat /\ taken \in Nat /\ announced \in Nat
      /\ group[1] \in Nat /\ group[2] \in Nat /\ Positions = 1..Len(calls)
      /\ InGroup \subseteq Positions
    BY LoopNumbers
<1>m. MaxTurns \in Nat /\ MaxContextRetries \in Nat /\ MaxContinuations \in Nat
    BY TurnAssumption
<1>q. ASSUME UNCHANGED loopVars, UNCHANGED task PROVE LoopTypes'
    BY <1>q DEF LoopTypes, loopVars, Positions
<1>t. ASSUME NEW i \in Positions, NEW s \in TaskStates,
             UNCHANGED loopVars, task' = [task EXCEPT ![i] = s]
      PROVE  LoopTypes'
    <2>1. Positions' = Positions
        BY <1>t DEF loopVars, Positions
    <2>2. task' \in [Positions -> TaskStates]
        BY <1>t DEF LoopTypes
    <2> QED BY <1>t, <2>1, <2>2 DEF LoopTypes, loopVars
<1>e. \A how, why : End(how, why) => pc' = "done"
    BY DEF End
<1>p. ASSUME UNCHANGED calls PROVE Positions' = Positions
    BY <1>p DEF Positions
<1>1. ASSUME BeginTurn PROVE LoopTypes'
    <2>1. \/ pc' = "done" /\ turns' = turns
          \/ pc' = "stream" /\ turns' = turns + 1 /\ ~(turns >= MaxTurns)
        BY <1>1, <1>e, Zenon DEF BeginTurn, Fail
    <2>2. pc' \in {"done", "stream"} /\ turns' \in 0..MaxTurns
        BY <2>1, <1>n, <1>m DEF LoopTypes
    <2> QED BY <1>1, <1>p, <2>2 DEF BeginTurn, LoopTypes
<1>2. ASSUME StreamTooLong PROVE LoopTypes'
    <2>1. pc' \in {"done", "top"} /\ contextRetries' \in 0..MaxContextRetries
        BY <1>2, <1>e, <1>m DEF StreamTooLong, Fail, LoopTypes
    <2> QED BY <1>2, <1>p, <2>1 DEF StreamTooLong, LoopTypes
<1>3. ASSUME StreamFails PROVE LoopTypes'
    BY <1>3, <1>p, <1>e DEF StreamFails, Fail, LoopTypes
<1>4. ASSUME NEW reply \in Replies, StreamCompletes(reply) PROVE LoopTypes'
    <2>1. pc' \in {"done", "settle", "announce"}
        BY <1>4, <1>e DEF StreamCompletes, Fail
    <2>2. /\ turns' = turns /\ contextRetries' = 0 /\ continuations' = continuations
          /\ calls' = reply /\ announced' = 0 /\ taken' = 0 /\ group' = NoGroup
          /\ task' = [i \in 1..Len(reply) |-> "queued"]
        BY <1>4 DEF StreamCompletes
    <2>3. Len(reply) \in Nat
        BY CallsAreListed
    <2>4. Positions' = 1..Len(reply)
        BY <2>2 DEF Positions
    <2>5. task' \in [Positions' -> TaskStates]
        BY <2>2, <2>4 DEF TaskStates
    <2>6. group' \in Pairs /\ group'[1] = 1 /\ group'[2] = 0
        BY <2>2 DEF NoGroup, Pairs
    <2> QED BY <2>1, <2>2, <2>3, <2>5, <2>6, <1>m DEF LoopTypes
<1>5. ASSUME Settle PROVE LoopTypes'
    <2>1. \/ pc' = "done" /\ continuations' = continuations
          \/ pc' = "top" /\ continuations' = continuations + 1 /\ continuations < MaxContinuations
        BY <1>5, <1>e, Zenon DEF Settle, Fail
    <2>2. pc' \in {"done", "top"} /\ continuations' \in 0..MaxContinuations
        BY <2>1, <1>m DEF LoopTypes
    <2> QED BY <1>5, <1>p, <2>2 DEF Settle, LoopTypes
<1>6. ASSUME AnnounceCall PROVE LoopTypes'
    <2>1. pc' \in {"done", "tools", "announce"} /\ continuations' \in 0..MaxContinuations
        BY <1>6, <1>e, <1>m DEF AnnounceCall, Fail, LoopTypes
    <2>2. announced' \in 0..Len(calls)
        BY <1>6, <1>n DEF AnnounceCall, LoopTypes, LoopKept
    <2> QED BY <1>6, <1>p, <2>1, <2>2 DEF AnnounceCall, LoopTypes
<1>7. ASSUME NextGroup PROVE LoopTypes'
    <2> DEFINE i == taken + 1
    <2>1. /\ UNCHANGED <<turns, contextRetries, continuations, calls, announced, task>>
          /\ pc = "tools"
        BY <1>7 DEF NextGroup
    <2>2. CASE i > Len(calls)
        <3>1. pc' = "results" /\ taken' = 0 /\ group' = NoGroup
            BY <1>7, <2>2 DEF NextGroup
        <3>2. group' \in Pairs /\ group'[1] = 1 /\ group'[2] = 0
            BY <3>1 DEF NoGroup, Pairs
        <3> QED BY <1>p, <1>n, <2>1, <3>1, <3>2 DEF LoopTypes
    <2>3. CASE i <= Len(calls) /\ UnknownAhead(i)
        <3>1. Fail("tool") /\ UNCHANGED <<taken, group>>
            BY <1>7, <1>n, <2>3 DEF NextGroup
        <3> QED BY <1>p, <1>e, <2>1, <3>1 DEF LoopTypes, Fail
    <2>4. CASE i <= Len(calls) /\ ~UnknownAhead(i)
        <3>1. group' = <<i, GroupEnd(i)>> /\ pc' = pc /\ taken' = taken
            BY <1>7, <1>n, <2>4 DEF NextGroup
        <3>2. GroupEnd(i) \in i..Len(calls)
            BY <1>n, <2>4, GroupEnds
        <3>3. /\ group' \in Pairs /\ group'[1] = i /\ group'[2] = GroupEnd(i)
              /\ i >= 1 /\ GroupEnd(i) >= i - 1 /\ GroupEnd(i) <= Len(calls) /\ i <= GroupEnd(i)
            BY <1>n, <3>1, <3>2 DEF Pairs
        <3> QED BY <1>p, <2>1, <3>1, <3>3 DEF LoopTypes
    <2> QED BY <1>n, <2>2, <2>3, <2>4
<1>8. ASSUME TakeResult PROVE LoopTypes'
    <2>1. UNCHANGED <<turns, contextRetries, continuations, calls, announced, group, task>>
        BY <1>8 DEF TakeResult
    <2>2. pc' \in {"tools", "done"} /\ taken' \in 0..Len(calls)
        BY <1>8, <1>e, <1>n DEF TakeResult, Fail, LoopTypes
    <2> QED BY <1>p, <2>1, <2>2 DEF LoopTypes
<1>9. ASSUME PublishResult PROVE LoopTypes'
    <2>1. UNCHANGED <<turns, contextRetries, continuations, calls, announced, group, task>>
        BY <1>9 DEF PublishResult
    <2>2. pc' \in {"top", "results", "done"} /\ taken' \in 0..Len(calls)
        BY <1>9, <1>e, <1>n DEF PublishResult, Fail, LoopTypes, LoopKept
    <2> QED BY <1>p, <2>1, <2>2 DEF LoopTypes
<1>10. ASSUME NEW i \in Positions, Spawn(i) PROVE LoopTypes'
    <2>1. UNCHANGED loopVars /\ task' = [task EXCEPT ![i] = "spawned"]
        BY <1>10 DEF Spawn
    <2> QED BY <1>t, <2>1 DEF TaskStates
<1>11. ASSUME NEW i \in Positions, Decide(i) PROVE LoopTypes'
    <2>1. /\ UNCHANGED loopVars
          /\ \E s \in {"running", "result", "failed", "waiting"} : task' = [task EXCEPT ![i] = s]
        BY <1>11 DEF Decide
    <2> QED BY <1>t, <2>1 DEF TaskStates
<1>12. ASSUME NEW i \in Positions, Wake(i) PROVE LoopTypes'
    <2>1. /\ UNCHANGED loopVars
          /\ \E s \in {"running", "failed"} : task' = [task EXCEPT ![i] = s]
        BY <1>12 DEF Wake
    <2> QED BY <1>t, <2>1 DEF TaskStates
<1>13. ASSUME NEW i \in Positions, WakeCancelled(i) PROVE LoopTypes'
    <2>1. UNCHANGED loopVars /\ task' = [task EXCEPT ![i] = "failed"]
        BY <1>13 DEF WakeCancelled
    <2> QED BY <1>t, <2>1 DEF TaskStates
<1>14. ASSUME NEW i \in Positions, ToolReturns(i) PROVE LoopTypes'
    <2>1. UNCHANGED loopVars /\ task' = [task EXCEPT ![i] = "result"]
        BY <1>14 DEF ToolReturns
    <2> QED BY <1>t, <2>1 DEF TaskStates
<1>15. ASSUME OtherThreads PROVE LoopTypes'
    BY <1>15, <1>q DEF OtherThreads, PersonDecides, DeliverDecision, Cancel, CancelCommits
<1> QED BY <1>1, <1>2, <1>3, <1>4, <1>5, <1>6, <1>7, <1>8, <1>9, <1>10, <1>11, <1>12, <1>13, <1>14, <1>15
        DEF Next, LoopStep, TaskStep

-----------------------------------------------------------------------------
LEMMA LoopKeptStep ==
    ASSUME AgentTypes, LoopKept, LoopTypes', Next PROVE LoopKept'
<1> USE DEF AgentTypes
<1>n. /\ turns \in Nat /\ Len(calls) \in Nat /\ taken \in Nat /\ announced \in Nat
      /\ group[1] \in Nat /\ group[2] \in Nat /\ Positions = 1..Len(calls)
      /\ InGroup \subseteq Positions
    BY LoopNumbers
<1>d. ASSUME pc' = "done", live' = FALSE PROVE LoopKept'
    BY <1>d DEF LoopKept
<1>e. ASSUME NEW how \in {"completed", "failed"}, NEW why, End(how, why) PROVE LoopKept'
    BY <1>d, <1>e, EndAdds
<1>t. ASSUME NEW i \in Positions, NEW s \in TaskStates, pc = "tools", task[i] # "result",
             UNCHANGED loopVars, task' = [task EXCEPT ![i] = s]
      PROVE  LoopKept'
    <2>1. Positions' = Positions
        BY <1>t DEF loopVars, Positions
    <2>2. \A j \in Positions : task[j] = "result" => task'[j] = "result"
        BY <1>t DEF LoopTypes
    <2>3. 1..taken \subseteq Positions
        BY <1>n DEF LoopTypes
    <2> QED BY <1>t, <2>1, <2>2, <2>3 DEF LoopKept, loopVars
<1>q. ASSUME UNCHANGED <<calls, announced, taken, group, task>>,
             pc' \in {"top", "stream", "settle"}
      PROVE  LoopKept'
    BY <1>q DEF LoopKept
<1>1. ASSUME BeginTurn PROVE LoopKept'
    <2>1. \/ \E how \in {"completed", "failed"} : \E why : End(how, why)
          \/ pc' = "stream"
        BY <1>1, Zenon DEF BeginTurn, Fail
    <2>2. UNCHANGED <<calls, announced, taken, group, task>>
        BY <1>1 DEF BeginTurn
    <2> QED BY <1>e, <1>q, <2>1, <2>2
<1>2. ASSUME StreamTooLong PROVE LoopKept'
    <2>1. Fail("context") \/ pc' = "top"
        BY <1>2 DEF StreamTooLong
    <2>2. UNCHANGED <<calls, announced, taken, group, task>>
        BY <1>2 DEF StreamTooLong
    <2> QED BY <1>e, <1>q, <2>1, <2>2 DEF Fail
<1>3. ASSUME StreamFails PROVE LoopKept'
    BY <1>3, <1>e DEF StreamFails, Fail
<1>4. ASSUME NEW reply \in Replies, StreamCompletes(reply) PROVE LoopKept'
    <2>1. /\ turns' = turns /\ calls' = reply /\ announced' = 0 /\ taken' = 0 /\ group' = NoGroup
          /\ task' = [i \in 1..Len(reply) |-> "queued"]
          /\ Fail("sink") \/ pc' = IF reply = <<>> THEN "settle" ELSE "announce"
        BY <1>4 DEF StreamCompletes
    <2>2. CASE pc' = IF reply = <<>> THEN "settle" ELSE "announce"
        <3>1. reply \in Seq(DOMAIN Policy)
            BY CallsAreListed
        <3>2. reply # <<>> => 0 < Len(reply)
            BY <3>1
        <3>3. \A i \in Positions' : task'[i] = "queued"
            BY <2>1 DEF Positions
        <3> QED BY <2>1, <2>2, <3>2, <3>3 DEF LoopKept
    <2> QED BY <2>1, <2>2, <1>e DEF Fail
<1>5. ASSUME Settle PROVE LoopKept'
    <2>1. \/ \E how \in {"completed", "failed"} : \E why : End(how, why)
          \/ pc' = "top"
        BY <1>5, Zenon DEF Settle, Fail
    <2>2. UNCHANGED <<calls, announced, taken, group, task>>
        BY <1>5 DEF Settle
    <2> QED BY <1>e, <1>q, <2>1, <2>2
<1>6. ASSUME AnnounceCall PROVE LoopKept'
    <2>1. pc = "announce" /\ UNCHANGED <<calls, taken, group, task>>
        BY <1>6 DEF AnnounceCall
    <2>2. \/ Fail("sink")
          \/ announced' = announced + 1
             /\ pc' = IF announced + 1 = Len(calls) THEN "tools" ELSE "announce"
        BY <1>6 DEF AnnounceCall
    <2>3. CASE announced' = announced + 1
               /\ pc' = IF announced + 1 = Len(calls) THEN "tools" ELSE "announce"
        <3>1. announced < Len(calls) /\ taken = 0 /\ group = NoGroup
              /\ \A i \in Positions : task[i] = "queued"
            BY <2>1 DEF LoopKept
        <3>2. Positions' = Positions
            BY <2>1 DEF Positions
        <3>3. NoGroup[1] = 1 /\ NoGroup[2] = 0
            BY DEF NoGroup
        <3>4. calls # <<>>
            BY <1>n, <3>1
        <3>5. CASE announced + 1 = Len(calls)
            <4>1. taken' \in (group'[1] - 1)..group'[2] /\ 1..taken' = {}
                BY <2>1, <3>1, <3>3
            <4> QED BY <2>1, <2>3, <3>4, <3>5, <4>1 DEF LoopKept
        <3>6. CASE announced + 1 # Len(calls)
            <4>1. announced + 1 < Len(calls)
                BY <1>n, <3>1, <3>6
            <4> QED BY <2>1, <2>3, <3>1, <3>2, <3>6, <4>1 DEF LoopKept
        <3> QED BY <3>5, <3>6
    <2> QED BY <2>2, <2>3, <1>e DEF Fail
<1>7. ASSUME NextGroup PROVE LoopKept'
    <2> DEFINE i == taken + 1
    <2>1. UNCHANGED <<calls, announced, task>> /\ pc = "tools" /\ (taken = group[2] \/ group = NoGroup)
        BY <1>7 DEF NextGroup
    <2>2. Positions' = Positions
        BY <2>1 DEF Positions
    <2>0. announced = Len(calls) /\ calls # <<>> /\ \A j \in 1..taken : task[j] = "result"
        BY <2>1 DEF LoopKept
    <2>3. calls \in Seq(DOMAIN Policy) /\ Len(calls) > 0
        <3>1. calls \in Replies \cup {<<>>}
            BY DEF LoopTypes
        <3>2. calls \in Seq(DOMAIN Policy)
            BY <3>1, CallsAreListed
        <3> QED BY <2>0, <3>2, EmptySeq
    <2>4. CASE i > Len(calls)
        <3>1. pc' = "results" /\ taken' = 0
            BY <1>7, <2>4 DEF NextGroup
        <3>0. taken <= Len(calls)
            BY <1>n DEF LoopTypes
        <3>2. taken = Len(calls)
            BY <1>n, <2>4, <3>0
        <3>3. \A j \in Positions : task[j] = "result"
            BY <1>n, <2>0, <3>2
        <3> QED BY <2>0, <2>1, <2>2, <2>3, <3>1, <3>3 DEF LoopKept
    <2>5. CASE i <= Len(calls) /\ UnknownAhead(i)
        <3>1. Fail("tool")
            BY <1>7, <1>n, <2>5 DEF NextGroup
        <3> QED BY <3>1, <1>e DEF Fail
    <2>6. CASE i <= Len(calls) /\ ~UnknownAhead(i)
        <3>1. group' = <<i, GroupEnd(i)>> /\ pc' = pc /\ taken' = taken
            BY <1>7, <1>n, <2>6 DEF NextGroup
        <3>2. GroupEnd(i) \in i..Len(calls)
            BY <1>n, <2>6, GroupEnds
        <3>3. taken' \in (group'[1] - 1)..group'[2]
            BY <1>n, <3>1, <3>2
        <3> QED BY <2>0, <2>1, <3>1, <3>3 DEF LoopKept
    <2> QED BY <1>n, <2>4, <2>5, <2>6
<1>8. ASSUME TakeResult PROVE LoopKept'
    <2>1. UNCHANGED <<calls, announced, group, task>> /\ pc = "tools"
        BY <1>8 DEF TakeResult
    <2>2. taken \in (group[1] - 1)..group[2] /\ \A j \in 1..taken : task[j] = "result"
        BY <2>1 DEF LoopKept
    <2>3. (IF taken < group[1] THEN group[1] ELSE taken + 1) = taken + 1
        BY <2>2, <1>n
    <2>4. \/ taken + 1 \in InGroup /\ task[taken + 1] = "result" /\ taken' = taken + 1 /\ pc' = pc
          \/ \E why : Fail(why)
        BY <1>8, <2>3, Zenon DEF TakeResult
    <2>5. CASE taken + 1 \in InGroup /\ task[taken + 1] = "result" /\ taken' = taken + 1 /\ pc' = pc
        <3>1. taken' \in (group'[1] - 1)..group'[2]
            BY <1>n, <2>1, <2>2, <2>5 DEF InGroup
        <3>2. \A j \in 1..taken' : task'[j] = "result"
            BY <1>n, <2>1, <2>2, <2>5
        <3> QED BY <2>1, <2>5, <3>1, <3>2 DEF LoopKept
    <2> QED BY <2>4, <2>5, <1>e DEF Fail
<1>9. ASSUME PublishResult PROVE LoopKept'
    <2>1. UNCHANGED <<calls, announced, group, task>> /\ pc = "results"
        BY <1>9 DEF PublishResult
    <2>2. \/ taken' = taken + 1 /\ pc' = IF taken + 1 = Len(calls) THEN "top" ELSE "results"
          \/ Fail("sink")
        BY <1>9 DEF PublishResult
    <2>3. CASE taken' = taken + 1 /\ pc' = IF taken + 1 = Len(calls) THEN "top" ELSE "results"
        <3>1. Positions' = Positions
            BY <2>1 DEF Positions
        <3>2. taken < Len(calls) /\ announced = Len(calls) /\ calls # <<>>
              /\ \A j \in Positions : task[j] = "result"
            BY <2>1 DEF LoopKept
        <3>3. taken + 1 # Len(calls) => taken' < Len(calls)
            BY <1>n, <2>3, <3>2
        <3> QED BY <2>1, <2>3, <3>1, <3>2, <3>3 DEF LoopKept
    <2> QED BY <2>2, <2>3, <1>e DEF Fail
<1>10. ASSUME NEW i \in Positions, Spawn(i) PROVE LoopKept'
    <2>1. /\ UNCHANGED loopVars /\ pc = "tools" /\ task[i] = "queued"
          /\ task' = [task EXCEPT ![i] = "spawned"]
        BY <1>10 DEF Spawn
    <2> QED BY <1>t, <2>1 DEF TaskStates
<1>11. ASSUME NEW i \in Positions, Decide(i) PROVE LoopKept'
    <2>1. /\ UNCHANGED loopVars /\ pc = "tools" /\ task[i] = "spawned"
          /\ \E s \in {"running", "result", "failed", "waiting"} : task' = [task EXCEPT ![i] = s]
        BY <1>11 DEF Decide
    <2> QED BY <1>t, <2>1 DEF TaskStates
<1>12. ASSUME NEW i \in Positions, Wake(i) PROVE LoopKept'
    <2>1. /\ UNCHANGED loopVars /\ pc = "tools" /\ task[i] = "waiting"
          /\ \E s \in {"running", "failed"} : task' = [task EXCEPT ![i] = s]
        BY <1>12 DEF Wake
    <2> QED BY <1>t, <2>1 DEF TaskStates
<1>13. ASSUME NEW i \in Positions, WakeCancelled(i) PROVE LoopKept'
    <2>1. /\ UNCHANGED loopVars /\ pc = "tools" /\ task[i] = "waiting"
          /\ task' = [task EXCEPT ![i] = "failed"]
        BY <1>13 DEF WakeCancelled
    <2> QED BY <1>t, <2>1 DEF TaskStates
<1>14. ASSUME NEW i \in Positions, ToolReturns(i) PROVE LoopKept'
    <2>1. /\ UNCHANGED loopVars /\ pc = "tools" /\ task[i] = "running"
          /\ task' = [task EXCEPT ![i] = "result"]
        BY <1>14 DEF ToolReturns
    <2> QED BY <1>t, <2>1 DEF TaskStates
<1>15. ASSUME OtherThreads PROVE LoopKept'
    <2>1. UNCHANGED loopVars /\ UNCHANGED task /\ (live' = live \/ live' = FALSE)
        BY <1>15 DEF OtherThreads, PersonDecides, DeliverDecision, Cancel, CancelCommits, endVars
    <2>2. Positions' = Positions
        BY <2>1 DEF Positions, loopVars
    <2> QED BY <2>1, <2>2 DEF LoopKept, loopVars
<1> QED BY <1>1, <1>2, <1>3, <1>4, <1>5, <1>6, <1>7, <1>8, <1>9, <1>10, <1>11, <1>12, <1>13, <1>14, <1>15
        DEF Next, LoopStep, TaskStep

-----------------------------------------------------------------------------
(***************************************************************************)
(* The session.  What it owes changes only where the calls of a turn enter *)
(* it and where their results do.                                          *)
(***************************************************************************)
LEMMA SessionTypes ==
    ASSUME NEW h \in Seq(TurnMessages)
    PROVE  /\ Len(h) \in Nat
           /\ \A m \in 1..Len(h) :
                 /\ h[m] \in TurnMessages /\ h[m].calls \in Seq(Pairs)
                 /\ Len(h[m].calls) \in Nat
                 /\ \A n \in 1..Len(h[m].calls) : h[m].calls[n] \in Pairs
                 /\ h[m].of \in Pairs \cup {<<>>}
<1>1. Len(h) \in Nat
    OBVIOUS
<1>2. ASSUME NEW m \in 1..Len(h)
      PROVE  /\ h[m] \in TurnMessages /\ h[m].calls \in Seq(Pairs)
             /\ h[m].of \in Pairs \cup {<<>>}
    <2>1. h[m] \in TurnMessages
        OBVIOUS
    <2> QED BY <2>1 DEF TurnMessages
<1>3. ASSUME NEW s \in Seq(Pairs) PROVE Len(s) \in Nat /\ \A n \in 1..Len(s) : s[n] \in Pairs
    OBVIOUS
<1> QED BY <1>1, <1>2, <1>3

LEMMA OwedSame ==
    ASSUME AgentTypes, LoopKept,
           pc \in {"announce", "tools"}, pc' \in {"announce", "tools", "results"},
           turns' = turns, calls' = calls, pc' = "results" => taken' = 0
    PROVE  Owed' = Owed
<1>1. Positions' = Positions /\ \A i : Call(i)' = Call(i)
    BY DEF Positions, Call
<1>2. \A i \in Positions : i > 0
    BY LoopNumbers DEF AgentTypes
<1> QED BY <1>1, <1>2, SMT DEF Owed

LEMMA OwedOnceLess ==
    ASSUME AgentTypes, LoopKept, pc = "results", taken' = taken + 1,
           turns' = turns, calls' = calls,
           pc' = IF taken + 1 = Len(calls) THEN "top" ELSE "results"
    PROVE  /\ taken + 1 \in Positions /\ Call(taken + 1) \in Owed
           /\ Owed' = Owed \ {Call(taken + 1)}
<1>1. Positions' = Positions /\ \A i : Call(i)' = Call(i)
    BY DEF Positions, Call
<1>2. /\ Len(calls) \in Nat /\ taken \in Nat /\ Positions = 1..Len(calls)
    BY LoopNumbers DEF AgentTypes
<1>3. taken < Len(calls)
    BY DEF LoopKept
<1>4. taken + 1 \in Positions /\ Call(taken + 1) \in Owed
    BY <1>2, <1>3 DEF Owed
<1>5. Owed = { Call(i) : i \in { j \in Positions : j > taken } }
    BY DEF Owed
<1>6. \A i, j \in Positions : Call(i) = Call(j) => i = j
    BY DEF Call
<1>7. CASE taken + 1 = Len(calls)
    <2>1. Owed' = {}
        BY <1>7 DEF Owed
    <2>2. { j \in Positions : j > taken } = {taken + 1}
        BY <1>2, <1>4, <1>7
    <2>3. Owed = {Call(taken + 1)}
        BY <1>5, <2>2
    <2> QED BY <1>4, <2>1, <2>3
<1>8. CASE taken + 1 # Len(calls)
    <2>1. Owed' = { Call(i) : i \in { j \in Positions : j > taken + 1 } }
        BY <1>1, <1>8 DEF Owed
    <2> QED BY <1>2, <1>4, <1>5, <1>6, <2>1
<1> QED BY <1>4, <1>7, <1>8

LEMMA SessionQuiet ==
    ASSUME SessionKept, pc # "done", history' = history, turns' = turns, Owed' = Owed,
           pc' \in {"stream", "settle"} => pc' = pc
    PROVE  SessionKept'
BY DEF SessionKept, Answers

LEMMA SessionPublishes ==
    ASSUME AgentTypes, SessionKept, pc # "done", NEW c0 \in Owed, c0 \in Pairs, c0[1] = turns,
           history' = Append(history, ToolResult(c0)), turns' = turns,
           Owed' = Owed \ {c0}, pc' \notin {"stream", "settle"}
    PROVE  SessionKept'
<1> DEFINE new == ToolResult(c0)  L == Len(history)
<1>1. history \in Seq(TurnMessages) /\ L \in Nat
    BY DEF AgentTypes, StreamTypes
<1>2. new \in TurnMessages /\ new.calls = <<>> /\ new.of = c0 /\ new.role = "tool"
    BY MessageKinds DEF ToolResult
<1>3. /\ history' \in Seq(TurnMessages) /\ Len(history') = L + 1
      /\ \A m \in 1..L : history'[m] = history[m]
      /\ history'[L + 1] = new
    BY <1>1, <1>2, AppendProperties
<1>l. ASSUME NEW q \in 1..Len(history'), q # L + 1
      PROVE  q \in 1..L /\ history'[q] = history[q]
    <2>1. q \in 1..L
        BY <1>1, <1>3, <1>l
    <2> QED BY <1>3, <2>1
<1>4. turns \in Nat /\ L >= 1 /\ history[1].calls = <<>>
    BY LoopNumbers DEF AgentTypes, SessionKept
<1>o. c0 # <<>>
    BY EmptyIsNone
<1>u. \A q \in 1..L : history[q].of # c0
    BY <1>o DEF SessionKept
<1>5. ASSUME NEW m \in 1..Len(history'), NEW n \in 1..Len(history'[m].calls)
      PROVE  LET c == history'[m].calls[n]
             IN  c[1] <= turns /\ (c \in Owed' \/ Answers(history', m, c))
    <2> DEFINE c == history'[m].calls[n]
    <2>1. m \in 1..L /\ history'[m] = history[m] /\ n \in 1..Len(history[m].calls)
        <3>1. m # L + 1
            BY <1>2, <1>3
        <3> QED BY <1>1, <1>3, <3>1
    <2>2. c = history[m].calls[n]
        BY <2>1
    <2>3. c[1] <= turns /\ (c \in Owed \/ Answers(history, m, c))
        BY <2>1, <2>2 DEF SessionKept
    <2> HIDE DEF c
    <2>4. ASSUME c = c0 PROVE c \in Owed' \/ Answers(history', m, c)
        <3>1. L + 1 \in (m + 1)..Len(history')
            BY <1>1, <1>3, <2>1
        <3>2. history'[L + 1].of = c /\ history'[L + 1].role = "tool"
            BY <1>2, <1>3, <2>4
        <3>3. ASSUME NEW q \in 1..Len(history'), history'[q].of = c PROVE q = L + 1
            <4>1. q \in 1..L => history'[q] = history[q] /\ history[q].of # c
                BY <1>3, <1>u, <2>4
            <4>2. q \notin 1..L
                BY <3>3, <4>1
            <4> QED BY <1>1, <1>3, <4>2
        <3>4. Answers(history', m, c)
            BY <3>1, <3>2, <3>3 DEF Answers
        <3> QED BY <3>4
    <2>5. ASSUME c # c0, Answers(history, m, c)
          PROVE  c \in Owed' \/ Answers(history', m, c)
        <3>1. PICK r \in (m + 1)..L : history[r].of = c /\ history[r].role = "tool"
                     /\ \A q \in 1..L : history[q].of = c => q = r
            BY <2>5 DEF Answers
        <3>2. r \in 1..L /\ r \in (m + 1)..Len(history') /\ history'[r] = history[r]
            BY <1>1, <1>3, <2>1, <3>1
        <3>3. ASSUME NEW q \in 1..Len(history'), history'[q].of = c PROVE q = r
            <4>1. q # L + 1
                BY <1>2, <1>3, <2>5, <3>3
            <4>2. q \in 1..L /\ history'[q] = history[q]
                BY <1>l, <3>3, <4>1
            <4> QED BY <3>1, <3>3, <4>2
        <3>4. Answers(history', m, c)
            BY <3>1, <3>2, <3>3 DEF Answers
        <3> QED BY <3>4
    <2>6. ASSUME c # c0, c \in Owed PROVE c \in Owed' \/ Answers(history', m, c)
        BY <2>6
    <2> QED BY <2>3, <2>4, <2>5, <2>6 DEF c
<1>6. ASSUME NEW r \in 1..Len(history'), history'[r].of # <<>>
      PROVE  history'[r].of[1] <= turns /\ history'[r].of \notin Owed'
    <2>1. CASE r = L + 1
        BY <1>2, <1>3, <1>4, <2>1
    <2>2. CASE r # L + 1
        <3>1. r \in 1..L /\ history'[r] = history[r]
            BY <1>1, <1>3, <2>2
        <3> QED BY <1>6, <3>1 DEF SessionKept
    <2> QED BY <2>1, <2>2
<1>7. Len(history') >= 1 /\ history'[1].calls = <<>>
    BY <1>1, <1>3, <1>4
<1> QED BY <1>5, <1>6, <1>7 DEF SessionKept

LEMMA SessionListens ==
    ASSUME AgentTypes, SessionKept, pc = "stream", NEW reply \in Replies,
           history' = Append(history, Assistant([i \in 1..Len(reply) |-> <<turns, i>>])),
           turns' = turns, calls' = reply,
           pc' = IF reply = <<>> THEN "settle" ELSE "announce"
    PROVE  SessionKept'
<1> DEFINE called == [i \in 1..Len(reply) |-> <<turns, i>>]
           new == Assistant(called)  L == Len(history)
<1>0. Len(reply) \in Nat /\ turns \in Nat /\ reply \in Seq(DOMAIN Policy)
    BY CallsAreListed, LoopNumbers DEF AgentTypes
<1>1. history \in Seq(TurnMessages) /\ L \in Nat
    BY DEF AgentTypes, StreamTypes
<1>c. called \in Seq(Pairs) /\ Len(called) = Len(reply)
    BY <1>0 DEF Pairs
<1>2. new \in TurnMessages /\ new.calls = called /\ new.of = <<>>
    BY <1>c, MessageKinds DEF Assistant
<1> HIDE DEF new
<1>3. /\ history' \in Seq(TurnMessages) /\ Len(history') = L + 1
      /\ \A m \in 1..L : history'[m] = history[m]
      /\ history'[L + 1] = new
    BY <1>1, <1>2, AppendProperties DEF new
<1>l. ASSUME NEW q \in 1..Len(history'), q # L + 1
      PROVE  q \in 1..L /\ history'[q] = history[q]
    <2>1. q \in 1..L
        BY <1>1, <1>3, <1>l
    <2> QED BY <1>3, <2>1
<1>4. L >= 1 /\ history[1].calls = <<>>
    BY DEF SessionKept
<1>5. Owed = {}
    BY NothingOwed
<1>6. Owed' = { <<turns, i>> : i \in 1..Len(reply) }
    <2>1. Positions' = 1..Len(reply) /\ \A i : Call(i)' = <<turns, i>>
        BY DEF Positions, Call
    <2>2. CASE reply = <<>>
        BY <2>1, <2>2 DEF Owed
    <2>3. CASE reply # <<>>
        <3>1. pc' = "announce"
            BY <2>3
        <3> QED BY <2>1, <3>1 DEF Owed
    <2> QED BY <2>2, <2>3
<1>s. pc' \in {"stream", "settle"} => reply = <<>>
    OBVIOUS
<1>7. ASSUME NEW m \in 1..Len(history'), NEW n \in 1..Len(history'[m].calls)
      PROVE  LET c == history'[m].calls[n]
             IN  /\ c[1] <= turns
                 /\ pc' \in {"stream", "settle"} => c[1] < turns
                 /\ c \in Owed' \/ Answers(history', m, c)
    <2> DEFINE c == history'[m].calls[n]
    <2>1. CASE m = L + 1
        <3>1. history'[m].calls = called
            BY <1>2, <1>3, <2>1
        <3>2. n \in 1..Len(reply) /\ c = <<turns, n>>
            BY <1>c, <3>1
        <3>4. <<turns, n>> \in Owed'
            BY <1>6, <3>2
        <3>5. reply # <<>>
            BY <1>0, <3>2
        <3>6. c = <<turns, n>>
            BY <3>2
        <3> HIDE DEF c
        <3>3. c[1] = turns /\ c \in Owed' /\ reply # <<>>
            BY <3>4, <3>5, <3>6
        <3> QED BY <1>0, <1>s, <3>3 DEF c
    <2>2. CASE m # L + 1
        <3>1. m \in 1..L /\ history'[m] = history[m] /\ c = history[m].calls[n]
              /\ n \in 1..Len(history[m].calls)
            BY <1>1, <1>3, <2>2
        <3>2. c \in Pairs
            BY <1>1, <3>1, SessionTypes
        <3>3. c[1] < turns /\ Answers(history, m, c)
            BY <1>5, <3>1 DEF SessionKept
        <3> HIDE DEF c
        <3>4. PICK r \in (m + 1)..L : history[r].of = c /\ history[r].role = "tool"
                     /\ \A q \in 1..L : history[q].of = c => q = r
            BY <3>3 DEF Answers
        <3>5. r \in 1..L /\ r \in (m + 1)..Len(history') /\ history'[r] = history[r]
            BY <1>1, <1>3, <3>1, <3>4
        <3>6. \A q \in 1..Len(history') : history'[q].of = c => q = r
            <4>1. c # <<>>
                BY <3>2, EmptyIsNone
            <4>2. ASSUME NEW q \in 1..Len(history'), history'[q].of = c PROVE q \in 1..L
                <5>1. q # L + 1
                    BY <1>2, <1>3, <4>1, <4>2
                <5> QED BY <1>l, <4>2, <5>1
            <4> QED BY <1>3, <3>4, <4>2
        <3>7. Answers(history', m, c)
            BY <3>4, <3>5, <3>6 DEF Answers
        <3>8. c[1] \in Nat
            BY <3>2 DEF Pairs
        <3> QED BY <1>0, <3>3, <3>7, <3>8 DEF c
    <2> QED BY <2>1, <2>2
<1>8. ASSUME NEW r \in 1..Len(history'), history'[r].of # <<>>
      PROVE  history'[r].of[1] < turns /\ history'[r].of \notin Owed'
    <2>1. r # L + 1
        BY <1>2, <1>3, <1>8
    <2>2. r \in 1..L /\ history'[r] = history[r]
        BY <1>1, <1>3, <2>1
    <2>3. history[r].of[1] < turns
        BY <1>8, <2>2 DEF SessionKept
    <2> QED BY <1>0, <1>6, <2>2, <2>3
<1>9. \A r \in 1..Len(history') : history'[r].of # <<>> => history'[r].of[1] <= turns
    <2> SUFFICES ASSUME NEW r \in 1..Len(history'), history'[r].of # <<>>
                 PROVE  history'[r].of[1] <= turns
        OBVIOUS
    <2>1. history'[r].of \in Pairs /\ history'[r].of[1] < turns
        BY <1>3, <1>8, SessionTypes
    <2> QED BY <1>0, <2>1 DEF Pairs
<1>10. Len(history') >= 1 /\ history'[1].calls = <<>>
    BY <1>1, <1>3, <1>4
<1> QED BY <1>7, <1>8, <1>9, <1>10 DEF SessionKept

LEMMA SessionCompacts ==
    ASSUME AgentTypes, SessionKept, pc = "stream", pc' = "top", turns' = turns,
           history' = Compact(history)
    PROVE  SessionKept'
<1> DEFINE L == Len(history)  At(i) == IF i = 1 THEN 1 ELSE i + 1
<1>1. history \in Seq(TurnMessages) /\ L \in Nat /\ turns \in Nat
    BY LoopNumbers DEF AgentTypes, StreamTypes
<1>2. L >= 1 /\ history[1].calls = <<>>
    BY DEF SessionKept
<1>3. Owed = {} /\ Owed' = {}
    BY NothingOwed DEF Owed
<1>4. CASE L <= 2
    <2>1. history' = history
        BY <1>1, <1>2, <1>4, Compacted
    <2> QED BY <1>3, <2>1, SessionQuiet
<1>5. CASE L > 2
    <2>1. /\ history' \in Seq(TurnMessages) /\ Len(history') = L - 1
          /\ history'[1] = history[1]
          /\ \A i \in 2..(L - 1) : history'[i] = history[i + 1]
        BY <1>1, <1>2, <1>5, Compacted
    <2>2. \A i \in 1..Len(history') : At(i) \in 1..L /\ history'[i] = history[At(i)]
        BY <1>1, <1>5, <2>1
    <2>3. ASSUME NEW m \in 1..Len(history'), NEW n \in 1..Len(history'[m].calls)
          PROVE  LET c == history'[m].calls[n] IN c[1] <= turns /\ Answers(history', m, c)
        <3> DEFINE c == history'[m].calls[n]
        <3>1. m # 1
            BY <1>2, <2>1
        <3>2. m \in 2..(L - 1) /\ m + 1 \in 1..L /\ history'[m] = history[m + 1]
            BY <1>1, <2>1, <3>1
        <3>3. c = history[m + 1].calls[n] /\ n \in 1..Len(history[m + 1].calls)
            BY <3>2
        <3>4. c[1] <= turns /\ Answers(history, m + 1, c)
            BY <1>3, <3>2, <3>3 DEF SessionKept
        <3> HIDE DEF c
        <3>5. PICK r \in (m + 2)..L : history[r].of = c /\ history[r].role = "tool"
                     /\ \A q \in 1..L : history[q].of = c => q = r
            <4>1. (m + 1) + 1 = m + 2
                BY <3>2
            <4> QED BY <3>4, <4>1 DEF Answers
        <3>a. r \in Nat /\ m \in Nat /\ m + 2 <= r /\ r <= L /\ 2 <= m
            BY <1>1, <3>2, <3>5
        <3>b. Len(history') = L - 1 /\ L \in Nat
            BY <1>1, <2>1
        <3> HIDE DEF L
        <3>6. r - 1 \in (m + 1)..Len(history') /\ r - 1 \in 2..(L - 1) /\ (r - 1) + 1 = r
            BY <3>a, <3>b
        <3>7. history'[r - 1] = history[r]
            BY <2>1, <3>6
        <3>8. ASSUME NEW q \in 1..Len(history'), history'[q].of = c PROVE q = r - 1
            <4>1. At(q) = r
                BY <2>2, <3>5, <3>8
            <4> QED BY <1>1, <2>1, <3>2, <3>5, <4>1
        <3>9. Answers(history', m, c)
            BY <3>5, <3>6, <3>7, <3>8 DEF Answers
        <3> QED BY <3>4, <3>9 DEF c
    <2>4. ASSUME NEW r \in 1..Len(history'), history'[r].of # <<>>
          PROVE  history'[r].of[1] <= turns
        <3>1. At(r) \in 1..L /\ history'[r] = history[At(r)]
            BY <2>2
        <3> QED BY <2>4, <3>1 DEF SessionKept
    <2>5. Len(history') >= 1 /\ history'[1].calls = <<>>
        BY <1>1, <1>2, <1>5, <2>1
    <2> QED BY <1>3, <2>3, <2>4, <2>5 DEF SessionKept
<1> QED BY <1>1, <1>4, <1>5

LEMMA SessionStep ==
    ASSUME AgentTypes, LoopKept, SessionKept, Next PROVE SessionKept'
<1>t. LoopTypes /\ StreamTypes
    BY DEF AgentTypes
<1>n. /\ turns \in Nat /\ Len(calls) \in Nat /\ taken \in Nat /\ announced \in Nat
      /\ Positions = 1..Len(calls) /\ InGroup \subseteq Positions
    BY <1>t, LoopNumbers
<1>d. ASSUME pc' = "done" PROVE SessionKept'
    BY <1>d DEF SessionKept
<1>e. ASSUME NEW how \in {"completed", "failed"}, NEW why, End(how, why) PROVE SessionKept'
    BY <1>d, <1>e DEF End
<1>z. ASSUME pc' \notin {"announce", "tools", "results"} PROVE Owed' = {}
    BY <1>z DEF Owed
<1>t1. ASSUME pc = "tools", UNCHANGED loopVars, history' = history PROVE SessionKept'
    <2>1. Owed' = Owed
        BY <1>t1, OwedSame DEF loopVars
    <2> QED BY <1>t1, <2>1, SessionQuiet DEF loopVars
<1>1. ASSUME BeginTurn PROVE SessionKept'
    <2>1. \/ \E how \in {"completed", "failed"} : \E why : End(how, why)
          \/ pc' = "stream" /\ turns' = turns + 1 /\ history' = Repair(history)
        BY <1>1, Zenon DEF BeginTurn, Fail
    <2>2. CASE pc' = "stream" /\ turns' = turns + 1 /\ history' = Repair(history)
        <3>1. pc = "top"
            BY <1>1 DEF BeginTurn
        <3>2. history' = history /\ Owed = {} /\ Owed' = {}
            BY <1>t, <1>z, <2>2, <3>1, SessionIsWhole, NothingOwed
        <3>3. ASSUME NEW m \in 1..Len(history), NEW n \in 1..Len(history[m].calls)
              PROVE  LET c == history[m].calls[n]
                     IN  c[1] <= turns + 1 /\ c[1] < turns + 1 /\ Answers(history, m, c)
            <4> DEFINE c == history[m].calls[n]
            <4>1. c \in Pairs /\ c[1] <= turns /\ Answers(history, m, c)
                BY <1>t, <3>1, <3>2, SessionTypes DEF SessionKept, StreamTypes
            <4>2. c[1] \in Nat
                BY <4>1 DEF Pairs
            <4> HIDE DEF c
            <4> QED BY <1>n, <4>1, <4>2 DEF c
        <3>4. ASSUME NEW r \in 1..Len(history), history[r].of # <<>>
              PROVE  history[r].of[1] <= turns + 1 /\ history[r].of[1] < turns + 1
            <4>1. history[r].of \in Pairs /\ history[r].of[1] <= turns
                BY <1>t, <3>1, <3>4, SessionTypes DEF SessionKept, StreamTypes
            <4>2. history[r].of[1] \in Nat
                BY <4>1 DEF Pairs
            <4> QED BY <1>n, <4>1, <4>2
        <3>5. Len(history) >= 1 /\ history[1].calls = <<>>
            BY <3>1 DEF SessionKept
        <3> QED BY <2>2, <3>2, <3>3, <3>4, <3>5 DEF SessionKept
    <2> QED BY <1>e, <2>1, <2>2
<1>2. ASSUME StreamTooLong PROVE SessionKept'
    <2>1. \/ Fail("context")
          \/ pc = "stream" /\ pc' = "top" /\ turns' = turns /\ history' = Compact(history)
        BY <1>2 DEF StreamTooLong
    <2> QED BY <1>e, <2>1, SessionCompacts DEF Fail
<1>3. ASSUME StreamFails PROVE SessionKept'
    BY <1>3, <1>e DEF StreamFails, Fail
<1>4. ASSUME NEW reply \in Replies, StreamCompletes(reply) PROVE SessionKept'
    <2>1. /\ pc = "stream" /\ turns' = turns /\ calls' = reply
          /\ history' = Append(history, Assistant([i \in 1..Len(reply) |-> <<turns, i>>]))
          /\ Fail("sink") \/ pc' = IF reply = <<>> THEN "settle" ELSE "announce"
        BY <1>4 DEF StreamCompletes
    <2> QED BY <1>e, <2>1, SessionListens DEF Fail
<1>5. ASSUME Settle PROVE SessionKept'
    <2>1. \/ \E how \in {"completed", "failed"} : \E why : End(how, why)
          \/ pc' = "top"
        BY <1>5, Zenon DEF Settle, Fail
    <2>2. pc = "settle" /\ history' = history /\ turns' = turns
        BY <1>5 DEF Settle
    <2>3. CASE pc' = "top"
        BY <1>z, <2>2, <2>3, NothingOwed, SessionQuiet
    <2> QED BY <1>e, <2>1, <2>3
<1>6. ASSUME AnnounceCall PROVE SessionKept'
    <2>1. Fail("sink") \/ pc' \in {"tools", "announce"}
        BY <1>6 DEF AnnounceCall
    <2>2. pc = "announce" /\ history' = history /\ turns' = turns /\ calls' = calls
        BY <1>6 DEF AnnounceCall
    <2>3. CASE pc' \in {"tools", "announce"}
        BY <2>2, <2>3, OwedSame, SessionQuiet
    <2> QED BY <1>e, <2>1, <2>3 DEF Fail
<1>7. ASSUME NextGroup PROVE SessionKept'
    <2>1. \/ Fail("tool")
          \/ pc' = "results" /\ taken' = 0
          \/ pc' = "tools"
        BY <1>7 DEF NextGroup
    <2>2. pc = "tools" /\ history' = history /\ turns' = turns /\ calls' = calls
        BY <1>7 DEF NextGroup
    <2>3. CASE pc' = "tools" \/ (pc' = "results" /\ taken' = 0)
        BY <2>2, <2>3, OwedSame, SessionQuiet
    <2> QED BY <1>e, <2>1, <2>3 DEF Fail
<1>8. ASSUME TakeResult PROVE SessionKept'
    <2>1. pc' = "tools" \/ \E why : Fail(why)
        BY <1>8, Zenon DEF TakeResult
    <2>2. pc = "tools" /\ history' = history /\ turns' = turns /\ calls' = calls
        BY <1>8 DEF TakeResult
    <2>3. CASE pc' = "tools"
        BY <2>2, <2>3, OwedSame, SessionQuiet
    <2> QED BY <1>e, <2>1, <2>3 DEF Fail
<1>9. ASSUME PublishResult PROVE SessionKept'
    <2>1. \/ Fail("sink")
          \/ /\ taken' = taken + 1
             /\ pc' = IF taken + 1 = Len(calls) THEN "top" ELSE "results"
        BY <1>9 DEF PublishResult
    <2>2. /\ pc = "results" /\ turns' = turns /\ calls' = calls
          /\ history' = Append(history, ToolResult(Call(taken + 1)))
        BY <1>9 DEF PublishResult
    <2>3. CASE /\ taken' = taken + 1
               /\ pc' = IF taken + 1 = Len(calls) THEN "top" ELSE "results"
        <3>1. Call(taken + 1) \in Owed /\ Owed' = Owed \ {Call(taken + 1)}
            BY <2>2, <2>3, OwedOnceLess
        <3>2. Call(taken + 1) \in Pairs /\ Call(taken + 1)[1] = turns
            BY <1>n, CallIsPair
        <3>3. pc' \notin {"stream", "settle"}
            BY <2>3
        <3> QED BY <2>2, <3>1, <3>2, <3>3, SessionPublishes
    <2> QED BY <1>e, <2>1, <2>3 DEF Fail
<1>10. ASSUME NEW i \in Positions, TaskStep(i) PROVE SessionKept'
    BY <1>10, <1>t1 DEF TaskStep, Spawn, Decide, Wake, WakeCancelled, ToolReturns
<1>11. ASSUME OtherThreads PROVE SessionKept'
    <2>1. UNCHANGED loopVars /\ history' = history
        BY <1>11 DEF OtherThreads, PersonDecides, DeliverDecision, Cancel, CancelCommits
    <2>2. Owed' = Owed
        BY <2>1 DEF Owed, Positions, Call, loopVars
    <2>3. CASE pc = "done"
        BY <1>d, <2>1, <2>3 DEF loopVars
    <2>4. CASE pc # "done"
        BY <2>1, <2>2, <2>4, SessionQuiet DEF loopVars
    <2> QED BY <2>3, <2>4
<1> QED BY <1>1, <1>2, <1>3, <1>4, <1>5, <1>6, <1>7, <1>8, <1>9, <1>10, <1>11 DEF Next, LoopStep

-----------------------------------------------------------------------------
(***************************************************************************)
(* Consents.                                                               *)
(***************************************************************************)
LEMMA ApprovalFacts ==
    ASSUME AgentTypes
    PROVE  /\ DOMAIN bridge = DOMAIN asked /\ undelivered \subseteq DOMAIN asked
           /\ \A c \in DOMAIN asked :
                 /\ c \in Pairs /\ c[1] \in Nat
                 /\ asked[c] \in {"pending", "approved", "rejected"}
                 /\ bridge[c] \in {"pending", "allow", "deny", "interrupted"}
           /\ live \in BOOLEAN /\ turns \in Nat
           /\ \A i, j \in Positions : Call(i) = Call(j) => i = j
<1>1. turns \in Nat
    BY LoopNumbers DEF AgentTypes
<1>2. \A i, j \in Positions : Call(i) = Call(j) => i = j
    BY DEF Call
<1> QED BY <1>1, <1>2 DEF AgentTypes, ApprovalTypes, Pairs

LEMMA ConsentsQuiet ==
    ASSUME AgentTypes, ConsentsKept, UNCHANGED approvalVars, turns' \in {turns, turns + 1},
           pc' # "tools", Early' => (Early /\ turns' = turns) \/ turns' = turns + 1,
           live' => live /\ (pc = "tools" => \A i \in Positions : task[i] # "waiting"),
           outcome' = "completed" => ~live' /\ (outcome = "completed" \/ (live /\ pc # "tools"))
    PROVE  ConsentsKept'
<1>1. bridge' = bridge /\ asked' = asked /\ undelivered' = undelivered
    BY DEF approvalVars
<1>2. ASSUME NEW c \in DOMAIN asked
      PROVE  /\ c[1] <= turns'
             /\ Early' => c[1] < turns'
             /\ bridge[c] = "allow" => asked[c] = "approved"
             /\ bridge[c] # "pending" => asked[c] # "pending"
             /\ c \in undelivered => asked[c] # "pending"
             /\ ~(live' /\ asked[c] = "pending")
             /\ outcome' = "completed" => asked[c] # "pending"
    <2>1. c[1] \in Nat /\ turns \in Nat
        BY ApprovalFacts
    <2>2. c[1] <= turns /\ (Early => c[1] < turns)
        BY DEF ConsentsKept
    <2>3. c[1] <= turns' /\ (Early' => c[1] < turns')
        BY <2>1, <2>2
    <2> QED BY <2>3 DEF ConsentsKept
<1>3. (outcome' = "completed" => ~live') /\ RanWithConsent'
    BY DEF RanWithConsent
<1> QED BY <1>1, <1>2, <1>3 DEF ConsentsKept

LEMMA ConsentsEnd ==
    ASSUME AgentTypes, ConsentsKept, UNCHANGED approvalVars, turns' = turns,
           NEW how \in {"completed", "failed"}, NEW why, End(how, why),
           how = "completed" => pc # "tools"
    PROVE  ConsentsKept'
<1>1. pc' = "done" /\ live' = FALSE /\ (live => outcome' = how) /\ (~live => outcome' = outcome)
    BY EndAdds
<1>2. ~Early'
    BY <1>1 DEF Early
<1>3. outcome' = "completed" => outcome = "completed" \/ (live /\ pc # "tools")
    BY <1>1
<1> QED BY <1>1, <1>2, <1>3, ConsentsQuiet

\* Pending entries are rejected: nothing of a live run is pending any more.
LEMMA ConsentsInterrupted ==
    ASSUME AgentTypes, ConsentsKept, live, Interrupt(DOMAIN bridge)
    PROVE  /\ DOMAIN asked' = DOMAIN asked /\ DOMAIN bridge' = DOMAIN asked
           /\ \A c \in DOMAIN asked :
                 /\ asked'[c] # "pending"
                 /\ asked[c] # "pending" => asked'[c] = asked[c] /\ bridge'[c] = bridge[c]
                 /\ bridge'[c] = "allow" => asked'[c] = "approved"
<1>1. /\ DOMAIN asked' = DOMAIN asked
      /\ bridge' \in [DOMAIN asked -> {"pending", "allow", "deny", "interrupted"}]
      /\ \A c \in DOMAIN asked :
            /\ c \in Interruptible(DOMAIN bridge) => bridge'[c] = "interrupted" /\ asked'[c] = "rejected"
            /\ c \notin Interruptible(DOMAIN bridge) => bridge'[c] = bridge[c] /\ asked'[c] = asked[c]
    BY InterruptTypes DEF AgentTypes
<1>2. DOMAIN bridge = DOMAIN asked
    BY ApprovalFacts
<1>3. ASSUME NEW c \in DOMAIN asked
      PROVE  c \in Interruptible(DOMAIN bridge) <=> asked[c] = "pending"
    BY <1>2, <1>3 DEF Interruptible, ConsentsKept
<1> QED BY <1>1, <1>3 DEF ConsentsKept

\* The loop ends after that.
LEMMA ConsentsDropped ==
    ASSUME AgentTypes, ConsentsKept, Interrupt(DOMAIN bridge), undelivered' = undelivered,
           turns' = turns, NEW why, Fail(why)
    PROVE  ConsentsKept'
<1>1. CASE live
    <2>1. pc' = "done" /\ live' = FALSE /\ outcome' = "failed"
        BY <1>1, EndAdds DEF Fail
    <2>2. ~Early' /\ RanWithConsent'
        BY <2>1 DEF Early, RanWithConsent
    <2> QED BY <1>1, <2>1, <2>2, ConsentsInterrupted DEF ConsentsKept
<1>2. CASE ~live
    <2>1. Interruptible(DOMAIN bridge) = {}
        BY <1>2 DEF Interruptible
    <2>2. DOMAIN asked' = DOMAIN asked /\ \A c \in DOMAIN asked : bridge'[c] = bridge[c] /\ asked'[c] = asked[c]
        BY <2>1, InterruptTypes DEF AgentTypes
    <2>3. bridge' = bridge /\ asked' = asked
        <3>1. DOMAIN bridge = DOMAIN asked
            BY ApprovalFacts
        <3> QED BY <2>1, <3>1 DEF Interrupt, AgentTypes, ApprovalTypes
    <2> QED BY <2>3, ConsentsEnd DEF Fail, approvalVars
<1> QED BY <1>1, <1>2, ApprovalFacts

\* One task moves and the approvals change at most by rejections of what is pending.
LEMMA ConsentsTask ==
    ASSUME AgentTypes, ConsentsKept, pc = "tools", UNCHANGED <<loopVars, endVars, undelivered>>,
           NEW i \in Positions, NEW s \in TaskStates \ {"queued"}, task' = [task EXCEPT ![i] = s],
           DOMAIN asked' = DOMAIN asked, DOMAIN bridge' = DOMAIN asked,
           \A c \in DOMAIN asked :
              /\ asked[c] # "pending" => asked'[c] = asked[c] /\ bridge'[c] = bridge[c]
              /\ bridge'[c] = "allow" => asked'[c] = "approved"
              /\ bridge'[c] # "pending" => asked'[c] # "pending"
              /\ live /\ asked'[c] = "pending" => asked[c] = "pending" /\ c # Call(i),
           s = "spawned" => task[i] = "queued",
           s # "waiting",
           s \in {"running", "result"} =>
               \/ task[i] \in {"running", "result"}
               \/ Policy[calls[i]] # "ask"
               \/ Call(i) \in DOMAIN asked /\ asked[Call(i)] = "approved"
    PROVE  ConsentsKept'
<1>1. /\ pc' = pc /\ turns' = turns /\ calls' = calls /\ live' = live /\ outcome' = outcome
      /\ undelivered' = undelivered /\ Positions' = Positions
      /\ \A j : Call(j)' = Call(j)
    BY DEF loopVars, endVars, Positions, Call
<1>2. /\ DOMAIN task = Positions /\ DOMAIN task' = Positions
      /\ task'[i] = s /\ \A j \in Positions : j # i => task'[j] = task[j]
    BY DEF AgentTypes, LoopTypes
<1>a. undelivered \subseteq DOMAIN asked
    BY ApprovalFacts
<1>3. ASSUME NEW c \in DOMAIN asked
      PROVE  /\ c[1] <= turns
             /\ ~Early'
             /\ bridge'[c] = "allow" => asked'[c] = "approved"
             /\ bridge'[c] # "pending" => asked'[c] # "pending"
             /\ c \in undelivered => asked'[c] # "pending"
             /\ live /\ asked'[c] = "pending" => \E j \in Positions : c = Call(j) /\ task'[j] = "waiting"
             /\ outcome = "completed" => asked'[c] # "pending"
    <2>1. ~Early'
        BY <1>1 DEF Early
    <2>2. /\ c[1] <= turns
          /\ c \in undelivered => asked[c] # "pending"
          /\ live /\ asked[c] = "pending" => \E j \in Positions : c = Call(j) /\ task[j] = "waiting"
          /\ outcome = "completed" => asked[c] # "pending"
        BY DEF ConsentsKept
    <2>3. ASSUME live, asked'[c] = "pending"
          PROVE  \E j \in Positions : c = Call(j) /\ task'[j] = "waiting"
        <3>1. PICK j \in Positions : c = Call(j) /\ task[j] = "waiting"
            BY <2>2, <2>3
        <3>2. j # i
            BY <2>3, <3>1
        <3> QED BY <1>2, <3>1, <3>2
    <2> QED BY <2>1, <2>2, <2>3
<1>4. ASSUME NEW j \in Positions
      PROVE  /\ task'[j] \in {"queued", "spawned"} => Call(j) \notin DOMAIN asked
             /\ task'[j] = "waiting" => Call(j) \in DOMAIN asked
    <2>1. /\ task[j] \in {"queued", "spawned"} => Call(j) \notin DOMAIN asked
          /\ task[j] = "waiting" => Call(j) \in DOMAIN asked
        BY DEF ConsentsKept
    <2> QED BY <1>2, <2>1
<1>5. ASSUME NEW j \in Positions, task'[j] \in {"running", "result"}, Policy[calls[j]] = "ask"
      PROVE  Call(j) \in DOMAIN asked /\ asked'[Call(j)] = "approved"
    <2>1. task[j] \in {"running", "result"} => Call(j) \in DOMAIN asked /\ asked[Call(j)] = "approved"
        BY <1>2, <1>5 DEF ConsentsKept, RanWithConsent
    <2>2. Call(j) \in DOMAIN asked /\ asked[Call(j)] = "approved"
        BY <1>2, <1>5, <2>1
    <2> QED BY <2>2
<1>6. RanWithConsent'
    BY <1>1, <1>2, <1>5 DEF RanWithConsent
<1>7. outcome = "completed" => ~live
    BY DEF ConsentsKept
<1> HIDE DEF Early
<1> QED BY <1>1, <1>3, <1>4, <1>6, <1>7 DEF ConsentsKept

LEMMA ToolsHavePolicies ==
    ASSUME AgentTypes, NEW i \in Positions
    PROVE  Policy[calls[i]] \in {"allow", "deny", "ask", "unknown"}
<1>1. calls \in Seq(DOMAIN Policy) /\ i \in 1..Len(calls)
    BY CallsAreListed DEF AgentTypes, LoopTypes, Positions
<1>2. calls[i] \in DOMAIN Policy
    BY <1>1
<1> QED BY <1>2, TurnAssumption

LEMMA ConsentsDecide ==
    ASSUME AgentTypes, ConsentsKept, NEW i \in Positions, Decide(i)
    PROVE  ConsentsKept'
<1> DEFINE ask == Policy[calls[i]] = "ask" /\ live
<1>0. pc = "tools" /\ task[i] = "spawned" /\ UNCHANGED <<loopVars, endVars, undelivered>>
    BY DEF Decide
<1>c. Call(i) \notin DOMAIN asked
    BY <1>0 DEF ConsentsKept
<1>1. CASE ~ask
    <2>1. /\ bridge' = bridge /\ asked' = asked
          /\ \E s \in {"running", "result", "failed"} :
                /\ task' = [task EXCEPT ![i] = s]
                /\ s \in {"running", "result"} => Policy[calls[i]] # "ask"
        <3>1. Policy[calls[i]] \in {"allow", "deny", "ask", "unknown"}
            BY ToolsHavePolicies
        <3>2. bridge' = bridge /\ asked' = asked
            BY <1>1 DEF Decide
        <3>3. CASE Policy[calls[i]] = "allow"
            <4>1. task' = [task EXCEPT ![i] = "running"]
                BY <3>3 DEF Decide
            <4> QED BY <3>2, <3>3, <4>1
        <3>4. CASE Policy[calls[i]] = "deny"
            <4>1. task' = [task EXCEPT ![i] = "result"]
                BY <3>4 DEF Decide
            <4> QED BY <3>2, <3>4, <4>1
        <3>5. CASE Policy[calls[i]] \in {"ask", "unknown"}
            <4>1. task' = [task EXCEPT ![i] = "failed"]
                BY <1>1, <3>5 DEF Decide
            <4> QED BY <3>2, <4>1
        <3> QED BY <3>1, <3>3, <3>4, <3>5
    <2>2. PICK s \in {"running", "result", "failed"} :
                /\ task' = [task EXCEPT ![i] = s]
                /\ s \in {"running", "result"} => Policy[calls[i]] # "ask"
        BY <2>1
    <2>3. s \in TaskStates \ {"queued"} /\ s # "waiting" /\ s # "spawned"
        BY DEF TaskStates
    <2>4. \A c \in DOMAIN asked :
              /\ bridge'[c] = "allow" => asked'[c] = "approved"
              /\ bridge'[c] # "pending" => asked'[c] # "pending"
              /\ live /\ asked'[c] = "pending" => asked[c] = "pending" /\ c # Call(i)
        BY <1>c, <2>1 DEF ConsentsKept
    <2>5. DOMAIN asked' = DOMAIN asked /\ DOMAIN bridge' = DOMAIN asked
        BY <2>1, ApprovalFacts
    <2> QED BY <1>0, <2>1, <2>2, <2>3, <2>4, <2>5, ConsentsTask
<1>2. CASE ask
    <2>1. /\ task' = [task EXCEPT ![i] = "waiting"]
          /\ bridge' = Entered(bridge, Call(i)) /\ asked' = Entered(asked, Call(i))
        BY <1>2 DEF Decide
    <2>2. /\ pc' = pc /\ turns' = turns /\ calls' = calls /\ live' = live /\ outcome' = outcome
          /\ undelivered' = undelivered /\ Positions' = Positions
          /\ \A j : Call(j)' = Call(j)
        BY <1>0 DEF loopVars, endVars, Positions, Call
    <2>3. /\ DOMAIN task = Positions /\ DOMAIN task' = Positions
          /\ task'[i] = "waiting" /\ \A j \in Positions : j # i => task'[j] = task[j]
        BY <2>1 DEF AgentTypes, LoopTypes
    <2>4. /\ DOMAIN bridge = DOMAIN asked /\ undelivered \subseteq DOMAIN asked
          /\ \A j, k \in Positions : Call(j) = Call(k) => j = k
          /\ turns \in Nat
        BY ApprovalFacts
    <2>5. /\ DOMAIN asked' = DOMAIN asked \cup {Call(i)}
          /\ asked'[Call(i)] = "pending" /\ bridge'[Call(i)] = "pending"
          /\ \A c \in DOMAIN asked : asked'[c] = asked[c] /\ bridge'[c] = bridge[c]
        BY <1>c, <2>1, <2>4 DEF Entered
    <2>6. ~Early'
        BY <1>0, <2>2 DEF Early
    <2>7. Call(i)[1] = turns
        BY DEF Call
    <2>8. ASSUME NEW c \in DOMAIN asked'
          PROVE  /\ c[1] <= turns
                 /\ bridge'[c] = "allow" => asked'[c] = "approved"
                 /\ bridge'[c] # "pending" => asked'[c] # "pending"
                 /\ c \in undelivered => asked'[c] # "pending"
                 /\ live /\ asked'[c] = "pending" => \E j \in Positions : c = Call(j) /\ task'[j] = "waiting"
                 /\ outcome = "completed" => asked'[c] # "pending"
        <3>1. CASE c = Call(i)
            <4>1. outcome # "completed"
                BY <1>2 DEF ConsentsKept
            <4>2. c \notin undelivered
                BY <1>c, <2>4, <3>1
            <4> QED BY <2>3, <2>4, <2>5, <2>7, <3>1, <4>1, <4>2
        <3>2. CASE c # Call(i)
            <4>1. c \in DOMAIN asked /\ asked'[c] = asked[c] /\ bridge'[c] = bridge[c]
                BY <2>5, <3>2
            <4>2. live /\ asked[c] = "pending" => \E j \in Positions : c = Call(j) /\ task[j] = "waiting"
                BY <4>1 DEF ConsentsKept
            <4>3. live /\ asked[c] = "pending" => \E j \in Positions : c = Call(j) /\ task'[j] = "waiting"
                BY <2>3, <3>2, <4>2
            <4> QED BY <4>1, <4>3 DEF ConsentsKept
        <3> QED BY <3>1, <3>2
    <2>9. ASSUME NEW j \in Positions
          PROVE  /\ task'[j] \in {"queued", "spawned"} => Call(j) \notin DOMAIN asked'
                 /\ task'[j] = "waiting" => Call(j) \in DOMAIN asked'
        <3>1. /\ task[j] \in {"queued", "spawned"} => Call(j) \notin DOMAIN asked
              /\ task[j] = "waiting" => Call(j) \in DOMAIN asked
            BY <1>0 DEF ConsentsKept
        <3> QED BY <2>3, <2>4, <2>5, <3>1
    <2>10. ASSUME NEW j \in Positions, task'[j] \in {"running", "result"}, Policy[calls[j]] = "ask"
           PROVE  Call(j) \in DOMAIN asked' /\ asked'[Call(j)] = "approved"
        <3>1. j # i /\ task[j] \in {"running", "result"}
            BY <2>3, <2>10
        <3>2. Call(j) \in DOMAIN asked /\ asked[Call(j)] = "approved"
            BY <1>0, <2>3, <2>10, <3>1 DEF ConsentsKept, RanWithConsent
        <3> QED BY <2>5, <3>2
    <2>11. RanWithConsent'
        BY <2>2, <2>3, <2>10 DEF RanWithConsent
    <2>12. outcome = "completed" => ~live
        BY DEF ConsentsKept
    <2> HIDE DEF Early
    <2> QED BY <1>0, <2>2, <2>6, <2>8, <2>9, <2>11, <2>12 DEF ConsentsKept
<1> QED BY <1>1, <1>2

\* The tasks stay as they are, and so does the loop.
LEMMA ConsentsElsewhere ==
    ASSUME AgentTypes, ConsentsKept, UNCHANGED <<loopVars, task>>,
           DOMAIN asked' = DOMAIN asked, DOMAIN bridge' = DOMAIN asked,
           live' => live,
           outcome' = "completed" => outcome = "completed",
           undelivered' \subseteq DOMAIN asked,
           \A c \in DOMAIN asked :
              /\ asked[c] # "pending" => asked'[c] = asked[c]
              /\ bridge'[c] = "allow" => asked'[c] = "approved"
              /\ bridge'[c] # "pending" => asked'[c] # "pending"
              /\ c \in undelivered' => asked'[c] # "pending"
    PROVE  ConsentsKept'
<1>1. /\ pc' = pc /\ turns' = turns /\ calls' = calls /\ task' = task
      /\ Positions' = Positions
      /\ \A j : Call(j)' = Call(j)
    BY DEF loopVars, Positions, Call
<1>2. Early' <=> Early
    BY <1>1 DEF Early
<1>3. ASSUME NEW c \in DOMAIN asked
      PROVE  /\ c[1] <= turns /\ (Early => c[1] < turns)
             /\ live' /\ asked'[c] = "pending" =>
                   pc = "tools" /\ \E j \in Positions : c = Call(j) /\ task[j] = "waiting"
             /\ outcome' = "completed" => asked'[c] # "pending"
    BY DEF ConsentsKept
<1>4. RanWithConsent'
    <2>1. RanWithConsent /\ DOMAIN task = Positions
        BY DEF ConsentsKept, AgentTypes, LoopTypes
    <2> QED BY <1>1, <2>1 DEF RanWithConsent
<1>5. outcome' = "completed" => ~live'
    BY DEF ConsentsKept
<1>6. pc = "tools" => \A j \in Positions :
          /\ task[j] \in {"queued", "spawned"} => Call(j) \notin DOMAIN asked
          /\ task[j] = "waiting" => Call(j) \in DOMAIN asked
    BY DEF ConsentsKept
<1> HIDE DEF Early
<1> QED BY <1>1, <1>2, <1>3, <1>4, <1>5, <1>6 DEF ConsentsKept

LEMMA ConsentsStep ==
    ASSUME AgentTypes, LoopKept, ConsentsKept, Next PROVE ConsentsKept'
<1>a. /\ DOMAIN bridge = DOMAIN asked /\ undelivered \subseteq DOMAIN asked
      /\ live \in BOOLEAN /\ turns \in Nat
      /\ \A i, j \in Positions : Call(i) = Call(j) => i = j
      /\ \A c \in DOMAIN asked : c \in Pairs /\ c[1] \in Nat
    BY ApprovalFacts
<1>n. /\ Len(calls) \in Nat /\ taken \in Nat /\ Positions = 1..Len(calls)
    BY LoopNumbers DEF AgentTypes
<1>f. ASSUME UNCHANGED approvalVars, turns' = turns, NEW why, Fail(why) PROVE ConsentsKept'
    BY <1>f, ConsentsEnd DEF Fail
<1>p. \A c \in DOMAIN asked :
          /\ bridge[c] = "allow" => asked[c] = "approved"
          /\ bridge[c] # "pending" => asked[c] # "pending"
          /\ c \in undelivered => asked[c] # "pending"
    BY DEF ConsentsKept
<1>o. outcome = "completed" => ~live
    BY DEF ConsentsKept
<1>q. ASSUME UNCHANGED <<approvalVars, endVars, turns>>, pc # "tools", pc' # "tools",
             Early' => Early
      PROVE  ConsentsKept'
    <2>1. outcome' = "completed" => ~live' /\ outcome = "completed"
        BY <1>o, <1>q DEF endVars
    <2>2. live' => live
        BY <1>q DEF endVars
    <2> HIDE DEF Early
    <2> QED BY <1>q, <2>1, <2>2, ConsentsQuiet
<1>1. ASSUME BeginTurn PROVE ConsentsKept'
    <2>0. pc = "top"
        BY <1>1 DEF BeginTurn
    <2>1. \/ End("completed", "max turns") /\ UNCHANGED <<turns, approvalVars>>
          \/ Interrupt(DOMAIN bridge) /\ Fail("cancelled") /\ UNCHANGED <<turns, undelivered>>
          \/ Fail("sink") /\ UNCHANGED <<turns, approvalVars>>
          \/ turns' = turns + 1 /\ pc' = "stream" /\ UNCHANGED <<approvalVars, endVars>>
        BY <1>1, Zenon DEF BeginTurn
    <2>2. ASSUME End("completed", "max turns"), UNCHANGED <<turns, approvalVars>> PROVE ConsentsKept'
        BY <2>0, <2>2, ConsentsEnd
    <2>3. ASSUME turns' = turns + 1, pc' = "stream", UNCHANGED <<approvalVars, endVars>>
          PROVE  ConsentsKept'
        <3>1. outcome' = "completed" => ~live' /\ outcome = "completed"
            BY <1>o, <2>3 DEF endVars
        <3> QED BY <2>0, <2>3, <3>1, ConsentsQuiet DEF endVars
    <2>4. ASSUME Interrupt(DOMAIN bridge), Fail("cancelled"), UNCHANGED <<turns, undelivered>>
          PROVE  ConsentsKept'
        BY <2>4, ConsentsDropped
    <2> QED BY <1>f, <2>1, <2>2, <2>3, <2>4
<1>2. ASSUME StreamTooLong PROVE ConsentsKept'
    <2>1. pc = "stream" /\ UNCHANGED <<turns, approvalVars>>
        BY <1>2 DEF StreamTooLong
    <2>2. Fail("context") \/ (pc' = "top" /\ UNCHANGED endVars)
        BY <1>2 DEF StreamTooLong
    <2>3. CASE pc' = "top" /\ UNCHANGED endVars
        BY <1>q, <2>1, <2>3 DEF Early
    <2> QED BY <1>f, <2>1, <2>2, <2>3
<1>3. ASSUME StreamFails PROVE ConsentsKept'
    BY <1>3, <1>f DEF StreamFails
<1>4. ASSUME NEW reply \in Replies, StreamCompletes(reply) PROVE ConsentsKept'
    <2>1. pc = "stream" /\ UNCHANGED <<turns, approvalVars>>
        BY <1>4 DEF StreamCompletes
    <2>2. Fail("sink") \/ (pc' \in {"settle", "announce"} /\ UNCHANGED endVars)
        BY <1>4 DEF StreamCompletes
    <2>3. CASE pc' \in {"settle", "announce"} /\ UNCHANGED endVars
        BY <1>q, <2>1, <2>3 DEF Early
    <2> QED BY <1>f, <2>1, <2>2, <2>3
<1>5. ASSUME Settle PROVE ConsentsKept'
    <2>1. pc = "settle" /\ UNCHANGED <<turns, approvalVars>>
        BY <1>5 DEF Settle
    <2>2. \/ pc' = "top" /\ UNCHANGED endVars
          \/ Fail("continuations")
          \/ End("completed", "normal end")
        BY <1>5 DEF Settle
    <2>3. CASE pc' = "top" /\ UNCHANGED endVars
        BY <1>q, <2>1, <2>3 DEF Early
    <2>4. CASE End("completed", "normal end")
        BY <2>1, <2>4, ConsentsEnd
    <2> QED BY <1>f, <2>1, <2>2, <2>3, <2>4
<1>6. ASSUME AnnounceCall PROVE ConsentsKept'
    <2>1. pc = "announce" /\ UNCHANGED <<turns, approvalVars, calls, task>>
        BY <1>6 DEF AnnounceCall
    <2>2. Fail("sink") \/ (pc' \in {"tools", "announce"} /\ UNCHANGED endVars)
        BY <1>6 DEF AnnounceCall
    <2>3. CASE pc' = "announce" /\ UNCHANGED endVars
        BY <1>q, <2>1, <2>3 DEF Early
    <2>4. CASE pc' = "tools" /\ UNCHANGED endVars
        <3>1. \A i \in Positions : task[i] = "queued"
            BY <2>1 DEF LoopKept
        <3>2. \A c \in DOMAIN asked : c[1] < turns /\ c[1] \in Nat
            BY <1>a, <2>1 DEF ConsentsKept, Early
        <3>3. \A i \in Positions : Call(i) \notin DOMAIN asked
            BY <1>a, <3>2 DEF Call
        <3>4. Positions' = Positions /\ (\A i : Call(i)' = Call(i)) /\ DOMAIN task = Positions
            BY <2>1 DEF Positions, Call, AgentTypes, LoopTypes
        <3>5. RanWithConsent'
            BY <2>1, <3>1, <3>4 DEF RanWithConsent
        <3>6. \A c \in DOMAIN asked :
                 /\ c[1] <= turns /\ ~(live /\ asked[c] = "pending")
                 /\ outcome = "completed" => asked[c] # "pending"
            BY <2>1 DEF ConsentsKept
        <3>7. ~Early'
            BY <2>4 DEF Early
        <3> HIDE DEF Early
        <3>8. /\ bridge' = bridge /\ asked' = asked /\ undelivered' = undelivered
              /\ turns' = turns /\ task' = task /\ live' = live /\ outcome' = outcome
            BY <2>1, <2>4 DEF approvalVars, endVars
        <3> QED BY <1>p, <1>o, <2>4, <3>1, <3>3, <3>4, <3>5, <3>6, <3>7, <3>8 DEF ConsentsKept
    <2> QED BY <1>f, <2>1, <2>2, <2>3, <2>4
<1>s. ASSUME pc = "tools", pc' = "tools", UNCHANGED <<turns, calls, task, approvalVars, endVars>>
      PROVE  ConsentsKept'
    <2>1. Positions' = Positions /\ (\A i : Call(i)' = Call(i)) /\ (Early' <=> Early)
        BY <1>s DEF Positions, Call, Early
    <2>2. RanWithConsent'
        BY <1>s, <2>1 DEF RanWithConsent, ConsentsKept, approvalVars
    <2>3. /\ bridge' = bridge /\ asked' = asked /\ undelivered' = undelivered
          /\ turns' = turns /\ task' = task /\ live' = live /\ outcome' = outcome
        BY <1>s DEF approvalVars, endVars
    <2> HIDE DEF Early
    <2> QED BY <1>s, <2>1, <2>2, <2>3 DEF ConsentsKept
<1>7. ASSUME NextGroup PROVE ConsentsKept'
    <2>1. pc = "tools" /\ UNCHANGED <<turns, approvalVars, calls, task>>
        BY <1>7 DEF NextGroup
    <2>2. \/ Fail("tool")
          \/ pc' = "results" /\ taken + 1 > Len(calls) /\ UNCHANGED endVars
          \/ pc' = pc /\ UNCHANGED endVars
        BY <1>7 DEF NextGroup
    <2>3. CASE pc' = "results" /\ taken + 1 > Len(calls) /\ UNCHANGED endVars
        <3>1. \A i \in 1..taken : task[i] = "result"
            BY <2>1 DEF LoopKept
        <3>2. \A i \in Positions : task[i] # "waiting"
            BY <1>n, <2>3, <3>1
        <3>3. ~Early'
            BY <2>3 DEF Early
        <3>4. outcome' = "completed" => ~live' /\ outcome = "completed"
            BY <1>o, <2>3 DEF endVars
        <3>5. live' => live
            BY <2>3 DEF endVars
        <3> HIDE DEF Early
        <3> QED BY <2>1, <2>3, <3>2, <3>3, <3>4, <3>5, ConsentsQuiet
    <2>4. CASE pc' = pc /\ UNCHANGED endVars
        BY <1>s, <2>1, <2>4
    <2> QED BY <1>f, <2>1, <2>2, <2>3, <2>4
<1>8. ASSUME TakeResult PROVE ConsentsKept'
    <2>1. pc = "tools" /\ UNCHANGED <<turns, approvalVars, calls, task>>
        BY <1>8 DEF TakeResult
    <2>2. (pc' = pc /\ UNCHANGED endVars) \/ \E why : Fail(why)
        BY <1>8, Zenon DEF TakeResult
    <2> QED BY <1>f, <1>s, <2>1, <2>2
<1>9. ASSUME PublishResult PROVE ConsentsKept'
    <2>1. pc = "results" /\ UNCHANGED <<turns, approvalVars>>
        BY <1>9 DEF PublishResult
    <2>2. Fail("sink") \/ (pc' \in {"top", "results"} /\ UNCHANGED endVars)
        BY <1>9 DEF PublishResult
    <2>3. CASE pc' \in {"top", "results"} /\ UNCHANGED endVars
        BY <1>q, <2>1, <2>3 DEF Early
    <2> QED BY <1>f, <2>1, <2>2, <2>3
<1>t. ASSUME pc = "tools", UNCHANGED <<loopVars, endVars, approvalVars>>,
             NEW i \in Positions, NEW s \in TaskStates \ {"queued"}, task' = [task EXCEPT ![i] = s],
             s # "waiting", task[i] # "waiting", s = "spawned" => task[i] = "queued",
             s \in {"running", "result"} => task[i] \in {"running", "result"}
      PROVE  ConsentsKept'
    <2>1. DOMAIN asked' = DOMAIN asked /\ DOMAIN bridge' = DOMAIN asked
          /\ undelivered' = undelivered /\ asked' = asked /\ bridge' = bridge
        BY <1>a, <1>t DEF approvalVars
    <2>2. \A c \in DOMAIN asked : live /\ asked[c] = "pending" => c # Call(i)
        BY <1>a, <1>t DEF ConsentsKept
    <2> QED BY <1>p, <1>t, <2>1, <2>2, ConsentsTask
<1>10. ASSUME NEW i \in Positions, Spawn(i) PROVE ConsentsKept'
    BY <1>10, <1>t DEF Spawn, TaskStates
<1>11. ASSUME NEW i \in Positions, Decide(i) PROVE ConsentsKept'
    BY <1>11, ConsentsDecide
<1>k. ASSUME NEW i \in Positions, task[i] = "waiting", pc = "tools"
      PROVE  Call(i) \in DOMAIN asked
    BY <1>k DEF ConsentsKept
<1>12. ASSUME NEW i \in Positions, Wake(i) PROVE ConsentsKept'
    <2>1. /\ pc = "tools" /\ task[i] = "waiting" /\ bridge[Call(i)] # "pending"
          /\ UNCHANGED <<loopVars, undelivered, endVars>>
        BY <1>12 DEF Wake
    <2>2. Call(i) \in DOMAIN asked
        BY <1>k, <2>1
    <2>3. asked[Call(i)] # "pending"
        BY <1>p, <2>1, <2>2
    <2>4. \/ /\ task' = [task EXCEPT ![i] = "running"] /\ bridge[Call(i)] = "allow"
             /\ bridge' = bridge /\ asked' = asked
          \/ task' = [task EXCEPT ![i] = "failed"] /\ bridge' = bridge /\ asked' = asked
          \/ task' = [task EXCEPT ![i] = "failed"] /\ live /\ Interrupt(DOMAIN bridge)
        BY <1>12 DEF Wake
    <2>5. {"running", "failed"} \subseteq TaskStates \ {"queued"}
        BY DEF TaskStates
    <2>6. CASE /\ task' = [task EXCEPT ![i] = "running"] /\ bridge[Call(i)] = "allow"
               /\ bridge' = bridge /\ asked' = asked
        <3>1. asked[Call(i)] = "approved"
            BY <1>p, <2>2, <2>6
        <3> QED BY <1>a, <1>p, <2>1, <2>2, <2>5, <2>6, <3>1, ConsentsTask
    <2>7. CASE task' = [task EXCEPT ![i] = "failed"] /\ bridge' = bridge /\ asked' = asked
        BY <1>a, <1>p, <2>1, <2>3, <2>5, <2>7, ConsentsTask
    <2>8. CASE task' = [task EXCEPT ![i] = "failed"] /\ live /\ Interrupt(DOMAIN bridge)
        <3>1. /\ DOMAIN asked' = DOMAIN asked /\ DOMAIN bridge' = DOMAIN asked
              /\ \A c \in DOMAIN asked :
                    /\ asked'[c] # "pending"
                    /\ asked[c] # "pending" => asked'[c] = asked[c] /\ bridge'[c] = bridge[c]
                    /\ bridge'[c] = "allow" => asked'[c] = "approved"
            BY <2>8, ConsentsInterrupted
        <3> QED BY <2>1, <2>5, <2>8, <3>1, ConsentsTask
    <2> QED BY <2>4, <2>6, <2>7, <2>8
<1>13. ASSUME NEW i \in Positions, WakeCancelled(i) PROVE ConsentsKept'
    <2>1. /\ pc = "tools" /\ task[i] = "waiting"
          /\ UNCHANGED <<loopVars, undelivered, endVars>>
          /\ task' = [task EXCEPT ![i] = "failed"] /\ Interrupt(DOMAIN bridge)
        BY <1>13 DEF WakeCancelled
    <2>2. "failed" \in TaskStates \ {"queued"}
        BY DEF TaskStates
    <2>3. CASE live
        <3>1. /\ DOMAIN asked' = DOMAIN asked /\ DOMAIN bridge' = DOMAIN asked
              /\ \A c \in DOMAIN asked :
                    /\ asked'[c] # "pending"
                    /\ asked[c] # "pending" => asked'[c] = asked[c] /\ bridge'[c] = bridge[c]
                    /\ bridge'[c] = "allow" => asked'[c] = "approved"
            BY <2>1, <2>3, ConsentsInterrupted
        <3> QED BY <2>1, <2>2, <3>1, ConsentsTask
    <2>4. CASE ~live
        <3>1. Interruptible(DOMAIN bridge) = {}
            BY <2>4 DEF Interruptible
        <3>2. /\ DOMAIN asked' = DOMAIN asked /\ DOMAIN bridge' = DOMAIN asked
              /\ \A c \in DOMAIN asked : bridge'[c] = bridge[c] /\ asked'[c] = asked[c]
            BY <1>a, <2>1, <3>1, InterruptTypes DEF AgentTypes
        <3> QED BY <1>p, <2>1, <2>2, <2>4, <3>2, ConsentsTask
    <2> QED BY <2>3, <2>4
<1>14. ASSUME NEW i \in Positions, ToolReturns(i) PROVE ConsentsKept'
    BY <1>14, <1>t DEF ToolReturns, TaskStates
<1>15. ASSUME NEW c0 \in DOMAIN asked, NEW d \in {"approved", "rejected"}, PersonDecides(c0, d)
       PROVE  ConsentsKept'
    <2>1. /\ asked[c0] = "pending" /\ asked' = [asked EXCEPT ![c0] = d]
          /\ undelivered' = undelivered \cup {c0} /\ bridge' = bridge
          /\ UNCHANGED <<loopVars, task, endVars>>
        BY <1>15 DEF PersonDecides
    <2>2. /\ DOMAIN asked' = DOMAIN asked /\ asked'[c0] = d
          /\ \A c \in DOMAIN asked : c # c0 => asked'[c] = asked[c]
        BY <2>1 DEF AgentTypes, ApprovalTypes
    <2>3. bridge[c0] = "pending"
        BY <1>p, <2>1
    <2> QED BY <1>a, <1>p, <2>1, <2>2, <2>3, ConsentsElsewhere DEF endVars
<1>16. ASSUME NEW c0 \in undelivered, DeliverDecision(c0) PROVE ConsentsKept'
    <2>1. /\ undelivered' = undelivered \ {c0} /\ asked' = asked
          /\ bridge' = IF bridge[c0] # "pending" THEN bridge
                 ELSE [bridge EXCEPT ![c0] = IF asked[c0] = "approved" THEN "allow" ELSE "deny"]
          /\ UNCHANGED <<loopVars, task, endVars>>
        BY <1>16 DEF DeliverDecision
    <2>2. c0 \in DOMAIN asked /\ asked[c0] # "pending"
        BY <1>a, <1>p
    <2>3. DOMAIN bridge' = DOMAIN asked /\ \A c \in DOMAIN asked :
             /\ bridge'[c] = "allow" => asked[c] = "approved"
             /\ bridge'[c] # "pending" => asked[c] # "pending"
        <3>1. CASE bridge[c0] # "pending"
            BY <1>a, <1>p, <2>1, <3>1
        <3>2. CASE bridge[c0] = "pending"
            <4>1. bridge' = [bridge EXCEPT ![c0] = IF asked[c0] = "approved" THEN "allow" ELSE "deny"]
                BY <2>1, <3>2
            <4>2. DOMAIN bridge' = DOMAIN asked
                  /\ bridge'[c0] = (IF asked[c0] = "approved" THEN "allow" ELSE "deny")
                  /\ \A c \in DOMAIN asked : c # c0 => bridge'[c] = bridge[c]
                BY <1>a, <2>2, <4>1
            <4> QED BY <1>p, <2>2, <4>2
        <3> QED BY <3>1, <3>2
    <2> QED BY <1>a, <1>p, <2>1, <2>3, ConsentsElsewhere DEF endVars
<1>17. ASSUME Cancel PROVE ConsentsKept'
    <2>1. UNCHANGED <<loopVars, task, endVars, approvalVars>>
        BY <1>17 DEF Cancel
    <2> QED BY <1>a, <1>p, <2>1, ConsentsElsewhere DEF endVars, approvalVars
<1>18. ASSUME CancelCommits PROVE ConsentsKept'
    <2>1. /\ live' = FALSE /\ outcome' = "cancelled" /\ bridge' = bridge /\ undelivered' = undelivered
          /\ asked' = [c \in DOMAIN asked |-> IF asked[c] = "pending" THEN "rejected" ELSE asked[c]]
          /\ UNCHANGED <<loopVars, task>>
        BY <1>18 DEF CancelCommits
    <2> QED BY <1>a, <1>p, <2>1, ConsentsElsewhere
<1> QED BY <1>1, <1>2, <1>3, <1>4, <1>5, <1>6, <1>7, <1>8, <1>9, <1>10, <1>11, <1>12, <1>13, <1>14,
           <1>15, <1>16, <1>17, <1>18 DEF Next, LoopStep, TaskStep, OtherThreads

-----------------------------------------------------------------------------
(***************************************************************************)
(* The stream.  Most steps add no start and no completion of a call; the   *)
(* others add exactly one.                                                 *)
(***************************************************************************)
CallFrames == {"callStarted", "callCompleted"}

\* The stream keeps its events, and the new ones up to the k-th are about no call.
Extends(k) ==
    /\ log' \in Seq(TurnFrames) /\ Len(log') >= Len(log) /\ k <= Len(log')
    /\ \A j \in 1..Len(log) : log'[j] = log[j]
    /\ \A j \in (Len(log) + 1)..k : log'[j].kind \notin CallFrames

LEMMA LogLength == ASSUME AgentTypes PROVE log \in Seq(TurnFrames) /\ Len(log) \in Nat
BY DEF AgentTypes, StreamTypes

LEMMA KeptExtends == ASSUME AgentTypes, Kept PROVE Extends(Len(log'))
BY LogLength DEF Kept, Extends

LEMMA AddedExtends ==
    ASSUME AgentTypes, NEW f, Adds(f), f.kind \notin CallFrames PROVE Extends(Len(log'))
<1>1. Len(log) \in Nat
    BY LogLength
<1>2. /\ log' \in Seq(TurnFrames) /\ Len(log') = Len(log) + 1
      /\ \A j \in 1..Len(log) : log'[j] = log[j]
      /\ log'[Len(log) + 1] = f
    BY DEF Adds
<1>3. \A j \in (Len(log) + 1)..Len(log') : j = Len(log) + 1
    BY <1>1, <1>2
<1> QED BY <1>1, <1>2, <1>3 DEF Extends

LEMMA LogQuiet ==
    ASSUME AgentTypes, LogKept, Extends(Len(log')), turns' \in {turns, turns + 1},
           pc' \in {"stream", "settle"} =>
               turns' = turns + 1 \/ (turns' = turns /\ pc \in {"stream", "settle"}),
           \A j \in 1..Len(log) : log[j].kind = "callCompleted" /\ log[j].item \in Owed' =>
               pc' = "tools" /\ task'[log[j].item[2]] = "failed",
           pc' \in {"announce", "tools", "results"} =>
               \A i \in 1..announced' : \E j \in 1..Len(log) :
                   log[j].kind = "callStarted" /\ log[j].item = Call(i)',
           pc' # "done" => pc # "done" /\ Owed \subseteq Owed',
           outcome' = "completed" => outcome = "completed" \/ (pc # "done" /\ Owed = {})
    PROVE  LogKept'
<1> DEFINE L == Len(log)  L2 == Len(log')
<1>1. /\ L \in Nat /\ L2 \in Nat /\ L <= L2 /\ turns \in Nat
      /\ \A j \in 1..L : log'[j] = log[j]
    BY LogLength, LoopNumbers DEF Extends, AgentTypes
<1>2. \A j \in 1..L2 : log'[j].kind \in CallFrames => j \in 1..L
    BY <1>1 DEF Extends
<1>k. {"callStarted", "callCompleted"} = CallFrames
    BY DEF CallFrames
<1>l. 1..L \subseteq 1..L2
    BY <1>1
<1> HIDE DEF L, L2
<1>3. ASSUME NEW j \in 1..L2, log'[j].kind \in CallFrames
      PROVE  /\ log'[j].item \in Pairs
             /\ log'[j].item[1] <= turns'
             /\ pc' \in {"stream", "settle"} => log'[j].item[1] < turns'
    <2>1. j \in 1..L /\ log'[j] = log[j]
        BY <1>1, <1>2, <1>3
    <2>2. /\ log[j].item \in Pairs /\ log[j].item[1] <= turns
          /\ pc \in {"stream", "settle"} => log[j].item[1] < turns
        BY <1>3, <2>1 DEF LogKept, L, CallFrames
    <2>3. log[j].item[1] \in Nat
        BY <2>2 DEF Pairs
    <2> QED BY <1>1, <2>1, <2>2, <2>3
<1>4. ASSUME NEW j \in 1..L2, log'[j].kind = "callCompleted"
      PROVE  /\ log'[j].item \in Owed' => pc' = "tools" /\ task'[log'[j].item[2]] = "failed"
             /\ \A i \in 1..L2 :
                   log'[i].kind = "callCompleted" /\ log'[i].item = log'[j].item => i = j
             /\ \E i \in 1..(j - 1) : log'[i].kind = "callStarted" /\ log'[i].item = log'[j].item
    <2>1. j \in 1..L /\ log'[j] = log[j]
        BY <1>1, <1>2, <1>4 DEF CallFrames
    <2>2. ASSUME NEW i \in 1..L2, log'[i].kind = "callCompleted", log'[i].item = log'[j].item
          PROVE  i = j
        <3>1. i \in 1..L /\ log'[i] = log[i]
            BY <1>1, <1>2, <2>2 DEF CallFrames
        <3> QED BY <1>4, <2>1, <2>2, <3>1 DEF LogKept, L
    <2>3. PICK i \in 1..(j - 1) : log[i].kind = "callStarted" /\ log[i].item = log[j].item
        BY <1>4, <2>1 DEF LogKept, L
    <2>4. log'[i] = log[i]
        BY <1>1, <2>1
    <2>5. log'[j].item \in Owed' => pc' = "tools" /\ task'[log'[j].item[2]] = "failed"
        BY <1>4, <2>1 DEF L
    <2> QED BY <2>1, <2>2, <2>3, <2>4, <2>5
<1>5. ASSUME pc' \in {"announce", "tools", "results"}, NEW i \in 1..announced'
      PROVE  \E j \in 1..L2 : log'[j].kind = "callStarted" /\ log'[j].item = Call(i)'
    <2>1. PICK j \in 1..L : log[j].kind = "callStarted" /\ log[j].item = Call(i)'
        BY <1>5 DEF L
    <2> QED BY <1>1, <1>l, <2>1
<1>6. ASSUME NEW c, Closed(log, c) PROVE Closed(log', c)
    <2>1. PICK j \in 1..L : log[j].kind = "callCompleted" /\ log[j].item = c
        BY <1>6 DEF Closed, L
    <2>2. j \in 1..L2 /\ log'[j].kind = "callCompleted" /\ log'[j].item = c
        BY <1>1, <1>l, <2>1
    <2> QED BY <2>2 DEF Closed, L2
<1>7. ASSUME NEW j \in 1..L2, log'[j].kind = "callStarted", pc' # "done"
      PROVE  log'[j].item \in Owed' \/ Closed(log', log'[j].item)
    <2>1. j \in 1..L /\ log'[j] = log[j]
        BY <1>1, <1>2, <1>7 DEF CallFrames
    <2>2. log[j].item \in Owed \/ Closed(log, log[j].item)
        BY <1>7, <2>1 DEF LogKept, L
    <2> QED BY <1>6, <1>7, <2>1, <2>2
<1>8. ASSUME NEW j \in 1..L2, log'[j].kind = "callStarted", outcome' = "completed"
      PROVE  Closed(log', log'[j].item)
    <2>1. j \in 1..L /\ log'[j] = log[j]
        BY <1>1, <1>2, <1>8 DEF CallFrames
    <2>2. Closed(log, log[j].item)
        BY <1>8, <2>1 DEF LogKept, L
    <2> QED BY <1>6, <2>1, <2>2
<1> QED
    BY <1>3, <1>4, <1>5, <1>7, <1>8
       DEF LogKept, L2, CallFrames

\* One completion, the last event of the step.
LEMMA LogCloses ==
    ASSUME AgentTypes, LogKept, NEW c \in Pairs, Extends(Len(log') - 1), Len(log') > Len(log),
           log'[Len(log')].kind = "callCompleted", log'[Len(log')].item = c,
           c[1] <= turns, turns' = turns, pc # "done", pc' \notin {"stream", "settle", "announce"},
           \A j \in 1..Len(log) : log[j].kind = "callCompleted" => log[j].item # c,
           \E j \in 1..Len(log) : log[j].kind = "callStarted" /\ log[j].item = c,
           \A x \in Owed : x = c \/ x \in Owed',
           c \in Owed' => pc' = "tools" /\ task'[c[2]] = "failed",
           \A j \in 1..Len(log) : log[j].kind = "callCompleted" /\ log[j].item \in Owed' =>
               pc' = "tools" /\ task'[log[j].item[2]] = "failed",
           pc' \in {"tools", "results"} =>
               /\ announced' = announced /\ pc \in {"tools", "results"}
               /\ \A i : Call(i)' = Call(i),
           outcome' = "completed" => FALSE
    PROVE  LogKept'
<1> DEFINE L == Len(log)  L2 == Len(log')
<1>1. /\ L \in Nat /\ L2 \in Nat /\ L < L2 /\ turns \in Nat
      /\ \A j \in 1..L : log'[j] = log[j]
    BY LogLength, LoopNumbers DEF Extends, AgentTypes
<1>2. \A j \in 1..L2 : log'[j].kind \in CallFrames => j \in 1..L \/ j = L2
    <2>1. \A j \in (L + 1)..(L2 - 1) : log'[j].kind \notin CallFrames
        BY DEF Extends
    <2> QED BY <1>1, <2>1
<1>l. 1..L \subseteq 1..L2 /\ L2 \in 1..L2
    BY <1>1
<1>c. log'[L2].kind = "callCompleted" /\ log'[L2].item = c
    OBVIOUS
<1> HIDE DEF L, L2
<1>s. \A j \in 1..L2 : log'[j].kind = "callStarted" => j \in 1..L /\ log'[j] = log[j]
    BY <1>1, <1>2, <1>c DEF CallFrames
<1>6. ASSUME NEW d, Closed(log, d) PROVE Closed(log', d)
    <2>1. PICK j \in 1..L : log[j].kind = "callCompleted" /\ log[j].item = d
        BY <1>6 DEF Closed, L
    <2>2. j \in 1..L2 /\ log'[j].kind = "callCompleted" /\ log'[j].item = d
        BY <1>1, <1>l, <2>1
    <2> QED BY <2>2 DEF Closed, L2
<1>d. Closed(log', c)
    BY <1>c, <1>l DEF Closed, L2
<1>3. ASSUME NEW j \in 1..L2, log'[j].kind \in CallFrames
      PROVE  log'[j].item \in Pairs /\ log'[j].item[1] <= turns'
    <2>1. CASE j = L2
        BY <1>c, <2>1
    <2>2. CASE j # L2
        <3>1. j \in 1..L /\ log'[j] = log[j]
            BY <1>1, <1>2, <1>3, <2>2
        <3> QED BY <1>3, <3>1 DEF LogKept, L, CallFrames
    <2> QED BY <2>1, <2>2
<1>4. ASSUME NEW j \in 1..L2, log'[j].kind = "callCompleted"
      PROVE  /\ log'[j].item \in Owed' => pc' = "tools" /\ task'[log'[j].item[2]] = "failed"
             /\ \A i \in 1..L2 :
                   log'[i].kind = "callCompleted" /\ log'[i].item = log'[j].item => i = j
             /\ \E i \in 1..(j - 1) : log'[i].kind = "callStarted" /\ log'[i].item = log'[j].item
    <2>1. CASE j = L2
        <3>1. ASSUME NEW i \in 1..L2, log'[i].kind = "callCompleted", log'[i].item = log'[j].item
              PROVE  i = j
            <4>1. i \in 1..L => log'[i] = log[i] /\ log[i].item # c
                BY <1>1, <3>1 DEF L
            <4>2. i \notin 1..L
                BY <1>c, <2>1, <3>1, <4>1
            <4> QED BY <1>2, <2>1, <3>1, <4>2 DEF CallFrames
        <3>2. PICK i \in 1..L : log[i].kind = "callStarted" /\ log[i].item = c
            BY DEF L
        <3>3. i \in 1..(j - 1) /\ log'[i] = log[i]
            BY <1>1, <2>1, <3>2
        <3> QED BY <1>c, <2>1, <3>1, <3>2, <3>3
    <2>2. CASE j # L2
        <3>1. j \in 1..L /\ log'[j] = log[j]
            BY <1>1, <1>2, <1>4, <2>2 DEF CallFrames
        <3>2. ASSUME NEW i \in 1..L2, log'[i].kind = "callCompleted", log'[i].item = log'[j].item
              PROVE  i = j
            <4>1. log[j].item # c
                BY <1>4, <3>1 DEF L
            <4>2. i \in 1..L /\ log'[i] = log[i]
                BY <1>1, <1>2, <1>c, <3>1, <3>2, <4>1 DEF CallFrames
            <4> QED BY <1>4, <3>1, <3>2, <4>2 DEF LogKept, L
        <3>3. PICK i \in 1..(j - 1) : log[i].kind = "callStarted" /\ log[i].item = log[j].item
            BY <1>4, <3>1 DEF LogKept, L
        <3>4. log'[i] = log[i]
            BY <1>1, <3>1
        <3>5. log'[j].item \in Owed' => pc' = "tools" /\ task'[log'[j].item[2]] = "failed"
            BY <1>4, <3>1 DEF L
        <3> QED BY <3>1, <3>2, <3>3, <3>4, <3>5
    <2> QED BY <2>1, <2>2
<1>5. ASSUME pc' \in {"tools", "results"}, NEW i \in 1..announced'
      PROVE  \E j \in 1..L2 : log'[j].kind = "callStarted" /\ log'[j].item = Call(i)'
    <2>1. i \in 1..announced /\ Call(i)' = Call(i) /\ pc \in {"tools", "results"}
        BY <1>5
    <2>2. PICK j \in 1..L : log[j].kind = "callStarted" /\ log[j].item = Call(i)
        BY <2>1 DEF LogKept, L
    <2> QED BY <1>1, <1>l, <2>1, <2>2
<1>7. ASSUME NEW j \in 1..L2, log'[j].kind = "callStarted"
      PROVE  log'[j].item \in Owed' \/ Closed(log', log'[j].item)
    <2>1. j \in 1..L /\ log'[j] = log[j]
        BY <1>s, <1>7
    <2>2. log[j].item \in Owed \/ Closed(log, log[j].item)
        BY <1>7, <2>1 DEF LogKept, L
    <2>3. CASE log[j].item \in Owed
        BY <1>d, <2>1, <2>3
    <2> QED BY <1>6, <2>1, <2>2, <2>3
<1> QED BY <1>3, <1>4, <1>5, <1>7 DEF LogKept, L2, CallFrames

\* A call of the turn is announced.
LEMMA LogStarts ==
    ASSUME AgentTypes, LoopKept, LogKept, pc = "announce", pc' \in {"announce", "tools"},
           Adds(Frame("callStarted", turns, Call(announced + 1))),
           UNCHANGED <<turns, calls, taken, outcome, live>>, live,
           outcome = "completed" => ~live,
           announced' = announced + 1
    PROVE  LogKept'
<1> DEFINE L == Len(log)  L2 == Len(log')  c == Call(announced + 1)
<1>1. /\ L \in Nat /\ L2 = L + 1 /\ turns \in Nat /\ announced \in Nat
      /\ \A j \in 1..L : log'[j] = log[j]
      /\ log'[L2] = Frame("callStarted", turns, c)
    BY LogLength, LoopNumbers DEF Adds, AgentTypes
<1>2. c \in Pairs /\ c[1] = turns /\ log'[L2].kind = "callStarted" /\ log'[L2].item = c
    BY <1>1, CallIsPair DEF Frame
<1>3. announced + 1 \in Positions
    <2>1. Positions = 1..Len(calls) /\ Len(calls) \in Nat /\ announced < Len(calls)
        BY LoopNumbers DEF AgentTypes, LoopKept
    <2> QED BY <1>1, <2>1
<1>4. Owed' = Owed /\ c \in Owed
    <2>1. Owed' = Owed
        BY OwedSame
    <2> QED BY <1>3, <2>1 DEF Owed
<1>p. \A i : Call(i)' = Call(i)
    BY DEF Call
<1>l. 1..L \subseteq 1..L2 /\ L2 \in 1..L2 /\ \A j \in 1..L2 : j \in 1..L \/ j = L2
    BY <1>1
<1> HIDE DEF L, L2, c
<1>m. \A j \in 1..L2 : log'[j].kind = "callCompleted" => j \in 1..L /\ log'[j] = log[j]
    BY <1>1, <1>2, <1>l
<1>5. ASSUME NEW j \in 1..L2, log'[j].kind \in CallFrames
      PROVE  log'[j].item \in Pairs /\ log'[j].item[1] <= turns'
    <2>1. CASE j = L2
        BY <1>1, <1>2, <2>1
    <2>2. CASE j # L2
        BY <1>1, <1>5, <1>l, <2>2 DEF LogKept, L, CallFrames
    <2> QED BY <2>1, <2>2
<1>6. ASSUME NEW j \in 1..L2, log'[j].kind = "callCompleted"
      PROVE  /\ log'[j].item \notin Owed'
             /\ \A i \in 1..L2 :
                   log'[i].kind = "callCompleted" /\ log'[i].item = log'[j].item => i = j
             /\ \E i \in 1..(j - 1) : log'[i].kind = "callStarted" /\ log'[i].item = log'[j].item
    <2>1. j \in 1..L /\ log'[j] = log[j]
        BY <1>m, <1>6
    <2>2. log[j].item \notin Owed
        BY <1>6, <2>1 DEF LogKept, L
    <2>3. ASSUME NEW i \in 1..L2, log'[i].kind = "callCompleted", log'[i].item = log'[j].item
          PROVE  i = j
        <3>1. i \in 1..L /\ log'[i] = log[i]
            BY <1>m, <2>3
        <3> QED BY <1>6, <2>1, <2>3, <3>1 DEF LogKept, L
    <2>4. PICK i \in 1..(j - 1) : log[i].kind = "callStarted" /\ log[i].item = log[j].item
        BY <1>6, <2>1 DEF LogKept, L
    <2>5. log'[i] = log[i]
        BY <1>1, <2>1
    <2> QED BY <1>4, <2>1, <2>2, <2>3, <2>4, <2>5
<1>7. ASSUME NEW i \in 1..announced'
      PROVE  \E j \in 1..L2 : log'[j].kind = "callStarted" /\ log'[j].item = Call(i)'
    <2>1. CASE i = announced + 1
        BY <1>2, <1>l, <1>p, <2>1 DEF c
    <2>2. CASE i # announced + 1
        <3>1. i \in 1..announced
            BY <1>1, <2>2
        <3>2. PICK j \in 1..L : log[j].kind = "callStarted" /\ log[j].item = Call(i)
            BY <3>1 DEF LogKept, L
        <3> QED BY <1>1, <1>l, <1>p, <3>2
    <2> QED BY <2>1, <2>2
<1>8. ASSUME NEW j \in 1..L2, log'[j].kind = "callStarted"
      PROVE  log'[j].item \in Owed' \/ Closed(log', log'[j].item)
    <2>1. CASE j = L2
        BY <1>2, <1>4, <2>1
    <2>2. CASE j # L2
        <3>1. j \in 1..L /\ log'[j] = log[j]
            BY <1>1, <1>l, <2>2
        <3>2. log[j].item \in Owed \/ Closed(log, log[j].item)
            BY <1>8, <3>1 DEF LogKept, L
        <3>3. CASE Closed(log, log[j].item)
            <4>1. PICK i \in 1..L : log[i].kind = "callCompleted" /\ log[i].item = log[j].item
                BY <3>3 DEF Closed, L
            <4>2. i \in 1..L2 /\ log'[i].kind = "callCompleted" /\ log'[i].item = log'[j].item
                BY <1>1, <1>l, <3>1, <4>1
            <4> QED BY <4>2 DEF Closed, L2
        <3> QED BY <1>4, <3>1, <3>2, <3>3
    <2> QED BY <2>1, <2>2
<1>9. outcome' # "completed"
    OBVIOUS
<1> QED BY <1>5, <1>6, <1>7, <1>8, <1>9 DEF LogKept, L2, CallFrames

LEMMA QuietKinds ==
    /\ \A k \in {"run", "turnStarted", "turnCompleted", "pending", "callProgressed"} :
          k \in FrameKinds /\ k \notin CallFrames
    /\ CallFrames \subseteq FrameKinds
BY DEF FrameKinds, CallFrames

LEMMA QuietFrame ==
    ASSUME AgentTypes,
           NEW k \in {"run", "turnStarted", "turnCompleted", "pending", "callProgressed"},
           NEW t \in Nat, NEW item \in Pairs \cup {<<>>}, NEW seen \in Seq(TurnMessages),
           CommitSeeing(<<Frame(k, t, item)>>, seen)
    PROVE  Adds(Frame(k, t, item)) /\ Extends(Len(log'))
<1>1. Frame(k, t, item) \in TurnFrames /\ Frame(k, t, item).kind = k
    BY QuietKinds, FrameKind
<1>2. Adds(Frame(k, t, item))
    BY <1>1, CommitAdds
<1> QED BY <1>1, <1>2, QuietKinds, AddedExtends

LEMMA StreamOfEnd ==
    ASSUME AgentTypes, LogKept, NEW how \in {"completed", "failed"}, NEW why, End(how, why),
           turns' = turns, history' \in Seq(TurnMessages),
           how = "completed" => pc # "done" /\ Owed = {}
    PROVE  StreamTypes' /\ LogKept'
<1>1. pc' = "done" /\ live' = FALSE /\ (live => outcome' = how) /\ (~live => outcome' = outcome)
      /\ (Kept \/ Adds(Frame("run", 0, <<>>)))
    BY EndAdds DEF AgentTypes, ApprovalTypes
<1>2. StreamTypes'
    BY <1>1, AddedTypes DEF AgentTypes
<1>3. Extends(Len(log'))
    <2>1. Frame("run", 0, <<>>).kind \notin CallFrames
        BY QuietKinds DEF Frame
    <2> QED BY <1>1, <2>1, KeptExtends, AddedExtends
<1>4. Owed' = {}
    BY <1>1 DEF Owed
<1>5. outcome' = "completed" => outcome = "completed" \/ (pc # "done" /\ Owed = {})
    BY <1>1 DEF AgentTypes, ApprovalTypes
<1> QED BY <1>1, <1>2, <1>3, <1>4, <1>5, LogQuiet

\* Two frames are committed when a result is published.
LEMMA PublishAdds ==
    ASSUME AgentTypes, NEW c \in Pairs, NEW seen \in Seq(TurnMessages),
           CommitSeeing(<<Frame("callProgressed", turns, c), Frame("callCompleted", turns, c)>>, seen)
    PROVE  /\ log' \in Seq(TurnFrames) /\ views' \in Seq(Seq(TurnMessages)) /\ Len(views') = Len(log')
           /\ Extends(Len(log') - 1) /\ Len(log') > Len(log)
           /\ log'[Len(log')].kind = "callCompleted" /\ log'[Len(log')].item = c
<1> DEFINE f1 == Frame("callProgressed", turns, c)  f2 == Frame("callCompleted", turns, c)
           V == Seq(TurnMessages)  L == Len(log)
<1>0. turns \in Nat /\ L \in Nat /\ log \in Seq(TurnFrames) /\ views \in Seq(V) /\ Len(views) = L
    BY LogLength, LoopNumbers DEF AgentTypes, StreamTypes
<1>1. /\ f1 \in TurnFrames /\ f2 \in TurnFrames /\ f1.kind = "callProgressed"
      /\ f2.kind = "callCompleted" /\ f2.item = c
    BY <1>0, FrameKind DEF FrameKinds
<1> HIDE DEF f1, f2, V
<1>2. log' = log \o <<f1, f2>> /\ views' = views \o [i \in 1..Len(<<f1, f2>>) |-> seen]
    BY DEF CommitSeeing, f1, f2
<1>3. <<f1, f2>> \in Seq(TurnFrames) /\ Len(<<f1, f2>>) = 2
      /\ <<f1, f2>>[1] = f1 /\ <<f1, f2>>[2] = f2
    BY <1>1
<1>4. /\ log' \in Seq(TurnFrames) /\ Len(log') = L + 2
      /\ \A i \in 1..(L + 2) : log'[i] = IF i <= L THEN log[i] ELSE <<f1, f2>>[i - L]
    BY <1>0, <1>2, <1>3, ConcatProperties
<1>5. /\ \A i \in 1..L : log'[i] = log[i]
      /\ log'[L + 1] = f1 /\ log'[L + 2] = f2
    <2>1. \A i \in 1..L : log'[i] = log[i]
        BY <1>0, <1>4
    <2>2. L + 1 \in 1..(L + 2) /\ ~(L + 1 <= L) /\ (L + 1) - L = 1
        BY <1>0
    <2>3. L + 2 \in 1..(L + 2) /\ ~(L + 2 <= L) /\ (L + 2) - L = 2
        BY <1>0
    <2>4. log'[L + 1] = <<f1, f2>>[1]
        BY <1>4, <2>2
    <2>5. log'[L + 2] = <<f1, f2>>[2]
        BY <1>4, <2>3
    <2> QED BY <1>3, <2>1, <2>4, <2>5
<1>6. views' \in Seq(V) /\ Len(views') = Len(log')
    <2> DEFINE s2 == [i \in 1..2 |-> seen]
    <2>1. seen \in V
        BY DEF V
    <2>2. s2 \in Seq(V) /\ Len(s2) = 2
        BY <2>1
    <2>3. views' = views \o s2
        BY <1>2, <1>3
    <2> HIDE DEF s2
    <2>4. views \o s2 \in Seq(V) /\ Len(views \o s2) = Len(views) + Len(s2)
        BY <1>0, <2>2, ConcatProperties
    <2> QED BY <1>0, <1>4, <2>2, <2>3, <2>4
<1>7. f1.kind \notin CallFrames
    BY <1>1, QuietKinds
<1>8. \A j \in (L + 1)..(Len(log') - 1) : j = L + 1
    BY <1>0, <1>4
<1>9. Extends(Len(log') - 1)
    BY <1>0, <1>4, <1>5, <1>7, <1>8 DEF Extends
<1> QED BY <1>0, <1>1, <1>4, <1>5, <1>6, <1>9 DEF V

LEMMA MessagesGrow ==
    ASSUME AgentTypes, NEW m \in TurnMessages PROVE Append(history, m) \in Seq(TurnMessages)
BY AppendProperties DEF AgentTypes, StreamTypes

\* A quiet step inside the turn: what is owed, and for whom, stays.
LEMMA LogStays ==
    ASSUME AgentTypes, LogKept, Extends(Len(log')), UNCHANGED <<turns, calls>>, Owed' = Owed,
           outcome' = "completed" => outcome = "completed",
           pc \in {"tools", "results"}, pc' \in {"tools", "results"}, announced' = announced,
           \A i \in Positions : task[i] = "failed" => pc' = "tools" /\ task'[i] = "failed"
    PROVE  LogKept'
<1>1. \A i : Call(i)' = Call(i)
    BY DEF Call
<1>2. ASSUME NEW j \in 1..Len(log), log[j].kind = "callCompleted", log[j].item \in Owed'
      PROVE  pc' = "tools" /\ task'[log[j].item[2]] = "failed"
    <2>1. task[log[j].item[2]] = "failed"
        BY <1>2 DEF LogKept
    <2>2. \A x \in Owed : x[2] \in Positions
        BY DEF Owed, Call
    <2> QED BY <1>2, <2>1, <2>2
<1>3. ASSUME NEW i \in 1..announced
      PROVE  \E j \in 1..Len(log) : log[j].kind = "callStarted" /\ log[j].item = Call(i)
    BY DEF LogKept
<1> QED BY <1>1, <1>2, <1>3, LogQuiet

\* One task moves, and its call is closed or not.
LEMMA LogTask ==
    ASSUME AgentTypes, LoopKept, LogKept, pc = "tools", UNCHANGED <<loopVars, endVars, history>>,
           NEW i \in Positions, NEW s, task' = [task EXCEPT ![i] = s], task[i] # "failed",
           \/ Kept
           \/ s = "failed" /\ live /\ Commit(<<Frame("callCompleted", turns, Call(i))>>)
           \/ Commit(<<Frame("pending", 0, Call(i))>>)
    PROVE  StreamTypes' /\ LogKept'
<1> DEFINE c == Call(i)
<1>1. /\ turns \in Nat /\ Len(calls) \in Nat /\ Positions = 1..Len(calls) /\ i \in Nat
      /\ pc' = pc /\ turns' = turns /\ calls' = calls /\ taken' = taken /\ announced' = announced
      /\ outcome' = outcome /\ history' = history /\ history \in Seq(TurnMessages)
    BY LoopNumbers DEF AgentTypes, StreamTypes, loopVars, endVars
<1>2. c \in Pairs /\ c[1] = turns /\ c[2] = i
    BY <1>1, CallIsPair
<1>3. DOMAIN task = Positions /\ task'[i] = s /\ \A j \in Positions : j # i => task'[j] = task[j]
    BY DEF AgentTypes, LoopTypes
<1>4. Owed' = Owed /\ c \in Owed /\ \A x \in Owed : x[2] \in Positions /\ x = Call(x[2])
    <2>1. Owed' = Owed
        BY <1>1, OwedSame
    <2>2. Owed = { Call(j) : j \in Positions }
        BY DEF Owed
    <2> QED BY <2>1, <2>2 DEF Call
<1>5. \A j \in Positions : task[j] = "failed" => task'[j] = "failed"
    BY <1>3
<1> HIDE DEF c
<1>6. CASE Kept
    <2>1. StreamTypes'
        BY <1>1, <1>6, AddedTypes DEF AgentTypes
    <2>2. Extends(Len(log'))
        BY <1>6, KeptExtends
    <2> QED BY <1>1, <1>4, <1>5, <2>1, <2>2, LogStays
<1>7. CASE Commit(<<Frame("pending", 0, c)>>)
    <2>1. Adds(Frame("pending", 0, c)) /\ Extends(Len(log'))
        BY <1>1, <1>2, <1>7, QuietFrame DEF Commit
    <2>2. StreamTypes'
        BY <1>1, <2>1, AddedTypes DEF AgentTypes
    <2> QED BY <1>1, <1>4, <1>5, <2>1, <2>2, LogStays
<1>8. CASE s = "failed" /\ live /\ Commit(<<Frame("callCompleted", turns, c)>>)
    <2> DEFINE f == Frame("callCompleted", turns, c)
    <2>1. f \in TurnFrames /\ f.kind = "callCompleted" /\ f.item = c
        BY <1>1, <1>2, FrameKind DEF FrameKinds
    <2>2. Adds(f)
        BY <1>1, <1>8, <2>1, CommitAdds DEF Commit
    <2> HIDE DEF f
    <2>3. StreamTypes'
        BY <1>1, <2>2, AddedTypes DEF AgentTypes
    <2>4. /\ Len(log) \in Nat /\ log' \in Seq(TurnFrames) /\ Len(log') = Len(log) + 1
          /\ \A j \in 1..Len(log) : log'[j] = log[j]
          /\ log'[Len(log')] = f
        BY <2>2, LogLength DEF Adds
    <2>5. Extends(Len(log') - 1) /\ Len(log') > Len(log)
        BY <2>4 DEF Extends
    <2>6. ASSUME NEW j \in 1..Len(log), log[j].kind = "callCompleted" PROVE log[j].item # c
        <3>1. log[j].item \in Owed => task[log[j].item[2]] = "failed"
            BY <2>6 DEF LogKept
        <3> QED BY <1>2, <1>4, <3>1
    <2>7. \E j \in 1..Len(log) : log[j].kind = "callStarted" /\ log[j].item = c
        <3>1. i \in 1..announced
            BY <1>1 DEF LoopKept
        <3> QED BY <3>1 DEF LogKept, c
    <2>8. \A j \in 1..Len(log) : log[j].kind = "callCompleted" /\ log[j].item \in Owed' =>
               pc' = "tools" /\ task'[log[j].item[2]] = "failed"
        BY <1>1, <1>4, <1>5 DEF LogKept
    <2>9. outcome' # "completed"
        <3>1. outcome = "completed" => \A j \in 1..Len(log) :
                 log[j].kind = "callStarted" => Closed(log, log[j].item)
            BY DEF LogKept
        <3>2. ~Closed(log, c)
            BY <2>6 DEF Closed
        <3> QED BY <1>1, <2>7, <3>1, <3>2
    <2>a. \A j : Call(j)' = Call(j)
        BY <1>1 DEF Call
    <2>b. c[1] <= turns /\ (c \in Owed' => pc' = "tools" /\ task'[c[2]] = "failed")
        BY <1>1, <1>2, <1>3, <1>8
    <2> QED BY <1>1, <1>2, <1>4, <2>1, <2>3, <2>4, <2>5, <2>6, <2>7, <2>8, <2>9, <2>a, <2>b, LogCloses
<1> QED BY <1>6, <1>7, <1>8 DEF c

LEMMA StreamStep ==
    ASSUME AgentTypes, LoopKept, ConsentsKept, LogKept, SessionKept, Next
    PROVE  StreamTypes' /\ LogKept'
<1>t. StreamTypes /\ history \in Seq(TurnMessages)
    BY DEF AgentTypes, StreamTypes
<1>n. /\ turns \in Nat /\ Len(calls) \in Nat /\ taken \in Nat /\ announced \in Nat
      /\ Positions = 1..Len(calls)
    BY LoopNumbers DEF AgentTypes
<1>f. ASSUME turns' = turns, history' \in Seq(TurnMessages), NEW why, Fail(why)
      PROVE  StreamTypes' /\ LogKept'
    BY <1>f, StreamOfEnd DEF Fail
<1>z. ASSUME pc' \notin {"announce", "tools", "results"} PROVE Owed' = {}
    BY <1>z DEF Owed
<1>o. outcome = "completed" => ~live
    BY DEF ConsentsKept
<1>q. ASSUME pc \notin {"announce", "tools", "results", "done"}, pc' \in {"top", "stream"},
             Extends(Len(log')), UNCHANGED endVars,
             turns' = turns + 1 \/ (turns' = turns /\ pc' = "top")
      PROVE  LogKept'
    <2>1. Owed = {} /\ Owed' = {}
        BY <1>q, <1>z, NothingOwed
    <2> QED BY <1>q, <2>1, LogQuiet DEF endVars
<1>k. ASSUME Silent, history' \in Seq(TurnMessages)
      PROVE  StreamTypes' /\ Extends(Len(log')) /\ Kept
    BY <1>t, <1>k, KeptExtends, AddedTypes DEF Silent, Kept
<1>1. ASSUME BeginTurn PROVE StreamTypes' /\ LogKept'
    <2>1. pc = "top"
        BY <1>1 DEF BeginTurn
    <2>2. \/ End("completed", "max turns") /\ UNCHANGED <<turns, history>>
          \/ (\E why : Fail(why)) /\ UNCHANGED <<turns, history>>
          \/ /\ turns' = turns + 1 /\ history' = Repair(history) /\ pc' = "stream"
             /\ Commit(<<Frame("turnStarted", turns + 1, <<>>)>>) /\ UNCHANGED endVars
        BY <1>1, Zenon DEF BeginTurn
    <2>3. ASSUME End("completed", "max turns"), UNCHANGED <<turns, history>>
          PROVE  StreamTypes' /\ LogKept'
        BY <1>t, <2>1, <2>3, NothingOwed, StreamOfEnd
    <2>4. ASSUME turns' = turns + 1, history' = Repair(history), pc' = "stream",
                 Commit(<<Frame("turnStarted", turns + 1, <<>>)>>), UNCHANGED endVars
          PROVE  StreamTypes' /\ LogKept'
        <3>1. history' = history
            BY <1>t, <2>1, <2>4, SessionIsWhole
        <3>2. Adds(Frame("turnStarted", turns + 1, <<>>)) /\ Extends(Len(log'))
            <4>1. turns + 1 \in Nat /\ CommitSeeing(<<Frame("turnStarted", turns + 1, <<>>)>>, history)
                BY <1>n, <2>4 DEF Commit
            <4> QED BY <1>t, <4>1, QuietFrame
        <3>3. StreamTypes'
            BY <1>t, <3>1, <3>2, AddedTypes
        <3> QED BY <1>q, <2>1, <2>4, <3>2, <3>3
    <2> QED BY <1>t, <1>f, <2>2, <2>3, <2>4
<1>2. ASSUME StreamTooLong PROVE StreamTypes' /\ LogKept'
    <2>1. /\ pc = "stream" /\ turns' = turns
          /\ \/ history' = Compact(history) /\ pc' = "top" /\ Silent /\ UNCHANGED endVars
             \/ Fail("context") /\ history' = history
        BY <1>2 DEF StreamTooLong
    <2>2. ASSUME history' = Compact(history), pc' = "top", Silent, UNCHANGED endVars
          PROVE  StreamTypes' /\ LogKept'
        <3>1. history' \in Seq(TurnMessages)
            <4>1. Len(history) >= 1
                BY <2>1 DEF SessionKept
            <4> QED BY <1>t, <2>2, <4>1, Compacted
        <3> QED BY <1>k, <1>q, <2>1, <2>2, <3>1
    <2> QED BY <1>t, <1>f, <2>1, <2>2
<1>3. ASSUME StreamFails PROVE StreamTypes' /\ LogKept'
    BY <1>3, <1>t, <1>f DEF StreamFails
<1>4. ASSUME NEW reply \in Replies, StreamCompletes(reply) PROVE StreamTypes' /\ LogKept'
    <2> DEFINE called == [i \in 1..Len(reply) |-> <<turns, i>>]
    <2>1. /\ pc = "stream" /\ turns' = turns /\ calls' = reply /\ announced' = 0
          /\ history' = Append(history, Assistant(called))
        BY <1>4 DEF StreamCompletes
    <2>2. \/ Fail("sink")
          \/ /\ CommitSeeing(<<Frame("turnCompleted", turns, <<>>)>>, history')
             /\ pc' \in {"settle", "announce"} /\ UNCHANGED endVars
        BY <1>4 DEF StreamCompletes
    <2>3. Len(reply) \in Nat
        BY CallsAreListed
    <2>4. called \in Seq(Pairs)
        BY <1>n, <2>3 DEF Pairs
    <2>5. history' \in Seq(TurnMessages)
        BY <2>1, <2>4, MessageKinds, MessagesGrow
    <2>6. ASSUME CommitSeeing(<<Frame("turnCompleted", turns, <<>>)>>, history'),
                 pc' \in {"settle", "announce"}, UNCHANGED endVars
          PROVE  StreamTypes' /\ LogKept'
        <3>1. Adds(Frame("turnCompleted", turns, <<>>)) /\ Extends(Len(log'))
            BY <1>n, <2>5, <2>6, QuietFrame
        <3>2. StreamTypes'
            BY <1>t, <2>5, <3>1, AddedTypes
        <3>3. Owed = {} /\ \A x \in Owed' : x[1] = turns
            BY <2>1, NothingOwed DEF Owed, Call
        <3>4. \A j \in 1..Len(log) : log[j].kind = "callCompleted" => log[j].item \notin Owed'
            <4> SUFFICES ASSUME NEW j \in 1..Len(log), log[j].kind = "callCompleted"
                         PROVE  log[j].item \notin Owed'
                OBVIOUS
            <4>1. log[j].item[1] < turns /\ log[j].item \in Pairs
                BY <2>1 DEF LogKept
            <4>2. log[j].item[1] \in Nat
                BY <4>1 DEF Pairs
            <4> QED BY <1>n, <3>3, <4>1, <4>2
        <3>5. 1..announced' = {}
            BY <2>1
        <3> QED BY <2>1, <2>6, <3>1, <3>2, <3>3, <3>4, <3>5, LogQuiet DEF endVars
    <2> QED BY <1>f, <2>1, <2>2, <2>5, <2>6
<1>5. ASSUME Settle PROVE StreamTypes' /\ LogKept'
    <2>1. pc = "settle" /\ UNCHANGED <<turns, history>>
        BY <1>5 DEF Settle
    <2>2. \/ pc' = "top" /\ Silent /\ UNCHANGED endVars
          \/ Fail("continuations")
          \/ End("completed", "normal end")
        BY <1>5 DEF Settle
    <2>3. CASE pc' = "top" /\ Silent /\ UNCHANGED endVars
        BY <1>t, <1>k, <1>q, <2>1, <2>3
    <2>4. CASE End("completed", "normal end")
        BY <1>t, <2>1, <2>4, NothingOwed, StreamOfEnd
    <2> QED BY <1>t, <1>f, <2>1, <2>2, <2>3, <2>4
<1>6. ASSUME AnnounceCall PROVE StreamTypes' /\ LogKept'
    <2>1. pc = "announce" /\ UNCHANGED <<turns, calls, taken, history>>
        BY <1>6 DEF AnnounceCall
    <2>2. \/ Fail("sink")
          \/ /\ live /\ announced' = announced + 1 /\ pc' \in {"announce", "tools"}
             /\ Commit(<<Frame("callStarted", turns, Call(announced + 1))>>) /\ UNCHANGED endVars
        BY <1>6 DEF AnnounceCall
    <2>3. ASSUME live, announced' = announced + 1, pc' \in {"announce", "tools"},
                 Commit(<<Frame("callStarted", turns, Call(announced + 1))>>), UNCHANGED endVars
          PROVE  StreamTypes' /\ LogKept'
        <3>1. Call(announced + 1) \in Pairs
            BY <1>n, CallIsPair
        <3>2. Frame("callStarted", turns, Call(announced + 1)) \in TurnFrames
            BY <1>n, <3>1, FrameKind DEF FrameKinds
        <3>3. Adds(Frame("callStarted", turns, Call(announced + 1)))
            BY <1>t, <2>3, <3>2, CommitAdds DEF Commit
        <3>4. StreamTypes'
            BY <1>t, <2>1, <3>3, AddedTypes
        <3> QED BY <1>o, <2>1, <2>3, <3>3, <3>4, LogStarts DEF endVars
    <2> QED BY <1>t, <1>f, <2>1, <2>2, <2>3
<1>7. ASSUME NextGroup PROVE StreamTypes' /\ LogKept'
    <2>1. pc = "tools" /\ UNCHANGED <<turns, calls, announced, task, history>>
        BY <1>7 DEF NextGroup
    <2>2. \/ Fail("tool")
          \/ /\ pc' = "results" /\ taken' = 0 /\ taken + 1 > Len(calls)
             /\ Silent /\ UNCHANGED endVars
          \/ pc' = pc /\ Silent /\ UNCHANGED endVars
        BY <1>7 DEF NextGroup
    <2>3. ASSUME pc' = "results", taken' = 0, taken + 1 > Len(calls), Silent, UNCHANGED endVars
          PROVE  StreamTypes' /\ LogKept'
        <3>1. \A i \in Positions : task[i] # "failed"
            <4>1. \A i \in 1..taken : task[i] = "result"
                BY <2>1 DEF LoopKept
            <4> QED BY <1>n, <2>3, <4>1
        <3>2. Owed' = Owed
            BY <2>1, <2>3, OwedSame
        <3>3. StreamTypes' /\ Extends(Len(log'))
            BY <1>t, <1>k, <2>1, <2>3
        <3> QED BY <2>1, <2>3, <3>1, <3>2, <3>3, LogStays DEF endVars
    <2>4. ASSUME pc' = pc, Silent, UNCHANGED endVars PROVE StreamTypes' /\ LogKept'
        <3>1. Owed' = Owed
            BY <2>1, <2>4, OwedSame
        <3>2. StreamTypes' /\ Extends(Len(log'))
            BY <1>t, <1>k, <2>1, <2>4
        <3> QED BY <2>1, <2>4, <3>1, <3>2, LogStays DEF endVars
    <2> QED BY <1>t, <1>f, <2>1, <2>2, <2>3, <2>4
<1>8. ASSUME TakeResult PROVE StreamTypes' /\ LogKept'
    <2>1. pc = "tools" /\ UNCHANGED <<turns, calls, announced, task, history>>
        BY <1>8 DEF TakeResult
    <2>2. (pc' = pc /\ Silent /\ UNCHANGED endVars) \/ \E why : Fail(why)
        BY <1>8, Zenon DEF TakeResult
    <2>3. ASSUME pc' = pc, Silent, UNCHANGED endVars PROVE StreamTypes' /\ LogKept'
        <3>1. Owed' = Owed
            BY <2>1, <2>3, OwedSame
        <3>2. StreamTypes' /\ Extends(Len(log'))
            BY <1>t, <1>k, <2>1, <2>3
        <3> QED BY <2>1, <2>3, <3>1, <3>2, LogStays DEF endVars
    <2> QED BY <1>t, <1>f, <2>1, <2>2, <2>3
<1>9. ASSUME PublishResult PROVE StreamTypes' /\ LogKept'
    <2> DEFINE c == Call(taken + 1)
    <2>1. /\ pc = "results" /\ UNCHANGED <<turns, calls, announced>>
          /\ history' = Append(history, ToolResult(c))
        BY <1>9 DEF PublishResult
    <2>2. \/ Fail("sink")
          \/ /\ live /\ CommitSeeing(ResultFrames(taken + 1), history') /\ taken' = taken + 1
             /\ pc' = IF taken + 1 = Len(calls) THEN "top" ELSE "results"
             /\ UNCHANGED endVars
        BY <1>9 DEF PublishResult
    <2>3. c \in Pairs /\ c[1] = turns
        BY <1>n, CallIsPair
    <2>4. history' \in Seq(TurnMessages)
        BY <2>1, <2>3, MessageKinds, MessagesGrow
    <2>5. ASSUME live, CommitSeeing(ResultFrames(taken + 1), history'), taken' = taken + 1,
                 pc' = IF taken + 1 = Len(calls) THEN "top" ELSE "results",
                 UNCHANGED endVars
          PROVE  StreamTypes' /\ LogKept'
        <3>0. taken + 1 \in Positions /\ c \in Owed /\ Owed' = Owed \ {c}
            BY <2>1, <2>5, OwedOnceLess
        <3>w. CommitSeeing(<<Frame("callProgressed", turns, c), Frame("callCompleted", turns, c)>>, history')
            BY <2>5 DEF ResultFrames
        <3> HIDE DEF c
        <3>1. /\ log' \in Seq(TurnFrames) /\ views' \in Seq(Seq(TurnMessages)) /\ Len(views') = Len(log')
              /\ Extends(Len(log') - 1) /\ Len(log') > Len(log)
              /\ log'[Len(log')].kind = "callCompleted" /\ log'[Len(log')].item = c
            BY <2>3, <2>4, <3>w, PublishAdds
        <3>2. StreamTypes'
            BY <2>4, <3>1 DEF StreamTypes
        <3>3. \A j \in 1..Len(log) : log[j].kind = "callCompleted" => log[j].item \notin Owed
            BY <2>1 DEF LogKept
        <3>4. \E j \in 1..Len(log) : log[j].kind = "callStarted" /\ log[j].item = c
            <4>1. taken + 1 \in 1..announced
                BY <1>n, <2>1, <3>0 DEF LoopKept
            <4> QED BY <2>1, <4>1 DEF LogKept, c
        <3>5. outcome' # "completed"
            BY <1>o, <2>5 DEF endVars
        <3>6. \A i : Call(i)' = Call(i)
            BY <2>1 DEF Call
        <3>7. c[1] <= turns /\ pc' \notin {"stream", "settle", "announce"}
            BY <1>n, <2>3, <2>5
        <3>8. \A x \in Owed : x = c \/ x \in Owed'
            BY <3>0
        <3>9. c \notin Owed' /\ \A j \in 1..Len(log) : log[j].kind = "callCompleted" => log[j].item \notin Owed'
            BY <3>0, <3>3
        <3> QED BY <2>1, <2>3, <3>0, <3>1, <3>2, <3>3, <3>4, <3>5, <3>6, <3>7, <3>8, <3>9, LogCloses
    <2> QED BY <1>f, <2>1, <2>2, <2>4, <2>5
<1>10. ASSUME NEW i \in Positions, Spawn(i) PROVE StreamTypes' /\ LogKept'
    BY <1>10, LogTask DEF Spawn, Kept, endVars
<1>11. ASSUME NEW i \in Positions, Decide(i) PROVE StreamTypes' /\ LogKept'
    <2>1. /\ pc = "tools" /\ task[i] = "spawned" /\ UNCHANGED <<loopVars, endVars, history>>
          /\ \E s : task' = [task EXCEPT ![i] = s]
          /\ Silent \/ Commit(<<Frame("pending", 0, Call(i))>>)
        BY <1>11, Zenon DEF Decide
    <2> QED BY <2>1, LogTask DEF Silent, Kept
<1>12. ASSUME NEW i \in Positions, Wake(i) PROVE StreamTypes' /\ LogKept'
    <2>1. /\ pc = "tools" /\ task[i] = "waiting" /\ UNCHANGED <<loopVars, endVars, history>>
          /\ \/ task' = [task EXCEPT ![i] = "running"] /\ Silent
             \/ task' = [task EXCEPT ![i] = "failed"] /\ TerminalFrame(i)
        BY <1>12 DEF Wake
    <2> QED BY <2>1, LogTask DEF Silent, Kept, TerminalFrame
<1>13. ASSUME NEW i \in Positions, WakeCancelled(i) PROVE StreamTypes' /\ LogKept'
    <2>1. /\ pc = "tools" /\ task[i] = "waiting" /\ UNCHANGED <<loopVars, endVars, history>>
          /\ task' = [task EXCEPT ![i] = "failed"] /\ TerminalFrame(i)
        BY <1>13 DEF WakeCancelled
    <2> QED BY <2>1, LogTask DEF Silent, Kept, TerminalFrame
<1>14. ASSUME NEW i \in Positions, ToolReturns(i) PROVE StreamTypes' /\ LogKept'
    BY <1>14, LogTask DEF ToolReturns, Kept, endVars
<1>15. ASSUME OtherThreads PROVE StreamTypes' /\ LogKept'
    <2>1. /\ UNCHANGED <<loopVars, task, history>> /\ outcome' \in {outcome, "cancelled"}
          /\ \/ Kept
             \/ Commit(<<Frame("run", 0, <<>>)>>)
        BY <1>15 DEF OtherThreads, PersonDecides, DeliverDecision, Cancel, CancelCommits, Kept, endVars
    <2>2. StreamTypes' /\ Extends(Len(log'))
        <3>1. CASE Kept
            BY <1>t, <2>1, <3>1, KeptExtends, AddedTypes
        <3>2. CASE Commit(<<Frame("run", 0, <<>>)>>)
            <4>1. Adds(Frame("run", 0, <<>>)) /\ Extends(Len(log'))
                BY <1>t, <3>2, QuietFrame DEF Commit
            <4> QED BY <1>t, <2>1, <4>1, AddedTypes
        <3> QED BY <2>1, <3>1, <3>2
    <2>3. /\ pc' = pc /\ turns' = turns /\ announced' = announced /\ task' = task
          /\ Owed' = Owed /\ \A i : Call(i)' = Call(i)
        BY <2>1 DEF loopVars, Owed, Positions, Call
    <2>4. \A j \in 1..Len(log) : log[j].kind = "callCompleted" /\ log[j].item \in Owed =>
             pc = "tools" /\ task[log[j].item[2]] = "failed"
        BY DEF LogKept
    <2>5. pc \in {"announce", "tools", "results"} =>
              \A i \in 1..announced : \E j \in 1..Len(log) :
                  log[j].kind = "callStarted" /\ log[j].item = Call(i)
        BY DEF LogKept
    <2>6. outcome' = "completed" => outcome = "completed"
        BY <2>1
    <2> QED BY <2>2, <2>3, <2>4, <2>5, <2>6, LogQuiet
<1> QED BY <1>1, <1>2, <1>3, <1>4, <1>5, <1>6, <1>7, <1>8, <1>9, <1>10, <1>11, <1>12, <1>13, <1>14, <1>15
        DEF Next, LoopStep, TaskStep

-----------------------------------------------------------------------------
LEMMA ApprovalTypesStep ==
    ASSUME AgentTypes, ConsentsKept, Next PROVE ApprovalTypes'
<1>t. ApprovalTypes /\ DOMAIN bridge = DOMAIN asked
    BY ApprovalFacts DEF AgentTypes
<1>e. ASSUME UNCHANGED <<approvalVars, cancelled>>, EndKeeps PROVE ApprovalTypes'
    BY <1>e, <1>t, QuietApprovals DEF ApprovalTypes
<1>f. ASSUME UNCHANGED <<approvalVars, cancelled>>, NEW how \in {"completed", "failed"}, NEW why,
             End(how, why)
      PROVE  ApprovalTypes'
    BY <1>e, <1>f, EndTypes
<1>q. ASSUME UNCHANGED <<approvalVars, cancelled, endVars>> PROVE ApprovalTypes'
    BY <1>e, <1>q, <1>t, LiveKept
<1>i. ASSUME Interrupt(DOMAIN bridge), UNCHANGED <<undelivered, cancelled>>, EndKeeps
      PROVE  ApprovalTypes'
    <2>1. /\ DOMAIN asked' = DOMAIN asked
          /\ bridge' \in [DOMAIN asked -> {"pending", "allow", "deny", "interrupted"}]
          /\ asked' \in [DOMAIN asked -> {"pending", "approved", "rejected"}]
        BY <1>i, <1>t, InterruptTypes
    <2> QED BY <1>i, <1>t, <2>1 DEF ApprovalTypes, EndKeeps
<1>1. ASSUME BeginTurn PROVE ApprovalTypes'
    <2>1. /\ cancelled' = cancelled
          /\ \/ End("completed", "max turns") /\ UNCHANGED approvalVars
             \/ Interrupt(DOMAIN bridge) /\ End("failed", "cancelled") /\ UNCHANGED undelivered
             \/ End("failed", "sink") /\ UNCHANGED approvalVars
             \/ UNCHANGED <<approvalVars, endVars>>
        BY <1>1, Zenon DEF BeginTurn, Fail
    <2>2. ASSUME Interrupt(DOMAIN bridge), End("failed", "cancelled"), UNCHANGED undelivered
          PROVE  ApprovalTypes'
        <3>1. EndKeeps
            BY <2>2, EndTypes
        <3> QED BY <1>i, <2>1, <2>2, <3>1
    <2> QED BY <1>f, <1>q, <2>1, <2>2
<1>2. ASSUME StreamTooLong \/ StreamFails \/ AnnounceCall \/ NextGroup \/ TakeResult \/ PublishResult
             \/ Settle \/ (\E reply \in Replies : StreamCompletes(reply))
      PROVE  ApprovalTypes'
    <2>1. /\ UNCHANGED <<approvalVars, cancelled>>
          /\ \/ UNCHANGED endVars
             \/ \E how \in {"completed", "failed"} : \E why : End(how, why)
        BY <1>2, Zenon DEF StreamTooLong, StreamFails, AnnounceCall, NextGroup, TakeResult,
             PublishResult, Settle, StreamCompletes, Fail
    <2> QED BY <1>f, <1>q, <2>1
<1>3. ASSUME NEW i \in Positions, Spawn(i) \/ ToolReturns(i) PROVE ApprovalTypes'
    BY <1>3, <1>q DEF Spawn, ToolReturns
<1>4. ASSUME NEW i \in Positions, Decide(i) PROVE ApprovalTypes'
    <2>1. UNCHANGED <<undelivered, cancelled, endVars>>
          /\ \/ bridge' = Entered(bridge, Call(i)) /\ asked' = Entered(asked, Call(i))
             \/ UNCHANGED <<bridge, asked>>
        BY <1>4, Zenon DEF Decide
    <2>2. CASE bridge' = Entered(bridge, Call(i)) /\ asked' = Entered(asked, Call(i))
        <3> DEFINE D == DOMAIN asked \cup {Call(i)}
        <3>1. /\ bridge' \in [D -> {"pending", "allow", "deny", "interrupted"}]
              /\ asked' \in [D -> {"pending", "approved", "rejected"}]
            BY <1>t, <2>2, EnteredTypes DEF ApprovalTypes
        <3>2. DOMAIN asked' = D
            BY <3>1
        <3>3. Call(i) \in Pairs
            <4>1. turns \in Nat /\ i \in Nat
                BY LoopNumbers DEF AgentTypes
            <4> QED BY <4>1, CallIsPair
        <3> QED BY <1>t, <2>1, <3>1, <3>2, <3>3 DEF ApprovalTypes, endVars
    <2>3. CASE UNCHANGED <<bridge, asked>>
        BY <1>q, <2>1, <2>3 DEF approvalVars
    <2> QED BY <2>1, <2>2, <2>3
<1>5. ASSUME NEW i \in Positions, Wake(i) \/ WakeCancelled(i) PROVE ApprovalTypes'
    <2>1. UNCHANGED <<undelivered, cancelled, endVars>>
          /\ (Interrupt(DOMAIN bridge) \/ UNCHANGED <<bridge, asked>>)
        BY <1>5, Zenon DEF Wake, WakeCancelled
    <2>2. EndKeeps
        BY <1>t, <2>1, LiveKept
    <2> QED BY <1>i, <1>q, <2>1, <2>2 DEF approvalVars
<1>6. ASSUME NEW c \in DOMAIN asked, NEW d \in {"approved", "rejected"}, PersonDecides(c, d)
      PROVE  ApprovalTypes'
    <2>1. /\ asked' = [asked EXCEPT ![c] = d] /\ undelivered' = undelivered \cup {c}
          /\ UNCHANGED <<bridge, cancelled, endVars>>
        BY <1>6 DEF PersonDecides
    <2>2. asked' \in [DOMAIN asked -> {"pending", "approved", "rejected"}] /\ DOMAIN asked' = DOMAIN asked
        BY <1>t, <2>1 DEF ApprovalTypes
    <2> QED BY <1>t, <2>1, <2>2 DEF ApprovalTypes, endVars
<1>7. ASSUME NEW c \in undelivered, DeliverDecision(c) PROVE ApprovalTypes'
    <2>1. /\ asked' = asked /\ undelivered' = undelivered \ {c}
          /\ \/ bridge' = bridge
             \/ \E s \in {"allow", "deny"} : bridge' = [bridge EXCEPT ![c] = s]
          /\ UNCHANGED <<cancelled, endVars>>
        BY <1>7 DEF DeliverDecision
    <2>2. bridge' \in [DOMAIN asked -> {"pending", "allow", "deny", "interrupted"}]
        BY <1>t, <2>1 DEF ApprovalTypes
    <2> QED BY <1>t, <2>1, <2>2 DEF ApprovalTypes, endVars
<1>8. ASSUME Cancel PROVE ApprovalTypes'
    BY <1>8, <1>t DEF Cancel, ApprovalTypes, approvalVars, endVars
<1>9. ASSUME CancelCommits PROVE ApprovalTypes'
    <2>1. /\ live' = FALSE /\ outcome' = "cancelled" /\ UNCHANGED <<bridge, undelivered, cancelled>>
          /\ asked' = [c \in DOMAIN asked |-> IF asked[c] = "pending" THEN "rejected" ELSE asked[c]]
        BY <1>9 DEF CancelCommits
    <2>2. asked' \in [DOMAIN asked -> {"pending", "approved", "rejected"}] /\ DOMAIN asked' = DOMAIN asked
        BY <1>t, <2>1 DEF ApprovalTypes
    <2> QED BY <1>t, <2>1, <2>2 DEF ApprovalTypes
<1> QED BY <1>1, <1>2, <1>3, <1>4, <1>5, <1>6, <1>7, <1>8, <1>9 DEF Next, LoopStep, TaskStep, OtherThreads

-----------------------------------------------------------------------------
LEMMA TurnInit == Init => TurnInvariant
<1> SUFFICES ASSUME Init PROVE TurnInvariant
    OBVIOUS
<1>1. Positions = {} /\ calls = <<>> /\ Len(calls) = 0
    BY DEF Init, Positions
<1>2. <<User>> \in Seq(TurnMessages) /\ Len(<<User>>) = 1 /\ <<User>>[1] = User
    BY MessageKinds
<1>3. NoGroup \in Pairs /\ NoGroup[1] = 1 /\ NoGroup[2] = 0
    BY DEF NoGroup, Pairs
<1>4. task \in [Positions -> TaskStates]
    BY <1>1 DEF Init
<1>5. LoopTypes
    BY <1>1, <1>3, <1>4, TurnAssumption DEF LoopTypes, Init
<1>6. StreamTypes
    BY <1>2 DEF StreamTypes, Init
<1>7. ApprovalTypes
    BY DEF ApprovalTypes, Init
<1>8. LoopKept
    BY DEF LoopKept, Init
<1>9. ConsentsKept
    BY DEF ConsentsKept, Init, RanWithConsent
<1>10. LogKept
    <2>1. log = <<>> /\ Len(log) = 0
        BY DEF Init
    <2> QED BY <2>1 DEF LogKept, Init
<1>11. SessionKept
    <2>1. history = <<User>> /\ User.calls = <<>> /\ User.of = <<>>
        BY DEF Init, User
    <2> QED BY <1>2, <2>1 DEF SessionKept
<1> QED BY <1>5, <1>6, <1>7, <1>8, <1>9, <1>10, <1>11 DEF TurnInvariant, AgentTypes

LEMMA TurnStep == TurnInvariant /\ [Next]_vars => TurnInvariant'
<1>1. ASSUME TurnInvariant, Next PROVE TurnInvariant'
    <2>1. AgentTypes /\ LoopKept /\ ConsentsKept /\ LogKept /\ SessionKept
        BY <1>1 DEF TurnInvariant
    <2>2. LoopTypes'
        BY <1>1, <2>1, LoopTypesStep
    <2>3. LoopKept'
        BY <1>1, <2>1, <2>2, LoopKeptStep
    <2>4. ConsentsKept'
        BY <1>1, <2>1, ConsentsStep
    <2>5. StreamTypes' /\ LogKept'
        BY <1>1, <2>1, StreamStep
    <2>6. SessionKept'
        BY <1>1, <2>1, SessionStep
    <2>7. ApprovalTypes'
        BY <1>1, <2>1, ApprovalTypesStep
    <2> QED BY <2>2, <2>3, <2>4, <2>5, <2>6, <2>7 DEF TurnInvariant, AgentTypes
<1>2. ASSUME TurnInvariant, UNCHANGED vars PROVE TurnInvariant'
    <2>1. \A i : Call(i)' = Call(i)
        BY <1>2 DEF vars, loopVars, Call
    <2>2. Positions' = Positions /\ Owed' = Owed /\ (Early' <=> Early)
        BY <1>2, <2>1 DEF vars, loopVars, Positions, Owed, Early
    <2>3. UNCHANGED <<loopVars, task, history, log, views, approvalVars, cancelled, endVars>>
        BY <1>2 DEF vars
    <2>4. LoopTypes' /\ StreamTypes' /\ ApprovalTypes' /\ LoopKept'
        BY <1>2, <2>2, <2>3 DEF TurnInvariant, AgentTypes, LoopTypes, StreamTypes, ApprovalTypes, LoopKept,
              loopVars, approvalVars, endVars
    <2>5. RanWithConsent'
        BY <1>2, <2>1, <2>3 DEF TurnInvariant, ConsentsKept, RanWithConsent, loopVars, approvalVars
    <2>6. ConsentsKept'
        <3> HIDE DEF Early
        <3> QED BY <1>2, <2>1, <2>2, <2>3, <2>5
                DEF TurnInvariant, ConsentsKept, loopVars, approvalVars, endVars
    <2>7. LogKept'
        BY <1>2, <2>1, <2>2, <2>3 DEF TurnInvariant, LogKept, loopVars, endVars
    <2>8. SessionKept'
        BY <1>2, <2>1, <2>2, <2>3 DEF TurnInvariant, SessionKept, loopVars
    <2> QED BY <2>4, <2>6, <2>7, <2>8 DEF TurnInvariant, AgentTypes
<1> QED BY <1>1, <1>2

LEMMA TurnInvariantHolds == TurnInvariant => RanWithConsent /\ RequestsAnswered /\ CallsCloseOnce
<1> SUFFICES ASSUME TurnInvariant PROVE RanWithConsent /\ RequestsAnswered /\ CallsCloseOnce
    OBVIOUS
<1>t. AgentTypes /\ ConsentsKept /\ LogKept /\ SessionKept
    BY DEF TurnInvariant
<1>1. RanWithConsent
    BY <1>t DEF ConsentsKept
<1>2. RequestsAnswered
    <2> SUFFICES ASSUME pc = "stream", NEW k \in 1..Len(history), NEW n \in 1..Len(history[k].calls)
                 PROVE  LET c == history[k].calls[n]
                        IN  { r \in 1..Len(history) : history[r].of = c } \in
                              { {r} : r \in { m \in (k + 1)..Len(history) : history[m].role = "tool" } }
        BY DEF RequestsAnswered
    <2> DEFINE c == history[k].calls[n]
    <2>1. Owed = {}
        BY NothingOwed
    <2>2. Answers(history, k, c)
        BY <1>t, <2>1 DEF SessionKept
    <2> HIDE DEF c
    <2>3. PICK r \in (k + 1)..Len(history) :
              /\ history[r].of = c /\ history[r].role = "tool"
              /\ \A q \in 1..Len(history) : history[q].of = c => q = r
        BY <2>2 DEF Answers
    <2>4. Len(history) \in Nat
        BY <1>t DEF AgentTypes, StreamTypes
    <2>5. r \in 1..Len(history)
        BY <2>3, <2>4
    <2>6. { q \in 1..Len(history) : history[q].of = c } = {r}
        BY <2>3, <2>5
    <2> QED BY <2>3, <2>6 DEF c
<1>3. CallsCloseOnce
    <2> DEFINE At(kind, c) == { i \in 1..Len(log) : log[i].kind = kind /\ log[i].item = c }
    <2>0. Len(log) \in Nat
        BY <1>t, LogLength
    <2>1. ASSUME NEW c, NEW i \in At("callCompleted", c), NEW j \in At("callCompleted", c)
          PROVE  i = j
        BY <1>t, <2>1 DEF LogKept
    <2>2. ASSUME NEW c, NEW i \in At("callCompleted", c)
          PROVE  \E j \in At("callStarted", c) : j < i
        <3>1. PICK j \in 1..(i - 1) : log[j].kind = "callStarted" /\ log[j].item = log[i].item
            BY <1>t, <2>2 DEF LogKept
        <3>2. j \in At("callStarted", c) /\ j < i
            BY <2>0, <2>2, <3>1
        <3> QED BY <3>2
    <2>3. ASSUME outcome = "completed"
          PROVE  OpenCalls(log, Len(log)) = {} /\ \A c \in DOMAIN asked : asked[c] # "pending"
        <3>1. \A j \in 1..Len(log) : log[j].kind = "callStarted" => Closed(log, log[j].item)
            BY <1>t, <2>3 DEF LogKept
        <3>2. OpenCalls(log, Len(log)) = {}
            BY <3>1 DEF OpenCalls, Closed
        <3>3. \A c \in DOMAIN asked : asked[c] # "pending"
            BY <1>t, <2>3 DEF ConsentsKept
        <3> QED BY <3>2, <3>3
    <2> QED BY <2>1, <2>2, <2>3 DEF CallsCloseOnce
<1> QED BY <1>1, <1>2, <1>3

\* The native loop's promise to its user and its model holds for every model, every policy and
\* all the bounds of a run: a tool that needs an approval runs only with the store's record of it,
\* a request goes out only with every call of the session answered exactly once after it, and the
\* stream closes a call at most once, after it announced it, and all of them when the run completes.
THEOREM TurnIsSound == Spec => []TurnSound
<1>1. TurnInvariant => TurnSound
    BY TurnInvariantHolds DEF TurnSound
<1> QED BY <1>1, TurnInit, TurnStep, PTL DEF Spec

\* Every variable of the turn loop keeps its type.
THEOREM TurnIsTyped == Spec => []TypeOK
<1>1. TurnInvariant => TypeOK
    <2> SUFFICES ASSUME AgentTypes PROVE TypeOK
        BY DEF TurnInvariant
    <2>1. /\ Len(calls) \in Nat /\ Positions = 1..Len(calls)
          /\ group[1] \in Nat /\ group[2] \in Nat
        BY LoopNumbers DEF AgentTypes
    <2>2. group = NoGroup \/ (group[1] \in Positions /\ group[2] \in group[1]..Len(calls))
        BY <2>1 DEF AgentTypes, LoopTypes
    <2>3. \A i \in DOMAIN log : log[i].kind \in FrameKinds
        <3>1. log \in Seq(TurnFrames)
            BY DEF AgentTypes, StreamTypes
        <3>2. \A i \in DOMAIN log : log[i] \in TurnFrames
            BY <3>1
        <3> QED BY <3>2 DEF TurnFrames
    <2>4. task \in [Positions -> {"queued", "spawned", "waiting", "running", "result", "failed"}]
        BY DEF AgentTypes, LoopTypes, TaskStates
    <2> QED BY <2>2, <2>3, <2>4 DEF TypeOK, AgentTypes, LoopTypes, StreamTypes, ApprovalTypes
<1> QED BY <1>1, TurnInit, TurnStep, PTL DEF Spec
=============================================================================
