-------------------------- MODULE SessionCredentials --------------------------
(***************************************************************************)
(* How a client of the daemon keeps a session.  The daemon knows a client  *)
(* by a credential, issued on its first initialize, and hands out a new    *)
(* authority for the session at every attach; the client keeps both in     *)
(* files.  One session, clients with names (and so files) of their own,    *)
(* each on one connection at a time, which they use for one call at a      *)
(* time.  An answer may come after the client gave up on it, a client may  *)
(* go away with a request on its way, and may be killed as it writes.      *)
(*                                                                         *)
(* Credentials and authorities are numbered in the order they are issued.  *)
(* The credential c makes the principal c.  The hashes are left out.       *)
(***************************************************************************)
EXTENDS Integers, Sequences

CONSTANTS Clients, MaxCredential, MaxAuthority, MaxRequestId

ASSUME CredentialsAssumption == MaxCredential \in Nat /\ MaxAuthority \in Nat /\ MaxRequestId \in Nat

VARIABLES credentialFile,  \* client -> what its credential file holds
          authorityFile,   \* client -> what its file for the session holds
          link,            \* client -> its end of the connection
          requests,        \* client -> the lines on their way to the daemon
          answers,         \* client -> the lines on their way back
          seat,            \* client -> the daemon's end, DaemonRpcSessionState
          orphans,         \* requests on connections the client has left, with their seats
          issued,          \* how many credentials the daemon has issued
          session,         \* its owner (0 before it is opened) and its two authorities
          overtaken        \* whether an attach of a connection that was left has rotated

credentialVars == <<credentialFile, authorityFile, link, requests, answers, seat, orphans, issued, session, overtaken>>

None == -1   \* no file
Torn == -2   \* a file that was not written to its end
Off == [stage |-> "off", nextId |-> 1, waiting |-> 0, method |-> "none", sent |-> None]
NoSeat == [principal |-> 0, attached |-> FALSE]

-----------------------------------------------------------------------------
\* The daemon.  A request is served whole; what it leaves and answers:

Served(at, sess, creds, ok, value) ==
  [seat |-> at, session |-> sess, issued |-> creds, ok |-> ok, value |-> value]
Refused(at, why) == Served(at, session, issued, FALSE, why)

\* resolve_or_issue_session_principal: a credential nobody has is answered with a new one.
Principal(credential) == IF credential \in 1..issued THEN credential ELSE issued + 1
\* daemon.initialize.
Initialize(at, credential) ==
  LET principal == Principal(credential) IN
    Served([principal |-> principal, attached |-> FALSE], session,
           IF principal > issued THEN principal ELSE issued, TRUE, principal)
\* open_session.
OpenSession(at) ==
  LET opened == [owner |-> at.principal, current |-> 0, recovery |-> None] IN
    Served([at EXCEPT !.attached = TRUE], opened, issued, TRUE, 0)

\* Mutant: the replaced authority is gone at once.
RotateForgets(presented) == [session EXCEPT !.current = @ + 1, !.recovery = None]
\* rotate_session_authority: the replaced authority stays good for one recovery.
RotateAuthority(presented) ==
  [session EXCEPT !.current = @ + 1,
                  !.recovery = IF presented = session.current THEN session.current ELSE None]
\* attach_session: a session of somebody else does not exist.
AttachSession(at, presented) ==
  IF session.owner = 0 \/ session.owner # at.principal THEN Refused(at, "gone")
  ELSE IF presented \notin {session.current, session.recovery} \ {None} THEN Refused(at, "rejected")
  ELSE LET rotated == RotateAuthority(presented) IN
         Served([at EXCEPT !.attached = TRUE], rotated, issued, TRUE, rotated.current)
\* require_attached_session, which every call on the session begins with.
RequireAttached(at) == IF at.attached THEN Served(at, session, issued, TRUE, 0) ELSE Refused(at, "unattached")
\* ensure_initialized and require_principal_id.
RequirePrincipal(at, served) == IF at.principal = 0 THEN Refused(at, "uninitialized") ELSE served

\* The latest cursor is read after the commit; when that fails the client gets an
\* error for what was done, and is not attached.
CursorFails(at, served) == [served EXCEPT !.seat = at, !.ok = FALSE, !.value = "internal"]

\* handle_request: the outcomes a request may have.
HandleRequest(at, request) ==
  CASE request.method = "initialize" -> {Initialize(at, request.arg)}
    [] request.method = "open" ->
         {RequirePrincipal(at, served) : served \in {OpenSession(at), CursorFails(at, OpenSession(at))}}
    [] request.method = "attach" ->
         {RequirePrincipal(at, served) :
            served \in {AttachSession(at, request.arg)} \union
                       (IF AttachSession(at, request.arg).ok THEN {CursorFails(at, AttachSession(at, request.arg))} ELSE {})}
    [] request.method = "query" -> {RequirePrincipal(at, RequireAttached(at))}

\* The connection loop serves the next line and queues the answer.
ServeRequest(c) ==
  /\ requests[c] # <<>>
  /\ \E served \in HandleRequest(seat[c], Head(requests[c])) :
       /\ seat' = [seat EXCEPT ![c] = served.seat]
       /\ session' = served.session /\ issued' = served.issued
       /\ answers' = [answers EXCEPT ![c] = Append(@, [id |-> Head(requests[c]).id, ok |-> served.ok, value |-> served.value])]
  /\ requests' = [requests EXCEPT ![c] = Tail(@)]
  /\ UNCHANGED <<credentialFile, authorityFile, link, orphans, overtaken>>
\* It also serves a line whose client has gone; the answer is lost.
ServeOrphan ==
  \E o \in orphans :
    /\ \E served \in HandleRequest(o.seat, o.request) :
         /\ session' = served.session /\ issued' = served.issued
         /\ overtaken' = (overtaken \/ served.session # session)
    /\ orphans' = orphans \ {o}
    /\ UNCHANGED <<credentialFile, authorityFile, link, requests, answers, seat>>

-----------------------------------------------------------------------------
\* The client.

\* load_persisted_secret: a file that does not parse is removed.
Load(file) == IF file = Torn THEN None ELSE file

\* PersistentDaemonClient::call: writes the request and waits.
Call(c, method, arg) ==
  /\ link[c].waiting = 0 /\ link[c].nextId <= MaxRequestId
  /\ link' = [link EXCEPT ![c] = [link[c] EXCEPT !.nextId = @ + 1, !.waiting = link[c].nextId, !.method = method, !.sent = arg]]
  /\ requests' = [requests EXCEPT ![c] = Append(@, [id |-> link[c].nextId, method |-> method, arg |-> arg])]

\* connect_persistent: connects and initializes with the stored credential.
Connect(c) ==
  /\ link[c] = Off /\ Principal(Load(credentialFile[c])) <= MaxCredential
  /\ LET credential == Load(credentialFile[c]) IN
       /\ credentialFile' = [credentialFile EXCEPT ![c] = credential]
       /\ link' = [link EXCEPT ![c] = [stage |-> "starting", nextId |-> 2, waiting |-> 1, method |-> "initialize", sent |-> credential]]
       /\ requests' = [requests EXCEPT ![c] = <<[id |-> 1, method |-> "initialize", arg |-> credential]>>]
  /\ answers' = [answers EXCEPT ![c] = <<>>] /\ seat' = [seat EXCEPT ![c] = NoSeat]
  /\ UNCHANGED <<authorityFile, orphans, issued, session, overtaken>>
\* The calls of a connected client; initialize is among them.  The session is the
\* first that is opened; later ones are like it and are not followed.
Reinitialize(c) ==
  /\ link[c].stage = "ready" /\ issued < MaxCredential /\ Call(c, "initialize", None)
  /\ UNCHANGED <<credentialFile, authorityFile, answers, seat, orphans, issued, session, overtaken>>
OpenCall(c) ==
  /\ link[c].stage = "ready" /\ session.owner = 0
  /\ \A d \in Clients : \A i \in DOMAIN requests[d] : requests[d][i].method # "open"
  /\ Call(c, "open", None)
  /\ UNCHANGED <<credentialFile, authorityFile, answers, seat, orphans, issued, session, overtaken>>
\* attach_session: without a stored authority there is no call.
AttachCall(c) ==
  /\ link[c].stage = "ready" /\ session.current < MaxAuthority
  /\ authorityFile' = [authorityFile EXCEPT ![c] = Load(@)]
  /\ IF Load(authorityFile[c]) = None THEN UNCHANGED <<link, requests>>
     ELSE Call(c, "attach", authorityFile[c])
  /\ UNCHANGED <<credentialFile, answers, seat, orphans, issued, session, overtaken>>
QueryCall(c) ==
  /\ link[c].stage = "ready" /\ Call(c, "query", None)
  /\ UNCHANGED <<credentialFile, authorityFile, answers, seat, orphans, issued, session, overtaken>>

\* A call returns.  The connection is dropped with the client object when the
\* first call fails; any other failure leaves the connection as it is.
Returns(c, ok) ==
  link' = [link EXCEPT ![c] = IF link[c].stage = "starting" /\ ~ok THEN Off
                              ELSE [link[c] EXCEPT !.stage = "ready", !.waiting = 0, !.method = "none", !.sent = None]]
\* What the client does with its own answer: is_stale_session_authority_error,
\* store_session_authority, store_client_credential, remove_client_session_authorities.
Keep(c, answer) ==
  LET method == link[c].method IN
    /\ credentialFile' = IF method = "initialize" /\ link[c].stage = "starting" /\ answer.ok
                         THEN [credentialFile EXCEPT ![c] = answer.value] ELSE credentialFile
    /\ authorityFile' =
         IF method \in {"open", "attach"} /\ answer.ok THEN [authorityFile EXCEPT ![c] = answer.value]
         ELSE IF \/ method = "attach" /\ answer.value = "gone"
                 \/ method = "initialize" /\ link[c].stage = "starting" /\ answer.ok /\ answer.value # link[c].sent
              THEN [authorityFile EXCEPT ![c] = None] ELSE authorityFile

\* send_request: an answer under another id fails the call.
MatchesCall(c, answer) == answer.id = link[c].waiting
ReadAnswer(c) ==
  /\ link[c].waiting # 0 /\ answers[c] # <<>>
  /\ LET answer == Head(answers[c]) IN
       IF MatchesCall(c, answer) THEN Returns(c, answer.ok) /\ Keep(c, answer)
       ELSE Returns(c, FALSE) /\ UNCHANGED <<credentialFile, authorityFile>>
  /\ answers' = [answers EXCEPT ![c] = Tail(@)]
  /\ UNCHANGED <<requests, seat, orphans, issued, session, overtaken>>
\* map_read_error: the client waits for io_timeout and no longer.
ResponseTimeout(c) ==
  /\ link[c].waiting # 0 /\ answers[c] = <<>>
  /\ Returns(c, FALSE)
  /\ UNCHANGED <<credentialFile, authorityFile, requests, answers, seat, orphans, issued, session, overtaken>>

\* The client goes away; its requests are still on their way.  Only an attach can
\* matter to this session after that.
Leave(c) ==
  /\ link' = [link EXCEPT ![c] = Off]
  /\ orphans' = orphans \union { [seat |-> seat[c], request |-> requests[c][i]] : i \in { j \in DOMAIN requests[c] : requests[c][j].method = "attach" } }
  /\ requests' = [requests EXCEPT ![c] = <<>>] /\ answers' = [answers EXCEPT ![c] = <<>>]
  /\ seat' = [seat EXCEPT ![c] = NoSeat]
Disconnect(c) ==
  /\ link[c].stage = "ready" \/ (link[c].stage = "off" /\ requests[c] # <<>>)
  /\ Leave(c)
  /\ UNCHANGED <<credentialFile, authorityFile, issued, session, overtaken>>
\* write_private_file writes in place: a client killed as it stores leaves a part of it.
KilledWriting(c) ==
  /\ link[c].waiting # 0 /\ answers[c] # <<>> /\ Head(answers[c]).id = link[c].waiting /\ Head(answers[c]).ok
  /\ \/ link[c].method \in {"open", "attach"} /\ authorityFile' = [authorityFile EXCEPT ![c] = Torn] /\ UNCHANGED credentialFile
     \/ /\ link[c].stage = "starting" /\ credentialFile' = [credentialFile EXCEPT ![c] = Torn]
        /\ authorityFile' = IF Head(answers[c]).value = link[c].sent THEN authorityFile ELSE [authorityFile EXCEPT ![c] = None]
  /\ Leave(c)
  /\ UNCHANGED <<issued, session, overtaken>>

CredentialInit ==
  /\ credentialFile = [c \in Clients |-> None] /\ authorityFile = [c \in Clients |-> None]
  /\ link = [c \in Clients |-> Off]
  /\ requests = [c \in Clients |-> <<>>] /\ answers = [c \in Clients |-> <<>>]
  /\ seat = [c \in Clients |-> NoSeat] /\ orphans = {}
  /\ issued = 0 /\ session = [owner |-> 0, current |-> 0, recovery |-> None] /\ overtaken = FALSE

CredentialNext ==
  \/ ServeOrphan
  \/ \E c \in Clients :
       \/ Connect(c) \/ Reinitialize(c) \/ OpenCall(c) \/ AttachCall(c) \/ QueryCall(c)
       \/ ServeRequest(c) \/ ReadAnswer(c) \/ ResponseTimeout(c) \/ Disconnect(c) \/ KilledWriting(c)

CredentialSpec == CredentialInit /\ [][CredentialNext]_credentialVars

-----------------------------------------------------------------------------
\* Properties.

\* One lost answer never locks a client out of its session: as long as the daemon has
\* handed out at most one authority since the one in the client's file, the daemon takes
\* the one in the file.  Timeouts, late answers that come first to the next call, errors
\* after the rotation and restarts of the client are all there; only a request that is
\* served after the client has left its connection and attached anew can break it.
StoredIsAccepted ==
  \A c \in Clients :
    /\ ~overtaken /\ session.owner # 0 /\ credentialFile[c] = session.owner
    /\ authorityFile[c] >= 0 /\ session.current <= authorityFile[c] + 1
    => authorityFile[c] \in {session.current, session.recovery}

\* A connection is attached to the session only while it speaks for its owner, however
\* often it initializes and whoever else attaches.
AttachedIsOwned == \A c \in Clients : seat[c].attached => seat[c].principal = session.owner

\* A client's credential is one the daemon takes, and what its connection may do is what
\* it was attached for.
CredentialsSound == StoredIsAccepted /\ AttachedIsOwned
=============================================================================
