--------------------------- MODULE DaemonControl ---------------------------
(***************************************************************************)
(* The daemon control plane: ta-orchestrator/src/daemon_control.  Short-   *)
(* lived processes (the CLI and the desktop run one per intent, and some   *)
(* of these leave a helper behind, the handoff) start, stop and move one   *)
(* daemon between its local and its background mode.  All they share is on *)
(* disk: a lock file, the control plane file and the ownership record; the *)
(* operating system's service manager and the daemon's socket are the rest.*)
(***************************************************************************)
EXTENDS Naturals, FiniteSets

CONSTANTS
    Procs,             \* the processes that may ever run, each of them once
    Intents,           \* the bootstrap actions clients ask for
    ServiceAvailable,  \* read_background_service_state().available
    Outcomes,          \* results of a service manager call: of {"ok", "failed"}
    ByHand,            \* whether a user also runs a daemon by hand
    MaxInstances,      \* bound: daemon instances
    MaxFaults,         \* bound: daemons that crash or hang
    MaxCrashes         \* bound: processes that are killed

ControlAssumption ==
    /\ Intents \subseteq {"start", "reconcile", "reset", "enable", "disable", "stop"}
    /\ ServiceAvailable \in BOOLEAN
    /\ Outcomes \subseteq {"ok", "failed"} /\ ByHand \in BOOLEAN
    /\ {MaxInstances, MaxFaults, MaxCrashes} \subseteq Nat /\ MaxInstances >= 1
    /\ {"none", "past"} \intersect Procs = {}
ASSUME ControlAssumption

VARIABLES
    control,   \* the control plane file: PersistedRuntimeControlState
    owner,     \* the ownership record, or NoOwner
    lock,      \* the process whose pid the lock file holds, or NoOne
    proc,      \* of each process: its program, where it is, what it knows
    daemon,    \* the daemon behind the socket, or NoDaemon
    spawned,   \* tokens of daemon processes started and not yet bound
    service,   \* the service manager's unit
    instances, \* daemon instances so far
    faults,    \* crashes and hangs of daemons so far
    crashes    \* processes killed so far

files == <<control, owner>>
bounds == <<faults, crashes>>
system == <<daemon, spawned, service, instances>>
vars == <<control, owner, lock, proc, daemon, spawned, service, instances, faults, crashes>>

NoOne == "none"
Past == "past"   \* the control token of an earlier bootstrap
Tokens == Procs \union {NoOne, Past}
NoOwner == [mode |-> "none", inst |-> 0, token |-> NoOne]
NoPending == [kind |-> "none", op |-> 0, step |-> "none"]
NoDaemon == [inst |-> 0, mode |-> "none", token |-> NoOne, service |-> FALSE, up |-> FALSE]
NoService == [loaded |-> FALSE, wants |-> FALSE, token |-> NoOne]
Modes == {"local", "background"}

\* A control plane at rest: nothing was ever started, or one daemon runs that
\* an earlier bootstrap left behind with its record.
AtRest(mode) ==
    /\ control = [optIn |-> mode = "background", pending |-> NoPending, error |-> FALSE, gen |-> 0,
                  desired |-> IF mode = "background" THEN "background" ELSE "local"]
    /\ IF mode = "none"
       THEN owner = NoOwner /\ daemon = NoDaemon /\ instances = 0
       ELSE /\ owner = [mode |-> mode, inst |-> 1, token |-> Past]
            /\ daemon = [inst |-> 1, mode |-> mode, token |-> Past,
                         service |-> mode = "background", up |-> TRUE]
            /\ instances = 1
    /\ service = IF mode = "background" THEN [loaded |-> TRUE, wants |-> TRUE, token |-> Past]
                 ELSE NoService

Init ==
    /\ \E mode \in {"none", "local"} \union (IF ServiceAvailable THEN {"background"} ELSE {}) :
            AtRest(mode)
    /\ lock = NoOne
    /\ proc = [p \in Procs |-> [does |-> "nothing", at |-> "new", mode |-> "none",
                                op |-> 0, expects |-> NoOwner, token |-> NoOne, file |-> control]]
    /\ spawned = {} /\ faults = 0 /\ crashes = 0

---------------------------------------------------------------------------
(* The control plane file.  Each operator is what one call leaves in it.   *)

Started(c, kind, desired, optIn, step) ==
    [c EXCEPT !.gen = @ + 1, !.optIn = optIn, !.desired = desired, !.error = FALSE,
              !.pending = [kind |-> kind, op |-> c.gen + 1, step |-> step]]
Advanced(c, step) ==
    IF c.pending = NoPending THEN c ELSE [c EXCEPT !.pending.step = step]
Failed(c) == [c EXCEPT !.error = TRUE]
Cleared(c) == [c EXCEPT !.error = FALSE]
Completed(c, desired, optIn) ==
    [c EXCEPT !.gen = @ + 1, !.desired = desired, !.optIn = optIn,
              !.error = FALSE, !.pending = NoPending]

TransitionMatches(kind, op) == control.pending.kind = kind /\ control.pending.op = op

\* record_failure_for_transition: only the transition's own handoff tells on it.
FailedIfMatches(kind, op) == IF TransitionMatches(kind, op) THEN Failed(control) ELSE control

---------------------------------------------------------------------------
(* What a status call, the record and the service manager show.            *)

Answers == daemon # NoDaemon /\ daemon.up
ServiceRunning == service.wants /\ (daemon.service \/ daemon = NoDaemon)
Owned(mode) == Answers /\ owner.inst = daemon.inst /\ daemon.mode = mode

ActualMode ==
    CASE Answers /\ owner.inst = daemon.inst -> daemon.mode
      [] Answers /\ owner.inst # daemon.inst -> "foreign"
      [] ~Answers /\ ServiceRunning -> "background"
      [] OTHER -> "stopped"

TransitionStatus ==
    CASE control.pending # NoPending /\ control.error -> "degraded"
      [] control.pending # NoPending /\ ~control.error -> "applying"
      [] control.pending = NoPending /\ control.error -> "failed"
      [] OTHER -> "idle"

\* What the mode of the moment would allow.
Offers ==
    {a \in {"start", "stop", "enable", "disable"} :
        \/ a = "start" /\ ActualMode = "stopped"
        \/ a = "stop" /\ ActualMode = control.desired
        \/ /\ a = "stop" /\ ~ServiceAvailable /\ ~control.optIn
           /\ ActualMode \in Modes
        \/ /\ a = "enable" /\ control.desired = "local"
           /\ ServiceAvailable /\ ~control.optIn
        \/ /\ a = "disable" /\ control.desired = "background" /\ control.optIn}

\* Mutant: a transition under way is not looked at.
AllowedActionsAnytime == Offers

AllowedActions == IF TransitionStatus \in {"applying", "degraded"} THEN {"reconcile"} ELSE Offers

---------------------------------------------------------------------------
(* The daemon process and the service manager.                             *)

\* A process binds the socket if no live daemon holds it, and runs in the
\* mode the control plane wants at that moment.
Bind(token, byService) ==
    /\ daemon = NoDaemon /\ instances < MaxInstances
    /\ instances' = instances + 1
    /\ daemon' = [inst |-> instances + 1, mode |-> control.desired, token |-> token,
                  service |-> byService, up |-> TRUE]

DirectDaemonBinds(t) ==
    /\ t \in spawned /\ spawned' = spawned \ {t}
    /\ Bind(t, FALSE)
    /\ UNCHANGED <<files, lock, proc, service, bounds>>

DirectDaemonRefused(t) ==
    /\ t \in spawned /\ daemon # NoDaemon /\ spawned' = spawned \ {t}
    /\ UNCHANGED <<files, lock, proc, daemon, service, instances, bounds>>

\* The service manager runs a loaded unit, and again after a failure.
ServiceDaemonBinds ==
    /\ service.wants
    /\ Bind(service.token, TRUE)
    /\ UNCHANGED <<files, lock, proc, spawned, service, bounds>>

\* A user runs the daemon by hand, without a token.
ForeignDaemonBinds ==
    /\ ByHand
    /\ Bind(NoOne, FALSE)
    /\ UNCHANGED <<files, lock, proc, spawned, service, bounds>>

LoadService(token) ==
    /\ service' = [loaded |-> TRUE, wants |-> TRUE, token |-> token]
    /\ daemon' = IF daemon.service THEN NoDaemon ELSE daemon

UnloadService ==
    /\ service' = NoService
    /\ daemon' = IF daemon.service THEN NoDaemon ELSE daemon

\* The daemon obeys daemon.internal.stop; a clean exit is not restarted.
DaemonStops ==
    /\ daemon' = NoDaemon
    /\ service' = IF daemon.service THEN [service EXCEPT !.wants = FALSE] ELSE service

DaemonCrashes ==
    /\ daemon # NoDaemon /\ faults < MaxFaults
    /\ daemon' = NoDaemon /\ faults' = faults + 1
    /\ UNCHANGED <<files, lock, proc, spawned, service, instances, crashes>>

\* It holds its socket and answers no status call in time.
DaemonHangs ==
    /\ Answers /\ faults < MaxFaults
    /\ daemon' = [daemon EXCEPT !.up = FALSE] /\ faults' = faults + 1
    /\ UNCHANGED <<files, lock, proc, spawned, service, instances, crashes>>

---------------------------------------------------------------------------
(* Processes, and the lock file.                                           *)

At(p, does, at) == proc[p].does \in does /\ proc[p].at = at
Goes(p, at) == proc' = [proc EXCEPT ![p].at = at]
Runs(p) == proc[p].at \notin {"new", "done", "told", "dead"}
Handoffs == {"enabling", "disabling", "stoppingLocal", "stoppingService"}
Control(c) == control' = c /\ UNCHANGED <<owner, lock, system, bounds>>

\* A client's process loads its configuration: the mode it will bootstrap is
\* the desired mode of that moment.  The environment of a client the daemon
\* itself launched holds the daemon's control token.
Launch(p, intent, token) ==
    /\ proc[p].at = "new" /\ intent \in Intents
    /\ token \in {NoOne, daemon.token}
    /\ proc' = [proc EXCEPT ![p].does = intent, ![p].mode = control.desired, ![p].token = token,
                            ![p].at = IF intent = "stop" THEN "look" ELSE "acquire"]
    /\ UNCHANGED <<files, lock, system, bounds>>

\* Process p leaves a helper q behind and goes on.
Forks(p, q, does, op, expects) ==
    /\ proc[q].at = "new" /\ p # q
    /\ proc' = [proc EXCEPT ![p].at = "unlock",
                    ![q] = [proc[q] EXCEPT !.does = does, !.op = op, !.expects = expects,
                                           !.token = proc[p].token,
                                           !.at = IF does \in {"stoppingLocal", "stoppingService"}
                                                  THEN "wait" ELSE "acquire"]]

Acquire(p) ==
    /\ proc[p].at = "acquire" /\ lock = NoOne
    /\ lock' = p /\ Goes(p, "locked")
    /\ UNCHANGED <<files, system, bounds>>

\* It read the pid of a process that is gone ...
SeesDeadHolder(p) ==
    /\ proc[p].at = "acquire" /\ lock # NoOne /\ ~Runs(lock)
    /\ Goes(p, "evict")
    /\ UNCHANGED <<files, lock, system, bounds>>

\* ... and removes the lock file that is there by now.
Evict(p) ==
    /\ proc[p].at = "evict"
    /\ lock' = NoOne /\ Goes(p, "acquire")
    /\ UNCHANGED <<files, system, bounds>>

LockTimeout(p) ==
    /\ proc[p].at = "acquire" /\ lock # NoOne
    /\ Goes(p, "done")
    /\ UNCHANGED <<files, lock, system, bounds>>

\* Dropping the guard removes the file, whoever wrote it.
Unlock(p) ==
    /\ proc[p].at = "unlock"
    /\ lock' = NoOne /\ Goes(p, "done")
    /\ UNCHANGED <<files, system, bounds>>

ProcessCrashes(p) ==
    /\ Runs(p) /\ crashes < MaxCrashes
    /\ crashes' = crashes + 1 /\ Goes(p, "dead")
    /\ UNCHANGED <<files, lock, system, faults>>

---------------------------------------------------------------------------
(* Steps that several programs share.                                      *)

\* Leave the critical section with the control plane as c.
Leaves(p, c) == Goes(p, "unlock") /\ Control(c)

\* Leave without another write.
GivesUp(p) == Leaves(p, control)

Unloads(p, next) ==
    /\ "ok" \in Outcomes /\ UnloadService
    /\ Goes(p, next)
    /\ UNCHANGED <<files, lock, spawned, instances, bounds>>

\* Mutant: the record goes, whoever it names.
ClearsAnyOwner(p, next) ==
    /\ owner' = NoOwner /\ Goes(p, next)
    /\ UNCHANGED <<control, lock, system, bounds>>

ClearsOwner(p, next) ==
    /\ owner' = IF proc[p].expects # NoOwner /\ owner = proc[p].expects THEN NoOwner ELSE owner
    /\ Goes(p, next)
    /\ UNCHANGED <<control, lock, system, bounds>>

WritesOwner(p, mode, next) ==
    /\ Answers /\ daemon.mode = mode
    /\ owner' = [mode |-> mode, inst |-> daemon.inst, token |-> p]
    /\ Goes(p, next)
    /\ UNCHANGED <<control, lock, system, bounds>>

---------------------------------------------------------------------------
(* bootstrap start.                                                        *)

\* A local daemon on record that does not answer is terminated, its socket
\* removed and its record cleared.
Recovers(p) == ~Answers /\ proc[p].mode = "local" /\ owner.mode = "local"

\* A daemon that answers is left alone.
StartLooks(p) ==
    /\ At(p, {"start"}, "locked")
    /\ owner' = IF Recovers(p) THEN NoOwner ELSE owner
    /\ daemon' = IF Recovers(p) THEN NoDaemon ELSE daemon
    /\ Goes(p, IF Answers THEN "unlock" ELSE "spawn")
    /\ UNCHANGED <<control, lock, spawned, service, instances, bounds>>

StartSpawns(p) ==
    /\ At(p, {"start"}, "spawn")
    /\ \/ /\ proc[p].mode = "local"
          /\ spawned' = spawned \union {p} /\ Goes(p, "ready")
          /\ UNCHANGED <<service, daemon>>
       \/ /\ proc[p].mode = "background" /\ ServiceAvailable /\ "ok" \in Outcomes
          /\ LoadService(p) /\ Goes(p, "ready")
          /\ UNCHANGED spawned
    /\ UNCHANGED <<files, lock, instances, bounds>>

StartSpawnFails(p) ==
    /\ At(p, {"start"}, "spawn") /\ ("failed" \in Outcomes \/ ~ServiceAvailable)
    /\ GivesUp(p)

StartOwns(p) == At(p, {"start"}, "ready") /\ WritesOwner(p, proc[p].mode, "unlock")

StartTimesOut(p) ==
    /\ At(p, {"start"}, "ready") /\ ~(Answers /\ daemon.mode = proc[p].mode)
    /\ GivesUp(p)

---------------------------------------------------------------------------
(* bootstrap reset-local.                                                  *)

ResetUnloads(p) ==
    /\ At(p, {"reset"}, "locked")
    /\ IF ServiceAvailable THEN Unloads(p, "clear")
       ELSE Goes(p, "clear") /\ UNCHANGED <<files, lock, system, bounds>>

ResetFails(p) ==
    At(p, {"reset"}, "locked") /\ ServiceAvailable /\ "failed" \in Outcomes /\ GivesUp(p)

ResetClears(p) ==
    /\ At(p, {"reset"}, "clear")
    /\ owner' = NoOwner /\ Goes(p, "complete")
    /\ UNCHANGED <<control, lock, system, bounds>>

ResetCompletes(p) ==
    At(p, {"reset"}, "complete") /\ Leaves(p, Completed(control, "local", FALSE))

---------------------------------------------------------------------------
(* bootstrap enable, disable and stop: each checks, writes and forks.      *)

MayDisable == control.pending = NoPending /\ ~control.error /\ control.optIn
MayEnable == control.pending = NoPending /\ ~control.error /\ ~control.optIn /\ ServiceAvailable

Requests(p) ==
    /\ At(p, {"disable", "enable"}, "locked")
    /\ \/ /\ proc[p].does = "disable" /\ MayDisable
          /\ Control(Started(control, "disable", "local", FALSE, "stop service"))
       \/ /\ proc[p].does = "enable" /\ MayEnable
          /\ Control(Started(control, "enable", "background", TRUE, "prepare"))
    /\ proc' = [proc EXCEPT ![p].at = "fork", ![p].op = control.gen + 1, ![p].expects = owner]

RequestRefused(p) ==
    /\ \/ At(p, {"disable"}, "locked") /\ ~MayDisable
       \/ At(p, {"enable"}, "locked") /\ ~MayEnable
    /\ GivesUp(p)

RequestForks(p, q) ==
    /\ At(p, {"disable", "enable"}, "fork")
    /\ IF proc[p].does = "disable"
       THEN Forks(p, q, "disabling", proc[p].op, proc[p].expects)
       ELSE Forks(p, q, "enabling", proc[p].op, NoOwner)
    /\ UNCHANGED <<files, lock, system, bounds>>

RequestForkFails(p) ==
    /\ At(p, {"disable", "enable"}, "fork") /\ "failed" \in Outcomes
    /\ Leaves(p, Failed(control))

\* Before it takes the lock, stop looks at the mode the daemon is in.
StopLooks(p) ==
    /\ At(p, {"stop"}, "look")
    /\ proc' = [proc EXCEPT ![p].mode = ActualMode,
                            ![p].at = IF ActualMode \in Modes THEN "acquire" ELSE "done"]
    /\ UNCHANGED <<files, lock, system, bounds>>

MayStop(mode) == Answers /\ owner.mode = mode /\ owner.inst = daemon.inst

StopForks(p, q) ==
    /\ At(p, {"stop"}, "locked") /\ MayStop(proc[p].mode)
    /\ Forks(p, q, IF proc[p].mode = "local" THEN "stoppingLocal" ELSE "stoppingService", 0, owner)
    /\ UNCHANGED <<files, lock, system, bounds>>

StopRefused(p) ==
    /\ At(p, {"stop"}, "locked") /\ (~MayStop(proc[p].mode) \/ "failed" \in Outcomes)
    /\ GivesUp(p)

---------------------------------------------------------------------------
(* bootstrap reconcile: finish what a transition left pending.             *)

ReconcileClearsError(p) ==
    /\ At(p, {"reconcile"}, "locked")
    /\ Control(Cleared(control)) /\ Goes(p, "decide")

Deciding(p, kind) == At(p, {"reconcile"}, "decide") /\ control.pending.kind = kind

ReconcileHasNothing(p) == Deciding(p, "none") /\ GivesUp(p)

ReconcileFinishes(p) ==
    \/ /\ Deciding(p, "enable") /\ Owned("background")
       /\ Leaves(p, Completed(control, "background", TRUE))
    \/ /\ Deciding(p, "disable") /\ Owned("local")
       /\ Leaves(p, Completed(control, "local", FALSE))

Unowned(mode) == Answers /\ daemon.mode = mode /\ ~Owned(mode)

ReconcileForks(p, q) ==
    /\ \/ /\ Deciding(p, "enable") /\ ~Owned("background")
          /\ Owned("local") \/ (~Unowned("background") /\ ServiceAvailable)
          /\ Forks(p, q, "enabling", control.pending.op, NoOwner)
       \/ /\ Deciding(p, "disable") /\ Owned("background")
          /\ Forks(p, q, "disabling", control.pending.op, owner)
    /\ UNCHANGED <<files, lock, system, bounds>>

ReconcileFails(p) ==
    /\ Deciding(p, "enable") /\ ~Owned("background") /\ ~Owned("local")
    /\ Unowned("background") \/ ~ServiceAvailable
    /\ Leaves(p, Failed(control))

ReconcileDisables(p) ==
    /\ Deciding(p, "disable") /\ ~Owned("local") /\ ~Owned("background")
    /\ proc' = [proc EXCEPT ![p].at = "unload", ![p].expects = owner]
    /\ UNCHANGED <<files, lock, system, bounds>>

ReconcileUnloads(p) ==
    At(p, {"reconcile"}, "unload") /\ ServiceAvailable /\ Unloads(p, "clear")

ReconcileUnloadFails(p) ==
    /\ At(p, {"reconcile"}, "unload") /\ ("failed" \in Outcomes \/ ~ServiceAvailable)
    /\ Leaves(p, Failed(control))

ReconcileClears(p) == At(p, {"reconcile"}, "clear") /\ ClearsOwner(p, "complete")

ReconcileCompletes(p) ==
    At(p, {"reconcile"}, "complete") /\ Leaves(p, Completed(control, "local", FALSE))

---------------------------------------------------------------------------
(* The handoffs to and from the background service.                        *)

Kind(p) == IF proc[p].does = "enabling" THEN "enable" ELSE "disable"
Current(p) == TransitionMatches(Kind(p), proc[p].op)
Tells(p) == Leaves(p, FailedIfMatches(Kind(p), proc[p].op))

\* A handoff whose transition is no longer the pending one does nothing.
HandoffObsolete(p) ==
    /\ At(p, {"enabling"}, "locked") \/ At(p, {"disabling"}, "locked")
    /\ ~Current(p) /\ GivesUp(p)

DisablingUnloads(p) ==
    At(p, {"disabling"}, "locked") /\ Current(p) /\ ServiceAvailable /\ Unloads(p, "wait")

DisablingUnloadFails(p) ==
    /\ At(p, {"disabling"}, "locked") /\ Current(p)
    /\ "failed" \in Outcomes \/ ~ServiceAvailable
    /\ Tells(p)

DisablingSeesShutdown(p) ==
    /\ At(p, {"disabling"}, "wait") /\ ~Answers
    /\ IF proc[p].expects = NoOwner THEN Tells(p)
       ELSE Goes(p, "clear") /\ UNCHANGED <<files, lock, system, bounds>>

HandoffTimesOut(p) ==
    /\ \/ At(p, {"enabling", "disabling"}, "wait") /\ Answers
       \/ At(p, {"enabling"}, "ready") /\ ~(Answers /\ daemon.mode = "background")
    /\ Tells(p)

DisablingClears(p) == At(p, {"disabling"}, "clear") /\ ClearsOwner(p, "complete")

HandoffCompletes(p) ==
    /\ At(p, {"enabling", "disabling"}, "complete")
    /\ Leaves(p, CASE ~Current(p) -> control
                   [] Current(p) /\ Kind(p) = "enable" -> Completed(control, "background", TRUE)
                   [] OTHER -> Completed(control, "local", FALSE))

\* Enabling moves the transition's step ahead of what it does next.
EnablingAdvances(p) ==
    /\ \/ /\ At(p, {"enabling"}, "locked")
          /\ Current(p) /\ Control(Advanced(control, "stop conflicting")) /\ Goes(p, "stop")
       \/ /\ At(p, {"enabling"}, "wait") /\ ~Answers /\ Current(p)
          /\ Control(Advanced(control, "ensure service")) /\ Goes(p, "install")
       \/ /\ At(p, {"enabling"}, "installed") /\ Current(p)
          /\ Control(Advanced(control, "wait for runtime")) /\ Goes(p, "ready")

EnablingLosesTransition(p) ==
    /\ At(p, {"enabling"}, "wait") \/ At(p, {"enabling"}, "installed")
    /\ ~Current(p) /\ GivesUp(p)

EnablingStopsDaemon(p) ==
    /\ At(p, {"enabling"}, "stop")
    /\ Answers /\ proc[p].token # NoOne /\ daemon.token = proc[p].token
    /\ DaemonStops /\ Goes(p, "wait")
    /\ UNCHANGED <<files, lock, spawned, instances, bounds>>

\* Its error leaves the handoff and no trace in the control plane.
EnablingCannotStop(p) ==
    /\ At(p, {"enabling"}, "stop")
    /\ ~Answers \/ proc[p].token = NoOne \/ daemon.token # proc[p].token
    /\ GivesUp(p)

EnablingLoads(p) ==
    /\ At(p, {"enabling"}, "install") /\ "ok" \in Outcomes /\ ServiceAvailable
    /\ LoadService(p) /\ Goes(p, "installed")
    /\ UNCHANGED <<files, lock, spawned, instances, bounds>>

EnablingLoadFails(p) ==
    /\ At(p, {"enabling"}, "install") /\ ("failed" \in Outcomes \/ ~ServiceAvailable)
    /\ Tells(p)

EnablingOwns(p) == At(p, {"enabling"}, "ready") /\ WritesOwner(p, "background", "complete")

---------------------------------------------------------------------------
(* The handoffs of a stop.                                                 *)

Stopping == {"stoppingLocal", "stoppingService"}

\* The local one waits for the daemon to go, and does no more about it.
StoppingWaits(p) ==
    /\ At(p, {"stoppingLocal"}, "wait") \/ At(p, {"stoppingService"}, "stopped")
    /\ Goes(p, IF Answers THEN "done" ELSE "acquire")
    /\ UNCHANGED <<files, lock, system, bounds>>

StoppingUnloads(p) == At(p, {"stoppingService"}, "wait") /\ Unloads(p, "stopped")

\* record_transition_failure without the lock: it reads the control plane
\* file, and writes back what it read.
StoppingUnloadFails(p) ==
    /\ At(p, {"stoppingService"}, "wait") /\ "failed" \in Outcomes
    /\ proc' = [proc EXCEPT ![p].at = "tell", ![p].file = control]
    /\ UNCHANGED <<files, lock, system, bounds>>

StoppingTells(p) ==
    /\ At(p, {"stoppingService"}, "tell")
    /\ Control(Failed(proc[p].file)) /\ Goes(p, "told")

StoppingClears(p) == At(p, Stopping, "locked") /\ ClearsOwner(p, "unlock")

---------------------------------------------------------------------------

Bootstrap(p) ==
    \/ StartLooks(p) \/ StartSpawns(p) \/ StartSpawnFails(p) \/ StartOwns(p) \/ StartTimesOut(p)
    \/ ResetUnloads(p) \/ ResetFails(p) \/ ResetClears(p) \/ ResetCompletes(p)
    \/ Requests(p) \/ RequestRefused(p) \/ RequestForkFails(p)
    \/ StopLooks(p) \/ StopRefused(p)
    \/ ReconcileClearsError(p) \/ ReconcileHasNothing(p) \/ ReconcileFinishes(p)
    \/ ReconcileFails(p) \/ ReconcileDisables(p) \/ ReconcileUnloads(p)
    \/ ReconcileUnloadFails(p) \/ ReconcileClears(p) \/ ReconcileCompletes(p)
    \/ \E q \in Procs : RequestForks(p, q) \/ StopForks(p, q) \/ ReconcileForks(p, q)

Handoff(p) ==
    \/ HandoffObsolete(p) \/ HandoffTimesOut(p) \/ HandoffCompletes(p)
    \/ DisablingUnloads(p) \/ DisablingUnloadFails(p) \/ DisablingSeesShutdown(p)
    \/ DisablingClears(p)
    \/ EnablingAdvances(p) \/ EnablingLosesTransition(p) \/ EnablingStopsDaemon(p)
    \/ EnablingCannotStop(p) \/ EnablingLoads(p) \/ EnablingLoadFails(p) \/ EnablingOwns(p)
    \/ StoppingWaits(p) \/ StoppingUnloads(p) \/ StoppingUnloadFails(p)
    \/ StoppingTells(p) \/ StoppingClears(p)

Next ==
    \/ \E p \in Procs :
        \/ \E intent \in Intents, token \in {NoOne, daemon.token} : Launch(p, intent, token)
        \/ Acquire(p) \/ SeesDeadHolder(p) \/ Evict(p) \/ LockTimeout(p) \/ Unlock(p)
        \/ ProcessCrashes(p) \/ Bootstrap(p) \/ Handoff(p)
    \/ \E t \in spawned : DirectDaemonBinds(t) \/ DirectDaemonRefused(t)
    \/ ServiceDaemonBinds \/ ForeignDaemonBinds \/ DaemonCrashes \/ DaemonHangs

Spec == Init /\ [][Next]_vars

\* A process that runs gets on, and so do the daemon's start and the service
\* manager; clients, users and faults owe nothing.
Fairness ==
    /\ \A p \in Procs : WF_vars(Acquire(p) \/ SeesDeadHolder(p) \/ Evict(p) \/ LockTimeout(p)
                                  \/ Unlock(p) \/ Bootstrap(p) \/ Handoff(p))
    /\ WF_vars(ServiceDaemonBinds)
    /\ \A t \in Procs : WF_vars(DirectDaemonBinds(t) \/ DirectDaemonRefused(t))
FairSpec == Spec /\ Fairness

---------------------------------------------------------------------------
\* The files, the daemon and the service have values of their types.
TypeOK ==
    /\ control.optIn \in BOOLEAN /\ control.desired \in Modes /\ control.gen \in Nat
    /\ control.error \in BOOLEAN
    /\ control.pending.kind \in {"none", "enable", "disable"} /\ control.pending.op \in Nat
    /\ owner.mode \in Modes \union {"none"} /\ owner.token \in Tokens
    /\ lock \in Procs \union {NoOne}
    /\ daemon.mode \in Modes \union {"none"} /\ daemon.token \in Tokens
    /\ spawned \subseteq Procs /\ service.loaded \in BOOLEAN
    /\ service.wants => service.loaded
    /\ instances \in 0..MaxInstances /\ faults \in 0..MaxFaults /\ crashes \in 0..MaxCrashes

\* p is in its critical section: it took the lock and has not dropped it.
Holds(p) ==
    /\ proc[p].at \notin {"new", "look", "acquire", "evict", "unlock", "done", "told", "dead"}
    /\ ~(proc[p].does \in Stopping /\ proc[p].at \in {"wait", "stopped", "tell"})

\* Every process so far ended in order: none was killed with the lock in its hand, and no helper
\* of a stop wrote a control plane back that it had read without the lock.
Orderly == crashes = 0 /\ \A p \in Procs : proc[p].at # "told"

\* While a handoff moves the daemon, the transition it was forked for is still
\* the pending one: no reset, reconcile or later request replaced it under the
\* handoff (run_enable_background_handoff checks it once and then waits twice).
HandoffIsCurrent ==
    Orderly =>
        \A p \in Procs :
            Holds(p) /\ proc[p].does \in {"enabling", "disabling"} /\ proc[p].at # "locked"
                => Current(p)

\* A daemon with its ownership record keeps it for as long as it answers,
\* whatever stop, disable or start was asked before it came up; only
\* reset-local drops the record of a live daemon.
OwnedStaysOwned ==
    crashes' = 0 /\ Answers /\ owner.inst = daemon.inst /\ daemon' = daemon
        => owner' = owner \/ \E p \in Procs : At(p, {"reset"}, "clear")

\* The transition to background ends only once a background daemon is on
\* record: the two files are written in that order.
CompletedEnableIsOwned ==
    Orderly' /\ control.pending.kind = "enable" /\ control'.pending = NoPending /\ control'.optIn
        => owner.mode = "background"

\* No step takes the record of a daemon that answers, and none ends an enable without one.
OwnershipKept == [][OwnedStaysOwned /\ CompletedEnableIsOwned]_vars

\* What derive_allowed_actions offers while no error is recorded, the request
\* accepts in that state.
OfferedIsAccepted ==
    /\ "enable" \in AllowedActions /\ ~control.error => MayEnable
    /\ "disable" \in AllowedActions /\ ~control.error => MayDisable
    /\ "stop" \in AllowedActions /\ Answers => MayStop(ActualMode)

\* What the control plane keeps in every state: a handoff moves the daemon only for the transition
\* that is pending, and what is offered is accepted.
HandoffSound == TypeOK /\ HandoffIsCurrent /\ OfferedIsAccepted

\* docs/operations/run-daemon.md: a CLI-managed daemon is shut down with
\* "ta daemon stop".  The handoff of a local stop waits for it; nothing tells
\* the daemon.
StopStops ==
    \A p \in Procs :
        proc[p].does = "stoppingLocal" /\ proc[p].at = "wait"
            ~> daemon.inst # proc[p].expects.inst
===========================================================================
