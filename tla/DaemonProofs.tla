---------------------------- MODULE DaemonProofs -----------------------------
(***************************************************************************)
(* What the daemon keeps as a process of its host.  The control plane, for *)
(* every set of processes and every bound: the lock file shuts the others  *)
(* out of the control plane file and the ownership record as long as no    *)
(* process is killed, and from that the daemon on record keeps its record. *)
(* The local socket, for every set of daemons: only who looked too early   *)
(* takes the path of one that listens.  The websocket and the task that    *)
(* serves both, for every set of peers and frames.  The JSON-RPC host, for *)
(* every set of peers, slots and depths of the queues: a record waits with *)
(* its answer until that is queued, so nobody is told of it before.        *)
(***************************************************************************)
EXTENDS DaemonControl, DaemonSocket, RemoteLink, RpcHost, FiniteSetTheorems, TLAPS

(***************************************************************************)
(* The types of the state.                                                 *)
(***************************************************************************)
Programs == {"nothing", "start", "reconcile", "reset", "enable", "disable", "stop"} \union Handoffs
Places ==
    {"new", "look", "acquire", "evict", "locked", "unlock", "done", "told", "dead", "spawn", "ready",
     "clear", "complete", "fork", "decide", "unload", "wait", "stop", "install", "installed",
     "stopped", "tell"}
Steps == {"none", "stop service", "prepare", "stop conflicting", "ensure service", "wait for runtime"}
Pendings == [kind : {"none", "enable", "disable"}, op : Nat, step : Steps]
Controls ==
    [optIn : BOOLEAN, desired : Modes, gen : Nat, error : BOOLEAN, pending : Pendings]
Owners == [mode : Modes \union {"none"}, inst : Nat, token : Tokens]
DaemonStates == [inst : Nat, mode : Modes \union {"none"}, token : Tokens, service : BOOLEAN, up : BOOLEAN]
Services == [loaded : BOOLEAN, wants : BOOLEAN, token : Tokens]
Processes ==
    [does : Programs, at : Places, mode : Modes \union {"none", "foreign", "stopped"}, op : Nat,
     expects : Owners, token : Tokens, file : Controls]

Typed ==
    /\ control \in Controls
    /\ owner \in Owners
    /\ lock \in Procs \union {NoOne}
    /\ proc \in [Procs -> Processes]
    /\ daemon \in DaemonStates
    /\ spawned \subseteq Procs
    /\ service \in Services /\ (service.wants => service.loaded)
    /\ instances \in 0..MaxInstances /\ faults \in 0..MaxFaults /\ crashes \in 0..MaxCrashes

(***************************************************************************)
(* The inductive invariant.  Numbered says how the record and the live     *)
(* daemon are counted; it holds whatever happens.  The rest is about the   *)
(* processes that none was killed among.                                   *)
(***************************************************************************)
Numbered ==
    /\ owner.inst <= instances
    /\ daemon = NoDaemon \/ (daemon.inst \in 1..instances /\ daemon.mode \in Modes)
    /\ daemon # NoDaemon /\ owner.inst = daemon.inst => owner.mode = daemon.mode

\* Process p took the lock and has not removed the lock file.
InSection(p) == Holds(p) \/ proc[p].at = "unlock"

Is(p, does, places) == proc[p].does \in does /\ proc[p].at \in places

\* The daemon that answers is the one of record o.
Serving(o) == Answers /\ o.inst = daemon.inst

\* The places a process reaches only after it saw no daemon of the record.
Awaits(p) ==
    \/ Is(p, {"start"}, {"spawn", "ready"})
    \/ Is(p, {"enabling"}, {"install", "installed", "ready"})
    \/ Is(p, {"reconcile"}, {"unload", "clear"})
    \/ Is(p, {"disabling"}, {"clear"})

\* What the place of a process says of the daemon and its record.
Placed(p) ==
    /\ proc[p].at \notin {"evict", "dead"}
    /\ Awaits(p) => ~Serving(owner)
    /\ Is(p, Stopping, {"acquire", "locked"}) => ~Serving(proc[p].expects)
    /\ Is(p, {"enabling"}, {"complete"}) => owner.mode = "background"
    /\ proc[p].expects.inst <= instances
ProcSound(p) == (InSection(p) => lock = p) /\ Placed(p)

LockSound == lock = NoOne \/ (lock \in Procs /\ InSection(lock))

\* A handoff that moves the daemon.
Steers(p) == Holds(p) /\ proc[p].does \in {"enabling", "disabling"} /\ proc[p].at # "locked"

Sound == LockSound /\ \A p \in Procs : ProcSound(p)
Steered == \A p \in Procs : Steers(p) => Current(p)

ControlInv ==
    /\ Typed
    /\ Numbered
    /\ crashes = 0 => Sound
    /\ Orderly => Steered

(***************************************************************************)
(* Places of a program.                                                    *)
(***************************************************************************)
LEMMA InProcs == NoOne \notin Procs /\ Past \notin Procs /\ Procs \subseteq Tokens
BY ControlAssumption DEF ControlAssumption, NoOne, Past, Tokens

LEMMA NullsTyped ==
    /\ NoOwner \in Owners /\ NoPending \in Pendings /\ NoDaemon \in DaemonStates /\ NoService \in Services
    /\ NoOwner.inst = 0 /\ NoDaemon.inst = 0 /\ ~NoDaemon.service /\ ~NoService.wants
BY DEF NoOwner, Owners, NoPending, Pendings, NoDaemon, DaemonStates, NoService, Services, Tokens, Steps

\* A process that goes on keeps what it knows, and the others stay where they are.
LEMMA GoesOn ==
    ASSUME Typed, NEW p \in Procs, NEW at \in Places, Goes(p, at)
    PROVE /\ proc' \in [Procs -> Processes]
          /\ proc'[p].at = at /\ proc'[p].does = proc[p].does /\ proc'[p].expects = proc[p].expects
          /\ proc'[p].op = proc[p].op
          /\ \A q \in Procs \ {p} : proc'[q] = proc[q]
BY DEF Typed, Goes, Processes

LEMMA AwaitsHolds ==
    ASSUME NEW p, Awaits(p) \/ Is(p, {"enabling"}, {"complete"}) \/ Steers(p)
    PROVE Holds(p) /\ InSection(p)
BY DEF Awaits, Is, Steers, Holds, InSection, Stopping

(***************************************************************************)
(* What a step may do to the daemon and to its record.                     *)
(***************************************************************************)
Binds ==
    /\ daemon = NoDaemon /\ instances < MaxInstances /\ instances' = instances + 1
    /\ daemon' \in DaemonStates /\ daemon'.inst = instances + 1 /\ daemon'.mode \in Modes
DaemonMoves ==
    \/ daemon' = daemon /\ instances' = instances
    \/ daemon' = NoDaemon /\ instances' = instances
    \/ daemon' = [daemon EXCEPT !.up = FALSE] /\ instances' = instances
    \/ Binds
OwnerMoves ==
    \/ owner' = owner
    \/ owner' = NoOwner
    \/ /\ Answers /\ daemon' = daemon /\ owner' \in Owners
       /\ owner'.mode = daemon.mode /\ owner'.inst = daemon.inst

LEMMA DaemonTyped ==
    ASSUME Typed, DaemonMoves
    PROVE daemon' \in DaemonStates /\ instances' \in 0..MaxInstances /\ instances <= instances'
<1>1. instances \in Nat /\ MaxInstances \in Nat
  BY ControlAssumption DEF Typed, ControlAssumption
<1>2. CASE Binds
  BY <1>1, <1>2 DEF Binds, Typed
<1>3. CASE daemon' = NoDaemon /\ instances' = instances
  BY <1>1, <1>3, NullsTyped DEF Typed
<1>4. CASE daemon' = [daemon EXCEPT !.up = FALSE] /\ instances' = instances
  <2>1. daemon \in DaemonStates
    BY DEF Typed
  <2>2. daemon' \in DaemonStates
    BY <2>1, <1>4 DEF DaemonStates
  <2>. QED  BY <1>1, <1>4, <2>2 DEF Typed
<1>5. CASE daemon' = daemon /\ instances' = instances
  BY <1>1, <1>5 DEF Typed
<1>. QED  BY <1>2, <1>3, <1>4, <1>5 DEF DaemonMoves

LEMMA OwnerTyped ==
    ASSUME Typed, OwnerMoves
    PROVE owner' \in Owners
BY NullsTyped DEF Typed, OwnerMoves

\* A step never brings the daemon of an old record back.
LEMMA NoneComesBack ==
    ASSUME Typed, Numbered, DaemonMoves, NEW o \in Owners, o.inst <= instances, ~Serving(o)
    PROVE ~(Answers /\ o.inst = daemon.inst)'
<1>1. instances \in Nat /\ o.inst \in Nat
  BY DEF Typed, Owners
<1>2. CASE Binds
  BY <1>1, <1>2 DEF Binds
<1>3. CASE daemon' = NoDaemon
  BY <1>3 DEF Answers
<1>4. CASE daemon' = [daemon EXCEPT !.up = FALSE]
  BY <1>4, NullsTyped DEF Answers, Typed, DaemonStates
<1>5. CASE daemon' = daemon
  BY <1>5 DEF Answers, Serving
<1>. QED  BY <1>2, <1>3, <1>4, <1>5 DEF DaemonMoves

LEMMA NumberedKept ==
    ASSUME Typed, Numbered, DaemonMoves, OwnerMoves
    PROVE Numbered'
<1>1. instances \in Nat /\ owner.inst \in Nat /\ daemon.inst \in Nat /\ instances' \in Nat
      /\ instances <= instances'
  BY DaemonTyped DEF Typed, Owners, DaemonStates
<1>2. owner'.inst <= instances'
  BY <1>1, NullsTyped DEF OwnerMoves, Numbered, Answers
<1>3. daemon' = NoDaemon \/ (daemon'.inst \in 1..instances' /\ daemon'.mode \in Modes)
  BY <1>1 DEF DaemonMoves, Binds, Numbered, Typed, DaemonStates, NoDaemon
<1>4. ASSUME daemon' # NoDaemon, owner'.inst = daemon'.inst
      PROVE owner'.mode = daemon'.mode
  <2>1. CASE owner' = owner
    BY <2>1, <1>1, <1>4 DEF DaemonMoves, Binds, Numbered, Typed, DaemonStates, NoDaemon
  <2>2. CASE owner' = NoOwner
    BY <2>2, <1>1, <1>3, <1>4, NullsTyped
  <2>3. CASE owner'.mode = daemon.mode /\ daemon' = daemon
    BY <2>3
  <2>. QED  BY <2>1, <2>2, <2>3 DEF OwnerMoves
<1>. QED  BY <1>2, <1>3, <1>4 DEF Numbered

(***************************************************************************)
(* The lock.                                                               *)
(***************************************************************************)
LEMMA Alone ==
    ASSUME Sound, NEW p \in Procs, InSection(p)
    PROVE lock = p /\ \A q \in Procs \ {p} : ~InSection(q)
BY DEF Sound, ProcSound

\* A process that a step does not move keeps what its place says, as long as the record does
\* not change while it is in its critical section.
LEMMA OtherKept ==
    ASSUME Typed, Numbered, DaemonMoves, NEW q \in Procs, Placed(q), proc'[q] = proc[q],
           owner' = owner \/ ~InSection(q)
    PROVE Placed(q)' /\ (InSection(q)' <=> InSection(q)) /\ (Steers(q)' <=> Steers(q))
<1>1. owner \in Owners /\ proc[q].expects \in Owners /\ instances \in Nat
  BY DEF Typed, Processes
<1>2. proc[q].expects.inst \in Nat /\ instances' \in Nat /\ instances <= instances'
  BY <1>1, DaemonTyped DEF Owners
<1>3. (InSection(q)' <=> InSection(q)) /\ (Steers(q)' <=> Steers(q))
  BY DEF InSection, Holds, Steers
<1>4. (Awaits(q)' <=> Awaits(q))
      /\ \A S, T : Is(q, S, T)' <=> Is(q, S, T)
  BY DEF Awaits, Is
<1>5. Awaits(q)' => ~Serving(owner)'
  <2>1. SUFFICES ASSUME Awaits(q) PROVE ~Serving(owner)'
    BY <1>4
  <2>2. owner' = owner /\ owner.inst <= instances /\ ~Serving(owner)
    BY <2>1, AwaitsHolds DEF Placed, Numbered
  <2>. QED  BY <1>1, <2>2, NoneComesBack DEF Serving
<1>6. Is(q, Stopping, {"acquire", "locked"})' => ~Serving(proc[q].expects)'
  BY <1>1, <1>4, NoneComesBack DEF Placed, Serving
<1>7. Is(q, {"enabling"}, {"complete"})' => owner'.mode = "background"
  BY <1>4, AwaitsHolds DEF Placed
<1>8. proc'[q].expects.inst <= instances'
  BY <1>1, <1>2 DEF Placed
<1>. QED  BY <1>3, <1>4, <1>5, <1>6, <1>7, <1>8 DEF Placed

(***************************************************************************)
(* A step of one process that leaves the lock alone.                       *)
(***************************************************************************)
Moves(p) == proc' \in [Procs -> Processes] /\ \A q \in Procs \ {p} : proc'[q] = proc[q]

\* The parts of the state that keep their types and that no invariant reads.
OthersTyped ==
    /\ control' \in Controls /\ spawned' \subseteq Procs
    /\ service' \in Services /\ (service'.wants => service'.loaded)
    /\ faults' = faults /\ crashes' = crashes

KeepsRecord(p) ==
    Serving(owner) /\ daemon' = daemon => owner' = owner \/ At(p, {"reset"}, "clear")
EndsOwned ==
    control.pending.kind = "enable" /\ control'.pending = NoPending /\ control'.optIn
        => owner.mode = "background"

ProcessStep(p) ==
    /\ Moves(p) /\ DaemonMoves /\ OwnerMoves /\ OthersTyped /\ lock' = lock
    /\ proc[p].at # "told" /\ (InSection(p)' <=> InSection(p))
    /\ InSection(p) \/ owner' = owner
    /\ InSection(p) \/ control' = control \/ proc'[p].at = "told"
    /\ Sound => Placed(p)' /\ KeepsRecord(p)
    /\ Sound /\ proc'[p].at # "told" => EndsOwned
    /\ Sound /\ Steered /\ Steers(p)' => Current(p)'

LEMMA TypedKept ==
    ASSUME Typed, NEW p \in Procs, Moves(p), DaemonMoves, OwnerMoves, OthersTyped,
           lock' \in Procs \union {NoOne}
    PROVE Typed'
BY DaemonTyped, OwnerTyped DEF Typed, Moves, OthersTyped

LEMMA OrderlyBefore ==
    ASSUME Typed, NEW p \in Procs, Moves(p), crashes' = crashes, proc[p].at # "told", Orderly'
    PROVE Orderly /\ proc'[p].at # "told"
BY DEF Orderly, Moves

LEMMA SoundKept ==
    ASSUME Typed, Numbered, Sound, NEW p \in Procs, ProcessStep(p)
    PROVE Sound'
<1>1. \A q \in Procs \ {p} : Placed(q)' /\ (InSection(q)' <=> InSection(q))
  <2>1. TAKE q \in Procs \ {p}
  <2>2. owner' = owner \/ ~InSection(q)
    BY Alone DEF ProcessStep
  <2>3. Placed(q) /\ proc'[q] = proc[q] /\ DaemonMoves
    BY DEF Sound, ProcSound, ProcessStep, Moves
  <2>. QED  BY <2>2, <2>3, OtherKept
<1>2. Placed(p)' /\ (InSection(p)' <=> InSection(p)) /\ lock' = lock
  BY DEF ProcessStep
<1>3. \A q \in Procs : ProcSound(q)'
  BY <1>1, <1>2 DEF Sound, ProcSound
<1>4. LockSound'
  BY <1>1, <1>2 DEF Sound, LockSound
<1>. QED  BY <1>3, <1>4 DEF Sound

LEMMA SteeredKept ==
    ASSUME Typed, Numbered, Sound, Steered, NEW p \in Procs, ProcessStep(p), proc'[p].at # "told"
    PROVE Steered'
<1>1. ASSUME NEW q \in Procs \ {p}, Steers(q)'
      PROVE Current(q)'
  <2>1. Steers(q) /\ proc'[q] = proc[q]
    BY <1>1 DEF ProcessStep, Moves, Steers, Holds
  <2>2. control' = control
    BY <2>1, Alone, AwaitsHolds DEF ProcessStep
  <2>. QED  BY <2>1, <2>2 DEF Steered, Current, TransitionMatches, Kind
<1>2. Steers(p)' => Current(p)'
  BY DEF ProcessStep
<1>. QED  BY <1>1, <1>2 DEF Steered

LEMMA ProcessStepKeeps ==
    ASSUME ControlInv, NEW p \in Procs, ProcessStep(p)
    PROVE ControlInv' /\ OwnedStaysOwned /\ CompletedEnableIsOwned
<1>1. Typed /\ Numbered /\ DaemonMoves /\ OwnerMoves
  BY DEF ControlInv, ProcessStep
<1>2. Typed' /\ Numbered'
  BY <1>1, TypedKept, NumberedKept DEF ProcessStep, Typed
<1>3. ASSUME crashes' = 0
      PROVE Sound /\ Sound' /\ KeepsRecord(p)
  <2>1. Sound
    BY <1>3 DEF ProcessStep, OthersTyped, ControlInv
  <2>. QED  BY <1>1, <2>1, SoundKept DEF ProcessStep
<1>4. ASSUME Orderly'
      PROVE Steered' /\ EndsOwned
  <2>1. Orderly /\ proc'[p].at # "told"
    BY <1>1, <1>4, OrderlyBefore DEF ProcessStep, OthersTyped
  <2>2. Sound /\ Steered
    BY <2>1 DEF ControlInv, Orderly
  <2>. QED  BY <1>1, <2>1, <2>2, SteeredKept DEF ProcessStep
<1>5. ControlInv'
  BY <1>2, <1>3, <1>4 DEF ControlInv
<1>6. OwnedStaysOwned
  BY <1>3 DEF OwnedStaysOwned, KeepsRecord, Serving
<1>7. CompletedEnableIsOwned
  BY <1>4 DEF CompletedEnableIsOwned, EndsOwned
<1>. QED  BY <1>5, <1>6, <1>7

(***************************************************************************)
(* The shapes of a step.                                                   *)
(***************************************************************************)
Leaving == {"evict", "dead", "told"}

\* A process goes to another place and knows what it knew; the record and the control plane stay.
LEMMA PlaceStep ==
    ASSUME Typed, Numbered, NEW p \in Procs, NEW at \in Places \ Leaving, Goes(p, at),
           proc[p].at # "told",
           DaemonMoves, control' = control, owner' = owner, lock' = lock, spawned' \subseteq Procs,
           service' \in Services, service'.wants => service'.loaded,
           faults' = faults, crashes' = crashes,
           InSection(p)' <=> InSection(p),
           Sound /\ Awaits(p)' => ~Serving(owner)',
           Sound /\ Is(p, Stopping, {"acquire", "locked"})' => ~Serving(proc[p].expects)',
           Is(p, {"enabling"}, {"complete"})' => Is(p, {"enabling"}, {"complete"}),
           Steers(p)' => Steers(p) \/ Current(p)
    PROVE ProcessStep(p)
<1>1. Moves(p) /\ proc'[p].at = at /\ proc'[p].does = proc[p].does
      /\ proc'[p].expects = proc[p].expects /\ proc'[p].op = proc[p].op
  BY GoesOn DEF Moves
<1>2. OwnerMoves /\ OthersTyped
  BY DEF OwnerMoves, OthersTyped, Typed
<1>3. ASSUME Sound PROVE Placed(p)'
  <2>1. Placed(p)
    BY <1>3 DEF Sound, ProcSound
  <2>2. proc'[p].at \notin {"evict", "dead"}
    BY <1>1 DEF Leaving
  <2>3. Is(p, Stopping, {"acquire", "locked"})' => ~Serving(proc[p].expects)'
    BY <1>1, <1>3 DEF Serving
  <2>4. Is(p, {"enabling"}, {"complete"})' => owner'.mode = "background"
    BY <2>1 DEF Placed
  <2>5. proc'[p].expects.inst <= instances'
    <3>1. proc[p].expects.inst \in Nat /\ instances \in Nat /\ instances' \in Nat
          /\ instances <= instances'
      BY DaemonTyped DEF Typed, Processes, Owners
    <3>. QED  BY <1>1, <2>1, <3>1 DEF Placed
  <2>. QED  BY <1>3, <2>2, <2>3, <2>4, <2>5 DEF Placed
<1>4. Steered /\ Steers(p)' => Current(p)'
  BY <1>1 DEF Steered, Current, TransitionMatches, Kind
<1>5. KeepsRecord(p)
  BY DEF KeepsRecord
<1>6. EndsOwned
  BY DEF EndsOwned, NoPending
<1>. QED  BY <1>1, <1>2, <1>3, <1>4, <1>5, <1>6 DEF ProcessStep

\* A process in its critical section leaves it with another control plane.
LEMMA LeaveStep ==
    ASSUME Typed, Numbered, NEW p \in Procs, Holds(p), NEW c \in Controls, Leaves(p, c),
           Sound => EndsOwned
    PROVE ProcessStep(p)
<1>1. Goes(p, "unlock") /\ control' = c /\ owner' = owner /\ lock' = lock
      /\ daemon' = daemon /\ spawned' = spawned /\ service' = service /\ instances' = instances
      /\ faults' = faults /\ crashes' = crashes
  BY DEF Leaves, Control, system, bounds
<1>2. Moves(p) /\ proc'[p].at = "unlock" /\ proc'[p].does = proc[p].does
      /\ proc'[p].expects = proc[p].expects
  BY <1>1, GoesOn DEF Moves, Places
<1>3. DaemonMoves /\ OwnerMoves /\ OthersTyped
  BY <1>1 DEF DaemonMoves, OwnerMoves, OthersTyped, Typed
<1>4. InSection(p) /\ InSection(p)' /\ proc[p].at # "told"
  BY <1>2 DEF InSection, Holds
<1>5. ~Awaits(p)' /\ ~Steers(p)' /\ ~Is(p, Stopping, {"acquire", "locked"})'
      /\ ~Is(p, {"enabling"}, {"complete"})'
  BY <1>2 DEF Awaits, Is, Steers, Holds
<1>6. Sound => Placed(p)'
  BY <1>1, <1>2, <1>5 DEF Sound, ProcSound, Placed
<1>7. KeepsRecord(p)
  BY <1>1 DEF KeepsRecord
<1>. QED  BY <1>1, <1>2, <1>3, <1>4, <1>5, <1>6, <1>7 DEF ProcessStep

\* What the operators of the control plane file leave in it.
LEMMA FailedTyped ==
    ASSUME NEW c \in Controls
    PROVE Failed(c) \in Controls /\ Failed(c).pending = c.pending /\ Failed(c).optIn = c.optIn
BY DEF Failed, Controls
LEMMA ClearedTyped ==
    ASSUME NEW c \in Controls
    PROVE Cleared(c) \in Controls /\ Cleared(c).pending = c.pending /\ Cleared(c).optIn = c.optIn
BY DEF Cleared, Controls
LEMMA CompletedTyped ==
    ASSUME NEW c \in Controls, NEW desired \in Modes, NEW optIn \in BOOLEAN
    PROVE Completed(c, desired, optIn) \in Controls /\ Completed(c, desired, optIn).optIn = optIn
<1>1. c.gen + 1 \in Nat /\ NoPending \in Pendings
  BY NullsTyped DEF Controls
<1>2. Completed(c, desired, optIn) \in Controls
  BY <1>1 DEF Completed, Controls
<1>3. Completed(c, desired, optIn).optIn = optIn
  BY DEF Completed, Controls
<1>. QED  BY <1>2, <1>3
LEMMA StartedTyped ==
    ASSUME NEW c \in Controls, NEW kind \in {"enable", "disable"}, NEW desired \in Modes,
           NEW optIn \in BOOLEAN, NEW step \in Steps
    PROVE Started(c, kind, desired, optIn, step) \in Controls
          /\ Started(c, kind, desired, optIn, step).pending.kind = kind
<1>1. c.gen + 1 \in Nat
  BY DEF Controls
<1>2. [kind |-> kind, op |-> c.gen + 1, step |-> step] \in Pendings
  BY <1>1 DEF Pendings
<1>3. Started(c, kind, desired, optIn, step) \in Controls
  BY <1>1, <1>2 DEF Started, Controls
<1>4. Started(c, kind, desired, optIn, step).pending.kind = kind
  BY DEF Started, Controls
<1>. QED  BY <1>3, <1>4
LEMMA AdvancedTyped ==
    ASSUME NEW c \in Controls, NEW step \in Steps
    PROVE /\ Advanced(c, step) \in Controls
          /\ Advanced(c, step).pending.kind = c.pending.kind
          /\ Advanced(c, step).pending.op = c.pending.op
BY DEF Advanced, Controls, Pendings

\* A record that stays pending ends nothing.
LEMMA PendingEndsNothing ==
    ASSUME control'.pending.kind = control.pending.kind
    PROVE EndsOwned
BY DEF EndsOwned, NoPending

\* A failure is told, or nothing is.
LEMMA FailedIfTyped ==
    ASSUME Typed, NEW kind, NEW op
    PROVE FailedIfMatches(kind, op) \in Controls
          /\ FailedIfMatches(kind, op).pending = control.pending
BY FailedTyped DEF Typed, FailedIfMatches

(***************************************************************************)
(* The steps that leave the critical section with what they write.         *)
(***************************************************************************)
LEMMA GiveUpStep ==
    ASSUME Typed, Numbered, NEW p \in Procs, Holds(p), GivesUp(p)
    PROVE ProcessStep(p)
<1>1. control \in Controls /\ Leaves(p, control)
  BY DEF Typed, GivesUp
<1>2. EndsOwned
  BY <1>1, PendingEndsNothing DEF Leaves, Control
<1>. QED  BY <1>1, <1>2, LeaveStep

LEMMA TellStep ==
    ASSUME Typed, Numbered, NEW p \in Procs, Holds(p), Tells(p)
    PROVE ProcessStep(p)
<1>. DEFINE c == FailedIfMatches(Kind(p), proc[p].op)
<1>1. c \in Controls /\ c.pending = control.pending /\ Leaves(p, c)
  BY FailedIfTyped DEF Tells
<1>2. control' = c
  BY <1>1 DEF Leaves, Control
<1>. HIDE DEF c
<1>3. EndsOwned
  BY <1>1, <1>2, PendingEndsNothing
<1>. QED  BY <1>1, <1>3, LeaveStep

LEMMA FailStep ==
    ASSUME Typed, Numbered, NEW p \in Procs, Holds(p), Leaves(p, Failed(control))
    PROVE ProcessStep(p)
<1>1. Failed(control) \in Controls /\ Failed(control).pending = control.pending
  BY FailedTyped DEF Typed
<1>2. EndsOwned
  BY <1>1, PendingEndsNothing DEF Leaves, Control
<1>. QED  BY <1>1, <1>2, LeaveStep

LEMMA GiveUps ==
    ASSUME Typed, Numbered, NEW p \in Procs,
           \/ StartSpawnFails(p) \/ StartTimesOut(p) \/ ResetFails(p) \/ RequestRefused(p)
           \/ StopRefused(p) \/ ReconcileHasNothing(p) \/ HandoffObsolete(p)
           \/ EnablingLosesTransition(p) \/ EnablingCannotStop(p)
    PROVE ProcessStep(p)
<1>1. Holds(p) /\ GivesUp(p)
  BY DEF StartSpawnFails, StartTimesOut, ResetFails, RequestRefused, StopRefused,
         ReconcileHasNothing, Deciding, HandoffObsolete, EnablingLosesTransition,
         EnablingCannotStop, At, Holds, Stopping
<1>. QED  BY <1>1, GiveUpStep

LEMMA Tellings ==
    ASSUME Typed, Numbered, NEW p \in Procs,
           DisablingUnloadFails(p) \/ HandoffTimesOut(p) \/ EnablingLoadFails(p)
    PROVE ProcessStep(p)
<1>1. Holds(p) /\ Tells(p)
  BY DEF DisablingUnloadFails, HandoffTimesOut, EnablingLoadFails, At, Holds, Stopping
<1>. QED  BY <1>1, TellStep

LEMMA Failings ==
    ASSUME Typed, Numbered, NEW p \in Procs,
           RequestForkFails(p) \/ ReconcileFails(p) \/ ReconcileUnloadFails(p)
    PROVE ProcessStep(p)
<1>1. Holds(p) /\ Leaves(p, Failed(control))
  BY DEF RequestForkFails, ReconcileFails, ReconcileUnloadFails, Deciding, At, Holds, Stopping
<1>. QED  BY <1>1, FailStep

LEMMA Completions ==
    ASSUME Typed, Numbered, NEW p \in Procs,
           ResetCompletes(p) \/ ReconcileCompletes(p) \/ ReconcileFinishes(p) \/ HandoffCompletes(p)
    PROVE ProcessStep(p)
<1>1. control \in Controls
  BY DEF Typed
<1>2. CASE ResetCompletes(p) \/ ReconcileCompletes(p)
  <2>. DEFINE c == Completed(control, "local", FALSE)
  <2>1. Holds(p) /\ Leaves(p, c) /\ c \in Controls /\ ~c.optIn
    BY <1>1, <1>2, CompletedTyped DEF ResetCompletes, ReconcileCompletes, At, Holds, Stopping, Modes
  <2>. HIDE DEF c
  <2>2. EndsOwned
    BY <2>1 DEF EndsOwned, Leaves, Control
  <2>. QED  BY <2>1, <2>2, LeaveStep
<1>3. CASE ReconcileFinishes(p)
  <2>1. Holds(p)
    BY <1>3 DEF ReconcileFinishes, Deciding, At, Holds, Stopping
  <2>2. CASE Owned("background") /\ Leaves(p, Completed(control, "background", TRUE))
    <3>1. Completed(control, "background", TRUE) \in Controls
      BY <1>1, CompletedTyped DEF Modes
    <3>2. owner.mode = "background"
      BY <2>2 DEF Owned, Answers, Numbered
    <3>. QED  BY <2>1, <2>2, <3>1, <3>2, LeaveStep DEF EndsOwned
  <2>3. CASE Leaves(p, Completed(control, "local", FALSE))
    <3>. DEFINE c == Completed(control, "local", FALSE)
    <3>1. c \in Controls /\ ~c.optIn /\ Leaves(p, c)
      BY <1>1, <2>3, CompletedTyped DEF Modes
    <3>. HIDE DEF c
    <3>2. EndsOwned
      BY <3>1 DEF EndsOwned, Leaves, Control
    <3>. QED  BY <2>1, <3>1, <3>2, LeaveStep
  <2>. QED  BY <1>3, <2>2, <2>3 DEF ReconcileFinishes
<1>4. CASE HandoffCompletes(p)
  <2>1. Holds(p) /\ proc[p].at = "complete" /\ proc[p].does \in {"enabling", "disabling"}
    BY <1>4 DEF HandoffCompletes, At, Holds, Stopping
  <2>2. CASE ~Current(p)
    <3>1. GivesUp(p)
      BY <1>4, <2>2 DEF HandoffCompletes, GivesUp
    <3>. QED  BY <2>1, <3>1, GiveUpStep
  <2>3. CASE Current(p) /\ Kind(p) = "enable"
    <3>1. Leaves(p, Completed(control, "background", TRUE))
      BY <1>4, <2>3 DEF HandoffCompletes
    <3>2. Completed(control, "background", TRUE) \in Controls
      BY <1>1, CompletedTyped DEF Modes
    <3>3. proc[p].does = "enabling"
      BY <2>1, <2>3 DEF Kind
    <3>4. Sound => EndsOwned
      BY <2>1, <3>3 DEF Sound, ProcSound, Placed, Is, EndsOwned
    <3>. QED  BY <2>1, <3>1, <3>2, <3>4, LeaveStep
  <2>4. CASE Current(p) /\ Kind(p) # "enable"
    <3>. DEFINE c == Completed(control, "local", FALSE)
    <3>1. Leaves(p, c)
      BY <1>4, <2>4 DEF HandoffCompletes
    <3>2. c \in Controls /\ ~c.optIn
      BY <1>1, CompletedTyped DEF Modes
    <3>. HIDE DEF c
    <3>3. EndsOwned
      BY <3>1, <3>2 DEF EndsOwned, Leaves, Control
    <3>. QED  BY <2>1, <3>1, <3>2, <3>3, LeaveStep
  <2>. QED  BY <2>2, <2>3, <2>4
<1>. QED  BY <1>2, <1>3, <1>4

(***************************************************************************)
(* The steps that go on, and leave the record and the control plane alone. *)
(***************************************************************************)
LEMMA ServiceCalls ==
    ASSUME Typed, instances' = instances,
           (\E token \in Tokens : LoadService(token)) \/ UnloadService \/ DaemonStops
    PROVE DaemonMoves /\ service' \in Services /\ (service'.wants => service'.loaded)
<1>1. DaemonMoves
  BY DEF LoadService, UnloadService, DaemonStops, DaemonMoves
<1>2. service \in Services /\ NoService \in Services /\ ~NoService.wants
  BY NullsTyped DEF Typed
<1>3. CASE \E token \in Tokens : LoadService(token)
  <2>1. PICK token \in Tokens : service' = [loaded |-> TRUE, wants |-> TRUE, token |-> token]
    BY <1>3 DEF LoadService
  <2>2. service' \in Services
    BY <2>1 DEF Services
  <2>3. service'.loaded
    BY <2>1
  <2>. QED  BY <1>1, <2>2, <2>3
<1>4. CASE UnloadService
  <2>1. service' = NoService
    BY <1>4 DEF UnloadService
  <2>. QED  BY <1>1, <1>2, <2>1
<1>5. CASE DaemonStops
  <2>1. [service EXCEPT !.wants = FALSE] \in Services
        /\ ~[service EXCEPT !.wants = FALSE].wants
    BY <1>2 DEF Services
  <2>2. service' = service \/ service' = [service EXCEPT !.wants = FALSE]
    BY <1>5 DEF DaemonStops
  <2>3. CASE service' = service
    BY <1>1, <1>2, <2>3 DEF Typed
  <2>4. CASE service' = [service EXCEPT !.wants = FALSE]
    BY <1>1, <2>1, <2>4
  <2>. QED  BY <2>2, <2>3, <2>4
<1>. QED  BY <1>1, <1>3, <1>4, <1>5

\* What does not change keeps its type.
LEMMA Unmoved ==
    ASSUME Typed, UNCHANGED <<files, lock, bounds>>
    PROVE control' = control /\ owner' = owner /\ lock' = lock /\ faults' = faults /\ crashes' = crashes
BY DEF files, bounds

LEMMA SystemUnmoved ==
    ASSUME Typed, UNCHANGED system
    PROVE DaemonMoves /\ spawned' \subseteq Procs /\ service' \in Services
          /\ (service'.wants => service'.loaded)
          /\ daemon' = daemon /\ instances' = instances
BY DEF system, DaemonMoves, Typed

LEMMA LockTimeoutStep ==
    ASSUME Typed, Numbered, NEW p \in Procs, LockTimeout(p)
    PROVE ProcessStep(p)
<1>1. Goes(p, "done") /\ "done" \in Places \ Leaving /\ proc[p].at = "acquire"
  BY DEF LockTimeout, Places, Leaving
<1>2. proc'[p].at = "done" /\ proc'[p].does = proc[p].does
  BY <1>1, GoesOn
<1>3. UNCHANGED <<files, lock, bounds>> /\ UNCHANGED system
  BY DEF LockTimeout
<1>4. InSection(p)' <=> InSection(p)
  BY <1>1, <1>2 DEF InSection, Holds
<1>5. ~Awaits(p)' /\ ~Steers(p)' /\ ~Is(p, Stopping, {"acquire", "locked"})'
      /\ ~Is(p, {"enabling"}, {"complete"})'
  BY <1>2 DEF Awaits, Is, Steers, Holds
<1>. QED  BY <1>1, <1>3, <1>4, <1>5, Unmoved, SystemUnmoved, PlaceStep

\* From one place of the critical section to the next.
LEMMA SectionStep ==
    ASSUME Typed, Numbered, NEW p \in Procs, NEW at \in Places \ Leaving, Goes(p, at),
           proc[p].does \notin Stopping, Holds(p),
           at \notin {"new", "look", "acquire", "unlock", "done"},
           DaemonMoves, UNCHANGED <<files, lock, bounds>>, spawned' \subseteq Procs,
           service' \in Services, service'.wants => service'.loaded,
           Sound /\ Awaits(p)' => ~Serving(owner) \/ ~Answers,
           ~(proc[p].does = "enabling" /\ at = "complete"),
           Steers(p) \/ Current(p) \/ proc[p].does \notin {"enabling", "disabling"}
    PROVE ProcessStep(p)
<1>1. proc'[p].at = at /\ proc'[p].does = proc[p].does
  BY GoesOn
<1>2. Holds(p)' /\ InSection(p) /\ InSection(p)' /\ proc[p].at # "told"
  BY <1>1 DEF Holds, InSection, Leaving
<1>3. ~Is(p, Stopping, {"acquire", "locked"})' /\ ~Is(p, {"enabling"}, {"complete"})'
      /\ (Steers(p)' => Steers(p) \/ Current(p))
  BY <1>1 DEF Is, Steers
<1>4. Sound /\ Awaits(p)' => ~Serving(owner)'
  <2>1. SUFFICES ASSUME Sound, Awaits(p)' PROVE ~Serving(owner)'
    OBVIOUS
  <2>2. ~Serving(owner) /\ owner' = owner /\ owner \in Owners /\ owner.inst <= instances
    BY <2>1, Unmoved DEF Serving, Typed, Numbered
  <2>. QED  BY <2>2, NoneComesBack DEF Serving
<1>. QED  BY <1>2, <1>3, <1>4, Unmoved, PlaceStep

LEMMA AwaitedStays ==
    ASSUME Sound, NEW p \in Procs, Awaits(p)
    PROVE ~Serving(owner)
BY DEF Sound, ProcSound, Placed

LEMMA UnloadStep ==
    ASSUME Typed, Numbered, NEW p \in Procs, ResetUnloads(p) \/ ReconcileUnloads(p) \/ DisablingUnloads(p)
    PROVE ProcessStep(p)
<1>1. CASE ResetUnloads(p)
  <2>1. At(p, {"reset"}, "locked") /\ Goes(p, "clear")
    BY <1>1 DEF ResetUnloads, Unloads
  <2>2. DaemonMoves /\ UNCHANGED <<files, lock, bounds>> /\ spawned' \subseteq Procs
        /\ service' \in Services /\ (service'.wants => service'.loaded)
    <3>1. CASE ServiceAvailable
      BY <1>1, <3>1, ServiceCalls DEF ResetUnloads, Unloads, Typed
    <3>2. CASE ~ServiceAvailable
      BY <1>1, <3>2, SystemUnmoved DEF ResetUnloads
    <3>. QED  BY <3>1, <3>2
  <2>3. ~Awaits(p)' /\ proc[p].does = "reset" /\ Holds(p)
    BY <2>1, GoesOn DEF Awaits, Is, At, Places, Holds, Stopping
  <2>. QED  BY <2>1, <2>2, <2>3, SectionStep DEF Places, Leaving, Stopping
<1>2. CASE ReconcileUnloads(p)
  <2>1. At(p, {"reconcile"}, "unload") /\ Goes(p, "clear") /\ Unloads(p, "clear")
    BY <1>2 DEF ReconcileUnloads, Unloads
  <2>2. DaemonMoves /\ UNCHANGED <<files, lock, bounds>> /\ spawned' \subseteq Procs
        /\ service' \in Services /\ (service'.wants => service'.loaded)
    BY <2>1, ServiceCalls DEF Unloads, Typed
  <2>3. Awaits(p) /\ proc[p].does = "reconcile" /\ Holds(p)
    BY <2>1 DEF Awaits, Is, At, Holds, Stopping
  <2>. QED  BY <2>1, <2>2, <2>3, AwaitedStays, SectionStep DEF Places, Leaving, Stopping
<1>3. CASE DisablingUnloads(p)
  <2>1. At(p, {"disabling"}, "locked") /\ Goes(p, "wait") /\ Unloads(p, "wait") /\ Current(p)
    BY <1>3 DEF DisablingUnloads, Unloads
  <2>2. DaemonMoves /\ UNCHANGED <<files, lock, bounds>> /\ spawned' \subseteq Procs
        /\ service' \in Services /\ (service'.wants => service'.loaded)
    BY <2>1, ServiceCalls DEF Unloads, Typed
  <2>3. ~Awaits(p)' /\ proc[p].does = "disabling" /\ Holds(p)
    BY <2>1, GoesOn DEF Awaits, Is, At, Places, Holds, Stopping
  <2>. QED  BY <2>1, <2>2, <2>3, SectionStep DEF Places, Leaving, Stopping
<1>. QED  BY <1>1, <1>2, <1>3

LEMMA SpawnStep ==
    ASSUME Typed, Numbered, NEW p \in Procs, StartSpawns(p)
    PROVE ProcessStep(p)
<1>1. At(p, {"start"}, "spawn") /\ Goes(p, "ready") /\ UNCHANGED <<files, lock, instances, bounds>>
  BY DEF StartSpawns
<1>2. DaemonMoves /\ spawned' \subseteq Procs
      /\ service' \in Services /\ (service'.wants => service'.loaded)
  <2>1. CASE spawned' = spawned \union {p} /\ UNCHANGED <<service, daemon>>
    BY <1>1, <2>1 DEF Typed, DaemonMoves
  <2>2. CASE LoadService(p) /\ UNCHANGED spawned
    BY <1>1, <2>2, InProcs, ServiceCalls DEF Typed
  <2>. QED  BY <2>1, <2>2 DEF StartSpawns
<1>3. Awaits(p) /\ proc[p].does = "start" /\ Holds(p)
  BY <1>1 DEF Awaits, Is, At, Holds, Stopping
<1>. QED  BY <1>1, <1>2, <1>3, AwaitedStays, SectionStep DEF Places, Leaving, Stopping

LEMMA ShutdownStep ==
    ASSUME Typed, Numbered, NEW p \in Procs, DisablingSeesShutdown(p)
    PROVE ProcessStep(p)
<1>1. At(p, {"disabling"}, "wait") /\ ~Answers
  BY DEF DisablingSeesShutdown
<1>2. Holds(p) /\ proc[p].does = "disabling" /\ Steers(p)
  BY <1>1 DEF At, Holds, Steers, Stopping
<1>3. CASE Tells(p)
  BY <1>2, <1>3, TellStep
<1>4. CASE Goes(p, "clear") /\ UNCHANGED <<files, lock, system, bounds>>
  BY <1>1, <1>2, <1>4, SystemUnmoved, SectionStep DEF Places, Leaving, Stopping
<1>. QED  BY <1>3, <1>4 DEF DisablingSeesShutdown

LEMMA EnablingSteps ==
    ASSUME Typed, Numbered, NEW p \in Procs, EnablingStopsDaemon(p) \/ EnablingLoads(p)
    PROVE ProcessStep(p)
<1>1. CASE EnablingStopsDaemon(p)
  <2>1. At(p, {"enabling"}, "stop") /\ Goes(p, "wait") /\ DaemonStops
        /\ UNCHANGED <<files, lock, spawned, instances, bounds>>
    BY <1>1 DEF EnablingStopsDaemon
  <2>2. ~Awaits(p)' /\ proc[p].does = "enabling" /\ Holds(p) /\ Steers(p)
    BY <2>1, GoesOn DEF Awaits, Is, At, Places, Holds, Stopping, Steers
  <2>. QED  BY <2>1, <2>2, ServiceCalls, SectionStep DEF Places, Leaving, Stopping, Typed
<1>2. CASE EnablingLoads(p)
  <2>1. At(p, {"enabling"}, "install") /\ Goes(p, "installed") /\ LoadService(p)
        /\ UNCHANGED <<files, lock, spawned, instances, bounds>>
    BY <1>2 DEF EnablingLoads
  <2>2. Awaits(p) /\ proc[p].does = "enabling" /\ Holds(p) /\ Steers(p)
    BY <2>1 DEF Awaits, Is, At, Holds, Stopping, Steers
  <2>3. DaemonMoves /\ service' \in Services /\ (service'.wants => service'.loaded)
    BY <2>1, InProcs, ServiceCalls
  <2>. QED  BY <2>1, <2>2, <2>3, AwaitedStays, SectionStep DEF Places, Leaving, Stopping, Typed
<1>. QED  BY <1>1, <1>2

LEMMA StoppingSteps ==
    ASSUME Typed, Numbered, NEW p \in Procs, StoppingWaits(p) \/ StoppingUnloads(p)
    PROVE ProcessStep(p)
<1>1. CASE StoppingWaits(p)
  <2>. DEFINE at == IF Answers THEN "done" ELSE "acquire"
  <2>1. proc[p].does \in Stopping /\ proc[p].at \in {"wait", "stopped"} /\ Goes(p, at)
        /\ UNCHANGED <<files, lock, bounds>> /\ UNCHANGED system
    BY <1>1 DEF StoppingWaits, At, Stopping
  <2>2. at \in Places \ Leaving /\ (at = "acquire" => ~Answers) /\ at \in {"done", "acquire"}
    BY DEF Places, Leaving
  <2>. HIDE DEF at
  <2>3. proc'[p].at = at /\ proc'[p].does = proc[p].does
    BY <2>1, <2>2, GoesOn
  <2>4. (InSection(p)' <=> InSection(p)) /\ ~Awaits(p)' /\ ~Steers(p)'
        /\ ~Is(p, {"enabling"}, {"complete"})' /\ proc[p].at # "told"
    BY <2>1, <2>2, <2>3 DEF InSection, Holds, Awaits, Is, Steers
  <2>5. Is(p, Stopping, {"acquire", "locked"})' => ~Serving(proc[p].expects)'
    BY <2>1, <2>2, <2>3, SystemUnmoved DEF Is, Serving, Answers
  <2>. QED  BY <2>1, <2>2, <2>4, <2>5, Unmoved, SystemUnmoved, PlaceStep
<1>2. CASE StoppingUnloads(p)
  <2>1. At(p, {"stoppingService"}, "wait") /\ Goes(p, "stopped") /\ Unloads(p, "stopped")
    BY <1>2 DEF StoppingUnloads, Unloads
  <2>2. DaemonMoves /\ UNCHANGED <<files, lock, bounds>> /\ spawned' \subseteq Procs
        /\ service' \in Services /\ (service'.wants => service'.loaded)
    BY <2>1, ServiceCalls DEF Unloads, Typed
  <2>3. "stopped" \in Places \ Leaving
    BY DEF Places, Leaving
  <2>4. proc'[p].at = "stopped" /\ proc'[p].does = proc[p].does /\ proc[p].does = "stoppingService"
        /\ proc[p].at = "wait"
    BY <2>1, <2>3, GoesOn DEF At
  <2>5. (InSection(p)' <=> InSection(p)) /\ ~Awaits(p)' /\ ~Steers(p)'
        /\ ~Is(p, {"enabling"}, {"complete"})' /\ ~Is(p, Stopping, {"acquire", "locked"})'
    BY <2>4 DEF InSection, Holds, Awaits, Is, Steers, Stopping
  <2>. QED  BY <2>1, <2>2, <2>3, <2>4, <2>5, Unmoved, PlaceStep
<1>. QED  BY <1>1, <1>2

(***************************************************************************)
(* The steps that write the ownership record.                              *)
(***************************************************************************)
LEMMA RecordStep ==
    ASSUME Typed, Numbered, NEW p \in Procs, NEW at \in Places \ Leaving, Goes(p, at), Holds(p),
           control' = control, UNCHANGED <<lock, spawned, service, bounds>>, DaemonMoves, OwnerMoves,
           at \notin {"new", "look", "acquire", "done"},
           at = "unlock" \/ proc[p].does \notin Stopping,
           Sound => KeepsRecord(p),
           Awaits(p)' => ~Serving(owner)',
           Is(p, {"enabling"}, {"complete"})' => owner'.mode = "background",
           Steers(p) \/ proc[p].does \notin {"enabling", "disabling"}
    PROVE ProcessStep(p)
<1>1. Moves(p) /\ proc'[p].at = at /\ proc'[p].does = proc[p].does
      /\ proc'[p].expects = proc[p].expects /\ proc'[p].op = proc[p].op
  BY GoesOn DEF Moves
<1>2. OthersTyped
  BY DEF OthersTyped, Typed, bounds
<1>3. InSection(p) /\ InSection(p)' /\ proc[p].at # "told"
  BY <1>1 DEF InSection, Holds, Leaving
<1>4. ASSUME Sound PROVE Placed(p)'
  <2>1. Placed(p)
    BY <1>4 DEF Sound, ProcSound
  <2>2. proc'[p].at \notin {"evict", "dead"} /\ ~Is(p, Stopping, {"acquire", "locked"})'
    BY <1>1 DEF Leaving, Is
  <2>3. proc'[p].expects.inst <= instances'
    <3>1. proc[p].expects.inst \in Nat /\ instances \in Nat /\ instances' \in Nat
          /\ instances <= instances'
      BY DaemonTyped DEF Typed, Processes, Owners
    <3>. QED  BY <1>1, <2>1, <3>1 DEF Placed
  <2>. QED  BY <2>2, <2>3 DEF Placed
<1>5. Steered /\ Steers(p)' => Current(p)'
  BY <1>1 DEF Steered, Current, TransitionMatches, Kind, Steers
<1>6. EndsOwned
  BY PendingEndsNothing
<1>. QED  BY <1>1, <1>2, <1>3, <1>4, <1>5, <1>6 DEF ProcessStep

LEMMA StartLooksStep ==
    ASSUME Typed, Numbered, NEW p \in Procs, StartLooks(p)
    PROVE ProcessStep(p)
<1>. DEFINE at == IF Answers THEN "unlock" ELSE "spawn"
<1>1. At(p, {"start"}, "locked") /\ Goes(p, at) /\ control' = control
      /\ UNCHANGED <<lock, spawned, service, bounds>> /\ instances' = instances
  BY DEF StartLooks
<1>2. at \in Places \ Leaving /\ at \in {"unlock", "spawn"} /\ (at = "spawn" => ~Answers)
  BY DEF Places, Leaving
<1>. HIDE DEF at
<1>3. owner' = owner \/ (owner' = NoOwner /\ ~Answers)
  BY DEF StartLooks, Recovers
<1>4. daemon' = daemon \/ daemon' = NoDaemon
  BY DEF StartLooks
<1>5. DaemonMoves /\ OwnerMoves
  BY <1>1, <1>3, <1>4 DEF DaemonMoves, OwnerMoves
<1>6. Holds(p) /\ proc[p].does = "start"
  BY <1>1 DEF At, Holds, Stopping
<1>7. proc'[p].at = at /\ proc'[p].does = "start"
  BY <1>1, <1>2, <1>6, GoesOn
<1>8. KeepsRecord(p)
  BY <1>3 DEF KeepsRecord, Serving
<1>9. Awaits(p)' => ~Serving(owner)'
  BY <1>2, <1>4, <1>7 DEF Awaits, Is, Serving, Answers
<1>10. ~Is(p, {"enabling"}, {"complete"})'
  BY <1>7 DEF Is
<1>. QED  BY <1>1, <1>2, <1>5, <1>6, <1>8, <1>9, <1>10, RecordStep DEF Stopping

LEMMA OwnsStep ==
    ASSUME Typed, Numbered, NEW p \in Procs, StartOwns(p) \/ EnablingOwns(p)
    PROVE ProcessStep(p)
<1>1. PICK mode \in Modes \union {"none", "foreign", "stopped"}, at \in {"unlock", "complete"} :
        /\ WritesOwner(p, mode, at) /\ Awaits(p) /\ Holds(p) /\ proc[p].does \notin Stopping
        /\ Steers(p) \/ proc[p].does \notin {"enabling", "disabling"}
        /\ at = "complete" => mode = "background"
  <2>1. CASE StartOwns(p)
    <3>1. proc[p].mode \in Modes \union {"none", "foreign", "stopped"}
      BY DEF Typed, Processes
    <3>2. Awaits(p) /\ Holds(p) /\ proc[p].does = "start"
      BY <2>1 DEF StartOwns, At, Awaits, Is, Holds, Stopping
    <3>. QED  BY <2>1, <3>1, <3>2 DEF StartOwns, Stopping
  <2>2. CASE EnablingOwns(p)
    <3>1. Awaits(p) /\ Holds(p) /\ proc[p].does = "enabling" /\ Steers(p)
      BY <2>2 DEF EnablingOwns, At, Awaits, Is, Holds, Stopping, Steers
    <3>. QED  BY <2>2, <3>1 DEF EnablingOwns, Stopping, Modes
  <2>. QED  BY <2>1, <2>2
<1>2. Answers /\ daemon.mode = mode /\ Goes(p, at) /\ control' = control
      /\ UNCHANGED <<lock, bounds>> /\ UNCHANGED system
      /\ owner' = [mode |-> mode, inst |-> daemon.inst, token |-> p]
  BY <1>1 DEF WritesOwner
<1>3. daemon \in DaemonStates /\ daemon' = daemon
  BY <1>2, SystemUnmoved DEF Typed
<1>4. owner' \in Owners
  BY <1>2, <1>3, InProcs DEF Owners, DaemonStates
<1>5. OwnerMoves
  BY <1>2, <1>3, <1>4 DEF OwnerMoves
<1>6. at \in Places \ Leaving
  BY DEF Places, Leaving
<1>7. proc'[p].at = at
  BY <1>2, <1>6, GoesOn
<1>8. ~Awaits(p)'
  BY <1>7 DEF Awaits, Is
<1>9. Is(p, {"enabling"}, {"complete"})' => owner'.mode = "background"
  BY <1>1, <1>2, <1>7 DEF Is
<1>10. Sound => KeepsRecord(p)
  BY <1>1, AwaitedStays DEF KeepsRecord
<1>11. UNCHANGED <<lock, spawned, service, bounds>> /\ DaemonMoves
  BY <1>2, SystemUnmoved DEF system
<1>. QED  BY <1>1, <1>2, <1>5, <1>6, <1>8, <1>9, <1>10, <1>11, RecordStep

LEMMA ClearsStep ==
    ASSUME Typed, Numbered, NEW p \in Procs,
           ResetClears(p) \/ ReconcileClears(p) \/ DisablingClears(p) \/ StoppingClears(p)
    PROVE ProcessStep(p)
<1>1. PICK at \in {"unlock", "complete"} :
        /\ Goes(p, at) /\ control' = control /\ UNCHANGED <<lock, bounds>> /\ UNCHANGED system
        /\ owner' = owner \/ owner' = NoOwner
        /\ Holds(p) /\ proc[p].does # "enabling"
        /\ at = "unlock" \/ proc[p].does \notin Stopping
        /\ Steers(p) \/ proc[p].does \notin {"enabling", "disabling"}
  <2>1. CASE ResetClears(p)
    BY <2>1 DEF ResetClears, At, Holds, Stopping
  <2>2. CASE ReconcileClears(p)
    BY <2>2 DEF ReconcileClears, ClearsOwner, At, Holds, Stopping
  <2>3. CASE DisablingClears(p)
    BY <2>3 DEF DisablingClears, ClearsOwner, At, Holds, Stopping, Steers
  <2>4. CASE StoppingClears(p)
    BY <2>4 DEF StoppingClears, ClearsOwner, At, Holds, Stopping
  <2>. QED  BY <2>1, <2>2, <2>3, <2>4
<1>2. Sound => KeepsRecord(p)
  <2>1. CASE ResetClears(p)
    BY <2>1 DEF ResetClears, KeepsRecord
  <2>2. CASE ReconcileClears(p) \/ DisablingClears(p)
    <3>1. Awaits(p)
      BY <2>2 DEF ReconcileClears, DisablingClears, At, Awaits, Is
    <3>. QED  BY <3>1, AwaitedStays DEF KeepsRecord
  <2>3. CASE StoppingClears(p)
    <3>1. Is(p, Stopping, {"acquire", "locked"}) /\ (owner' = owner \/ owner = proc[p].expects)
      BY <2>3 DEF StoppingClears, ClearsOwner, At, Is
    <3>. QED  BY <3>1 DEF KeepsRecord, Sound, ProcSound, Placed
  <2>. QED  BY <2>1, <2>2, <2>3
<1>3. at \in Places \ Leaving
  BY DEF Places, Leaving
<1>4. proc'[p].at = at /\ proc'[p].does = proc[p].does
  BY <1>1, <1>3, GoesOn
<1>5. ~Awaits(p)' /\ ~Is(p, {"enabling"}, {"complete"})'
  BY <1>1, <1>4 DEF Awaits, Is
<1>6. OwnerMoves
  BY <1>1 DEF OwnerMoves
<1>7. UNCHANGED <<lock, spawned, service, bounds>> /\ DaemonMoves
  BY <1>1, SystemUnmoved DEF system
<1>. QED  BY <1>1, <1>2, <1>3, <1>5, <1>6, <1>7, RecordStep

(***************************************************************************)
(* The steps that read or write what a process knows.                      *)
(***************************************************************************)
LEMMA KnowStep ==
    ASSUME Typed, Numbered, NEW p \in Procs, Moves(p), control' \in Controls,
           UNCHANGED <<owner, lock, bounds>>, UNCHANGED system,
           proc[p].at # "told", proc'[p].at \notin {"evict", "dead"},
           InSection(p)' <=> InSection(p),
           InSection(p) \/ control' = control \/ proc'[p].at = "told",
           Sound /\ Awaits(p)' => ~Serving(owner),
           ~Is(p, Stopping, {"acquire", "locked"})', ~Is(p, {"enabling"}, {"complete"})',
           proc'[p].expects = proc[p].expects \/ proc'[p].expects = owner,
           Steered /\ Steers(p)' => Current(p)',
           proc'[p].at # "told" => EndsOwned
    PROVE ProcessStep(p)
<1>1. DaemonMoves /\ OwnerMoves /\ OthersTyped /\ daemon' = daemon /\ instances' = instances
  BY SystemUnmoved DEF OwnerMoves, OthersTyped, bounds
<1>2. ASSUME Sound PROVE Placed(p)'
  <2>1. Placed(p)
    BY <1>2 DEF Sound, ProcSound
  <2>2. proc'[p].expects.inst <= instances'
    BY <1>1, <2>1 DEF Placed, Numbered
  <2>3. Awaits(p)' => ~Serving(owner)'
    BY <1>1, <1>2 DEF Serving, Answers
  <2>. QED  BY <2>2, <2>3 DEF Placed
<1>3. KeepsRecord(p)
  BY DEF KeepsRecord
<1>. QED  BY <1>1, <1>2, <1>3 DEF ProcessStep

LEMMA LaunchStep ==
    ASSUME Typed, Numbered, NEW p \in Procs, NEW intent \in Intents,
           NEW token \in {NoOne, daemon.token}, Launch(p, intent, token)
    PROVE ProcessStep(p)
<1>. DEFINE at == IF intent = "stop" THEN "look" ELSE "acquire"
<1>1. proc[p].at = "new" /\ UNCHANGED <<files, lock, bounds>> /\ UNCHANGED system
      /\ proc' = [proc EXCEPT ![p].does = intent, ![p].mode = control.desired,
                              ![p].token = token, ![p].at = at]
  BY DEF Launch
<1>2. intent \in Programs \ Handoffs /\ control.desired \in Modes /\ token \in Tokens /\ at \in Places
      /\ control \in Controls
  <2>1. intent \in Programs \ Handoffs
    BY ControlAssumption DEF ControlAssumption, Programs, Handoffs
  <2>2. control.desired \in Modes /\ token \in Tokens /\ control \in Controls
    BY DEF Typed, Controls, DaemonStates, Tokens
  <2>. QED  BY <2>1, <2>2 DEF Places
<1>3. at \in {"look", "acquire"}
  OBVIOUS
<1>. HIDE DEF at
<1>4. proc \in [Procs -> Processes]
  BY DEF Typed
<1>5. Moves(p) /\ proc'[p].at = at /\ proc'[p].does = intent /\ proc'[p].expects = proc[p].expects
  <2>. DEFINE rec == [proc[p] EXCEPT !.does = intent, !.mode = control.desired,
                                     !.token = token, !.at = at]
  <2>1. proc[p] \in Processes /\ intent \in Programs
        /\ control.desired \in Modes \union {"none", "foreign", "stopped"}
    BY <1>2, <1>4
  <2>2. rec \in Processes
    BY <1>2, <2>1 DEF Processes
  <2>3. rec.at = at /\ rec.does = intent /\ rec.expects = proc[p].expects
    BY <2>1 DEF Processes
  <2>4. proc' = [proc EXCEPT ![p] = rec]
    BY <1>1, <1>4
  <2>. HIDE DEF rec
  <2>. QED  BY <1>4, <2>2, <2>3, <2>4 DEF Moves
<1>6. intent \notin Stopping /\ intent # "enabling"
  BY <1>2 DEF Stopping, Handoffs
<1>7. ~InSection(p) /\ ~InSection(p)' /\ ~Awaits(p)' /\ ~Steers(p)'
      /\ ~Is(p, Stopping, {"acquire", "locked"})' /\ ~Is(p, {"enabling"}, {"complete"})'
  BY <1>1, <1>3, <1>5, <1>6 DEF InSection, Holds, Awaits, Is, Steers
<1>8. EndsOwned
  BY <1>1, PendingEndsNothing, Unmoved
<1>9. proc[p].at # "told" /\ proc'[p].at \notin {"evict", "dead"}
  BY <1>1, <1>3, <1>5
<1>. QED  BY <1>1, <1>2, <1>5, <1>7, <1>8, <1>9, Unmoved, KnowStep DEF files

LEMMA StopLooksStep ==
    ASSUME Typed, Numbered, NEW p \in Procs, StopLooks(p)
    PROVE ProcessStep(p)
<1>. DEFINE at == IF ActualMode \in Modes THEN "acquire" ELSE "done"
<1>1. proc[p].at = "look" /\ proc[p].does = "stop" /\ UNCHANGED <<files, lock, bounds>>
      /\ UNCHANGED system /\ proc' = [proc EXCEPT ![p].mode = ActualMode, ![p].at = at]
  BY DEF StopLooks, At
<1>2. at \in {"acquire", "done"} /\ at \in Places
  BY DEF Places
<1>. HIDE DEF at
<1>3. ActualMode \in Modes \union {"none", "foreign", "stopped"}
  <2>1. daemon.mode \in Modes \union {"none"}
    BY DEF Typed, DaemonStates
  <2>2. ActualMode \in {daemon.mode, "foreign", "background", "stopped"}
    BY DEF ActualMode
  <2>. QED  BY <2>1, <2>2 DEF Modes
<1>4. proc \in [Procs -> Processes] /\ control \in Controls
  BY DEF Typed
<1>5. Moves(p) /\ proc'[p].at = at /\ proc'[p].does = "stop" /\ proc'[p].expects = proc[p].expects
  BY <1>1, <1>2, <1>3, <1>4 DEF Moves, Processes
<1>6. ~InSection(p) /\ ~InSection(p)' /\ ~Awaits(p)' /\ ~Steers(p)'
      /\ ~Is(p, Stopping, {"acquire", "locked"})' /\ ~Is(p, {"enabling"}, {"complete"})'
  BY <1>1, <1>2, <1>5 DEF InSection, Holds, Awaits, Is, Steers, Stopping
<1>7. EndsOwned
  BY <1>1, PendingEndsNothing, Unmoved
<1>8. proc[p].at # "told" /\ proc'[p].at \notin {"evict", "dead"}
  BY <1>1, <1>2, <1>5
<1>. QED  BY <1>1, <1>4, <1>5, <1>6, <1>7, <1>8, Unmoved, KnowStep DEF files

LEMMA UnloadFailsStep ==
    ASSUME Typed, Numbered, NEW p \in Procs, StoppingUnloadFails(p)
    PROVE ProcessStep(p)
<1>1. proc[p].at = "wait" /\ proc[p].does = "stoppingService" /\ UNCHANGED <<files, lock, bounds>>
      /\ UNCHANGED system /\ proc' = [proc EXCEPT ![p].at = "tell", ![p].file = control]
  BY DEF StoppingUnloadFails, At
<1>2. proc \in [Procs -> Processes] /\ control \in Controls /\ "tell" \in Places
  BY DEF Typed, Places
<1>3. Moves(p) /\ proc'[p].at = "tell" /\ proc'[p].does = "stoppingService"
      /\ proc'[p].expects = proc[p].expects
  BY <1>1, <1>2 DEF Moves, Processes
<1>4. ~InSection(p) /\ ~InSection(p)' /\ ~Awaits(p)' /\ ~Steers(p)'
      /\ ~Is(p, Stopping, {"acquire", "locked"})' /\ ~Is(p, {"enabling"}, {"complete"})'
  BY <1>1, <1>3 DEF InSection, Holds, Awaits, Is, Steers, Stopping
<1>5. EndsOwned
  BY <1>1, PendingEndsNothing, Unmoved
<1>. QED  BY <1>1, <1>2, <1>3, <1>4, <1>5, Unmoved, KnowStep DEF files

LEMMA TellsStep ==
    ASSUME Typed, Numbered, NEW p \in Procs, StoppingTells(p)
    PROVE ProcessStep(p)
<1>1. proc[p].at = "tell" /\ proc[p].does = "stoppingService" /\ Goes(p, "told")
      /\ control' = Failed(proc[p].file) /\ UNCHANGED <<owner, lock, bounds>> /\ UNCHANGED system
  BY DEF StoppingTells, At, Control
<1>2. control' \in Controls
  BY <1>1, FailedTyped DEF Typed, Processes
<1>3. Moves(p) /\ proc'[p].at = "told" /\ proc'[p].does = "stoppingService"
      /\ proc'[p].expects = proc[p].expects
  BY <1>1, GoesOn DEF Moves, Places
<1>4. ~InSection(p) /\ ~InSection(p)' /\ ~Awaits(p)' /\ ~Steers(p)'
      /\ ~Is(p, Stopping, {"acquire", "locked"})' /\ ~Is(p, {"enabling"}, {"complete"})'
  BY <1>1, <1>3 DEF InSection, Holds, Awaits, Is, Steers, Stopping
<1>. QED  BY <1>1, <1>2, <1>3, <1>4, KnowStep

LEMMA DisablesStep ==
    ASSUME Typed, Numbered, NEW p \in Procs, ReconcileDisables(p)
    PROVE ProcessStep(p)
<1>1. proc[p].at = "decide" /\ proc[p].does = "reconcile" /\ ~Owned("local") /\ ~Owned("background")
      /\ UNCHANGED <<files, lock, bounds>> /\ UNCHANGED system
      /\ proc' = [proc EXCEPT ![p].at = "unload", ![p].expects = owner]
  BY DEF ReconcileDisables, Deciding, At
<1>2. proc \in [Procs -> Processes] /\ control \in Controls /\ owner \in Owners /\ "unload" \in Places
  BY DEF Typed, Places
<1>3. Moves(p) /\ proc'[p].at = "unload" /\ proc'[p].does = "reconcile" /\ proc'[p].expects = owner
  BY <1>1, <1>2 DEF Moves, Processes
<1>4. InSection(p) /\ InSection(p)' /\ ~Steers(p)'
      /\ ~Is(p, Stopping, {"acquire", "locked"})' /\ ~Is(p, {"enabling"}, {"complete"})'
  BY <1>1, <1>3 DEF InSection, Holds, Is, Steers, Stopping
<1>5. ~Serving(owner)
  BY <1>1 DEF Serving, Owned, Answers, Numbered, Modes
<1>6. EndsOwned
  BY <1>1, PendingEndsNothing, Unmoved
<1>. QED  BY <1>1, <1>2, <1>3, <1>4, <1>5, <1>6, Unmoved, KnowStep DEF files

LEMMA RequestsStep ==
    ASSUME Typed, Numbered, NEW p \in Procs, Requests(p)
    PROVE ProcessStep(p)
<1>1. control \in Controls /\ owner \in Owners /\ proc \in [Procs -> Processes] /\ "fork" \in Places
      /\ control.gen + 1 \in Nat
  BY DEF Typed, Places, Controls
<1>2. control' \in Controls /\ control'.pending.kind \in {"enable", "disable"}
  <2>1. Started(control, "disable", "local", FALSE, "stop service") \in Controls
        /\ Started(control, "disable", "local", FALSE, "stop service").pending.kind = "disable"
    BY <1>1, StartedTyped DEF Modes, Steps
  <2>2. Started(control, "enable", "background", TRUE, "prepare") \in Controls
        /\ Started(control, "enable", "background", TRUE, "prepare").pending.kind = "enable"
    BY <1>1, StartedTyped DEF Modes, Steps
  <2>. QED  BY <2>1, <2>2 DEF Requests, Control
<1>3. proc[p].at = "locked" /\ proc[p].does \in {"disable", "enable"}
      /\ UNCHANGED <<owner, lock, bounds>> /\ UNCHANGED system
      /\ proc' = [proc EXCEPT ![p].at = "fork", ![p].op = control.gen + 1, ![p].expects = owner]
  BY DEF Requests, At, Control
<1>4. Moves(p) /\ proc'[p].at = "fork" /\ proc'[p].does = proc[p].does /\ proc'[p].expects = owner
  BY <1>1, <1>3 DEF Moves, Processes
<1>5. InSection(p) /\ InSection(p)' /\ ~Awaits(p)' /\ ~Steers(p)'
      /\ ~Is(p, Stopping, {"acquire", "locked"})' /\ ~Is(p, {"enabling"}, {"complete"})'
  BY <1>3, <1>4 DEF InSection, Holds, Awaits, Is, Steers, Stopping
<1>6. EndsOwned
  BY <1>2 DEF EndsOwned, NoPending
<1>. QED  BY <1>2, <1>3, <1>4, <1>5, <1>6, KnowStep

\* A step that writes the control plane and keeps the transition that is pending.
LEMMA AdvanceStep ==
    ASSUME Typed, Numbered, NEW p \in Procs, ReconcileClearsError(p) \/ EnablingAdvances(p)
    PROVE ProcessStep(p)
<1>1. control \in Controls
  BY DEF Typed
<1>2. CASE ReconcileClearsError(p)
  <2>1. proc[p].at = "locked" /\ proc[p].does = "reconcile" /\ Goes(p, "decide")
        /\ control' = Cleared(control) /\ UNCHANGED <<owner, lock, bounds>> /\ UNCHANGED system
    BY <1>2 DEF ReconcileClearsError, At, Control
  <2>2. Moves(p) /\ proc'[p].at = "decide" /\ proc'[p].does = "reconcile"
        /\ proc'[p].expects = proc[p].expects
    BY <2>1, GoesOn DEF Moves, Places
  <2>3. InSection(p) /\ InSection(p)' /\ ~Awaits(p)' /\ ~Steers(p)'
        /\ ~Is(p, Stopping, {"acquire", "locked"})' /\ ~Is(p, {"enabling"}, {"complete"})'
    BY <2>1, <2>2 DEF InSection, Holds, Awaits, Is, Steers, Stopping
  <2>4. control' \in Controls /\ EndsOwned
    BY <1>1, <2>1, ClearedTyped, PendingEndsNothing
  <2>. QED  BY <2>1, <2>2, <2>3, <2>4, KnowStep
<1>3. CASE EnablingAdvances(p)
  <2>1. PICK step \in Steps, at \in {"stop", "install", "ready"} :
          /\ proc[p].does = "enabling" /\ Current(p) /\ Goes(p, at)
          /\ control' = Advanced(control, step) /\ UNCHANGED <<owner, lock, bounds>>
          /\ UNCHANGED system
          /\ \/ proc[p].at = "locked" /\ at = "stop"
             \/ proc[p].at = "wait" /\ ~Answers /\ at = "install"
             \/ proc[p].at = "installed" /\ at = "ready"
    <3>1. CASE At(p, {"enabling"}, "locked") /\ Current(p) /\ Goes(p, "stop")
               /\ Control(Advanced(control, "stop conflicting"))
      BY <3>1 DEF At, Control, Steps
    <3>2. CASE At(p, {"enabling"}, "wait") /\ ~Answers /\ Current(p) /\ Goes(p, "install")
               /\ Control(Advanced(control, "ensure service"))
      BY <3>2 DEF At, Control, Steps
    <3>3. CASE At(p, {"enabling"}, "installed") /\ Current(p) /\ Goes(p, "ready")
               /\ Control(Advanced(control, "wait for runtime"))
      BY <3>3 DEF At, Control, Steps
    <3>. QED  BY <1>3, <3>1, <3>2, <3>3 DEF EnablingAdvances
  <2>2. Moves(p) /\ proc'[p].at = at /\ proc'[p].does = "enabling"
        /\ proc'[p].expects = proc[p].expects /\ proc'[p].op = proc[p].op
    BY <2>1, GoesOn DEF Moves, Places
  <2>3. InSection(p) /\ InSection(p)' /\ proc[p].at # "told" /\ proc'[p].at \notin {"evict", "dead"}
        /\ ~Is(p, Stopping, {"acquire", "locked"})' /\ ~Is(p, {"enabling"}, {"complete"})'
    BY <2>1, <2>2 DEF InSection, Holds, Is, Stopping
  <2>4. Sound /\ Awaits(p)' => ~Serving(owner)
    <3>1. CASE proc[p].at = "installed"
      <4>1. Awaits(p)
        BY <2>1, <3>1 DEF Awaits, Is
      <4>. QED  BY <4>1, AwaitedStays
    <3>2. CASE proc[p].at # "installed"
      BY <2>1, <2>2, <3>2 DEF Awaits, Is, Serving
    <3>. QED  BY <3>1, <3>2
  <2>5. control' \in Controls /\ EndsOwned /\ Current(p)'
    <3>1. control' \in Controls /\ control'.pending.kind = control.pending.kind
          /\ control'.pending.op = control.pending.op
      BY <1>1, <2>1, AdvancedTyped
    <3>. QED  BY <2>1, <2>2, <3>1, PendingEndsNothing DEF Current, TransitionMatches, Kind
  <2>. QED  BY <2>1, <2>2, <2>3, <2>4, <2>5, KnowStep
<1>. QED  BY <1>2, <1>3

(***************************************************************************)
(* The steps that move the lock, and those of a process that is gone.      *)
(***************************************************************************)
Keeps == ControlInv' /\ OwnedStaysOwned /\ CompletedEnableIsOwned

\* A step that writes neither file takes no record and ends no transition.
LEMMA FilesKept ==
    ASSUME UNCHANGED files
    PROVE OwnedStaysOwned /\ CompletedEnableIsOwned
BY DEF files, OwnedStaysOwned, CompletedEnableIsOwned, NoPending

LEMMA LockStep ==
    ASSUME ControlInv, NEW p \in Procs, Acquire(p) \/ Unlock(p)
    PROVE Keeps
<1>1. PICK at \in {"locked", "done"} :
        /\ Goes(p, at) /\ UNCHANGED <<files, bounds>> /\ UNCHANGED system
        /\ \/ at = "locked" /\ proc[p].at = "acquire" /\ lock = NoOne /\ lock' = p
           \/ at = "done" /\ proc[p].at = "unlock" /\ lock' = NoOne
  BY DEF Acquire, Unlock
<1>2. Typed /\ Numbered /\ at \in Places
  BY DEF ControlInv, Places
<1>3. Moves(p) /\ proc'[p].at = at /\ proc'[p].does = proc[p].does
      /\ proc'[p].expects = proc[p].expects
  BY <1>1, <1>2, GoesOn DEF Moves
<1>4. DaemonMoves /\ OwnerMoves /\ OthersTyped /\ owner' = owner /\ control' = control
      /\ daemon' = daemon /\ instances' = instances /\ crashes' = crashes
  BY <1>1, <1>2, SystemUnmoved DEF OwnerMoves, OthersTyped, files, bounds, Typed
<1>5. Typed' /\ Numbered'
  BY <1>1, <1>2, <1>3, <1>4, TypedKept, NumberedKept DEF Typed
<1>6. ~Awaits(p)' /\ ~Steers(p)' /\ ~Is(p, {"enabling"}, {"complete"})'
      /\ (InSection(p)' <=> at = "locked") /\ (InSection(p) <=> proc[p].at = "unlock")
  BY <1>1, <1>3 DEF Awaits, Steers, Is, InSection, Holds
<1>7. ASSUME Sound PROVE Sound'
  <2>1. \A q \in Procs \ {p} : ~InSection(q)
    <3>1. CASE lock = NoOne
      BY <1>7, <3>1, InProcs DEF Sound, ProcSound
    <3>2. CASE proc[p].at = "unlock"
      BY <1>6, <1>7, <3>2, Alone
    <3>. QED  BY <1>1, <3>1, <3>2
  <2>2. \A q \in Procs \ {p} : Placed(q)' /\ ~InSection(q)'
    BY <1>2, <1>3, <1>4, <1>7, <2>1, OtherKept DEF Sound, ProcSound, Moves
  <2>3. Placed(p)'
    <3>1. Placed(p) /\ proc'[p].at \notin {"evict", "dead"}
      BY <1>3, <1>7 DEF Sound, ProcSound
    <3>2. Is(p, Stopping, {"acquire", "locked"})' => ~Serving(proc[p].expects)'
      BY <1>1, <1>3, <1>4, <3>1 DEF Is, Placed, Serving, Answers
    <3>3. ~Awaits(p)' /\ ~Is(p, {"enabling"}, {"complete"})'
      BY <1>6
    <3>4. proc'[p].expects.inst <= instances'
      BY <1>3, <1>4, <3>1 DEF Placed
    <3>. QED  BY <3>1, <3>2, <3>3, <3>4 DEF Placed
  <2>4. lock' = NoOne \/ (lock' = p /\ InSection(p)')
    BY <1>1, <1>6
  <2>5. InSection(p)' => lock' = p
    BY <1>1, <1>6
  <2>. QED  BY <2>2, <2>3, <2>4, <2>5 DEF Sound, ProcSound, LockSound
<1>8. ASSUME Orderly' PROVE Steered'
  <2>1. Orderly
    BY <1>1, <1>2, <1>3, <1>4, <1>8, OrderlyBefore
  <2>2. ASSUME NEW q \in Procs \ {p}, Steers(q)' PROVE Current(q)'
    <3>1. Steers(q) /\ proc'[q] = proc[q]
      BY <1>3, <2>2 DEF Moves, Steers, Holds
    <3>. QED  BY <1>4, <2>1, <3>1 DEF ControlInv, Steered, Current, TransitionMatches, Kind
  <2>. QED  BY <1>6, <2>2 DEF Steered
<1>9. ControlInv'
  BY <1>4, <1>5, <1>7, <1>8 DEF ControlInv
<1>. QED  BY <1>1, <1>9, FilesKept DEF Keeps

\* Once a process was killed, only the types and the numbers are promised.
LEMMA KilledStep ==
    ASSUME ControlInv, NEW p \in Procs, SeesDeadHolder(p) \/ Evict(p) \/ ProcessCrashes(p)
    PROVE Keeps
<1>1. PICK at \in {"evict", "acquire", "dead"} :
        Goes(p, at) /\ UNCHANGED files /\ UNCHANGED system /\ lock' \in {lock, NoOne}
        /\ faults' = faults
  BY DEF SeesDeadHolder, Evict, ProcessCrashes, bounds
<1>2. Typed /\ Numbered /\ at \in Places
  BY DEF ControlInv, Places
<1>3. Moves(p)
  BY <1>1, <1>2, GoesOn DEF Moves
<1>4. DaemonMoves /\ OwnerMoves
  BY <1>1, <1>2, SystemUnmoved DEF OwnerMoves, files
<1>5. Sound => ~SeesDeadHolder(p) /\ ~Evict(p)
  <2>1. Sound => ~Evict(p)
    BY DEF Sound, ProcSound, Placed, Evict
  <2>2. Sound => ~SeesDeadHolder(p)
    BY DEF Sound, LockSound, InSection, Holds, SeesDeadHolder, Runs
  <2>. QED  BY <2>1, <2>2
<1>6. crashes' \in 0..MaxCrashes /\ crashes' # 0
  <2>1. crashes \in 0..MaxCrashes /\ MaxCrashes \in Nat
    BY <1>2, ControlAssumption DEF Typed, ControlAssumption
  <2>2. CASE ProcessCrashes(p)
    BY <2>1, <2>2 DEF ProcessCrashes
  <2>3. CASE SeesDeadHolder(p) \/ Evict(p)
    BY <1>5, <2>1, <2>3 DEF ControlInv, SeesDeadHolder, Evict, bounds
  <2>. QED  BY <2>2, <2>3
<1>7. Typed'
  <2>1. control' \in Controls /\ spawned' \subseteq Procs
        /\ service' \in Services /\ (service'.wants => service'.loaded)
    BY <1>1, <1>2, SystemUnmoved DEF files, Typed
  <2>2. daemon' \in DaemonStates /\ instances' \in 0..MaxInstances /\ owner' \in Owners
    BY <1>2, <1>4, DaemonTyped, OwnerTyped
  <2>3. faults' \in 0..MaxFaults /\ lock' \in Procs \union {NoOne}
    BY <1>1, <1>2 DEF Typed
  <2>. QED  BY <1>3, <1>6, <2>1, <2>2, <2>3 DEF Typed, Moves
<1>8. Numbered'
  BY <1>2, <1>4, NumberedKept
<1>. QED  BY <1>1, <1>6, <1>7, <1>8, FilesKept DEF ControlInv, Orderly, Keeps

(***************************************************************************)
(* A process that leaves a helper behind.                                  *)
(***************************************************************************)
LEMMA ForkStep ==
    ASSUME ControlInv, NEW p \in Procs, NEW q \in Procs, NEW does \in Handoffs, NEW op \in Nat,
           NEW expects \in Owners, Sound => expects.inst <= instances,
           Holds(p), Forks(p, q, does, op, expects), UNCHANGED <<files, lock, system, bounds>>
    PROVE Keeps
<1>. DEFINE at == IF does \in {"stoppingLocal", "stoppingService"} THEN "wait" ELSE "acquire"
            rec == [proc[q] EXCEPT !.does = does, !.op = op, !.expects = expects,
                                   !.token = proc[p].token, !.at = at]
<1>1. Typed /\ Numbered /\ proc \in [Procs -> Processes] /\ proc[p] \in Processes
      /\ proc[q] \in Processes
  BY DEF ControlInv, Typed
<1>2. proc[q].at = "new" /\ p # q /\ proc' = [proc EXCEPT ![p].at = "unlock", ![q] = rec]
  BY DEF Forks
<1>3. rec \in Processes /\ rec.does = does /\ rec.at = at /\ rec.expects = expects
  <2>1. does \in Programs /\ at \in Places /\ proc[p].token \in Tokens
    BY <1>1 DEF Programs, Places, Processes
  <2>. HIDE DEF at
  <2>. QED  BY <1>1, <2>1 DEF Processes
<1>4. at \in {"wait", "acquire"} /\ (does \in Stopping <=> at = "wait")
  BY DEF Stopping
<1>. HIDE DEF rec, at
<1>5. [proc[p] EXCEPT !.at = "unlock"] \in Processes
      /\ [proc[p] EXCEPT !.at = "unlock"].at = "unlock"
      /\ [proc[p] EXCEPT !.at = "unlock"].expects = proc[p].expects
  BY <1>1 DEF Processes, Places
<1>6. /\ proc' \in [Procs -> Processes] /\ proc'[q] = rec
      /\ proc'[p] = [proc[p] EXCEPT !.at = "unlock"]
      /\ \A r \in Procs \ {p, q} : proc'[r] = proc[r]
  BY <1>1, <1>2, <1>3, <1>5
<1>7. owner' = owner /\ control' = control /\ lock' = lock /\ daemon' = daemon
      /\ instances' = instances /\ crashes' = crashes /\ faults' = faults
      /\ service' = service /\ spawned' = spawned
  BY DEF files, system, bounds
<1>8. Typed' /\ Numbered'
  BY <1>1, <1>6, <1>7 DEF Typed, Numbered
<1>9. ~InSection(q) /\ ~InSection(q)' /\ ~Awaits(q)' /\ ~Steers(q)'
      /\ ~Is(q, Stopping, {"acquire", "locked"})' /\ ~Is(q, {"enabling"}, {"complete"})'
  BY <1>2, <1>3, <1>4, <1>6 DEF InSection, Holds, Awaits, Steers, Is, Stopping
<1>10. InSection(p) /\ InSection(p)' /\ ~Awaits(p)' /\ ~Steers(p)'
       /\ ~Is(p, Stopping, {"acquire", "locked"})' /\ ~Is(p, {"enabling"}, {"complete"})'
  BY <1>5, <1>6 DEF InSection, Holds, Awaits, Steers, Is
<1>11. ASSUME Sound PROVE Sound'
  <2>1. DaemonMoves
    BY <1>7 DEF DaemonMoves
  <2>2. \A r \in Procs \ {p, q} : Placed(r)' /\ (InSection(r)' <=> InSection(r))
    BY <1>1, <1>6, <1>7, <1>11, <2>1, OtherKept DEF Sound, ProcSound
  <2>3. Placed(q)'
    BY <1>3, <1>4, <1>6, <1>7, <1>9, <1>11 DEF Placed
  <2>4. Placed(p)'
    BY <1>5, <1>6, <1>7, <1>10, <1>11 DEF Sound, ProcSound, Placed
  <2>5. \A r \in Procs : ProcSound(r)'
    BY <1>7, <1>9, <1>10, <1>11, <2>2, <2>3, <2>4 DEF Sound, ProcSound
  <2>6. LockSound'
    BY <1>7, <1>9, <1>10, <1>11, <2>2 DEF Sound, LockSound
  <2>. QED  BY <2>5, <2>6 DEF Sound
<1>12. ASSUME Orderly' PROVE Steered'
  <2>1. proc[p].at # "told" /\ proc[q].at # "told"
    BY <1>2 DEF Holds
  <2>2. Orderly
    BY <1>6, <1>7, <1>12, <2>1 DEF Orderly
  <2>3. ASSUME NEW r \in Procs \ {p, q}, Steers(r)' PROVE Current(r)'
    <3>1. Steers(r) /\ proc'[r] = proc[r]
      BY <1>6, <2>3 DEF Steers, Holds
    <3>. QED  BY <1>7, <2>2, <3>1 DEF ControlInv, Steered, Current, TransitionMatches, Kind
  <2>. QED  BY <1>9, <1>10, <2>3 DEF Steered
<1>. QED  BY <1>7, <1>8, <1>11, <1>12, FilesKept DEF ControlInv, Keeps

LEMMA Forkings ==
    ASSUME ControlInv, NEW p \in Procs, NEW q \in Procs,
           RequestForks(p, q) \/ StopForks(p, q) \/ ReconcileForks(p, q)
    PROVE Keeps
<1>1. NoOwner \in Owners /\ NoOwner.inst = 0 /\ owner \in Owners /\ instances \in Nat
      /\ owner.inst <= instances /\ proc[p].expects \in Owners /\ proc[p].op \in Nat
      /\ control.pending.op \in Nat
  BY NullsTyped DEF ControlInv, Typed, Numbered, Processes, Controls, Pendings
<1>2. CASE RequestForks(p, q)
  <2>1. Holds(p) /\ UNCHANGED <<files, lock, system, bounds>>
    BY <1>2 DEF RequestForks, At, Holds, Stopping
  <2>2. Sound => proc[p].expects.inst <= instances
    BY DEF Sound, ProcSound, Placed
  <2>3. CASE Forks(p, q, "disabling", proc[p].op, proc[p].expects)
    BY <1>1, <2>1, <2>2, <2>3, ForkStep DEF Handoffs
  <2>4. CASE Forks(p, q, "enabling", proc[p].op, NoOwner)
    BY <1>1, <2>1, <2>4, ForkStep DEF Handoffs
  <2>. QED  BY <1>2, <2>3, <2>4 DEF RequestForks
<1>3. CASE StopForks(p, q)
  <2>1. Holds(p) /\ UNCHANGED <<files, lock, system, bounds>>
    BY <1>3 DEF StopForks, At, Holds, Stopping
  <2>2. PICK does \in Handoffs : Forks(p, q, does, 0, owner)
    BY <1>3 DEF StopForks, Handoffs
  <2>. QED  BY <1>1, <2>1, <2>2, ForkStep
<1>4. CASE ReconcileForks(p, q)
  <2>1. Holds(p) /\ UNCHANGED <<files, lock, system, bounds>>
    BY <1>4 DEF ReconcileForks, Deciding, At, Holds, Stopping
  <2>2. CASE Forks(p, q, "enabling", control.pending.op, NoOwner)
    BY <1>1, <2>1, <2>2, ForkStep DEF Handoffs
  <2>3. CASE Forks(p, q, "disabling", control.pending.op, owner)
    BY <1>1, <2>1, <2>3, ForkStep DEF Handoffs
  <2>. QED  BY <1>4, <2>2, <2>3 DEF ReconcileForks
<1>. QED  BY <1>2, <1>3, <1>4

(***************************************************************************)
(* The steps of the daemon.                                                *)
(***************************************************************************)
LEMMA DaemonStep ==
    ASSUME ControlInv, DaemonMoves, UNCHANGED files, UNCHANGED <<lock, proc>>,
           spawned' \subseteq Procs, service' = service, faults' \in 0..MaxFaults, crashes' = crashes
    PROVE Keeps
<1>1. Typed /\ Numbered
  BY DEF ControlInv
<1>2. owner' = owner /\ control' = control /\ OwnerMoves
  BY DEF files, OwnerMoves
<1>3. Typed' /\ Numbered'
  BY <1>1, <1>2, DaemonTyped, NumberedKept DEF Typed
<1>4. Sound => Sound'
  BY <1>1, <1>2, OtherKept DEF Sound, ProcSound, LockSound
<1>5. Orderly' => Steered'
  BY <1>2 DEF ControlInv, Orderly, Steered, Steers, Holds, Current, TransitionMatches, Kind
<1>. QED  BY <1>3, <1>4, <1>5, FilesKept DEF ControlInv, Keeps

LEMMA BindMoves ==
    ASSUME Typed, NEW token \in Tokens, NEW byService \in BOOLEAN, Bind(token, byService)
    PROVE DaemonMoves
<1>1. control.desired \in Modes /\ instances + 1 \in Nat
  BY DEF Typed, Controls
<1>2. Binds
  BY <1>1 DEF Bind, Binds, DaemonStates
<1>. QED  BY <1>2 DEF DaemonMoves

LEMMA DaemonSteps ==
    ASSUME ControlInv,
           \/ \E t \in spawned : DirectDaemonBinds(t) \/ DirectDaemonRefused(t)
           \/ ServiceDaemonBinds \/ ForeignDaemonBinds \/ DaemonCrashes \/ DaemonHangs
    PROVE Keeps
<1>1. Typed
  BY DEF ControlInv
<1>2. ASSUME NEW t \in spawned, DirectDaemonBinds(t) PROVE Keeps
  <2>1. t \in Tokens
    BY <1>1, InProcs DEF Typed
  <2>. QED  BY <1>1, <1>2, <2>1, BindMoves, DaemonStep DEF DirectDaemonBinds, bounds, Typed
<1>3. ASSUME NEW t \in spawned, DirectDaemonRefused(t) PROVE Keeps
  BY <1>1, <1>3, DaemonStep DEF DirectDaemonRefused, bounds, Typed, DaemonMoves
<1>4. CASE ServiceDaemonBinds
  <2>1. service.token \in Tokens
    BY <1>1 DEF Typed, Services
  <2>. QED  BY <1>1, <1>4, <2>1, BindMoves, DaemonStep DEF ServiceDaemonBinds, bounds, Typed
<1>5. CASE ForeignDaemonBinds
  <2>1. NoOne \in Tokens
    BY DEF Tokens
  <2>. QED  BY <1>1, <1>5, <2>1, BindMoves, DaemonStep DEF ForeignDaemonBinds, bounds, Typed
<1>6. faults < MaxFaults => faults + 1 \in 0..MaxFaults
  BY <1>1, ControlAssumption DEF Typed, ControlAssumption
<1>7. CASE DaemonCrashes
  BY <1>1, <1>6, <1>7, DaemonStep DEF DaemonCrashes, Typed, DaemonMoves
<1>8. CASE DaemonHangs
  BY <1>1, <1>6, <1>8, DaemonStep DEF DaemonHangs, Typed, DaemonMoves
<1>. QED  BY <1>2, <1>3, <1>4, <1>5, <1>7, <1>8

(***************************************************************************)
(* Every step keeps the invariant.                                         *)
(***************************************************************************)
LEMMA ProcessSteps ==
    ASSUME ControlInv, NEW p \in Procs, LockTimeout(p) \/ Bootstrap(p) \/ Handoff(p)
    PROVE Keeps
<1>1. Typed /\ Numbered
  BY DEF ControlInv
<1>2. SUFFICES ASSUME ~(\E q \in Procs : RequestForks(p, q) \/ StopForks(p, q) \/ ReconcileForks(p, q))
               PROVE ProcessStep(p)
  BY Forkings, ProcessStepKeeps DEF Keeps
<1>3. CASE LockTimeout(p)
  BY <1>1, <1>3, LockTimeoutStep
<1>4. CASE Bootstrap(p)
  BY <1>1, <1>2, <1>4, GiveUps, Failings, Completions, StartLooksStep, SpawnStep, OwnsStep, UnloadStep,
     ClearsStep, RequestsStep, StopLooksStep, AdvanceStep, DisablesStep DEF Bootstrap
<1>5. CASE Handoff(p)
  BY <1>1, <1>5, GiveUps, Tellings, Completions, UnloadStep, ShutdownStep, ClearsStep, AdvanceStep,
     EnablingSteps, OwnsStep, StoppingSteps, UnloadFailsStep, TellsStep DEF Handoff
<1>. QED  BY <1>3, <1>4, <1>5

LEMMA ControlInit ==
    ASSUME Init
    PROVE ControlInv
<1>1. PICK mode \in {"none", "local", "background"} : AtRest(mode)
  BY DEF Init
<1>2. lock = NoOne /\ spawned = {} /\ faults = 0 /\ crashes = 0
      /\ proc = [p \in Procs |-> [does |-> "nothing", at |-> "new", mode |-> "none",
                                  op |-> 0, expects |-> NoOwner, token |-> NoOne, file |-> control]]
  BY DEF Init
<1>3. control \in Controls
  BY <1>1, NullsTyped DEF AtRest, Controls, Modes
<1>4. /\ owner \in Owners /\ daemon \in DaemonStates /\ instances \in {0, 1}
      /\ owner.inst <= instances
      /\ daemon = NoDaemon \/ (daemon.inst = 1 /\ instances = 1 /\ daemon.mode \in Modes
                                /\ daemon.mode = owner.mode)
  <2>1. CASE mode = "none"
    BY <1>1, <2>1, NullsTyped DEF AtRest
  <2>2. CASE mode \in Modes
    <3>1. owner = [mode |-> mode, inst |-> 1, token |-> Past] /\ instances = 1
          /\ daemon = [inst |-> 1, mode |-> mode, token |-> Past,
                       service |-> mode = "background", up |-> TRUE]
      BY <1>1, <2>2 DEF AtRest, Modes
    <3>2. owner \in Owners /\ daemon \in DaemonStates
      BY <2>2, <3>1 DEF Owners, DaemonStates, Tokens
    <3>. QED  BY <2>2, <3>1, <3>2
  <2>. QED  BY <2>1, <2>2 DEF Modes
<1>5. service \in Services /\ (service.wants => service.loaded)
  BY <1>1, NullsTyped DEF AtRest, Services, Tokens
<1>6. 0 \in 0..MaxFaults /\ 0 \in 0..MaxCrashes /\ instances \in 0..MaxInstances
  BY <1>4, ControlAssumption DEF ControlAssumption
<1>7. [does |-> "nothing", at |-> "new", mode |-> "none", op |-> 0, expects |-> NoOwner,
       token |-> NoOne, file |-> control] \in Processes
  BY <1>3, NullsTyped DEF Processes, Programs, Places, Tokens
<1>8. Typed
  BY <1>2, <1>3, <1>4, <1>5, <1>6, <1>7 DEF Typed
<1>9. Numbered
  BY <1>4 DEF Numbered
<1>10. \A p \in Procs : proc[p].at = "new" /\ proc[p].expects.inst = 0
  BY <1>2, NullsTyped
<1>11. Sound /\ Steered
  <2>1. \A p \in Procs : ~InSection(p) /\ ~Awaits(p) /\ ~Steers(p) /\ ~Is(p, {"enabling"}, {"complete"})
                         /\ ~Is(p, Stopping, {"acquire", "locked"})
    BY <1>10 DEF InSection, Holds, Awaits, Steers, Is
  <2>2. \A p \in Procs : proc[p].at \notin {"evict", "dead"} /\ proc[p].expects.inst <= instances
    BY <1>4, <1>10
  <2>. QED  BY <1>2, <2>1, <2>2 DEF Sound, Steered, LockSound, ProcSound, Placed
<1>. QED  BY <1>8, <1>9, <1>11 DEF ControlInv

LEMMA ControlNext ==
    ASSUME ControlInv, [Next]_vars
    PROVE Keeps
<1>1. CASE UNCHANGED vars
  <2>1. DaemonMoves /\ UNCHANGED files /\ UNCHANGED <<lock, proc>> /\ service' = service
        /\ spawned' \subseteq Procs /\ faults' \in 0..MaxFaults /\ crashes' = crashes
    BY <1>1 DEF vars, files, DaemonMoves, ControlInv, Typed
  <2>. QED  BY <2>1, DaemonStep
<1>2. ASSUME NEW p \in Procs, NEW intent \in Intents, NEW token \in {NoOne, daemon.token},
             Launch(p, intent, token)
      PROVE Keeps
  BY <1>2, LaunchStep, ProcessStepKeeps DEF ControlInv, Keeps
<1>3. ASSUME NEW p \in Procs, Acquire(p) \/ Unlock(p) PROVE Keeps
  BY <1>3, LockStep
<1>4. ASSUME NEW p \in Procs, SeesDeadHolder(p) \/ Evict(p) \/ ProcessCrashes(p) PROVE Keeps
  BY <1>4, KilledStep
<1>5. ASSUME NEW p \in Procs, LockTimeout(p) \/ Bootstrap(p) \/ Handoff(p) PROVE Keeps
  BY <1>5, ProcessSteps
<1>6. CASE \/ \E t \in spawned : DirectDaemonBinds(t) \/ DirectDaemonRefused(t)
           \/ ServiceDaemonBinds \/ ForeignDaemonBinds \/ DaemonCrashes \/ DaemonHangs
  BY <1>6, DaemonSteps
<1>. QED  BY <1>1, <1>2, <1>3, <1>4, <1>5, <1>6 DEF Next

(***************************************************************************)
(* The theorems.                                                           *)
(***************************************************************************)
\* The invariant: the lock file names the process in its critical section, and a process that is
\* past its look at the daemon still finds no daemon of the record.
THEOREM ControlInvariant == Spec => []ControlInv
<1>1. Init => ControlInv
  BY ControlInit
<1>2. ControlInv /\ [Next]_vars => ControlInv'
  BY ControlNext DEF Keeps
<1>. QED  BY <1>1, <1>2, PTL DEF Spec

\* A handoff moves the daemon only for the transition that is still pending, and what
\* derive_allowed_actions offers is accepted, however many processes run.
THEOREM HandoffsAreSound == Spec => []HandoffSound
<1>1. ControlInv => TypeOK
  BY DEF ControlInv, Typed, TypeOK, Controls, Pendings, Owners, DaemonStates, Services
<1>2. ControlInv => HandoffIsCurrent
  BY DEF ControlInv, Steered, Steers, HandoffIsCurrent
<1>3. ControlInv => OfferedIsAccepted
  <2>1. SUFFICES ASSUME ControlInv PROVE OfferedIsAccepted
    OBVIOUS
  <2>2. control.desired \in Modes /\ daemon \in DaemonStates
    BY <2>1 DEF ControlInv, Typed, Controls
  <2>3. "enable" \in AllowedActions /\ ~control.error => MayEnable
    BY <2>2 DEF AllowedActions, Offers, TransitionStatus, MayEnable
  <2>4. "disable" \in AllowedActions /\ ~control.error => MayDisable
    BY <2>2 DEF AllowedActions, Offers, TransitionStatus, MayDisable
  <2>5. ASSUME "stop" \in AllowedActions, Answers PROVE MayStop(ActualMode)
    <3>1. ActualMode \in Modes
      BY <2>2, <2>5 DEF AllowedActions, Offers
    <3>2. owner.inst = daemon.inst /\ ActualMode = daemon.mode
      BY <2>5, <3>1 DEF ActualMode, Modes
    <3>3. owner.mode = daemon.mode
      BY <2>1, <2>5, <3>2 DEF ControlInv, Numbered, Answers
    <3>. QED  BY <2>5, <3>2, <3>3 DEF MayStop
  <2>. QED  BY <2>3, <2>4, <2>5 DEF OfferedIsAccepted
<1>4. ControlInv => HandoffSound
  BY <1>1, <1>2, <1>3 DEF HandoffSound
<1>. QED  BY <1>4, ControlInvariant, PTL

\* The record of a daemon that answers goes only in a reset, and an enable ends only with a
\* background daemon on record.
THEOREM OwnershipIsKept == Spec => OwnershipKept
<1>1. ControlInv /\ [Next]_vars => [OwnedStaysOwned /\ CompletedEnableIsOwned]_vars
  BY ControlNext DEF Keeps
<1>. QED  BY <1>1, ControlInvariant, PTL DEF Spec, OwnershipKept

\* Mutual exclusion: as long as no process was killed, two processes are never both between
\* the write of the lock file and its removal.
THEOREM OneInSection ==
    Spec => [](crashes = 0 => \A p, q \in Procs : InSection(p) /\ InSection(q) => p = q)
<1>1. ControlInv => (crashes = 0 => \A p, q \in Procs : InSection(p) /\ InSection(q) => p = q)
  BY DEF ControlInv, Sound, ProcSound
<1>. QED  BY <1>1, ControlInvariant, PTL

-----------------------------------------------------------------------------
(***************************************************************************)
(* The local socket.                                                       *)
(***************************************************************************)
DaemonPhases == {"down", "boot", "probed", "bind", "up", "stopping"}
CommandPlaces == {"idle", "ask", "await", "stop", "mode", "gone", "launch"}
CommandOps == {"none", "start", "wait", "stop", "restart"}
Sayings == {"none", "alreadyRunning", "error", "started", "stopped", "timeout", "ready"}
Commands ==
    [pc : CommandPlaces, op : CommandOps, left : Nat, target : Daemons \union {NobodyThere}, since : Nat,
     id : Nat, said : Sayings]

SocketTyped ==
    /\ path \in Daemons \union {NobodyThere, Stranger}
    /\ process \in [Daemons -> DaemonPhases]
    /\ hung \subseteq Daemons
    /\ clock \in Nat
    /\ since \in [Daemons -> Nat] /\ looked \in [Daemons -> Nat]
    /\ command \in Commands
    /\ displaced \subseteq [whom : Daemons, lookedBefore : BOOLEAN]

\* A daemon that found nobody behind the socket looked before the one began to listen whose socket
\* lies there now.
LookedTooEarly ==
    \A d \in Daemons : process[d] = "probed" /\ path \in Daemons /\ Listens(path) => looked[d] < since[path]

\* What was looked at and bound lies in the past.
InThePast == \A d \in Daemons : looked[d] < clock /\ since[d] < clock

\* The daemon that was told to stop does, hangs, or is another one by now.
TargetWasTold ==
    LET t == command.target IN
    /\ command.since < clock
    /\ t # NobodyThere => ~(process[t] = "up" /\ since[t] = command.since /\ t \notin hung)

SocketInv ==
    /\ SocketTyped
    /\ InThePast
    /\ LookedTooEarly
    /\ ListenerKeepsPath
    /\ OneServes
    /\ TargetWasTold

-----------------------------------------------------------------------------
\* The tail of a log needs no state.
LEMMA TailIsTold == TailTold
  BY LinesAreCounted DEF TailTold, TailLines

LEMMA SocketStarts == SocketInit => SocketInv
  <1> SUFFICES ASSUME SocketInit PROVE SocketInv
    OBVIOUS
  <1> USE DaemonsAreNumbered DEF SocketInit, NobodyThere
  <1>1. NoCommand \in Commands
    BY LinesAreCounted DEF NoCommand, Commands, CommandPlaces, CommandOps, Sayings
  <1>2. SocketTyped
    BY <1>1 DEF SocketTyped, DaemonPhases
  <1>3. InThePast /\ LookedTooEarly /\ ListenerKeepsPath /\ OneServes
    BY DEF InThePast, LookedTooEarly, ListenerKeepsPath, OneServes, Listens
  <1>4. TargetWasTold
    <2>1. command.since = 0 /\ command.target = NobodyThere /\ clock = 1
      BY DEF NoCommand
    <2> QED
      BY <2>1 DEF TargetWasTold
  <1> QED
    BY <1>2, <1>3, <1>4 DEF SocketInv

(***************************************************************************)
(* What the steps of the daemons do.                                       *)
(***************************************************************************)
\* A command keeps its word while the daemons move: who is up was up, or listens from now on.
LEMMA TargetKept ==
  ASSUME SocketInv, SocketTyped', UNCHANGED command, clock' >= clock,
         \A d \in Daemons :
            process'[d] = "up" => \/ process[d] = "up" /\ since'[d] = since[d] /\ (d \in hung => d \in hung')
                                  \/ since'[d] = clock
  PROVE  TargetWasTold'
  <1>1. command.since < clock /\ command.since \in Nat /\ command.target \in Daemons \union {NobodyThere}
    BY DEF SocketInv, TargetWasTold, SocketTyped, Commands
  <1>2. command.since < clock'
    BY <1>1 DEF SocketTyped, SocketInv
  <1> DEFINE t == command.target
  <1>3. ASSUME t # NobodyThere, process'[t] = "up", since'[t] = command.since
        PROVE  t \in hung'
    <2>1. t \in Daemons
      BY <1>1, <1>3
    <2>2. process[t] = "up" /\ since'[t] = since[t] /\ (t \in hung => t \in hung')
      BY <2>1, <1>3, <1>1 DEF SocketInv, SocketTyped
    <2> QED
      BY <2>2, <1>3 DEF SocketInv, TargetWasTold
  <1> QED
    BY <1>2, <1>3 DEF TargetWasTold

LEMMA BootKeeps == ASSUME SocketInv, NEW d \in Daemons, Boot(d) PROVE SocketInv'
  <1> USE DEF Boot, pathVars, commandVars
  <1>1. SocketTyped'
    BY DEF SocketInv, SocketTyped, DaemonPhases
  <1>2. \A e \in Daemons : (Listens(e)' <=> Listens(e)) /\ (process'[e] = "probed" <=> process[e] = "probed")
    BY DEF SocketInv, SocketTyped, Listens
  <1>3. InThePast' /\ LookedTooEarly' /\ ListenerKeepsPath' /\ OneServes'
    BY <1>2 DEF SocketInv, InThePast, LookedTooEarly, ListenerKeepsPath, OneServes, Listens
  <1>4. TargetWasTold'
    <2>1. \A e \in Daemons : process'[e] = "up" => process[e] = "up"
      BY DEF SocketInv, SocketTyped
    <2> QED
      BY <1>1, <2>1, TargetKept DEF SocketInv, SocketTyped
  <1> QED
    BY <1>1, <1>3, <1>4 DEF SocketInv

LEMMA ProbeKeeps == ASSUME SocketInv, NEW d \in Daemons, Probe(d) PROVE SocketInv'
  <1> USE DEF commandVars
  <1> USE DaemonsAreNumbered DEF NobodyThere, Stranger
  <1>0. /\ process[d] = "boot" /\ clock' = clock + 1 /\ looked' = [looked EXCEPT ![d] = clock]
        /\ UNCHANGED <<path, since, displaced, hung, command>>
        /\ process' = [process EXCEPT ![d] = process'[d]]
        /\ process'[d] \in {"bind", "down", "probed"}
        /\ process'[d] = "probed" => path \in Daemons /\ ~Listens(path)
    <2>1. path = NobodyThere \/ path = Stranger \/ (path \in Daemons /\ path # NobodyThere /\ path # Stranger)
      BY DEF SocketInv, SocketTyped
    <2>2. d \in DOMAIN process /\ process \in [Daemons -> DaemonPhases]
      BY DEF SocketInv, SocketTyped
    <2>3. /\ process[d] = "boot" /\ clock' = clock + 1 /\ looked' = [looked EXCEPT ![d] = clock]
          /\ UNCHANGED <<path, since, displaced, hung, command>>
      BY DEF Probe
    <2>4. CASE path = NobodyThere
      <3>1. path \notin Daemons /\ path # Stranger
        BY <2>4
      <3>2. process' = [process EXCEPT ![d] = "bind"]
        BY <2>4, <3>1 DEF Probe
      <3> QED
        BY <2>2, <2>3, <3>2
    <2>5. CASE path = Stranger
      <3>1. path \notin Daemons /\ path # NobodyThere
        BY <2>5
      <3>2. process' = [process EXCEPT ![d] = "down"]
        BY <2>5, <3>1 DEF Probe
      <3> QED
        BY <2>2, <2>3, <3>2
    <2>6. CASE path \in Daemons /\ path # NobodyThere /\ path # Stranger
      <3>1. process' = [process EXCEPT ![d] = IF Listens(path) THEN "down" ELSE "probed"]
        BY <2>6 DEF Probe
      <3> QED
        BY <2>6, <2>2, <2>3, <3>1
    <2> QED
      BY <2>1, <2>4, <2>5, <2>6
  <1>1. SocketTyped'
    BY <1>0 DEF SocketInv, SocketTyped, DaemonPhases
  <1>2. \A e \in Daemons : (Listens(e)' <=> Listens(e)) /\ (e # d => process'[e] = process[e] /\ looked'[e] = looked[e])
    BY <1>0 DEF SocketInv, SocketTyped, Listens
  <1>3. InThePast' /\ ListenerKeepsPath' /\ OneServes'
    BY <1>0, <1>2 DEF SocketInv, InThePast, ListenerKeepsPath, OneServes, SocketTyped
  <1>4. LookedTooEarly'
    BY <1>0, <1>2 DEF SocketInv, LookedTooEarly, SocketTyped
  <1>5. TargetWasTold'
    <2>1. \A e \in Daemons : process'[e] = "up" => process[e] = "up"
      BY <1>0 DEF SocketInv, SocketTyped
    <2> QED
      BY <1>0, <1>1, <2>1, TargetKept DEF SocketInv, SocketTyped
  <1> QED
    BY <1>1, <1>3, <1>4, <1>5 DEF SocketInv

LEMMA RemoveKeeps == ASSUME SocketInv, NEW d \in Daemons, RemoveSocketFile(d) PROVE SocketInv'
  <1> USE DEF commandVars
  <1> USE DaemonsAreNumbered DEF NobodyThere, Stranger
  <1>0. /\ process[d] = "probed" /\ process' = [process EXCEPT ![d] = "bind"] /\ path' = NobodyThere
        /\ UNCHANGED <<clock, since, looked, hung, command>>
    BY DEF RemoveSocketFile
  <1>d. /\ path \in Daemons /\ Listens(path) =>
             displaced' = displaced \union {[whom |-> path, lookedBefore |-> TRUE]}
        /\ ~(path \in Daemons /\ Listens(path)) => displaced' = displaced
    <2>1. ASSUME path \in Daemons, Listens(path)
          PROVE  displaced' = displaced \union {[whom |-> path, lookedBefore |-> TRUE]}
      <3>1. looked[d] < since[path]
        BY <1>0, <2>1 DEF SocketInv, LookedTooEarly
      <3>2. (looked[d] < since[path]) = TRUE
        BY <3>1
      <3>3. displaced' = displaced \union {[whom |-> path, lookedBefore |-> looked[d] < since[path]]}
        BY <2>1, Zenon DEF RemoveSocketFile
      <3> QED
        BY <3>2, <3>3, Zenon
    <2>2. ASSUME ~(path \in Daemons /\ Listens(path)) PROVE displaced' = displaced
      BY <2>2 DEF RemoveSocketFile
    <2> QED
      BY <2>1, <2>2
  <1>1. SocketTyped'
    <2>1. displaced' \subseteq [whom : Daemons, lookedBefore : BOOLEAN]
      <3>1. path \in Daemons => [whom |-> path, lookedBefore |-> TRUE] \in [whom : Daemons, lookedBefore : BOOLEAN]
        OBVIOUS
      <3>2. displaced \subseteq [whom : Daemons, lookedBefore : BOOLEAN]
        BY DEF SocketInv, SocketTyped
      <3> QED
        BY <1>d, <3>1, <3>2, Zenon
    <2> QED
      BY <1>0, <2>1 DEF SocketInv, SocketTyped, DaemonPhases
  <1>2. \A e \in Daemons : (Listens(e)' <=> Listens(e)) /\ (process'[e] = "probed" => process[e] = "probed")
    BY <1>0 DEF SocketInv, SocketTyped, Listens
  <1>3. InThePast' /\ LookedTooEarly'
    BY <1>0, <1>2 DEF SocketInv, InThePast, LookedTooEarly
  <1>4. ListenerKeepsPath'
    BY <1>d DEF SocketInv, ListenerKeepsPath
  <1>5. OneServes'
    <2> SUFFICES ASSUME NEW e \in Daemons, Listens(e)' PROVE \E x \in displaced' : x.whom = e
      BY <1>0 DEF OneServes
    <2>1. CASE path # e
      BY <2>1, <1>2, <1>d DEF SocketInv, OneServes
    <2>2. CASE path = e
      <3> DEFINE x == [whom |-> path, lookedBefore |-> TRUE]
      <3>1. Listens(path) /\ path \in Daemons
        BY <2>2, <1>2
      <3>2. x \in displaced'
        BY <3>1, <1>d
      <3>3. x.whom = e
        BY <2>2
      <3> HIDE DEF x
      <3> QED
        BY <3>2, <3>3
    <2> QED
      BY <2>1, <2>2
  <1>6. TargetWasTold'
    <2>1. \A e \in Daemons : process'[e] = "up" => process[e] = "up"
      BY <1>0 DEF SocketInv, SocketTyped
    <2> QED
      BY <1>0, <1>1, <2>1, TargetKept DEF SocketInv, SocketTyped
  <1> QED
    BY <1>1, <1>3, <1>4, <1>5, <1>6 DEF SocketInv

LEMMA BindKeeps == ASSUME SocketInv, NEW d \in Daemons, BindListener(d) PROVE SocketInv'
  <1> USE DEF commandVars
  <1> USE DaemonsAreNumbered DEF NobodyThere, Stranger
  <1>0. /\ process[d] = "bind" /\ clock' = clock + 1 /\ clock \in Nat
        /\ UNCHANGED <<looked, displaced, hung, command>>
    BY DEF BindListener, SocketInv, SocketTyped
  <1>1. CASE path # NobodyThere
    <2>0. process' = [process EXCEPT ![d] = "down"] /\ UNCHANGED <<path, since>>
      BY <1>1 DEF BindListener
    <2>1. SocketTyped'
      BY <1>0, <2>0 DEF SocketInv, SocketTyped, DaemonPhases
    <2>2. \A e \in Daemons : (Listens(e)' <=> Listens(e)) /\ (process'[e] = "probed" <=> process[e] = "probed")
      BY <1>0, <2>0 DEF SocketInv, SocketTyped, Listens
    <2>3. InThePast' /\ LookedTooEarly' /\ ListenerKeepsPath' /\ OneServes'
      BY <1>0, <2>0, <2>2 DEF SocketInv, InThePast, LookedTooEarly, ListenerKeepsPath, OneServes, SocketTyped
    <2>4. TargetWasTold'
      <3>1. \A e \in Daemons : process'[e] = "up" => process[e] = "up"
        BY <2>0 DEF SocketInv, SocketTyped
      <3> QED
        BY <1>0, <2>0, <2>1, <3>1, TargetKept DEF SocketInv, SocketTyped
    <2> QED
      BY <2>1, <2>3, <2>4 DEF SocketInv
  <1>2. CASE path = NobodyThere
    <2>0. path' = d /\ process' = [process EXCEPT ![d] = "up"] /\ since' = [since EXCEPT ![d] = clock]
      BY <1>2 DEF BindListener
    <2>1. SocketTyped'
      BY <1>0, <2>0 DEF SocketInv, SocketTyped, DaemonPhases
    <2>2. \A e \in Daemons : e # d => (Listens(e)' <=> Listens(e)) /\ since'[e] = since[e] /\ process'[e] = process[e]
      BY <2>0 DEF SocketInv, SocketTyped, Listens
    <2>d. since'[d] = clock /\ process'[d] = "up"
      BY <2>0 DEF SocketInv, SocketTyped
    <2>3. InThePast'
      BY <1>0, <2>2, <2>d DEF SocketInv, InThePast, SocketTyped
    <2>4. LookedTooEarly'
      BY <1>0, <2>0, <2>d DEF SocketInv, InThePast, LookedTooEarly
    <2>5. ListenerKeepsPath' /\ OneServes'
      BY <1>0, <1>2, <2>0, <2>2 DEF SocketInv, ListenerKeepsPath, OneServes
    <2>6. TargetWasTold'
      <3>1. \A e \in Daemons : \/ since'[e] = clock
                               \/ process'[e] = process[e] /\ since'[e] = since[e]
        BY <2>2, <2>d
      <3> QED
        BY <1>0, <2>1, <3>1, TargetKept DEF SocketInv
    <2> QED
      BY <2>1, <2>3, <2>4, <2>5, <2>6 DEF SocketInv
  <1> QED
    BY <1>1, <1>2

LEMMA ExitKeeps == ASSUME SocketInv, NEW d \in Daemons, DaemonExits(d) PROVE SocketInv'
  <1> USE DEF commandVars
  <1> USE DaemonsAreNumbered DEF NobodyThere, Stranger
  <1>0. /\ process' = [process EXCEPT ![d] = "down"] /\ hung' = hung \ {d}
        /\ path' = path \/ (path = d /\ path' = NobodyThere)
        /\ UNCHANGED <<clock, since, looked, displaced, command>>
    BY DEF DaemonExits
  <1>1. SocketTyped'
    BY <1>0 DEF SocketInv, SocketTyped, DaemonPhases
  <1>2. \A e \in Daemons : (Listens(e)' => Listens(e) /\ e # d) /\ (process'[e] \in {"probed", "up"} => process[e] = process'[e] /\ e # d)
    BY <1>0 DEF SocketInv, SocketTyped, Listens
  <1>3. InThePast' /\ ListenerKeepsPath'
    BY <1>0 DEF SocketInv, InThePast, ListenerKeepsPath
  <1>4. LookedTooEarly' /\ OneServes'
    BY <1>0, <1>2 DEF SocketInv, LookedTooEarly, OneServes
  <1>5. TargetWasTold'
    <2>1. \A e \in Daemons : process'[e] = "up" => process[e] = "up" /\ since'[e] = since[e] /\ (e \in hung => e \in hung')
      BY <1>0, <1>2
    <2> QED
      BY <1>0, <1>1, <2>1, TargetKept DEF SocketInv, SocketTyped
  <1> QED
    BY <1>1, <1>3, <1>4, <1>5 DEF SocketInv

LEMMA RunAndHangKeep == ASSUME SocketInv, NEW d \in Daemons, RunStarts(d) \/ Hangs(d) PROVE SocketInv'
  <1>0. UNCHANGED <<pathVars, command>> /\ hung \subseteq hung' /\ hung' \subseteq Daemons
    BY DEF RunStarts, Hangs, commandVars, SocketInv, SocketTyped
  <1>1. SocketTyped'
    BY <1>0 DEF SocketInv, SocketTyped, pathVars
  <1>2. InThePast' /\ LookedTooEarly' /\ ListenerKeepsPath' /\ OneServes'
    BY <1>0 DEF SocketInv, InThePast, LookedTooEarly, ListenerKeepsPath, OneServes, Listens, pathVars
  <1>3. TargetWasTold'
    BY <1>0, <1>1, TargetKept DEF SocketInv, SocketTyped, pathVars
  <1> QED
    BY <1>1, <1>2, <1>3 DEF SocketInv

-----------------------------------------------------------------------------
(***************************************************************************)
(* What the command line does.                                             *)
(***************************************************************************)
\* A step of the command that names no other daemon than the one it had told to stop.
LEMMA CommandKeeps ==
  ASSUME SocketInv, UNCHANGED <<pathVars, hung>>, command' \in Commands,
         \/ command'.target = NobodyThere /\ command'.since = 0
         \/ command'.target = command.target /\ command'.since = command.since
  PROVE  SocketInv'
  <1> USE DEF pathVars
  <1>1. SocketTyped'
    BY DEF SocketInv, SocketTyped
  <1>2. InThePast' /\ LookedTooEarly' /\ ListenerKeepsPath' /\ OneServes'
    BY DEF SocketInv, InThePast, LookedTooEarly, ListenerKeepsPath, OneServes, Listens
  <1>3. TargetWasTold'
    <2>1. 0 < clock
      BY DEF SocketInv, TargetWasTold, SocketTyped, Commands
    <2> QED
      BY <2>1 DEF SocketInv, TargetWasTold
  <1> QED
    BY <1>1, <1>2, <1>3 DEF SocketInv

\* The ways in which a command goes on.
LEMMA CommandSteps ==
  ASSUME command \in Commands,
         \/ \E what \in Sayings : Says(what)
         \/ \E pc \in CommandPlaces : CommandGoes(pc)
         \/ command.left > 0 /\ command' = [command EXCEPT !.left = @ - 1, !.id = @ + 1]
  PROVE  command' \in Commands /\ command'.target = command.target /\ command'.since = command.since
  <1>1. CASE \E what \in Sayings : Says(what)
    BY <1>1 DEF Says, Commands, CommandPlaces
  <1>2. CASE \E pc \in CommandPlaces : CommandGoes(pc)
    <2>1. PICK pc \in CommandPlaces : command' = [command EXCEPT !.pc = pc, !.left = MaxPolls, !.id = command.id + 1]
      BY <1>2 DEF CommandGoes, Commands
    <2>2. command.id + 1 \in Nat
      BY DEF Commands
    <2> QED
      BY <2>1, <2>2, LinesAreCounted DEF Commands
  <1>3. CASE command.left > 0 /\ command' = [command EXCEPT !.left = @ - 1, !.id = @ + 1]
    <2>1. command' = [command EXCEPT !.left = command.left - 1, !.id = command.id + 1]
      BY <1>3 DEF Commands
    <2>2. command.left - 1 \in Nat /\ command.id + 1 \in Nat
      BY <1>3 DEF Commands
    <2> QED
      BY <2>1, <2>2 DEF Commands
  <1> QED
    BY <1>1, <1>2, <1>3

LEMMA GiveKeeps == ASSUME SocketInv, NEW op \in {"start", "wait", "stop", "restart"}, Give(op) PROVE SocketInv'
  <1> DEFINE pc == CASE op = "start" -> "ask" [] op = "wait" -> "await" [] op = "stop" -> "stop" [] op = "restart" -> "mode"
  <1>1. command' = [NoCommand EXCEPT !.pc = pc, !.op = op, !.left = MaxPolls, !.id = command.id + 1]
    BY DEF Give
  <1>2. pc \in CommandPlaces
    BY DEF CommandPlaces
  <1>3. command.id + 1 \in Nat
    BY DEF SocketInv, SocketTyped, Commands
  <1> HIDE DEF pc
  <1>4. command' \in Commands /\ command'.target = NobodyThere /\ command'.since = 0
    BY <1>1, <1>2, <1>3, LinesAreCounted DEF NoCommand, Commands, CommandPlaces, CommandOps, Sayings
  <1> QED
    BY <1>4, CommandKeeps DEF Give

\* The calls that poll, and the bootstrap of a daemon.
LEMMA CallsKeep ==
  ASSUME SocketInv,
         LaunchDaemon \/ \E a \in SocketAnswers : StartAsks(a) \/ RestartAsks(a) \/ WaitForShutdown(a) \/ WaitForStatus(a)
  PROVE  SocketInv'
  <1>1. UNCHANGED <<pathVars, hung>>
    BY DEF LaunchDaemon, StartAsks, RestartAsks, WaitForShutdown, WaitForStatus, CommandOnly
  <1>2. command \in Commands
    BY DEF SocketInv, SocketTyped
  <1>3. \/ \E what \in Sayings : Says(what)
        \/ \E pc \in CommandPlaces : CommandGoes(pc)
        \/ command.left > 0 /\ command' = [command EXCEPT !.left = @ - 1, !.id = @ + 1]
    <2>1. CASE LaunchDaemon
      BY <2>1 DEF LaunchDaemon, Sayings
    <2>2. CASE \E a \in SocketAnswers : StartAsks(a)
      BY <2>2 DEF StartAsks, Sayings, CommandPlaces
    <2>3. CASE \E a \in SocketAnswers : RestartAsks(a)
      BY <2>3 DEF RestartAsks, Sayings, CommandPlaces
    <2>4. CASE \E a \in SocketAnswers : WaitForShutdown(a)
      BY <2>4 DEF WaitForShutdown, Sayings, CommandPlaces
    <2>5. CASE \E a \in SocketAnswers : WaitForStatus(a)
      BY <2>5 DEF WaitForStatus, Sayings, CommandPlaces
    <2> QED
      BY <2>1, <2>2, <2>3, <2>4, <2>5
  <1> QED
    BY <1>1, <1>2, <1>3, CommandSteps, CommandKeeps

LEMMA StopKeeps == ASSUME SocketInv, StopAsked PROVE SocketInv'
  <1>0. command \in Commands /\ UNCHANGED <<path, clock, since, looked, displaced, hung>>
    BY DEF SocketInv, SocketTyped, StopAsked
  <1>1. CASE UNCHANGED process /\ (Says("error") \/ Says("stopped") \/ CommandGoes("ask"))
    BY <1>0, <1>1, CommandSteps, CommandKeeps DEF Sayings, CommandPlaces, pathVars
  <1>2. CASE /\ path \in Daemons /\ Listens(path)
             /\ command' = [command EXCEPT !.pc = "gone", !.target = path, !.since = since[path], !.left = MaxPolls]
             /\ process' = (IF path \in hung THEN process ELSE [process EXCEPT ![path] = "stopping"])
    <2>1. command' \in Commands /\ command'.target = path /\ command'.since = since[path]
      BY <1>0, <1>2, LinesAreCounted DEF SocketInv, SocketTyped, Commands, CommandPlaces
    <2>2. SocketTyped'
      BY <1>0, <1>2, <2>1 DEF SocketInv, SocketTyped, DaemonPhases
    <2>3. \A e \in Daemons : (Listens(e)' <=> Listens(e)) /\ (process'[e] = "probed" <=> process[e] = "probed")
      BY <1>2 DEF SocketInv, SocketTyped, Listens
    <2>4. InThePast' /\ LookedTooEarly' /\ ListenerKeepsPath' /\ OneServes'
      BY <1>0, <2>3 DEF SocketInv, InThePast, LookedTooEarly, ListenerKeepsPath, OneServes
    <2>5. TargetWasTold'
      <3>1. path \in hung \/ process'[path] = "stopping"
        BY <1>2 DEF SocketInv, SocketTyped
      <3> QED
        BY <1>0, <1>2, <2>1, <3>1 DEF SocketInv, InThePast, TargetWasTold
    <2> QED
      BY <2>2, <2>4, <2>5 DEF SocketInv
  <1> QED
    BY <1>1, <1>2 DEF StopAsked

LEMMA SocketStepKeeps == SocketInv /\ [SocketNext]_socketVars => SocketInv'
  <1> SUFFICES ASSUME SocketInv, [SocketNext]_socketVars PROVE SocketInv'
    OBVIOUS
  <1>1. CASE UNCHANGED socketVars
    <2>1. UNCHANGED <<pathVars, hung, command>>
      BY <1>1 DEF socketVars, commandVars
    <2>2. command' \in Commands
      BY <2>1 DEF SocketInv, SocketTyped
    <2> QED
      BY <2>1, <2>2, CommandKeeps
  <1>2. CASE \E d \in Daemons : Boot(d) \/ Probe(d) \/ RemoveSocketFile(d) \/ BindListener(d) \/ RunStarts(d) \/ DaemonExits(d) \/ Hangs(d)
    BY <1>2, BootKeeps, ProbeKeeps, RemoveKeeps, BindKeeps, ExitKeeps, RunAndHangKeep
  <1>3. CASE \E op \in {"start", "wait", "stop", "restart"} : Give(op)
    BY <1>3, GiveKeeps
  <1>4. CASE LaunchDaemon \/ \E a \in SocketAnswers : StartAsks(a) \/ RestartAsks(a) \/ WaitForShutdown(a) \/ WaitForStatus(a)
    BY <1>4, CallsKeep
  <1>5. CASE StopAsked
    BY <1>5, StopKeeps
  <1> QED
    BY <1>1, <1>2, <1>3, <1>4, <1>5 DEF SocketNext

THEOREM SocketInvariant == SocketSpec => []SocketInv
  BY SocketStarts, SocketStepKeeps, PTL DEF SocketSpec

\* A daemon that listens keeps its path against all that look at it later, at most one serves, and
\* stopped is said of no daemon that goes on: SocketSound, for any number of daemons and commands.
THEOREM SocketIsSound == SocketSpec => []SocketSound
  <1>1. SocketInv => SocketSound
    BY TailIsTold DEF SocketInv, SocketSound, StopTold, TargetWasTold
  <1> QED
    BY <1>1, SocketInvariant, PTL

-----------------------------------------------------------------------------
(***************************************************************************)
(* The websocket: the connections of the peers.                            *)
(***************************************************************************)
AnswerKinds == [kind : {"response", "error"}, id : {f.id : f \in Frames} \union {0}]
Guestbook ==
    [life : {"none", "handshake", "open", "gone"}, path : {"none", "rpc", "other"}, token : {"none", "right", "wrong"},
     armed : BOOLEAN, answers : Seq(AnswerKinds), took : Seq(Frames \X BOOLEAN)]

GuestsTyped ==
    /\ guest \in [Guests -> Guestbook]
    /\ slots \in Nat

\* Only who was welcome has an open connection, and only an open connection has taken frames.
OpenIsWelcome ==
    \A g \in Guests :
        /\ guest[g].life = "open" => OnRequest(g) = "welcome"
        /\ guest[g].life # "open" => guest[g].took = <<>> /\ guest[g].answers = <<>> /\ guest[g].armed

\* A frame that asks, and one that is not answered.
Asks(t) == t[1].kind = "text" /\ t[1].version = "2.0" /\ t[1].fields \in {{"id", "method"}, {"id", "method", "params"}}
Quiet(t) ==
    \/ t[1].kind = "text" /\ t[1].version = "2.0" /\ t[1].fields \in {{"method"}, {"method", "params"}}
    \/ t[1].kind \in {"ping", "pong", "close"}

\* The answers are those of the frames at places at, in their order.
AnswersAt(answers, took, at) ==
    /\ at \in [DOMAIN answers -> DOMAIN took]
    /\ \A i, j \in DOMAIN answers : i < j => at[i] < at[j]
    /\ \A n \in DOMAIN took : ~Quiet(took[n]) <=> \E i \in DOMAIN answers : at[i] = n
    /\ \A i \in DOMAIN answers : answers[i].id = IF Asks(took[at[i]]) THEN took[at[i]][1].id ELSE 0
AnswersOf(answers, took) == \E at : AnswersAt(answers, took, at)
Answered == \A g \in Guests : AnswersOf(guest[g].answers, guest[g].took)

\* The frame after which a connection may be idle.
Initialized(took) == \E i \in DOMAIN took : took[i][1].method = "initialize" /\ took[i][2]

GuestInv ==
    /\ GuestsTyped
    /\ OpenIsWelcome
    /\ Answered
    /\ IdleAfterInitialize
    /\ SlotsCounted

-----------------------------------------------------------------------------
LEMMA AnsweredMeans == Answered <=> AnswersMatch
  BY DEF Answered, AnswersOf, AnswersAt, AnswersMatch, Asks, Quiet

\* Nothing answers nothing.
LEMMA NothingAnswered == AnswersOf(<<>>, <<>>)
  <1> DEFINE at == [i \in {} |-> 0]
  <1>1. DOMAIN <<>> = {}
    OBVIOUS
  <1>2. AnswersAt(<<>>, <<>>, at)
    BY <1>1 DEF AnswersAt
  <1> QED
    BY <1>2 DEF AnswersOf

\* A frame that is not answered.
LEMMA QuietFrame ==
  ASSUME NEW S, NEW T, NEW answers \in Seq(S), NEW took \in Seq(T), NEW t \in T,
         AnswersOf(answers, took), Quiet(t)
  PROVE  AnswersOf(answers, Append(took, t))
  <1> DEFINE more == Append(took, t)
  <1>1. PICK at : AnswersAt(answers, took, at)
    BY DEF AnswersOf
  <1>2. /\ DOMAIN took = 1..Len(took) /\ DOMAIN more = 1..Len(took) + 1 /\ Len(took) \in Nat
        /\ more[Len(took) + 1] = t /\ \A n \in 1..Len(took) : more[n] = took[n]
    OBVIOUS
  <1> HIDE DEF more
  <1>3. at \in [DOMAIN answers -> DOMAIN more]
    BY <1>1, <1>2 DEF AnswersAt
  <1>4. \A n \in DOMAIN more : ~Quiet(more[n]) <=> \E i \in DOMAIN answers : at[i] = n
    <2> SUFFICES ASSUME NEW n \in DOMAIN more PROVE ~Quiet(more[n]) <=> \E i \in DOMAIN answers : at[i] = n
      OBVIOUS
    <2>1. CASE n \in DOMAIN took
      BY <2>1, <1>1, <1>2 DEF AnswersAt
    <2>2. CASE n = Len(took) + 1
      <3>1. \A i \in DOMAIN answers : at[i] # n
        BY <2>2, <1>1, <1>2 DEF AnswersAt
      <3> QED
        BY <2>2, <3>1, <1>2
    <2> QED
      BY <2>1, <2>2, <1>2
  <1>5. \A i \in DOMAIN answers : answers[i].id = IF Asks(more[at[i]]) THEN more[at[i]][1].id ELSE 0
    BY <1>1, <1>2 DEF AnswersAt
  <1>6. AnswersAt(answers, more, at)
    BY <1>1, <1>3, <1>4, <1>5 DEF AnswersAt
  <1> QED
    BY <1>6 DEF AnswersOf, more

\* A frame that is answered, with the identity it asks for.
LEMMA FrameAnswered ==
  ASSUME NEW S, NEW T, NEW answers \in Seq(S), NEW took \in Seq(T), NEW t \in T, NEW a \in S,
         AnswersOf(answers, took), ~Quiet(t), a.id = IF Asks(t) THEN t[1].id ELSE 0
  PROVE  AnswersOf(Append(answers, a), Append(took, t))
  <1> DEFINE more == Append(took, t)
             all == Append(answers, a)
  <1>1. PICK at : AnswersAt(answers, took, at)
    BY DEF AnswersOf
  <1>2. /\ DOMAIN took = 1..Len(took) /\ DOMAIN more = 1..Len(took) + 1 /\ Len(took) \in Nat
        /\ more[Len(took) + 1] = t /\ \A n \in 1..Len(took) : more[n] = took[n]
    OBVIOUS
  <1>3. /\ DOMAIN answers = 1..Len(answers) /\ DOMAIN all = 1..Len(answers) + 1 /\ Len(answers) \in Nat
        /\ all[Len(answers) + 1] = a /\ \A i \in 1..Len(answers) : all[i] = answers[i]
    OBVIOUS
  <1> DEFINE new == [i \in DOMAIN all |-> IF i \in DOMAIN answers THEN at[i] ELSE Len(took) + 1]
  <1> HIDE DEF more, all
  <1>4. /\ \A i \in DOMAIN answers : new[i] = at[i] /\ at[i] \in 1..Len(took)
        /\ new[Len(answers) + 1] = Len(took) + 1
    BY <1>1, <1>2, <1>3 DEF AnswersAt
  <1>5. new \in [DOMAIN all -> DOMAIN more]
    <2>1. \A i \in DOMAIN all : (IF i \in DOMAIN answers THEN at[i] ELSE Len(took) + 1) \in DOMAIN more
      <3> SUFFICES ASSUME NEW i \in DOMAIN all PROVE (IF i \in DOMAIN answers THEN at[i] ELSE Len(took) + 1) \in DOMAIN more
        OBVIOUS
      <3>1. CASE i \in DOMAIN answers
        <4>1. at[i] \in DOMAIN took
          BY <3>1, <1>1 DEF AnswersAt
        <4> QED
          BY <4>1, <3>1, <1>2
      <3>2. CASE i \notin DOMAIN answers
        BY <3>2, <1>2
      <3> QED
        BY <3>1, <3>2
    <2> QED
      BY <2>1
  <1> HIDE DEF new
  <1>6. \A i, j \in DOMAIN all : i < j => new[i] < new[j]
    <2> SUFFICES ASSUME NEW i \in DOMAIN all, NEW j \in DOMAIN all, i < j PROVE new[i] < new[j]
      OBVIOUS
    <2>1. i \in DOMAIN answers
      BY <1>3
    <2>2. CASE j \in DOMAIN answers
      BY <2>1, <2>2, <1>1, <1>4 DEF AnswersAt
    <2>3. CASE j = Len(answers) + 1
      BY <2>1, <2>3, <1>2, <1>4
    <2> QED
      BY <2>2, <2>3, <1>3
  <1>7. \A n \in DOMAIN more : ~Quiet(more[n]) <=> \E i \in DOMAIN all : new[i] = n
    <2> SUFFICES ASSUME NEW n \in DOMAIN more PROVE ~Quiet(more[n]) <=> \E i \in DOMAIN all : new[i] = n
      OBVIOUS
    <2>1. CASE n \in DOMAIN took
      <3>1. ~Quiet(took[n]) <=> \E i \in DOMAIN answers : at[i] = n
        BY <2>1, <1>1 DEF AnswersAt
      <3>2. (\E i \in DOMAIN answers : at[i] = n) <=> (\E i \in DOMAIN all : new[i] = n)
        <4>1. n # Len(took) + 1
          BY <2>1, <1>2
        <4>2. \A i \in DOMAIN all : i \in DOMAIN answers \/ i = Len(answers) + 1
          BY <1>3
        <4>3. \A i \in DOMAIN answers : i \in DOMAIN all
          BY <1>3
        <4> QED
          BY <4>1, <4>2, <4>3, <1>4
      <3>3. more[n] = took[n]
        BY <2>1, <1>2
      <3> QED
        BY <3>1, <3>2, <3>3
    <2>2. CASE n = Len(took) + 1
      BY <2>2, <1>2, <1>3, <1>4
    <2> QED
      BY <2>1, <2>2, <1>2
  <1>8. \A i \in DOMAIN all : all[i].id = IF Asks(more[new[i]]) THEN more[new[i]][1].id ELSE 0
    <2> SUFFICES ASSUME NEW i \in DOMAIN all PROVE all[i].id = IF Asks(more[new[i]]) THEN more[new[i]][1].id ELSE 0
      OBVIOUS
    <2>1. CASE i \in DOMAIN answers
      <3>1. all[i] = answers[i] /\ new[i] = at[i] /\ more[at[i]] = took[at[i]]
        BY <2>1, <1>2, <1>3, <1>4
      <3>2. answers[i].id = IF Asks(took[at[i]]) THEN took[at[i]][1].id ELSE 0
        BY <2>1, <1>1 DEF AnswersAt
      <3> QED
        BY <3>1, <3>2
    <2>2. CASE i = Len(answers) + 1
      <3>1. all[i] = a /\ more[new[i]] = t
        BY <2>2, <1>2, <1>3, <1>4
      <3> QED
        BY <3>1
    <2> QED
      BY <2>1, <2>2, <1>3
  <1>9. AnswersAt(all, more, new)
    BY <1>5, <1>6, <1>7, <1>8 DEF AnswersAt
  <1> QED
    BY <1>9 DEF AnswersOf, more, all

\* What the shapes of a message come down to.
LEMMA RequestShape ==
  ASSUME NEW f, NEW ok, f.kind = "text"
  PROVE  (DecodeMessage(f) = "request") <=> Asks(<<f, ok>>)
  BY DEF DecodeMessage, Asks

LEMMA NotificationShape ==
  ASSUME NEW f, NEW ok, f.kind = "text"
  PROVE  (DecodeMessage(f) = "notification") <=> Quiet(<<f, ok>>)
  BY DEF DecodeMessage, Quiet

\* The answer of a frame: none to a quiet one, its own id to a request, no id to the rest.
LEMMA AnswerOfFrame ==
  ASSUME NEW f \in Frames, NEW ok \in BOOLEAN
  PROVE  /\ Quiet(<<f, ok>>) <=> ProcessFrame(f, ok) = NoAnswer
         /\ ProcessFrame(f, ok) # NoAnswer =>
              /\ ProcessFrame(f, ok) \in AnswerKinds
              /\ ProcessFrame(f, ok).id = IF Asks(<<f, ok>>) THEN f.id ELSE 0
         /\ ShouldPersist(f, ProcessFrame(f, ok)) => f.method = "initialize" /\ ok
  <1> DEFINE t == <<f, ok>>
  <1>1. t[1] = f /\ t[2] = ok
    OBVIOUS
  <1>2. CASE f.kind = "text" /\ DecodeMessage(f) = "request"
    <2>1. Asks(t) /\ ~Quiet(t)
      BY <1>2, RequestShape, NotificationShape
    <2>2. ProcessFrame(f, ok) = [kind |-> IF ok THEN "response" ELSE "error", id |-> f.id]
      BY <1>2 DEF ProcessFrame, ProcessText
    <2> QED
      BY <1>2, <2>1, <2>2 DEF NoAnswer, AnswerKinds, ShouldPersist
  <1>3. CASE f.kind = "text" /\ DecodeMessage(f) = "notification"
    <2>1. Quiet(t)
      BY <1>3, NotificationShape
    <2>2. ProcessFrame(f, ok) = NoAnswer
      BY <1>3 DEF ProcessFrame, ProcessText
    <2> QED
      BY <1>3, <2>1, <2>2 DEF ShouldPersist
  <1>4. CASE f.kind = "text" /\ DecodeMessage(f) \notin {"request", "notification"}
    <2>1. ~Asks(t) /\ ~Quiet(t)
      BY <1>4, RequestShape, NotificationShape
    <2>2. ProcessFrame(f, ok) = ErrorWithoutId
      BY <1>4 DEF ProcessFrame, ProcessText
    <2> QED
      BY <1>4, <2>1, <2>2 DEF NoAnswer, ErrorWithoutId, AnswerKinds, ShouldPersist
  <1>5. CASE f.kind = "binary"
    <2>1. ~Asks(t) /\ ~Quiet(t)
      BY <1>5 DEF Asks, Quiet
    <2>2. ProcessFrame(f, ok) = ErrorWithoutId
      BY <1>5 DEF ProcessFrame
    <2> QED
      BY <1>5, <2>1, <2>2 DEF NoAnswer, ErrorWithoutId, AnswerKinds, ShouldPersist
  <1>6. CASE f.kind \in {"ping", "pong", "close"}
    <2>1. Quiet(t)
      BY <1>6 DEF Quiet
    <2>2. ProcessFrame(f, ok) = NoAnswer
      BY <1>6 DEF ProcessFrame
    <2> QED
      BY <1>6, <2>1, <2>2 DEF ShouldPersist
  <1> QED
    BY <1>2, <1>3, <1>4, <1>5, <1>6, FrameKinds

LEMMA SlotsAreFinite == IsFiniteSet({g \in Guests : Alive(g)}) /\ Cardinality({g \in Guests : Alive(g)}) \in Nat
  BY SomeRoom, FS_Subset, FS_CardinalityType

LEMMA GuestsStart == LinkInit => GuestInv
  <1> SUFFICES ASSUME LinkInit PROVE GuestInv
    OBVIOUS
  <1> USE DEF LinkInit
  <1>1. NewGuest \in Guestbook /\ NewGuest.life = "none" /\ NewGuest.took = <<>> /\ NewGuest.answers = <<>> /\ NewGuest.armed
    BY DEF NewGuest, Guestbook
  <1>2. GuestsTyped /\ OpenIsWelcome
    BY <1>1 DEF GuestsTyped, OpenIsWelcome
  <1>3. Answered
    BY <1>1, NothingAnswered DEF Answered
  <1>4. IdleAfterInitialize
    BY <1>1 DEF IdleAfterInitialize
  <1>5. SlotsCounted
    <2>1. {g \in Guests : Alive(g)} = {}
      BY <1>1 DEF Alive
    <2> QED
      BY <2>1, FS_EmptySet, SomeRoom DEF SlotsCounted
  <1> QED
    BY <1>2, <1>3, <1>4, <1>5 DEF GuestInv

-----------------------------------------------------------------------------
\* A connection of g that is new or over: nobody else is touched.
LEMMA QuietGuest ==
  ASSUME GuestInv, NEW g \in Guests, NEW r \in Guestbook, guest' = [guest EXCEPT ![g] = r], SlotsCounted',
         slots' \in Nat, r.took = <<>>, r.answers = <<>>, r.armed,
         r.life = "open" => r.path = "rpc" /\ r.token = "right"
  PROVE  GuestInv'
  <1>0. guest'[g] = r /\ \A h \in Guests \ {g} : guest'[h] = guest[h]
    BY DEF GuestInv, GuestsTyped
  <1>1. GuestsTyped'
    BY DEF GuestInv, GuestsTyped
  <1>2. OpenIsWelcome'
    BY <1>0 DEF GuestInv, OpenIsWelcome, OnRequest
  <1>3. Answered'
    BY <1>0, NothingAnswered DEF GuestInv, Answered
  <1>4. IdleAfterInitialize'
    BY <1>0 DEF GuestInv, IdleAfterInitialize
  <1> QED
    BY <1>1, <1>2, <1>3, <1>4 DEF GuestInv

\* A live connection more, the same, or one less.
LEMMA CountsAlive ==
  ASSUME GuestInv, NEW g \in Guests, \A h \in Guests \ {g} : Alive(h)' <=> Alive(h)
  PROVE  LET n == Cardinality({h \in Guests : Alive(h)})
             m == Cardinality({h \in Guests : Alive(h)'})
         IN /\ (Alive(g) <=> Alive(g)') => m = n
            /\ ~Alive(g) /\ Alive(g)' => m = n + 1
            /\ Alive(g) /\ ~Alive(g)' => m = n - 1
  <1> DEFINE A == {h \in Guests : Alive(h)}
             B == {h \in Guests : Alive(h)'}
  <1>1. IsFiniteSet(A) /\ Cardinality(A) \in Nat
    BY SlotsAreFinite
  <1>2. CASE Alive(g) <=> Alive(g)'
    <2>1. A = B
      BY <1>2
    <2> QED
      BY <2>1, <1>1, <1>2
  <1>3. CASE ~Alive(g) /\ Alive(g)'
    <2>1. B = A \union {g} /\ g \notin A
      BY <1>3
    <2> HIDE DEF A, B
    <2>2. Cardinality(B) = Cardinality(A) + 1
      BY <2>1, <1>1, FS_AddElement
    <2> QED
      BY <2>2, <1>1, <1>3 DEF A, B
  <1>4. CASE Alive(g) /\ ~Alive(g)'
    <2>1. B = A \ {g} /\ g \in A
      BY <1>4
    <2> HIDE DEF A, B
    <2>2. Cardinality(B) = Cardinality(A) - 1
      BY <2>1, <1>1, FS_RemoveElement
    <2> QED
      BY <2>2, <1>1, <1>4 DEF A, B
  <1> QED
    BY <1>2, <1>3, <1>4

LEMMA AcceptKeeps ==
  ASSUME GuestInv, NEW g \in Guests, NEW route \in {"rpc", "other"}, NEW token \in {"right", "wrong", "none"},
         AcceptGuest(g, route, token)
  PROVE  GuestInv'
  <1> DEFINE r == IF slots >= MaxGuests THEN [guest[g] EXCEPT !.life = "gone"]
                  ELSE [guest[g] EXCEPT !.life = "handshake", !.path = route, !.token = token]
             n == Cardinality({h \in Guests : Alive(h)})
  <1>0. guest[g] \in Guestbook /\ guest[g].life = "none" /\ guest[g].took = <<>> /\ guest[g].answers = <<>> /\ guest[g].armed
    BY DEF AcceptGuest, GuestInv, GuestsTyped, OpenIsWelcome
  <1>1. guest' = [guest EXCEPT ![g] = r]
    BY DEF AcceptGuest
  <1>2. r \in Guestbook /\ r.took = <<>> /\ r.answers = <<>> /\ r.armed /\ r.life # "open"
        /\ (r.life = "handshake" <=> ~(slots >= MaxGuests))
    BY <1>0 DEF Guestbook
  <1> HIDE DEF r
  <1>3. guest'[g] = r /\ \A h \in Guests \ {g} : guest'[h] = guest[h]
    BY <1>1 DEF GuestInv, GuestsTyped
  <1>4. slots = n /\ n \in Nat /\ n <= MaxGuests /\ refused \subseteq {MaxGuests} /\ MaxGuests \in Nat
    BY SlotsAreFinite, SomeRoom DEF GuestInv, SlotsCounted
  <1>5. ~Alive(g) /\ \A h \in Guests \ {g} : Alive(h)' <=> Alive(h)
    BY <1>0, <1>3 DEF Alive
  <1>6. slots' \in Nat /\ SlotsCounted'
    <2>1. CASE slots >= MaxGuests
      <3>1. slots' = slots /\ refused' = refused \union {n}
        BY <2>1 DEF AcceptGuest
      <3>2. n = MaxGuests
        BY <2>1, <1>4
      <3>3. ~Alive(g)'
        BY <2>1, <1>2, <1>3 DEF Alive, Guestbook
      <3>4. Cardinality({h \in Guests : Alive(h)'}) = n
        BY <3>3, <1>5, CountsAlive
      <3> QED
        BY <3>1, <3>2, <3>4, <1>4 DEF SlotsCounted, Alive
    <2>2. CASE ~(slots >= MaxGuests)
      <3>1. slots' = slots + 1 /\ refused' = refused
        BY <2>2 DEF AcceptGuest
      <3>3. Alive(g)'
        BY <2>2, <1>2, <1>3 DEF Alive
      <3>4. Cardinality({h \in Guests : Alive(h)'}) = n + 1
        BY <3>3, <1>5, CountsAlive
      <3> QED
        BY <2>2, <3>1, <3>4, <1>4 DEF SlotsCounted, Alive
    <2> QED
      BY <2>1, <2>2
  <1> QED
    BY <1>1, <1>2, <1>6, QuietGuest

LEMMA EndsKeeps == ASSUME GuestInv, NEW g \in Guests, Alive(g), Ends(g), UNCHANGED refused PROVE GuestInv'
  <1> DEFINE r == [NewGuest EXCEPT !.life = "gone"]
             n == Cardinality({h \in Guests : Alive(h)})
  <1>1. guest' = [guest EXCEPT ![g] = r] /\ slots' = slots - 1
    BY DEF Ends
  <1>2. r \in Guestbook /\ r.took = <<>> /\ r.answers = <<>> /\ r.armed /\ r.life = "gone"
    <2>1. r.life = "gone" /\ r.path = "none" /\ r.token = "none" /\ r.armed = TRUE /\ r.answers = <<>> /\ r.took = <<>>
      BY DEF NewGuest
    <2>2. NewGuest \in Guestbook
      BY DEF NewGuest, Guestbook
    <2>3. r \in Guestbook
      BY <2>2 DEF Guestbook
    <2> QED
      BY <2>1, <2>3
  <1> HIDE DEF r
  <1>3. guest'[g] = r /\ \A h \in Guests \ {g} : guest'[h] = guest[h]
    BY <1>1 DEF GuestInv, GuestsTyped
  <1>4. slots = n /\ n \in Nat /\ n <= MaxGuests /\ refused \subseteq {MaxGuests} /\ MaxGuests \in Nat
    BY SlotsAreFinite, SomeRoom DEF GuestInv, SlotsCounted
  <1>5. ~Alive(g)' /\ \A h \in Guests \ {g} : Alive(h)' <=> Alive(h)
    BY <1>2, <1>3 DEF Alive
  <1>6. Cardinality({h \in Guests : Alive(h)'}) = n - 1
    BY <1>5, CountsAlive
  <1>7. n > 0
    <2>1. {h \in Guests : Alive(h)} # {}
      OBVIOUS
    <2> QED
      BY <2>1, SlotsAreFinite, FS_EmptySet, <1>4
  <1>8. slots' \in Nat /\ SlotsCounted'
    BY <1>1, <1>4, <1>6, <1>7 DEF SlotsCounted, Alive
  <1> QED
    BY <1>1, <1>2, <1>8, QuietGuest

LEMMA HandshakeKeeps == ASSUME GuestInv, NEW g \in Guests, Handshake(g) PROVE GuestInv'
  <1>1. CASE OnRequest(g) # "welcome"
    BY <1>1, EndsKeeps DEF Handshake, Alive
  <1>2. CASE OnRequest(g) = "welcome"
    <2> DEFINE r == [guest[g] EXCEPT !.life = "open"]
    <2>0. guest[g] \in Guestbook /\ guest[g].life = "handshake" /\ guest[g].took = <<>> /\ guest[g].answers = <<>>
          /\ guest[g].armed /\ guest[g].path = "rpc" /\ guest[g].token = "right"
      BY <1>2 DEF Handshake, GuestInv, GuestsTyped, OpenIsWelcome, OnRequest
    <2>1. guest' = [guest EXCEPT ![g] = r] /\ UNCHANGED <<slots, refused>>
      BY <1>2 DEF Handshake
    <2>2. r \in Guestbook /\ r.took = <<>> /\ r.answers = <<>> /\ r.armed /\ r.life = "open" /\ r.path = "rpc" /\ r.token = "right"
      BY <2>0 DEF Guestbook
    <2> HIDE DEF r
    <2>3. \A h \in Guests : Alive(h)' <=> Alive(h)
      BY <2>0, <2>1, <2>2 DEF Alive, GuestInv, GuestsTyped
    <2>4. {h \in Guests : Alive(h)}' = {h \in Guests : Alive(h)}
      BY <2>3
    <2>5. slots' \in Nat /\ SlotsCounted'
      BY <2>1, <2>4 DEF SlotsCounted, GuestInv, GuestsTyped
    <2> QED
      BY <2>1, <2>2, <2>5, QuietGuest
  <1> QED
    BY <1>1, <1>2

LEMMA TakeFrameKeeps ==
  ASSUME GuestInv, NEW g \in Guests, NEW f \in Frames, NEW ok \in BOOLEAN, TakeFrame(g, f, ok)
  PROVE  GuestInv'
  <1> DEFINE answer == ProcessFrame(f, ok)
             t == <<f, ok>>
             took == Append(guest[g].took, t)
             answers == IF answer = NoAnswer THEN guest[g].answers ELSE Append(guest[g].answers, answer)
             armed == ObserveMessage(guest[g].armed, f, answer)
             r == [guest[g] EXCEPT !.took = took, !.armed = armed, !.answers = answers]
  <1>0. guest[g] \in Guestbook /\ guest[g].life = "open"
    BY DEF TakeFrame, GuestInv, GuestsTyped
  <1>t. t \in Frames \X BOOLEAN /\ t[1] = f /\ t[2] = ok
    OBVIOUS
  <1>1. guest' = [guest EXCEPT ![g] = r] /\ UNCHANGED <<slots, refused>>
    BY <1>0 DEF TakeFrame, GuestInv, GuestsTyped, Guestbook
  <1>2. took \in Seq(Frames \X BOOLEAN) /\ guest[g].took \in Seq(Frames \X BOOLEAN) /\ guest[g].answers \in Seq(AnswerKinds)
    BY <1>0, <1>t DEF Guestbook
  <1>3. answers \in Seq(AnswerKinds) /\ AnswersOf(answers, took)
    <2>0. AnswersOf(guest[g].answers, guest[g].took)
      BY DEF GuestInv, Answered
    <2>1. CASE answer = NoAnswer
      <3>1. Quiet(t)
        BY <2>1, AnswerOfFrame
      <3> HIDE DEF t, answer
      <3> QED
        BY <2>0, <2>1, <3>1, <1>2, <1>t, QuietFrame
    <2>2. CASE answer # NoAnswer
      <3>1. ~Quiet(t) /\ answer \in AnswerKinds /\ answer.id = IF Asks(t) THEN t[1].id ELSE 0
        BY <2>2, <1>t, AnswerOfFrame
      <3> HIDE DEF t, answer
      <3> QED
        BY <2>0, <2>2, <3>1, <1>2, <1>t, FrameAnswered
    <2> QED
      BY <2>1, <2>2
  <1>4. armed \in BOOLEAN /\ (armed => guest[g].armed) /\ (guest[g].armed /\ ~armed => f.method = "initialize" /\ ok)
    <2>1. guest[g].armed \in BOOLEAN
      BY <1>0 DEF Guestbook
    <2> QED
      BY <2>1, AnswerOfFrame DEF ObserveMessage
  <1> HIDE DEF took, answers, armed, answer, t
  <1>5. r \in Guestbook /\ r.life = "open" /\ r.path = guest[g].path /\ r.token = guest[g].token
        /\ r.took = took /\ r.answers = answers /\ (r.armed <=> armed)
    BY <1>0, <1>2, <1>3, <1>4 DEF Guestbook
  <1> HIDE DEF r
  <1>6. guest'[g] = r /\ \A h \in Guests \ {g} : guest'[h] = guest[h]
    BY <1>1 DEF GuestInv, GuestsTyped
  <1>7. GuestsTyped'
    BY <1>1, <1>5 DEF GuestInv, GuestsTyped
  <1>8. OpenIsWelcome'
    BY <1>0, <1>5, <1>6 DEF GuestInv, OpenIsWelcome, OnRequest
  <1>9. Answered'
    BY <1>3, <1>5, <1>6 DEF GuestInv, Answered
  <1>10. IdleAfterInitialize'
    <2> SUFFICES ASSUME ~r.armed PROVE \E i \in DOMAIN r.took : r.took[i][1].method = "initialize" /\ r.took[i][2]
      BY <1>6 DEF GuestInv, IdleAfterInitialize
    <2> DEFINE old == guest[g].took
    <2>1. /\ DOMAIN took = 1..Len(old) + 1 /\ took[Len(old) + 1] = t
          /\ DOMAIN old = 1..Len(old) /\ Len(old) \in Nat /\ \A i \in DOMAIN old : took[i] = old[i]
      BY <1>2 DEF took
    <2>2. CASE guest[g].armed
      BY <2>1, <2>2, <1>4, <1>5, <1>t
    <2>3. CASE ~guest[g].armed
      <3>1. PICK i \in DOMAIN old : old[i][1].method = "initialize" /\ old[i][2]
        BY <2>3 DEF GuestInv, IdleAfterInitialize
      <3> QED
        BY <3>1, <2>1, <1>5
    <2> QED
      BY <2>2, <2>3
  <1>11. SlotsCounted'
    <2>1. \A h \in Guests : Alive(h)' <=> Alive(h)
      BY <1>0, <1>5, <1>6 DEF Alive
    <2>2. {h \in Guests : Alive(h)}' = {h \in Guests : Alive(h)}
      BY <2>1
    <2> QED
      BY <1>1, <2>2 DEF SlotsCounted, GuestInv
  <1> QED
    BY <1>7, <1>8, <1>9, <1>10, <1>11 DEF GuestInv

LEMMA GuestStepKeeps == GuestInv /\ GuestNext => GuestInv'
  <1> SUFFICES ASSUME GuestInv, NEW g \in Guests,
                      \/ \E route \in {"rpc", "other"}, token \in {"right", "wrong", "none"} : AcceptGuest(g, route, token)
                      \/ Handshake(g) \/ GuestGone(g) \/ TimesOut(g)
                      \/ \E f \in Frames, ok \in BOOLEAN : TakeFrame(g, f, ok)
               PROVE  GuestInv'
    BY DEF GuestNext
  <1>1. CASE \E route \in {"rpc", "other"}, token \in {"right", "wrong", "none"} : AcceptGuest(g, route, token)
    BY <1>1, AcceptKeeps
  <1>2. CASE Handshake(g)
    BY <1>2, HandshakeKeeps
  <1>3. CASE GuestGone(g) \/ TimesOut(g)
    BY <1>3, EndsKeeps DEF GuestGone, TimesOut, Alive
  <1>4. CASE \E f \in Frames, ok \in BOOLEAN : TakeFrame(g, f, ok)
    BY <1>4, TakeFrameKeeps
  <1> QED
    BY <1>1, <1>2, <1>3, <1>4

(***************************************************************************)
(* The task that serves both listeners.                                    *)
(***************************************************************************)
ServeInv ==
    /\ local \in {"binding", "top", "accepting", "ok", "failed"}
    /\ remote \in {"serving", "erring", "ok", "failed", "panicked"}
    /\ WokenToStop
    /\ served = "remoteFirst" => RemoteOver
    /\ served = "localFirst" => LocalOver
    /\ BothEnd

LEMMA ServeStarts == LinkInit => ServeInv
  BY DEF LinkInit, ServeInv, WokenToStop, BothEnd, RemoteOver, LocalOver

LEMMA ServeStepKeeps == ASSUME ServeInv, ServeNext \/ UNCHANGED serveVars PROVE ServeInv'
  <1> USE DEF ServeInv, WokenToStop, BothEnd, RemoteOver, LocalOver
  <1>1. CASE UNCHANGED serveVars
    BY <1>1 DEF serveVars
  <1>2. CASE StopRequested
    BY <1>2 DEF StopRequested, Flag
  <1>3. CASE LocalTurn
    BY <1>3 DEF LocalTurn
  <1>4. CASE LocalDial
    BY <1>4 DEF LocalDial
  <1>5. CASE RemoteTurn
    BY <1>5 DEF RemoteTurn, Flag
  <1>6. CASE SelectFirst
    BY <1>6 DEF SelectFirst, Flag
  <1>7. CASE FinalizeRemoteFirst
    BY <1>7 DEF FinalizeRemoteFirst, LocalResult
  <1>8. CASE FinalizeLocalFirst
    BY <1>8 DEF FinalizeLocalFirst
  <1>9. CASE \E who \in wakers : WakeLocal(who)
    BY <1>9 DEF WakeLocal
  <1> QED
    BY <1>1, <1>2, <1>3, <1>4, <1>5, <1>6, <1>7, <1>8, <1>9 DEF ServeNext

LinkInv == GuestInv /\ ServeInv

LEMMA LinkStepKeeps == LinkInv /\ [LinkNext]_linkVars => LinkInv'
  <1> SUFFICES ASSUME LinkInv, [LinkNext]_linkVars PROVE LinkInv'
    OBVIOUS
  <1>1. CASE GuestNext
    <2>1. UNCHANGED serveVars
      BY <1>1 DEF GuestNext, AcceptGuest, Handshake, GuestGone, TimesOut, TakeFrame
    <2> QED
      BY <1>1, <2>1, GuestStepKeeps, ServeStepKeeps DEF LinkInv
  <1>2. CASE UNCHANGED guestVars /\ (ServeNext \/ UNCHANGED serveVars)
    <2>1. GuestInv'
      BY <1>2 DEF LinkInv, guestVars, GuestInv, GuestsTyped, OpenIsWelcome, OnRequest, Answered, IdleAfterInitialize, SlotsCounted, Alive
    <2> QED
      BY <1>2, <2>1, ServeStepKeeps DEF LinkInv
  <1>3. ServeNext => UNCHANGED guestVars
    BY DEF ServeNext, StopRequested, LocalTurn, LocalDial, RemoteTurn, SelectFirst, FinalizeRemoteFirst, FinalizeLocalFirst, WakeLocal
  <1> QED
    BY <1>1, <1>2, <1>3 DEF LinkNext, linkVars

THEOREM LinkInvariant == LinkSpec => []LinkInv
  BY GuestsStart, ServeStarts, LinkStepKeeps, PTL DEF LinkSpec, LinkInv

\* Nobody is served without the token, every request is answered once and in order, no slot is lost,
\* and the local listener is woken when the daemon ends: RemoteSound, for any peers and frames.
THEOREM LinkIsSound == LinkSpec => []RemoteSound
  <1>1. LinkInv => RemoteSound
    <2> SUFFICES ASSUME LinkInv PROVE RemoteSound
      OBVIOUS
    <2>1. OnlyWelcome
      BY DEF LinkInv, GuestInv, OpenIsWelcome, OnlyWelcome, OnRequest
    <2>2. AnswersMatch
      BY AnsweredMeans DEF LinkInv, GuestInv
    <2> QED
      BY <2>1, <2>2 DEF LinkInv, GuestInv, ServeInv, RemoteSound
  <1> QED
    BY <1>1, LinkInvariant, PTL

(***************************************************************************)
(* A queue to a client and the news in it.                                 *)
(***************************************************************************)
Message == [kind : {"none", "answer", "error", "news"}, record : Nat]
NewsIn(queue, n, at) == [i \in 1..n |-> queue[at[i]].record]
\* Behind a piece of news there is room for those after it.
Behind(queue, n, at) == \A i \in 1..n : Len(queue) - at[i] >= n - i
\* What is due is what was seen, the news in the queue and the feed.
Reaches(queue, owed, read, held) ==
    \E n \in 0..Len(queue) : \E at \in [1..n -> DOMAIN queue] :
        /\ NewsPlaces(queue, n, at) /\ Behind(queue, n, at)
        /\ owed = read \o NewsIn(queue, n, at) \o held
Quietly(queue) == \A p \in DOMAIN queue : queue[p].kind # "news"

\* Concatenation of records, as the provers need it stated.
LEMMA RecordsAssociate == \A s, t, u \in Seq(Nat) : (s \o t) \o u = s \o (t \o u)
  OBVIOUS
LEMMA AppendedRecord == \A s \in Seq(Nat) : \A e \in Nat : Append(s, e) = s \o <<e>>
  OBVIOUS
\* The head of a sequence may as well be the end of the one before it.
LEMMA HeadMovesLeft ==
  ASSUME NEW s \in Seq(Nat), NEW t \in Seq(Nat), NEW u \in Seq(Nat), u # <<>>
  PROVE  s \o (t \o <<Head(u)>>) \o Tail(u) = s \o t \o u
  <1> DEFINE h == <<Head(u)>>
             rest == Tail(u)
             st == s \o t
  <1>1. h \in Seq(Nat)
    OBVIOUS
  <1>2. rest \in Seq(Nat)
    OBVIOUS
  <1>3. st \in Seq(Nat)
    OBVIOUS
  <1>4. u = h \o rest
    OBVIOUS
  <1> HIDE DEF h, rest
  <1>5. st \o h = s \o (t \o h)
    BY <1>1, RecordsAssociate, Zenon
  <1> HIDE DEF st
  <1>6. (st \o h) \o rest = st \o (h \o rest)
    BY <1>1, <1>2, <1>3, RecordsAssociate, Zenon
  <1> QED
    BY <1>4, <1>5, <1>6 DEF h, rest, st
\* A sequence that is another with one more record behind it.
LEMMA OneMoreRecord ==
  ASSUME NEW s \in Seq(Nat), NEW t \in Seq(Nat), NEW e \in Nat,
         Len(t) = Len(s) + 1, \A i \in 1..Len(s) : t[i] = s[i], t[Len(s) + 1] = e
  PROVE  t = s \o <<e>>
  <1> DEFINE u == s \o <<e>>
  <1>1. u \in Seq(Nat) /\ Len(u) = Len(t) /\ \A i \in 1..Len(t) : u[i] = t[i]
    OBVIOUS
  <1> HIDE DEF u
  <1>2. u = t
    BY <1>1
  <1> QED
    BY <1>2 DEF u
\* A sequence that is another with one record before it.
LEMMA OneRecordBefore ==
  ASSUME NEW s \in Seq(Nat), NEW t \in Seq(Nat), NEW e \in Nat,
         Len(t) = Len(s) + 1, \A i \in 1..Len(s) : t[i + 1] = s[i], t[1] = e
  PROVE  t = <<e>> \o s
  <1> DEFINE u == <<e>> \o s
  <1>1. u \in Seq(Nat) /\ Len(u) = Len(t)
    OBVIOUS
  <1>2. ASSUME NEW i \in 1..Len(t)
        PROVE  u[i] = t[i]
    <2>1. CASE i = 1
      BY <2>1
    <2>2. CASE i # 1
      <3>1. i - 1 \in 1..Len(s) /\ i = (i - 1) + 1
        BY <2>2
      <3>2. u[i] = s[i - 1]
        BY <2>2
      <3> QED
        BY <3>1, <3>2
    <2> QED
      BY <2>1, <2>2
  <1> HIDE DEF u
  <1>3. u = t
    BY <1>1, <1>2
  <1> QED
    BY <1>3 DEF u

\* Reading the news of a queue is a sequence of records.
LEMMA NewsInIsASeq ==
  ASSUME NEW queue \in Seq(Message), NEW n \in 0..Len(queue), NEW at \in [1..n -> DOMAIN queue]
  PROVE  NewsIn(queue, n, at) \in Seq(Nat) /\ Len(NewsIn(queue, n, at)) = n
  <1>1. \A i \in 1..n : queue[at[i]] \in Message
    OBVIOUS
  <1>2. NewsIn(queue, n, at) \in [1..n -> Nat]
    BY <1>1 DEF NewsIn, Message
  <1>3. n \in Nat
    OBVIOUS
  <1> QED
    BY <1>2, <1>3

\* A queue without news reaches a subscriber that is due nothing.
LEMMA NothingIsDue ==
  ASSUME NEW queue \in Seq(Message), Quietly(queue)
  PROVE  Reaches(queue, <<>>, <<>>, <<>>)
  <1>1. 0 \in 0..Len(queue) /\ <<>> \in [1..0 -> DOMAIN queue]
    OBVIOUS
  <1>2. NewsPlaces(queue, 0, <<>>)
    BY DEF NewsPlaces, Quietly
  <1>3. NewsIn(queue, 0, <<>>) = <<>> /\ Behind(queue, 0, <<>>)
    BY DEF NewsIn, Behind
  <1>4. <<>> = <<>> \o <<>> \o <<>>
    OBVIOUS
  <1> QED
    BY <1>1, <1>2, <1>3, <1>4 DEF Reaches

\* An answer takes its place behind the news.
LEMMA AnswerKeepsNews ==
  ASSUME NEW queue \in Seq(Message), NEW message \in Message, message.kind # "news",
         NEW owed, NEW read, NEW held, Reaches(queue, owed, read, held)
  PROVE  Reaches(Append(queue, message), owed, read, held)
  <1> DEFINE longer == Append(queue, message)
  <1>1. PICK n \in 0..Len(queue) : \E at \in [1..n -> DOMAIN queue] :
            NewsPlaces(queue, n, at) /\ Behind(queue, n, at) /\ owed = read \o NewsIn(queue, n, at) \o held
    BY DEF Reaches
  <1>2. PICK at \in [1..n -> DOMAIN queue] :
            NewsPlaces(queue, n, at) /\ Behind(queue, n, at) /\ owed = read \o NewsIn(queue, n, at) \o held
    BY <1>1
  <1>3. /\ longer \in Seq(Message) /\ Len(longer) = Len(queue) + 1
        /\ DOMAIN longer = 1..(Len(queue) + 1) /\ DOMAIN queue = 1..Len(queue)
        /\ \A p \in DOMAIN queue : longer[p] = queue[p]
        /\ longer[Len(queue) + 1] = message
    OBVIOUS
  <1> HIDE DEF longer
  <1>4. n \in 0..Len(longer) /\ at \in [1..n -> DOMAIN longer]
    BY <1>3
  <1>5. NewsPlaces(longer, n, at)
    <2>1. \A i, j \in 1..n : i < j => at[i] < at[j]
      BY <1>2 DEF NewsPlaces
    <2>2. ASSUME NEW p \in DOMAIN longer
          PROVE  longer[p].kind = "news" <=> \E i \in 1..n : at[i] = p
      <3>1. CASE p \in DOMAIN queue
        BY <1>2, <1>3, <3>1 DEF NewsPlaces
      <3>2. CASE p = Len(queue) + 1
        BY <1>3, <3>2
      <3> QED
        BY <1>3, <3>1, <3>2
    <2> QED
      BY <2>1, <2>2 DEF NewsPlaces
  <1>6. NewsIn(longer, n, at) = NewsIn(queue, n, at)
    BY <1>3 DEF NewsIn
  <1>7. Behind(longer, n, at)
    BY <1>2, <1>3 DEF Behind
  <1> QED
    BY <1>2, <1>4, <1>5, <1>6, <1>7 DEF Reaches, longer

\* What a forwarder holds first goes to the end of the queue.
LEMMA ForwardKeepsNews ==
  ASSUME NEW queue \in Seq(Message), NEW owed \in Seq(Nat), NEW read \in Seq(Nat), NEW held \in Seq(Nat),
         held # <<>>, Reaches(queue, owed, read, held)
  PROVE  Reaches(Append(queue, [kind |-> "news", record |-> Head(held)]), owed, read, Tail(held))
  <1> DEFINE message == [kind |-> "news", record |-> Head(held)]
             longer == Append(queue, message)
  <1>1. PICK n \in 0..Len(queue) : \E at \in [1..n -> DOMAIN queue] :
            NewsPlaces(queue, n, at) /\ Behind(queue, n, at) /\ owed = read \o NewsIn(queue, n, at) \o held
    BY DEF Reaches
  <1>2. PICK at \in [1..n -> DOMAIN queue] :
            NewsPlaces(queue, n, at) /\ Behind(queue, n, at) /\ owed = read \o NewsIn(queue, n, at) \o held
    BY <1>1
  <1>0. Head(held) \in Nat /\ message \in Message /\ Tail(held) \in Seq(Nat) /\ message.kind = "news" /\ message.record = Head(held)
    BY DEF Message
  <1> HIDE DEF message
  <1>3. /\ longer \in Seq(Message) /\ Len(longer) = Len(queue) + 1
        /\ DOMAIN longer = 1..(Len(queue) + 1) /\ DOMAIN queue = 1..Len(queue)
        /\ \A p \in DOMAIN queue : longer[p] = queue[p]
        /\ longer[Len(queue) + 1] = message
    BY <1>0
  <1> HIDE DEF longer
  <1> DEFINE m == n + 1
             to == [i \in 1..m |-> IF i = m THEN Len(queue) + 1 ELSE at[i]]
  <1>4. m \in 0..Len(longer) /\ to \in [1..m -> DOMAIN longer]
    BY <1>3
  <1>5. NewsPlaces(longer, m, to)
    <2>1. ASSUME NEW i \in 1..m, NEW j \in 1..m, i < j
          PROVE  to[i] < to[j]
      <3>1. i \in 1..n /\ i # m /\ i \in 1..m /\ at[i] \in 1..Len(queue)
        BY <2>1, <1>3
      <3>4. to[i] = at[i]
        BY <3>1
      <3>2. CASE j = m
        BY <3>1, <3>2, <3>4, <1>3
      <3>3. CASE j # m
        BY <2>1, <3>1, <3>3, <3>4, <1>2 DEF NewsPlaces
      <3> QED
        BY <3>2, <3>3
    <2>2. ASSUME NEW p \in DOMAIN longer
          PROVE  longer[p].kind = "news" <=> \E i \in 1..m : to[i] = p
      <3>1. CASE p \in DOMAIN queue
        <4>1. longer[p].kind = "news" <=> \E i \in 1..n : at[i] = p
          BY <1>2, <1>3, <3>1 DEF NewsPlaces
        <4>2. \A i \in 1..n : i \in 1..m /\ to[i] = at[i]
          OBVIOUS
        <4>3. \A i \in 1..m : to[i] = p => i \in 1..n
          BY <1>3, <3>1
        <4> QED
          BY <4>1, <4>2, <4>3
      <3>2. CASE p = Len(queue) + 1
        <4>1. m \in 1..m /\ to[m] = p
          BY <3>2
        <4> QED
          BY <1>0, <1>3, <3>2, <4>1
      <3> QED
        BY <1>3, <3>1, <3>2
    <2> QED
      BY <2>1, <2>2 DEF NewsPlaces
  <1>6. NewsIn(longer, m, to) = NewsIn(queue, n, at) \o <<Head(held)>>
    <2>1. NewsIn(queue, n, at) \in Seq(Nat) /\ Len(NewsIn(queue, n, at)) = n
      BY NewsInIsASeq
    <2>2. NewsIn(longer, m, to) \in Seq(Nat) /\ Len(NewsIn(longer, m, to)) = m
      BY <1>3, <1>4, NewsInIsASeq
    <2>3. \A i \in 1..n : NewsIn(longer, m, to)[i] = NewsIn(queue, n, at)[i]
      BY <1>3 DEF NewsIn
    <2>4. NewsIn(longer, m, to)[m] = Head(held)
      BY <1>0, <1>3 DEF NewsIn
    <2> DEFINE x == NewsIn(queue, n, at)
               y == NewsIn(longer, m, to)
               e == Head(held)
    <2>5. /\ x \in Seq(Nat) /\ y \in Seq(Nat) /\ e \in Nat /\ Len(y) = Len(x) + 1
          /\ \A i \in 1..Len(x) : y[i] = x[i]
          /\ y[Len(x) + 1] = e
      BY <1>0, <2>1, <2>2, <2>3, <2>4
    <2> HIDE DEF x, y, e
    <2>6. y = x \o <<e>>
      BY <2>5, OneMoreRecord
    <2> QED
      BY <2>6 DEF x, y, e
  <1>8. read \o NewsIn(longer, m, to) \o Tail(held) = read \o NewsIn(queue, n, at) \o held
    <2> DEFINE x == NewsIn(queue, n, at)
    <2>1. x \in Seq(Nat)
      BY NewsInIsASeq
    <2> HIDE DEF x
    <2>2. read \o (x \o <<Head(held)>>) \o Tail(held) = read \o x \o held
      BY <2>1, HeadMovesLeft
    <2> QED
      BY <1>6, <2>2 DEF x
  <1>9. ASSUME NEW i \in 1..m
        PROVE  Len(longer) - to[i] >= m - i
    <2>1. CASE i = m
      BY <2>1, <1>3
    <2>2. CASE i # m
      <3>1. i \in 1..n /\ to[i] = at[i] /\ at[i] \in 1..Len(queue)
        BY <2>2, <1>3
      <3> QED
        BY <3>1, <1>2, <1>3 DEF Behind
    <2> QED
      BY <2>1, <2>2
  <1> HIDE DEF m, to
  <1> QED
    BY <1>2, <1>4, <1>5, <1>8, <1>9 DEF Reaches, Behind, longer, message

\* The client reads the first message of its queue.
LEMMA ReadKeepsNews ==
  ASSUME NEW queue \in Seq(Message), queue # <<>>,
         NEW owed \in Seq(Nat), NEW read \in Seq(Nat), NEW held \in Seq(Nat), Reaches(queue, owed, read, held)
  PROVE  Reaches(Tail(queue), owed, IF Head(queue).kind = "news" THEN Append(read, Head(queue).record) ELSE read, held)
  <1> DEFINE shorter == Tail(queue)
  <1>1. PICK n \in 0..Len(queue) : \E at \in [1..n -> DOMAIN queue] :
            NewsPlaces(queue, n, at) /\ Behind(queue, n, at) /\ owed = read \o NewsIn(queue, n, at) \o held
    BY DEF Reaches
  <1>2. PICK at \in [1..n -> DOMAIN queue] :
            NewsPlaces(queue, n, at) /\ Behind(queue, n, at) /\ owed = read \o NewsIn(queue, n, at) \o held
    BY <1>1
  <1>3. /\ shorter \in Seq(Message) /\ Len(shorter) = Len(queue) - 1 /\ Len(queue) \in Nat \ {0}
        /\ DOMAIN shorter = 1..(Len(queue) - 1) /\ DOMAIN queue = 1..Len(queue)
        /\ \A p \in DOMAIN shorter : shorter[p] = queue[p + 1]
        /\ Head(queue) = queue[1] /\ queue[1] \in Message
    OBVIOUS
  <1> HIDE DEF shorter
  <1>4. /\ \A i, j \in 1..n : i < j => at[i] < at[j]
        /\ \A p \in DOMAIN queue : queue[p].kind = "news" <=> \E i \in 1..n : at[i] = p
    BY <1>2 DEF NewsPlaces
  <1>5. CASE queue[1].kind = "news"
    <2>0. 1 \in DOMAIN queue
      BY <1>3
    <2>1. PICK i \in 1..n : at[i] = 1
      BY <2>0, <1>4, <1>5
    <2>2. i = 1 /\ n > 0
      <3>1. i # 1 => at[1] < 1 /\ at[1] \in 1..Len(queue)
        BY <1>3, <1>4, <2>1
      <3> QED
        BY <3>1
    <2> DEFINE m == n - 1
               to == [j \in 1..m |-> at[j + 1] - 1]
    <2>3. \A j \in 1..m : j + 1 \in 1..n /\ at[j + 1] > 1 /\ at[j + 1] \in 1..Len(queue)
      <3> TAKE j \in 1..m
      <3>1. j + 1 \in 1..n /\ 1 \in 1..n /\ 1 < j + 1
        BY <2>2
      <3>2. at[1] < at[j + 1]
        BY <1>4, <3>1
      <3> QED
        BY <3>1, <3>2, <2>1, <2>2, <1>3
    <2>4. m \in 0..Len(shorter) /\ to \in [1..m -> DOMAIN shorter]
      BY <1>3, <2>2, <2>3
    <2>5. NewsPlaces(shorter, m, to)
      <3>1. ASSUME NEW j \in 1..m, NEW l \in 1..m, j < l
            PROVE  to[j] < to[l]
        <4>1. at[j + 1] < at[l + 1]
          BY <1>4, <2>3, <3>1
        <4> QED
          BY <4>1, <2>3
      <3>2. ASSUME NEW p \in DOMAIN shorter
            PROVE  shorter[p].kind = "news" <=> \E j \in 1..m : to[j] = p
        <4>1. p + 1 \in DOMAIN queue /\ shorter[p] = queue[p + 1]
          BY <1>3
        <4>2. queue[p + 1].kind = "news" <=> \E j \in 1..n : at[j] = p + 1
          BY <1>4, <4>1
        <4>3. ASSUME NEW j \in 1..n, at[j] = p + 1
              PROVE  \E l \in 1..m : to[l] = p
          <5>1. j # 1
            BY <4>3, <2>1, <2>2, <1>3
          <5>2. j - 1 \in 1..m /\ to[j - 1] = p
            BY <5>1, <4>3, <1>3, <2>3
          <5> QED
            BY <5>2
        <4>4. ASSUME NEW l \in 1..m, to[l] = p
              PROVE  \E j \in 1..n : at[j] = p + 1
          <5>1. l + 1 \in 1..n /\ at[l + 1] = p + 1
            BY <4>4, <2>3, <1>3
          <5> QED
            BY <5>1
        <4> QED
          BY <4>1, <4>2, <4>3, <4>4
      <3> QED
        BY <3>1, <3>2 DEF NewsPlaces
    <2>6. NewsIn(queue, n, at) = <<queue[1].record>> \o NewsIn(shorter, m, to)
      <3>1. NewsIn(queue, n, at) \in Seq(Nat) /\ Len(NewsIn(queue, n, at)) = n
        BY NewsInIsASeq
      <3>2. NewsIn(shorter, m, to) \in Seq(Nat) /\ Len(NewsIn(shorter, m, to)) = m
        BY <1>3, <2>4, NewsInIsASeq
      <3>3. ASSUME NEW j \in 1..m
            PROVE  NewsIn(queue, n, at)[j + 1] = NewsIn(shorter, m, to)[j]
        <4>1. to[j] \in DOMAIN shorter /\ to[j] + 1 = at[j + 1] /\ j + 1 \in 1..n
          BY <2>3, <2>4, <1>3
        <4>2. shorter[to[j]] = queue[at[j + 1]]
          BY <4>1, <1>3
        <4> QED
          BY <4>1, <4>2 DEF NewsIn
      <3>4. NewsIn(queue, n, at)[1] = queue[1].record /\ queue[1].record \in Nat
        BY <1>3, <2>1, <2>2 DEF NewsIn, Message
      <3> HIDE DEF to
      <3> QED
        BY <2>2, <3>1, <3>2, <3>3, <3>4, OneRecordBefore
    <2>7. read \o NewsIn(queue, n, at) \o held = Append(read, queue[1].record) \o NewsIn(shorter, m, to) \o held
      <3> DEFINE x == NewsIn(shorter, m, to)
                 r == queue[1].record
      <3>1. x \in Seq(Nat) /\ r \in Nat /\ <<r>> \in Seq(Nat)
        <4>1. x \in Seq(Nat)
          BY <1>3, <2>4, NewsInIsASeq
        <4>2. r \in Nat
          BY <1>3 DEF Message
        <4> QED
          BY <4>1, <4>2
      <3> HIDE DEF x, r
      <3> DEFINE h == <<r>>
      <3>4. h \in Seq(Nat)
        BY <3>1
      <3> HIDE DEF h
      <3>5. read \o (h \o x) = (read \o h) \o x
        BY <3>1, <3>4, RecordsAssociate
      <3>2. read \o (<<r>> \o x) = (read \o <<r>>) \o x
        BY <3>5 DEF h
      <3>3. Append(read, r) = read \o <<r>>
        BY <3>1, AppendedRecord
      <3> QED
        BY <2>6, <3>2, <3>3 DEF x, r
    <2>9. Behind(shorter, m, to)
      <3>1. ASSUME NEW j \in 1..m
            PROVE  Len(shorter) - to[j] >= m - j
        <4>1. j + 1 \in 1..n /\ to[j] = at[j + 1] - 1 /\ at[j + 1] \in 1..Len(queue)
          BY <2>3
        <4>2. Len(queue) - at[j + 1] >= n - (j + 1)
          BY <4>1, <1>2 DEF Behind
        <4> QED
          BY <4>1, <4>2, <1>3
      <3> QED
        BY <3>1 DEF Behind
    <2> HIDE DEF m, to
    <2>8. owed = Append(read, queue[1].record) \o NewsIn(shorter, m, to) \o held
      BY <1>2, <2>7
    <2> QED
      BY <1>3, <1>5, <2>4, <2>5, <2>8, <2>9 DEF Reaches, shorter
  <1>6. CASE queue[1].kind # "news"
    <2>1. \A i \in 1..n : at[i] > 1 /\ at[i] \in 1..Len(queue)
      <3> TAKE i \in 1..n
      <3>1. at[i] \in 1..Len(queue) /\ at[i] # 1
        BY <1>3, <1>4, <1>6
      <3> QED
        BY <3>1
    <2> DEFINE to == [i \in 1..n |-> at[i] - 1]
    <2>2. to \in [1..n -> DOMAIN shorter]
      BY <1>3, <2>1
    <2>3. n \in 0..Len(shorter)
      <3>1. n > 0 => Len(queue) - at[1] >= n - 1 /\ at[1] > 1 /\ at[1] \in 1..Len(queue)
        BY <1>2, <2>1 DEF Behind
      <3> QED
        BY <3>1, <1>3
    <2>4. NewsPlaces(shorter, n, to)
      <3>1. \A i, j \in 1..n : i < j => to[i] < to[j]
        BY <1>4, <2>1
      <3>2. ASSUME NEW p \in DOMAIN shorter
            PROVE  shorter[p].kind = "news" <=> \E i \in 1..n : to[i] = p
        <4>1. p + 1 \in DOMAIN queue /\ shorter[p] = queue[p + 1] /\ p \in Nat
          BY <1>3
        <4>2. \A i \in 1..n : at[i] = p + 1 <=> to[i] = p
          BY <2>1, <4>1
        <4> QED
          BY <1>4, <4>1, <4>2
      <3> QED
        BY <3>1, <3>2 DEF NewsPlaces
    <2>5. Behind(shorter, n, to)
      BY <1>2, <1>3, <2>1 DEF Behind
    <2>6. NewsIn(shorter, n, to) = NewsIn(queue, n, at)
      <3>1. \A i \in 1..n : to[i] \in DOMAIN shorter /\ to[i] + 1 = at[i]
        BY <2>1, <2>2
      <3>2. \A i \in 1..n : shorter[to[i]] = queue[at[i]]
        BY <3>1, <1>3
      <3> QED
        BY <3>2 DEF NewsIn
    <2> HIDE DEF to
    <2> QED
      BY <1>2, <1>3, <1>6, <2>2, <2>3, <2>4, <2>5, <2>6 DEF Reaches, shorter
  <1> QED
    BY <1>5, <1>6

\* A record is published to a subscription that has room for it.
LEMMA PublishKeepsNews ==
  ASSUME NEW queue \in Seq(Message), NEW owed \in Seq(Nat), NEW read \in Seq(Nat), NEW held \in Seq(Nat),
         NEW record \in Nat, Reaches(queue, owed, read, held)
  PROVE  Reaches(queue, Append(owed, record), read, Append(held, record))
  <1>1. PICK n \in 0..Len(queue) : \E at \in [1..n -> DOMAIN queue] :
            NewsPlaces(queue, n, at) /\ Behind(queue, n, at) /\ owed = read \o NewsIn(queue, n, at) \o held
    BY DEF Reaches
  <1>2. PICK at \in [1..n -> DOMAIN queue] :
            NewsPlaces(queue, n, at) /\ Behind(queue, n, at) /\ owed = read \o NewsIn(queue, n, at) \o held
    BY <1>1
  <1> DEFINE x == NewsIn(queue, n, at)
             y == read \o x
             h == <<record>>
  <1>3. x \in Seq(Nat)
    BY NewsInIsASeq
  <1>4. h \in Seq(Nat)
    OBVIOUS
  <1> HIDE DEF x
  <1>5. y \in Seq(Nat)
    BY <1>3
  <1>6. Append(held, record) = held \o h /\ Append(owed, record) = owed \o h
    BY AppendedRecord
  <1> HIDE DEF y, h
  <1>7. (y \o held) \o h = y \o (held \o h)
    BY <1>4, <1>5, RecordsAssociate, Zenon
  <1>8. owed = y \o held
    BY <1>2 DEF x, y
  <1>9. Append(owed, record) = read \o NewsIn(queue, n, at) \o Append(held, record)
    BY <1>6, <1>7, <1>8 DEF x, y
  <1> QED
    BY <1>2, <1>9 DEF Reaches

(***************************************************************************)
(* The state of the host.                                                  *)
(***************************************************************************)
Lives == {"out", "waiting", "open", "over", "shut", "draining", "gone"}
Connection ==
    [life : Lives, remote : BOOLEAN, initialized : BOOLEAN, attached : BOOLEAN, subscribed : BOOLEAN,
     forwarding : BOOLEAN, armed : BOOLEAN]
HostTyped ==
    /\ conn \in [Peers -> Connection]
    /\ reply \in [Peers -> Message]
    /\ deferred \in [Peers -> Seq(Nat)]
    /\ outbound \in [Peers -> Seq(Message)]
    /\ feed \in [Peers -> Seq(Nat)] /\ due \in [Peers -> Seq(Nat)] /\ seen \in [Peers -> Seq(Nat)]
    /\ committed \in Nat
    /\ inFlight \in [{"local", "remote"} -> Int]

\* The records a peer has been told of, on their way to it, and those that wait for
\* the answer to its own request.
Told(k) == { feed[k][i] : i \in DOMAIN feed[k] } \union
           { outbound[k][i].record : i \in { p \in DOMAIN outbound[k] : outbound[k][p].kind = "news" } }
Waits(k) == { deferred[k][i] : i \in DOMAIN deferred[k] } \ {Forward}

\* Who has not subscribed holds and is due nothing.
Unheard(k) ==
    ~conn[k].subscribed => feed[k] = <<>> /\ due[k] = <<>> /\ seen[k] = <<>> /\ Quietly(outbound[k])
Reached(k) ==
    conn[k].life = "open" /\ conn[k].subscribed => Reaches(outbound[k], due[k], seen[k], feed[k])
\* A request defers one action at most, and the record of its answer is the one it deferred.
Answering(k) ==
    /\ Len(deferred[k]) <= 1 /\ reply[k].kind # "news"
    /\ reply[k].record # 0 => deferred[k] = <<reply[k].record>>
\* No answer comes after the news of what it did.
InOrder(queue) ==
    \A i, j \in DOMAIN queue :
        queue[i].kind = "news" /\ j > i /\ queue[j].kind = "answer" => queue[j].record # queue[i].record
Ordered(k) == InOrder(outbound[k]) /\ Len(feed[k]) <= FeedDepth
Subscribes(k) == conn[k].subscribed => conn[k].life \in {"open", "shut", "draining"}
PeerSound(k) == Subscribes(k) /\ Unheard(k) /\ Reached(k) /\ Answering(k) /\ Ordered(k)
\* What waits for an answer has been committed, and no one was told of it; no two
\* requests wait with the same record.
Recorded ==
    /\ \A k \in Peers : Told(k) \subseteq 1..committed /\ Waits(k) \subseteq 1..committed
    /\ \A j, k \in Peers : Told(j) \intersect Waits(k) = {}
    /\ \A j, k \in Peers : j # k => Waits(j) \intersect Waits(k) = {}
HostInvariant ==
    /\ HostTyped
    /\ \A k \in Peers : PeerSound(k)
    /\ Recorded
    /\ SlotsReturned

\* Nobody is connected and nothing committed.
LEMMA HostInitially == HostInit => HostInvariant
  <1> SUFFICES ASSUME HostInit
               PROVE  HostInvariant
    OBVIOUS
  <1> USE DEF HostInit
  <1>1. Out \in Connection /\ NoReply \in Message
    BY DEF Out, NoReply, Connection, Lives, Message
  <1>2. HostTyped
    BY <1>1 DEF HostTyped
  <1>3. ASSUME NEW k \in Peers
        PROVE  PeerSound(k) /\ Told(k) = {} /\ Waits(k) = {}
    <2>1. ~conn[k].subscribed /\ reply[k].kind # "news" /\ reply[k].record = 0
      BY DEF Out, NoReply
    <2>2. /\ feed[k] = <<>> /\ due[k] = <<>> /\ seen[k] = <<>> /\ deferred[k] = <<>>
          /\ outbound[k] = <<>>
      OBVIOUS
    <2>3. FeedDepth \in Nat
      BY HostAssumption
    <2> QED
      BY <2>1, <2>2, <2>3 DEF PeerSound, Subscribes, Unheard, Quietly, Reached, Answering, Ordered, InOrder, Told, Waits
  <1>4. Recorded
    BY <1>3 DEF Recorded
  <1>5. SlotsReturned
    <2>1. Live = {}
      BY DEF Live, Out
    <2>2. \A kind \in {"local", "remote"} : { k \in Live : ListenerOf(k) = kind } = {}
      BY <2>1
    <2>3. inFlight = [local |-> 0, remote |-> 0]
      OBVIOUS
    <2>4. \A kind \in {"local", "remote"} : inFlight[kind] = 0
      BY <2>3
    <2> QED
      BY <2>2, <2>4, FS_EmptySet DEF SlotsReturned
  <1> QED
    BY <1>2, <1>3, <1>4, <1>5 DEF HostInvariant

\* An open subscription is owed what it was read, what is queued and what is held, and nothing else.
LEMMA HostInvariantIsSound == HostInvariant => ConnectionsSound
  <1> SUFFICES ASSUME HostInvariant
               PROVE  ConnectionsSound
    OBVIOUS
  <1> USE DEF HostInvariant
  <1>1. ASSUME NEW k \in Peers, conn[k].life = "open", conn[k].subscribed
        PROVE  \E n \in 0..Len(outbound[k]) : \E at \in [1..n -> DOMAIN outbound[k]] :
                 /\ NewsPlaces(outbound[k], n, at)
                 /\ due[k] = seen[k] \o [i \in 1..n |-> outbound[k][at[i]].record] \o feed[k]
    <2>1. Reaches(outbound[k], due[k], seen[k], feed[k])
      BY <1>1 DEF PeerSound, Reached
    <2> QED
      BY <2>1 DEF Reaches, NewsIn
  <1>2. ASSUME NEW k \in Peers, NEW i \in DOMAIN outbound[k], outbound[k][i].kind = "news"
        PROVE  /\ outbound[k][i].record # reply[k].record
               /\ \A j \in DOMAIN outbound[k] : j > i /\ outbound[k][j].kind = "answer" => outbound[k][j].record # outbound[k][i].record
    <2>1. outbound[k][i].record \in Told(k)
      BY <1>2 DEF Told
    <2>2. outbound[k][i].record \in 1..committed
      BY <2>1 DEF Recorded
    <2>3. reply[k].record # 0 => reply[k].record \in Waits(k)
      <3>1. reply[k].record # 0 => deferred[k] = <<reply[k].record>>
        BY DEF PeerSound, Answering
      <3> QED
        BY <3>1 DEF Waits, Forward
    <2>4. Told(k) \intersect Waits(k) = {}
      BY DEF Recorded
    <2>5. outbound[k][i].record # reply[k].record
      BY <2>1, <2>2, <2>3, <2>4
    <2>6. InOrder(outbound[k])
      BY DEF PeerSound, Ordered
    <2> QED
      BY <1>2, <2>5, <2>6 DEF InOrder
  <1>3. OpenMissesNothing
    BY <1>1 DEF OpenMissesNothing
  <1>4. AnswerBeforeNews
    BY <1>2 DEF AnswerBeforeNews
  <1> QED
    BY <1>3, <1>4 DEF ConnectionsSound

(***************************************************************************)
(* A step is one of a few shapes.                                          *)
(***************************************************************************)
Untouched(j) ==
    /\ conn'[j] = conn[j] /\ reply'[j] = reply[j] /\ deferred'[j] = deferred[j]
    /\ outbound'[j] = outbound[j] /\ feed'[j] = feed[j] /\ due'[j] = due[j] /\ seen'[j] = seen[j]
\* Connections change their lives and nothing else.
LivesChange ==
    /\ UNCHANGED <<reply, deferred, outbound, feed, due, seen, committed>>
    /\ \A j \in Peers :
         /\ conn'[j].subscribed <=> conn[j].subscribed
         /\ conn[j].subscribed => conn'[j].life \in {"open", "shut", "draining"}
         /\ conn[j].subscribed /\ conn'[j].life = "open" => conn[j].life = "open"
\* One peer changes: no one is told anything, and what newly waits is newly committed.
OnlyPeer(k) ==
    /\ \A j \in Peers \ {k} : Untouched(j)
    /\ committed' \in Nat /\ committed' >= committed
    /\ PeerSound(k)'
    /\ Told(k)' \subseteq Told(k)
    /\ Waits(k)' \subseteq Waits(k) \union (committed + 1)..committed'
SlotsKept ==
    /\ inFlight' = inFlight
    /\ \A j \in Peers : (j \in Live)' <=> j \in Live
    /\ \A j \in Live : ListenerOf(j)' = ListenerOf(j)

\* A connection that no step touched is as sound as before.
LEMMA UntouchedStaysSound ==
  ASSUME NEW j \in Peers, PeerSound(j), Untouched(j)
  PROVE  PeerSound(j)' /\ Told(j)' = Told(j) /\ Waits(j)' = Waits(j)
  <1> USE DEF Untouched
  <1>1. Subscribes(j)' /\ Unheard(j)' /\ Reached(j)' /\ Answering(j)' /\ Ordered(j)'
    BY DEF PeerSound, Subscribes, Unheard, Reached, Answering, Ordered
  <1>2. Told(j)' = Told(j)
    BY DEF Told
  <1>3. Waits(j)' = Waits(j)
    BY DEF Waits
  <1> QED
    BY <1>1, <1>2, <1>3 DEF PeerSound

\* What was due is due still when connections change their lives.
LEMMA LivesChangeKeeps ==
  ASSUME HostInvariant, LivesChange
  PROVE  (\A j \in Peers : PeerSound(j)') /\ Recorded'
  <1> USE DEF HostInvariant, LivesChange
  <1>1. ASSUME NEW j \in Peers
        PROVE  PeerSound(j)'
    <2>1. PeerSound(j)
      OBVIOUS
    <2>2. Subscribes(j)' /\ Unheard(j)'
      BY <2>1 DEF PeerSound, Subscribes, Unheard
    <2>3. Reached(j)'
      BY <2>1 DEF PeerSound, Reached
    <2>4. Answering(j)' /\ Ordered(j)'
      BY <2>1 DEF PeerSound, Answering, Ordered
    <2> QED
      BY <2>2, <2>3, <2>4 DEF PeerSound
  <1>2. \A j \in Peers : Told(j)' = Told(j) /\ Waits(j)' = Waits(j)
    BY DEF Told, Waits
  <1>3. Recorded'
    BY <1>2 DEF Recorded
  <1> QED
    BY <1>1, <1>3

\* A step of one peer keeps what holds of the others.
LEMMA OnlyPeerKeeps ==
  ASSUME HostInvariant, NEW k \in Peers, OnlyPeer(k)
  PROVE  (\A j \in Peers : PeerSound(j)') /\ Recorded'
  <1> USE DEF HostInvariant, OnlyPeer
  <1>1. \A j \in Peers \ {k} : PeerSound(j)' /\ Told(j)' = Told(j) /\ Waits(j)' = Waits(j)
    BY UntouchedStaysSound
  <1>2. committed \in Nat
    BY DEF HostTyped
  <1>3. \A j \in Peers : Told(j)' \subseteq Told(j) /\ Told(j) \subseteq 1..committed
    BY <1>1 DEF Recorded
  <1>4. \A j \in Peers : Waits(j) \subseteq 1..committed
    BY DEF Recorded
  <1>5. Waits(k)' \subseteq 1..committed'
    BY <1>2, <1>4
  <1>6. \A j \in Peers : Told(j)' \subseteq 1..committed' /\ Waits(j)' \subseteq 1..committed'
    BY <1>1, <1>2, <1>3, <1>4, <1>5
  <1>7. ASSUME NEW i \in Peers, NEW j \in Peers
        PROVE  Told(i)' \intersect Waits(j)' = {}
    <2>1. Told(i) \intersect Waits(j) = {}
      BY DEF Recorded
    <2>2. \A r \in Waits(j)' : r \in Waits(j) \/ r > committed
      BY <1>1, <1>2
    <2>3. \A r \in Told(i)' : r \in Told(i) /\ ~(r > committed)
      BY <1>2, <1>3
    <2> QED
      BY <2>1, <2>2, <2>3
  <1>8. ASSUME NEW i \in Peers, NEW j \in Peers, i # j
        PROVE  Waits(i)' \intersect Waits(j)' = {}
    <2>1. Waits(i) \intersect Waits(j) = {}
      BY <1>8 DEF Recorded
    <2>2. (j # k => Waits(j)' = Waits(j)) /\ (i # k => Waits(i)' = Waits(i))
      BY <1>1
    <2>3. \A r \in Waits(k)' : r \in Waits(k) \/ r > committed
      BY <1>2
    <2>4. \A r \in Waits(i) \union Waits(j) : ~(r > committed)
      BY <1>2, <1>4
    <2> QED
      BY <1>8, <2>1, <2>2, <2>3, <2>4
  <1> QED
    BY <1>1, <1>6, <1>7, <1>8 DEF Recorded

\* A step that leaves the slots alone keeps what holds of them.
LEMMA SlotsKeptKeeps ==
  ASSUME SlotsReturned, SlotsKept
  PROVE  SlotsReturned'
  <1>1. \A kind \in {"local", "remote"} : { j \in Live : ListenerOf(j) = kind }' = { j \in Live : ListenerOf(j) = kind }
    <2>1. Live' = Live
      BY DEF SlotsKept, Live
    <2> QED
      BY <2>1 DEF SlotsKept
  <1> QED
    BY <1>1 DEF SlotsReturned, SlotsKept

\* A connection takes a slot of its listener, or gives it back.
LEMMA SlotsFollowLives ==
  ASSUME HostInvariant, NEW k \in Peers,
         \A j \in Peers \ {k} : conn'[j] = conn[j],
         \/ k \notin Live /\ (k \in Live)' /\ ListenerOf(k)' = ListenerOf(k) /\ TakesSlot(k, 1)
         \/ k \in Live /\ ~(k \in Live)' /\ TakesSlot(k, -1)
  PROVE  SlotsReturned'
  <1> DEFINE using(kind) == { j \in Live : ListenerOf(j) = kind }
             mine == ListenerOf(k)
  <1>1. \A j \in Peers \ {k} : ((j \in Live)' <=> j \in Live) /\ ListenerOf(j)' = ListenerOf(j)
    BY DEF Live, ListenerOf
  <1>2. mine \in {"local", "remote"} /\ inFlight \in [{"local", "remote"} -> Int]
    BY DEF ListenerOf, HostInvariant, HostTyped
  <1>3. \A kind \in {"local", "remote"} : inFlight[kind] = Cardinality(using(kind)) /\ IsFiniteSet(using(kind)) /\ Cardinality(using(kind)) \in Nat
    <2>1. \A kind : IsFiniteSet(using(kind))
      BY HostAssumption, FS_Subset DEF Live
    <2> QED
      BY <2>1, FS_CardinalityType DEF HostInvariant, SlotsReturned
  <1>4. Live \subseteq Peers /\ Live' \subseteq Peers
    BY DEF Live
  <1>5. CASE k \notin Live /\ (k \in Live)' /\ ListenerOf(k)' = ListenerOf(k) /\ TakesSlot(k, 1)
    <2>1. ASSUME NEW kind \in {"local", "remote"}
          PROVE  inFlight'[kind] = Cardinality(using(kind)')
      <3>1. CASE kind = mine
        <4>1. using(kind)' = using(kind) \union {k}
          BY <1>1, <1>4, <1>5, <3>1
        <4>2. k \notin using(kind)
          BY <1>5
        <4>3. Cardinality(using(kind) \union {k}) = Cardinality(using(kind)) + 1
          BY <1>3, <4>2, FS_AddElement
        <4>4. inFlight'[kind] = inFlight[kind] + 1
          BY <1>2, <1>5, <3>1 DEF TakesSlot
        <4> QED
          BY <1>3, <4>1, <4>3, <4>4
      <3>2. CASE kind # mine
        <4>1. using(kind)' = using(kind)
          BY <1>1, <1>4, <1>5, <3>2
        <4>2. inFlight'[kind] = inFlight[kind]
          BY <1>2, <1>5, <3>2 DEF TakesSlot
        <4> QED
          BY <1>3, <4>1, <4>2
      <3> QED
        BY <3>1, <3>2
    <2> QED
      BY <2>1 DEF SlotsReturned
  <1>6. CASE k \in Live /\ ~(k \in Live)' /\ TakesSlot(k, -1)
    <2>1. ASSUME NEW kind \in {"local", "remote"}
          PROVE  inFlight'[kind] = Cardinality(using(kind)')
      <3>1. CASE kind = mine
        <4>1. using(kind)' = using(kind) \ {k}
          BY <1>1, <1>4, <1>6, <3>1
        <4>2. k \in using(kind)
          BY <1>6, <3>1
        <4>3. Cardinality(using(kind) \ {k}) = Cardinality(using(kind)) - 1
          BY <1>3, <4>2, FS_RemoveElement
        <4>4. inFlight'[kind] = inFlight[kind] - 1
          BY <1>2, <1>6, <3>1 DEF TakesSlot
        <4> QED
          BY <1>3, <4>1, <4>3, <4>4
      <3>2. CASE kind # mine
        <4>1. using(kind)' = using(kind)
          BY <1>1, <1>4, <1>6, <3>2
        <4>2. inFlight'[kind] = inFlight[kind]
          BY <1>2, <1>6, <3>2 DEF TakesSlot
        <4> QED
          BY <1>3, <4>1, <4>2
      <3> QED
        BY <3>1, <3>2
    <2> QED
      BY <2>1 DEF SlotsReturned
  <1> QED
    BY <1>5, <1>6

(***************************************************************************)
(* The actions that change the lives of connections.                       *)
(***************************************************************************)
LEMMA OneLifeChanges ==
  ASSUME HostInvariant, NEW k \in Peers, NEW life \in Lives, NEW remotely \in BOOLEAN,
         conn' = [conn EXCEPT ![k] = [conn[k] EXCEPT !.life = life, !.remote = remotely]]
  PROVE  /\ conn' \in [Peers -> Connection]
         /\ \A j \in Peers \ {k} : conn'[j] = conn[j]
         /\ conn'[k].life = life /\ (conn'[k].remote <=> remotely) /\ (conn'[k].subscribed <=> conn[k].subscribed)
  BY DEF HostInvariant, HostTyped, Connection

\* A peer dials a listener: it holds nothing yet.
LEMMA DialKeeps ==
  ASSUME HostInvariant, NEW k \in Peers, NEW remotely \in BOOLEAN, Dial(k, remotely)
  PROVE  HostInvariant'
  <1>1. conn' = [conn EXCEPT ![k] = [conn[k] EXCEPT !.life = "waiting", !.remote = remotely]]
    BY DEF Dial, HostInvariant, HostTyped, Connection
  <1>2. /\ conn' \in [Peers -> Connection]
        /\ \A j \in Peers \ {k} : conn'[j] = conn[j]
        /\ conn'[k].life = "waiting" /\ (conn'[k].remote <=> remotely) /\ (conn'[k].subscribed <=> conn[k].subscribed)
    BY <1>1, OneLifeChanges DEF Lives
  <1>3. conn[k].life = "out" /\ \A j \in Peers : Subscribes(j)
    BY DEF Dial, HostInvariant, PeerSound
  <1>4. LivesChange
    BY <1>2, <1>3 DEF Dial, LivesChange, Subscribes
  <1>5. SlotsKept
    BY <1>2, <1>3 DEF Dial, SlotsKept, Live, ListenerOf
  <1>6. HostTyped'
    BY <1>2 DEF Dial, HostInvariant, HostTyped
  <1> QED
    BY <1>4, <1>5, <1>6, LivesChangeKeeps, SlotsKeptKeeps DEF HostInvariant

\* A listener that returns turns away whom it has not accepted.
LEMMA ListenerReturnsKeeps ==
  ASSUME HostInvariant, ListenerReturns
  PROVE  HostInvariant'
  <1>1. \A j \in Peers : conn[j] \in Connection /\ Subscribes(j)
    BY DEF HostInvariant, HostTyped, PeerSound
  <1>2. \A j \in Peers : conn[j].life = "waiting" =>
            /\ [conn[j] EXCEPT !.life = "gone"] \in Connection
            /\ [conn[j] EXCEPT !.life = "gone"].life = "gone"
            /\ [conn[j] EXCEPT !.life = "gone"].remote = conn[j].remote
            /\ [conn[j] EXCEPT !.life = "gone"].subscribed = conn[j].subscribed
    BY <1>1 DEF Connection, Lives
  <1>3. \A j \in Peers : conn[j].life # "waiting" => conn'[j] = conn[j]
    BY DEF ListenerReturns
  <1>4. \A j \in Peers : conn[j].life = "waiting" => conn'[j] = [conn[j] EXCEPT !.life = "gone"]
    BY DEF ListenerReturns
  <1>5. conn' \in [Peers -> Connection]
    BY <1>1, <1>2 DEF ListenerReturns
  <1>6. LivesChange
    BY <1>1, <1>2, <1>3, <1>4 DEF ListenerReturns, LivesChange, Subscribes
  <1>7. SlotsKept
    BY <1>2, <1>3, <1>4 DEF ListenerReturns, SlotsKept, Live, ListenerOf
  <1>8. HostTyped'
    BY <1>5 DEF ListenerReturns, HostInvariant, HostTyped
  <1> QED
    BY <1>6, <1>7, <1>8, LivesChangeKeeps, SlotsKeptKeeps DEF HostInvariant

\* A connection that is not open ends or is taken in without a slot, or one is let in.
LEMMA LifeOnlyKeeps ==
  ASSUME HostInvariant, NEW k \in Peers, NEW life \in Lives,
         conn' = [conn EXCEPT ![k].life = life],
         UNCHANGED <<reply, deferred, outbound, feed, due, seen, committed>>,
         \/ conn[k].life \in {"waiting", "over"} /\ life \notin {"open", "shut", "draining"} /\ inFlight' = inFlight
         \/ conn[k].life \in {"open", "shut"} /\ life \in {"shut", "draining"} /\ inFlight' = inFlight
         \/ conn[k].life = "waiting" /\ life = "open" /\ TakesSlot(k, 1)
  PROVE  HostInvariant'
  <1>0. conn[k] \in Connection /\ conn[k].remote \in BOOLEAN /\ Subscribes(k)
    BY DEF HostInvariant, HostTyped, Connection, PeerSound
  <1>1. conn' = [conn EXCEPT ![k] = [conn[k] EXCEPT !.life = life, !.remote = conn[k].remote]]
    BY DEF HostInvariant, HostTyped, Connection
  <1>2. /\ conn' \in [Peers -> Connection]
        /\ \A j \in Peers \ {k} : conn'[j] = conn[j]
        /\ conn'[k].life = life /\ (conn'[k].remote <=> conn[k].remote) /\ (conn'[k].subscribed <=> conn[k].subscribed)
    BY <1>0, <1>1, OneLifeChanges
  <1>3. \A j \in Peers : Subscribes(j)
    BY DEF HostInvariant, PeerSound
  <1>4. LivesChange
    BY <1>2, <1>3 DEF LivesChange, Subscribes
  <1>5. SlotsReturned'
    <2>1. CASE inFlight' = inFlight
      <3>1. CASE conn[k].life = "waiting" /\ life = "open" /\ TakesSlot(k, 1)
        <4>1. k \notin Live /\ (k \in Live)' /\ ListenerOf(k)' = ListenerOf(k)
          BY <3>1, <1>2 DEF Live, ListenerOf
        <4> QED
          BY <3>1, <4>1, <1>2, SlotsFollowLives
      <3>2. CASE conn[k].life # "waiting" \/ life # "open"
        <4>1. SlotsKept
          BY <2>1, <3>2, <1>2 DEF SlotsKept, Live, ListenerOf
        <4> QED
          BY <4>1, SlotsKeptKeeps DEF HostInvariant
      <3> QED
        BY <3>1, <3>2
    <2>2. CASE inFlight' # inFlight
      <3>1. conn[k].life = "waiting" /\ life = "open" /\ TakesSlot(k, 1)
        BY <2>2
      <3>2. k \notin Live /\ (k \in Live)' /\ ListenerOf(k)' = ListenerOf(k)
        BY <3>1, <1>2 DEF Live, ListenerOf
      <3> QED
        BY <3>1, <3>2, <1>2, SlotsFollowLives
    <2> QED
      BY <2>1, <2>2
  <1>6. inFlight' \in [{"local", "remote"} -> Int]
    <2>1. ListenerOf(k) \in {"local", "remote"} /\ inFlight \in [{"local", "remote"} -> Int]
      BY DEF ListenerOf, HostInvariant, HostTyped
    <2> QED
      BY <2>1 DEF TakesSlot
  <1>7. HostTyped'
    BY <1>2, <1>6 DEF HostInvariant, HostTyped
  <1> QED
    BY <1>4, <1>5, <1>7, LivesChangeKeeps DEF HostInvariant

\* A peer is let in to a slot, or turned away without one.
LEMMA LetInOrOutKeeps ==
  ASSUME HostInvariant, NEW k \in Peers, Accept(k) \/ AcceptRemote(k) \/ RejectOverloaded(k) \/ ForwarderOverflows(k)
  PROVE  HostInvariant'
  <1>1. CASE Accept(k)
    BY <1>1, LifeOnlyKeeps DEF Accept, Lives
  <1>2. CASE AcceptRemote(k)
    BY <1>2, LifeOnlyKeeps DEF AcceptRemote, Lives
  <1>3. CASE RejectOverloaded(k)
    BY <1>3, LifeOnlyKeeps DEF RejectOverloaded, Lives
  <1>4. CASE ForwarderOverflows(k)
    BY <1>4, LifeOnlyKeeps DEF ForwarderOverflows, Lives
  <1> QED
    BY <1>1, <1>2, <1>3, <1>4

\* What the host keeps is not touched.
HostStands == UNCHANGED <<conn, reply, deferred, outbound, feed, due, seen, committed, inFlight>>
\* A step that touches no connection, queue or slot.
LEMMA StandingKeeps ==
  ASSUME HostInvariant, HostStands
  PROVE  HostInvariant'
  <1>1. LivesChange
    BY DEF LivesChange, HostStands, HostInvariant, PeerSound, Subscribes
  <1>2. SlotsKept
    BY DEF SlotsKept, HostStands, Live, ListenerOf
  <1>3. HostTyped'
    BY DEF HostTyped, HostStands, HostInvariant
  <1> QED
    BY <1>1, <1>2, <1>3, LivesChangeKeeps, SlotsKeptKeeps DEF HostInvariant

(***************************************************************************)
(* The actions of one connection.                                          *)
(***************************************************************************)
\* A connection ends with its queues.
LEMMA GoneKeeps ==
  ASSUME HostInvariant, NEW k \in Live, Gone(k), committed' = committed
  PROVE  HostInvariant'
  <1>0. k \in Peers
    BY DEF Live
  <1>1. [Out EXCEPT !.life = "gone"] \in Connection /\ [Out EXCEPT !.life = "gone"].life = "gone"
        /\ ~[Out EXCEPT !.life = "gone"].subscribed
    BY DEF Out, Connection, Lives
  <1>2. NoReply \in Message /\ NoReply.record = 0 /\ NoReply.kind = "none"
    BY DEF NoReply, Message
  <1>3. ListenerOf(k) \in {"local", "remote"} /\ inFlight \in [{"local", "remote"} -> Int]
    BY DEF ListenerOf, HostInvariant, HostTyped
  <1>4. HostTyped'
    <2>1. inFlight' \in [{"local", "remote"} -> Int]
      BY <1>3 DEF Gone, TakesSlot
    <2>2. conn' \in [Peers -> Connection] /\ reply' \in [Peers -> Message]
      BY <1>0, <1>1, <1>2 DEF Gone, HostInvariant, HostTyped
    <2>3. deferred' \in [Peers -> Seq(Nat)] /\ feed' \in [Peers -> Seq(Nat)] /\ due' \in [Peers -> Seq(Nat)] /\ seen' \in [Peers -> Seq(Nat)]
      BY <1>0 DEF Gone, HostInvariant, HostTyped
    <2>4. outbound' \in [Peers -> Seq(Message)]
      BY <1>0 DEF Gone, HostInvariant, HostTyped
    <2> QED
      BY <2>1, <2>2, <2>3, <2>4 DEF HostInvariant, HostTyped
  <1>5. /\ conn'[k].life = "gone" /\ ~conn'[k].subscribed
        /\ reply'[k] = NoReply /\ deferred'[k] = <<>> /\ outbound'[k] = <<>>
        /\ feed'[k] = <<>> /\ due'[k] = <<>> /\ seen'[k] = <<>>
    BY <1>0, <1>1 DEF Gone, HostInvariant, HostTyped
  <1>6. \A j \in Peers \ {k} : Untouched(j)
    BY DEF Gone, HostInvariant, HostTyped, Untouched
  <1>7. OnlyPeer(k)
    <2>1. PeerSound(k)'
      BY <1>2, <1>5, HostAssumption
      DEF PeerSound, Subscribes, Unheard, Quietly, Reached, Answering, Ordered, InOrder
    <2>2. Told(k)' = {} /\ Waits(k)' = {}
      BY <1>5 DEF Told, Waits
    <2> QED
      BY <1>6, <2>1, <2>2 DEF OnlyPeer, HostInvariant, HostTyped
  <1>8. SlotsReturned'
    <2>1. ~(k \in Live)'
      BY <1>5 DEF Live
    <2>2. \A j \in Peers \ {k} : conn'[j] = conn[j]
      BY <1>6 DEF Untouched
    <2> QED
      BY <1>0, <2>1, <2>2, SlotsFollowLives DEF Gone
  <1> QED
    BY <1>0, <1>4, <1>7, <1>8, OnlyPeerKeeps DEF HostInvariant

\* A connection ends, and its slot with it.
LEMMA EndsKeep ==
  ASSUME HostInvariant, NEW k \in Peers,
         ReplyFails(k) \/ LoopEnds(k) \/ WriterDone(k) \/ RequestTimeout(k) \/ HangUp(k)
  PROVE  HostInvariant'
  <1>1. CASE ReplyFails(k)
    BY <1>1, GoneKeeps DEF ReplyFails, Live
  <1>2. CASE LoopEnds(k)
    <2>1. CASE Gone(k)
      BY <1>2, <2>1, GoneKeeps DEF LoopEnds, Live
    <2>2. CASE ~Gone(k)
      BY <1>2, <2>2, LifeOnlyKeeps DEF LoopEnds, Lives
    <2> QED
      BY <2>1, <2>2
  <1>3. CASE WriterDone(k)
    BY <1>3, GoneKeeps DEF WriterDone, Live
  <1>4. CASE RequestTimeout(k)
    BY <1>4, GoneKeeps DEF RequestTimeout, Live
  <1>5. CASE HangUp(k)
    BY <1>5, GoneKeeps DEF HangUp
  <1> QED
    BY <1>1, <1>2, <1>3, <1>4, <1>5

\* A step of one peer that neither lets it in nor out.
LEMMA PeerMoves ==
  ASSUME HostInvariant, NEW k \in Peers, HostTyped', OnlyPeer(k), inFlight' = inFlight,
         conn'[k].life = conn[k].life, conn'[k].remote = conn[k].remote
  PROVE  HostInvariant'
  <1>1. SlotsKept
    BY DEF SlotsKept, OnlyPeer, Untouched, Live, ListenerOf
  <1> QED
    BY <1>1, OnlyPeerKeeps, SlotsKeptKeeps DEF HostInvariant

\* A line that fails is answered with an error.
LEMMA HandleFailsKeeps ==
  ASSUME HostInvariant, NEW k \in Peers, HandleFails(k)
  PROVE  HostInvariant'
  <1> DEFINE error == [kind |-> "error", record |-> 0]
  <1>1. error \in Message /\ error.kind # "news" /\ error.record = 0
    BY DEF Message
  <1> HIDE DEF error
  <1>2. reply'[k] = reply[k] \/ reply'[k] = error
    BY DEF HandleFails, HostInvariant, HostTyped, error
  <1>3. reply' \in [Peers -> Message]
    <2>1. reply' = [reply EXCEPT ![k] = reply'[k]]
      BY DEF HandleFails, HostInvariant, HostTyped
    <2>2. reply'[k] \in Message
      BY <1>1, <1>2 DEF HostInvariant, HostTyped
    <2> QED
      BY <2>1, <2>2 DEF HostInvariant, HostTyped
  <1>4. HostTyped'
    BY <1>3 DEF HandleFails, HostInvariant, HostTyped
  <1>5. \A j \in Peers \ {k} : Untouched(j)
    BY DEF HandleFails, HostInvariant, HostTyped, Untouched
  <1>6. PeerSound(k)
    BY DEF HostInvariant
  <1>7. PeerSound(k)'
    <2>1. Subscribes(k)' /\ Unheard(k)' /\ Reached(k)' /\ Ordered(k)'
      BY <1>6 DEF HandleFails, PeerSound, Subscribes, Unheard, Reached, Ordered
    <2>2. Answering(k)'
      BY <1>1, <1>2, <1>6 DEF HandleFails, PeerSound, Answering
    <2> QED
      BY <2>1, <2>2 DEF PeerSound
  <1>8. Told(k)' = Told(k) /\ Waits(k)' = Waits(k)
    BY DEF HandleFails, Told, Waits
  <1>9. OnlyPeer(k)
    BY <1>5, <1>7, <1>8 DEF OnlyPeer, HandleFails, HostInvariant, HostTyped
  <1> QED
    BY <1>4, <1>9, PeerMoves DEF HandleFails

\* A message behind a queue leaves the news in it where they are.
LEMMA AppendedMessage ==
  ASSUME NEW queue \in Seq(Message), NEW message \in Message
  PROVE  LET longer == Append(queue, message)
         IN  /\ longer \in Seq(Message) /\ DOMAIN longer = DOMAIN queue \union {Len(queue) + 1}
             /\ DOMAIN queue = 1..Len(queue) /\ Len(queue) + 1 \notin DOMAIN queue
             /\ \A p \in DOMAIN queue : longer[p] = queue[p]
             /\ longer[Len(queue) + 1] = message
  <1> DEFINE longer == Append(queue, message)
  <1>1. longer \in Seq(Message) /\ Len(longer) = Len(queue) + 1 /\ DOMAIN longer = 1..(Len(queue) + 1)
    OBVIOUS
  <1>2. DOMAIN queue = 1..Len(queue) /\ Len(queue) \in Nat
    OBVIOUS
  <1>3. \A p \in DOMAIN queue : longer[p] = queue[p]
    OBVIOUS
  <1>4. longer[Len(queue) + 1] = message
    OBVIOUS
  <1> HIDE DEF longer
  <1>5. DOMAIN longer = DOMAIN queue \union {Len(queue) + 1} /\ Len(queue) + 1 \notin DOMAIN queue
    BY <1>1, <1>2
  <1> QED
    BY <1>1, <1>2, <1>3, <1>4, <1>5 DEF longer

\* A record in an answer that waits to be queued, or in none, is in no news.
LEMMA AnswerIsNoNews ==
  ASSUME HostInvariant, NEW k \in Peers, NEW r \in Told(k)
  PROVE  r # reply[k].record /\ r \in 1..committed
  <1>1. r \in 1..committed /\ Told(k) \intersect Waits(k) = {}
    BY DEF HostInvariant, Recorded
  <1>2. reply[k].record # 0 => deferred[k] = <<reply[k].record>>
    BY DEF HostInvariant, PeerSound, Answering
  <1>3. reply[k].record # 0 => reply[k].record \in Waits(k)
    BY <1>2 DEF Waits, Forward
  <1> QED
    BY <1>1, <1>3

\* An answer is queued, and only then may its record be told.
LEMMA QueueReplyKeeps ==
  ASSUME HostInvariant, NEW k \in Peers, QueueReply(k)
  PROVE  HostInvariant'
  <1> DEFINE queue == outbound[k]
             message == reply[k]
             longer == Append(queue, message)
             last == Len(queue) + 1
  <1>1. queue \in Seq(Message) /\ message \in Message /\ message.kind # "news" /\ PeerSound(k)
    BY DEF HostInvariant, HostTyped, PeerSound, Answering
  <1>2. outbound' = [outbound EXCEPT ![k] = longer] /\ outbound'[k] = longer
    BY DEF QueueReply, Enqueue, HostInvariant, HostTyped
  <1>3. reply'[k] = NoReply /\ reply' \in [Peers -> Message] /\ NoReply.record = 0 /\ NoReply.kind = "none"
    BY DEF QueueReply, HostInvariant, HostTyped, NoReply, Message
  <1> HIDE DEF queue, message
  <1>4. /\ longer \in Seq(Message) /\ DOMAIN longer = DOMAIN queue \union {last}
        /\ DOMAIN queue = 1..Len(queue) /\ last \notin DOMAIN queue
        /\ \A p \in DOMAIN queue : longer[p] = queue[p]
        /\ longer[last] = message
    BY <1>1, AppendedMessage
  <1> HIDE DEF longer
  <1>5. HostTyped'
    BY <1>2, <1>3, <1>4 DEF QueueReply, HostInvariant, HostTyped
  <1>6. \A j \in Peers \ {k} : Untouched(j)
    BY <1>2 DEF QueueReply, HostInvariant, HostTyped, Untouched
  <1>7. Subscribes(k)' /\ Unheard(k)'
    <2>1. Quietly(queue) => Quietly(longer)
      BY <1>1, <1>4 DEF Quietly
    <2> QED
      BY <1>1, <1>2, <2>1 DEF QueueReply, PeerSound, Subscribes, Unheard, queue
  <1>8. Reached(k)'
    <2>1. ASSUME conn[k].life = "open", conn[k].subscribed
          PROVE  Reaches(longer, due[k], seen[k], feed[k])
      <3>1. Reaches(queue, due[k], seen[k], feed[k])
        BY <1>1, <2>1 DEF PeerSound, Reached, queue
      <3> QED
        BY <1>1, <3>1, AnswerKeepsNews DEF longer
    <2> QED
      BY <1>2, <2>1 DEF QueueReply, Reached
  <1>9. Answering(k)'
    BY <1>1, <1>3 DEF QueueReply, PeerSound, Answering
  <1>10. Ordered(k)'
    <2>1. \A i \in DOMAIN queue : queue[i].kind = "news" => queue[i].record # message.record
      <3>1. \A i \in DOMAIN queue : queue[i].kind = "news" => queue[i].record \in Told(k)
        BY DEF Told, queue
      <3> QED
        BY <3>1, AnswerIsNoNews DEF message
    <2>2. InOrder(queue) /\ Len(feed[k]) <= FeedDepth
      BY <1>1 DEF PeerSound, Ordered, queue
    <2>3. ASSUME NEW i \in DOMAIN longer, NEW j \in DOMAIN longer,
                 longer[i].kind = "news", j > i, longer[j].kind = "answer"
          PROVE  longer[j].record # longer[i].record
      <3>1. i \in DOMAIN queue
        BY <1>1, <1>4, <2>3
      <3>2. CASE j = last
        BY <1>4, <2>1, <2>3, <3>1, <3>2
      <3>3. CASE j \in DOMAIN queue
        BY <1>4, <2>2, <2>3, <3>1, <3>3 DEF InOrder
      <3> QED
        BY <1>4, <3>2, <3>3
    <2>4. InOrder(longer)
      BY <2>3 DEF InOrder
    <2> QED
      BY <1>2, <2>2, <2>4 DEF QueueReply, Ordered
  <1>11. Told(k)' \subseteq Told(k) /\ Waits(k)' = Waits(k)
    <2>1. { p \in DOMAIN longer : longer[p].kind = "news" } = { p \in DOMAIN queue : queue[p].kind = "news" }
      BY <1>1, <1>4
    <2>2. { longer[i].record : i \in { p \in DOMAIN longer : longer[p].kind = "news" } }
          \subseteq { queue[i].record : i \in { p \in DOMAIN queue : queue[p].kind = "news" } }
      BY <1>4, <2>1
    <2> QED
      BY <1>2, <2>2 DEF QueueReply, Told, Waits, queue
  <1>12. OnlyPeer(k)
    BY <1>6, <1>7, <1>8, <1>9, <1>10, <1>11 DEF QueueReply, OnlyPeer, PeerSound, HostInvariant, HostTyped
  <1> QED
    BY <1>5, <1>12, PeerMoves DEF QueueReply

\* A record goes from the feed to the queue, if the queue has room behind it.
LEMMA ForwardNewsKeeps ==
  ASSUME HostInvariant, NEW k \in Peers, ForwardNews(k)
  PROVE  HostInvariant'
  <1> DEFINE queue == outbound[k]
             held == feed[k]
             message == [kind |-> "news", record |-> Head(held)]
             longer == Append(queue, message)
             last == Len(queue) + 1
  <1>1. /\ queue \in Seq(Message) /\ PeerSound(k) /\ held \in Seq(Nat) /\ held # <<>>
        /\ due[k] \in Seq(Nat) /\ seen[k] \in Seq(Nat)
    BY DEF HostInvariant, HostTyped, ForwardNews
  <1>2. outbound' = [outbound EXCEPT ![k] = longer] /\ outbound'[k] = longer /\ feed'[k] = Tail(held)
        /\ feed' = [feed EXCEPT ![k] = Tail(held)]
    BY DEF ForwardNews, Enqueue, HostInvariant, HostTyped
  <1> HIDE DEF queue, held
  <1>3. message \in Message /\ message.kind = "news" /\ message.record = Head(held)
    BY <1>1 DEF Message
  <1>13. Tail(held) \in Seq(Nat) /\ Len(Tail(held)) <= Len(held) /\ Head(held) \in Nat
         /\ Head(held) = held[1] /\ 1 \in DOMAIN held /\ \A i \in DOMAIN Tail(held) : i + 1 \in DOMAIN held /\ Tail(held)[i] = held[i + 1]
    BY <1>1
  <1> HIDE DEF message
  <1>4. /\ longer \in Seq(Message) /\ DOMAIN longer = DOMAIN queue \union {last}
        /\ DOMAIN queue = 1..Len(queue) /\ last \notin DOMAIN queue
        /\ \A p \in DOMAIN queue : longer[p] = queue[p]
        /\ longer[last] = message
    BY <1>1, <1>3, AppendedMessage
  <1> HIDE DEF longer
  <1>5. HostTyped'
    <2>1. HostTyped /\ UNCHANGED <<conn, reply, deferred, due, seen, committed, inFlight>>
      BY DEF ForwardNews, HostInvariant
    <2>2. outbound' \in [Peers -> Seq(Message)]
      BY <1>2, <1>4, <2>1 DEF HostTyped
    <2>3. feed' \in [Peers -> Seq(Nat)]
      BY <1>2, <1>13, <2>1 DEF HostTyped
    <2> QED
      BY <2>1, <2>2, <2>3 DEF HostTyped
  <1>6. \A j \in Peers \ {k} : Untouched(j)
    BY <1>2 DEF ForwardNews, HostInvariant, HostTyped, Untouched
  <1>7. Subscribes(k)' /\ Unheard(k)'
    BY <1>1, <1>2 DEF ForwardNews, PeerSound, Subscribes, Unheard, held
  <1>8. Reached(k)'
    <2>1. ASSUME conn[k].life = "open", conn[k].subscribed
          PROVE  Reaches(longer, due[k], seen[k], Tail(held))
      <3>1. Reaches(queue, due[k], seen[k], held)
        BY <1>1, <2>1 DEF PeerSound, Reached, queue, held
      <3> QED
        BY <1>1, <3>1, ForwardKeepsNews DEF longer, message
    <2> QED
      BY <1>2, <2>1 DEF ForwardNews, Reached
  <1>9. Answering(k)'
    BY <1>1 DEF ForwardNews, PeerSound, Answering
  <1>10. Ordered(k)'
    <2>1. InOrder(queue) /\ Len(held) <= FeedDepth
      BY <1>1 DEF PeerSound, Ordered, queue, held
    <2>2. ASSUME NEW i \in DOMAIN longer, NEW j \in DOMAIN longer,
                 longer[i].kind = "news", j > i, longer[j].kind = "answer"
          PROVE  longer[j].record # longer[i].record
      <3>1. i \in DOMAIN queue /\ j \in DOMAIN queue
        BY <1>1, <1>3, <1>4, <2>2
      <3> QED
        BY <1>4, <2>1, <2>2, <3>1 DEF InOrder
    <2>3. InOrder(longer)
      BY <2>2 DEF InOrder
    <2>4. Len(Tail(held)) <= FeedDepth
      BY <1>1, <1>13, <2>1, HostAssumption
    <2> QED
      BY <1>2, <2>3, <2>4 DEF Ordered
  <1>11. Told(k)' \subseteq Told(k) /\ Waits(k)' = Waits(k)
    <2>1. ASSUME NEW r \in Told(k)'
          PROVE  r \in Told(k)
      <3>1. CASE r \in { feed'[k][i] : i \in DOMAIN feed'[k] }
        <4>1. PICK i \in DOMAIN Tail(held) : r = Tail(held)[i]
          BY <1>2, <3>1
        <4>2. i + 1 \in DOMAIN held /\ r = held[i + 1]
          BY <1>13, <4>1
        <4> QED
          BY <4>2 DEF Told, held
      <3>2. CASE r \in { outbound'[k][i].record : i \in { p \in DOMAIN outbound'[k] : outbound'[k][p].kind = "news" } }
        <4>1. PICK i \in DOMAIN longer : longer[i].kind = "news" /\ r = longer[i].record
          BY <1>2, <3>2
        <4>2. CASE i = last
          <5>1. r = held[1] /\ 1 \in DOMAIN held
            BY <1>3, <1>4, <1>13, <4>1, <4>2
          <5> QED
            BY <5>1 DEF Told, held
        <4>3. CASE i \in DOMAIN queue
          <5>1. queue[i].kind = "news" /\ r = queue[i].record
            BY <1>4, <4>1, <4>3
          <5> QED
            BY <4>3, <5>1 DEF Told, queue
        <4> QED
          BY <1>4, <4>2, <4>3
      <3> QED
        BY <2>1, <3>1, <3>2 DEF Told
    <2> QED
      BY <2>1 DEF ForwardNews, Waits
  <1>12. OnlyPeer(k)
    BY <1>6, <1>7, <1>8, <1>9, <1>10, <1>11 DEF ForwardNews, OnlyPeer, PeerSound, HostInvariant, HostTyped
  <1> QED
    BY <1>5, <1>12, PeerMoves DEF ForwardNews

\* The peer reads the head of its queue: an answer, or the news that were due first.
LEMMA ReadMessageKeeps ==
  ASSUME HostInvariant, NEW k \in Peers, ReadMessage(k)
  PROVE  HostInvariant'
  <1> DEFINE queue == outbound[k]
             shorter == Tail(queue)
             read == IF Head(queue).kind = "news" THEN Append(seen[k], Head(queue).record) ELSE seen[k]
  <1>1. /\ queue \in Seq(Message) /\ queue # <<>> /\ PeerSound(k) /\ feed[k] \in Seq(Nat)
        /\ due[k] \in Seq(Nat) /\ seen[k] \in Seq(Nat)
    BY DEF HostInvariant, HostTyped, ReadMessage
  <1> HIDE DEF queue
  <1>2. outbound' = [outbound EXCEPT ![k] = shorter] /\ outbound'[k] = shorter
    BY DEF ReadMessage, HostInvariant, HostTyped, queue
  <1>3. /\ shorter \in Seq(Message) /\ Head(queue) \in Message /\ Head(queue) = queue[1] /\ 1 \in DOMAIN queue
        /\ \A i \in DOMAIN shorter : i \in Nat /\ i + 1 \in DOMAIN queue /\ shorter[i] = queue[i + 1]
    BY <1>1
  <1> HIDE DEF shorter
  <1>4. seen' = [seen EXCEPT ![k] = read] /\ seen'[k] = read
    BY DEF ReadMessage, HostInvariant, HostTyped, queue
  <1>13. read \in Seq(Nat)
    BY <1>1, <1>3 DEF Message
  <1> HIDE DEF read
  <1>5. HostTyped'
    BY <1>2, <1>3, <1>4, <1>13 DEF ReadMessage, HostInvariant, HostTyped
  <1>6. \A j \in Peers \ {k} : Untouched(j)
    BY <1>2, <1>4 DEF ReadMessage, HostInvariant, HostTyped, Untouched
  <1>7. Subscribes(k)' /\ Unheard(k)'
    <2>1. Quietly(queue) => Quietly(shorter) /\ read = seen[k]
      BY <1>3 DEF Quietly, read
    <2> QED
      BY <1>1, <1>2, <1>4, <2>1 DEF ReadMessage, PeerSound, Subscribes, Unheard, queue
  <1>8. Reached(k)'
    <2>1. ASSUME conn[k].life = "open", conn[k].subscribed
          PROVE  Reaches(shorter, due[k], read, feed[k])
      <3>1. Reaches(queue, due[k], seen[k], feed[k])
        BY <1>1, <2>1 DEF PeerSound, Reached, queue
      <3> QED
        BY <1>1, <3>1, ReadKeepsNews DEF shorter, read
    <2> QED
      BY <1>2, <1>4, <2>1 DEF ReadMessage, Reached
  <1>9. Answering(k)'
    BY <1>1 DEF ReadMessage, PeerSound, Answering
  <1>10. Ordered(k)'
    <2>1. InOrder(queue)
      BY <1>1 DEF PeerSound, Ordered, queue
    <2>2. ASSUME NEW i \in DOMAIN shorter, NEW j \in DOMAIN shorter,
                 shorter[i].kind = "news", j > i, shorter[j].kind = "answer"
          PROVE  shorter[j].record # shorter[i].record
      <3>1. i + 1 \in DOMAIN queue /\ j + 1 \in DOMAIN queue /\ j + 1 > i + 1
        BY <1>3, <2>2
      <3>2. shorter[i] = queue[i + 1] /\ shorter[j] = queue[j + 1]
        BY <1>3
      <3> QED
        BY <2>1, <2>2, <3>1, <3>2 DEF InOrder
    <2>3. InOrder(shorter)
      BY <2>2 DEF InOrder
    <2> QED
      BY <1>1, <1>2, <2>3 DEF ReadMessage, PeerSound, Ordered
  <1>11. Told(k)' \subseteq Told(k) /\ Waits(k)' = Waits(k)
    <2>1. ASSUME NEW r \in Told(k)'
          PROVE  r \in Told(k)
      <3>1. CASE r \in { feed'[k][i] : i \in DOMAIN feed'[k] }
        BY <3>1 DEF ReadMessage, Told
      <3>2. CASE r \in { outbound'[k][i].record : i \in { p \in DOMAIN outbound'[k] : outbound'[k][p].kind = "news" } }
        <4>1. PICK i \in DOMAIN shorter : shorter[i].kind = "news" /\ r = shorter[i].record
          BY <1>2, <3>2
        <4>2. i + 1 \in DOMAIN queue /\ queue[i + 1].kind = "news" /\ r = queue[i + 1].record
          BY <1>3, <4>1
        <4> QED
          BY <4>2 DEF Told, queue
      <3> QED
        BY <2>1, <3>1, <3>2 DEF Told
    <2> QED
      BY <2>1 DEF ReadMessage, Waits
  <1>12. OnlyPeer(k)
    BY <1>6, <1>7, <1>8, <1>9, <1>10, <1>11 DEF ReadMessage, OnlyPeer, PeerSound, HostInvariant, HostTyped
  <1> QED
    BY <1>5, <1>12, PeerMoves DEF ReadMessage

\* A line is handled: it may commit a record, open a subscription or defer its answer.
LEMMA HandleLineKeeps ==
  ASSUME HostInvariant, NEW k \in Peers, HandleLine(k)
  PROVE  HostInvariant'
  <1> DEFINE m == Head(inbox[k])
             c == conn[k]
             d == [c EXCEPT !.initialized = c.initialized \/ m = "initialize", !.armed = c.armed /\ m # "initialize",
                            !.attached = (c.attached \/ m = "sessionOpen") /\ m # "initialize",
                            !.subscribed = c.subscribed \/ m = "subscribe"]
             record == IF m \in Mutations THEN committed + 1 ELSE 0
             answer == [kind |-> "answer", record |-> record]
             waiting == deferred'[k]
  <1> HIDE DEF m
  <1>1. conn' = [conn EXCEPT ![k] = d] /\ conn[k].life = "open" /\ reply[k] = NoReply /\ deferred[k] = <<>>
    BY DEF HandleLine, m
  <1>2. committed' = committed + (IF m \in Mutations THEN 1 ELSE 0) /\ reply' = [reply EXCEPT ![k] = answer]
    BY DEF HandleLine, m
  <1>3. Defer(k, m) /\ UNCHANGED <<outbound, seen, inFlight>>
    BY DEF HandleLine, m
  <1>4. c \in Connection /\ c.subscribed \in BOOLEAN /\ committed \in Nat /\ PeerSound(k)
    BY DEF HostInvariant, HostTyped, Connection
  <1> HIDE DEF c
  <1>5. d \in Connection /\ d.life = c.life /\ d.remote = c.remote /\ (d.subscribed <=> c.subscribed \/ m = "subscribe")
    BY <1>4 DEF Connection
  <1> HIDE DEF d
  <1>6. conn'[k] = d /\ conn' \in [Peers -> Connection]
    BY <1>1, <1>5 DEF HostInvariant, HostTyped
  <1>7. record \in Nat /\ answer \in Message /\ answer.kind # "news" /\ answer.record = record
    BY <1>4 DEF Message
  <1> HIDE DEF answer
  <1>8. reply'[k] = answer /\ reply' \in [Peers -> Message]
    BY <1>2, <1>7 DEF HostInvariant, HostTyped
  <1>9. UNCHANGED <<due, feed>>
    BY <1>3 DEF Defer
  <1>10. waiting = IF m \in Mutations THEN <<committed + 1>> ELSE IF m = "subscribe" THEN <<Forward>> ELSE <<>>
    <2>1. "subscribe" \notin Mutations
      BY DEF Mutations
    <2>2. deferred'[k] = CASE m \in Mutations -> <<committed + 1>> [] m = "subscribe" -> <<Forward>> [] OTHER -> <<>>
      BY <1>3 DEF Defer, HostInvariant, HostTyped
    <2> QED
      BY <2>1, <2>2
  <1>11. waiting \in Seq(Nat) /\ Len(waiting) <= 1 /\ (record # 0 => waiting = <<record>>)
    BY <1>4, <1>10 DEF Forward
  <1>12. deferred' = [deferred EXCEPT ![k] = waiting]
    BY <1>3 DEF Defer, HostInvariant, HostTyped
  <1>13. committed' \in Nat /\ committed' >= committed
    BY <1>2, <1>4
  <1>14. Waits(k)' \subseteq Waits(k) \union (committed + 1)..committed'
    <2>1. CASE m \in Mutations
      <3>1. Waits(k)' = {committed + 1} \ {Forward} /\ committed' = committed + 1
        BY <1>2, <1>10, <2>1 DEF Waits
      <3> QED
        BY <3>1, <1>4
    <2>2. CASE m \notin Mutations
      <3>1. Waits(k)' = {}
        BY <1>10, <2>2 DEF Waits
      <3> QED
        BY <3>1
    <2> QED
      BY <2>1, <2>2
  <1> HIDE DEF waiting, record
  <1>15. HostTyped'
    <2>1. deferred' \in [Peers -> Seq(Nat)]
      BY <1>11, <1>12 DEF HostInvariant, HostTyped
    <2> QED
      BY <1>3, <1>6, <1>8, <1>9, <1>13, <2>1 DEF HostInvariant, HostTyped
  <1>16. \A j \in Peers \ {k} : Untouched(j)
    BY <1>1, <1>2, <1>3, <1>9, <1>12 DEF HostInvariant, HostTyped, Untouched
  <1>17. PeerSound(k)'
    <2>1. Subscribes(k)'
      BY <1>1, <1>5, <1>6 DEF Subscribes, c
    <2>2. Unheard(k)'
      BY <1>3, <1>4, <1>5, <1>6, <1>9 DEF PeerSound, Unheard, c
    <2>3. Reached(k)'
      <3>1. CASE conn[k].subscribed
        <4>1. Reaches(outbound[k], due[k], seen[k], feed[k])
          BY <1>1, <1>4, <3>1 DEF PeerSound, Reached
        <4> QED
          BY <1>3, <1>9, <4>1 DEF Reached
      <3>2. CASE ~conn[k].subscribed
        <4>1. feed[k] = <<>> /\ due[k] = <<>> /\ seen[k] = <<>> /\ Quietly(outbound[k])
          BY <1>4, <3>2 DEF PeerSound, Unheard
        <4>2. Reaches(outbound[k], <<>>, <<>>, <<>>)
          BY <4>1, NothingIsDue DEF HostInvariant, HostTyped
        <4> QED
          BY <1>3, <1>9, <4>1, <4>2 DEF Reached
      <3> QED
        BY <3>1, <3>2
    <2>4. Answering(k)'
      BY <1>7, <1>8, <1>11 DEF Answering, waiting
    <2>5. Ordered(k)'
      BY <1>3, <1>4, <1>9 DEF PeerSound, Ordered
    <2> QED
      BY <2>1, <2>2, <2>3, <2>4, <2>5 DEF PeerSound
  <1>18. Told(k)' = Told(k)
    BY <1>3, <1>9 DEF Told
  <1>19. OnlyPeer(k)
    BY <1>13, <1>14, <1>16, <1>17, <1>18 DEF OnlyPeer
  <1> QED
    BY <1>3, <1>5, <1>6, <1>15, <1>19, PeerMoves DEF c

\* The forwarder of a connection starts.
LEMMA ForwarderStarts ==
  ASSUME HostInvariant, NEW k \in Peers, RunDeferred(k), Head(deferred[k]) = Forward
  PROVE  HostInvariant'
  <1> DEFINE d == [conn[k] EXCEPT !.forwarding = TRUE]
  <1>1. /\ conn[k] \in Connection /\ PeerSound(k) /\ deferred[k] \in Seq(Nat) /\ deferred[k] # <<>>
        /\ conn' = [conn EXCEPT ![k] = d]
        /\ UNCHANGED <<due, feed, reply, outbound, seen, committed, inFlight>>
        /\ deferred' = [deferred EXCEPT ![k] = Tail(deferred[k])] /\ reply[k] = NoReply
    BY DEF RunDeferred, HostInvariant, HostTyped
  <1>2. d \in Connection /\ d.life = conn[k].life /\ d.remote = conn[k].remote /\ d.subscribed = conn[k].subscribed
    BY <1>1 DEF Connection
  <1> HIDE DEF d
  <1>3. conn'[k] = d /\ conn' \in [Peers -> Connection]
    BY <1>1, <1>2 DEF HostInvariant, HostTyped
  <1>4. deferred'[k] = <<>> /\ deferred' \in [Peers -> Seq(Nat)]
    <2>1. Tail(deferred[k]) \in Seq(Nat) /\ Len(deferred[k]) <= 1
      BY <1>1 DEF PeerSound, Answering
    <2>2. Tail(deferred[k]) = <<>>
      BY <1>1, <2>1
    <2> QED
      BY <1>1, <2>1, <2>2 DEF HostInvariant, HostTyped
  <1>5. HostTyped'
    BY <1>1, <1>3, <1>4 DEF HostInvariant, HostTyped
  <1>6. \A j \in Peers \ {k} : Untouched(j)
    BY <1>1 DEF HostInvariant, HostTyped, Untouched
  <1>7. PeerSound(k)'
    <2>1. Subscribes(k)' /\ Unheard(k)' /\ Reached(k)' /\ Ordered(k)'
      BY <1>1, <1>2, <1>3 DEF PeerSound, Subscribes, Unheard, Reached, Ordered
    <2>2. Answering(k)'
      <3>1. reply'[k].kind = "none" /\ reply'[k].record = 0
        BY <1>1 DEF NoReply
      <3> QED
        BY <1>4, <3>1 DEF Answering
    <2> QED
      BY <2>1, <2>2 DEF PeerSound
  <1>8. Told(k)' = Told(k) /\ Waits(k)' = {}
    BY <1>1, <1>4 DEF Told, Waits
  <1>9. OnlyPeer(k)
    BY <1>1, <1>6, <1>7, <1>8 DEF OnlyPeer, HostInvariant, HostTyped
  <1> QED
    BY <1>1, <1>2, <1>3, <1>5, <1>9, PeerMoves

\* A record is published.
LEMMA RecordIsPublished ==
  ASSUME HostInvariant, NEW k \in Peers, RunDeferred(k), Head(deferred[k]) # Forward
  PROVE  HostInvariant'
  <1> DEFINE record == Head(deferred[k])
             told == { j \in Peers : conn[j].subscribed }
             shutIt(j) == j \in told /\ Len(feed[j]) = FeedDepth /\ conn[j].life = "open"
             shut(j) == [conn[j] EXCEPT !.life = "shut"]
  <1> HIDE DEF record
  <1>1. /\ deferred[k] \in Seq(Nat) /\ deferred[k] # <<>> /\ reply[k] = NoReply
        /\ deferred' = [deferred EXCEPT ![k] = Tail(deferred[k])]
        /\ UNCHANGED <<reply, outbound, seen, committed, inFlight>>
    BY DEF RunDeferred, HostInvariant, HostTyped
  <1>2. /\ due' = [j \in Peers |-> IF j \in told THEN Append(due[j], record) ELSE due[j]]
        /\ feed' = [j \in Peers |-> IF j \in told /\ Len(feed[j]) < FeedDepth THEN Append(feed[j], record) ELSE feed[j]]
        /\ conn' = [j \in Peers |-> IF shutIt(j) THEN shut(j) ELSE conn[j]]
    BY DEF RunDeferred, record
  <1>3. \A j \in Peers :
            /\ conn[j] \in Connection /\ PeerSound(j) /\ due[j] \in Seq(Nat) /\ feed[j] \in Seq(Nat)
            /\ seen[j] \in Seq(Nat) /\ outbound[j] \in Seq(Message)
    BY DEF HostInvariant, HostTyped
  <1>4. deferred[k] = <<record>> /\ Tail(deferred[k]) = <<>> /\ record \in Nat
    <2>1. Len(deferred[k]) <= 1
      BY <1>3 DEF PeerSound, Answering
    <2> QED
      BY <1>1, <2>1 DEF record
  <1>5. record # 0 /\ record \in Waits(k) /\ record \in 1..committed
    <2>1. record # 0 /\ record \in Waits(k)
      BY <1>4 DEF Waits, Forward, record
    <2> QED
      BY <2>1 DEF HostInvariant, Recorded
  <1>6. \A j \in Peers : shut(j) \in Connection /\ shut(j).life = "shut" /\ shut(j).remote = conn[j].remote
                         /\ shut(j).subscribed = conn[j].subscribed
    BY <1>3 DEF Connection, Lives
  <1> HIDE DEF shut
  <1>7. \A j \in Peers : /\ conn'[j].remote = conn[j].remote /\ conn'[j].subscribed = conn[j].subscribed
                         /\ (IF shutIt(j) THEN conn'[j].life = "shut" ELSE conn'[j].life = conn[j].life)
                         /\ conn'[j] \in Connection
    BY <1>2, <1>3, <1>6
  <1>8. deferred'[k] = <<>> /\ \A j \in Peers \ {k} : deferred'[j] = deferred[j]
    BY <1>1, <1>4 DEF HostInvariant, HostTyped
  <1>9. \A j \in Peers : /\ due'[j] = IF j \in told THEN Append(due[j], record) ELSE due[j]
                         /\ feed'[j] = IF j \in told /\ Len(feed[j]) < FeedDepth THEN Append(feed[j], record) ELSE feed[j]
    BY <1>2
  <1>17. \A j \in Peers :
            /\ Append(due[j], record) \in Seq(Nat) /\ Append(feed[j], record) \in Seq(Nat)
            /\ due[j] \in Seq(Nat) /\ feed[j] \in Seq(Nat)
            /\ Len(Append(feed[j], record)) = Len(feed[j]) + 1
            /\ \A i \in DOMAIN Append(feed[j], record) :
                  Append(feed[j], record)[i] = record \/ (i \in DOMAIN feed[j] /\ Append(feed[j], record)[i] = feed[j][i])
    <2> TAKE j \in Peers
    <2>1. due[j] \in Seq(Nat) /\ feed[j] \in Seq(Nat) /\ record \in Nat
      BY <1>3, <1>4
    <2>2. Append(due[j], record) \in Seq(Nat)
      BY <2>1
    <2> QED
      BY <2>1, <2>2
  <1>10. HostTyped'
    <2>1. conn' \in [Peers -> Connection]
      BY <1>2, <1>7
    <2>2. \A j \in Peers : due'[j] \in Seq(Nat) /\ feed'[j] \in Seq(Nat)
      BY <1>9, <1>17
    <2>3. due' \in [Peers -> Seq(Nat)] /\ feed' \in [Peers -> Seq(Nat)]
      BY <1>2, <2>2
    <2>4. deferred' \in [Peers -> Seq(Nat)]
      BY <1>1, <1>4 DEF HostInvariant, HostTyped
    <2> QED
      BY <1>1, <2>1, <2>3, <2>4 DEF HostInvariant, HostTyped
  <1>11. ASSUME NEW j \in Peers
         PROVE  PeerSound(j)'
    <2>1. Subscribes(j)'
      BY <1>3, <1>7 DEF PeerSound, Subscribes
    <2>2. Unheard(j)'
      BY <1>1, <1>3, <1>7, <1>9 DEF PeerSound, Unheard
    <2>3. Len(feed[j]) <= FeedDepth /\ InOrder(outbound[j])
      BY <1>3 DEF PeerSound, Ordered
    <2>4. Reached(j)'
      <3>1. ASSUME conn'[j].life = "open", conn'[j].subscribed
            PROVE  Reaches(outbound[j], due'[j], seen[j], feed'[j])
        <4>1. conn[j].life = "open" /\ conn[j].subscribed /\ j \in told /\ ~shutIt(j)
          BY <1>7, <3>1
        <4>2. Len(feed[j]) < FeedDepth
          BY <4>1, <2>3, <1>3, HostAssumption
        <4>3. due'[j] = Append(due[j], record) /\ feed'[j] = Append(feed[j], record)
          BY <1>9, <4>1, <4>2
        <4>4. Reaches(outbound[j], due[j], seen[j], feed[j])
          BY <1>3, <4>1 DEF PeerSound, Reached
        <4> QED
          BY <1>3, <1>4, <4>3, <4>4, PublishKeepsNews
      <3> QED
        BY <1>1, <3>1 DEF Reached
    <2>5. Answering(j)'
      BY <1>1, <1>3, <1>8 DEF PeerSound, Answering, NoReply
    <2>6. Ordered(j)'
      <3>1. Len(feed'[j]) <= FeedDepth
        <4>1. feed[j] \in Seq(Nat) /\ Len(Append(feed[j], record)) = Len(feed[j]) + 1
          BY <1>17
        <4>2. feed'[j] = feed[j] \/ (feed'[j] = Append(feed[j], record) /\ Len(feed[j]) < FeedDepth)
          BY <1>9
        <4>3. Len(feed[j]) \in Nat /\ FeedDepth \in Nat
          BY <4>1, HostAssumption
        <4> QED
          BY <2>3, <4>1, <4>2, <4>3
      <3> QED
        BY <1>1, <2>3, <3>1 DEF Ordered
    <2> QED
      BY <2>1, <2>2, <2>4, <2>5, <2>6 DEF PeerSound
  <1>12. \A j \in Peers : Told(j)' \subseteq Told(j) \union {record}
    <2> SUFFICES ASSUME NEW j \in Peers, NEW r \in Told(j)'
                 PROVE  r \in Told(j) \/ r = record
      OBVIOUS
    <2>1. CASE r \in { feed'[j][i] : i \in DOMAIN feed'[j] }
      <3>1. PICK i \in DOMAIN feed'[j] : r = feed'[j][i]
        BY <2>1
      <3>2. (i \in DOMAIN feed[j] /\ r = feed[j][i]) \/ r = record
        <4>1. CASE feed'[j] = feed[j]
          BY <3>1, <4>1
        <4>2. CASE feed'[j] = Append(feed[j], record)
          BY <1>17, <3>1, <4>2
        <4> QED
          BY <1>9, <4>1, <4>2
      <3> QED
        BY <3>2 DEF Told
    <2>2. CASE r \in { outbound'[j][i].record : i \in { p \in DOMAIN outbound'[j] : outbound'[j][p].kind = "news" } }
      BY <1>1, <2>2 DEF Told
    <2> QED
      BY <2>1, <2>2 DEF Told
  <1>13. Waits(k)' = {} /\ \A j \in Peers \ {k} : Waits(j)' = Waits(j)
    BY <1>8 DEF Waits
  <1>14. \A j \in Peers \ {k} : record \notin Waits(j)
    BY <1>5 DEF HostInvariant, Recorded
  <1>15. Recorded'
    <2>1. \A j \in Peers : Told(j) \subseteq 1..committed /\ Waits(j) \subseteq 1..committed
      BY DEF HostInvariant, Recorded
    <2>2. \A j \in Peers : Told(j)' \subseteq 1..committed' /\ Waits(j)' \subseteq 1..committed'
      BY <1>1, <1>5, <1>12, <1>13, <2>1
    <2>3. ASSUME NEW i \in Peers, NEW j \in Peers
          PROVE  Told(i)' \intersect Waits(j)' = {}
      <3>1. Told(i) \intersect Waits(j) = {}
        BY DEF HostInvariant, Recorded
      <3> QED
        BY <1>12, <1>13, <1>14, <3>1
    <2>4. ASSUME NEW i \in Peers, NEW j \in Peers, i # j
          PROVE  Waits(i)' \intersect Waits(j)' = {}
      <3>1. Waits(i) \intersect Waits(j) = {}
        BY <2>4 DEF HostInvariant, Recorded
      <3> QED
        BY <1>13, <2>4, <3>1
    <2> QED
      BY <2>2, <2>3, <2>4 DEF Recorded
  <1>16. SlotsKept
    BY <1>1, <1>7 DEF SlotsKept, Live, ListenerOf
  <1> QED
    BY <1>10, <1>11, <1>15, <1>16, SlotsKeptKeeps DEF HostInvariant

\* Deferred work runs after the answer is queued: the record reaches every feed.
LEMMA RunDeferredKeeps ==
  ASSUME HostInvariant, NEW k \in Peers, RunDeferred(k)
  PROVE  HostInvariant'
  BY ForwarderStarts, RecordIsPublished

(***************************************************************************)
(* The host.                                                               *)
(***************************************************************************)
LEMMA HostStepKeeps ==
  ASSUME HostInvariant, [HostNext]_hostVars
  PROVE  HostInvariant'
  <1>1. CASE UNCHANGED hostVars
    BY <1>1, StandingKeeps DEF hostVars, HostStands
  <1>2. CASE ListenerReturns
    BY <1>2, ListenerReturnsKeeps
  <1>3. CASE RemoteListenerFails
    BY <1>3, StandingKeeps DEF RemoteListenerFails, HostStands
  <1>4. ASSUME NEW k \in Peers,
               \/ (\E remotely \in BOOLEAN : Dial(k, remotely)) \/ (\E m \in Asked[k] : Send(k, m))
        PROVE  HostInvariant'
    <2>1. CASE \E remotely \in BOOLEAN : Dial(k, remotely)
      BY <2>1, DialKeeps
    <2>2. CASE \E m \in Asked[k] : Send(k, m)
      BY <2>2, StandingKeeps DEF Send, HostStands
    <2> QED
      BY <1>4, <2>1, <2>2
  <1>5. ASSUME NEW k \in Peers,
               Accept(k) \/ AcceptRemote(k) \/ RejectOverloaded(k) \/ ForwarderOverflows(k)
        PROVE  HostInvariant'
    BY <1>5, LetInOrOutKeeps
  <1>6. ASSUME NEW k \in Peers,
               ReplyFails(k) \/ LoopEnds(k) \/ WriterDone(k) \/ RequestTimeout(k) \/ HangUp(k)
        PROVE  HostInvariant'
    BY <1>6, EndsKeep
  <1>7. ASSUME NEW k \in Peers,
               HandleLine(k) \/ HandleFails(k) \/ QueueReply(k) \/ RunDeferred(k) \/ ForwardNews(k) \/ ReadMessage(k)
        PROVE  HostInvariant'
    BY <1>7, HandleLineKeeps, HandleFailsKeeps, QueueReplyKeeps, RunDeferredKeeps, ForwardNewsKeeps, ReadMessageKeeps
  <1> QED
    BY <1>1, <1>2, <1>3, <1>4, <1>5, <1>6, <1>7 DEF HostNext

\* An open subscription misses no published record, a client has the answer to its own
\* request before the news of it, and the slots of the listeners are those of the
\* connections that live: for every number of peers, of slots, and every depth of the queues.
THEOREM ConnectionsAreSound == HostSpec => []ConnectionsSound
  <1>1. HostInit => HostInvariant
    BY HostInitially
  <1>2. HostInvariant /\ [HostNext]_hostVars => HostInvariant'
    BY HostStepKeeps
  <1>3. HostInvariant => ConnectionsSound
    BY HostInvariantIsSound
  <1> QED
    BY <1>1, <1>2, <1>3, PTL DEF HostSpec
=============================================================================
