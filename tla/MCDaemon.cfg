CONSTANTS
    p1 = p1
    p2 = p2
    p3 = p3
    Procs = {p1, p2, p3}
    Intents = {"start", "reconcile", "reset", "enable", "disable", "stop"}
    ServiceAvailable = TRUE
    Outcomes = {"ok", "failed"}
    ByHand = TRUE
    MaxInstances = 3
    MaxFaults = 1
    MaxCrashes = 0
    Daemons = {1, 2}
    MaxBoots = 3
    MaxPolls = 1
    MaxCommands = 1
    LogLengths = {0, 1, 2, 3}
    Tails = {0, 1, 2}
    Guests = {"g1", "g2"}
    Frames <- SomeFrames
    MaxGuests = 1
    MaxFrames = 2
    Environments <- SomeEnvironments
    PersistedModes = {"missing", "broken", "background"}
    MaxLaunches = 3
    Definitions = {1, 2}
    MaxServiceOps = 3
    MaxVersions = 3
INIT SidesInit
NEXT SidesNext
SYMMETRY ProcSymmetry
INVARIANTS HandoffSound  RemoteSound StartHolds
PROPERTIES OwnershipKept
CHECK_DEADLOCK FALSE
