CONSTANTS
    r1 = r1
    r2 = r2
    p1 = p1
    p2 = p2
    Boot = Boot
    Runs = {r1, r2}
    Parallel = {}
    QueueCap = 1
    Children = {}
    Forks = {}
    Parent <- ParentR1
    Clients = {p1, p2}
    Decisions = {"running", "waitingForApproval", "failed"}
    Faults = {}
    Requests = {"start", "decide", "expire", "cancel", "ask"}
    MaxCrashes = 0
SYMMETRY ClientSymmetry
SPECIFICATION Spec
INVARIANTS RunningIsOwned LaunchedWithConsent NoOrphanProvider
PROPERTIES DecisionsFinal
CHECK_DEADLOCK FALSE
