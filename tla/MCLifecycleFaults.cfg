CONSTANTS
    r1 = r1
    r2 = r2
    p1 = p1
    Boot = Boot
    Runs = {r1, r2}
    Parallel = {}
    QueueCap = 1
    Children = {}
    Forks = {}
    Parent <- ParentR1
    Clients = {p1}
    Decisions = {"running", "waitingForApproval", "failed"}
    Faults = {"launch", "profile"}
    Requests = {"start", "decide", "cancel", "ask"}
    MaxCrashes = 1
SPECIFICATION FairSpec
INVARIANTS LaunchedOnce
PROPERTIES WorkEnds
CHECK_DEADLOCK FALSE
