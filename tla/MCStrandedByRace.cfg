CONSTANTS
    r1 = r1
    r2 = r2
    p1 = p1
    Boot = Boot
    Runs = {r1, r2}
    Parallel = {}
    QueueCap = 1
    Children = {}
    Forks = {}
    Parent <- ParentR1
    Clients = {p1}
    Decisions = {"running"}
    Faults = {}
    Requests = {"start"}
    MaxCrashes = 0
SPECIFICATION Spec
INVARIANTS QueueIsServed
CHECK_DEADLOCK FALSE
