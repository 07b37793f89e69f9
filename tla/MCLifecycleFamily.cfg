CONSTANTS
    r1 = r1
    k1 = k1
    p1 = p1
    Boot = Boot
    f1 = f1
    Runs = {r1, k1, f1}
    Parallel = {k1}
    QueueCap = 1
    Children = {k1}
    Forks = {f1}
    Parent <- ParentR1
    Clients = {p1}
    Decisions = {"running", "waitingForApproval"}
    Faults = {"prepare", "receipt"}
    Requests = {"start", "child", "fork", "decide", "cancel", "budget"}
    MaxCrashes = 0
SPECIFICATION Spec
INVARIANTS SlotsSound
CHECK_DEADLOCK FALSE
