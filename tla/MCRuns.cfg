CONSTANTS
    r1 = r1
    r2 = r2
    r3 = r3
    w1 = w1
    w2 = w2
    Runs = {r1, r2, r3, w1, w2}
    Parallel = {w1, w2}
    QueueCap = 2
    MaxStored = 2
    a = a
    b = b
    w = w
    Publishers = {a, b}
    Subscribers = {w}
    BacklogCap = 1
    SubscriberCap = 2
    ChannelCap = 1
    ReplayCap = 2
    MaxEvents = 3
SPECIFICATION SidesSpec
INVARIANTS ScheduleSound SpliceSound
PROPERTIES NoOvertaking EventuallyLeavesQueue StreamCompletes
CHECK_DEADLOCK FALSE
