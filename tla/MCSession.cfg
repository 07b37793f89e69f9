CONSTANTS
    a = a
    b = b
    Publishers = {a, b}
    Subscribers <- Connections
    BacklogCap = 1
    SubscriberCap = 1
    MaxEvents = 3
    MaxLosses = 1
    Tasks = {1, 2}
    NoRun = 0
    Parents <- SomeParents
    Sources <- SomeSources
    Contracts <- SomeContracts
    Results <- SomeResults
    Totals = {3}
    PerRun <- RunLimit
    Aggregate <- FamilyLimit
    U32 = 3
    MaxReported = 6
    ToolCalls = {1, 2}
    Deciders = {"d1", "d2"}
    Dispatches <- SomeDispatches
    Shelves = {1, 2}
    Reads <- SomeReads
    Turned <- SomeTurned
    UsizeMax = 7
INIT SidesInit
NEXT SidesNext
INVARIANTS PortSound  
CHECK_DEADLOCK FALSE
