SPECIFICATION MCSpec
CONSTANTS
  Replies <- SomeReplies
  Policy <- SomePolicy
  ParallelSafe = {"read", "ask"}
  ParallelClient = TRUE
  MaxTurns = 2
  MaxContextRetries = 1
  MaxContinuations = 1
  MaxConcurrent = 2
  Texts <- MCTexts
  Disks <- MCDisks
  ParentPaths = {"up"}
  LinkPaths = {"out"}
  MaxFaults = 1
  MaxServers = 2
  MaxMcpCalls = 2
  ToolLists <- MCToolLists
  Builtins = {"shell"}
  Commands <- MCCommands
  MaxStuck = 1
  MaxLines = 1
  MaxBytes = 2
  Chunks <- MCChunks
  MaxOutput = 3
INVARIANTS TurnSound  
 
CHECK_DEADLOCK FALSE
