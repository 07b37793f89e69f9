CONSTANTS
    MaxAgentLines = 7
    PipeDepth = 1
    MaxPermissions = 1
    MaxServerLines = 6
    ChannelDepth = 1
    MaxFrames = 2
    MaxPieces = 4
    MaxCallers = 2
    MaxConsecutiveFailures = 2
    EventDepth = 1
    MaxLogins = 2
    MaxStarted = 2
    MaxTokens = 3
SPECIFICATION MCSpec
INVARIANTS  AuthSound
 
CHECK_DEADLOCK FALSE
