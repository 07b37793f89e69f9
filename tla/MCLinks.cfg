CONSTANTS
  k1 = k1
  k2 = k2
  Issues = {1, 2, 3}
  PullRequests = {3}
  Workflows <- TwoWorkflows
  WorkUsers = {u1}
  PageSize = 1
  MaxPages = 2
  MaxVersion = 2
  MaxWorkRuns = 2
  Clients = {c1}
  MaxCredential = 2
  MaxAuthority = 2
  MaxRequestId = 3
  Peers = {k1, k2}
  Asked <- PeerLines
  MaxInFlight = 1
  MaxLines = 4
  OutboundDepth = 1
  FeedDepth = 1
  MaxRecords = 1
SPECIFICATION LinksSpec
INVARIANTS  CredentialsSound 
PROPERTIES DecisionKept StopReturns
CHECK_DEADLOCK FALSE
