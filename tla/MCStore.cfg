CONSTANTS
    Sessions = {"s1"}
    Runs = {1, 2}
    SessionOf <- OneSession
    MaxApprovals = 1
    MaxSeq = 6
    Batch = 2
    PageLimit = 1
SPECIFICATION QueriesSpec
INVARIANTS TablesAgree  
PROPERTIES ImplementsJournal
CHECK_DEADLOCK FALSE
CONSTRAINT WalkOrReceipts
