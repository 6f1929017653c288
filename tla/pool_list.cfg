SPECIFICATION FairSpec
CONSTANTS
    NumWorkers = 2
    NumTasks = 5
    ChanFactor = 2
    TaskOutcomes <- ListOutcomes
    Substates <- RecordedBlocks
    TxList <- Entries
    FirstBlock = 0
    LastBlock = 1
    SkipTransferTxs = FALSE
    SkipCallTxs = FALSE
    SkipCreateTxs = FALSE
INVARIANTS
    SendersNeverStuck
    ListTotal
PROPERTIES
    Termination
