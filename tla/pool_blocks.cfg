SPECIFICATION FairSpec
CONSTANTS
    NumWorkers = 2
    NumTasks = 5
    ChanFactor = 1
    TaskOutcomes <- BlockOutcomes
    Substates <- RecordedBlocks
    TxList <- Entries
    FirstBlock = 0
    LastBlock = 4
    SkipTransferTxs = TRUE
    SkipCallTxs = FALSE
    SkipCreateTxs = FALSE
INVARIANTS
    TypeOK
    TasksConserved
    CountedSucceeded
    StopTokensSuffice
    BlockTotal
    LoopGivesResults
PROPERTIES
    QuietAfterReturn
    ImplementsBatch
    SoundTermination
CHECK_DEADLOCK FALSE
