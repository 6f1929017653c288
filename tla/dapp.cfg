CONSTANTS
    TxFiles <- MCTxFiles
    Contents <- MCContents
    TrainNums <- MCTrainNums
    LastMined = 10
    CheckNum = 2
    Width = 2
    MaxCrashes = 1
    Missing = Missing
    Torn = Torn
SPECIFICATION Spec
INVARIANTS TypeOK CallsExact NoGap OneVerdict
PROPERTIES CacheKept DoneOrStuck
CHECK_DEADLOCK FALSE
