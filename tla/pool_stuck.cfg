SPECIFICATION FairSpec
CONSTANTS
    NumWorkers = 1
    NumTasks = 12
    ChanFactor = 10
    TaskOutcomes <- FirstFails
PROPERTIES
    ErrorReturned
CHECK_DEADLOCK FALSE
