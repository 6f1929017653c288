SPECIFICATION Spec
CONSTANTS
  Comparability <- TokenComparability
  Changes = {1}
  Dtraces <- Transfers
  NumCalls = 4
  NumChecks = 1
  Thresholds <- OneAndHalf
INVARIANTS TypeOK  
CHECK_DEADLOCK FALSE
