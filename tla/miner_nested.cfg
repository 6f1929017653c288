SPECIFICATION Spec
CONSTANTS
  Comparability <- TokenComparability
  Changes = {1}
  Dtraces <- Transfers
  NumCalls = 2
  NumChecks = 0
  Thresholds <- One
INVARIANT Collected
CHECK_DEADLOCK FALSE
