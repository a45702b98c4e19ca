SPECIFICATION Spec
CONSTANTS
  Sizes = {1}
  MaxResponses = 1
  FaultSets = {{"diskFull"}}
INVARIANTS FailedCompressionSendsPlain
CHECK_DEADLOCK FALSE
