SPECIFICATION Spec
CONSTANTS
  Sizes = {1, 2}
  MaxResponses = 2
  FaultSets = {{}, {"change"}, {"unreadable", "diskFull"}}
INVARIANTS TypeOK LengthMatchesBody BodyIsTarget NothingCarriedOver
CHECK_DEADLOCK FALSE
