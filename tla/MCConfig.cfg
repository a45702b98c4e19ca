SPECIFICATION Spec
CONSTANTS
  MaxArgs = 3
INVARIANTS TypeOK 
CHECK_DEADLOCK FALSE
