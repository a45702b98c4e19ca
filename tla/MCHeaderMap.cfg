SPECIFICATION Spec
CONSTANTS
  Names <- MCNames
  Values = {v, w}
  HashFunctions <- MCHashFunctions
  Capacities = {0}
  TableSizes = {2, 4, 8, 16}
  LoadFactor = 60
  LoadFactors = {60, 95}
  ShrinkPercent = 30
  GrowFactor = 2
INVARIANTS TypeOK RobinHood OneBucketEach NeverFull
PROPERTIES ImplementsFieldMap CallsReturn
