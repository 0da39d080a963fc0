CONSTANTS
  Tids = {0, 1}
  MaxTime = 4
  MaxLines = 7
  MaxDamaged = 4
  Reuse = FALSE
SPECIFICATION Spec
INVARIANTS TypeOK AssertsHold HeapHasHeads MergesAllAllowable TestPasses CompareIsExact CompareTellsWhere
PROPERTY SortsStream
CHECK_DEADLOCK FALSE
