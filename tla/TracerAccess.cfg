CONSTANTS
  Threads = {0, 1}
  Main = 0
  Locks = {0, 1}
  Footprints <- Straddle
  RegisterThreads = FALSE
  RequireROI = FALSE
  AccessesFlush = 2
  TimestampDifference = 20
  MaxTime = 5
  Program = {"access", "cas"}
SPECIFICATION Spec
INVARIANT TypeOK
PROPERTIES ClocksAdvance ImplementsAtomicOrder
