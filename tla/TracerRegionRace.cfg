CONSTANTS
  Threads = {0, 1}
  Main = 0
  Locks = {0}
  Footprints <- Single
  RegisterThreads = FALSE
  RequireROI = TRUE
  AccessesFlush = 20
  TimestampDifference = 20
  MaxTime = 6
  Program = {"access", "start_roi", "end_roi"}
SPECIFICATION Spec
INVARIANT MemoryOnlyInROI
