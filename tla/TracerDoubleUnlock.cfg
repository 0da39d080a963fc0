CONSTANTS
  Threads = {0, 1}
  Main = 0
  Locks = {0}
  Footprints <- Single
  RegisterThreads = FALSE
  RequireROI = FALSE
  AccessesFlush = 1
  TimestampDifference = 1
  MaxTime = 7
  Program = {"access", "function", "start_roi"}
SPECIFICATION Spec
INVARIANT MergeContract
