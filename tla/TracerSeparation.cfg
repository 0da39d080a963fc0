CONSTANTS
  Threads = {0, 1}
  Main = 0
  Locks = {0}
  Footprints <- Single
  RegisterThreads = FALSE
  RequireROI = FALSE
  AccessesFlush = 20
  TimestampDifference = 2
  MaxTime = 8
  Program = {"start_roi", "end_roi"}
SPECIFICATION Spec
INVARIANT TimeSeparation
