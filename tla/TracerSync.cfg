CONSTANTS
  Threads = {0, 1, 2}
  Main = 0
  Locks = {0}
  Footprints <- Single
  RegisterThreads = FALSE
  RequireROI = FALSE
  AccessesFlush = 2
  TimestampDifference = 20
  MaxTime = 4
  Program = {"access", "function", "start_roi"}
SPECIFICATION Spec
INVARIANTS ThreadLockDiscipline SyncTimeIsLatest MergeContract SyncIsBarrier FinishedIsInFile
