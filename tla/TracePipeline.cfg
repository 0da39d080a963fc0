CONSTANTS
  Threads = {0, 1}
  Main = 0
  Locks = {0}
  Footprints <- Single
  RegisterThreads = TRUE
  RequireROI = TRUE
  AccessesFlush = 20
  TimestampDifference = 2
  MaxTime = 5
  Program = {"access", "cas", "function", "register", "start_roi"}
SPECIFICATION PipelineSpec
INVARIANTS MergeContract SyncIsBarrier FinishedIsInFile UtilitySucceeds OutputIsExecution
PROPERTY ClocksAdvance
