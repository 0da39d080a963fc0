CONSTANTS
  Threads = {0, 1}
  Main = 0
  Locks = {0,1}
  Footprints <- Straddle
  RegisterThreads = FALSE
  RequireROI = FALSE
  AccessesFlush = 1
  TimestampDifference = 1
  MaxTime = 3
  Program = {"access", "cas","fault","ctxt","detach"}
SPECIFICATION FairSpec
PROPERTY RoutinesReturn
