CONSTANTS
  num_threads = 2
  InsertTotal = 5
  Tids <- AllTids
  MaxUnread = 2
  ContextChanges = 1
SPECIFICATION FairTraceSpec
INVARIANTS TypeOK InsertsAll SimMatchesProgram FailsMatch SimAccepts
PROPERTIES IsFetchAndAdd RunEnds
