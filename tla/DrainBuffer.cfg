CONSTANTS
  TotalCapacity = 8
  Inputs <- Lengths
SPECIFICATION FairSpec
INVARIANTS TypeOK NoSharing
PROPERTIES IsPipe Delivers
