CONSTANTS
  Lines <- SomeLines
  InitialCapacity = 3
  MaxEntries = 3
SPECIFICATION Spec
INVARIANT RepInv
PROPERTY IsFifo
