CONSTANTS
  t1 = t1
  t2 = t2
  nobody = nobody
  Threads <- TwoThreads
  Nobody = nobody
  MaxAddress = 3
  Sizes = {2}
  MaxOperands = 3
  MaxKnob = 2
CONSTRAINT FewOperands
SYMMETRY Symmetry
SPECIFICATION Spec
INVARIANTS TypeOK ConflictsExclude LocksFitInstruction LineTellsAccess
