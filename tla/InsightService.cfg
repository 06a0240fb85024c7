SPECIFICATION Spec
CONSTANTS
  Workers <- MCWorkers
  Inputs <- MCInputs
  NoInput = NoInput
  NoCopy = NoCopy
  Garbage = Garbage
  MaxSnapshots = 2
  w1 = w1
  w2 = w2
  i1 = i1
  i2 = i2
SYMMETRY Symmetry
INVARIANTS
  OnlyValidated
  EveryInsightPersisted
CHECK_DEADLOCK FALSE
