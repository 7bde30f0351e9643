SPECIFICATION Spec
CONSTANTS
  Asha = Asha
  Ravi = Ravi
  Ids <- MCIds
  Amounts = {1, 2}
  MaxOps = 3
  SignalMidway = FALSE
INVARIANTS TypeOK  TransfersKeptWhole
PROPERTY Atomic
