SPECIFICATION Spec
CONSTANTS
  Asha = Asha
  Ravi = Ravi
  Ids <- MCIds
  Amounts = {1, 2}
  MaxOps = 2
  SignalMidway = TRUE
INVARIANT NoPartialStates
