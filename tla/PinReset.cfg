SPECIFICATION Spec
CONSTANTS
  Timeout = 2
  MaxAttempts = 4
  Admin = Admin
  Asha = Asha
  Ravi = Ravi
  Pin1 = Pin1
  Pin2 = Pin2
  NoId = NoId
  DefaultPin = DefaultPin
  AdminId = Admin
  Ids <- MCIds
  Pins <- MCPins
SYMMETRY Symmetry
PROPERTY ResetUnlocks
