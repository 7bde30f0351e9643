SPECIFICATION Spec
CONSTANTS
  PinLen = 3
  LineMax = 3
  Longest = 5
INVARIANTS TypeOK OnlyEnterIsLeftOver PinMasked EchoComesBack
PROPERTIES EofEndsInMenu EofConfirmsNothing
