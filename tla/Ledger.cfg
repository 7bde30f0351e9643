SPECIFICATION Spec
CONSTANTS
  Period = 2
  Span = 2
  DayLength = 2
  Cells = 2
  NamesOther = {2}
  Buffer = 3
  MaxLines = 2
  NoOne = NoOne
  Amounts = {1}
  MaxClock = 2
  MaxRuns = 2
  MaxDrawn = 3
  MaxCalls = 4
  MaxFaults = 2
INVARIANTS TypeOK StatementIsNewest WrittenIsRead MisreadOnlyBehindTorn LastLineIsBalance TxnIdsRepeatAcrossRunsOnly StrangersLinesAreRare
CHECK_DEADLOCK FALSE
