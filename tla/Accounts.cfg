SPECIFICATION Spec
CONSTANTS
  SavingsLimit = 10000000
  CurrentLimit = 40000000
  SalaryLimit  = 20000000
  MinDeposit   = 200
  MaxSingleTxn = 100000000
  SavingsRate  = 7
  SalaryRate   = 8
  MaxAccounts  = 3
  MinInitial   = 100000
  MaxEntries   = 4
  MaxLost      = 1
  MaxDay       = 2
  Admin = Admin
  Asha = Asha
  Ravi = Ravi
  AdminId = Admin
  Ids <- MCIds
  Amounts <- MCAmounts
SYMMETRY Symmetry
INVARIANTS TypeOK StatementAddsUp DailyLimitHonoured Reconciled DashboardReconciles RemainingIsUsable
PROPERTIES FrozenIsInert TransferConserves
