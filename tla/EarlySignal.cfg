SPECIFICATION Spec
CONSTANTS
  MaxAccounts = 2
  MaxRev = 1
  MaxRevised = 1
  MaxDamaged = 1
  Faults = {}
  Admin = Admin
  Asha = Asha
  Ravi = Ravi
  Uma = Uma
  AdminId = Admin
  Ids <- MCIds
  SignalAt <- Anywhere
PROPERTY SavesWhatWasLoaded
