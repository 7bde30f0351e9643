SPECIFICATION FairSpec
CONSTANTS
  MaxAccounts = 3
  MaxRev = 1
  MaxRevised = 1
  MaxDamaged = 1
  Faults = {"log", "open", "read", "flush"}
  Admin = Admin
  Asha = Asha
  Ravi = Ravi
  Uma = Uma
  AdminId = Admin
  Ids <- MCIds
  SignalAt <- Prompts
INVARIANTS TypeOK UniqueIds
PROPERTIES SaveIsWhole Durable PromptOrStop
