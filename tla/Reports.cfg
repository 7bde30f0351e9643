SPECIFICATION Spec
CONSTANTS
  Asha = Asha
  Ravi = Ravi
  Admin = Admin
  AdminId = Admin
  Id2 = Id2
  Id3 = Id3
  Id4 = Id4
  Ids <- MCIds
  Names <- MCNames
  Balances = {0, 1, 2}
  Low = 2
  High = 3
  Default = 2
  MaxResults = 1
  MaxAccounts = 4
  MaxLines = 6
INVARIANT TypeOK
PROPERTIES ListingIsSorted PrintedIsExact
CHECK_DEADLOCK FALSE
