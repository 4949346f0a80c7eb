SPECIFICATION TableSpec
CONSTANTS
  Seeders = {s1, s2}
  PermissionsData <- SomePermissions
  Claimed = {"USER"}
  Other = Other
  None = None
  MaxUsers = 4
  MaxClock = 1
SYMMETRY Symmetry
INVARIANTS
  TableTypeOK
  SeedComplete
  SeedProgress
CHECK_DEADLOCK FALSE
