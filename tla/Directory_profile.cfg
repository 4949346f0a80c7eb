SPECIFICATION DirectorySpec
CONSTANTS
  Seeders = {}
  Walkers = {w1}
  PermissionsData <- SomePermissions
  Claimed = {}
  Other = Other
  None = None
  MaxUsers = 5
  PageSize = 2
  MaxClock = 3
INVARIANTS
  ProfileForEveryone
CHECK_DEADLOCK FALSE
