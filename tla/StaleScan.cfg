SPECIFICATION FairSpec
CONSTANTS
  Providers = {"entra", "okta", "c1", "lumos", "sailpoint"}
  Tools = {"scan", "list", "access", "members"}
  PageSize = 2
  MaxLimit = 3
  MaxPages = 3
  ScanCap = 6
  ListCap = 3
  MinPage = 2
  AccessCap = 3
  RowCap = 4
  Directories <- MCDirectories
  Widths = {1, 4, 7}
  Limits <- MCLimits
  Samples = {0, 2}
  Disabled <- MCDisabled
  MaxErrors = 1
INVARIANTS
  NothingMissed
  CallIsBounded
PROPERTIES
  NoRepeats
  WalkEnds
