SPECIFICATION FairSpec
CONSTANTS
  Calls = {"c1", "c2"}
  Principals = {"p", "q"}
  Writes = {"w"}
  Approvers = {"a", "b"}
  Known <- MCKnown
  Claimed <- MCClaimed
  Aliases <- MCAliases
  Policies <- MCPolicies
  Offset <- MCOffset
  TTLs = {1, 2}
  MaxTTL = 1
  Skew = 1
  MaxAge = 1
  MaxReceipts = 2
  Start = 1
  Bounds <- MCBounds
  MaxTokens = 2
  MaxLedgers = 2
CHECK_DEADLOCK FALSE
INVARIANTS
  TypeOK
  ApprovedByAnother
  ApprovedLately
  LivingIsAccepted
  DirectoryBounded
PROPERTIES
  RecentIsKept
  KeepsPromise
