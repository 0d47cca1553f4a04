SPECIFICATION Spec
CONSTANTS
  Calls = {c1, c2}
  Schema <- MCSchema
  Deployments <- MCDeployments
  PerCall <- MCPerCall
  Arguments <- MCArguments
  ValidScopes = {"grp:write", "req:write", "dir:read"}
  HardCap = 3
  MaxJSONDepth = 16
  Json <- MCJson
  Schemas <- MCSchemas
  MaxSent = 2
SYMMETRY Symmetry
CHECK_DEADLOCK FALSE
INVARIANTS
  TargetsAreSpared
  DutiesStaySeparate
  LimitsHold
  PoliciesFit
  ListedIsCallable
