SPECIFICATION Spec
CONSTANTS
  p1 = p1
  p2 = p2
  alice = alice
  bob = bob
  t1 = t1
  sam = sam
  admin = admin
  audit_role = audit_role
  NoToken = NoToken
  NoRef = NoRef
  NoProc = NoProc
  Procs = {p1, p2}
  Principals = {alice}
  Tokens = {t1}
  Subjects = {sam}
  Entitlements = {admin, audit_role}
  Conflicts <- OneRule
  Static <- NoStatic
  Writes <- BudgetWrites
  LastUse <- LateExpiry
  Minute = 2
  BudgetWindow = 4
  MaxCalls = 1
  MaxTargets = 2
  MaxChallenges = 1
  CompactAt = 3
  Ops = {"commit", "challenge"}
  Faults = {}
  RepairFaults = FALSE
  ReuseInodes = FALSE
  MaxStale = 1
  MaxFaults = 0
  MaxAudit = 5
  MaxClock = 5
SYMMETRY Processes
INVARIANTS
  TypeOK
  VerifyAuditPasses
  AtMostOnce
  BudgetRespected
  ChallengeLimit
