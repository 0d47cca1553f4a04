SPECIFICATION Spec
CONSTANTS
  p1 = p1
  p2 = p2
  alice = alice
  bob = bob
  t1 = t1
  sam = sam
  admin = admin
  audit_role = audit_role
  NoToken = NoToken
  NoRef = NoRef
  NoProc = NoProc
  Procs = {p1, p2}
  Principals = {alice}
  Tokens = {t1}
  Subjects = {sam}
  Entitlements = {admin, audit_role}
  Conflicts <- OneRule
  Static <- NoStatic
  Writes <- GrantWrites
  LastUse <- TokenExpiry
  Minute = 1
  BudgetWindow = 1
  MaxCalls = 0
  MaxTargets = 0
  MaxChallenges = 0
  CompactAt = 100
  Ops = {"audit", "commit", "revoke"}
  Faults = {"power"}
  RepairFaults = FALSE
  ReuseInodes = FALSE
  MaxStale = 0
  MaxFaults = 2
  MaxAudit = 3
  MaxClock = 0
SYMMETRY Processes
INVARIANTS
  Recoverable
  ForwardIsAudited
  AllowIsCommitted
