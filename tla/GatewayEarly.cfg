SPECIFICATION Spec
CONSTANTS
  c1 = c1
  c2 = c2
  NoCall = NoCall
  Calls = {c1}
  Pages = 2
  MaxGen = 2
  EarlyNotices = TRUE
INVARIANTS
  DriftIsNoticed
CHECK_DEADLOCK FALSE
