SPECIFICATION FairSpec
CONSTANTS
  c1 = c1
  c2 = c2
  NoCall = NoCall
  Calls = {c1, c2}
  Pages = 2
  MaxGen = 3
  EarlyNotices = FALSE
INVARIANTS
  TypeOK
  DriftIsNoticed
  CallsAreExclusive
PROPERTIES
  NoReadOnNoticedDrift
  NoWriteOnDrift
  NothingAfterPoison
  Answered
CHECK_DEADLOCK FALSE
