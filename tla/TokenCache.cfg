SPECIFICATION FairSpec
CONSTANTS
  c1 = c1
  c2 = c2
  NoCall = NoCall
  Calls = {c1, c2}
  Providers = {"entra", "c1"}
  Lifetimes = {1, 3}
  Skew = 2
  Floor = 1
  Timeout = 1
  Plans <- MCPlans
  MaxTime = 3
  MaxTokens = 2
INVARIANTS
  TypeOK
  TokenOutlivesRequest
  ErrorsAreClean
  SentAtMost
PROPERTIES
  RefreshedOnce
  CallReturns
