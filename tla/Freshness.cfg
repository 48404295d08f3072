SPECIFICATION Spec
CONSTANTS
  c1 = c1
  c2 = c2
  s1 = s1
  Camera = {c1, c2}
  Store = {s1}
  StoreOf <- MCStoreOf
  StaleWarn = 1
  StaleDown = 2
  LagWarn = 1
  LagDown = 2
  FeedWarn = 1
  FeedCritical = 2
  Limit = 1
  Others <- MCOthers
  Skew = 1
  MaxTime = 2
INVARIANTS
  OkMeansHeard
  StaleIsReported
