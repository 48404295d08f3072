SPECIFICATION Spec
CONSTANTS
  v1 = v1
  Key = {v1}
  ReentryWindow = 1
  MatchWindow = 1
  MaxTime = 5
  MaxSessions = 3
  MaxSales = 1
INVARIANTS
  VisitsCountedOnce
  MetricsAgreeWithFunnel
  SalesMatchSightings
PROPERTIES
  FunnelNeverShrinks
