SPECIFICATION Spec

CONSTANTS
  e1 = e1
  e2 = e2
  bad = bad
  h1 = h1
  h2 = h2
  EventId = {e1, e2}
  Time = {1, 2, 3}
  Malformed = bad
  Handler = {h1, h2}
  BatchId = {b1, b2}
  Request <- MCRequest
  MaxBatch = 3
  Proc = {"p1", "p2"}
  ProcOf <- TwoProcs
  Poller = {}

INVARIANTS
  LedgerExplainsRows
  AckedStored
  WatermarkBacked

PROPERTIES
  ImplementsEventStore

SYMMETRY BatchSymmetry
