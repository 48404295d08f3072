SPECIFICATION FairDeliverySpec

CONSTANTS
  e1 = e1
  e2 = e2
  bad = bad
  c1 = c1
  c2 = c2
  EventId = {e1, e2}
  Time = {1}
  Malformed = bad
  Handler = {h1, h2}
  Request <- MCRequest
  MaxBatch = 3
  Proc = {"p1"}
  ProcOf <- OneProc
  Client = {c1, c2}
  BatchId = {1,2,3,4}
  Poller = {q1}
  File <- Crossed
  MaxAttempts = 2
  MaxFaults = 1

INVARIANTS
  PassedIsStored
PROPERTIES
  EventualDelivery

