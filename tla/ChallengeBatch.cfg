SPECIFICATION FairSpec
CONSTANTS
  c1 = c1
  c2 = c2
  c3 = c3
  s1 = s1
  s2 = s2
  Cams <- MCCams
  Stores <- MCStores
  StoreOf <- MCStoreOf
  Size <- MCSize
  Returns <- MCReturns
  MaxFaults = 2
  MaxFresh = 1
INVARIANTS
  MarkedIsWhole
  StoredOnce
PROPERTY
  EveryCameraReported
