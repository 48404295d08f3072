SPECIFICATION Spec
CONSTANTS
  z1 = z1
  q1 = q1
  t1 = t1
  t2 = t2
  Track = {t1, t2}
  Zone = {z1}
  Queue = {q1}
  Position <- MCPosition
  Lines = 2
  Coord <- MCCoord
  Nowhere = nowhere
  Unseen = unseen
  Scene <- MCScene
  Area <- MCArea
  MinMove = 3
  Debounce = 2
  Cooldown = 4
  Grace = 1
  Threshold = 2
  Interval = 2
  TrackTimeout = 2
  DepthInterval = 1
  MaxStep = 2
  MaxVisits = 2
INVARIANTS
  VisitIsPresence
PROPERTIES
  DeliberateCrossingFires
  JitterFiresOnce
