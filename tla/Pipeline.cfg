SPECIFICATION Spec
CONSTANTS
  Track = {t1, t2}
  Zone = {z1}
  Timeout = 1
  MaxCompleted = 2
  MaxMappings = 1
  ReentryWindow = 1
  GalleryMax = 1
  RoiChoices <- AllOrNone
  MaxTime = 4
  MaxVisitors = 3
  MaxDrops = 1
SYMMETRY TrackSymmetry
INVARIANTS
  MappingsLive
  SequenceIdentity
  OpenVisitsAreInside
PROPERTIES
  ImplementsVisits
CHECK_DEADLOCK FALSE
