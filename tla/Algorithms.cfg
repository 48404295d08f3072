SPECIFICATION CallSpec
CONSTANTS
  Eps = 3
  RowSamples = 2
  BaselineSamples = 3
  ZWarn = 2
  ZCritical = 3
  DepthAlarm = 15
  MaxActions = 5
  None = None
  Null = Null
  t1 = t1
  t2 = t2
  Tracks = {t1, t2}
  TrackName <- MCTrackName
  MaxDrops = 2
  TrackTimeout = 1
  MaxPoints = 2
  GroupMin = 2
  GroupWindow = 1
  MaxReads = 5
  SamplesHigh = 3
  SamplesMedium = 2
  MinVisits = 1
  Unit = 2
  Width = 8
  Height = 4
  Resolution = 2
  MaxRows = 3
  MaxSamples = 4
  z1 = z1
  q1 = q1
  MaxAge = 2
  Overlap = 3
  KeyInterval = 2
  MaxKeyframes = 4
  Coordinates = {0, 1, 2}
INVARIANTS
  GapsDoNotShift
  SpikeIsSeen
  CongestionIsActedOn
  ExportIsStable
  FramesAccountedFor
  TracksFollowSightings
  VideosFailAlone
  QueriesAgree
  HeatmapAddsUp
  DetectionsAreTracked
  CrossingIsSideChange
