SPECIFICATION Spec
CONSTANTS
  N = 5
  Day <- MCDay
  BatchSize = 2
  MaxKeys = 2
  ReplayBatch = 2
  ChallengeFormat = FALSE
  MaxRuns = 2
  MaxRepeats = 2
INVARIANTS
  LogFollowsEmission
  DuplicatesAreFar
  ReplayRestores
