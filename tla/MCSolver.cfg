CONSTANTS
  Modes <- MCModes
  Speeds = {1, 3, 5}
  MaxCount = 3
  MaxSubsteps = 2
  MaxFrames = 2
  MaxFailures = 1
SPECIFICATION Spec
CHECK_DEADLOCK FALSE
INVARIANTS
  EveryTextureHasItsPlace
  ReadsAreWritten
  WorkKeepsItsFields
  SlotsHoldAFinishedStep
  SubstepsKeepCfl
PROPERTIES
  NoGrowth
