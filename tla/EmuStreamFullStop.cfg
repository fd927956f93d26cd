SPECIFICATION Spec
CONSTANTS
  StageCap = 4
  OffsetPeriod = 2
  ToaSpan = 2
  MdSize = 6
  Second = 2
  Rate = 0
  Burst = 13
  WordMax = 63
  Hits = 2
  Lost = 1
  FrameCounts <- UpToTwoFrames
  FrameLens <- ShortFrames
  Modes <- BothModes
  Steps <- SmallSteps
  Caps <- SomeCaps
  MaxTime = 12
  MaxStart = 6
  MaxArm = 1
INVARIANTS
  StopTerminates
CHECK_DEADLOCK FALSE
