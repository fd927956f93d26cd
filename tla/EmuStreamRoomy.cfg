SPECIFICATION Spec
CONSTANTS
  StageCap = 26
  OffsetPeriod = 2
  ToaSpan = 2
  MdSize = 6
  Second = 2
  Rate = 5
  Burst = 13
  WordMax = 63
  Hits = 3
  Lost = 1
  FrameCounts <- UpToTwoFrames
  FrameLens <- LongFrame
  Modes <- DataDriven
  Steps <- UnevenSteps
  Caps <- SomeCaps
  MaxTime = 16
  MaxStart = 6
  MaxArm = 1
INVARIANTS
  StopTerminates
  HitTimesNeverAhead
  RateRespected
PROPERTIES
  CreditAccrues
CHECK_DEADLOCK FALSE
