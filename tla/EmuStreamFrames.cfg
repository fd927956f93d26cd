SPECIFICATION FairSpec
CONSTANTS
  StageCap = 4
  OffsetPeriod = 2
  ToaSpan = 2
  MdSize = 6
  Second = 2
  Rate = 0
  Burst = 13
  WordMax = 63
  Hits = 2
  Lost = 1
  FrameCounts <- UpToTwoFrames
  FrameLens <- ShortFrames
  Modes <- BothModes
  Steps <- TwoTicks
  Caps <- WholeDataCaps
  MaxTime = 14
  MaxStart = 2
  MaxArm = 2
INVARIANTS
  StreamWellFormed
  FinishedCountsHits
PROPERTIES
  Drains
CHECK_DEADLOCK FALSE
