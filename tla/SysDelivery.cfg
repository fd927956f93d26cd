SPECIFICATION SystemSpec
CONSTANTS
  PixelCap = 2
  ToaSpan = 2
  Datagrams <- NoDatagrams
  Leftovers = {}
  Tags <- TagSet
  NoTag = NoTag
  FrameRequests <- OneOrTwoFrames
  Modes <- BothModes
  ReportEnabled = TRUE
  FailEnabled = TRUE
  MaxRecv = 20
  MaxBegin = 1
  MaxAbort = 1
  StageCap = 20
  OffsetPeriod = 1
  MdSize = 6
  Second = 2
  Rate = 0
  Burst = 13
  WordMax = 63
  Hits = 2
  Lost = 0
  FrameLens <- OddFrameLength
  Steps <- TwoTicks
  Caps <- LargeDatagram
  MaxTime = 6
  MaxFaults = 0
  MaxStart = 2
  MaxStop = 1
INVARIANTS
  Balanced
  SuccessLeavesNothing
PROPERTIES
  DeliversFrames
  HitTimesArrive
CHECK_DEADLOCK FALSE
