SPECIFICATION FairSystemSpec
CONSTANTS
  PixelCap = 2
  ToaSpan = 4
  Datagrams <- NoDatagrams
  Leftovers = {}
  Tags <- TagSet
  NoTag = NoTag
  FrameRequests <- TwoFrames
  Modes <- Sequential
  ReportEnabled = FALSE
  FailEnabled = FALSE
  MaxRecv = 20
  MaxBegin = 1
  MaxAbort = 0
  StageCap = 20
  OffsetPeriod = 2
  MdSize = 6
  Second = 2
  Rate = 0
  Burst = 13
  WordMax = 63
  Hits = 1
  Lost = 0
  FrameLens <- OddFrameLength
  Steps <- TwoTicks
  Caps <- SmallDatagram
  MaxTime = 6
  MaxFaults = 1
  MaxStart = 0
  MaxStop = 1
INVARIANTS
  CompletedFramesHappened
PROPERTIES
  EveryReadEnds
CHECK_DEADLOCK FALSE
