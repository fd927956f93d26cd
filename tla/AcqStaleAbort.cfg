SPECIFICATION CarefulSpec
CONSTANTS
  PixelCap = 2
  ToaSpan = 4
  Datagrams <- FrameDatagrams
  MdSize = 6
  Leftovers <- StaleData
  Tags <- TagSet
  NoTag = NoTag
  FrameRequests <- OneFrame
  Modes <- BothModes
  ReportEnabled = TRUE
  FailEnabled = TRUE
  MaxRecv = 2
  MaxBegin = 2
  MaxAbort = 1
INVARIANT UnabortedReadCompletes
CHECK_DEADLOCK FALSE
