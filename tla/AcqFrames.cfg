SPECIFICATION FairDecodingSpec
CONSTANTS
  PixelCap = 2
  ToaSpan = 4
  Datagrams <- AllDatagrams
  MdSize = 6
  Leftovers <- StaleData
  Tags <- TagSet
  NoTag = NoTag
  FrameRequests <- AnyFrames
  Modes <- BothModes
  ReportEnabled = TRUE
  FailEnabled = TRUE
  MaxRecv = 3
  MaxBegin = 2
  MaxAbort = 1
INVARIANTS
  PixelsConserved
  BufferSafety
  ReportsInOrder
  ReportsWhatWasHanded
  VerdictJustified
  DecodedAsArrived
PROPERTIES
  VerdictIsFinal
  DriedUpReadEnds
CHECK_DEADLOCK FALSE
