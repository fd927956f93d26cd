SPECIFICATION FairSpec
CONSTANTS
  Threads = {t1, t2}
  NoThread = NoThread
  Functions <- FewFunctions
  Uploads = TRUE
  Dacs = 1
  Patience = 2
  Chunks = 2
  ChunkWords = 4
  CmdWords = 2
  Fillers = 3
  MaxDrain = 5
  MaxAttempts = 2
  MaxAcks = 2
  QueueCap = 2
  Lossy <- AllButUpload
  MaxLate = 1
  MaxLoss = 1
  MaxFail = 1
  MaxCalls = 2
INVARIANTS
  AckIsOwn
  OkMeansDone
  UploadClosed
PROPERTIES
  EveryCallReturns
CHECK_DEADLOCK FALSE
