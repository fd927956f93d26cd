SPECIFICATION Spec
CONSTANTS
  Threads = {t1}
  NoThread = NoThread
  Functions <- OneFunction
  Uploads = TRUE
  Dacs = 1
  Patience = 2
  Chunks = 2
  ChunkWords = 4
  CmdWords = 2
  Fillers = 4
  MaxDrain = 6
  MaxAttempts = 2
  MaxAcks = 2
  QueueCap = 3
  Lossy <- OnlyUpload
  MaxLate = 0
  MaxLoss = 1
  MaxFail = 0
  MaxCalls = 2
INVARIANTS
  OkMeansDone
CHECK_DEADLOCK FALSE
