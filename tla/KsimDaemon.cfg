SPECIFICATION FairSpec
CONSTANTS
  Commands <- SomeCommands
  IndexCount = 2
  Latency = 0
  MaxJitter = 1
  ApplyTime = 1
  QueueCap = 2
  LogCap = 2
  ConfigWords = 3
  Addresses <- SomeAddresses
  Loopback <- LoopbackAddress
  Datagrams <- SomeDatagrams
  CommandWords = 1
  Options <- SomeOptions
  MaxDrain = 2
  Steps = {0, 1}
  MaxDatagrams = 3
  MaxFail = 1
INVARIANTS
  LogIsRecent
  AnswersInOrder
  FaultsAccounted
  
  StopsClean
PROPERTIES
  ResponsesLeave
CHECK_DEADLOCK FALSE
