SPECIFICATION FairSpec
CONSTANTS
  Threads = {a, b}
  NumBuf = 2
  MaxTxn = 1
  MaxTries = 2
  LateFrames = TRUE
  SendFails = TRUE
  NoOne = NoOne
PROPERTIES EveryCallReturns
