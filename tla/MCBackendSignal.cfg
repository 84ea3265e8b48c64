SPECIFICATION FairSpec
CONSTANTS
  Requests <- LiveRequests
  ClientTimeout = 0
  SeqTimeout = 7
  MaxStart = 0
  MaxPos = 0
  HandlerDelay = 1
  Disturbances = {"loss", "signal"}
PROPERTIES SessionEndStopsDrive
