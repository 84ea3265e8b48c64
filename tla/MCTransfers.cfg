SPECIFICATION FairSpec
CONSTANTS
  Kinds = {"SdoRead", "SdoWrite", "FoeRead", "FoeWrite", "RxPdo", "TxPdo", "OdList", "OdDesc", "Oe",
           "SoeWrite", "EoeSend", "EoeRecv", "EoeFragment", "EoeSetIp", "EoeGetIp"}
  Objects = {11, 12, 21, 31}
  Size <- Sizes
  BufSizes = {3, 6}
  MaxData = 2
  SegData = 3
  ExpSize = 1
  Unclear = {"SdoRead", "FoeRead", "FoeWrite", "TxPdo", "OdList", "OdDesc", "EoeSend"}
  Settled = TRUE
  BusyAt = {"data"}
  OdRounds = 128
  EoeData = 3
  Block = 2
  FrameSizes = {1, 2, 4}
  MaxFrames = 2
  MaxCalls = 2
  MaxFails = 2
INVARIANT TransfersAreWhole
PROPERTIES ReturnsOrStuck
CHECK_DEADLOCK FALSE
