SPECIFICATION Spec
CONSTANTS
  Requests <- MotionRequests
  ClientTimeout = 0
  SeqTimeout = 7
  MaxStart = 0
  MaxPos = 1
  HandlerDelay = 0
  Disturbances = {"fault", "loss"}
INVARIANTS SequenceTimesOut
PROPERTIES PowerOnStandsStill TargetFixed
