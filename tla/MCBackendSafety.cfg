SPECIFICATION Spec
CONSTANTS
  Requests <- SafetyRequests
  ClientTimeout = 1
  SeqTimeout = 4
  MaxStart = 1
  MaxPos = 0
  HandlerDelay = 1
  Disturbances = {"signal"}
INVARIANTS TypeOK LeavesZero SilentClientIsStopped
