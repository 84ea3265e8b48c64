SPECIFICATION BusSpec
CONSTANTS
  MaxLrw = 5
  FirstDc = 2
  MaxSegments = 8
  MaxFmmu = 4
  Buses <- MCBuses
  MaxBuf = 6
  MaxCycles = 2
  MaxLosses = 1
  Networks <- MCNetworks
  ClockSize = 64
  Latched = {0, 28}
  SyncDelay = 1
  Cycles = {2, 3}
  Shifts = {0, 1}
  SyncSlaves = 2
  MaxTime = 2
  NumSlaves = 2
  MaxMulti = 1
  Identity <- MCIdentity
  Stranger = "z"
  SafeCounts = {2}
  Losable = {"read", "control", "sm", "fmmu", "sii", "address", "process"}
  Programs = {"dll", "lms"}
  MaxFaults = 3
  EepSlaves = {1, 2}
  EepWords = 3
  Chunk <- MCChunk
  EepFaults = {"slow", "data", "nack", "own", "wait", "command", "data written"}
  MaxEepFaults = 3
  MaxJobs = 2
  Lines <- MCLines
  MaxSlaves = 4
  ScanFaults = {"detect", "nack", "data", "sii", "coe", "soe"}
  MaxScanFaults = 2
  SiiContents <- MCContents
  SiiStart = 128
  MaxEepBuf = 4096
  MaxName = 3
  MaxSm = 8
  MaxEepdo = 4
  Dictionaries <- MCDictionaries
  PdoBits <- MCPdoBits
  MaxMapSm = 5
  MaxReadLoss = 2
  Tracks <- MCTracks
  Journeys <- MCJourneys
  MaxStators = 3
  TrackSlaves = 3
  MaxFrameLoss = 1
  MaxDriveFault = 1
INVARIANTS  ClocksAreTrue PulsesTogether     JourneyIsSafe
PROPERTIES  BelievedOperational CounterRecovers StopsSoftly 
CHECK_DEADLOCK FALSE
