\* The Linux backend of the DLL and its device database under two threads.
SPECIFICATION Spec
CONSTANTS
  Threads = {"ui", "poller"}
  Ops <- MCOps
  NoThread = "nobody"
  MaxCalls = 5
  MaxTimeouts = 2
  MaxConns = 2
  Documents <- MCDocuments
  MaxEntries = 3
  MaxCrashes = 1
  Slave <- MCSlave
  
PROPERTIES ReplyIsOwn ImplementsSerialLink
CHECK_DEADLOCK FALSE
