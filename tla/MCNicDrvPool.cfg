SPECIFICATION Spec
CONSTANTS
  Threads = {a, b, c}
  NumBuf = 3
  MaxTxn = 2
  MaxTries = 2
  LateFrames = FALSE
  SendFails = FALSE
  NoOne = NoOne
SYMMETRY ThreadSymmetry
INVARIANTS IndicesAreSound AnswerIsOwn
