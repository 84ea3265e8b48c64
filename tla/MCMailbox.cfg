SPECIFICATION Spec
CONSTANTS
  NumSlaves = 2
  Buffers = {b1, b2}
  Null = Null
  Limit = 1
  MaxCalls <- TwoAndOne
  MaxLost = 1
  Preempt = FALSE
SYMMETRY BufferSymmetry
INVARIANTS PoolIsSound SentMeansDelivered
PROPERTIES AnswerReadOnce
CHECK_DEADLOCK FALSE
