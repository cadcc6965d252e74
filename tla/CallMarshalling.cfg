SPECIFICATION Spec
CONSTANTS
  Threads = {"main"}
  Cells = 7
  BufferSize = 5
  HeaderSize = 1
  Null = Null
  Calls <- MCCalls
  Callbacks <- MCCallbacks
  Lengths = {0, 1, 2}
  MaxDepth <- MCMaxDepth
  Foreign <- MCForeign
  Rules = {"NoArrayReference", "EqualLengths"}
INVARIANTS MarshallingInv BlocksIntact PointersLive QuietThreadsHoldNothing
CHECK_DEADLOCK FALSE
