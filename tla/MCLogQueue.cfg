SPECIFICATION FairSpec
CONSTANTS
  h1 = h1
  h2 = h2
  w1 = w1
  w2 = w2
  Handlers = {h1, h2}
  Workers = {w1, w2}
  Batch <- TwoAndTwo
  Capacity = 2
  MaxPanics = 2
INVARIANTS
  TasksAccounted
  CleanMeansIdle
  FailedOnlyIfForced
  IndInv
PROPERTIES
  HandlersNeverWait
  ShutdownEnds
  QueueMoves
