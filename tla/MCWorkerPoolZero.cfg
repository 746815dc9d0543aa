SPECIFICATION Spec
CONSTANTS
  r1 = r1
  r2 = r2
  a = a
  b = b
  Requests = {r1, r2}
  Domains = {a, b}
  Batch <- OverlapBatch
  WorkerCount = 0
  Keyless = FALSE
  Caching = FALSE
  MaxPanics = 1
INVARIANTS
  EveryJobAnswered
