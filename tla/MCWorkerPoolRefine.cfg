SPECIFICATION FairSpec
CONSTANTS
  r1 = r1
  r2 = r2
  a = a
  b = b
  Requests = {r1, r2}
  Domains = {a, b}
  Batch <- CacheBatch
  WorkerCount = 2
  Keyless = FALSE
  Caching = FALSE
  MaxPanics = 1
PROPERTIES
  ImplementsBatchCheck
  EveryBatchReturns
