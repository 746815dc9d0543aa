SPECIFICATION Spec
CONSTANTS
  r1 = r1
  r2 = r2
  a = a
  b = b
  Requests = {r1, r2}
  Domains = {a, b}
  Batch <- CacheBatch
  WorkerCount = 2
  Keyless = FALSE
  Caching = TRUE
  MaxPanics = 1
INVARIANTS
  AnsweredOnce
  ContextErrorHasCause
  IndInv
  OnlyCrashesLoseJobs
  FlightsHaveLeaders
PROPERTIES
  NoLateResult
