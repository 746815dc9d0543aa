SPECIFICATION Spec
CONSTANTS
  c1 = c1
  c2 = c2
  c3 = c3
  Callers = {c1, c2}
  TLDs = {"com", "ai", "dev"}
  Served = {"com", "dev"}
  Static = {"com", "ai"}
  Scrapable = {"com"}
  TripAt = 2
  Cooldown = 1
  MaxCalls = 5
SYMMETRY Permuted
INVARIANTS
  FallbackConfirmed
