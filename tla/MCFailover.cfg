SPECIFICATION FairSpec
CONSTANTS
  f1 = f1
  f2 = f2
  Flights = {f1, f2}
  N = 2
  Healthy = {2}
  TripAt = 2
  Cooldown = 1
  Attempts = 2
  Capacity = 1
  MaxLookups = 3
INVARIANTS
  LateFailuresBounded
  FailoverSaves
  IndInv
PROPERTIES
  BreakersAreBreakers
  OpenBreakerShields
  LookupsEnd
