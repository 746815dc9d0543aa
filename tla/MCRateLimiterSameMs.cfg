SPECIFICATION Spec
CONSTANTS
  c1 = c1
  c2 = c2
  c3 = c3
  Clients = {c1, c2, c3}
  Tokens <- Public
  RateLimitMax = 2
  Window = 2
  Second = 2
  Patience = 0
  Attempts = 1
  RedisFails = FALSE
  SameTick = TRUE
  MaxTime = 5
  MaxLate = 0
SYMMETRY Anyone
INVARIANTS
  MaxRequestsInWindow
