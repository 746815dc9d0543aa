SPECIFICATION Spec
CONSTANTS
  c1 = c1
  c2 = c2
  c3 = c3
  Clients = {c1, c2}
  Tokens <- JWTs
  RateLimitMax = 2
  Window = 3
  Second = 3
  Patience = 1
  Attempts = 2
  RedisFails = TRUE
  SameTick = FALSE
  MaxTime = 4
  MaxLate = 1
SYMMETRY Anyone
INVARIANTS
  LocalWindow
  RedisWindow
  NoLockout
