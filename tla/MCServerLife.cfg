SPECIFICATION FairSpec
CONSTANTS
  s1 = s1
  s2 = s2
  Servers = {s1, s2}
  Envs <- Deployments
  PingLimit = 2
  MaxOutages = 1
  MaxCrashes = 1
  MaxRows = 2
  MaxBacklog = 1
CHECK_DEADLOCK FALSE
INVARIANTS
  IndInv
  OfflineHasCause
  ServesWhole
  SummaryWithin
PROPERTIES
  KeyStaysRevoked
  BootsEnd
