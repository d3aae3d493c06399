CONSTANTS
  p1 = p1
  p2 = p2
  p3 = p3
  NULL = NULL
  Pkts = {p1, p2}
  Contracts <- DelayContracts
  Limits = {3}
  TenthMs = 1
  QlenMod = 4096
  AllocMayFail = FALSE
  MaxTime = 5
  MaxArrival = 3
  MaxResets = 0
SPECIFICATION FairSpec
PROPERTY
  DelayedLeaves
CHECK_DEADLOCK FALSE
