CONSTANTS
  p1 = p1
  p2 = p2
  p3 = p3
  NULL = NULL
  Pkts = {p1, p2, p3}
  Contracts <- MixedContracts
  Limits = {1, 3}
  TenthMs = 1
  QlenMod = 4096
  AllocMayFail = TRUE
  MaxTime = 3
  MaxArrival = 3
  MaxResets = 1
SPECIFICATION Spec
INVARIANT
  PacketsAccounted
CHECK_DEADLOCK FALSE
SYMMETRY Symmetry
