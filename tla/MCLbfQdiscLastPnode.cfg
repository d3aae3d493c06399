CONSTANTS
  p1 = p1
  p2 = p2
  p3 = p3
  NULL = NULL
  Pkts = {p1, p2, p3}
  Contracts <- DelayContracts
  Limits = {3}
  TenthMs = 1
  QlenMod = 4096
  AllocMayFail = FALSE
  MaxTime = 4
  MaxArrival = 4
  MaxResets = 0
SPECIFICATION Spec
INVARIANT
  LastPnodeIsOnly
CHECK_DEADLOCK FALSE
SYMMETRY Symmetry
