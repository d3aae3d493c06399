SPECIFICATION AllSpec
CONSTANTS
  Parts = {"ringbuf", "perf", "dedup", "build", "kinds", "linfo", "defs", "config", "symbols", "reloc", "core"}
  NoText = NoText
  Inputs <- DedupInputs
  m1 = m1
  m2 = m2
  Maps = {m1, m2}
  Room = 5
  Lens = {8, 9}
  Results <- RingbufFailing
  MaxRecords = 2
  Cpus = {1, 2}
  Online = {1, 2}
  Asked = TRUE
  EventCb = TRUE
  Size = 3
  Sizes = {1, 2}
  MayFail = TRUE
  MaxOut = 3
  MaxNew = 1
SYMMETRY DataSymmetry
INVARIANTS
  RingbufSound PerfSound DedupSound BuildSound LinfoSound
  MapDefsSound ExternsSound RelocSound CoreSound
