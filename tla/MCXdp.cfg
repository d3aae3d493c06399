SPECIFICATION AllSpec
CONSTANTS
  i1 = i1
  i2 = i2
  none = none
  l1 = l1
  Procs = {p1, p2}
  MapNames <- TwoMaps
  pinned_maps <- FourPins
  Frames = {1, 2}
  Ifaces = {i1, i2}
  NoIf = none
  Routes <- RouterRoutes
  NoMeta = {i2}
  FibAnswers <- RouterFib
  Headers <- RouterHeaders
  Loaders = {l1}
  MapSeq <- LoaderMaps
  Options <- LoaderOptions
  NoMap = none
  NoProg = 0
  DrvSupported = TRUE
  Crashes = TRUE
  WriterRoutes = {1, 2}
  MaxRuns = 3
  Cpus = {1, 2}
  PktBytes = 2
  MaxPackets = 3
  Leftovers = {9}
  Modes0 = {"NOEXIST", "DRV"}
  MaxArgs = 3
  Packets <- PacketsPackets
  Tcis = {9, 4097}
  HeaderWords = {0, 2, 5, 15}
  MaxTags = 3
INVARIANTS
  RatesOfOneMap HelpersSound ReportedIsPinned
PROPERTIES
  RouterRight LoaderRight
\* The parts stop: frames have left, command lines and processes end.
CHECK_DEADLOCK FALSE
