SPECIFICATION AllSpec
CONSTANTS
  Parts = {"object", "sockets", "structops", "link", "netlink", "pin", "rings"}
  o1 = o1
  o2 = o2
  setter = setter
  getter = getter
  g1 = g1
  g2 = g2
  f1 = f1
  f2 = f2
  f3 = f3
  s1 = s1
  s2 = s2
  q1 = q1
  q2 = q2
  Frames = {f1, f2, f3}
  Size = 2
  Wrap = 4
  Progs = {"k", "x", "n"}
  Kinds <- LinkKinds
  Autoload = {"k", "x"}
  MaxFd = 5
  Setters = {setter}
  Getters = {getter}
  XdpProgs = {g1, g2}
  Ifs = {1, 2}
  Native = {1}
  MaxCalls <- NetlinkCalls
  Sockets = {s1, s2}
  Queues = {q1, q2}
  Shared = FALSE
  Fds = {1, 2, 3, 4, 5, 6, 7}
  MaxProgs = 2
  Dirs <- PinDirs
  MapName <- PinMapName
  ProgName <- PinProgName
  Instances <- PinInstances
  MaxOthers = 1
SYMMETRY KernelSymmetry
INVARIANTS
  ObjectSound SocketsSound StructOpsSound LinkSound RingsSound
PROPERTIES
  NetlinkRight PinsRight
