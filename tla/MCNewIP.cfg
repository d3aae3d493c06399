SPECIFICATION AllSpec
CONSTANTS
  f1 = f1
  f2 = f2
  none = none
  Contracts <- SmallContracts
  Paths = {1, 2, 3}
  ToHops = {0, 1, 2, 3}
  TenthMs = 2
  MaxDwell = 40
  MaxLate = 3
  Frames = {f1, f2}
  NoIf = none
  Headers = {}
  Ifaces <- Interfaces
  Routes <- AllRoutes
  NoMeta = {}
  FibAnswers <- RipAnswers
  Hosts <- HostNodes
  Receivers = {1, 2, 3}
  HostOf <- ReceiverHosts
  HostIf <- HostInterfaces
  Peer <- PeerInterfaces
  NodeOf <- InterfaceNodes
  Rank <- Distance
  InfoHops <- info_hops
  MaxPings = 1
  Lists <- SenderLists
  MaxSends = 3
  MaxContracts = 2
  Src = {1, 2}
  Dst = {1, 3}
  SrcTypes <- ForwarderTypes
  DstTypes = {"ipv4", "8bit"}
  PacketTypes = {"ping", "li", "lbf"}
  PktCount = 4
INVARIANTS
  ContractKept PathSound HopsSuffice NetworkSound SendersSound
PROPERTY
  NothingStarves
\* A packet arrives or is lost, programs end: every part may stop.
CHECK_DEADLOCK FALSE
