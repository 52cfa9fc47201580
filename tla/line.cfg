CONSTANTS
  s1 = s1  s2 = s2  h1 = h1  h2 = h2
  a1 = a1  a2 = a2  b1 = b1  f12 = f12  f21 = f21  none = none
  Switches = {s1, s2}
  Hosts = {h1, h2}
  Ports = {1, 2}
  Links <- BothWays
  Attach <- FirstPorts
  NoCon = none
  Conns = {a1, b1, a2}
  Dpid <- TwoForS1
  Flows = {f12, f21}
  FlowIds = {f12, f21}
  SrcHw <- PingSrc
  DstHw <- PingDst
  FlowId <- PingId
  FlakyLinks = {}
  SilentHosts = {h1, h2}
  LossySwitches = {}
  Restarts = FALSE
  EarlyTraffic = FALSE
  MaxFrames = 2
  MaxBacklog = 3
SPECIFICATION AnySpec
INVARIANT TypeOK
INVARIANT HostsMirrorTracker
INVARIANT NexusHoldsLiveSession
INVARIANT HandshakeLeavesNoRules
INVARIANT GraphMirrorsDiscovery
INVARIANT KnownHostAttached
INVARIANT InstalledDelivers
INVARIANT NoOrphanRules
INVARIANT PacketsMatch
