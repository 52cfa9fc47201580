CONSTANTS
  s1 = s1  s2 = s2  s3 = s3  s4 = s4  h1 = h1  h2 = h2
  a1 = a1  a2 = a2  a3 = a3  a4 = a4  f1 = f1  f2 = f2  i1 = i1  i2 = i2  none = none
  Switches <- DiamondSwitches
  Hosts <- DiamondHosts
  Ports <- DiamondPorts
  Links <- DiamondLinks
  Attach <- DiamondAttach
  NoCon = none
  Conns <- DiamondConns
  Dpid <- DiamondDpid
  FlakyLinks = {}
  SilentHosts = {}
  Flows <- BothFlows
  FlowIds <- AnyId
  SrcHw <- FromH1
  DstHw <- ToH2
  FlowId <- OwnId
  MaxFrames = 1
  MaxBacklog = 1
  LossySwitches = {}
  Restarts = FALSE
  EarlyTraffic = FALSE
SPECIFICATION FaultFree
PROPERTY InstallsCoverPath
PROPERTY InstallsRotate
PROPERTY EveryFrameSettles
PROPERTY EveryLinkLearned
