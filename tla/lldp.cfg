CONSTANTS
  s1 = s1
  s2 = s2
  Switches = {s1, s2}
  PortsOf <- TwoEach
  CycleTime = 2
  MaxSends = 2
  Patience = 5
SPECIFICATION Spec
INVARIANT EveryPortInCycle
INVARIANT NoLinkStarves
