CONSTANTS
  h1 = h1
  h2 = h2
  h3 = h3
  i1 = i1
  i2 = i2
  i3 = i3
  i4 = i4
  Hosts = {h1, h2, h3}
  Addresses = {i1, i2, i3, i4}
  Owns <- OwnedBy
  Kinds <- Habits
  Answering = {h1}
  MayDetach = {h2}
  ArpAware = 1
  ArpSilent = 2
  PingLim = 3
SPECIFICATION FairSpec
PROPERTY AnsweringStays
PROPERTY GivenUpUnanswered
PROPERTY QuietLeave
