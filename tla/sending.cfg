CONSTANTS
  Connections = {c1, c2}
  MayEnd = {c2}
  MaxSent = 2
  MaxHandled = 2
  Room = 2
SPECIFICATION FairSpec
INVARIANT BytesInOrder
INVARIANT DownOnceByEach
PROPERTY MessagesLeave
PROPERTY DownFollows
CHECK_DEADLOCK FALSE
