CONSTANTS
  t1 = t1
  t2 = t2
  Consumers = {c1}
  Callers = {l1}
  Others = {t1}
  MayQuit = FALSE
  MaxWork = 1
  MaxThreads = 1
SPECIFICATION AnySpec
INVARIANT EachInOnePlace
INVARIANT NobodyOverslept
PROPERTY BothRunAgain
CHECK_DEADLOCK FALSE
