CONSTANTS
  a = a
  b = b
  c = c
  wa = wa
  wb = wb
  wall = wall
  Components <- ComponentsVal
  Waiters <- WaitersVal
  Needs <- NeedsVal
  MaxRegisters <- Registers
  Quitters = {q1}
  Interrupts = TRUE
SPECIFICATION BootSpec
INVARIANT CalledOnceReady
INVARIANT NobodyForgotten
PROPERTY QuitEnds
CHECK_DEADLOCK FALSE
