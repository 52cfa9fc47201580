CONSTANTS
  LatePriorities = {0}
  MaxListeners = 3
  MaxDepth = 2
SPECIFICATION Spec
INVARIANT InOrder
INVARIANT CalledOnceEach
