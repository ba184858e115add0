CONSTANTS
  Instance = {i1, i2}
  NoInstance = NoInstance
  MaxRestore = 2
  Client = {c1, c2}
SPECIFICATION Spec
SYMMETRY Symmetry
INVARIANTS TypeOK
PROPERTIES NoCancelWhileRunning BotRestoresCurrentInstance ImplementsLifecycle
CHECK_DEADLOCK FALSE
