CONSTANTS
  Event = {e1, e2, e3}
  Worker = {w1, w2}
  BufferSize = 2
SPECIFICATION Spec
INVARIANTS TypeOK Accounted StopDrains
PROPERTIES QueuedAreMined StopReturns
CHECK_DEADLOCK FALSE
