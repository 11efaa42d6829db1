CONSTANTS
  Event = {e1}
  Webhook = {h1}
  Worker = {w1, w2}
  BufferSize = 1
  MaxRetries = 5
  Delays = 5
  Faults = FALSE
SPECIFICATION Spec
INVARIANT EventsFindSubscribers
CHECK_DEADLOCK FALSE
