CONSTANTS
  Event = {e1, e2}
  Webhook = {h1}
  Worker = {w1, w2}
  BufferSize = 1
  MaxRetries = 3
  Delays = 3
  Faults = TRUE
SPECIFICATION Spec
INVARIANTS OneCopy VerdictIsFinal LogsAreTrue
PROPERTIES JobsSettle
CHECK_DEADLOCK FALSE
