CONSTANTS
  Gateway = {g1}
  Request = {r1}
  Slot = {"p", "c"}
  Prompts <- TwoKeys
  Tool = {t1}
  Op = {"o1", "o2", "o3"}
  Kind <- Mixed
  Tools <- EachTool
  None = None
  Faults = TRUE
  Losable = {"answer", "index", "counter"}
  MaxRestarts = 1
SPECIFICATION Spec
INVARIANTS TypeOK BustedCopiesGone

CHECK_DEADLOCK FALSE
