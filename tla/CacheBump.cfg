CONSTANTS
  Gateway = {g1, g2}
  Request = {r1, r2}
  Slot = {"p"}
  Prompts <- OnePrompt
  Tool = {}
  Op = {o1, o2}
  Kind <- Bumps
  Tools <- EachTool
  None = None
  Faults = TRUE
  Losable = {}
  MaxRestarts = 0
SPECIFICATION Spec
INVARIANTS VersionsSeparate BumpHides
SYMMETRY Alike
CHECK_DEADLOCK FALSE
