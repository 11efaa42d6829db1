CONSTANTS
  Lookup = {l1, l2, l3}
  Kid = {"seeded", "other"}
  Key = {k1}
  None = None
  Seed <- OneSeed
  Gap = 2
  Timeout = 3
  MaxTime = 3
  MaxChanges = 1
SPECIFICATION Spec
INVARIANTS RefreshesSpaced FoundAreGenuine
PROPERTIES RefusedAfterTrying LookupsReturn
CHECK_DEADLOCK FALSE
