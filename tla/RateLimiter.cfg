CONSTANTS
  Request = {r1, r2, r3}
  User = {u1}
  Org = Org
  Tier = {"pro"}
  Role = {"agent"}
  TierLimit <- SmallLimits
  ProLimit = 2
  ViewerFloor = 1
  MemberFloor = 1
  Rand = {n1, n2}
  Window = 3
  Skew = 1
  Lag = 1
  MaxTime = 4
SPECIFICATION Spec
INVARIANTS WindowBound RefusalsJustified
SYMMETRY Alike
CHECK_DEADLOCK FALSE
