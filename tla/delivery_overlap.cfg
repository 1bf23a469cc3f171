SPECIFICATION Spec
CONSTANTS
  s1 = s1  s2 = s2  b1 = b1  b2 = b2  n1 = n1  n2 = n2  u1 = u1  u2 = u2  p1 = p1  p2 = p2
  None = None
  Node = {n1, n2}
  Sub = {s1}
  Benefit = {b1}
  User = {u1}
  Plan = {p1}
  SubOf <- OneSub
  Promises <- AllPromised
  Type <- Credits
  Cadence <- Recurring
  OnActivation <- Activating
  Missed <- CatchUp
  NarrowPolicy = "NONE"
  MAX_ATTEMPTS = 3
  Interval = 2
  Reported = {"ACTIVE", "PAUSED"}
  SlowNodes = FALSE
  MaxCalls = 3
  MaxCrashes = 2
  MaxTime = 2
  MaxCycle = 0
SYMMETRY Symmetry
INVARIANTS TypeOK PaidOnce NoGrantStranded CompletedIsBacked OneWorkerPerGrant
CHECK_DEADLOCK FALSE
