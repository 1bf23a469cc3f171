SPECIFICATION Spec
CONSTANTS
  s1 = s1  s2 = s2  b1 = b1  b2 = b2  n1 = n1  n2 = n2  u1 = u1  u2 = u2  p1 = p1  p2 = p2
  None = None
  Node = {n1, n2}
  Sub = {s1, s2}
  Benefit = {b1, b2}
  User = {u1}
  Plan = {p1}
  SubOf <- TwoSubs
  Promises <- AllPromised
  Type <- Credits
  Cadence <- OncePer
  OnActivation <- Activating
  Missed <- CatchUp
  NarrowPolicy = "NONE"
  MAX_ATTEMPTS = 2
  Interval = 2
  Reported = {"ACTIVE"}
  SlowNodes = FALSE
  MaxCalls = 4
  MaxCrashes = 0
  MaxTime = 0
  MaxCycle = 0
INVARIANT OncePerUserPaysOnce
CHECK_DEADLOCK FALSE
