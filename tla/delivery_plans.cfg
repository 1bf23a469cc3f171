SPECIFICATION Spec
CONSTANTS
  s1 = s1  s2 = s2  b1 = b1  b2 = b2  n1 = n1  n2 = n2  u1 = u1  u2 = u2  p1 = p1  p2 = p2
  None = None
  Node = {n1}
  Sub = {s1}
  Benefit = {b1, b2}
  User = {u1, u2}
  Plan = {p1, p2}
  SubOf <- OneSub
  Promises <- TwoPlans
  Type <- ProductAndAccess
  Cadence <- RecurringAndOnce
  OnActivation <- Activating
  Missed <- SkipAll
  NarrowPolicy = "ACCESS_ONLY"
  MAX_ATTEMPTS = 2
  Interval = 1
  Reported = {"ACTIVE", "TRIALING"}
  SlowNodes = FALSE
  MaxCalls = 3
  MaxCrashes = 0
  MaxTime = 2
  MaxCycle = 1
INVARIANT AccessFollowsSubscription
CHECK_DEADLOCK FALSE
