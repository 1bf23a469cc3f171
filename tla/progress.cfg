SPECIFICATION ProgressSpec
CONSTANTS
  n1 = n1  s1 = s1  b1 = b1  u1 = u1  p1 = p1  h1 = h1  h2 = h2  o1 = o1  o2 = o2
  e1 = e1  r1 = r1  r2 = r2
  None = None  Null = Null
  Node = {n1}
  Sub = {s1}
  Benefit = {b1}
  User = {u1}
  Plan = {p1}
  SubOf <- OneSub
  Promises <- AllPromised
  Type <- Credits
  Cadence <- Recurring
  OnActivation <- Activating
  Missed <- LatestOnly
  NarrowPolicy = "NONE"
  MAX_ATTEMPTS = 2
  Interval = 2
  Reported = {"ACTIVE", "PAUSED"}
  SlowNodes = FALSE
  MaxCalls = 3
  MaxCrashes = 1
  MaxTime = 3
  MaxCycle = 0
  PaymentNode = {n1, h2}
  Purchase = {o1, o2}
  PaymentUser = {u1}
  Buyer <- OneBuyer
  Kinds = {"paid"}
  NOTICE_ATTEMPTS = 2
  MaxDeliveries = 3
  MaxFailures = 2
  Uuid = {e1}
  ReadUuid = {e1}
  Report = {r1, r2}
  BatchOf <- Batch
  EventPass = {h1, h2}
  EventAttempts = 2
  MaxEventDeaths = 1
  MaxForgets = 1
INVARIANTS CreditedOnce EventsInv
PROPERTIES EveryGrantSettles ScheduleMoves EveryNoticeCloses EveryEventEnds
CHECK_DEADLOCK FALSE
