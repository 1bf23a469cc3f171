SPECIFICATION OnceSpec
CONSTANTS
  s1 = s1  s2 = s2  b1 = b1  b2 = b2  h1 = h1  u1 = u1  p1 = p1  o1 = o1  m1 = m1  m2 = m2  a1 = a1  n1 = n1  n2 = n2
  None = None
  Node = {h1}
  Sub = {s1, s2}
  Benefit = {b1, b2}
  User = {u1}
  Plan = {p1}
  SubOf <- TwoSubs
  Promises <- AllPromised
  Type <- Credits
  Cadence <- OncePer
  OnActivation <- Activating
  Missed <- CatchUp
  NarrowPolicy = "NONE"
  MAX_ATTEMPTS = 2
  Interval = 2
  Reported = {"ACTIVE"}
  SlowNodes = FALSE
  MaxCalls = 4
  MaxCrashes = 2
  MaxTime = 0
  MaxCycle = 1
  Null = Null
  PaymentNode = {n1, n2}
  Purchase = {o1}
  PaymentUser = {u1}
  Buyer <- OneBuyer
  Kinds = {"unpaid", "paid", "failed", "expired", "refunded", "lost", "won"}
  NOTICE_ATTEMPTS = 2
  MaxDeliveries = 3
  MaxFailures = 1
  MailNode = {n1, n2}
  Msg = {m1, m2}
  Address = {a1}
  To <- OneAddress
  NoMail = NoMail
  MAIL_ATTEMPTS = 2
  BATCH = 2
  MaxFaults = 2
INVARIANTS OncePerUserPaysOnce CommerceInv AgreesWithGateway MailInv
PROPERTIES SettledStays EveryMessageEndsOnce
CHECK_DEADLOCK FALSE
