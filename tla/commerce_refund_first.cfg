SPECIFICATION CommerceSpec
CONSTANTS
  n1 = n1  p1 = p1  u1 = u1
  Null = Null
  PaymentNode = {n1}
  Purchase = {p1}
  PaymentUser = {u1}
  Buyer <- OneBuyer
  Kinds = {"paid", "refunded"}
  NOTICE_ATTEMPTS = 3
  MaxDeliveries = 2
  MaxFailures = 0
INVARIANT RefundRecorded
CHECK_DEADLOCK FALSE
