SPECIFICATION Spec
CONSTANTS
  q1 = q1
  q2 = q2
  m1 = m1
  m2 = m2
  p1 = p1
  p2 = p2
  x1 = x1
  Request = {q1, q2}
  Account = {1, 2}
  Operator = {1}
  Mailbox = {m1, m2}
  Password = {p1, p2}
  Subject = {x1}
  None = None
  Attempts = 2
  CodeAttempts = 2
  MaxRequests = 4
INVARIANTS AccountsInv ProofsReachOwner SessionsAreEarned GuessingBlocks
PROPERTY ErasedForGood
SYMMETRY Alike
CHECK_DEADLOCK FALSE
