SPECIFICATION ReconciliationSpec
CONSTANTS
  s1 = s1
  s2 = s2
  u1 = u1
  u2 = u2
  basic = basic
  gold = gold
  GatewayKinds = {"stated", "queried"}
  Session = {s1, s2}
  User = {u1, u2}
  Product = {basic, gold}
  NewCycle = {gold}
  Row = {1, 2, 3}
  None = None
  MaxChanges <- Changes
  MaxAsks = 2
  MaxFaults = 1
INVARIANTS ReconciliationInv RowsFollowGateway
PROPERTY KeepsNewestWord
SYMMETRY Alike
CHECK_DEADLOCK FALSE
