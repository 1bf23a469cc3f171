SPECIFICATION RecordsSpec
CONSTANTS
  t1 = t1  t2 = t2  w1 = w1  q1 = q1  q2 = q2  r1 = r1  r2 = r2  a1 = a1
  Id = {1, 2, 3}
  Tenant = {t1, t2}
  PanelRequest = {w1}
  NoRow = NoRow
  File = {1, 2}
  Record = {r1, r2}
  Account = {a1}
  Request = {q1, q2}
  None = None
  OneEditor = TRUE
  MaxEdits = 2
INVARIANTS CatalogueInv FilesInv
SYMMETRY Alike
CHECK_DEADLOCK FALSE
