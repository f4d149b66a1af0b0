SPECIFICATION Spec
CONSTANTS
  c1 = c1
  c2 = c2
  c3 = c3
  c4 = c4
  t1 = t1
  t2 = t2
  u1 = u1
  u2 = u2
  Calls = {c1, c2, c3}
  Tenants = {t1, t2}
  Uids = {u1, u2}
  Remote = {u1}
  Serverless = {u2}
  Ops = {"install", "uninstall", "upgrade"}
  None = None
INVARIANTS TypeOK RefersExact
PROPERTY RequestsReturn
CHECK_DEADLOCK FALSE
