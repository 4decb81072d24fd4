SPECIFICATION FairSpec
CONSTANTS
  Req = {r1, r2, r3}
  c1 = c1  c2 = c2  d1 = d1
  Conns = {c1}
  Databases = {}
  Parent <- OnlyC1
  Draining = {c1}
  Ops = {"get", "check", "update", "schemas"}
  None = None
CHECK_DEADLOCK FALSE
PROPERTIES EveryRequestFinishes
