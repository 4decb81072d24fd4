SPECIFICATION Spec
CONSTANTS
  Req = {r1, r2, r3}
  c1 = c1  c2 = c2  d1 = d1
  Conns = {c1, c2}
  Databases = {d1}
  Parent <- MCParent
  Draining = {c1}
  Ops = {"get", "check", "update", "schemas", "delete", "closeAll"}
  None = None
SYMMETRY ReqSymmetry
CHECK_DEADLOCK FALSE
INVARIANTS SingleFlight NoLeak
PROPERTIES ServesLikeTheAbstractCache
