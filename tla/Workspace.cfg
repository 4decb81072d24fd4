SPECIFICATION FairSpec
CONSTANTS
  c1 = c1  c2 = c2  c3 = c3  d1 = d1

  Stored = {c1, c2, c3}
  NewConns = {c3}
  Runtime = {d1}
  Parent <- MCParent
  Servers = {{c1}, {c1, c2}}
  Consoles = {"sql"}
  Visits <- MCVisits
  Objects = {o}
  Filters = {f}
  MaxTabs = 3
  MaxGestures = 2
  MaxFaults = 1
  Nil = Nil  Malformed = Malformed  Unread = Unread  Reading = Reading
INVARIANTS SessionsHaveTheirTab
PROPERTIES DeletionLeavesNoTrace PageSettles
CHECK_DEADLOCK FALSE
