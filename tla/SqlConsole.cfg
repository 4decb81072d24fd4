SPECIFICATION MCSpec
CONSTANTS
  Tabs = {t1}
  Texts = {empty, a}
  Empty = empty
  Ending = ending
  Foreign = foreign
  TxStates = {"idle", "open", "expired"}
  Attempts = 2
  MaxRuns = 2
  MaxReads = 2
  MaxLists = 3
  MaxFaults = 2
  MaxGestures = 3
  Kinds = {"batch", "explain", "analyze"}
  None = None
CHECK_DEADLOCK FALSE
INVARIANTS NewestRunOwnsTheTab BarSettles
