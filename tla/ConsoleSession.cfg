SPECIFICATION FairSpec
CONSTANTS
  Req = {r1, r2, r3}
  SessionIDs = {t1, t2}
  Ops = {"run", "state", "end", "query", "close"}
  MaxConns = 1
  MaxStatements = 1
  Nil = Nil
CHECK_DEADLOCK FALSE
INVARIANTS PinnedIsBounded ExpiryIsTold
PROPERTIES IdleClockSparesRuns EveryRequestFinishes
