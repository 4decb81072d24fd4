SPECIFICATION MCSpec
CONSTANTS
  a = a
  b = b
  x = x
  y = y
  z = z
  one = one
  two = two
  Names = {a, b}
  Stores <- MCStores
  Texts = {z}
  Raw = Raw
  NewKinds = {"hash"}
  Limit = 1
  Patterns <- MCPatterns
  MaxGestures = 3
  MaxFaults = 1
  Missing = Missing
  None = None
  Consoles = {one, two}
  Danger = Danger
  Safe = Safe
  Clear = Clear
  Quote = Quote
  Newline = Newline
  Typed <- MCTyped
  MaxInputs = 5
  MaxLosses = 1
  Nothing = Nothing
  here = here
  there = there
  Here = here
  Keys <- MCKeys
  Contents <- MCContents
  Star = Star
  Dollar = Dollar
  StoredLinks <- MCStoredLinks
  Drafts <- MCDrafts
  MenuCap = 1
  MaxClicks = 3
  MaxBroken = 1
  NoValue = NoValue
INVARIANTS KeyShowsTheServer RemovalsHitTheirElement GoneKeysHaveNoTab DangerAsksFirst ThereAndBack LinksShowTheServer
CHECK_DEADLOCK FALSE
