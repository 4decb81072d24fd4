SPECIFICATION Spec
CONSTANTS
  Folders = {f1, f2}
  Root = Root
  Req = {r1, r2}
  Conns = {c1}
  Links = {l1}
  Credentials = {k1}
  Torn = Torn
  None = None
SYMMETRY Symmetric
CHECK_DEADLOCK FALSE
INVARIANTS FoldersAreAForest SettledFileIsMemory AnswersAreDurable
