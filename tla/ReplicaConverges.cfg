SPECIFICATION MCSpec
CONSTANTS
  Parts = {"rounds"}
  Values = {"x", "y"}
  Slots = {1}
  GroupLimit = 1
  MaxAttempts = 3
  PreImages = FALSE
  Tabs = {t1, t2}
  Docs = {d1}
  Nobody = nobody
  MaxEpoch = 4
  MaxLife = 2
  QDocs = {1}
  QVals = {0, 1}
  Handles = {1, 2}
  Attempts = 2
  WorkLimit = 2
  MaxChanges = 1
  MaxViews = 1
INVARIANTS
  Converges
CHECK_DEADLOCK FALSE
