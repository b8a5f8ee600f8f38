CONSTANTS
  d1 = d1
  d2 = d2
  t1 = t1
  t2 = t2
  t3 = t3
  x = x
  y = y
  Databases = {d1, d2}
  Templates = {t1, t2, t3}
  TemplateDb <- mcTemplateDb
  Docs = {x, y}
  DocDb <- mcDocDb
  MaxGen = 2
  Last = 5
  Log <- mcLog
  Unprojectable <- mcUnprojectable
  IncludeDeleted = {t2}
  ScanOrder <- mcScanOrder
  MaxRetries = 2
  MaxFaults = 1
SPECIFICATION Spec
INVARIANTS
  DurableExact
  ServedExact
PROPERTIES
  StoreContract
CHECK_DEADLOCK FALSE
