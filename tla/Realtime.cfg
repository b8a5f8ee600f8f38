SPECIFICATION Spec
CONSTANTS
  Parts = {"link", "hub", "client", "gate"}
  Ids = {x}
  MaxEvents = 1
  MaxGen = 2
  OutgoingCap = 1
  SendsCap = 2
  RecvCap = 1
  MaxStreams = 2
  Sources = {a}
  Requests = {1}
  MaxAuth = 2
  PendingCap = 2
  SourceCap = 2
  Credits = 1
  DataCap = 1
  ControlCap = 2
  Callers = {c1, c2, c3}
  AuthConcurrency = 2
  AuthBurst = 2
  WaitCap = 2
INVARIANTS
  NoOrphanSubscription
  NoSilentLoss
  NoticeKept
  BudgetExact
  GateExact
PROPERTIES
  
  HeardOrEnded
  GateServes
CHECK_DEADLOCK FALSE
