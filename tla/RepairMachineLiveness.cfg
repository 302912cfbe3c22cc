SPECIFICATION FairSpec
CONSTANTS
  p = p
  q = q
  a = a
  b = b
  security = security
  limits = limits
  Processes = {p, q}
  Paths = {a, b}
  Checks = {security, limits}
  None = None
  Contents = {1, 2}
  MaxChanged = 2
  MoveBound = 2
  ForeignBound = 1
  CrashBound = 1
  FaultBound = 1
  PowerBound = 0
  Count = 1
  Offspring = 1
  Limit = 2
  SentBound = 3
  Requests = 2
  RefProcesses = {p}
  Adapters = {"repair_git", "evidence", "runner", "retrieval"}
  Parts = {"session", "ref", "host", "container", "process"}
PROPERTIES
  EverythingSettles
CHECK_DEADLOCK FALSE
