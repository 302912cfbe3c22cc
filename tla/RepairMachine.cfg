SPECIFICATION Spec
CONSTANTS
  p = p
  q = q
  a = a
  b = b
  security = security
  limits = limits
  Processes = {p, q}
  Paths = {a, b}
  Checks = {security, limits}
  None = None
  Contents = {1, 2}
  MaxChanged = 2
  MoveBound = 2
  ForeignBound = 1
  CrashBound = 1
  FaultBound = 1
  PowerBound = 1
  Count = 2
  Offspring = 1
  Limit = 2
  SentBound = 4
  Requests = 2
  RefProcesses = {p, q}
  Adapters = {"repair_git", "evidence", "sandbox", "runner", "retrieval", "blobs"}
  Parts = {"session", "candidate", "ref", "sandbox", "process"}
INVARIANTS
  SessionIsWhole
  CandidateIsPatchedHead
  AnswerWasTrue
  ValidationIsEarned
  CallsAreHonest
PROPERTIES
  StepsRespectOwners
CHECK_DEADLOCK FALSE
