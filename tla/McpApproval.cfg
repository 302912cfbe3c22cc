SPECIFICATION Spec
CONSTANTS
  c1 = c1
  c2 = c2
  s1 = s1
  k1 = k1
  k2 = k2
  p1 = p1
  None = None
  CandidateOf <- MCCandidates
  Calls = {c1, c2}
  Kinds = {"accept", "decline"}
  CrashBound = 1
  Requests <- MCRequests
SYMMETRY Swaps
INVARIANTS
  ApprovalIsSound
