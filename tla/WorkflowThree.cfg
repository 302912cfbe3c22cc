CONSTANTS
  a = a
  b = b
  c = c
  None = None
  Procs <- Triple
  Proposers <- JustA
  Deciders <- JustB
  Appliers <- JustB
  Maintainers <- JustC
SPECIFICATION Spec
INVARIANTS WorkflowIsSafe
