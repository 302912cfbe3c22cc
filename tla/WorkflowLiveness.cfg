CONSTANTS
  a = a
  b = b
  c = c
  None = None
  Procs <- Pair
  Proposers <- JustA
  Deciders <- JustA
  Appliers <- JustA
  Maintainers <- Pair
SPECIFICATION FairSpec
PROPERTIES ProposalEnds ApplicationSettles ClosedIsCleaned
