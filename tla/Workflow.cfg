CONSTANTS
  a = a
  b = b
  c = c
  None = None
  Procs <- Pair
  Proposers <- Pair
  Deciders <- Pair
  Appliers <- Pair
  Maintainers <- Pair
SPECIFICATION Spec
INVARIANTS TypeOK NoEventRefused PublicationIsSound NoUntrackedContainer
  RunsAreAccounted RemovalIsSafe
PROPERTIES ImplementsGuardedRepair
