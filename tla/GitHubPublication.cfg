SPECIFICATION FairSpec
CONSTANTS
  p = p
  q = q
  alice = alice
  bob = bob
  Publishers = {p, q}
  ActorOf <- MCActorOf
  Delayed = {p}
  None = None
  Batches = 3
  Objects = 2
  Pulls = 2
  LateBound = 1
  PowerBound = 1
  OfRepair = FALSE
INVARIANTS
  PublishedIsProposed
  WritesAreApproved
  RecordsAreWhole
PROPERTIES
  ImplementsPublication
  PublicationEnds
  ImplementsRecords
