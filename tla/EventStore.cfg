SPECIFICATION Spec
CONSTANTS
  w1 = w1  w2 = w2  r1 = r1  r2 = r2  e1 = e1  e2 = e2  e3 = e3
  None = None
  Writers <- TwoWriters
  Readers <- TwoReaders
  Records <- ThreeRecords
INVARIANTS TypeOK FilesAreSound ExclusiveLoadSucceeds LoadIsCurrent
PROPERTIES KeepsAcknowledged
