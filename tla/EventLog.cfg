CONSTANTS
  Candidates = {c1, c2}
  Tokens = {t1, t2}
  None = None
SPECIFICATION Spec
INVARIANTS TypeOK LeaseIsOwed VerdictHasRun RecordsAreInOrder
PROPERTIES RecordsWrittenOnce BoundRunIsKept
