--------------------------- MODULE MCEventStore ---------------------------
EXTENDS EventStore
CONSTANTS w1, w2, r1, r2, e1, e2, e3

OneWriter == {w1}
TwoWriters == {w1, w2}
TwoReaders == {r1, r2}
TwoRecords == {e1, e2}
ThreeRecords == {e1, e2, e3}
=============================================================================
