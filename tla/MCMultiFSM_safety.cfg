\* One database, two statements for it, one local failure, one crash or
\* installed snapshot.
SPECIFICATION Spec
CONSTANTS
  n1 = n1
  n2 = n2
  d1 = d1
  d2 = d2
  c1 = c1
  c2 = c2
  Node = {n1, n2}
  DB = {d1}
  Call = {c1, c2}
  Base <- OwnNames
  Target <- BothOnD1
  Remote = {}
  NoDB = NoDB
  Cloud = Cloud
  None = None
  MaxLives = 2
  MaxFaults = 1
CONSTRAINTS AtMostOneDisruption SkipOrDisruption OneSnapshotter
SYMMETRY NodeSymmetry
INVARIANTS TypeOK AnswerIsTrue FirstLifeExact NoLostWrite
  SnapshotCovers
PROPERTY ImplementsStore
CHECK_DEADLOCK FALSE
