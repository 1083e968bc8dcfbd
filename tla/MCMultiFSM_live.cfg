\* A remote database, and a statement that no node can execute.
SPECIFICATION FairSpec
CONSTANTS
  n1 = n1
  n2 = n2
  d1 = d1
  d2 = d2
  c1 = c1
  c2 = c2
  Node = {n1, n2}
  DB = {d1, d2}
  Call = {c1, c2}
  Base <- OwnNames
  Target <- OneRemoteOneBad
  Remote = {d2}
  NoDB = NoDB
  Cloud = Cloud
  None = None
  MaxLives = 2
  MaxFaults = 1
CONSTRAINT AtMostOneDisruption
INVARIANTS PrimaryCounts RemoteStopsSnapshots
PROPERTY ApplyLogReturns
CHECK_DEADLOCK FALSE
