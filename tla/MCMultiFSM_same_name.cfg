\* Two groups with a database of the same name are restored.
SPECIFICATION Spec
CONSTANTS
  n1 = n1
  n2 = n2
  d1 = d1
  d2 = d2
  c1 = c1
  c2 = c2
  Node = {n1, n2}
  DB = {d1, d2}
  Call = {c1}
  Base <- SameName
  Target <- BothOnD1
  Remote = {}
  NoDB = NoDB
  Cloud = Cloud
  None = None
  MaxLives = 2
  MaxFaults = 0
INVARIANT ReplicaIsCurrent
CHECK_DEADLOCK FALSE
