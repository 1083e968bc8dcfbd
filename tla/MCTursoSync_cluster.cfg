\* Two nodes, two databases, one statement, one fault.
SPECIFICATION FairSpec
CONSTANTS
  n1 = n1
  n2 = n2
  k1 = k1
  k2 = k2
  c1 = c1
  Node = {n1, n2}
  Key = {k1, k2}
  Call = {c1}
  None = None
  MaxCloud = 1
  MaxFaults = 1
INVARIANTS TypeOK GateFollowsWrites PulledIsSaved FileCoversSnapshot
PROPERTIES StuckForLife LeaderSynchronises
CHECK_DEADLOCK FALSE
