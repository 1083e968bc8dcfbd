\* Two nodes start at once, with any settings; one request may fail.
SPECIFICATION FairSpec
CONSTANTS
  n1 = n1
  n2 = n2
  core = core
  edge = edge
  app = app
  coreApp = coreApp
  edgeApp = edgeApp
  Node = {n1, n2}
  Group = {core, edge}
  Name = {app}
  Keys <- MCKeys
  GroupOf <- MCGroupOf
  NameOf <- MCNameOf
  Settings <- MCSettings
  Flags <- MCFlags
  Legacy = {app}
  MaxFaults = 1
  None = None
INVARIANTS TypeOK NodesAgree OnlyWorkable
PROPERTIES NoStrayDatabase StartHeals
CHECK_DEADLOCK FALSE
