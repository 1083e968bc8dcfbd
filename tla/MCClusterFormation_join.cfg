\* The first node bootstraps, the others are added.
SPECIFICATION FairSpec
CONSTANTS
  n1 = n1
  n2 = n2
  n3 = n3
  a1 = a1
  a2 = a2
  a3 = a3
  h2 = h2
  h3 = h3
  b2 = b2
  ip1 = ip1
  ip2 = ip2
  ip3 = ip3
  name2 = name2
  name3 = name3
  six = six
  all = all
  lo = lo
  p = p
  q = q
  zero = zero
  Name <- Names
  V6 = {six}
  Port = {p, q, zero}
  Raft = q
  Zero = zero
  Wild = {all}
  Ip <- TheIp
  Loopback = lo
  Empty = Empty
  None = None
  Part = {ip1, name2, all, p}
  Spelled <- TheSpelled
  Variable <- TheVariable
  Sources <- Hosts
  Listen <- Wildcard
  Node = {n1, n2, n3}
  Address = {a1, a2, a3, h2, h3, b2}
  Own <- TheOwn
  At <- TheAt
  Env <- TheEnv
  Bind <- TheBind
  Valid <- TheValid
  Wanted <- TheWanted
  Unwanted <- TheUnwanted
  Nobody = Nobody
  MaxStarts = 2
  MaxVersion = 3
INVARIANTS TypeOK OneCluster AddedStays PeersAsCoded OwnIsAccepted
PROPERTIES LeaderReturns MemberStarts FounderIsLost ManagerOncePerProcess
CONSTRAINT AtMostOneDisturbed
CHECK_DEADLOCK FALSE
