\* One Exec on the leader.
SPECIFICATION FairSpec
CONSTANTS
  a = a
  b = b
  loop = loop
  s = s
  x = x
  y = y
  fsm = fsm
  k1 = k1
  k2 = k2
  Client = {a}
  Syncer = {}
  Loop = None
  Stopper = {}
  Fsm = fsm
  Key = {k1}
  Ask = {"exec"}
  CanLead = TRUE
  MaxRemote = 0
  None = None
PROPERTY ExecReturns
CHECK_DEADLOCK FALSE
