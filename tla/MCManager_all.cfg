\* One client, the background loop and a caller of SyncAll, two callers of
\* Shutdown, leadership won and lost.
SPECIFICATION FairSpec
CONSTANTS
  a = a
  b = b
  loop = loop
  s = s
  x = x
  y = y
  fsm = fsm
  k1 = k1
  k2 = k2
  Client = {a}
  Syncer = {loop, s}
  Loop = loop
  Stopper = {x, y}
  Fsm = fsm
  Key = {k1}
  Ask = {"exec", "read"}
  CanLead = TRUE
  MaxRemote = 1
  None = None
INVARIANTS TypeOK SafeClose StopOnce GateCoversWrites
PROPERTIES ReturnsUnlessWedged StaysWedged
CHECK_DEADLOCK FALSE
