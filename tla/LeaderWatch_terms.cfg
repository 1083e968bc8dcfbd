\* Up to four changes of leadership.
SPECIFICATION FairSpec
CONSTANTS
  MaxChanges = 4
  Nil = Nil
INVARIANTS TypeOK NoDoubleClose OneTicker
PROPERTIES LeaderSyncs WatcherEnds
CHECK_DEADLOCK FALSE
