\* Leadership is lost during a sync.
SPECIFICATION Spec
CONSTANTS
  MaxChanges = 3
  Nil = Nil
INVARIANT NeverCrashes
CHECK_DEADLOCK FALSE
