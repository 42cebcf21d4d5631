CONSTANTS
  Ticks = 3
  Minute = 2
  Hour = 4
  I64 = 20
  Types = {"ban"}
  Lengths <- ShortToLong
  MaxDelay = 2
  MaxTime = 27
  MaxChanges = 2
  MaxLost = 1
SPECIFICATION Spec
CHECK_DEADLOCK FALSE
INVARIANT TypeOK
INVARIANT EndsOnTime
INVARIANT NotEarly
PROPERTY EndedRemoved
