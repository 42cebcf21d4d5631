CONSTANTS
  w1 = w1
  w2 = w2
  Pids = {w1, w2}
  Readers = {w1, w2}
  MaxCrashes = 2
  MaxReloads = 1
SPECIFICATION FairSpec
CHECK_DEADLOCK FALSE
INVARIANT TypeOK
INVARIANT OnePollerUntilReload
INVARIANT LockAccounted
PROPERTY SomeonePolls
PROPERTY StoppedEnd
