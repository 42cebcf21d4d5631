CONSTANTS
  w1 = w1
  w2 = w2
  Pids = {w1, w2}
  Readers = {w2}
  MaxCrashes = 1
  MaxReloads = 0
SPECIFICATION FairSpec
CHECK_DEADLOCK FALSE
PROPERTY LookupsEndSpinning
