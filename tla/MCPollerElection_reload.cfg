CONSTANTS
  w1 = w1
  w2 = w2
  w3 = w3
  Pids = {w1, w2, w3}
  Readers = {}
  MaxCrashes = 0
  MaxReloads = 1
SPECIFICATION Spec
SYMMETRY PidSymmetry
CHECK_DEADLOCK FALSE
INVARIANT PollersDontOverlap
