CONSTANTS
  w1 = w1
  w2 = w2
  Workers = {w1, w2}
  Keys = {"processed", "dropped"}
  Hash <- Colliding
  MAX_BUCKETS = 3
  Modulus = 8
  MaxCount = 2
  MaxPushes = 2
  MaxCrashes = 1
  MaxLate = 1
SPECIFICATION Spec
CHECK_DEADLOCK FALSE
INVARIANT TypeOK
INVARIANT NothingLost
INVARIANT BucketsOwned
