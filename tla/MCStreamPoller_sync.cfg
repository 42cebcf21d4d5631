CONSTANTS
  Decision <- Mixed
  Keys = {"ip", "range"}
  Parse <- ValuesOf
  Unparsable = "none"
  KnownTypes = {"ban", "captcha"}
  Fallback = "allow"
  max_retries = 1
  MaxChanges = 2
  MaxFailures = 2
  MaxLost = 1
  MaxTakeovers = 1
SPECIFICATION FairSpec
INVARIANT TypeOK
INVARIANT InSync
PROPERTY HeldThroughDelta
PROPERTY CatchesUp
