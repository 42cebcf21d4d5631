SPECIFICATION FairSpec
CONSTANTS
  Confs <- MCConfs
  Requests <- MCRequests
  Decisions = {"none", "ban", "captcha"}
  NoMemory = TRUE
  MaxChanges = 2
INVARIANTS
  TypeOK
  BanHolds
  BlockHolds
  InspectedFirst
  TaskKeepsRequest
  CountedOnce
  ProcessedOnce
PROPERTY ReadableRequestEnds
