SPECIFICATION FairSpec
CONSTANTS
  Confs <- MCConfs
  Requests <- MCRequests
  Decisions = {"none", "ban", "captcha"}
  NoMemory = FALSE
  MaxChanges = 0
PROPERTY RequestEnds
