CONSTANTS
  Capacity = 2
  Family = {4}
  Bits <- OneBitV4
  CidrPrefixes <- WholeRange
  Fnv <- CollidingFnv
  Origins = {"crowdsec"}
  Scenarios <- OneName
  NoScenario = NoScenario
  MAX_SCENARIOS = 2
  MAX_SCENARIO_LEN = 2
  StreamTypes = {"ban", "captcha"}
  Durations = {0, 1}
  MaxLockWait = 1
  MaxTime = 2
  MaxEvictions = 1
SPECIFICATION Spec
INVARIANT TypeOK
INVARIANT Reachable
INVARIANT UniqueKeys
INVARIANT CountExact
INVARIANT LookupExact
INVARIANT ShortNamesOnce
PROPERTY ImplementsStore
PROPERTY ScenarioIdsStable
