CONSTANTS
  Browsers = {b1, b2}
  Addr = {"a1", "a2"}
  Configs <- MCConfigs
  Names = {"m", "n"}
  None = None
  Leeway = 1
  MaxTime = 2
  MaxSolves = 2
  MaxFaults = 2
SPECIFICATION Spec
SYMMETRY BrowserSymmetry
INVARIANT TypeOK
INVARIANT SessionEarned
INVARIANT SolvedHonoured
