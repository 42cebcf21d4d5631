CONSTANTS
  Texts <- MCTexts
  Paths <- MCPaths
  Claims <- MCClaims
  AddressBits = 2
  Unreadable = Unreadable
  NotUtf8 = NotUtf8
  Unset = Unset
  Off = Off
  Invalid = Invalid
  MaxReloads = 2
  MaxEdits = 1
SPECIFICATION Spec
INVARIANT TypeOK
INVARIANT SettingsAsWritten
INVARIANT ServedEnforceable
INVARIANT StaticsOfCycle
INVARIANT ClientFromHops
