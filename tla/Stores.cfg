SPECIFICATION StoresSpec
CONSTANTS
  Puts = {p1}
  Configs = {d, c1, c2}
  Default = d
  Invalid = Invalid
  Absent = Absent
  Empty = Empty
  Torn = Torn
  IoErrors = TRUE
  History = 3
  Full = 2
  MaxLine = 2
  MaxLines = 9
  NoFile = NoFile
  Chars = {1, 2}
  SsidMax = 2
  PasswordMax = 1
  Blank = 4
  NoCredentials = NoCredentials
INVARIANTS
  StoredIsServed
  KeptIsRecent
  LogsBounded
  ProvisionedLoads
  NeverTorn
PROPERTY RestartKeepsConfig
