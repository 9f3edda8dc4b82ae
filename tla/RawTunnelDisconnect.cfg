SPECIFICATION FairSpec
CONSTANTS
  Sessions = {c1, c2}
  Raw = Raw
  None = None
PROPERTY DisableDisconnects
