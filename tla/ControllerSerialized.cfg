SPECIFICATION Spec
CONSTANTS
  Slots = {s1, s2, s3}
  None = None
  MaxClaims = 3
  MaxPackets = 1
PROPERTY TakeoverSerialized
