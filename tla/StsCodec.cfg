SPECIFICATION Spec
CONSTANTS
  Modulus = 8
  MaxLength = 5
  SearchLimit = 4
  Ids = {1, 2}
  Asked = 1
  Positions <- MCPositions
  NoiseBytes = {1, 7}
  MaxNoise = 4
INVARIANTS
  SameVerdict
  AcceptedIsSent
  NoiseSkipped
CHECK_DEADLOCK FALSE
