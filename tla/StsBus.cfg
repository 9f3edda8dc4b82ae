SPECIFICATION FairSpec
CONSTANTS
  Ids = {1, 2}
  Present = {1}
  Deadline = 1
  Quiet = 1
  MaxLatency = 2
  MaxPackets = 4
  MaxNoise = 2
INVARIANTS
  PromptRepliesMatch
  SpeedNeedsWheelMode
  ScanSound
PROPERTY CommandEnds
