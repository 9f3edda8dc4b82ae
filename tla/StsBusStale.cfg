SPECIFICATION Spec
CONSTANTS
  Ids = {1, 2}
  Present = {1}
  Deadline = 2
  Quiet = 1
  MaxLatency = 3
  MaxPackets = 5
  MaxNoise = 0
INVARIANT ReplyAnswersItsPacket
