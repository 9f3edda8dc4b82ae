SPECIFICATION FairSpec
CONSTANTS
  Joints = {j1}
  Motor = Motor
  Positions = {p1, p2}
  Outside = Outside
  None = None
  MaxEvents = 5
INVARIANTS
  TimersQueued
  ReleasedIsSent
PROPERTIES
  DisabledNotCommanded
  ScanEnds
