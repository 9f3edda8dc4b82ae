SPECIFICATION FairSpec
CONSTANTS
  Slots = {s1, s2, s3}
  None = None
  MaxClaims = 3
  MaxPackets = 1
INVARIANTS
  OneOwner
  ActiveIffOwned
  HeldForRetiring
  NoLostWakeup
  BusHolder
  AtMostOneStrayPacket
PROPERTIES
  ImplementsOwnership
  AnyClaimAdmitted
  AnySessionReturns
  AlwaysListensAgain
