SPECIFICATION BridgeSpec
CONSTANTS
  Sessions = {h, c1}
  Raw = Raw
  None = None
  Host = h
  Servos = {1}
  Messages <- TwoMessages
  MaxAsks = 3
  MaxWire = 1
  MaxDown = 1
INVARIANTS
  NoMissedCommand
  OwnerCommandExcludesTunnel
  RawReplyMatches
  RawPacketsInOrder
PROPERTIES
  EnableOpens
  DisableCloses
  CommandGetsBus
  RawMessagesAnswered
