SPECIFICATION MCSpec
CONSTANTS
  AuthFiles <- MCAuthFiles
  Urls <- MCUrls
  Ports <- MCPorts
  WsUrls <- MCWsUrls
  Messages <- MCMessages
  Roots <- MCRoots
  IntTexts <- MCIntTexts
INVARIANTS RoundTrips PortExact FirstKeyWins ThrowsOnlyOnTypes
CHECK_DEADLOCK FALSE
