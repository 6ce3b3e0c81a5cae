SPECIFICATION Spec
CONSTANTS
  Ip6 <- MCIp6
  Requests = {1, 2, 3}
  MaxHeaders = 8
  MaxBody = 2
  Site <- MCSite
  Policies <- MCPolicies
  PeerMessages <- MCPeerMessages
  MaxMessages = 2
  MaxFaults = 2
  MaxChunks = 2
  Words <- MCWords
  MaxWords = 4
CHECK_DEADLOCK FALSE
INVARIANTS
  RequestsOnce
  NothingStalls
  ReplyFramed
  TextRoundTrip
