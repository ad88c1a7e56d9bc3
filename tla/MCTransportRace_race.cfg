SPECIFICATION FairSpec
CONSTANTS
  Transports = {"RUDP_DIRECT", "NATT", "ICMP"}
  Answering = {"RUDP_DIRECT", "NATT", "ICMP"}
  NoThread = NoThread
INVARIANTS
  LosersCleanUp
PROPERTIES
  
  ReturnsUnlessHandshake
CHECK_DEADLOCK FALSE
