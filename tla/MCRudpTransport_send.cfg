SPECIFICATION StopSpec
CONSTANTS
  MaxNumAck = 2
  SegmentSize = 1
  FifoSize = 1
  PairSize = 1
  PeerWindow = 1
  MaxSeq = 4
  MaxApp = 1
  MaxPeerSeq = 1
  NetSize = 1
  PeerKinds = {"req"}
  Endings = {"app", "owner", "server", "timeout"}
INVARIANTS
  AckedIsReceived
PROPERTIES
  
  NothingRefused
CHECK_DEADLOCK FALSE
