SPECIFICATION Spec
CONSTANTS
  MaxNumAck = 2
  SegmentSize = 1
  FifoSize = 1
  PairSize = 1
  PeerWindow = 2
  MaxSeq = 0
  MaxApp = 0
  MaxPeerSeq = 3
  NetSize = 1
  PeerKinds = {"data"}
  Endings = {}
INVARIANTS
  PeerAckedIsHeld
  DeliveredInOrder
PROPERTIES
  DownIsVirtualTcp
CHECK_DEADLOCK FALSE
