SPECIFICATION FairSpec
CONSTANTS
  Transports = {"NATT", "DNS"}
  Answering = {"DNS"}
  NoThread = NoThread
PROPERTIES RaceReturns
CHECK_DEADLOCK FALSE
