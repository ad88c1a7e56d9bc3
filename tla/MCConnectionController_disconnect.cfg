SPECIFICATION Spec
CONSTANTS
  Reconnects = {}
  Stops = {"s1"}
  StopDuringConnect = FALSE
  MaxBegun = 1
  Handles = {1, 2, 3, 4}
  MAX_RECONNECT_ATTEMPTS = 2
INVARIANTS
  DataCallsLive
  
CHECK_DEADLOCK FALSE
