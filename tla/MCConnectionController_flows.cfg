SPECIFICATION Spec
CONSTANTS
  Reconnects = {r1, r2}
  Stops = {"s1"}
  StopDuringConnect = TRUE
  MaxBegun = 2
  Handles = {1, 2, 3, 4, 5}
  MAX_RECONNECT_ATTEMPTS = 2
SYMMETRY ReconnectSymmetry
INVARIANTS
  OneConnectFlow
  FlowsOwnHandle
  NoOrphan
CHECK_DEADLOCK FALSE
