SPECIFICATION Spec
CONSTANTS
  p1 = p1
  p2 = p2
  p3 = p3
  Pids <- TwoProcessIds
  NoPid = NoPid
  DevMode = TRUE
  Sent = {"TERM"}
  SigCap = 1
CHECK_DEADLOCK FALSE
INVARIANT SweepsOwnGroup
