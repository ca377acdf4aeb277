SPECIFICATION Spec
CONSTANTS
  p1 = p1  p2 = p2  p3 = p3
  Pids <- ProcessIds
  NoPid = NoPid
  DevMode = TRUE
  Sent = {"TERM", "HUP"}
  SigCap = 2
SYMMETRY PidSymmetry
CHECK_DEADLOCK FALSE
INVARIANTS
  NoLostWakeup ForwardsToOwnGroup OldGroupDoomed ExitCodeIsTheChilds
PROPERTIES
  ShutdownIsFinal WindowIsNotReopened ImplementsLifecycle
