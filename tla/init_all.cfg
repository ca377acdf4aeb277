SPECIFICATION FairContainerSpec
CONSTANTS
  Pids = {p1, p2}
  NoPid = NoPid
  DevMode = TRUE
  Sent = {"HUP"}
  SigCap = 1
  ReadyPath = FALSE
CHECK_DEADLOCK FALSE
INVARIANTS
  FailsClosed AliveThroughRestart
PROPERTIES
  DrainIsPermanent ReadinessConverges
