SPECIFICATION Spec
CONSTANTS
  c1 = c1  c2 = c2  c3 = c3  p1 = p1  p2 = p2
  amd = amd  arm = arm  old = old  stub = stub
  new = new  older = older  forged = forged
  Whole = Whole  Torn = Torn  Empty = Empty  Bad = Bad  None = None
  Archives = {new, older, forged}
  Signed <- SignedFor
  Compiled <- CompiledIn
  Calls = {c1, c2, c3}
  Processes = {p1, p2}
  process <- TwoProcesses
  Keys = {amd, old, stub}
  Stubs = {stub}
  Offline = {c2}
  CrossDevice = TRUE
CHECK_DEADLOCK FALSE
INVARIANTS ServedIsVerified  MemoIsAWrapper
