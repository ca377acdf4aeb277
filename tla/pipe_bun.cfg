SPECIFICATION Spec
CONSTANTS
  a = a  b = b  c = c
  v1 = v1  latest = latest
  s1 = s1  s2 = s2
  bunA = bunA  bunB = bunB
  None = None
  Builders = {a, b}
  ReleaseTags = {v1, latest}
  Sources = {s1, s2}
  Buns = {bunA, bunB}
  source <- SameSource
  bun <- OwnBun
  Signing = {a, b}
  Keyed = {a, b}
  Verifying = {a, b}
  Caching = {a, b}
CHECK_DEADLOCK FALSE
INVARIANTS
  HitsAreInterchangeable
