SPECIFICATION FairSpec
CONSTANTS
  a = a  b = b  c = c
  v1 = v1  latest = latest
  s1 = s1  s2 = s2
  bunA = bunA  bunB = bunB
  None = None
  Builders = {a, b}
  ReleaseTags = {v1, latest}
  Sources = {s1, s2}
  Buns = {bunA, bunB}
  source <- SameSource
  bun <- OwnBun
  Signing = {a}
  Keyed = {a}
  Verifying = {a}
  Caching = {a, b}
CHECK_DEADLOCK FALSE
PROPERTIES
  KeepsContract EveryBuildReturns
