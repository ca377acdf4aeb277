SPECIFICATION Spec
CONSTANTS
  a = a  b = b  c = c
  v1 = v1  latest = latest
  s1 = s1  s2 = s2
  bunA = bunA  bunB = bunB
  None = None
  Builders = {a, b, c}
  ReleaseTags = {v1, latest}
  Sources = {s1, s2}
  Buns = {bunA, bunB}
  source <- SameSource
  bun <- SameBun
  Signing = {a, b, c}
  Keyed = {a, c}
  Verifying = {a, b, c}
  Caching = {a, b, c}
CHECK_DEADLOCK FALSE
SYMMETRY TagSymmetry
INVARIANTS
  SuccessPassedTheGates ScanIsJoined CacheTagsTellTheTruth PromotesOnlyVouched
  SuccessMovedEveryTag SigningIsHonest
