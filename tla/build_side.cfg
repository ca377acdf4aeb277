SPECIFICATION Spec
CONSTANTS
  p1 = p1  p2 = p2  u1 = u1  u2 = u2  c1 = c1  c2 = c2  j1 = j1  j2 = j2  j3 = j3
  w1 = w1  w2 = w2  w3 = w3  b1 = b1  b2 = b2  b3 = b3  b4 = b4
  Platforms = {p1, p2}  Concurrency = 1  BuildRequests <- OneOfEach  NoTask = NoTask
  Manifests = {m1, m2}  NoTree = NoTree  NoStamp = NoStamp  MaxRuns = 3
  LayerOrder <- FourLayers  Precompressed = {"client", "prerendered"}  Stripped = {"native"}
  LayerFiles <- AllFiles  filesOf <- TheirFiles  Nobody = Nobody
  Users = {u1, u2}  Current = Current  Earlier = Earlier  Junk = Junk  Absent = Absent
  Commands = {c1, c2}  Bases = {"cc", "mine"}  Custom = {"mine"}  Signed = {1}  MaxDigest = 2
  Asked <- Resolves  MaxStarts = 2  NoEntry = NoEntry  Torn = Torn
  Jobs = {j1, j2, j3}  ImageDigests = {"d1", "d2"}  Pushes <- ThreePushes  NoDigest = NoDigest
  Writers = {w1, w2, w3}  isLayout <- AllButTheLast  Previous = Previous  Nothing = Nothing
  ImageIndex <- TwoChildren  LoadTags <- LatestAndV1
  hostPlatforms = {"linux/amd64", "linux/arm64", "linux/riscv64"}
  Builds = {b1, b2, b3, b4}  Source <- FourBuilds  None = None
  Said <- SaidTogether  Answers <- InitAnswers  Unset = Unset
  Targets <- ProjectsAndImages  Scans <- ScanRequests  Osv <- KnownOnes  Advisories <- Embedded
  Today = 2  SearchedTrees <- Searched  Searches <- SearchRequests  Window = 8
  Sites <- FourSites  PatternLists <- Excludable
  JunkPatterns <- Disposable  WalkedTrees <- TwoTrees  PruneOptions <- PruneChoices
INVARIANTS
  TypeOK
  GroupsAreWaitedFor
  
  LayersAreWhatRuns
  ShipsItsOwnDependencies
  LockIsHonest
  ReportedIsThere
  RequestIsAsAsked
  RestatementsAgree
SYMMETRY Symmetry
\* Each component stops where its work is over.
CHECK_DEADLOCK FALSE
