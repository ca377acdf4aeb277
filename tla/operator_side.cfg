SPECIFICATION Spec
CONSTANTS
  c1 = c1  c2 = c2  u1 = u1  u2 = u2  o1 = o1  o2 = o2  s1 = s1  s2 = s2  w1 = w1  w2 = w2
  web = web
  Upgraders = {u1, u2}  MaxRelease = 3  MaxStarts = 2  None = None  Half = Half
  MaxGenerations = 3  MaxEdits = 4
  Archive <- TwoFiles  PodList <- ThreePods  Container = "app"  DevMode <- OfTheLast
  MaxBuilds = 2  MaxRestarts = 1  NoName = NoName  NoTarget = NoTarget  Missing = Missing
  Clients = {c1, c2}  Dirs = {"d1", "d2"}  maxHandles = 1  DocumentRoots <- TwoRoots
  Paths = {"/a", "/b", "/c"}  sidecars <- TwoSidecars  gone <- OneIsGone  dirOf <- DirectoryOf
  Size = 2  Requests <- SixRequests  Fallback = NoPath  NoPath = NoPath  NoTag = NoTag
  Environments <- UpToTwoVariables  Flags <- UpToTwoFlags  Argvs = {"given", "stray"}
  Deploys = {s1, s2}  Refs = {"app@1", "app@2"}  Configs <- Blocks
  Settable = {{"token", "endpoint", "user", "password"}}  MaxRows = 2  NoRef = NoRef
  Jobs <- Inquiries  SigImages <- Signatures  Attestations <- Statements  Source <- OneFromRepo
  Anchors <- Embedded  CoveredLogs <- KnownLogs  Preset <- Presets
  Captured = 0  MaxAge = 5  Window = 1  Times = {2, 4}  MaxWrites = 2  MaxJobs = 2
  Operators = {o1, o2}  Workloads = {"w1"}  projectOf <- OfWeb  beside <- NothingBeside
  MaxVersion = 3  MaxHistory = 3  MaxApplies = 3  NoImage = NoImage  Nothing = Nothing
  AppFiles <- ThreeFiles  AppRoots <- ServerAndClient  RootOf <- RootOfFile  Contents = {"1", "2"}
  TreeDigests <- FourDigests  NoDigest = NoDigest  Malformed = Malformed  Trees <- Built
  Workers = {w1, w2}  Empty = Empty  MaxChanges = 1
INVARIANTS
  TypeOK
  DevLoopIsHonest
  
  
  AlwaysAWorkingBinary
  
  EvidenceIsGenuine
SYMMETRY Symmetry
\* Each component stops where its work, or the bound on it, is over.
CHECK_DEADLOCK FALSE
