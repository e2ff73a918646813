SPECIFICATION MCFairSpec
CONSTANTS
  Last = 4
  Attempt = {a1, a2, a3, a4}
  None = None
  MaxFaults = 3
  m = m
  x = x
  y = y
  u1 = u1
  u2 = u2
  u3 = u3
  b1 = b1
  b2 = b2
  Path = {m, x, y}
  Bytes = {b1, b2}
  Torn = Torn
  Missing = Missing
  SizeOf <- MCSizeOf
  Uploader = {u1, u2, u3}
  Tree <- TwoTrees
  Backend = "local"
  MayOverlap <- MCOverlap
  MaxFailures = 2
  Validation = {v1, v2}
  Packaging = {p1}
  Unwritten = Unwritten
  MaxDeaths = 2
  FalseIsMissing = FALSE
  Pair = {1, 2, 3, 4, 5}
  Draft <- MCDraft
  One = 300
  QLimit = 180
  MinimumScore = 2
  TierBSize = 2
  ChunkSize = 2
  MaximumPairs = 4
INVARIANTS RecordsAreSound CleanupIsSafe ReceiptStaysExact ActionsTellTheTruth AcceptanceIsEarned OutcomeIsRight DiscoveriesAreStepUp
PROPERTIES ImplementsDurable FaultsOnlyDelay ForeignObjectsBlock UploadCompletes AcceptedInTheEnd
