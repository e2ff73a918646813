SPECIFICATION MCSpec
CONSTANTS
  Build = {b1, b2, b3}
  Style = {"corpus", "segment", "benchmark", "review", "demo"}
  PriorTree = prior
  NoTree = none
  MaxMishaps = 2
  Relationship = {r1, r2, r3}
  Range <- MCRange
  EndpointPairs <- MCEndpointPairs
  HeldOut = {"test", "development", "train"}
  Importer = {i1, i2}
  Version = {v1, v2}
  Original = v1
  Content = {"a", "b"}
  Produced <- MCProduced
  Unset = unset
  Shell = {s1, s2}
  Plain = plain
  Stamped = {stamped}
  None = absent
  MaxSerial = 3
  MaxDeaths = 2
  MaxOutages = 1
  MaxLoads = 1
  FalseIsMissing = FALSE
INVARIANTS TreeSurvives OutputComesBack
INVARIANTS GroupsAreExact SplitsDoNotLeak ImportIsGenuine
INVARIANTS HashIsEnough WorkerFindsItsDatabase RebindIsRecordedOnce
PROPERTIES BootstrapPasses
CHECK_DEADLOCK FALSE
