SPECIFICATION SwapSpec
CONSTANTS
  Build = {b1}
  Style = {"benchmark"}
  PriorTree = prior
  NoTree = none
  MaxMishaps = 1
INVARIANT BenchmarkTreeSurvives
CHECK_DEADLOCK FALSE
