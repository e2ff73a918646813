SPECIFICATION MCFairSpec
CONSTANTS
  Run = {p1, p2, p3}
  None = None
  MaxFaults = 3
  Edition = {"e1", "e2", "e3"}
  Rows <- MCRows
  Leaves <- MCLeaves
  Batches = 2
  MaxInterrupts = 4
INVARIANTS RecoveryIsUnambiguous CandidatesFollowRankings OnlyTheLastComparisonMayLack
PROPERTIES TreesAreKept OnlySealedIsReplaced FailureStands PromotionResolves ImplementsAtomic CheckpointSurvives AttemptsReachSeal
