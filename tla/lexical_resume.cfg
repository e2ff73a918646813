SPECIFICATION ResumeSpec
CONSTANTS
  Edition = {"e1", "e2", "e3"}
  Rows <- MCRows
  Leaves <- MCLeaves
  Batches = 2
  MaxInterrupts = 4
INVARIANTS SealedIsComplete
CHECK_DEADLOCK FALSE
