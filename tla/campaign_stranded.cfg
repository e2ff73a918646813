SPECIFICATION Spec
CONSTANTS
  Last = 4
  Attempt = {a1, a2, a3, a4}
  None = None
  MaxFaults = 3
INVARIANTS RestartAdmitted
CHECK_DEADLOCK FALSE
