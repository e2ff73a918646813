SPECIFICATION Spec
CONSTANTS
  Last = 4
  Attempt = {a1, a2, a3, a4}
  None = None
  MaxFaults = 3
PROPERTIES RerunsAuthenticate
CHECK_DEADLOCK FALSE
