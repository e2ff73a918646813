SPECIFICATION ServerSpec
CONSTANTS
  Shell = {s1}
  Plain = plain
  Stamped = {stamped}
  None = none
  MaxSerial = 4
  MaxDeaths = 0
  MaxOutages = 0
  MaxLoads = 0
  FalseIsMissing = TRUE
PROPERTIES AdmittedWorkerEnters
CHECK_DEADLOCK FALSE
