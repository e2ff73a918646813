SPECIFICATION Spec
CONSTANTS
  s1 = s1
  s2 = s2
  Stage = {s1, s2}
  Dependencies <- MCDependencies
  Runner = {r1}
  Attempt = {a1, a2}
  Request = {q1}
  Content = {c1}
  None = None
  MaxFaults = 1
  Tampering = FALSE
PROPERTIES RecoveryIsTotal
CHECK_DEADLOCK FALSE
