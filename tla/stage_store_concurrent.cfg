SPECIFICATION Spec
CONSTANTS
  s1 = s1
  s2 = s2
  Stage = {s1, s2}
  Dependencies <- MCDependencies
  Runner = {r1, r2}
  Attempt = {a1, a2, a3}
  Request = {q1, q2}
  Content = {c1}
  None = None
  MaxFaults = 1
  Tampering = FALSE
SYMMETRY AttemptSymmetry
INVARIANTS PublishedIsPreserved
PROPERTIES EvidenceRetained ImplementsLedger
CHECK_DEADLOCK FALSE
