SPECIFICATION FairSpec
CONSTANTS
  s1 = s1
  s2 = s2
  Stage = {s1, s2}
  Dependencies <- MCDependencies
  Runner = {r1}
  Attempt = {a1, a2, a3, a4}
  Request = {q1}
  Content = {c1, c2}
  None = None
  MaxFaults = 2
  Tampering = TRUE
INVARIANTS RecordsAreExplicit
PROPERTIES ResultsAreGenuine CompletesUnlessTorn
