SPECIFICATION Spec
CONSTANTS
  s1 = s1
  s2 = s2
  p1 = p1
  Signals = {s1, s2}
  Principals = {p1}
  Coverage = Coverage
  None = None
  MaxEvents = 5
SYMMETRY Symmetry
INVARIANTS TypeOK AuditAccepts AnswersTruthful
PROPERTY ClearEarned
