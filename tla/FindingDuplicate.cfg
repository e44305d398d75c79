SPECIFICATION Spec
CONSTANTS
  Workers = {w1, w2}
  FindingIds = {f1, f2}
  Severities = {low, high}
  MaxRaises = 2
  NoFinding = NoFinding
INVARIANTS
  DuplicatesRefused
