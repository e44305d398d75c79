SPECIFICATION FairSpec
CONSTANTS
  c1 = c1
  c2 = c2
  c3 = c3
  Callers <- SomeCallers
  failure_threshold = 3
  open_duration = 2
  U32Max = 7
INVARIANTS
  TypeOK
  ClosedBelowThreshold
PROPERTIES
  CooldownServed
  ProbesInTheEnd
