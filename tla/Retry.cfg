SPECIFICATION FairSpec
CONSTANTS
  Policies <- SomePolicies
  Millisecond = 2
  U32Max = 7
  U64Max = 15
INVARIANTS
  EffectsBounded
PROPERTIES
  BackoffGrows
  Answers
CHECK_DEADLOCK FALSE
