SPECIFICATION Spec
CONSTANTS
  g1 = g1
  g2 = g2
  g3 = g3
  Workers = {w1, w2}
  Keys = {g1, g2}
  Authority = g1
  GuardianVecs <- SmallRotation
  Timelock = 1
  MAX_GUARDIANS = 2
  U8Max = 2
  I64Max = 2
  Requests = {"propose", "approve", "execute"}
  Backend = "postgres"
  MaxProposals = 1
  NoRecord = NoRecord
  NoKey = NoKey
INVARIANTS
  ExecutionEarned
PROPERTIES
  ContentKept
SYMMETRY WorkerSymmetry
VIEW Unheard
