SPECIFICATION OverlapSpec
CONSTANTS
  g1 = g1
  g2 = g2
  Workers = {w1, w2}
  Keys = {g1, g2}
  Authority = g1
  GuardianVecs <- SmallRotation
  Timelock = 0
  MAX_GUARDIANS = 2
  U8Max = 2
  I64Max = 0
  Requests = {"propose", "approve", "execute", "pause"}
  Backend = "memory"
  MaxProposals = 2
  NoRecord = NoRecord
  NoKey = NoKey
INVARIANTS
  EarnedStatus
  NoCountSkipped
  AdmittedInTime
  CounterPastRecords
  VotesCountedApart
PROPERTIES
  CountsAnnouncedOnce
  FinalAtRest
  FreshApart
  ExecutedOnceApart
SYMMETRY WorkerSymmetry
