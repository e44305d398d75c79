SPECIFICATION MirrorSpec
CONSTANTS
  g1 = g1
  g2 = g2
  g3 = g3
  Keys = {g1, g2, g3}
  DefaultKey = DefaultKey
  Programs = {prog}
  BuildHashes = {zero, h1}
  ZeroHash = zero
  GuardianVecs <- Rotation
  Timelocks <- SomeTimelocks
  MAX_GUARDIANS = 2
  U8Max = 2
  U64Max = 2
  I64Max = 2
  NoAccount = NoAccount
  Malformed = Malformed
  NoEngine = NoEngine
  NoRecord = NoRecord
INVARIANTS
  Mirrors
  SameVerdicts
VIEW Compared
