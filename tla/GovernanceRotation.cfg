SPECIFICATION Spec
CONSTANTS
  k1 = k1
  k2 = k2
  k3 = k3
  Keys = {k1, k2, k3}
  DefaultKey = DefaultKey
  Programs = {prog}
  BuildHashes = {zero, hash}
  ZeroHash = zero
  GuardianVecs <- RotationVecs
  Timelocks <- RotationTimelocks
  MAX_GUARDIANS = 2
  U8Max = 2
  U64Max = 1
  I64Max = 2
  NoAccount = NoAccount
INVARIANTS
  TypeOK
  VoteCountExact
  QuorumReachable
  NoStaleNomination
PROPERTY
  ImplementsLifecycle
