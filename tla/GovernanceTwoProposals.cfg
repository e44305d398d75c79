SPECIFICATION Spec
CONSTANTS
  k1 = k1
  k2 = k2
  k3 = k3
  Keys = {k1, k2}
  DefaultKey = DefaultKey
  Programs = {prog}
  BuildHashes = {zero, hashA, hashB}
  ZeroHash = zero
  GuardianVecs <- PairVecs
  Timelocks <- PairTimelocks
  MAX_GUARDIANS = 2
  U8Max = 2
  U64Max = 2
  I64Max = 2
  NoAccount = NoAccount
INVARIANTS
  SettledOnce
  IdsDense
  TimelockServed
  EventLogFaithful
