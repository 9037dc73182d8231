SPECIFICATION Spec
CONSTANTS
  a1 = a1
  a2 = a2
  U64Bits = 10
  Proofs <- ProofAddresses
  Declarations <- SomeNoops
  Nonces = {1, 2}
  ONE_MINUTE = 1
  TOLERANCE = 0
  SlotTimes = {0, 1}
  MaxSlot = 3
INVARIANTS
  TxTypeOK
  CountedOnce
  NoPreMining
  OneHashPerKind
