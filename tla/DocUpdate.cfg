SPECIFICATION AccountsSpec
CONSTANTS
  a1 = a1
  a2 = a2
  m1 = m1
  m2 = m2
  x1 = x1
  x2 = x2
  x3 = x3
  U64Bits = 2
  Authorities = {a1, a2}
  Miners = {m1, m2}
  INITIALIZER = a1
  Assets = {x1, x2, x3}
  ResourceOf <- PickaxesAndAxe
INVARIANTS
  UpdateIsHandled
