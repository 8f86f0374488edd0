CONSTANTS
  Rooms = {A, B}
  Keys = {k1, k2}
  Forms <- MCForms
  Products = {NoProduct, product}
  NoProduct = NoProduct
  Window = 2
  GulpsPerCheckpoint = 2
  CheckpointsPerSuperGulp = 2
  U64Max = 4
  MaxInFlight = 2
SPECIFICATION Spec
CHECK_DEADLOCK FALSE
SYMMETRY Symmetry
INVARIANTS
  TypeOK
  CountersAgree
  OneChain
  ParentsPrecede
  WindowKeysUnique
