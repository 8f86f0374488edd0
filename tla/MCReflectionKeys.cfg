CONSTANTS
  Rooms = {A}
  Keys = {k1, k2}
  Forms <- MCFormsPublic
  Products = {NoProduct, product}
  NoProduct = NoProduct
  Window = 1
  GulpsPerCheckpoint = 2
  CheckpointsPerSuperGulp = 2
  U64Max = 4
  MaxInFlight = 1
SPECIFICATION Spec
CHECK_DEADLOCK FALSE
INVARIANTS
  DuplicateKeysResolve
