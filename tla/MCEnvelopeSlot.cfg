CONSTANTS
  Producers = {p1, p2}
  Consumers = {c1, c2}
  short = short
  long = long
  long2 = long2
  huge = huge
  NoEnv = NoEnv
  Envelopes = {short, long, long2, huge}
  EnvLen <- MCEnvLen
  SlotBytes = 2
  BufLens = {1, 2}
  Budgets = {1, 2}
SPECIFICATION Spec
SYMMETRY Symmetry
INVARIANTS
  TypeOK
  SingleOwner
  NoTornDelivery
  ExactlyOnce
  DepthTracksSlot
