CONSTANTS
  Callers = {c1, c2}
  PageBytes = 4
  PoolPages = 3
  UsizeModulus = 64
  Lens = {1, 8}
  FdTableSize = 5
  Bindings = {"Unbacked", "BusEnvelope"}
  AgentRegistryMax = 2
SPECIFICATION FairSpec
INVARIANTS
  TypeOK
  GrantsDisjoint
  DescriptorsUnique
  LowestFreeUnlessClosed
  BusThroughBoundFd
  HandlesDense
  CountSettles
PROPERTIES
  RefusalsJustified
  EveryAllocReturns
