CONSTANTS
  Callers = {c1, c2}
  PageBytes = 4
  PoolPages = 3
  UsizeModulus = 64
  Lens = {1, 63}
  FdTableSize = 5
  Bindings = {"Unbacked", "BusEnvelope"}
  AgentRegistryMax = 2
SPECIFICATION Spec
INVARIANT PointersUnique
