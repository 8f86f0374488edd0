SPECIFICATION Spec
CONSTANTS
  HistoryCap = 3
  KickDelays = {0, 2}
  MaxTime = 3
  MaxStrikes = 2
  Kinds <- MCKinds
  PidHash <- MCPidHash
  RegistryMax = 2
  MaxEntries = 3
  MaxNotes = 1
  Stamps = {1}
  Texts <- MCTexts
  ChainMax = 2
  RowLens = {13, 16}
  HookSlots = {63, 64}
  SeqMax = 6
  Seeds = {s1, s2}
  Envelopes <- MCEnvelopes
  MaxSigned = 2
  EventTags <- MCEventTags
  EnvvarNames <- MCEnvvarNames
  PathMarks <- MCPathMarks
  TransitSizes = {4, 5}
  MaxTransit = 4
  MaxTransits = 2
  Similarities = {10000, 9501, 9500, 10001}
  Epsilon = 500
  SaturationLimit = 2
  RunMax = 3
  MaxObservations = 5
  LinkKeys = {shared, other}
  SharedKey = shared
  Owners <- MCOwners
  Hosts <- MCHosts
  Verbs <- MCVerbs
  Nonces <- MCNonces
  Grants <- MCGrants
  MaxSkew = 1
  MaxLinkTime = 3
  MaxRequests = 1
  Corpus <- MCCorpus
  Levels = {0, 9}
  PiiPaths = {"legal"}
  PiiContents = {"cnpj"}
  CanonPaths = {"readme"}
  FedEnvelopes <- MCFedEnvelopes
  MaxPayload = 4
  VerbMarks <- MCVerbMarks
  Labels <- MCLabels
  MaxDepth = 2
  GlyphCount = 1024
  Fnv <- MCFnv
  FoldedHandle = 99
  ScoreFull = 4
  ScoreStep = 1
  ScoreWord = 16
  MaxRanked = 6
  Roles <- MCRoles
  KnownRoles <- MCKnownRoles
  FieldSamples <- MCFieldSamples
  Machines <- MCMachines
  ScanCap = 3
  TupleCap = 23
  Instants <- MCInstants
  UipLead = 8
  GuardMax = 9
  HeapStart = 6
  HeapSize = 20
  Layouts <- MCLayouts
  MaxGrants = 3
  Identities <- MCIdentities
  LineCaps = {0, 150, 384}
INVARIANTS
  TypeOK
  OverdueFollowsKick
  RegistryBalances
  ValidationTellsTampering
  
  LinkServesOnlyGranted
  AddressingSound
  BootStaysInBounds
  BootIdentitySound
CHECK_DEADLOCK FALSE
