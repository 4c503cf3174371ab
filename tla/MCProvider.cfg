SPECIFICATION ProviderSpec
CONSTANTS
  Opens = {k1, k2}
  PrepareOps = {o1, o2}
  MAX_FILE_SIZE = 2
  LastGeneration = 4
  Dispositions = {"OPEN", "OVERWRITE_IF"}
  Names = {"a", "b"}
  PrepareQuota = 2
  MaxDepth = 2
  MaxFiles = 4
  MaxLinks = 4
  MaxStamps = 3
  MaxTransactions = 3
  MaxOutside = 1
  MAX_RING_COUNT = 1
  MAX_COMPONENT_UTF16_CODE_UNITS = 255
  Capacities = {688, 336}
  LastId = 7
  LastScan = 2
  MaxChanges = 2
SYMMETRY Interchangeable
INVARIANTS DataFaithful NamespaceCoherent ScansComplete
PROPERTY OpensAsPrepared
CHECK_DEADLOCK FALSE
