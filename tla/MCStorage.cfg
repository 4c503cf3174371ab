\* Two mounts of one operation each and a store that fills; two slots and
\* header sequences to four; three paging writes of which two may be in flight.
SPECIFICATION StorageSpec
CONSTANTS
  MAX_FILE_SIZE = 4
  MAX_DURABLE_ORDINARY_BYTES_GLOBAL = 3000
  MAX_DURABLE_RECOVERY_BYTES_GLOBAL = 3128
  MAX_DURABLE_RETIRE_RECEIPTS = 1
  RETIRE_RECEIPT_RESERVED_BYTES = 128
  Mounts = {1, 2}
  Ops = {1}
  RingCount = 2
  ProbeKeys <- MCProbeKeys
  MAX_JOURNALED_WRITE_BYTES_PER_REQUEST = 120
  MAX_STORED_COMPONENT_BYTES = 26
  MAX_MUTATION_BODY_BYTES = 24
  U64_MAX = 15
  BOOT_CONTEXT_SLOT_COUNT = 2
  LastHeaderSequence = 4
  ACTIVE_CAPACITY = 2
  INLINE_INTERVALS = 1
  MAX_INTERVALS = 2
  PRECLAIM_NODES = 1
  LastIssue = 3
INVARIANTS RecordsFaithful StoreSound
PROPERTY LedgerSound
CHECK_DEADLOCK FALSE
