\* Three lost sessions and a faulty candidate per operation; two lost notification
\* sessions; a fence over two rings refused four times; two MOUNTs over two VPBs
\* against two dismount arrivals.
SPECIFICATION ProtocolSpec
CONSTANTS
  MAX_FILE_SIZE = 4
  Operations <- MCOperations
  MaxLosses = 3
  MaxCandidateFaults = 1
  MAX_RING_COUNT = 64
  MAX_COMPONENT_UTF16_CODE_UNITS = 255
  OutboxRows = 1
  LastPt = 1
  MaxNotifyLosses = 2
  RingCount = 2
  MaxRefusals = 4
  Mounters = {"m1", "m2"}
  Vpbs = {"v1", "v2"}
  Teardowns = {"t1", "t2"}
  MaxMount = 2
INVARIANTS ExactlyOnceHolds NotifyConsistent FenceKeepsRoster MountClean
PROPERTY ProtocolsEnd
CHECK_DEADLOCK FALSE
