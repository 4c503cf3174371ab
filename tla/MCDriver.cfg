\* Two drivers, two SETUPs of the first one, two loads, one native failure;
\* SETUP of a session of two rings; every request around the limits.
SPECIFICATION DriverSpec
CONSTANTS
  Drivers = {"d1", "d2"}
  Setups = {"s1", "s2"}
  DriverOf <- MCDriverOf
  MaxLoads = 2
  MaxFailures = 1
  LastSequence = 2
  CAPTURE_ATTEMPTS = 2
  RingCount = 2
  PAGE_SIZE = 2
  USER_VIEW_OFFSET_ALIGNMENT = 4
  SLOT_ALIGNMENT = 2
  SLOT_CLASS_COUNT = 3
  MAX_SECTION_BYTES = 120
  IndexBits = 3
  GenerationBits = 2
  Profiles = {"Win10X64", "Win7X64"}
  Owners = {"q1", "q2"}
  Lengths = {0, 1, 2, 5}
INVARIANTS LockExact IdentitiesUnique CapturesWhole SessionAgreed
PROPERTY SetupUnwinds
CHECK_DEADLOCK FALSE
