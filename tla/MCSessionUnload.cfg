SPECIFICATION FairSpec
CONSTANTS
  Files = {"f1"}
  SlotCount = 1
  Setups = {"u1"}
  Resolvers = {"e1"}
  Exiting = "f1"
  MayUnload = TRUE
  MaxEpoch = 1
  MaxGeneration = 2
CHECK_DEADLOCK FALSE
INVARIANT RegistryOutlivesUsers
PROPERTY LifecycleEnds
