SPECIFICATION Spec
CONSTANTS
  Files = {"f1", "f2"}
  SlotCount = 1
  Setups = {"u1"}
  Resolvers = {"e1"}
  Exiting = "f1"
  MayUnload = FALSE
  MaxEpoch = 1
  MaxGeneration = 2
CHECK_DEADLOCK FALSE
INVARIANTS ContextOutlivesUsers GenerationCoherent TicketsConserved
CONSTRAINT QuietExit
