SPECIFICATION Spec
CONSTANTS
  MaxCalls = 5
  MaxCCalls = 2
  LateErrors = FALSE
INVARIANTS Counters CatchersStand ExecutesLua Settled
