SPECIFICATION DriverSpec
CONSTANTS
  Strings = {}
  Tables = {g, t1}
  Closures = {}
  Upvalues = {}
  Userdata = {d1, d2}
  Threads = {}
  Global = g
  Finalizable = {d1, d2}
  SweepMax = 8
  MaxRefs = 1
  MaxStack = 2
  Unbarriered = {}
  Quiet = {"settypemetatable"}
  StopTheWorld = FALSE
  MaxCalls = 6
  FinalizerCalls = {"collect"}
SYMMETRY Interchangeable
INVARIANTS NoDangling NeverLocked
PROPERTIES FullCollects OnlyGarbageFinalized
