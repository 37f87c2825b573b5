SPECIFICATION SpecResumed
CONSTANTS
  Strings = {}
  Tables = {g}
  Closures = {c1, c2}
  Upvalues = {u1}
  Userdata = {}
  Threads = {co}
  Global = g
  Finalizable = {}
  SweepMax = 6
  MaxRefs = 2
  MaxStack = 2
  Unbarriered = {"suspend"}
  Quiet = {}
  StopTheWorld = FALSE
SYMMETRY Interchangeable
INVARIANT NoCondemned
