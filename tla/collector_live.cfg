SPECIFICATION FairSpec
CONSTANTS
  Strings = {}
  Tables = {g, t1}
  Closures = {}
  Upvalues = {}
  Userdata = {d1}
  Threads = {}
  Global = g
  Finalizable = {d1}
  SweepMax = 1
  MaxRefs = 1
  MaxStack = 2
  Unbarriered = {}
  Quiet = {}
  StopTheWorld = FALSE
PROPERTIES Collected FinalizerRuns
