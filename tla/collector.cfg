SPECIFICATION Spec
CONSTANTS
  Strings = {}
  Tables = {g}
  Closures = {c1}
  Upvalues = {u1}
  Userdata = {}
  Threads = {co}
  Global = g
  Finalizable = {}
  SweepMax = 2
  MaxRefs = 1
  MaxStack = 2
  Unbarriered = {}
  Quiet = {"setfenv", "debug.setupvalue", "overlimit", "debug.setmetatable"}
  StopTheWorld = FALSE
INVARIANTS IInv NoCondemned Reclaimed
