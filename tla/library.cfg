SPECIFICATION LibrarySpec
CONSTANTS
  Size = 6
  Values = {1, 2, 3}
  MAXCCALLS = 200
  LUA_MAXCAPTURES = 32
  Main = "main"
  Coroutines = {"c1", "c2"}
  Owners = {"o1", "o2"}
  Limit = 1
  Environments = {"e1", "e2", "global"}
  MaxFrames <- GuardFrames
  Resuming = {"secrets", "budget"}
  Version = "5.1"
INVARIANTS Sorted Finds Replaces Denied TaintKept Fits Metered RoundTrip Loaded Hooked Traced Filed
