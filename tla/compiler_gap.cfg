SPECIFICATION GapSpec
CONSTANTS
  MAXINDEXRK = 2
  MAXSTACK = 250
  LFIELDS_PER_FLUSH = 2
  MAXARG_C = 3
  MAXACTIVEVARS = 20
  MAX_SYNTAX_LEVELS = 30
  MAXUPVALUES = 5
  MAXTAGLOOP = 5
  LUA_MINSTACK = 2
  Typed = 0
  Departure = 1
  Inputs <- OneInput
  Deep = {}
INVARIANT Agrees
