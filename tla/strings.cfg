SPECIFICATION Spec
CONSTANTS
  ping = ping pong = pong tick = tick p = p
  Texts = {ping, pong, tick}
  Hash <- MCHash
  Pointers = {p}
  At <- MCAt
  Nothing = Nothing
  MinBuckets = 1
  SweepMax = 1
  GenMod = 2
  MaxHeld = 2
  MaxKept = 1
  MaxSweeps = 2
CHECK_DEADLOCK FALSE
INVARIANTS OneReference SlotsExact NeverMistaken
