SPECIFICATION Spec
CONSTANTS
  IntKeys = {1, 2, 3}
  StrKeys = {s1, s2}
  RefKeys = {r}
  v = v
  w = w
  Values <- MCValues
  Nil = Nil
  Off = Off
  Failed = Failed
  Hash <- MCHash
  Sizes <- MCSizes
  Lists <- MCLists
  Mixed = FALSE
INVARIANTS Faithful LengthIsBorder
PROPERTY Visits
