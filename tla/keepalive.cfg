SPECIFICATION Spec
CONSTANTS
  t = t w = w f = f u1 = u1 u2 = u2 s = s
  Tables = {t, w}
  Functions_ = {f}
  Userdata = {u1, u2}
  Strings = {s}
  Plain = Plain
  Nil = Nil
  Age <- MCAge
  Starts <- MCStarts
  MaxFields = 2
  MaxHeld = 2
  MaxWrites = 1
  Careless = FALSE
CHECK_DEADLOCK FALSE
INVARIANTS NoneFreed
PROPERTIES OnlyLostTaken NewestFirst
