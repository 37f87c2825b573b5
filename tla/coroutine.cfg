SPECIFICATION Spec
CONSTANTS
  Threads = {t1, t2, t3}
  Upvalues = {u1, u2, u3}
  Vars = {x, y, z}
  Vals = {0, 1}
  None = None
  Escapes = FALSE
  MaxSlots = 3
  MaxSaved = 3
SYMMETRY Interchangeable
INVARIANT OneVariable
PROPERTY Implements
