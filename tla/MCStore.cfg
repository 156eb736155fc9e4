SPECIFICATION Spec
CONSTANTS
  Server = server
  Handlers = {g1, g2}
  Threads = {t1}
  Clis = {c1}
  NoTime = NoTime
  MaxEdits = 2
  MaxTime = 1
  MaxFails = 1
SYMMETRY Alike
INVARIANTS
  EditsKept
PROPERTIES
  ReadsAreRegular
