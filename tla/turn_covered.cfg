SPECIFICATION Spec
CONSTANTS
  Msg = {m1, m2}
  Handler = {h1, h2}
  Worker = worker
  Free = free
  NoMsg = noMsg
  MaxAged = 0
  Events = {}
SYMMETRY Symmetry
INVARIANTS NothingForgotten
