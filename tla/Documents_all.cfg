SPECIFICATION HSpec
CONSTANTS
  d1 = d1  d2 = d2  d3 = d3  ta = ta  tb = tb
  u1 = u1  u2 = u2  u3 = u3  r1 = r1  r2 = r2
  Docs = {d1, d2, d3}
  Titles = {ta, tb}
  Uploads = {u1, u2, u3}
  Requests = {r1, r2}
  None = None
CONSTRAINT AtMostFour
SYMMETRY Sym
INVARIANTS
  TypeOK
  RowsHaveObjects
  LineageForward
  ObjectsAccounted
  OneLive
PROPERTY
  KeepsPromise
CHECK_DEADLOCK FALSE
