SPECIFICATION Spec
CONSTANTS
  d1 = d1  d2 = d2  d3 = d3  ta = ta  tb = tb
  u1 = u1  u2 = u2  u3 = u3  r1 = r1  r2 = r2
  Docs = {d1, d2, d3}
  Titles = {ta}
  Uploads = {u1, u2, u3}
  Requests = {r1}
  None = None
SYMMETRY Sym
INVARIANT
  NothingOutdated
CHECK_DEADLOCK FALSE
