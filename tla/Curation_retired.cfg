SPECIFICATION Spec
CONSTANTS
  f1 = f1  f2 = f2  r1 = r1  r2 = r2  r3 = r3
  cora = cora  cole = cole  tess = tess  t1 = t1  t2 = t2
  Fixes = {f1}
  Requests = {r1, r2, r3}
  Users = {cora}
  Reviewers = {cora}
  Texts = {t1}
  None = None
CHECK_DEADLOCK FALSE
SYMMETRY Sym
INVARIANT
  RetiredVanishes
