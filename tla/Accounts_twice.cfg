SPECIFICATION Spec
CONSTANTS
  o1 = o1  o2 = o2
  u1 = u1  u2 = u2  u3 = u3
  q1 = q1  q2 = q2  q3 = q3
  Orgs = {o1, o2}
  Demo = o1
  Users = {u1, u2, u3}
  HomeOf <- Staff
  Requests = {q1, q2, q3}
  None = None
SYMMETRY Sym
INVARIANTS
  NoDuplicateAdmins
CHECK_DEADLOCK FALSE
