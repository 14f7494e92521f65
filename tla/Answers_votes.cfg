SPECIFICATION FairSpec
CONSTANTS
  c1 = c1  a1 = a1  a2 = a2  v1 = v1  v2 = v2  v3 = v3  k1 = k1  k2 = k2  m1 = m1  m2 = m2
  Chats = {c1}
  Asks = {a1}
  Votes = {v1, v2, v3}
  Chunks = {k1, k2}
  Machines = {m1}
  MachineOf <- BothOnOne
  None = None
INVARIANTS
  SignalsAreVotes
PROPERTIES
  AsksFinish
CHECK_DEADLOCK FALSE
