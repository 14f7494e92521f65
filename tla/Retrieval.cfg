SPECIFICATION Spec
CONSTANTS
  m1 = m1  m2 = m2  m3 = m3  x1 = x1  x2 = x2
  Manuals = {m1, m2, m3}
  Fixes = {x1, x2}
  Levels = {40, 47}
  Limit = 3
  Pool = 4
  TopK = 2
  Unit <- ThreeRanks
  IdOf <- Ids
INVARIANTS
  TypeOK
  FusionFollowsSearches
  FixesFirst
  EscalatesWhenNothingReaches
  PointsAtWhatWasMeant
CHECK_DEADLOCK FALSE
