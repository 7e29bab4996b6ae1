CONSTANTS
  POOL_SIZE = 11
  GUARD_SET_SIZE = 2
  Legs = {1, 2}
  Processes = {p1, p2}
  GuardWidth = 2
  MaxSessions = 1
  MaxStarts = 2
  MaxSpoils = 1
  Nothing = Nothing
SYMMETRY MCSymmetry
SPECIFICATION Spec
CHECK_DEADLOCK FALSE
INVARIANT TypeOK
INVARIANT OverlapOnlyBy
INVARIANT PathsApart
INVARIANT LegsPossible
INVARIANT EntriesStayFew
