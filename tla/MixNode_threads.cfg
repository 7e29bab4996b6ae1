CONSTANTS
  Threads = {t1, t2}
  Sessions = {s1, s2}
  ReturnSessions = {s2}
  NoSession = none
  MAX_SESSIONS = 1
  SESSION_TTL = 1
  TICK_MOD = 2
  MaxReal = 2
  MaxCover = 1
  MaxResends = 1
  HINT_WINDOW = 4
  HINT_SAFETY_MARGIN = 2
  HINT_COVER_COUNTER_BASE = 50
  REPLAY_WINDOW = 2
  MaxSent <- MCMaxSent
SPECIFICATION Spec
CHECK_DEADLOCK FALSE
SYMMETRY ThreadSymmetry
INVARIANT TypeOK
INVARIANT ReplayDistance
INVARIANT NoCrossSession
PROPERTY WindowMovesByOwnPackets
PROPERTY ReclaimSparesActive
PROPERTY ImplementsFilter
