CONSTANTS
  Threads = {t1, t2}
  Sessions = {s1}
  ReturnSessions = {}
  NoSession = none
  MAX_SESSIONS = 1
  SESSION_TTL = 1
  TICK_MOD = 2
  MaxReal = 6
  MaxCover = 0
  MaxResends = 0
  HINT_WINDOW = 4
  HINT_SAFETY_MARGIN = 2
  HINT_COVER_COUNTER_BASE = 50
  REPLAY_WINDOW = 2
  MaxSent <- MCMaxSent
SPECIFICATION Spec
CHECK_DEADLOCK FALSE
SYMMETRY ThreadSymmetry
INVARIANT HighWaterWasSent
