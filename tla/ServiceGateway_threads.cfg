CONSTANTS
  Threads = {t1, t2}
  Flush = flush
  a1 = a1
  b1 = b1
  b2 = b2
  ASessions = {a1}
  BSessions = {b1, b2}
  Partner <- OneClient
  NoSession = none
  MAX_SESSIONS = 2
  PENDING_RESP_QUEUE = 1
  PENDING_WAIT = 1
  SESSION_TTL = 1
  TICK_MOD = 2
  MaxSetups = 2
  MaxRequests = 2
  MaxCovers = 1
  MaxPackets = 4
SPECIFICATION Spec
CHECK_DEADLOCK FALSE
SYMMETRY ThreadSymmetry
INVARIANT TypeOK
INVARIANT PinsCounted
INVARIANT SetupMeansBound
INVARIANT DispatchIsRouted
INVARIANT RepliesAccounted
