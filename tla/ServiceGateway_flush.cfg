CONSTANTS
  Threads = {t1}
  Flush = flush
  a1 = a1
  b1 = b1
  b2 = b2
  ASessions = {a1}
  BSessions = {b1}
  Partner <- OneClient
  NoSession = none
  MAX_SESSIONS = 2
  PENDING_RESP_QUEUE = 1
  PENDING_WAIT = 1
  SESSION_TTL = 1
  TICK_MOD = 2
  MaxSetups = 1
  MaxRequests = 2
  MaxCovers = 1
  MaxPackets = 4
SPECIFICATION FairSpec
CHECK_DEADLOCK FALSE
PROPERTY EveryReplyLeaves
