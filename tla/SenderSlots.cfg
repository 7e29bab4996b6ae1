CONSTANTS
  SENDER_RESPONSE_PORT_COUNT = 1
  Workers = {w1, w2}
  Keys <- MCKeys
  Wire <- MCWire
  Nonces = {n1, n2}
  Builds = {"base", "loopix"}
  LISTING = 1
  HEARTBEAT_DRAIN_MAX = 2
  MaxPuts = 1
  MaxBeats = 1
  MaxUnderWay = 2
  Nothing = Nothing
SPECIFICATION FairSpec
CHECK_DEADLOCK FALSE
INVARIANT TypeOK
INVARIANT SlotsHeld
INVARIANT AnswerTakenIsOwn
INVARIANT MissedOnlyForStale
PROPERTY RequestsEnd
