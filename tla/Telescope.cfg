CONSTANTS
  m1 = m1
  m2 = m2
  sg = sg
  client1 = client1
  sender1 = sender1
  Nodes = {m1, m2, sg}
  Processes = {client1, sender1}
  Routes <- MCRoutes
  MaxRotations = 1
  MaxCrashes = 1
SPECIFICATION FairSpec
CHECK_DEADLOCK FALSE
INVARIANT TypeOK
INVARIANT KeysAgree
INVARIANT StoredAreAPrefix
PROPERTY AttemptEnds
PROPERTY HandlersEnd
