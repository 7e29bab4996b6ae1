CONSTANTS
  Keys = {k1, k2}
  Suffixes = {x1}
  Clients = {c1}
  Nothing = nothing
  MAX_ENTRIES = 1
  MAX_PENDING = 1
  PENDING_TTL = 1
  ENTRY_BYTES = 3
  LISTING_CAP = 8
  SLOT_NONCE_BYTES = 2
  MaxRuns = 2
  MaxUploads = 2
  MaxUnderWay = 2
  MAX_OWNED_KEYS = 2
  POLL_TRIES = 1
  POLL_INTERVAL = 1
  WAIT = 1
  Blobs <- MCBlobs
  Pubs <- MCPubs
  Responses <- MCResponses
  EntrySize <- MCEntrySize
SPECIFICATION Spec
SYMMETRY Symmetry
CHECK_DEADLOCK FALSE
INVARIANT TypeOK
INVARIANT ShownWasAskedFor
INVARIANT AlarmsExplained
