CONSTANTS
  Keys = {k1, k2}
  Suffixes = {x1}
  Clients = {c1}
  Nothing = nothing
  MAX_ENTRIES = 1
  MAX_PENDING = 2
  PENDING_TTL = 1
  ENTRY_BYTES = 3
  LISTING_CAP = 8
  SLOT_NONCE_BYTES = 2
  MaxRuns = 2
  MaxUploads = 1
  MaxUnderWay = 1
  MAX_OWNED_KEYS = 1
  POLL_TRIES = 2
  POLL_INTERVAL = 1
  WAIT = 1
  Blobs <- MCBlobs
  Pubs <- MCPubs
  Responses <- MCResponses
  EntrySize <- MCEntrySize
SPECIFICATION FairSpec
CHECK_DEADLOCK FALSE
PROPERTY GetEnds
PROPERTY OwnedRequestsAnswered
PROPERTY ImplementsContract
