---------------------------- MODULE CacheServer ----------------------------
(***************************************************************************)
(* The cache server (src/ASN/gateway/cache_server.c): the content store    *)
(* and the table of pending handshakes between receivers and senders.      *)
(*                                                                         *)
(* Each request is one connection thread that takes one lock once, so each *)
(* branch of handle_connection() is one atomic step on the table it uses;  *)
(* what it answers is an operator on the state before that step.  Blobs,   *)
(* ephemeral public keys and responses are opaque to the server.           *)
(***************************************************************************)
EXTENDS Integers, FiniteSetsExt

CONSTANTS
  Keys,          \* content keys
  Suffixes,      \* the four hex digits that make a wire key
  Blobs,         \* contents, as PUT carries them
  Pubs,          \* ephemeral public keys of receivers
  Responses,     \* what a sender answers, as HANDSHAKE_RESPOND carries it
  Nothing,       \* not a blob, public key or response
  MAX_ENTRIES,   \* size of g_store, 256
  MAX_PENDING,   \* size of g_pending, 64
  PENDING_TTL,   \* PENDING_TTL_MS, in clock ticks
  EntrySize(_),  \* bytes of a HEARTBEAT entry: 1 + klen + EC_PUBKEY_LEN
  LISTING_CAP    \* bytes a HEARTBEAT reply has for entries

ASSUME CacheAssumption ==
  /\ Nothing \notin Blobs \cup Pubs \cup Responses
  /\ Nothing \notin [r_pub : Pubs, resp : Responses \cup {Nothing}]
  /\ MAX_ENTRIES \in Nat \ {0} /\ MAX_PENDING \in Nat \ {0}
  /\ PENDING_TTL \in Nat /\ LISTING_CAP \in Nat

\* "<content key>#<suffix>", the key INIT, POLL and RESPOND use.
WireKey == [key : Keys, suffix : Suffixes]

PSlots  == 0 .. (MAX_PENDING - 1)
NoSlot  == -1

\* pending_handshake_t; age is the time since created_ms, kept up to the
\* first value that counts as stale.  Fields that no branch reads (all of a
\* slot not in use, resp of one not ready) are kept at one value.
Handshake ==
  [in_use : BOOLEAN, key : WireKey \cup {Nothing}, r_pub : Pubs \cup {Nothing},
   ready : BOOLEAN, resp : Responses \cup {Nothing}, age : 0 .. (PENDING_TTL + 1)]

UnusedSlot == [in_use |-> FALSE, key |-> Nothing, r_pub |-> Nothing,
               ready |-> FALSE, resp |-> Nothing, age |-> 0]

VARIABLES
  store,         \* g_store: content of each stored key
  pending        \* g_pending

cacheVars == <<store, pending>>

CacheInit ==
  /\ store   = [k \in Keys |-> Nothing]
  /\ pending = [i \in PSlots |-> UnusedSlot]

-----------------------------------------------------------------------------
(* PUT and GET                                                             *)

Stored == {k \in Keys : store[k] # Nothing}

PutAccepted(k) == k \in Stored \/ Cardinality(Stored) < MAX_ENTRIES

store_put(k, blob) ==
  /\ store' = IF PutAccepted(k) THEN [store EXCEPT ![k] = blob] ELSE store
  /\ UNCHANGED pending

-----------------------------------------------------------------------------
(* The pending handshakes                                                  *)

First(S) == IF S = {} THEN NoSlot ELSE Min(S)

\* Faulty: the first slot in use is taken for that of any wire key.
FindInUse(w) == First({i \in PSlots : pending[i].in_use})

pending_find(w) == First({i \in PSlots : pending[i].in_use /\ pending[i].key = w})

Reusable == {i \in PSlots : ~pending[i].in_use \/ pending[i].age > PENDING_TTL}

\* The slot HANDSHAKE_INIT uses for w, if any.
InitSlot(w) == IF pending_find(w) # NoSlot THEN pending_find(w) ELSE First(Reusable)

HandshakeInit(w, pub) ==
  LET i == InitSlot(w) IN
  /\ pending' = IF i = NoSlot THEN pending
                ELSE [pending EXCEPT ![i] =
                        [in_use |-> TRUE, key |-> w, r_pub |-> pub,
                         ready |-> FALSE, resp |-> Nothing, age |-> 0]]
  /\ UNCHANGED store

\* What HANDSHAKE_POLL answers: the sender's response, or Nothing (0x00).
PollAnswer(w) ==
  LET i == pending_find(w) IN
  IF i # NoSlot /\ pending[i].ready THEN pending[i].resp ELSE Nothing

\* A response that is handed back frees its slot.
HandshakePoll(w) ==
  /\ pending' = IF PollAnswer(w) # Nothing
                  THEN [pending EXCEPT ![pending_find(w)] = UnusedSlot]
                  ELSE pending
  /\ UNCHANGED store

Unanswered(i) == pending[i].in_use /\ ~pending[i].ready

EntryBytes(S) == MapThenSumSet(LAMBDA j : EntrySize(pending[j].key), S)

\* Faulty: the scan starts at the second slot.
ListedButFirst ==
  {i \in PSlots \ {0} :
     Unanswered(i) /\ EntryBytes({j \in 0 .. i : Unanswered(j)}) <= LISTING_CAP}

\* The slots HEARTBEAT lists: in table order, up to the first that no longer
\* fits into the reply.
Listed ==
  {i \in PSlots :
     Unanswered(i) /\ EntryBytes({j \in 0 .. i : Unanswered(j)}) <= LISTING_CAP}

ListingSize == EntryBytes(Listed)

HeartbeatListing == {[wire |-> pending[i].key, r_pub |-> pending[i].r_pub] : i \in Listed}

HandshakeRespond(w, resp) ==
  LET i == pending_find(w) IN
  /\ pending' = IF i = NoSlot THEN pending
                ELSE [pending EXCEPT ![i].resp = resp, ![i].ready = TRUE]
  /\ UNCHANGED store

\* The clock runs for the table.
Older(p) == IF p.in_use /\ p.age <= PENDING_TTL THEN [p EXCEPT !.age = @ + 1] ELSE p

CacheTick ==
  /\ pending' = [i \in PSlots |-> Older(pending[i])]
  /\ UNCHANGED store

-----------------------------------------------------------------------------
CacheTypeOK ==
  /\ store \in [Keys -> Blobs \cup {Nothing}]
  /\ Cardinality(Stored) <= MAX_ENTRIES
  /\ pending \in [PSlots -> Handshake]

\* The table as receivers and senders see it: one mailbox per wire key.
Contents == store
Mailbox  ==
  [w \in WireKey |->
     LET i == pending_find(w) IN
     IF i = NoSlot THEN Nothing
     ELSE [r_pub |-> pending[i].r_pub,
           resp  |-> IF pending[i].ready THEN pending[i].resp ELSE Nothing]]

Contract == INSTANCE CacheContract WITH contents <- Contents, mailbox <- Mailbox
ImplementsContract == Contract!Spec
=============================================================================
