-------------------------- MODULE ContentHandshake --------------------------
(***************************************************************************)
(* How a receiver gets content: the GET command of src/ASN/client/client.c *)
(* (perform_content_handshake(), then the request for the blob), and the   *)
(* uploads, heartbeats and responses of src/ASN/sender/sender.c, over the  *)
(* cache server.                                                           *)
(*                                                                         *)
(* The mix network and the service gateway between them are a set of       *)
(* requests and a set of replies: any may arrive late, overtake another,   *)
(* or never arrive.  Every reply to a client lands in its one g_resp_buf.  *)
(*                                                                         *)
(* An upload of a key is a version of it; a K_content stands for the       *)
(* version it encrypts.  A response is a K_content encrypted for one       *)
(* ephemeral public key, and only the client that made that key opens it.  *)
(***************************************************************************)
EXTENDS CacheServer

CONSTANTS
  Clients,
  MaxRuns,          \* bound: GET commands of a client
  MaxUploads,       \* bound: uploads
  MaxUnderWay,      \* bound: requests and replies of a client under way
  MAX_OWNED_KEYS,   \* size of the sender's key registry, 64
  SLOT_NONCE_BYTES, \* the gateway keeps these free in a reply to a sender
  POLL_TRIES,       \* HANDSHAKE_POLL_MAX_TRIES
  POLL_INTERVAL,    \* HANDSHAKE_POLL_INTERVAL_MS, in clock ticks
  WAIT              \* how long wait_response() waits, in clock ticks

Version == 1 .. MaxUploads

ASSUME ContentAssumption ==
  /\ MaxRuns \in Nat /\ MaxUploads \in Nat /\ MaxUnderWay \in Nat \ {0}
  /\ Blobs = [key : Keys, version : Version]
  /\ Pubs = [client : Clients, run : 1 .. MaxRuns]
  /\ Responses = [to : Pubs, k : Blobs]
  /\ MAX_OWNED_KEYS \in Nat /\ SLOT_NONCE_BYTES \in Nat
  /\ POLL_TRIES \in Nat \ {0} /\ POLL_INTERVAL \in Nat /\ WAIT \in Nat \ {0}

VARIABLES
  \* clients
  phase,      \* where the GET command is
  run,        \* GET commands so far: the current ephemeral key pair
  wire_key,
  tries, left,\* polls made; ticks until the sleep or the wait is over
  inbox,      \* g_resp_buf, Nothing when g_resp_event is reset
  known,      \* out_k_content
  shown,      \* the content displayed by the last GET
  pin,        \* TOFU pin per content key
  \* network
  requests, replies,
  \* sender
  owned,      \* g_owned_keys: version of the K_content remembered, 0 if none
  uploads,    \* versions made so far
  puts, responds,     \* PUT and HANDSHAKE_RESPOND on their way
  work,       \* entries heartbeat_thread() has workers running for
  \* history
  inits,      \* <<wire key, public key>> of every handshake begun
  late,       \* clients whose command took a reply to an earlier request for an answer
  alarm       \* clients whose command reported tampering

clientVars  == <<phase, run, wire_key, tries, left, inbox, known, shown, pin, inits, late, alarm>>
networkVars == <<requests, replies>>
senderVars  == <<owned, uploads, puts, responds, work>>
vars == <<cacheVars, clientVars, networkVars, senderVars>>

\* try tells the polls of a GET command apart; r_pub also names the client.
Request == [kind : {"init", "poll", "get"}, try : 0 .. (POLL_TRIES - 1), wire : WireKey, r_pub : Pubs]
Reply   == [to : Request, kind : {"ok", "full", "wait", "ready", "blob", "missing"},
            val : Blobs \cup Responses \cup {Nothing}]

Init ==
  /\ CacheInit
  /\ phase = [c \in Clients |-> "idle"]
  /\ run = [c \in Clients |-> 0]
  /\ wire_key = [c \in Clients |-> Nothing]
  /\ tries = [c \in Clients |-> 0] /\ left = [c \in Clients |-> 0]
  /\ inbox = [c \in Clients |-> Nothing]
  /\ known = [c \in Clients |-> Nothing] /\ shown = [c \in Clients |-> Nothing]
  /\ pin = [c \in Clients |-> [k \in Keys |-> "none"]]
  /\ requests = {} /\ replies = {}
  /\ owned = [k \in Keys |-> 0] /\ uploads = [k \in Keys |-> 0]
  /\ puts = {} /\ responds = {} /\ work = {}
  /\ inits = {} /\ late = {} /\ alarm = {}

-----------------------------------------------------------------------------
(* A client's GET command                                                  *)

MyPub(c) == [client |-> c, run |-> run[c]]

UnderWay(c) == {m \in requests : m.r_pub.client = c} \cup {r \in replies : r.to.r_pub.client = c}

\* send_app_request(): the request leaves and is waited for; beyond
\* MaxUnderWay it is lost.
Ask(c, m) ==
  /\ requests' = IF Cardinality(UnderWay(c)) < MaxUnderWay THEN requests \cup {m} ELSE requests
  /\ phase' = [phase EXCEPT ![c] = m.kind]
  /\ left'  = [left EXCEPT ![c] = WAIT]

\* The request a client of the given phase waits for.
Current(c, kind) ==
  [kind |-> kind, try |-> tries[c], wire |-> wire_key[c], r_pub |-> MyPub(c)]

\* A fresh key pair makes a fresh wire key, as far as its suffix is fresh.
StartGet(c, k) ==
  /\ phase[c] = "idle" /\ run[c] < MaxRuns
  /\ run' = [run EXCEPT ![c] = @ + 1]
  /\ \E x \in Suffixes :
       LET w   == [key |-> k, suffix |-> x]
           pub == [client |-> c, run |-> run[c] + 1]
       IN /\ wire_key' = [wire_key EXCEPT ![c] = w]
          /\ inits' = inits \cup {<<w, pub>>}
          /\ Ask(c, [kind |-> "init", try |-> 0, wire |-> w, r_pub |-> pub])
  /\ tries' = [tries EXCEPT ![c] = 0]
  /\ known' = [known EXCEPT ![c] = Nothing] /\ shown' = [shown EXCEPT ![c] = Nothing]
  /\ late' = late \ {c} /\ alarm' = alarm \ {c}
  /\ UNCHANGED <<cacheVars, inbox, pin, replies, senderVars>>

\* The command is over.
Finish(c) ==
  /\ phase' = [phase EXCEPT ![c] = "idle"] /\ left' = [left EXCEPT ![c] = 0]
  /\ tries' = [tries EXCEPT ![c] = 0] /\ known' = [known EXCEPT ![c] = Nothing]

SleepFor(c) ==
  /\ phase' = [phase EXCEPT ![c] = "sleep"]
  /\ left'  = [left EXCEPT ![c] = POLL_INTERVAL]

\* Faulty: one poll too many.
TryOnceMore(c) ==
  IF tries[c] < POLL_TRIES
    THEN SleepFor(c) /\ tries' = [tries EXCEPT ![c] = @ + 1] /\ UNCHANGED known
    ELSE Finish(c)

\* Faulty: a poll that brought nothing is not counted.
TryForever(c) == SleepFor(c) /\ UNCHANGED <<tries, known>>

\* One poll brought nothing: sleep again, up to POLL_TRIES polls.
NextTry(c) ==
  IF tries[c] + 1 < POLL_TRIES
    THEN SleepFor(c) /\ tries' = [tries EXCEPT ![c] = @ + 1] /\ UNCHANGED known
    ELSE Finish(c)

SendPoll(c) ==
  /\ phase[c] = "sleep" /\ left[c] = 0
  /\ Ask(c, Current(c, "poll"))
  /\ UNCHANGED <<cacheVars, run, wire_key, tries, inbox, known, shown, pin, inits, late, alarm,
                 replies, senderVars>>

\* crypto_ecdh_derive() and the GCM tag: the response was made for this key
\* pair.  A pin that is not the sender's makes its signature invalid.
Opens(c, r) == r.kind = "ready" /\ r.val.to = MyPub(c) /\ pin[c][wire_key[c].key] # "junk"

\* wait_response() takes whatever reply is in g_resp_buf.
Take(c) ==
  /\ inbox[c] # Nothing
  /\ inbox' = [inbox EXCEPT ![c] = Nothing]
  /\ late'  = IF inbox[c].to # Current(c, phase[c]) THEN late \cup {c} ELSE late

\* The first byte of the INIT answer is 0x01.
InitAnswered(c) ==
  /\ phase[c] = "init" /\ Take(c)
  /\ IF inbox[c].kind \in {"ok", "ready"} THEN SleepFor(c) /\ UNCHANGED <<tries, known>> ELSE Finish(c)
  /\ UNCHANGED <<cacheVars, run, wire_key, shown, pin, inits, alarm, networkVars, senderVars>>

\* 0x00: not ready yet; a response that opens: the GET goes out at once;
\* any other: the handshake is over.
PollAnswered(c) ==
  LET r == inbox[c] IN
  /\ phase[c] = "poll" /\ Take(c)
  /\ IF r.kind \in {"wait", "full"} THEN NextTry(c) /\ UNCHANGED <<alarm, requests>>
     ELSE IF Opens(c, r)
       THEN /\ known' = [known EXCEPT ![c] = r.val.k]
            /\ Ask(c, Current(c, "get"))
            /\ UNCHANGED <<tries, alarm>>
       ELSE /\ Finish(c)
            /\ alarm' = IF r.kind = "ready" THEN alarm \cup {c} ELSE alarm
            /\ UNCHANGED requests
  /\ UNCHANGED <<cacheVars, run, wire_key, shown, pin, inits, replies, senderVars>>

\* Faulty: the blob is shown without opening it.
ShowsAnything(c, r) == r.kind = "blob"

\* The blob opens under the K_content of the handshake.
Verifies(c, r) == r.kind = "blob" /\ r.val = known[c]

\* A sender's response, taken for the content, may have the form of a blob:
\* its signature length is a byte of a public key.
ParsesAsBlob(r) == IF r.kind = "ready" THEN BOOLEAN ELSE {r.kind = "blob"}

\* pin_sender_key() pins what comes first for a key, before it is verified.
Pinned(c, r) ==
  IF pin[c][wire_key[c].key] # "none" THEN pin[c][wire_key[c].key]
  ELSE IF r.kind = "blob" THEN "sender" ELSE "junk"

\* verify_signed_content(): what parses is pinned or compared with the pin,
\* then opened; a mismatch is reported as tampering.
GetAnswered(c) ==
  LET r == inbox[c] IN
  /\ phase[c] = "get" /\ Take(c) /\ Finish(c)
  /\ \E parses \in ParsesAsBlob(r) :
       IF ~parses THEN UNCHANGED <<pin, shown, alarm>>
       ELSE /\ pin' = [pin EXCEPT ![c][wire_key[c].key] = Pinned(c, r)]
            /\ IF Verifies(c, r) /\ Pinned(c, r) = "sender"
                 THEN shown' = [shown EXCEPT ![c] = r.val] /\ UNCHANGED alarm
                 ELSE alarm' = alarm \cup {c} /\ UNCHANGED shown
  /\ UNCHANGED <<cacheVars, run, wire_key, inits, networkVars, senderVars>>

Timeout(c) ==
  /\ phase[c] \in {"init", "poll", "get"} /\ left[c] = 0 /\ inbox[c] = Nothing
  /\ IF phase[c] = "poll" THEN NextTry(c) ELSE Finish(c)
  /\ UNCHANGED <<cacheVars, run, wire_key, inbox, shown, pin, inits, late, alarm,
                 networkVars, senderVars>>

\* net_connect() to the first hop fails: the command is over.
SendFails(c) ==
  /\ phase[c] = "sleep" /\ left[c] = 0
  /\ Finish(c)
  /\ UNCHANGED <<cacheVars, run, wire_key, inbox, shown, pin, inits, late, alarm,
                 networkVars, senderVars>>

\* response_listener(): the newest reply replaces one not yet taken.
Deliver(r) ==
  /\ replies' = replies \ {r}
  /\ inbox' = [inbox EXCEPT ![r.to.r_pub.client] = r]
  /\ UNCHANGED <<cacheVars, phase, run, wire_key, tries, left, known, shown, pin, inits,
                 late, alarm, requests, senderVars>>

-----------------------------------------------------------------------------
(* The cache server, behind the gateway's connection threads               *)

Answer(m, kind, val) ==
  replies' = replies \cup {[to |-> m, kind |-> kind, val |-> val]}

HandleInit(m) ==
  /\ m.kind = "init"
  /\ HandshakeInit(m.wire, m.r_pub)
  /\ Answer(m, IF InitSlot(m.wire) # NoSlot THEN "ok" ELSE "full", Nothing)

HandlePoll(m) ==
  /\ m.kind = "poll"
  /\ HandshakePoll(m.wire)
  /\ LET a == PollAnswer(m.wire) IN Answer(m, IF a # Nothing THEN "ready" ELSE "wait", a)

HandleGet(m) ==
  /\ m.kind = "get"
  /\ LET b == store[m.wire.key] IN Answer(m, IF b # Nothing THEN "blob" ELSE "missing", b)
  /\ UNCHANGED cacheVars

Serve(m) ==
  /\ HandleInit(m) \/ HandlePoll(m) \/ HandleGet(m)
  /\ requests' = requests \ {m}
  /\ UNCHANGED <<clientVars, senderVars>>

ServePut(u) ==
  /\ store_put(u.key, u)
  /\ puts' = puts \ {u}
  /\ UNCHANGED <<clientVars, networkVars, owned, uploads, responds, work>>

ServeRespond(a) ==
  /\ HandshakeRespond(a.wire, a.resp)
  /\ responds' = responds \ {a}
  /\ UNCHANGED <<clientVars, networkVars, owned, uploads, puts, work>>

-----------------------------------------------------------------------------
(* The sender                                                              *)

\* remember_owned_key(), then the PUT.
Owned(k) == owned[k] > 0 \/ Cardinality({j \in Keys : owned[j] > 0}) < MAX_OWNED_KEYS

upload_content(k) ==
  LET v == uploads[k] + 1 IN
  /\ v \in Version /\ MapThenSumSet(LAMBDA j : uploads[j], Keys) < MaxUploads
  /\ uploads' = [uploads EXCEPT ![k] = v]
  /\ owned' = IF Owned(k) THEN [owned EXCEPT ![k] = v] ELSE owned
  /\ puts' = puts \cup {[key |-> k, version |-> v]}
  /\ UNCHANGED <<cacheVars, clientVars, networkVars, responds, work>>

\* The gateway drops a listing that leaves no room for the sender's nonce.
Relayed == ListingSize <= LISTING_CAP - SLOT_NONCE_BYTES

\* A heartbeat whose listing comes back; a lost one changes nothing.  The
\* next is sent when every worker has been waited for.
heartbeat_thread ==
  /\ work = {} /\ Relayed
  /\ work' = HeartbeatListing
  /\ UNCHANGED <<cacheVars, clientVars, networkVars, owned, uploads, puts, responds>>

respond_worker(e) ==
  /\ e \in work
  /\ work' = work \ {e}
  /\ responds' = IF owned[e.wire.key] > 0
       THEN responds \cup
              {[wire |-> e.wire,
                resp |-> [to |-> e.r_pub,
                          k  |-> [key |-> e.wire.key, version |-> owned[e.wire.key]]]]}
       ELSE responds
  /\ UNCHANGED <<cacheVars, clientVars, networkVars, owned, uploads, puts>>

-----------------------------------------------------------------------------
Busy(c) == phase[c] # "idle"

\* Time passes up to the next moment a client is due.
Tick ==
  /\ \A c \in Clients : Busy(c) => left[c] > 0
  /\ left' = [c \in Clients |-> IF Busy(c) THEN left[c] - 1 ELSE 0]
  /\ CacheTick
  /\ UNCHANGED <<phase, run, wire_key, tries, inbox, known, shown, pin, inits, late, alarm,
                 networkVars, senderVars>>

ClientStep(c) ==
  \/ SendPoll(c) \/ SendFails(c) \/ Timeout(c)
  \/ InitAnswered(c) \/ PollAnswered(c) \/ GetAnswered(c)

Next ==
  \/ \E c \in Clients, k \in Keys : StartGet(c, k)
  \/ \E c \in Clients : ClientStep(c)
  \/ \E r \in replies : Deliver(r)
  \/ \E m \in requests : Serve(m)
  \/ \E u \in puts : ServePut(u)
  \/ \E a \in responds : ServeRespond(a)
  \/ \E k \in Keys : upload_content(k)
  \/ heartbeat_thread
  \/ \E e \in work : respond_worker(e)
  \/ Tick

Spec == Init /\ [][Next]_vars

\* Clients, the sender's threads and the clock run on; the network may lose
\* any message, but not every heartbeat, nor every response to one wire key.
FairSpec ==
  /\ Spec
  /\ \A c \in Clients : WF_vars(ClientStep(c))
  /\ WF_vars(Tick)
  /\ SF_vars(heartbeat_thread)
  /\ WF_vars(\E e \in work : respond_worker(e))
  /\ \A w \in WireKey : SF_vars(\E a \in responds : a.wire = w /\ ServeRespond(a))
-----------------------------------------------------------------------------
(* Properties                                                              *)

\* Every variable holds a value of its type; g_store never holds more than
\* MAX_ENTRIES contents.
TypeOK ==
  /\ CacheTypeOK
  /\ phase \in [Clients -> {"idle", "init", "sleep", "poll", "get"}]
  /\ run \in [Clients -> 0 .. MaxRuns]
  /\ wire_key \in [Clients -> WireKey \cup {Nothing}]
  /\ tries \in [Clients -> 0 .. (POLL_TRIES - 1)] /\ left \in [Clients -> Nat]
  /\ inbox \in [Clients -> Reply \cup {Nothing}]
  /\ known \in [Clients -> Blobs \cup {Nothing}] /\ shown \in [Clients -> Blobs \cup {Nothing}]
  /\ pin \in [Clients -> [Keys -> {"none", "sender", "junk"}]]
  /\ requests \subseteq Request /\ replies \subseteq Reply
  /\ owned \in [Keys -> 0 .. MaxUploads] /\ uploads \in [Keys -> 0 .. MaxUploads]
  /\ puts \subseteq Blobs /\ responds \subseteq [wire : WireKey, resp : Responses]
  /\ work \subseteq [wire : WireKey, r_pub : Pubs]
  /\ inits \subseteq WireKey \X Pubs /\ late \subseteq Clients /\ alarm \subseteq Clients

\* What a GET displays is an upload of the key it was asked for, whatever
\* replies and responses were late or meant for another request ("only then
\* treats the content as authentic", client.c:348).
ShownWasAskedFor ==
  \A c \in Clients : shown[c] # Nothing =>
    shown[c].key = wire_key[c].key /\ shown[c].version \in 1 .. uploads[shown[c].key]

\* Two handshakes were begun with one wire key.
Collision == \E a, b \in inits : a # b /\ a[1] = b[1]

\* The client reports tampering ("possible tampering in transit", "CONTENT
\* DECRYPTION FAILED") although nothing here tampers: it does so only when a
\* key was uploaded again, two wire keys were equal, or a reply to an earlier
\* request was taken for the answer, by this command or by the one that
\* pinned a response as a sender's identity.
AlarmsExplained ==
  \A c \in alarm :
    \/ c \in late \/ Collision
    \/ pin[c][wire_key[c].key] = "junk"
    \/ \E k \in Keys : uploads[k] > 1

\* A GET command ends: with content, a rejection or a timeout.
GetEnds == \A c \in Clients : Busy(c) ~> ~Busy(c)

\* The heartbeat finds every request for a key the sender owns and answers
\* it, unless its slot has been taken for another.
Awaited(i, p) == Unanswered(i) /\ pending[i].r_pub = p /\ owned[pending[i].key.key] > 0

OwnedRequestsAnswered ==
  \A i \in PSlots, p \in Pubs : Awaited(i, p) ~> ~(Unanswered(i) /\ pending[i].r_pub = p)
=============================================================================
