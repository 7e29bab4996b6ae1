# AnonSecNet: TLA+ models, checks and proofs

This directory is a verification project for the C prototype in `src/ASN`: the
mix node's session table, the service gateway, the cache server, the content
handshake between a receiver (the client), the cache server and a sender, the
way paths are chosen and built, and what client and sender do with them. TLC
checks the models on small instances. TLAPS proves theorems for every value of
the constants on all of them: the mix node, the gateway, the content handshake
with the cache server, the sender's response slots, the client's session, the
node pool and the telescoped handshake. `PROJECT.json` lists components, runs,
mutants, the source lines of every definition, findings, hazards and theorems.

## 1. Inventory

| component | source | state | operations | what makes it hard | what makes it correct |
|---|---|---|---|---|---|
| mix node, session table | `mix_node/mix_node.c`, `common/config.h` | `g_sessions`: keys, generation, `hint_base[2]`, `hint_high_water[2]`, two nonce rings, `last_active_ms` | `handle_extend` stores a session, `handle_data` / `handle_return` look a packet up, peel it, confirm the hint, check the nonce | three separate critical sections per packet; slots reclaimed in between; reordering; a clock that wraps | no packet twice within the ring, nothing crosses sessions, a bound on how far the window runs ahead, no session deaf that was heard lately |
| mix node and gateway, EXTEND and key rotation | `mix_node/mix_node.c`, `gateway/service_gateway.c`, `common/net.c` | handshake key pair and its lock, two connections per handler | answer, relay one hop further, copy both ways; rotation; restart | rotation between two steps of a handler, failures half way along a chain, no timeout on any socket | both ends of a hop hold one key; sessions are stored in order; every attempt and handler ends |
| mix node, pool mixing (build option) | `mix_node/mix_node.c` | pool array, flush timer | enqueue, shuffle, flush | bounded pool, two flush triggers | every packet leaves once, order within a session |
| service gateway | `gateway/service_gateway.c` | `g_sessions`: role, key, SETUP fields, `bound_b_idx`, `b_key`, `in_flight`, mailbox `pending` | EXTEND, SETUP, requests, covers, the flush thread | a thread per packet, reference counts, reclaim, two threads that empty one mailbox | exact pins, verified pairings, every reply in one place, every reply leaves |
| cache server | `gateway/cache_server.c` | `g_store`, `g_pending` | PUT, GET, HANDSHAKE_INIT / POLL / RESPOND, HEARTBEAT | two bounded tables, slots reused by age, truncated listing | one mailbox per wire key, no request overlooked |
| client, content handshake | `client/client.c` | key pair and wire key of a command, `g_resp_buf`, pins | INIT, poll loop, GET, verification | answers without identity in one buffer; lost and late answers | what is shown was asked for; alarms have a cause; commands end |
| sender, content handshake | `sender/sender.c` | owned keys, heartbeat workers | upload, heartbeat drain, respond | workers in parallel, uploads during handshakes | every request for an owned key is answered |
| client, session | `client/client.c` | counters of legs, covers and return headers, split policy, credit counter (base build) or one-packet mailbox (loopix build), `g_resp_buf` | SETUP with a retry, requests, STREAM, cover thread, listener | retry against late answers, two threads on one counter, a mailbox for one packet | legs counted as set up are bound, one cover less per real packet, shares kept, no packet overwritten by a caller that waits |
| sender, response slots | `sender/sender.c`, `common/posix_compat.h` | slots with a nonce, a buffer and an event each | acquire, release, listener, wait, SETUP per slot | a late answer meets a reacquired slot, nonces of two bytes repeat; joins without a limit on POSIX | an answer is taken only by its request or a repeated nonce, no slot leaks, all calls end |
| node pool | `common/node_pool.c`, `client/client.c` | consensus, two guard set files | load, draw, save, path selection, swap by probes, extra legs | concurrent first runs, lost or shortened files, an end between two saves | entries from one set per path, disjoint paths, legs that stay possible |
| packet format | `common/packet.c` | none | build, peel, unwrap, return header | | peel inverts build, hop by hop |
| crypto, sockets, platform | `common/crypto.c`, `net.c`, `posix_compat.h` | none | wrappers | | |
| TOR-equivalent baseline | `src/TOR-equivalent` | circuit table | extend, relay | comparison program | |
| evaluation, plots, instrumented copies | `ASN/eval2`, `ASN/scripts`, `tests` | | | offline analysis | |

How they interact: a client builds path A (sending) and path B (receiving) by
telescoped EXTEND exchanges; each hop stores a session. A SETUP over path A
makes the gateway bind the client's A session to its B session. Requests and
covers travel path A; the gateway asks the cache server over a local
connection, puts the answer into the mailbox of the A session, and a cover or
the flush thread sends it down path B. A sender is attached in the same way
and polls the cache server with HEARTBEAT for handshakes to answer.

## 2. Modules

| module | models | source |
|---|---|---|
| `HintWindow` | the window of precomputed hints as functions on `[base, high]` | `session_init_hint_window`, `session_advance_hint_window` |
| `ReplayRing` | the nonce ring as functions on `[nonces, count, next]` | `session_seen_nonce` |
| `MixNode` | the session table, connection threads, clients and network | `session_alloc`, `session_find`, `session_confirm_hint_match`, `session_check_nonce_by_idx`, `handle_extend`, `handle_data`, `handle_return` |
| `ReplayFilter` | abstract: each slot has a holder and a log of what it let through, with no recent repetition | the promise of the above |
| `MixNodeProofs` | theorems on `MixNode` | |
| `ServiceGateway` | session table, connection threads, mailbox and flush thread of the gateway | `service_gateway.c` |
| `GatewayProofs` | theorems on `ServiceGateway` | |
| `CacheServer` | `g_store` and `g_pending`, one action per branch of `handle_connection()` | `cache_server.c` |
| `CacheContract` | abstract: a map of contents and one mailbox per wire key | the promise of the above |
| `ContentHandshake` | extends `CacheServer` with clients, network and sender | `client.c`, `sender.c`, the brokering part of `service_gateway.c` |
| `HandshakeProofs` | theorems on `ContentHandshake`, with the step lemmas of `CacheServer` | |
| `SenderSlots` | the response slots of the sender and the threads that share them | `sender.c`, events and joins of `posix_compat.h` |
| `SenderSlotsProofs` | theorems on `SenderSlots` | |
| `ClientSession` | a client's session: SETUP, split policies, counters, cover thread, answers | `client.c` |
| `ClientSessionProofs` | theorems on `ClientSession` | |
| `NodePool` | guard set files, session paths, striping legs | `node_pool.c`, `client.c` |
| `NodePoolProofs` | theorems on `NodePool` | |
| `Telescope` | the telescoped handshake, its handlers and connections, key rotation | `client.c`, `sender.c`, `mix_node.c`, `service_gateway.c`, `net.c` |
| `TelescopeProofs` | theorems on `Telescope` | |
| `MC...` | instances for TLC | |

Operators commented "Faulty" before a definition are mutations of it: a run of
the same configuration with the mutation must violate the property it is
listed with, which shows that the property depends on that code.

### MixNode

One variable per field of `session_entry_t`, indexed by slot. A packet is a
record of its session, its counter and whether it is intact: a hint is
`HMAC(hint_seed, counter)`, so equal hints of one seed are equal counters, and
a MAC that verifies is `intact`. Cover counters start at
`HINT_COVER_COUNTER_BASE`, far above every real counter used. `pc` and `job`
are a connection thread between two critical sections; `job` is what the C
function keeps in local variables (`idx`, `generation`, `domain`,
`window_idx`). The handler's steps are `Receive` (`session_find`), then outside
the lock the peel, then `PeelFails` or `session_confirm_hint_match`, then the
nonce check. `accepted` and `idle` are history variables: what each slot let
through since its allocation, and ticks since its last touch. EXTEND is the
terminal branch of `handle_extend`, with its three outcomes: stored (the signed
reply may still be lost), hint seed not derived, table full. `generation` is a
natural number; the C field wraps at 2^32, which takes as many allocations of
one slot during one packet to matter. A nonce is identified with the counter of
its packet, as each packet has a fresh one.

### ServiceGateway

One variable per field of `sg_session_t`. A session stands for its end-to-end
key. Every section under `g_sess_lock` and every access to the session outside
of it is an action: `Snapshot` and `find_a_session` (the candidate scan, the
re-check and pin), `CheckSetup` (unlocked read of `setup_done`), `SetupWrite`,
`find_b_for_a`, `CommitSetup` / `TagMismatch` / `ClearSetup`, `DrainByCover`,
`send_response` (enqueue), `send_response_ex` / `DispatchFails` (encrypt and
send, outside the lock), `Unpin` (the `done:` label), `FlushPop` and
`FlushUnpin`. `queued`, `left` and `lost` record what became of each reply. The
network between client and gateway is a set of packets that arrive in any order
or never.

### CacheServer and ContentHandshake

Each request to the cache server takes one lock once, so each branch is one
action; answers are operators on the state before it. `age` of a pending slot
is the time since `created_ms`, kept up to the first stale value. Fields that no
branch reads are kept at one value (a slot not in use, the response of a slot
that is not ready).

A client is its GET command: `phase` is where `run_interactive` /
`perform_content_handshake` is, `left` the ticks of its sleep or wait, `inbox`
the one `g_resp_buf`. A request names its kind, the poll it is, its wire key
and the ephemeral public key of its command; the reply names the request, which
the code does NOT see (it takes what is in the buffer) but the properties do.
A response carries the `K_content` of a version for one ephemeral key, and
`Opens` is the GCM tag. A pin is `none`, the sender's key, or `junk`: the bytes
of a response that was parsed as signed content (`ParsesAsBlob` leaves open
whether it parses, as this depends on one byte of a public key). Requests and
replies are sets; a loss is a message that is never delivered, or one beyond
`MaxUnderWay`. Both of the code's waits are the one constant `WAIT`.
With two GET commands of one client, the request its first command abandoned
plays the part of another client at the cache server.

The gateway's part here is the transport: it passes a request on, or loses it,
and drops a listing that leaves no room for the sender's nonce (`Relayed`).

### SenderSlots

One variable per field of `send_slot_t`; `pc`, `slot`, `asked` and `got` are the
locals of a thread inside a request. A thread's call is `Ask` (acquire and
send), then `Wake` (the auto-reset event of `WaitForSingleObject`),
`TakeResponse` (the section under `resp_lock`) and, after a foreign nonce,
`WaitAgain`; `WaitTimeout` and a failed connection lead to the same release.
`response_listener` overwrites the buffer and sets the event at any time.
`reached` and `discarded` are history. SETUP waits on the same event but takes
any answer, as the code does. A nonce is two random bytes (`SLOT_NONCE_BYTES`),
so it is any member of `Nonces`, and two requests, of one slot or of two, may
draw the same; `ret`, the return counter, is what the properties tell requests
apart by and the code does not see. `Post` is the direct send of the base build,
or the one-packet mailbox of the loopix build. With the answer to a HEARTBEAT
workers start for any part of the listing (`CreateThread` may fail). A join may
end while its worker goes on (10 s on Windows); on POSIX it does not.

### ClientSession

`counter`, `cover_ctr` and `ret_ctr` are the atomic counters. Each
`Interlocked...` operation is a step of its own where another thread can come in
between: `TakeCredit` and `BaseTick` are the decrement and the increment that
takes it back. A split policy is a predicate on the leg it picks; the credits of
smooth weighted round robin are scaled to integers. What happens to a packet at
the hops is a choice: it gets through or it does not, in any order (`Arrive`,
`Return`). Why a hop may refuse it, and that it may go on refusing all later
ones of a session, is the subject of `MixNode`, where lookup and window advance
are two steps of concurrent threads (`InFlightKeepsItsHint`,
`DeafOnlyAfterLosses`, finding 1); of the return path `ClientSession` uses only
that it lets a return header through once. A client has at most `MAX_STRIPE_LEGS = GUARD_SET_SIZE` legs; of the
weights the code checks only that their sum is positive, the module also that
none is negative. The gateway binds a leg and answers under the return
header that came with the packet. `build` covers both builds; the loopix build
refuses striping, so `legs` is 1.

### NodePool

A client process is `pc`, its guard sets, its session path and its extra legs;
the two files are shared by all processes of a directory. A weighted draw is a
choice among the nodes that are not excluded; to keep the sets small the guards
are drawn among the `GuardWidth` lowest, other hops are the lowest or the
highest (`Lowest`, `Extreme`), which keeps every way in which two draws can
coincide or not. `save_guard_set` is one step because `rename()` is atomic.
`Ends` is a process killed at any point, or one that gives up. `Spoil` is what
may happen to a file between two runs: it is gone or rejected, or it lists fewer
guards (or one twice, which is the same set), which `load_guard_set` accepts.

### Telescope

An attempt is one call of `ecdhe_telescoped_path()`; link k joins positions
k - 1 and k of its chain. A link has two ends, open or closed, and a queue of
frames each way; what is sent to a closed end is lost, what was sent before is
still read. A handler is the thread that `handle_connection()` runs on: `mode`
(waits for its request; the derivation under `g_node_kp_lock`), `alloc`,
`reply` (which ends the handler when the signature fails), `relay` (waits for
the next frame), `await`, `proxy`. A crash closes
all sockets of a node and takes its sessions; a restart makes a new handshake
key. A client that fails ends, so its next path is never begun.

## 3. Runs

Bounds are constants of the modules (`Max...`) or stated below. They are
chosen so that the case in question happens: a ring of 2 wraps after 3 packets,
a window of 4 with a margin of 2 slides four times within 6 counters, a table of one
or two slots is reclaimed as soon as a clock of two values has gone around.
`CHECK_DEADLOCK FALSE` is set everywhere because clients with a bounded number
of packets or commands stop. Symmetry: threads in the multi-threaded safety
runs, content keys in `ContentHandshake`; never in a run with liveness.

| run | instance | result |
|---|---|---|
| `MixNode_threads` | 2 threads, 2 sessions (one of role B) on 1 slot, ring 2, window 4, margin 2, up to 2 real and 1 cover packets, 1 resend or damaged packet, clock modulo 2 | passes: type, `ReplayDistance`, `NoCrossSession`, `WindowMovesByOwnPackets`, `ReclaimSparesActive`, refinement of `ReplayFilter`. About a million states |
| `MixNode_windows` | 2 threads, 1 session on 1 slot that may expire and be stored again, window 4, margin 2, 6 packets and 1 resend in any order | passes: `InFlightKeepsItsHint`, `DeafOnlyAfterLosses`. 2.1 million states |
| `MixNode_stale_offset` | 2 threads, 1 session, 6 packets | **violates** `HighWaterWasSent` (finding 1) |
| `ServiceGateway_threads` | 2 threads and the flush thread, 1 A session, 2 B sessions on 2 slots, mailbox of 1, 2 setups, 2 requests, 1 cover, at most 4 packets | passes: type, `PinsCounted`, `SetupMeansBound`, `DispatchIsRouted`, `RepliesAccounted` |
| `ServiceGateway_flush` | 1 thread and the flush thread, fair, clock modulo 2, covers optional | passes: `EveryReplyLeaves` |
| `ContentHandshake` | 1 client with 2 GETs, 2 keys, 1 suffix, store of 1, pending table of 1, 2 uploads, 2 messages under way | passes: type, `ShownWasAskedFor`, `AlarmsExplained` |
| `ContentHandshake_live` | the same client with 2 polls per command, pending table of 2, 1 upload, 1 message under way; fair | passes: `GetEnds`, `OwnedRequestsAnswered`, refinement of `CacheContract` |
| `ContentHandshake_starved` | a listing with room for one entry | **violates** `OwnedRequestsAnswered` (finding 5) |
| `SenderSlots` | 1 slot, main thread, heartbeat and 2 workers, 2 nonces, 1 key asked for once, 1 upload, 1 tick with 2 drains, 2 messages under way, both builds; fair | passes: type, `SlotsHeld`, `AnswerTakenIsOwn`, `MissedOnlyForStale`, `RequestsEnd`. 270,000 states |
| `ClientSession` | 2 legs of weights 2 and 1, 4 policies, 3 requests, 1 cover, 2 packets under way, both builds | passes: type, `SetUpLegsAreBound`, `CreditsKept`, `SharesKept`, `OverwrittenOnlyThen`. 1.3 million states |
| `NodePool` | 11 nodes, guard sets of 2, 1 or 2 legs, 2 processes, 2 starts, 1 lost or shortened file | passes: type, `OverlapOnlyBy`, `PathsApart`, `LegsPossible`, `EntriesStayFew`. 3.8 million states |
| `Telescope` | a client over 2 mix nodes and the gateway, a sender over the second of them and the gateway, 1 rotation, 1 crash, any restarts; fair | passes: type, `KeysAgree`, `StoredAreAPrefix`, `AttemptEnds`, `HandlersEnd` |

With one suffix every two handshakes for one key collide, so the 16-bit
collision of wire keys happens; with two keys it also does not. In the
`ContentHandshake` run tamper reports arise from each cause alone (a second
upload, a collision, a late reply, a junk pin), the store and the pending table
fill up, and stale slots are reused.

In `MixNode_windows` window 4 and margin 2 keep the proportion of `config.h` (64
and 32), one slide being as long as the margin; with 6 counters one thread can
slide the window while the other holds an offset, and both properties are met
with equality. The same instance with three threads, a window of 8 and a margin of
4 has a session that goes deaf although nothing was lost, so the hypothesis of
`DeafOnlyAfterLosses` is needed. In `SenderSlots` four threads want one slot: the main thread, a
worker and the heartbeat's next drain, or two workers (one that outlived its
join), wait in `acquire_slot` at the same time; a slot whose request timed out
is acquired again with the answer still under way, and with two nonces that
answer sometimes matches. With listings of one entry the drain limit is reached.
Eleven nodes are the least with room for the six nodes of a
session, guard sets of 2 and one extra leg. In `Telescope` the client's first
hop goes through its whole life (answer, relay, copy), the two programs share
two nodes, and a crash or rotation can hit any position of a chain at any step.
Larger instances of `Telescope` (routes in opposite orders, a second attempt per
program) pass the safety properties; with liveness they take too long to keep.

### Fairness

`ServiceGateway!FairSpec`: weak fairness for each connection thread, the flush
thread's own steps and the clock (operating-system threads are scheduled, the
clock runs); strong fairness for taking a reply that is due, because
`FlushPop` is disabled at the instants when the wrapped age is small, while the
thread polls four times per `PENDING_RESPONSE_MAX_WAIT_MS`.

`ContentHandshake!FairSpec`: weak fairness for a client's own steps (waits have
timeouts), the clock and the respond workers; strong fairness for a heartbeat
that comes back and for each wire key's response to be delivered: the network
may lose messages, not every one of an unbounded sequence. Nothing is assumed
of the delivery of a client's messages: `GetEnds` holds when all are lost.

`SenderSlots!FairSpec`: weak fairness for the steps of each thread (a wait has a
deadline, `acquire_slot()` polls); nothing of the network, so `RequestsEnd` holds
when every message is lost. For the join it asks for a step only when all workers
have ended, as on POSIX; that they end is not assumed but follows from their own
steps. `acquire_slot()` is no fair lock: a thread that polls could find the slot
taken each time. Weak fairness is enough because the others stop asking:
uploads and ticks are bounded by `MaxPuts` and `MaxBeats`, in the program by a
user who types and by the 500 ms between two ticks.

`Telescope!FairSpec`: weak fairness, per attempt, for the program and the
handlers of its chain together, which is less than a scheduler gives. Nothing
is assumed of a node that is down, nor of rotations.

`ClientSession` and `NodePool` have no liveness properties: a client's waits end
by their timeouts alone, and a process of `NodePool` does not wait.

## 4. Findings

Two have a run that violates the property they are about:

1. The deferred window advance adds an offset found under one hold of the lock
   to the base of a later one (`mix_node.c:254`, run `MixNode_stale_offset`). The
   high water mark then passes every counter used. How far the window can get
   ahead is bounded by `InFlightKeepsItsHint`; from three overlapping threads on
   (with the values of `config.h`) it is far enough to leave a session deaf for
   good without any loss.
2. A truncated HEARTBEAT listing starts at slot 0 each time
   (`cache_server.c:285`, run `ContentHandshake_starved`).

The others were met while modelling and are stated in `PROJECT.json` with the
lines that disagree.

- Mix node: the reordering tolerance is `HINT_SAFETY_MARGIN - 1`, not the
  `HINT_WINDOW` of `config.h:361`, and smaller by one slide for each further
  thread that overlaps.
- Gateway: `find_b_for_a()` takes any B session in the bound slot for the bound
  one (`service_gateway.c:396`); replies of one mailbox can leave out of order
  (`:756`); the PUT answer is ignored (`:981`).
- Cache server: a response is deleted as it is handed back, though the client
  polls again when that answer is lost (`cache_server.c:258`); its TTL is
  computed from half of the poll time (`:99`).
- Client: keys that can be uploaded but not retrieved (`client.c:433`); callers
  that overwrite the mailbox (`:1487`); a branch that "cannot happen" (`:958`); a
  credit for a packet that was not sent (`:1500`); a SETUP retry that shares its
  return header with the first attempt (`:1637`); a swap of paths whose new
  entry was not probed (`:1047`); path B's first contact is no guard, and guards
  of both sets serve as MN1 (`:536`).
- Sender: a flag where the client counts (`sender.c:790`); content keys with a
  `#` (`:1223`); a join said to happen only at shutdown (`posix_compat.h:175`).
- Node pool: guard sets that can overlap (`node_pool.h:71`).

## 5. Proofs

`MixNodeProofs` holds eight theorems on `Spec` of `MixNode`, from the assumptions
`HintAssumption`, `ReplayAssumption` and `MixNodeAssumption` on the constants
(positive sizes; TTL below the period of the clock; a margin not wider than the
window; finitely many threads). Nothing bounds threads, slots, sessions or
packets.

- `TypeCorrect`: `TypeOK` is inductive as it stands; the work is in the lemmas
  that the ring operations keep cursor and count inside the array and that the
  window operations stay natural numbers.
- `ReplayDistanceHolds`, `NoCrossSessionHolds`: both follow from
  `TableInv == JobInv /\ NoCrossSession /\ RingInv`. `JobInv` is needed because a
  thread acts on a slot it looked up earlier: the generation it carries is one
  the slot has had, and if it is still the current one, the slot still holds the
  packet's session. `RingInv` says the ring holds the last `REPLAY_WINDOW` of
  what the slot let through, counted back from the cursor (`Back`), and that
  equal entries of the log are more than that apart: without the first half the
  second is not inductive, as a record of the ring says nothing about the log.
- `FilterImplemented`: `Init` maps to the abstract `Init`, allocation to
  `Assign`, a packet let through to `Pass`, all else to a stutter.
- `WindowMovesHold`: `WindowInv` says the base has been slid at least as far as
  the high water mark asks, so an advance that does not raise the high water
  moves nothing.
- `ReclaimSparesActiveHolds`: `IdleInv` identifies the wrapped age with the true
  idle time as long as that is below the TTL (`UnsignedDifference`).
- `InFlightKeepsItsHintHolds`, `DeafOnlyAfterLossesHolds`: for any number of
  threads between lookup and advance. The offset a thread found is applied to a
  base others have slid since, so a base cannot be bounded by the packets that
  slid it. The invariant (`OverlapInv`) bounds where it can end up: the threads
  that are about to slide a window (`Pushers`) each move it by a known length
  (`Push`, at most `Slide`), and `HasRoom` says that one of them,
  together with all others at their worst, still ends within `Limit`. When a
  thread slides, another takes its place (`OneLess`); when one looks a packet up,
  it is the one, as its counter is a used one.
  `CarriedInv` and `HeardInv` tie the high water mark to what was let through,
  which turns the bound on the base into `DeafOnlyAfterLosses`. That property has
  the number of threads in its hypothesis: two threads with the values of
  `config.h` satisfy it, with three it is false. Both theorems assume
  `CountersApart`: real counters, with a window and all slides added, stay below
  the first cover counter (2^62 in `config.h`); otherwise a packet can be found
  in the window of the wrong domain.

`SenderSlotsProofs` holds four theorems on `Spec` of `SenderSlots`, from
`SlotsAssumption` (at least one slot and one nonce, thread names that differ, a
listing not longer than there are workers). Nothing bounds slots, workers, requests, nonces or messages.

- `TypeCorrect`: `TypeOK` needs `WorkInv`, which says where threads can be: a
  worker that runs has an entry whose key is owned; nobody but the main thread
  moves before every slot is set up; a thread that waits has a slot.
- `SlotsHeldHolds`: `SlotsHeld` is inductive together with `WorkInv`. A thread
  acquires only a slot nobody holds; the heartbeat, which releases its slot and
  starts workers in one step, gives entries to idle workers only, and those hold
  none, whichever others still run (`AnsweredMoves`).
- `AnswerTakenIsOwnHolds`: `OwnInv` follows a request wherever it can be, in the
  mailbox, on the way, answered, or in a slot's buffer (`Pending`). `Numbered`:
  its return counter is older than the slot's next one, and SETUP has no nonce.
  `Waiting`: the return counter of the thread that holds a slot is the slot's
  newest, so an answer that matches is to this request or to an older one of the
  slot, and the latter only by the nonce. Exclusive use (`SlotsHeld`) is what lets
  the counter grow only before a request, never during a wait. `BuffersOwn`: an
  answer in a buffer is one for that slot.
- `MissedOnlyForStaleHolds`: `InTime` says that a thread whose answer has come
  and that has thrown nothing away either has the event still set before it or
  has taken an answer. Only the thread that holds the slot resets the event
  (`SlotsHeld`), and it does so before it asks.

`GatewayProofs` holds five theorems on `Spec` of `ServiceGateway`, from
`GatewayAssumption` (finitely many threads, one B session per A session, positive
sizes, times below the period of the clock). Nothing bounds threads, slots,
clients, packets or mailboxes.

- `TypeCorrect`, `PinsCountedHolds`: one invariant,
  `PinInv == TypeOK /\ JobInv /\ PinsCounted /\ PinnedInv`, in which each part
  needs the others. `PinnedInv` says a pinned slot still holds the session it was
  pinned for: `sess_alloc` takes only a slot with count 0, and by `PinsCounted`
  nobody holds such a slot. Therefore the A and the B slot of a thread differ
  (one holds an A, the other a B session), so taking one from each, at once or in
  two steps, keeps the count exact, and no count falls below zero (`TypeOK`).
  `OneCounts` is the lemma that does the counting.
- `SetupMeansBoundHolds`: the tag is verified against the B slot a thread has
  pinned, and `PinnedInv` says the A slot it commits to is still that client's.
- `DispatchIsRoutedHolds`: `RoutedInv` says that a slot which is set up or has
  mail has a route, and so has every thread between its check and its send;
  reclaiming a slot clears the route but spares pinned slots.

- `RepliesAccountedHolds`: the run's count over four places is proved as
  `AccountInv`: being queued is the same as being boxed, in a thread's hands,
  sent, or lost; no two of these at once; and each at most once (`BoxedOnce`,
  `HandedOnce`, `LeftOnce`). That a reply enters a mailbox once needs
  `RequestInv`: a request is in the network, or with one thread, or its reply
  has been queued (`AskedOnce`), and a thread carries only a reply it took from a
  mailbox (`JobFlow`). Handing over is exact because the A slot stays pinned.

`TelescopeProofs` holds three theorems on `Spec` of `Telescope`, from
`TelescopeAssumption`, for any nodes, processes and routes of any length. The
invariant `ChainInv` is about one attempt at a time, as attempts share only the
nodes. Its core is that an attempt has one token (`Token`): a request on its way
down, the one handler that works on it, or its answer on the way up. `Placed`
and the three parts after it derive from where the token is which hop every
handler of the chain waits for; without them a handler could store a session for
the wrong hop, or an answer could meet another one in a connection.

- `TypeCorrect`: among the types is that no connection carries two frames in one
  direction, which is what the reads of `net.c` without framing rely on.
- `KeysAgreeHolds`: `AtItsHop` (a handler stores before it answers) and
  `OnTheWayUp` (the answer names the key that was stored) give `KeysOf` when the
  program derives the master secret.
- `StoredAreAPrefixHolds`: `Reached`, that no session is behind the hop being
  agreed upon, with `KeysOf` for the hops before it.

`HandshakeProofs` holds five theorems on `Spec` of `ContentHandshake`, from
`CacheAssumption` and `ContentAssumption`; nothing bounds keys, clients,
commands, uploads, table sizes or timers. The invariant `HandshakeInv` (itself
`InvHolds`) says of every request, reply, pending slot, stored blob and response
under way where it comes from: the handshake was begun with this wire key
(`Begun`), the content was uploaded (`Made`), the response answers a handshake
begun with this key (`Rightful`). `PairsOnce` says that a key pair belongs to
one command and one wire key.

- `TypeCorrect`: includes `Cardinality(Stored) <= MAX_ENTRIES`.
- `ShownWasAskedForHolds`: what is shown was decrypted with a key under which
  only content of one upload opens, and was taken for the key asked for.
- `AlarmsExplainedHolds`: case by case over where `perform_content_handshake()`
  may raise an alarm: unless a cause is in the history, provenance makes the
  response, the content and the pin fit each other.
- `CacheImplementsContract`: each branch of the cache server maps to a step of
  `CacheContract` or a stutter under the mapping `Contents`, `Mailbox`. It needs
  `TableOK`, that a wire key has at most one slot: `pending_find` takes the first
  match, so a second one would turn up when the first is reused.

`NodePoolProofs` holds five theorems on `Spec` of `NodePool`, from
`PoolAssumption` (a pool of at least `3 * GUARD_SET_SIZE + 5` nodes, no more legs
than guards); nothing bounds processes, starts, spoiled files or guard sets, and
`GuardWidth` and `MaxSessions`, which keep the runs small, may be any number.
The invariant is `PoolInv`.

- `TypeCorrect`: a file may be shortened, so a set in use is `Usable`: whole while
  no file was spoiled, not empty after. `DrawnWhole` shows that the draws one after the other give a set
  of exactly `GUARD_SET_SIZE` nodes outside the excluded ones (a bijection from
  the turns, `FS_Surjection`).
- `OverlapOnlyByHolds`, `EntriesStayFewHolds`: `FilesRule` says that while no file
  was lost or shortened and none written over (`Clean`), the files are the sets every process
  past its save uses, file b is there only if file a is and is disjoint from it,
  and all entries come from them. `GuardsOK` bridges the moment between a draw and
  its save.
- `PathsApartHolds`: `ApartOK` counts the nodes of a session (`SixNodes`): each
  later hop is drawn off the ones before, so six are missed only when the two
  entries coincide. They cannot while the guard sets are disjoint (`Clean`,
  `GuardsOK`), nor in a session accepted for striping, which has no second guard
  of set A. Each leg then adds three (`PathsStayApart`).
- `LegsPossibleHolds`: `LegsOK` counts: with `k` legs drawn, a session uses at most
  `k + 1` guards of set A and `2k + 5` other nodes, so a guard is left and, by
  the assumption on the pool, two more nodes. The refusal
  `path_uses_other_guard_a` is what starts the count at one guard.

`ClientSessionProofs` holds six theorems on `Spec` of `ClientSession`, from
`SessionAssumption` (up to three legs, no negative weight, a positive total);
nothing bounds requests, covers or packets under way. The invariant is `ClientInv`, itself `ClientInvHolds`.

- `TypeCorrect`, `CreditsKeptHolds`: `CreditInv` adds that a decrement below zero
  is always one about to be taken back, and that no more credits were given than
  requests made.
- `SetUpLegsAreBoundHolds`: an acknowledgement names no leg, so `SetupInv` argues
  from headers: a packet of a leg already acknowledged carries a header the
  return path has let through before, which it does once, so what arrives
  during a SETUP answers that leg. Both attempts sharing one header is what
  makes this so.
- `SharesKeptHolds`: what the legs owe each other adds up to zero (`ShareInv`), and
  the leg that pays is the richest; with three legs this bounds every one. With
  five it no longer does: weights 44, 1, 44, 1, 1 leave a leg more than a round
  behind, so the bound rests on `MAX_STRIPE_LEGS`.
- `OverwrittenOnlyThenHolds`: `QueueInv` says that while the main thread waits for
  the answer to a packet still in the mailbox, nothing else carries its header,
  so a wait that ends by an answer then took an earlier one (`early`).

Out of the prover's reach: liveness under
fairness (`EveryReplyLeaves`, `GetEnds`, `OwnedRequestsAnswered`, `RequestsEnd`,
`AttemptEnds`, `HandlersEnd`). `HighWaterWasSent` is no theorem, as it
is false (finding 1).

## 6. Not modelled

- Cryptography is ideal: keys, MACs and signatures are their owners.
- The Sphinx packet format (`packet.c`) is offsets and layers of a cipher; a
  packet is its session, counter, return header and whether it is intact.
- Pool mixing (`ASN_POOL_MIXING`) delays, reorders and, when the pool is full,
  drops packets. The network of every module already does all three to any
  packet, so the pool adds no behaviour to them.
- The rate tier (`client.c:1226-1280`) and the hop decoys of a build option shape
  traffic and keep no state that others read.
- Sender slots other than 0 get no cover, so a slot that is never used ages past
  the TTL of its hops; the models keep sessions of an idle slot (in
  `SenderSlots`) or let any session age (`MixNode`, `ServiceGateway`), but do not
  compose the two.
- A second send to a closed socket ends a process (nothing handles SIGPIPE,
  `net.c:131`); in `Telescope` this is one of the ways of `Crash`.
- The TOR-equivalent baseline shares no code with the system and serves
  comparison only; the Python evaluation, the plots and the instrumented copies
  under `tests/` are not part of the running system.
- Wire formats, logs, timing measurements.

## 7. Plan

Done: `HintWindow`, `ReplayRing`, `MixNode`, `ReplayFilter`, `MixNodeProofs`;
`ServiceGateway`, `GatewayProofs`; `CacheServer`, `CacheContract`,
`ContentHandshake`, `HandshakeProofs`; `SenderSlots`, `SenderSlotsProofs`;
`Telescope`, `TelescopeProofs`; `NodePool`, `NodePoolProofs`; `ClientSession`,
`ClientSessionProofs`.

Every invariant and every safety action property that a passing run checks is now
a theorem. What remains for proof is the part of the liveness arguments that is
no liveness: that the steps the properties wait for lower a measure no other
step raises (a `recv` that ends, a queue that drains), as action properties.
