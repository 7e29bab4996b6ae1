------------------------------ MODULE MixNode ------------------------------
(***************************************************************************)
(* The session table of one mix node (src/ASN/mix_node/mix_node.c) and the *)
(* connection threads that work on it.                                     *)
(*                                                                         *)
(* A packet takes three critical sections of g_session_lock, with the peel *)
(* and the MAC check between them outside the lock:                        *)
(*     session_find  ->  session_confirm_hint_match  ->                    *)
(*     session_check_nonce_by_idx (or its return-path twin).               *)
(* Each section is one action here; between them a thread holds what it    *)
(* copied (slot index, generation, domain, window offset) while other      *)
(* threads slide the same window, record nonces, or reclaim the slot.      *)
(***************************************************************************)
EXTENDS HintWindow, ReplayRing, Sequences, FiniteSets

CONSTANTS
  Threads,          \* handle_connection() threads alive at the same time
  Sessions,         \* sessions clients set up, each by one EXTEND exchange
  ReturnSessions,   \* those of role B, whose packets are MODE_RETURN
  NoSession,        \* owner of a slot no complete session was stored in
  MAX_SESSIONS,     \* size of g_sessions, 1024 in mix_node.c
  SESSION_TTL,      \* SESSION_TTL_MS, in clock ticks
  TICK_MOD,         \* GetTickCount() wraps at this value (2^32 ms)
  MaxSent,          \* bound: packets a client sends per session and domain
  MaxResends        \* bound: exact resends and damaged packets in a run

ASSUME MixNodeAssumption ==
  /\ ReturnSessions \subseteq Sessions
  /\ NoSession \notin Sessions
  /\ MAX_SESSIONS \in Nat \ {0}
  /\ TICK_MOD \in Nat
  /\ SESSION_TTL \in 1 .. (TICK_MOD - 1)
  /\ MaxSent \in [Domain -> Nat]
  /\ MaxResends \in Nat
  /\ IsFiniteSet(Threads)

Slots   == 0 .. (MAX_SESSIONS - 1)
Mode    == {"data", "return"}
ModeOf(s) == IF s \in ReturnSessions THEN "return" ELSE "data"

\* enc_nonce is fresh in every packet a client builds, so a packet and its
\* exact resends share it and no other packet has it.
Nonce   == [sess : Sessions, ctr : Nat]
Packet  == [sess : Sessions, ctr : Nat, intact : BOOLEAN]
NonceOf(p) == [sess |-> p.sess, ctr |-> p.ctr]

\* What a thread carries from one critical section to the next.
Job     == [pkt : Packet, idx : Slots, gen : Nat, dom : Domain, off : 0 .. (HINT_WINDOW - 1)]
NoJob   == [pkt |-> "none"]

VARIABLES
  \* g_sessions, one variable per field
  in_use,           \* [Slots -> BOOLEAN]
  generation,       \* [Slots -> Nat]
  owner,            \* whose keys and hint_seed the slot holds
  hint,             \* hint_base and hint_high_water
  seen,             \* seen_nonces ring and seen_return_nonces ring
  last_active_ms,
  now,              \* GetTickCount()
  \* the threads
  pc, job,
  \* clients and network
  opened,           \* "no", "open" or "failed" for each session
  sent,             \* packets built per session and domain
  net,              \* packets in flight; delivery in any order, or never
  resends,          \* resends and damage used up so far
  \* history
  accepted,         \* per slot and mode: nonces let through since allocation
  idle              \* per slot: ticks since the last touch, up to SESSION_TTL

slotVars   == <<in_use, generation, owner, last_active_ms, idle>>
clientVars == <<opened, sent, net, resends>>
vars == <<in_use, generation, owner, hint, seen, last_active_ms, now,
          pc, job, opened, sent, net, resends, accepted, idle>>
-----------------------------------------------------------------------------
Init ==
  /\ in_use     = [i \in Slots |-> FALSE]
  /\ generation = [i \in Slots |-> 0]
  /\ owner      = [i \in Slots |-> NoSession]
  /\ hint       = [i \in Slots |-> ZeroedHints]
  /\ seen       = [i \in Slots |-> [m \in Mode |-> EmptyRing]]
  /\ last_active_ms = [i \in Slots |-> 0]
  /\ now        = 0
  /\ pc         = [t \in Threads |-> "idle"]
  /\ job        = [t \in Threads |-> NoJob]
  /\ opened     = [s \in Sessions |-> "no"]
  /\ sent       = [s \in Sessions |-> [d \in Domain |-> 0]]
  /\ net        = {}
  /\ resends    = 0
  /\ accepted   = [i \in Slots |-> [m \in Mode |-> <<>>]]
  /\ idle       = [i \in Slots |-> 0]

-----------------------------------------------------------------------------
(* MODE_EXTEND: a session is stored.                                       *)

\* now - last_active_ms in 32-bit unsigned arithmetic.
Age(i) == (now - last_active_ms[i]) % TICK_MOD

FreeSlots    == {i \in Slots : ~in_use[i]}
ExpiredSlots == {i \in Slots : Age(i) >= SESSION_TTL}

\* The slot session_alloc() picks: the first free one, or else the oldest
\* expired one (the last of several equally old ones).
AllocSlot(i) ==
  \/ /\ i \in FreeSlots
     /\ \A j \in FreeSlots : i <= j
  \/ /\ FreeSlots = {}
     /\ i \in ExpiredSlots
     /\ \A j \in ExpiredSlots : Age(j) < Age(i) \/ (Age(j) = Age(i) /\ j <= i)

\* memset(), in_use, last_active_ms, generation + 1, and what the caller
\* populates before it releases the lock.
session_alloc(i, s, h) ==
  /\ AllocSlot(i)
  /\ in_use'     = [in_use EXCEPT ![i] = TRUE]
  /\ generation' = [generation EXCEPT ![i] = @ + 1]
  /\ owner'      = [owner EXCEPT ![i] = s]
  /\ hint'       = [hint EXCEPT ![i] = h]
  /\ seen'       = [seen EXCEPT ![i] = [m \in Mode |-> EmptyRing]]
  /\ last_active_ms' = [last_active_ms EXCEPT ![i] = now]
  /\ accepted'   = [accepted EXCEPT ![i] = [m \in Mode |-> <<>>]]
  /\ idle'       = [idle EXCEPT ![i] = 0]

\* handle_extend() to the end; the signed reply may fail to reach the client,
\* and then the slot stays taken by a session nobody uses.
handle_extend(s) ==
  /\ opened[s] = "no"
  /\ \E i \in Slots : session_alloc(i, s, session_init_hint_window)
  /\ \E reply \in {"open", "failed"} : opened' = [opened EXCEPT ![s] = reply]
  /\ UNCHANGED <<now, pc, job, sent, net, resends>>

\* packet_derive_hint_seed() fails after session_alloc(): the handler returns
\* and leaves the slot in use with every field still zero.
HintSeedFails(s) ==
  /\ opened[s] = "no"
  /\ \E i \in Slots : session_alloc(i, NoSession, ZeroedHints)
  /\ opened' = [opened EXCEPT ![s] = "failed"]
  /\ UNCHANGED <<now, pc, job, sent, net, resends>>

\* session_alloc() returns NULL: "extend: session store full".
StoreFull(s) ==
  /\ opened[s] = "no"
  /\ FreeSlots = {} /\ ExpiredSlots = {}
  /\ opened' = [opened EXCEPT ![s] = "failed"]
  /\ UNCHANGED <<slotVars, hint, seen, accepted, now, pc, job, sent, net, resends>>

-----------------------------------------------------------------------------
(* MODE_DATA and MODE_RETURN: a packet is looked up, verified, let through. *)

Matches(i, c) == \E d \in Domain : InWindow(hint[i], d, c)

\* session_find() scans the slots in index order ...
Found(p, i) ==
  /\ in_use[i] /\ owner[i] = p.sess /\ Matches(i, p.ctr)
  /\ \A j \in Slots : j < i => ~(in_use[j] /\ owner[j] = p.sess /\ Matches(j, p.ctr))

\* ... and domain 0 before domain 1.
FoundDomain(i, c) == IF InWindow(hint[i], "real", c) THEN "real" ELSE "cover"

\* Faulty: the lookup does not refresh last_active_ms.
FindWithoutTouch(t, p, i) ==
  /\ Found(p, i)
  /\ idle' = [idle EXCEPT ![i] = 0]
  /\ job' = [job EXCEPT ![t] =
               [pkt |-> p, idx |-> i, gen |-> generation[i],
                dom |-> FoundDomain(i, p.ctr),
                off |-> p.ctr - hint[i].base[FoundDomain(i, p.ctr)]]]
  /\ pc' = [pc EXCEPT ![t] = "peel"]
  /\ UNCHANGED last_active_ms

session_find(t, p, i) ==
  /\ Found(p, i)
  /\ last_active_ms' = [last_active_ms EXCEPT ![i] = now]
  /\ idle' = [idle EXCEPT ![i] = 0]
  /\ job' = [job EXCEPT ![t] =
               [pkt |-> p, idx |-> i, gen |-> generation[i],
                dom |-> FoundDomain(i, p.ctr),
                off |-> p.ctr - hint[i].base[FoundDomain(i, p.ctr)]]]
  /\ pc' = [pc EXCEPT ![t] = "peel"]

\* A connection thread reads a packet and finds its session.
Receive(t) ==
  /\ pc[t] = "idle"
  /\ \E p \in net, i \in Slots : session_find(t, p, i) /\ net' = net \ {p}
  /\ UNCHANGED <<in_use, generation, owner, hint, seen, now, opened, sent, resends, accepted>>

\* No slot's window holds the hint: the packet is dropped (note_hint_miss()).
HintMiss(t) ==
  /\ pc[t] = "idle"
  /\ \E p \in net :
       /\ \A i \in Slots : ~Found(p, i)
       /\ net' = net \ {p}
  /\ UNCHANGED <<slotVars, hint, seen, accepted, now, pc, job, opened, sent, resends>>

Done(t) ==
  /\ pc'  = [pc EXCEPT ![t] = "idle"]
  /\ job' = [job EXCEPT ![t] = NoJob]

\* Faulty: any session in the slot will do.
SameSlot(j) == in_use[j.idx]

SameSession(j) == in_use[j.idx] /\ generation[j.idx] = j.gen

\* The MAC does not verify: the packet is dropped, the window untouched.
PeelFails(t) ==
  /\ pc[t] = "peel" /\ ~job[t].pkt.intact
  /\ Done(t)
  /\ UNCHANGED <<slotVars, hint, seen, accepted, now, clientVars>>

\* The MAC verified: the deferred window advance, if the slot is still the
\* session that matched.
session_confirm_hint_match(t) ==
  LET j == job[t] IN
  /\ pc[t] = "peel" /\ j.pkt.intact
  /\ hint' = IF SameSession(j)
               THEN [hint EXCEPT ![j.idx] = session_advance_hint_window(@, j.dom, j.off)]
               ELSE hint
  /\ pc' = [pc EXCEPT ![t] = "nonce"]
  /\ UNCHANGED <<slotVars, seen, accepted, now, job, clientVars>>

\* The replay check of one ring: record and let through, or drop.
CheckNonce(t, mode) ==
  LET j == job[t]
      n == NonceOf(j.pkt)
  IN
  /\ pc[t] = "nonce" /\ ModeOf(j.pkt.sess) = mode
  /\ IF SameSession(j) /\ ~Holds(seen[j.idx][mode], n)
       THEN /\ seen' = [seen EXCEPT ![j.idx][mode] = Record(@, n)]
            /\ accepted' = [accepted EXCEPT ![j.idx][mode] = Append(@, n)]
       ELSE UNCHANGED <<seen, accepted>>
  /\ Done(t)
  /\ UNCHANGED <<slotVars, hint, now, clientVars>>

session_check_nonce_by_idx(t)        == CheckNonce(t, "data")
session_check_return_nonce_by_idx(t) == CheckNonce(t, "return")

-----------------------------------------------------------------------------
(* Clients, the network and the clock.                                     *)

\* A client builds its next packet of a domain: counters are used in order.
Send(s, d) ==
  /\ opened[s] = "open" /\ sent[s][d] < MaxSent[d]
  /\ net' = net \cup {[sess |-> s, ctr |-> FirstCounter(d) + sent[s][d], intact |-> TRUE]}
  /\ sent' = [sent EXCEPT ![s][d] = @ + 1]
  /\ UNCHANGED <<slotVars, hint, seen, accepted, now, pc, job, opened, resends>>

\* The same bytes arrive again, or arrive damaged.
Resend(s, d) ==
  /\ resends < MaxResends
  /\ \E c \in 0 .. (sent[s][d] - 1), b \in BOOLEAN :
       LET p == [sess |-> s, ctr |-> FirstCounter(d) + c, intact |-> b]
       IN  p \notin net /\ net' = net \cup {p}
  /\ resends' = resends + 1
  /\ UNCHANGED <<slotVars, hint, seen, accepted, now, pc, job, opened, sent>>

Tick ==
  /\ now' = (now + 1) % TICK_MOD
  /\ idle' = [i \in Slots |-> IF idle[i] < SESSION_TTL THEN idle[i] + 1 ELSE SESSION_TTL]
  /\ UNCHANGED <<in_use, generation, owner, hint, seen, last_active_ms, accepted, pc, job, clientVars>>

-----------------------------------------------------------------------------
Extend(s) == handle_extend(s) \/ HintSeedFails(s) \/ StoreFull(s)

Handle(t) ==
  \/ Receive(t)
  \/ HintMiss(t)
  \/ PeelFails(t)
  \/ session_confirm_hint_match(t)
  \/ session_check_nonce_by_idx(t)
  \/ session_check_return_nonce_by_idx(t)

Next ==
  \/ \E s \in Sessions : Extend(s)
  \/ \E t \in Threads : Handle(t)
  \/ \E s \in Sessions, d \in Domain : Send(s, d) \/ Resend(s, d)
  \/ Tick

Spec == Init /\ [][Next]_vars
-----------------------------------------------------------------------------
(* Properties                                                              *)

\* Every variable holds a value of its C type: in particular the ring cursor
\* of seen_nonces stays inside the array, and the window base and the high
\* water mark never go below zero.
TypeOK ==
  /\ in_use \in [Slots -> BOOLEAN]
  /\ generation \in [Slots -> Nat]
  /\ owner \in [Slots -> Sessions \cup {NoSession}]
  /\ hint \in [Slots -> HintState]
  /\ seen \in [Slots -> [Mode -> Ring(Nonce)]]
  /\ last_active_ms \in [Slots -> 0 .. (TICK_MOD - 1)]
  /\ now \in 0 .. (TICK_MOD - 1)
  /\ pc \in [Threads -> {"idle", "peel", "nonce"}]
  /\ job \in [Threads -> Job \cup {NoJob}]
  /\ \A t \in Threads : pc[t] # "idle" => job[t] \in Job
  /\ opened \in [Sessions -> {"no", "open", "failed"}]
  /\ sent \in [Sessions -> [Domain -> Nat]]
  /\ net \subseteq Packet
  /\ resends \in Nat
  /\ accepted \in [Slots -> [Mode -> Seq(Nonce)]]
  /\ idle \in [Slots -> 0 .. SESSION_TTL]

\* "Reject an exact resend of a packet already forwarded in this session"
\* (handle_data(), handle_return()), up to the limit REPLAY_WINDOW's comment
\* concedes: whatever the interleaving of connection threads, a nonce is let
\* through twice only if more than REPLAY_WINDOW - 1 others came between.
ReplayDistance ==
  \A i \in Slots, m \in Mode :
    \A a, b \in DOMAIN accepted[i][m] :
      a < b /\ accepted[i][m][a] = accepted[i][m][b] => b - a > REPLAY_WINDOW

\* A thread that looked its packet up before the slot was reclaimed records
\* nothing in the slot's new session: what a slot has let through belongs to
\* the session whose keys it holds (the generation check of
\* session_check_nonce_by_idx()).
NoCrossSession ==
  \A i \in Slots, m \in Mode :
    \A k \in DOMAIN accepted[i][m] : accepted[i][m][k].sess = owner[i]

\* While a slot stays with one session, its window moves only forward, in one
\* domain at a time, and only for a packet of that session whose MAC verified
\* (the deferred advance of session_confirm_hint_match()): neither a damaged
\* packet nor a thread left over from the slot's previous session slides it.
WindowMove(i) ==
  \E t \in Threads, d \in Domain :
    /\ pc[t] = "peel" /\ job[t].pkt.intact /\ job[t].pkt.sess = owner[i]
    /\ hint'[i].base[d] >= hint[i].base[d]
    /\ hint'[i].high[d] > hint[i].high[d]
    /\ \A e \in Domain \ {d} : /\ hint'[i].base[e] = hint[i].base[e]
                               /\ hint'[i].high[e] = hint[i].high[e]

WindowMovesByOwnPackets ==
  [][\A i \in Slots :
       generation'[i] = generation[i] /\ hint'[i] # hint[i] => WindowMove(i)]_vars

\* session_alloc() takes a slot away from a session only after SESSION_TTL
\* without a packet of it, also when GetTickCount() has wrapped in between
\* ("wraps safely (unsigned)").
ReclaimSparesActive ==
  [][\A i \in Slots :
       in_use[i] /\ generation'[i] # generation[i] => idle[i] >= SESSION_TTL]_vars

\* The newest counter a client has used in domain d (FirstCounter(d) - 1 when
\* it has used none).
TopSent(s, d) == FirstCounter(d) + sent[s][d] - 1

\* hint_high_water "Tracks the HIGHEST counter ever matched" (session_entry_t):
\* so it is never above the newest counter the client has used.
HighWaterWasSent ==
  \A i \in Slots, d \in Domain :
    in_use[i] /\ owner[i] # NoSession => hint[i].high[d] <= TopSent(owner[i], d)

\* How far one packet may slide the window beyond where it was looked up.
Slide == HINT_WINDOW - HINT_SAFETY_MARGIN

\* hint_base stays HINT_SAFETY_MARGIN behind the newest packet, so that none
\* still in flight loses its hint, as far as one thread goes.  Each further
\* thread may apply an offset to a base that others have moved since it
\* looked its packet up: it slides the window by up to Slide more, and all of
\* them together by no more than that each, whatever they interleave.
InFlightKeepsItsHint ==
  \A i \in Slots, d \in Domain :
    in_use[i] /\ owner[i] # NoSession =>
      \/ hint[i].base[d] = FirstCounter(d)
      \/ hint[i].base[d] <= TopSent(owner[i], d) - HINT_SAFETY_MARGIN + 1
                             + (Cardinality(Threads) - 1) * Slide

\* Was a packet let through among the last n that the client sent, or have
\* fewer been sent?
HeardOf(i, d, n) ==
  \/ sent[owner[i]][d] < n
  \/ \E m \in Mode : \E k \in DOMAIN accepted[i][m] :
       LET c == accepted[i][m][k].ctr IN
       FirstCounter(d) <= c /\ c <= TopSent(owner[i], d) /\ TopSent(owner[i], d) - c < n

\* The next packet of a session misses the window, and with it every later
\* one, only after a run of Slide packets of which none was let through.  So
\* it is for as many threads as together slide the window past no more than
\* the margin, two with the values of config.h; three may leave a session deaf
\* that has lost nothing.
DeafOnlyAfterLosses ==
  (Cardinality(Threads) - 1) * Slide <= HINT_SAFETY_MARGIN =>
    \A i \in Slots, d \in Domain :
      in_use[i] /\ owner[i] # NoSession /\ HeardOf(i, d, Slide) =>
        InWindow(hint[i], d, TopSent(owner[i], d) + 1)

\* The table as its callers see it: whatever threads interleave, the node does
\* no more than ReplayFilter allows.
Filter == INSTANCE ReplayFilter WITH holder <- owner, passed <- accepted
ImplementsFilter == Filter!Spec
=============================================================================
