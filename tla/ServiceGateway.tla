--------------------------- MODULE ServiceGateway ---------------------------
(***************************************************************************)
(* The service gateway (src/ASN/gateway/service_gateway.c): its session    *)
(* table, the connection threads, the return-path mailbox of each session  *)
(* and the thread that flushes it.                                         *)
(*                                                                         *)
(* A client owns a sending session A and a receiving session B.  SETUP     *)
(* binds A to B; from then on a reply to a request of A is encrypted under *)
(* the key of B.  g_sess_lock is released between the steps of a request,  *)
(* so every locked section is an action; a thread keeps its slots from     *)
(* being reclaimed in between by the reference count in_flight.            *)
(*                                                                         *)
(* A session stands for its end-to-end key: two slots hold equal keys when *)
(* they have the same owner, and the binding tag HMAC(a_key, b_key) of a   *)
(* client matches slot j when the owner of j is the client's B session.    *)
(***************************************************************************)
EXTENDS Integers, Sequences, FiniteSets

CONSTANTS
  Threads,             \* handle_connection() threads alive at the same time
  Flush,               \* pending_resp_flush_thread()
  ASessions, BSessions,
  Partner,             \* the B session of the client that owns an A session
  NoSession,
  MAX_SESSIONS,        \* size of g_sessions, 1024
  PENDING_RESP_QUEUE,  \* capacity of a mailbox, 32
  PENDING_WAIT,        \* PENDING_RESPONSE_MAX_WAIT_MS, in clock ticks
  SESSION_TTL,         \* SESSION_TTL_MS, in clock ticks
  TICK_MOD,            \* GetTickCount() wraps at this value
  MaxSetups, MaxRequests, MaxCovers,  \* bounds: packets a session sends
  MaxPackets                          \* bound: and packets of all three kinds

ASSUME GatewayAssumption ==
  /\ IsFiniteSet(Threads) /\ Flush \notin Threads
  /\ ASessions \cap BSessions = {} /\ NoSession \notin ASessions \cup BSessions
  /\ Partner \in [ASessions -> BSessions]
  /\ MAX_SESSIONS \in Nat \ {0} /\ PENDING_RESP_QUEUE \in Nat \ {0}
  /\ TICK_MOD \in Nat
  /\ PENDING_WAIT \in 1 .. (TICK_MOD - 1) /\ SESSION_TTL \in 1 .. (TICK_MOD - 1)
  /\ MaxSetups \in Nat /\ MaxRequests \in Nat /\ MaxCovers \in Nat
  /\ MaxPackets \in Nat

Sessions == ASessions \cup BSessions
Workers  == Threads \cup {Flush}
Slots    == 0 .. (MAX_SESSIONS - 1)
NoSlot   == -1

Kind     == {"setup", "request", "cover"}
MaxSent(k) == CASE k = "setup"   -> MaxSetups
                [] k = "request" -> MaxRequests
                [] k = "cover"   -> MaxCovers

Entry    == [n : Nat, since : 0 .. (TICK_MOD - 1)]   \* pending_resp_t
Packet   == [sess : ASessions, kind : Kind, n : Nat]

\* What a thread works on: kind "flush" is a reply the flush thread has
\* taken; out is what send_response_ex() is to be called with.
Out      == [flags : {"real", "dummy", "ack"}, n : Nat]
NoOut    == [flags |-> "none", n |-> 0]
NoJob    == [sess |-> NoSession, kind |-> "none", n |-> 0, a |-> NoSlot, b |-> NoSlot, out |-> NoOut]
Job      == [sess : ASessions, kind : Kind \cup {"flush"}, n : Nat,
             a : Slots, b : Slots \cup {NoSlot}, out : Out \cup {NoOut}]

VARIABLES
  \* g_sessions, one variable per field
  in_use, owner, last_active_ms, in_flight,
  routed,           \* recv_blind, mnc_addr and binding_tag have been stored
  setup_done, bound_b_idx, b_key,
  pending,          \* the mailbox, oldest reply first
  now,
  \* the threads
  pc, job,
  \* clients and network
  opened, ready, sent, net,
  \* history: replies put into a mailbox, sent as PKT_REAL, and given up
  queued, left, lost

setupVars  == <<routed, setup_done, bound_b_idx, b_key>>
slotVars   == <<in_use, owner, setupVars>>
clientVars == <<opened, ready, sent, net>>
history    == <<queued, left, lost>>
vars == <<slotVars, last_active_ms, in_flight, pending, now, pc, job, clientVars, history>>

Init ==
  /\ in_use = [i \in Slots |-> FALSE]
  /\ owner  = [i \in Slots |-> NoSession]
  /\ last_active_ms = [i \in Slots |-> 0]
  /\ in_flight   = [i \in Slots |-> 0]
  /\ routed      = [i \in Slots |-> FALSE]
  /\ setup_done  = [i \in Slots |-> FALSE]
  /\ bound_b_idx = [i \in Slots |-> 0]         \* memset() in main()
  /\ b_key       = [i \in Slots |-> NoSession]
  /\ pending     = [i \in Slots |-> <<>>]
  /\ now = 0
  /\ pc  = [t \in Workers |-> "idle"]
  /\ job = [t \in Workers |-> NoJob]
  /\ opened = [s \in Sessions |-> "no"]
  /\ ready  = [a \in ASessions |-> FALSE]
  /\ sent   = [a \in ASessions |-> [k \in Kind |-> 0]]
  /\ net    = {}
  /\ queued = [a \in ASessions |-> <<>>]
  /\ left   = [a \in ASessions |-> <<>>]
  /\ lost   = {}

-----------------------------------------------------------------------------
(* MODE_EXTEND                                                             *)

\* Faulty: a signed difference.
SinceSigned(tick) == now - tick

\* GetTickCount() - tick in 32-bit unsigned arithmetic.
Since(tick) == (now - tick) % TICK_MOD

FreeSlots    == {i \in Slots : ~in_use[i]}

\* Faulty: a request in progress does not protect its slots.
ExpiredEvenPinned == {i \in Slots : Since(last_active_ms[i]) >= SESSION_TTL}

ExpiredSlots == {i \in Slots : in_flight[i] = 0 /\ Since(last_active_ms[i]) >= SESSION_TTL}

\* The first free slot, or else the oldest expired one, the last of equals.
AllocSlot(i) ==
  \/ i \in FreeSlots /\ \A j \in FreeSlots : i <= j
  \/ /\ FreeSlots = {} /\ i \in ExpiredSlots
     /\ \A j \in ExpiredSlots :
          \/ Since(last_active_ms[j]) < Since(last_active_ms[i])
          \/ last_active_ms[j] = last_active_ms[i] /\ j <= i

RepliesIn(i) == {<<owner[i], pending[i][k].n>> : k \in DOMAIN pending[i]}

\* The slot is zeroed and populated before the lock is released.
sess_alloc(i, s) ==
  /\ AllocSlot(i)
  /\ in_use'      = [in_use EXCEPT ![i] = TRUE]
  /\ owner'       = [owner EXCEPT ![i] = s]
  /\ last_active_ms' = [last_active_ms EXCEPT ![i] = now]
  /\ in_flight'   = [in_flight EXCEPT ![i] = 0]
  /\ routed'      = [routed EXCEPT ![i] = FALSE]
  /\ setup_done'  = [setup_done EXCEPT ![i] = FALSE]
  /\ bound_b_idx' = [bound_b_idx EXCEPT ![i] = NoSlot]
  /\ b_key'       = [b_key EXCEPT ![i] = NoSession]
  /\ pending'     = [pending EXCEPT ![i] = <<>>]
  /\ lost'        = lost \cup RepliesIn(i)

\* The session is stored; its descriptor may fail to reach the client (the
\* hint derivation, the signature or the send fails) and then nobody uses it.
Extend(s) ==
  /\ opened[s] = "no"
  /\ \E i \in Slots : sess_alloc(i, s)
  /\ \E reply \in {"open", "failed"} : opened' = [opened EXCEPT ![s] = reply]
  /\ UNCHANGED <<now, pc, job, ready, sent, net, queued, left>>

StoreFull(s) ==
  /\ opened[s] = "no"
  /\ FreeSlots = {} /\ ExpiredSlots = {}
  /\ opened' = [opened EXCEPT ![s] = "failed"]
  /\ UNCHANGED <<slotVars, last_active_ms, in_flight, pending, now, pc, job, ready, sent, net, history>>

-----------------------------------------------------------------------------
(* MODE_DATA                                                               *)

\* Slots whose key, with that of A session a, gives a's binding tag.
Verified(a) == {j \in Slots : in_use[j] /\ a \in ASessions /\ owner[j] = Partner[a]}

find_verified_b(a) ==
  IF Verified(a) = {} THEN NoSlot
  ELSE CHOOSE j \in Verified(a) : \A k \in Verified(a) : j <= k

Goto(t, l) == pc' = [pc EXCEPT ![t] = l]
Finish(t)  == Goto(t, "idle") /\ job' = [job EXCEPT ![t] = NoJob]

\* find_a_session(), first locked section: the slots that may own the packet.
Snapshot(t) ==
  /\ pc[t] = "idle"
  /\ \E p \in net, i \in Slots :
       /\ in_use[i] /\ owner[i] = p.sess
       /\ net' = net \ {p}
       /\ job' = [job EXCEPT ![t] = [sess |-> p.sess, kind |-> p.kind, n |-> p.n,
                                     a |-> i, b |-> NoSlot, out |-> NoOut]]
  /\ Goto(t, "candidate")
  /\ UNCHANGED <<slotVars, last_active_ms, in_flight, pending, now, opened, ready, sent, history>>

NoCandidate(t) ==
  /\ pc[t] = "idle"
  /\ \E p \in net : /\ \A i \in Slots : ~(in_use[i] /\ owner[i] = p.sess)
                    /\ net' = net \ {p}
  /\ UNCHANGED <<slotVars, last_active_ms, in_flight, pending, now, pc, job, opened, ready, sent, history>>

\* The slot is still that session, and in a state to take this packet.
Accepts(j) ==
  /\ in_use[j.a] /\ owner[j.a] = j.sess
  /\ j.kind = "request" => setup_done[j.a]
  /\ j.kind = "setup"   => find_verified_b(j.sess) # NoSlot

\* find_a_session(), second locked section: the slot is pinned, or the packet
\* dropped.
find_a_session(t) ==
  /\ pc[t] = "candidate"
  /\ IF Accepts(job[t])
       THEN /\ last_active_ms' = [last_active_ms EXCEPT ![job[t].a] = now]
            /\ in_flight' = [in_flight EXCEPT ![job[t].a] = @ + 1]
            /\ Goto(t, "pinned") /\ UNCHANGED job
       ELSE Finish(t) /\ UNCHANGED <<last_active_ms, in_flight>>
  /\ UNCHANGED <<slotVars, pending, now, clientVars, history>>

\* Covers and requests: setup_done is read without the lock.
CheckSetup(t) ==
  /\ pc[t] = "pinned" /\ job[t].kind \in {"request", "cover"}
  /\ Goto(t, IF setup_done[job[t].a] THEN "find_b" ELSE "unpin")
  /\ UNCHANGED <<slotVars, last_active_ms, in_flight, pending, now, job, clientVars, history>>

\* SETUP: recv_blind, binding_tag, mnc_addr and return_hdr are stored.
SetupWrite(t) ==
  /\ pc[t] = "pinned" /\ job[t].kind = "setup"
  /\ routed' = [routed EXCEPT ![job[t].a] = TRUE]
  /\ Goto(t, "find_b")
  /\ UNCHANGED <<in_use, owner, setup_done, bound_b_idx, b_key, last_active_ms, in_flight,
                 pending, now, job, clientVars, history>>

\* The bound slot, as long as some B session is in it.
BoundB(i) ==
  LET b == bound_b_idx[i] IN
  IF b \in Slots /\ in_use[b] /\ owner[b] \in BSessions THEN b
  ELSE find_verified_b(owner[i])

AfterFindB(kind) ==
  CASE kind = "cover"   -> "pop"
    [] kind = "setup"   -> "verify"
    [] kind = "request" -> "serve"
    [] kind = "flush"   -> "dispatch"

find_b_for_a(t) ==
  LET b == BoundB(job[t].a) IN
  /\ pc[t] = "find_b" /\ b # NoSlot
  /\ in_flight' = [in_flight EXCEPT ![b] = @ + 1]
  /\ job' = [job EXCEPT ![t].b = b]
  /\ Goto(t, AfterFindB(job[t].kind))
  /\ UNCHANGED <<slotVars, last_active_ms, pending, now, clientVars, history>>

\* No B: a SETUP is to clear setup_done, a taken reply is given up.
NoB(t) ==
  /\ pc[t] = "find_b" /\ BoundB(job[t].a) = NoSlot
  /\ Goto(t, IF job[t].kind = "setup" THEN "unset" ELSE "unpin")
  /\ lost' = IF job[t].kind = "flush" THEN lost \cup {<<job[t].sess, job[t].n>>} ELSE lost
  /\ UNCHANGED <<slotVars, last_active_ms, in_flight, pending, now, job, clientVars, queued, left>>

ClearSetup(t) ==
  /\ pc[t] = "unset"
  /\ setup_done' = [setup_done EXCEPT ![job[t].a] = FALSE]
  /\ Goto(t, "unpin")
  /\ UNCHANGED <<in_use, owner, routed, bound_b_idx, b_key, last_active_ms, in_flight,
                 pending, now, job, clientVars, history>>

\* Faulty: whatever B session was found is taken for the client's.
AnyTag(t) == TRUE

TagMatches(t) == owner[job[t].b] = Partner[job[t].sess]

\* SETUP: the tag is verified against the B slot found, the pairing is
\* committed and SETUP_OK goes out at once.
CommitSetup(t) ==
  /\ pc[t] = "verify" /\ TagMatches(t)
  /\ b_key'       = [b_key EXCEPT ![job[t].a] = owner[job[t].b]]
  /\ setup_done'  = [setup_done EXCEPT ![job[t].a] = TRUE]
  /\ bound_b_idx' = [bound_b_idx EXCEPT ![job[t].a] = job[t].b]
  /\ job' = [job EXCEPT ![t].out = [flags |-> "ack", n |-> job[t].n]]
  /\ Goto(t, "dispatch")
  /\ UNCHANGED <<in_use, owner, routed, last_active_ms, in_flight, pending, now, clientVars, history>>

TagMismatch(t) ==
  /\ pc[t] = "verify" /\ ~TagMatches(t)
  /\ Goto(t, "unpin")
  /\ UNCHANGED <<slotVars, last_active_ms, in_flight, pending, now, job, clientVars, history>>

Reply(e) == [flags |-> "real", n |-> e.n]

\* Faulty: the reply sent is not taken out of the mailbox.
DrainByPeek(t) ==
  LET box == pending[job[t].a] IN
  /\ pc[t] = "pop"
  /\ job' = [job EXCEPT ![t].out = IF box # <<>> THEN Reply(Head(box))
                                                ELSE [flags |-> "dummy", n |-> 0]]
  /\ Goto(t, "dispatch")
  /\ UNCHANGED <<slotVars, last_active_ms, in_flight, pending, now, clientVars, history>>

\* A cover packet carries out the oldest reply of the mailbox, or junk.
DrainByCover(t) ==
  LET box == pending[job[t].a] IN
  /\ pc[t] = "pop"
  /\ IF box # <<>>
       THEN /\ job' = [job EXCEPT ![t].out = Reply(Head(box))]
            /\ pending' = [pending EXCEPT ![job[t].a] = Tail(@)]
       ELSE /\ job' = [job EXCEPT ![t].out = [flags |-> "dummy", n |-> 0]]
            /\ UNCHANGED pending
  /\ Goto(t, "dispatch")
  /\ UNCHANGED <<slotVars, last_active_ms, in_flight, now, clientVars, history>>

\* Faulty: the mailbox is never found full.
SendUnbounded(t) ==
  /\ pc[t] = "serve"
  /\ pending' = [pending EXCEPT ![job[t].a] = Append(@, [n |-> job[t].n, since |-> now])]
  /\ queued' = [queued EXCEPT ![job[t].sess] = Append(@, job[t].n)]
  /\ Goto(t, "unpin")
  /\ UNCHANGED <<slotVars, last_active_ms, in_flight, now, job, clientVars, left, lost>>

\* A request: the cache server's answer goes to the end of the mailbox; when
\* that is full, the oldest reply makes room.
send_response(t) ==
  LET i == job[t].a
      full == Len(pending[i]) = PENDING_RESP_QUEUE
  IN
  /\ pc[t] = "serve"
  /\ pending' = [pending EXCEPT ![i] =
                   Append(IF full THEN Tail(@) ELSE @, [n |-> job[t].n, since |-> now])]
  /\ lost' = IF full THEN lost \cup {<<job[t].sess, Head(pending[i]).n>>} ELSE lost
  /\ queued' = [queued EXCEPT ![job[t].sess] = Append(@, job[t].n)]
  /\ Goto(t, "unpin")
  /\ UNCHANGED <<slotVars, last_active_ms, in_flight, now, job, clientVars, left>>

\* The cache server cannot be reached or answers nothing: no reply.
NoAnswer(t) ==
  /\ pc[t] = "serve"
  /\ Goto(t, "unpin")
  /\ UNCHANGED <<slotVars, last_active_ms, in_flight, pending, now, job, clientVars, history>>

\* pending_resp_flush_thread() takes a reply that has waited long enough.
FlushPop(i) ==
  /\ pc[Flush] = "idle"
  /\ in_use[i] /\ owner[i] \in ASessions
  /\ pending[i] # <<>> /\ Since(Head(pending[i]).since) >= PENDING_WAIT
  /\ pending'   = [pending EXCEPT ![i] = Tail(@)]
  /\ in_flight' = [in_flight EXCEPT ![i] = @ + 1]
  /\ job' = [job EXCEPT ![Flush] = [sess |-> owner[i], kind |-> "flush", n |-> Head(pending[i]).n,
                                    a |-> i, b |-> NoSlot, out |-> Reply(Head(pending[i]))]]
  /\ Goto(Flush, "find_b")
  /\ UNCHANGED <<slotVars, last_active_ms, now, clientVars, history>>

\* Encrypted under the key of the B slot and sent to the first return hop ...
send_response_ex(t) ==
  LET o == job[t].out
      a == job[t].sess
  IN
  /\ pc[t] = "dispatch"
  /\ left'  = IF o.flags = "real" THEN [left EXCEPT ![a] = Append(@, o.n)] ELSE left
  /\ ready' = IF o.flags = "ack" THEN [ready EXCEPT ![a] = TRUE] ELSE ready
  /\ Goto(t, "unpin")
  /\ UNCHANGED <<slotVars, last_active_ms, in_flight, pending, now, job, opened, sent, net, queued, lost>>

\* ... unless that hop does not accept the connection.
DispatchFails(t) ==
  LET o == job[t].out IN
  /\ pc[t] = "dispatch"
  /\ lost' = IF o.flags = "real" THEN lost \cup {<<job[t].sess, o.n>>} ELSE lost
  /\ Goto(t, "unpin")
  /\ UNCHANGED <<slotVars, last_active_ms, in_flight, pending, now, job, clientVars, queued, left>>

\* Faulty: only the A slot is released.
UnpinA(t) ==
  /\ pc[t] = "unpin" /\ t # Flush
  /\ in_flight' = [in_flight EXCEPT ![job[t].a] = @ - 1]
  /\ Finish(t)
  /\ UNCHANGED <<slotVars, last_active_ms, pending, now, clientVars, history>>

\* The done: label of handle_connection() releases both slots at once ...
Unpin(t) ==
  /\ pc[t] = "unpin" /\ t # Flush
  /\ in_flight' = [i \in Slots |->
       in_flight[i] - (IF i \in {job[t].a, job[t].b} THEN 1 ELSE 0)]
  /\ Finish(t)
  /\ UNCHANGED <<slotVars, last_active_ms, pending, now, clientVars, history>>

\* ... the flush thread B first and then A.
FlushUnpin ==
  /\ pc[Flush] = "unpin"
  /\ IF job[Flush].b # NoSlot
       THEN /\ in_flight' = [in_flight EXCEPT ![job[Flush].b] = @ - 1]
            /\ job' = [job EXCEPT ![Flush].b = NoSlot]
            /\ UNCHANGED pc
       ELSE /\ in_flight' = [in_flight EXCEPT ![job[Flush].a] = @ - 1]
            /\ Finish(Flush)
  /\ UNCHANGED <<slotVars, last_active_ms, pending, now, clientVars, history>>

-----------------------------------------------------------------------------
(* Clients, the network and the clock.                                     *)

\* A client sends SETUP (and repeats it) when both its sessions are open,
\* requests and covers once a SETUP_OK has come back.
ClientSend(a, k) ==
  /\ opened[a] = "open" /\ opened[Partner[a]] = "open"
  /\ k # "setup" => ready[a]
  /\ sent[a][k] < MaxSent(k)
  /\ sent[a]["setup"] + sent[a]["request"] + sent[a]["cover"] < MaxPackets
  /\ net' = net \cup {[sess |-> a, kind |-> k, n |-> sent[a][k] + 1]}
  /\ sent' = [sent EXCEPT ![a][k] = @ + 1]
  /\ UNCHANGED <<slotVars, last_active_ms, in_flight, pending, now, pc, job, opened, ready, history>>

Tick ==
  /\ now' = (now + 1) % TICK_MOD
  /\ UNCHANGED <<slotVars, last_active_ms, in_flight, pending, pc, job, clientVars, history>>

-----------------------------------------------------------------------------
Handle(t) ==
  \/ Snapshot(t) \/ NoCandidate(t) \/ find_a_session(t)
  \/ CheckSetup(t) \/ SetupWrite(t)
  \/ ClearSetup(t) \/ CommitSetup(t) \/ TagMismatch(t)
  \/ DrainByCover(t) \/ send_response(t) \/ NoAnswer(t)
  \/ Unpin(t)

Dispatch(t) == find_b_for_a(t) \/ NoB(t) \/ send_response_ex(t) \/ DispatchFails(t)

FlushStep == Dispatch(Flush) \/ FlushUnpin

Next ==
  \/ \E s \in Sessions : Extend(s) \/ StoreFull(s)
  \/ \E t \in Threads : Handle(t) \/ Dispatch(t)
  \/ \E i \in Slots : FlushPop(i)
  \/ FlushStep
  \/ \E a \in ASessions, k \in Kind : ClientSend(a, k)
  \/ Tick

Spec == Init /\ [][Next]_vars

\* The threads are scheduled and the clock runs on.  FlushPop is taken though
\* it is disabled for an instant each time GetTickCount() wraps: the flush
\* thread polls every PENDING_WAIT / 4.
FairSpec ==
  /\ Spec
  /\ \A t \in Threads : WF_vars(Handle(t) \/ Dispatch(t))
  /\ \A i \in Slots : SF_vars(FlushPop(i))
  /\ WF_vars(FlushStep)
  /\ WF_vars(Tick)
-----------------------------------------------------------------------------
(* Properties                                                              *)

\* Every variable holds a value of its C type; a mailbox never holds more
\* than PENDING_RESP_QUEUE replies and only A sessions have one.
TypeOK ==
  /\ in_use \in [Slots -> BOOLEAN]
  /\ owner \in [Slots -> Sessions \cup {NoSession}]
  /\ last_active_ms \in [Slots -> 0 .. (TICK_MOD - 1)]
  /\ in_flight \in [Slots -> Nat]
  /\ routed \in [Slots -> BOOLEAN]
  /\ setup_done \in [Slots -> BOOLEAN]
  /\ bound_b_idx \in [Slots -> Slots \cup {NoSlot}]
  /\ b_key \in [Slots -> BSessions \cup {NoSession}]
  /\ pending \in [Slots -> Seq(Entry)]
  /\ \A i \in Slots : /\ Len(pending[i]) <= PENDING_RESP_QUEUE
                      /\ pending[i] # <<>> => owner[i] \in ASessions
  /\ now \in 0 .. (TICK_MOD - 1)
  /\ pc \in [Workers -> {"idle", "candidate", "pinned", "find_b", "unset", "verify",
                          "pop", "serve", "dispatch", "unpin"}]
  /\ job \in [Workers -> Job \cup {NoJob}]
  /\ opened \in [Sessions -> {"no", "open", "failed"}]
  /\ ready \in [ASessions -> BOOLEAN]
  /\ sent \in [ASessions -> [Kind -> Nat]]
  /\ net \subseteq Packet
  /\ queued \in [ASessions -> Seq(Nat)] /\ left \in [ASessions -> Seq(Nat)]
  /\ lost \subseteq ASessions \X Nat

\* Thread t has pinned slot i and not released it.
Holds(t, i) == pc[t] \notin {"idle", "candidate"} /\ i \in {job[t].a, job[t].b}

\* in_flight is the number of threads that still use the slot, whatever path
\* they take through handle_connection() or the flush thread: a pin that
\* leaked would keep the slot from ever being reclaimed, one released twice
\* would let it go while a request works on it.
PinsCounted == \A i \in Slots : in_flight[i] = Cardinality({t \in Workers : Holds(t, i)})

\* setup_done means the pairing was verified: "GET/PUT always has bound_b_idx
\* set by the time setup_done is checked", and b_key is the key of the
\* client's own B session, also when SETUPs of several clients interleave.
SetupMeansBound ==
  \A i \in Slots : setup_done[i] =>
    /\ bound_b_idx[i] # NoSlot
    /\ b_key[i] = Partner[owner[i]]

\* Nothing is sent down the return path of a session whose recv_blind and
\* mnc_addr "are still zero" (the comment on return-path cover), whichever
\* thread sends it: "a pinned slot can't be reclaimed out from under an
\* in-progress request", so the route it checked is still the one it uses.
DispatchIsRouted == \A t \in Workers : pc[t] = "dispatch" => routed[job[t].a]

\* Where reply n of session a is: in the mailbox, in the hands of a thread
\* that took it out, sent, or given up.
Places(a, n) ==
    Cardinality({p \in Slots \X (1 .. PENDING_RESP_QUEUE) :
                   /\ owner[p[1]] = a /\ p[2] \in DOMAIN pending[p[1]]
                   /\ pending[p[1]][p[2]].n = n})
  + Cardinality({t \in Workers : /\ job[t].sess = a /\ pc[t] \in {"find_b", "dispatch"}
                                 /\ job[t].out = [flags |-> "real", n |-> n]})
  + Cardinality({k \in DOMAIN left[a] : left[a][k] = n})
  + (IF <<a, n>> \in lost THEN 1 ELSE 0)

Queued(a, n) == \E k \in DOMAIN queued[a] : queued[a][k] = n

\* The flush thread and any number of cover triggers empty the same mailbox:
\* each reply put into it is in exactly one place, so none is sent twice and
\* none disappears without having been dropped.
RepliesAccounted ==
  \A a \in ASessions, n \in 1 .. MaxRequests : Places(a, n) = IF Queued(a, n) THEN 1 ELSE 0

\* The flush thread's bound: no reply sits in a mailbox for ever, even when
\* the client sends no cover that could carry it out.
EveryReplyLeaves ==
  \A a \in ASessions, n \in 1 .. MaxRequests :
    Queued(a, n) ~> (\E k \in DOMAIN left[a] : left[a][k] = n) \/ <<a, n>> \in lost
=============================================================================
