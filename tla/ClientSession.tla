---------------------------- MODULE ClientSession ----------------------------
(***************************************************************************)
(* The session of src/ASN/client/client.c once its paths are built: SETUP  *)
(* of every sending leg, requests spread over the legs, and the cover      *)
(* thread, which draws from the same return counter, and in the "base"     *)
(* build gives up one cover for each real packet while in the "loopix"     *)
(* build it sends the real packets itself.                                 *)
(*                                                                         *)
(* Of the nodes only what the client depends on is modelled: a packet gets *)
(* through or does not (a hint out of its window, a MAC, a closed          *)
(* connection: MixNode has the reasons), the gateway binds the leg of a    *)
(* SETUP and answers under the return header that came with a packet, and  *)
(* the return path lets a header through once.                             *)
(***************************************************************************)
EXTENDS Integers, FiniteSets

CONSTANTS
  HINT_COVER_COUNTER_BASE,   \* first counter of a cover, 2^62 in config.h
  N_LEGS,         \* g_n_legs
  Weights,        \* ASN_STRIPE_WEIGHTS, as integers
  Policies,       \* subset of {"iid", "round_robin", "weighted", "batch", "latency"}
  STRIPE_WINDOW,  \* g_stripe_window
  STRIPE_RECENT_MAX,
  Builds,         \* subset of {"base", "loopix"} (ASN_LOOPIX_MIXING)
  MaxSends,       \* bound: requests
  MaxCovers,      \* bound: ticks of the cover thread
  MaxUnderWay,    \* bound: packets on either path
  Nothing

Legs == 0 .. N_LEGS - 1

\* A client has at most as many legs as its guard set has nodes.
MAX_STRIPE_LEGS == 3

\* The total is all the code looks at; that no single weight is negative is
\* assumed: a share cannot be.
TotalWeight == LET Share(l) == IF l \in Legs THEN Weights[l] ELSE 0
               IN  Share(0) + Share(1) + Share(2)

ASSUME SessionAssumption ==
  /\ HINT_COVER_COUNTER_BASE \in Nat
  /\ N_LEGS \in 1 .. MAX_STRIPE_LEGS
  /\ Weights \in [Legs -> Nat] /\ TotalWeight > 0
  /\ Policies \subseteq {"iid", "round_robin", "weighted", "batch", "latency"}
  /\ STRIPE_RECENT_MAX \in Nat \ {0} /\ STRIPE_WINDOW \in 1 .. STRIPE_RECENT_MAX
  /\ Builds \subseteq {"base", "loopix"}
  /\ MaxSends \in Nat /\ MaxCovers \in Nat /\ MaxUnderWay \in Nat \ {0}

VARIABLES
  build, legs,     \* the build, and the number of legs in use: one in "loopix"
  policy, rr_next, credit, recent,  \* state of the split policy
  counter,         \* per leg: g_send_pkt_counter, stripe_leg_t.counter
  cover_ctr,       \* g_send_cover_pkt_counter
  ret_ctr,         \* g_return_pkt_counter
  pending,         \* g_real_traffic_pending ("base")
  mailbox,         \* g_pending_real_pkt ("loopix")
  resp,            \* g_resp_buf and its event: an answer, or Nothing
  pc, setup_leg, attempt, header, streaming,   \* main thread
  tick,            \* cover thread
  sends, covers,   \* bounds
  \* outside
  forward, back,   \* packets on the sending legs and on the return path
  ret_seen,        \* return headers the first return hop let through
  bound,           \* legs the gateway has bound
  \* history
  credited, suppressed,  \* credits given, and covers given up for them
  early            \* the last wait ended with an answer to an earlier request

stripeVars == <<policy, rr_next, credit, recent>>
ctrVars    == <<counter, cover_ctr, ret_ctr>>
mainVars   == <<pc, setup_leg, attempt, header, streaming, sends>>
netVars    == <<forward, back, ret_seen, bound>>
histVars   == <<credited, suppressed, early>>
vars == <<build, legs, stripeVars, ctrVars, pending, mailbox, resp, mainVars, tick, covers,
          netVars, histVars>>

Used == 0 .. legs - 1

Packet == [kind : {"SETUP", "REQUEST", "COVER"}, leg : Legs, ctr : Nat, ret : Nat]

Init ==
  /\ build \in Builds /\ legs = IF build = "loopix" THEN 1 ELSE N_LEGS
  /\ policy \in Policies /\ rr_next = 0 /\ credit = [l \in Legs |-> 0]
  /\ recent = [l \in Legs |-> 0]
  /\ counter = [l \in Legs |-> 0] /\ cover_ctr = HINT_COVER_COUNTER_BASE
  /\ ret_ctr = 1   \* build_paths() made one header
  /\ pending = 0 /\ mailbox = Nothing /\ resp = Nothing
  /\ pc = "setup" /\ setup_leg = 0 /\ attempt = 0 /\ header = Nothing /\ streaming = FALSE
  /\ tick = "off" /\ sends = 0 /\ covers = 0
  /\ forward = {} /\ back = {}
  /\ ret_seen = {} /\ bound = {}
  /\ credited = 0 /\ suppressed = 0 /\ early = FALSE
-----------------------------------------------------------------------------
(* The split policies                                                      *)

\* Faulty: the credit of the chosen leg is kept.
CreditKept(l) ==
  LET grown == [i \in Legs |-> credit[i] + Weights[i]] IN
  /\ \A i \in Used : grown[i] < grown[l] \/ (grown[i] = grown[l] /\ l <= i)
  /\ credit' = grown

\* Every leg earns its weight, the first of the richest is chosen and pays.
\* In the code a weight is a share of 1; here all are scaled by their total.
WeightedRoundRobin(l) ==
  LET grown == [i \in Legs |-> credit[i] + Weights[i]] IN
  /\ \A i \in Used : grown[i] < grown[l] \/ (grown[i] = grown[l] /\ l <= i)
  /\ credit' = [grown EXCEPT ![l] = @ - TotalWeight]

\* The leg the "latency" policy takes when kept[i] sends of leg i are younger
\* than its round trip: the fastest with room in its window, or the least
\* loaded.  Leg numbers stand for the order of the round trip times.
LatencyChoice(l, kept) ==
  LET room == {i \in Used : kept[i] < STRIPE_WINDOW} IN
  IF room # {} THEN l \in room /\ \A i \in room : l <= i
  ELSE \A i \in Used : kept[l] < kept[i] \/ (kept[l] = kept[i] /\ l <= i)

\* Older sends are forgotten.
Younger == {f \in [Legs -> 0 .. STRIPE_RECENT_MAX] : \A i \in Legs : f[i] <= recent[i]}

\* Faulty: the oldest send is kept though the ring is full.
RingOverrun(l) ==
  \E kept \in Younger : LatencyChoice(l, kept) /\ recent' = [kept EXCEPT ![l] = @ + 1]

\* A full ring gives up its oldest send ("cannot happen with window <= max",
\* but it does when every leg's window is full).
LatencyBound(l) ==
  \E kept \in Younger :
    /\ LatencyChoice(l, kept)
    /\ recent' = [kept EXCEPT ![l] = IF @ = STRIPE_RECENT_MAX THEN @ ELSE @ + 1]

\* "iid" and "batch" may take any leg: a batch may be over at any time.
stripe_pick_leg(l) ==
  /\ l \in Used
  /\ IF legs = 1 THEN UNCHANGED stripeVars
     ELSE
     /\ \/ policy \in {"iid", "batch"} /\ UNCHANGED <<rr_next, credit, recent>>
        \/ /\ policy = "round_robin" /\ l = rr_next
           /\ rr_next' = (l + 1) % legs /\ UNCHANGED <<credit, recent>>
        \/ policy = "weighted" /\ WeightedRoundRobin(l) /\ UNCHANGED <<rr_next, recent>>
        \/ policy = "latency" /\ LatencyBound(l) /\ UNCHANGED <<rr_next, credit>>
     /\ UNCHANGED policy
-----------------------------------------------------------------------------
(* Packets and their counters                                              *)

stripe_next_counter(l) == counter[l]

build_spare_return_header == ret_ctr

\* A packet leaves, or is lost on its way: its counter is used up in both cases.
Send(p) ==
  /\ forward' \in {forward, forward \cup {p}}
  /\ Cardinality(forward') + Cardinality(back) <= MaxUnderWay

\* Faulty: each attempt of a SETUP has a return header of its own.
HeaderPerAttempt == ret_ctr

\* send_setup_leg() makes one return header for both attempts.
SetupHeader == IF attempt = 0 THEN ret_ctr ELSE header
-----------------------------------------------------------------------------
(* Main thread: SETUP of every leg                                         *)

\* One attempt: a fresh counter, and out; without a connection to the first
\* hop the program ends.
send_setup_leg ==
  LET l == setup_leg IN
  /\ pc = "setup"
  /\ header' = SetupHeader
  /\ ret_ctr' = IF header' = ret_ctr THEN ret_ctr + 1 ELSE ret_ctr
  /\ counter' = [counter EXCEPT ![l] = stripe_next_counter(l) + 1]
  /\ Send([kind |-> "SETUP", leg |-> l, ctr |-> stripe_next_counter(l), ret |-> header'])
  /\ pc' \in {"setup_wait", "exited"}
  /\ UNCHANGED <<build, legs, stripeVars, cover_ctr, pending, mailbox, resp, setup_leg, attempt,
                 streaming, sends, tick, covers, back, ret_seen, bound, histVars>>

\* Whatever wait_response() returns is the acknowledgement.  After the last
\* leg the cover thread starts, unless ASN_COVER_OFF is set.
SetupAcknowledged ==
  /\ pc = "setup_wait" /\ resp # Nothing
  /\ resp' = Nothing /\ attempt' = 0
  /\ IF setup_leg + 1 < legs
       THEN setup_leg' = setup_leg + 1 /\ pc' = "setup" /\ UNCHANGED tick
       ELSE UNCHANGED setup_leg /\ pc' = "idle" /\ tick' \in {"sleep", "off"}
  /\ UNCHANGED <<build, legs, stripeVars, ctrVars, pending, mailbox, header, streaming, sends,
                 covers, netVars, histVars>>

SetupTimeout ==
  /\ pc = "setup_wait" /\ resp = Nothing
  /\ IF attempt = 0 THEN pc' = "setup" ELSE pc' = "exited"
  /\ attempt' = 1
  /\ UNCHANGED <<build, legs, stripeVars, ctrVars, pending, mailbox, resp, setup_leg, header,
                 streaming, sends, tick, covers, netVars, histVars>>
-----------------------------------------------------------------------------
(* Main thread: requests                                                   *)

\* "base": the credit comes before the connection, which may fail.
SendDirectly(p, wait) ==
  /\ pending' = pending + 1 /\ credited' = credited + 1
  /\ Send(p)
  /\ pc' \in {IF wait THEN "wait" ELSE "idle", "idle"}
  /\ UNCHANGED mailbox

\* "loopix": the packet is put where the dispatch clock will find it.
Queue(p, wait) ==
  /\ mailbox' = p
  /\ pc' = IF wait THEN "wait" ELSE "idle"
  /\ UNCHANGED <<pending, credited, forward>>

\* A request of GET, or of STREAM, which need not wait for the reply.
send_app_request(l, wait) ==
  LET p == [kind |-> "REQUEST", leg |-> l, ctr |-> stripe_next_counter(l), ret |-> ret_ctr] IN
  /\ pc = "idle" /\ sends < MaxSends /\ sends' = sends + 1
  /\ header' = ret_ctr /\ ret_ctr' = ret_ctr + 1
  /\ stripe_pick_leg(l)
  /\ counter' = [counter EXCEPT ![l] = stripe_next_counter(l) + 1]
  /\ IF build = "loopix" THEN Queue(p, wait) ELSE SendDirectly(p, wait)
  /\ streaming' = ~wait
  /\ UNCHANGED <<build, legs, cover_ctr, resp, setup_leg, attempt, tick, covers, back,
                 ret_seen, bound, suppressed, early>>

\* wait_response() takes what is in the buffer: nothing in it says which
\* request it answers.
wait_response ==
  /\ pc = "wait" /\ resp # Nothing
  /\ resp' = Nothing /\ pc' = "idle"
  /\ early' = (resp.ret # header)
  /\ UNCHANGED <<build, legs, stripeVars, ctrVars, pending, mailbox, setup_leg, attempt, header,
                 streaming, sends, tick, covers, netVars, credited, suppressed>>

\* Faulty: the wait is shorter than the dispatch clock's longest interval.
ImpatientWait ==
  /\ pc = "wait" /\ resp = Nothing
  /\ pc' = "idle" /\ early' = FALSE
  /\ UNCHANGED <<build, legs, stripeVars, ctrVars, pending, mailbox, resp, setup_leg, attempt,
                 header, streaming, sends, tick, covers, netVars, credited, suppressed>>

\* Every wait of a request is at least 2 s and every interval of the clock at
\* most 1 s: when time runs out the clock has emptied the mailbox.
WaitTimeout ==
  /\ pc = "wait" /\ resp = Nothing
  /\ mailbox = Nothing \/ tick = "off"
  /\ pc' = "idle" /\ early' = FALSE
  /\ UNCHANGED <<build, legs, stripeVars, ctrVars, pending, mailbox, resp, setup_leg, attempt,
                 header, streaming, sends, tick, covers, netVars, credited, suppressed>>
-----------------------------------------------------------------------------
(* outbound_cover_thread()                                                 *)

\* "base": a credit is taken; if there was none the thread goes on.
TakeCredit ==
  /\ build = "base" /\ tick = "sleep" /\ covers < MaxCovers
  /\ pending' = pending - 1
  /\ IF pending' >= 0
       THEN suppressed' = suppressed + 1 /\ covers' = covers + 1 /\ UNCHANGED tick
       ELSE tick' = "restore" /\ UNCHANGED <<suppressed, covers>>
  /\ UNCHANGED <<build, legs, stripeVars, ctrVars, mailbox, resp, mainVars, netVars, credited, early>>

\* Faulty: the count is set to zero.
RestoreToZero == pending' = 0

\* The decrement that found no credit is taken back.
RestoreCredit == pending' = pending + 1

\* build_cover_slot(): a cover of leg 0 with a spare return header.
SendCover ==
  /\ covers' = covers + 1
  /\ cover_ctr' = cover_ctr + 1 /\ ret_ctr' = ret_ctr + 1
  /\ Send([kind |-> "COVER", leg |-> 0, ctr |-> cover_ctr, ret |-> build_spare_return_header])

BaseTick ==
  /\ tick = "restore" /\ tick' = "sleep"
  /\ RestoreCredit
  /\ SendCover
  /\ UNCHANGED <<build, legs, stripeVars, counter, mailbox, resp, mainVars, back, ret_seen, bound,
                 histVars>>

\* "loopix": one packet per tick, the real one first.
LoopixTick ==
  /\ build = "loopix" /\ tick = "sleep" /\ covers < MaxCovers + MaxSends
  /\ IF mailbox # Nothing
       THEN Send(mailbox) /\ mailbox' = Nothing /\ covers' = covers + 1
            /\ UNCHANGED <<cover_ctr, ret_ctr>>
       ELSE SendCover /\ UNCHANGED mailbox
  /\ UNCHANGED <<build, legs, stripeVars, counter, pending, resp, mainVars, tick, back,
                 ret_seen, bound, histVars>>
-----------------------------------------------------------------------------
(* Outside: nodes, gateway, response listener                              *)

\* A packet is lost, or the gateway has it: it binds the leg of a SETUP, and
\* answers what comes on a bound leg, but the answer may not set off.
Arrive(p) ==
  /\ forward' = forward \ {p}
  /\ \/ UNCHANGED <<bound, back>>
     \/ /\ bound' = IF p.kind = "SETUP" THEN bound \cup {p.leg} ELSE bound
        /\ p.leg \in bound'
        /\ back' \in {back, back \cup {p}}
  /\ UNCHANGED <<build, legs, stripeVars, ctrVars, pending, mailbox, resp, mainVars, tick, covers,
                 ret_seen, histVars>>

\* An answer is lost, or its header, which the return path lets through once,
\* is used up, and then it may reach response_listener(), which throws a
\* return cover away.
Return(a) ==
  /\ back' = back \ {a}
  /\ \/ UNCHANGED <<ret_seen, resp>>
     \/ /\ a.ret \notin ret_seen /\ ret_seen' = ret_seen \cup {a.ret}
        /\ resp' \in {resp} \cup (IF a.kind = "COVER" THEN {} ELSE {a})
  /\ UNCHANGED <<build, legs, stripeVars, ctrVars, pending, mailbox, mainVars, tick, covers,
                 forward, bound, histVars>>
-----------------------------------------------------------------------------
Next ==
  \/ send_setup_leg \/ SetupAcknowledged \/ SetupTimeout
  \/ \E l \in Legs, wait \in BOOLEAN : send_app_request(l, wait)
  \/ wait_response \/ WaitTimeout
  \/ TakeCredit \/ BaseTick \/ LoopixTick
  \/ \E p \in forward : Arrive(p)
  \/ \E a \in back : Return(a)

Spec == Init /\ [][Next]_vars
-----------------------------------------------------------------------------
(* Properties                                                              *)

\* Every variable holds a value of its type.
TypeOK ==
  /\ build \in Builds /\ legs \in 1 .. N_LEGS /\ policy \in Policies /\ rr_next \in Used
  /\ credit \in [Legs -> Int] /\ recent \in [Legs -> 0 .. STRIPE_RECENT_MAX]
  /\ counter \in [Legs -> Nat] /\ cover_ctr \in Nat /\ ret_ctr \in Nat
  /\ pending \in -1 .. MaxSends /\ mailbox \in Packet \cup {Nothing} /\ resp \in Packet \cup {Nothing}
  /\ pc \in {"setup", "setup_wait", "idle", "wait", "exited"} /\ setup_leg \in Used
  /\ attempt \in {0, 1} /\ header \in Nat \cup {Nothing} /\ streaming \in BOOLEAN
  /\ tick \in {"off", "sleep", "restore"} /\ sends \in 0 .. MaxSends /\ covers \in Nat
  /\ forward \subseteq Packet /\ back \subseteq Packet
  /\ ret_seen \subseteq Nat /\ bound \subseteq Legs
  /\ credited \in Nat /\ suppressed \in Nat /\ early \in BOOLEAN

\* An acknowledgement says nothing of the leg it is for; still a leg counts as
\* set up only if the gateway has bound it, also when the answers to both
\* attempts of an earlier leg are late: they share one return header.
SetUpLegsAreBound ==
  /\ \A l \in Used : pc # "exited" /\ l < setup_leg => l \in bound
  /\ pc \in {"idle", "wait"} => Used \subseteq bound

\* g_real_traffic_pending, counted by two threads with single atomic steps,
\* loses no credit and invents none: each real packet takes the place of one
\* cover.
CreditsKept ==
  pending + (IF tick = "restore" THEN 1 ELSE 0) = credited - suppressed

\* The smooth weighted round robin owes no leg a whole round, nor the reverse:
\* after any number of requests a leg has had its share to within one.  This is
\* so for up to MAX_STRIPE_LEGS legs, not for any number: of five with weights
\* 44, 1, 44, 1, 1 one falls further behind.
SharesKept == \A l \in Used : -TotalWeight < credit[l] /\ credit[l] < TotalWeight

\* A packet is overwritten in the mailbox ("safe only because run_interactive()
\* is strictly serial", client.c:1487) in three cases only: STREAM does not
\* wait, the last wait took an answer to an earlier request, or the clock
\* that empties the mailbox was never started.
OverwrittenOnlyThen ==
  [][mailbox # Nothing /\ mailbox' \notin {mailbox, Nothing} => streaming \/ early \/ tick = "off"]_vars
=============================================================================
