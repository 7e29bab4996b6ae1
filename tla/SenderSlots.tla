----------------------------- MODULE SenderSlots -----------------------------
(***************************************************************************)
(* The response slots of src/ASN/sender/sender.c.  A request acquires a    *)
(* slot, draws a nonce, goes out with a return header made for that slot,  *)
(* waits for the slot's event and releases the slot, also when its answer  *)
(* is still on its way: the next request of the slot then has to tell that *)
(* answer from its own.                                                    *)
(*                                                                         *)
(* Callers are the interactive thread (SETUP of every slot at startup,     *)
(* then uploads), heartbeat_thread() and its respond workers.  A request   *)
(* is known by its slot and its return counter; the code sees the nonce    *)
(* only, SLOT_NONCE_BYTES random bytes, which may be those of an earlier   *)
(* request.                                                                *)
(*                                                                         *)
(* Gateway and cache server are external: they answer a request once, and  *)
(* the return path lets one packet per return header through               *)
(* (ReplayFilter).  Any message may be late, or never arrive.              *)
(***************************************************************************)
EXTENDS Naturals, Sequences, FiniteSets

CONSTANTS
  SENDER_RESPONSE_PORT_COUNT,  \* slots
  Workers,     \* threads that respond_worker() runs in
  Keys,        \* content keys: sequences of the parts between '#'
  Wire,        \* wire keys under which receivers have asked
  Builds,      \* subset of {"base", "loopix"} (ASN_LOOPIX_MIXING)
  Nonces,      \* values of SLOT_NONCE_BYTES bytes
  LISTING,     \* entries in a full HEARTBEAT answer
  HEARTBEAT_DRAIN_MAX,
  MaxPuts,     \* bound: uploads
  MaxBeats,    \* bound: heartbeat ticks
  MaxUnderWay, \* bound: messages outside the sender
  Nothing

Slots == 1 .. SENDER_RESPONSE_PORT_COUNT

Main  == "main"
Heart == "heartbeat"
Threads == {Main, Heart} \cup Workers

ASSUME SlotsAssumption ==
  /\ SENDER_RESPONSE_PORT_COUNT \in Nat \ {0}
  /\ Workers \cap {Main, Heart} = {}
  /\ Keys \subseteq Seq(STRING) /\ Wire \subseteq Seq(STRING)
  /\ LISTING \in Nat \ {0} /\ LISTING <= Cardinality(Workers)
  /\ HEARTBEAT_DRAIN_MAX \in Nat \ {0} /\ MaxPuts \in Nat /\ MaxBeats \in Nat /\ MaxUnderWay \in Nat \ {0}
  /\ Builds \subseteq {"base", "loopix"} /\ Nonces # {} /\ Nothing \notin Nonces

VARIABLES
  build,
  \* g_slots
  in_use, pending_nonce,
  resp_buf,    \* the answer in the slot's buffer
  resp_event,  \* its auto-reset event
  ret_ctr,     \* next_return_pkt_counter_for_slot()
  \* threads
  pc, slot,
  asked,       \* return counter of the thread's request
  got,         \* the answer it has taken
  attempt,     \* of send_setup_for_slot()
  round,       \* drain_round
  listing,     \* entries of the last HEARTBEAT answer
  entry,       \* w->key of a worker
  owned,       \* g_owned_keys
  puts, beats, \* uploads and heartbeat ticks so far
  \* outside
  mailbox,     \* g_pending_real_pkt ("loopix")
  requests, answers,
  spent,       \* slots whose SETUP return header a return hop has seen
  unanswered,  \* wire keys waiting at the cache server
  \* history
  reached,     \* threads whose own answer reached the slot's listener in time
  discarded    \* threads that threw away an answer during their wait

slotVars   == <<in_use, pending_nonce, resp_buf, resp_event, ret_ctr>>
senderVars == <<attempt, round, listing, entry, owned, puts, beats>>
netVars    == <<mailbox, requests, answers, spent, unanswered>>
vars == <<build, slotVars, pc, slot, asked, got, senderVars, netVars, reached, discarded>>

Request == [slot : Slots, ret : Nat, nonce : Nonces \cup {Nothing},
            kind : {"SETUP", "PUT", "HEARTBEAT", "RESPOND"}, wire : Wire \cup {Nothing},
            key : Keys \cup {Nothing}]
Answer  == [to : Request, list : SUBSET Wire]

Kind(t) == CASE t = Main -> "PUT" [] t = Heart -> "HEARTBEAT" [] OTHER -> "RESPOND"

Init ==
  /\ build \in Builds
  /\ in_use = [s \in Slots |-> FALSE] /\ pending_nonce = [s \in Slots |-> Nothing]
  /\ resp_buf = [s \in Slots |-> Nothing] /\ resp_event = [s \in Slots |-> FALSE]
  /\ ret_ctr = [s \in Slots |-> 0]
  /\ pc = [t \in Threads |-> IF t = Main THEN "setup" ELSE "idle"]
  /\ slot = [t \in Threads |-> IF t = Main THEN 1 ELSE 0]
  /\ asked = [t \in Threads |-> 0] /\ got = [t \in Threads |-> Nothing]
  /\ attempt = 0 /\ round = 0 /\ listing = {} /\ entry = [w \in Workers |-> Nothing]
  /\ owned = {} /\ puts = 0 /\ beats = 0
  /\ mailbox = Nothing /\ requests = {} /\ answers = {} /\ spent = {}
  /\ unanswered = Wire
  /\ reached = {} /\ discarded = {}

Goto(t, l) == pc' = [pc EXCEPT ![t] = l]
-----------------------------------------------------------------------------
(* The mailbox of a slot                                                   *)

\* response_listener(): the buffer is overwritten, the event set.
response_listener(a) ==
  LET s == a.to.slot IN
  /\ answers' = answers \ {a}
  /\ resp_buf' = [resp_buf EXCEPT ![s] = a]
  /\ resp_event' = [resp_event EXCEPT ![s] = TRUE]
  /\ reached' = reached \cup
       {t \in Threads : pc[t] \in {"wait", "woken", "again"} /\ slot[t] = s /\ asked[t] = a.to.ret}
  /\ UNCHANGED <<build, in_use, pending_nonce, ret_ctr, pc, slot, asked, got, senderVars,
                 mailbox, requests, spent, unanswered, discarded>>

\* A successful wait resets the event.
WaitForEvent(s) == resp_event[s] /\ resp_event' = [resp_event EXCEPT ![s] = FALSE]

\* The section under resp_lock: copy the buffer, reset the event.
TakeBuffer(s) ==
  /\ resp_event' = [resp_event EXCEPT ![s] = FALSE]
  /\ resp_buf' = [resp_buf EXCEPT ![s] = Nothing]
-----------------------------------------------------------------------------
(* Startup: one SETUP per slot                                             *)

\* Beyond MaxUnderWay messages one is lost.
Sent(r) == IF Cardinality(requests) + Cardinality(answers) < MaxUnderWay
             THEN requests \cup {r} ELSE requests

\* In the "loopix" build a request waits for the dispatch clock, in the
\* place of one that still does.
Post(r) ==
  IF build = "base" \/ r.kind = "SETUP"
    THEN requests' = Sent(r) /\ UNCHANGED mailbox
    ELSE mailbox' = r /\ UNCHANGED requests

SetupRequest(s) ==
  [slot |-> s, ret |-> 0, nonce |-> Nothing, kind |-> "SETUP", wire |-> Nothing, key |-> Nothing]

\* Both attempts carry the return header made before the first.
send_setup_for_slot ==
  LET s == slot[Main] IN
  /\ pc[Main] = "setup"
  /\ ret_ctr' = [ret_ctr EXCEPT ![s] = 1]
  /\ Post(SetupRequest(s))
  /\ Goto(Main, "setup_wait")
  /\ UNCHANGED <<build, in_use, pending_nonce, resp_buf, resp_event, slot, asked, got, senderVars,
                 answers, spent, unanswered, reached, discarded>>

\* Whatever answer the listener signals is the SETUP's acknowledgement.
SetupAcknowledged ==
  LET s == slot[Main] IN
  /\ pc[Main] = "setup_wait" /\ resp_event[s]
  /\ TakeBuffer(s)
  /\ attempt' = 0
  /\ IF s + 1 \in Slots
       THEN slot' = [slot EXCEPT ![Main] = s + 1] /\ Goto(Main, "setup")
       ELSE slot' = [slot EXCEPT ![Main] = 0] /\ Goto(Main, "idle")
  /\ UNCHANGED <<build, in_use, pending_nonce, ret_ctr, asked, got, round, listing, entry, owned,
                 puts, beats, netVars, reached, discarded>>

\* No acknowledgement: one more attempt, then the program exits.
SetupTimeout ==
  /\ pc[Main] = "setup_wait" /\ ~resp_event[slot[Main]]
  /\ IF attempt = 0 THEN Goto(Main, "setup") ELSE Goto(Main, "exited")
  /\ attempt' = 1
  /\ UNCHANGED <<build, slotVars, slot, asked, got, round, listing, entry, owned, puts, beats,
                 netVars, reached, discarded>>

Started == pc[Main] \notin {"setup", "setup_wait", "exited"}
-----------------------------------------------------------------------------
(* One request of a thread                                                 *)

FreeSlots == {s \in Slots : ~in_use[s]}

\* The first free slot; without one the thread polls again.
acquire_slot(s) ==
  /\ s \in FreeSlots /\ \A i \in FreeSlots : s <= i
  /\ in_use' = [in_use EXCEPT ![s] = TRUE]

\* The wire key is cut at its first '#'.
content_key(w) == SubSeq(w, 1, 1)

AppRequest(t, s, n) ==
  [slot |-> s, ret |-> ret_ctr[s], nonce |-> n, kind |-> Kind(t),
   wire |-> IF t \in Workers THEN entry[t] ELSE Nothing,
   key  |-> IF t \in Workers THEN content_key(entry[t]) ELSE Nothing]

\* The header is made and a nonce drawn at random; then the packet leaves, or
\* the connection to the first hop fails.
send_app_request(t, s) ==
  /\ ret_ctr' = [ret_ctr EXCEPT ![s] = @ + 1]
  /\ \E n \in Nonces :
       /\ pending_nonce' = [pending_nonce EXCEPT ![s] = n]
       /\ \/ Post(AppRequest(t, s, n)) /\ Goto(t, "wait")
          \/ build = "base" /\ Goto(t, "release") /\ UNCHANGED <<mailbox, requests>>

\* A thread gets a slot and sends; it alone uses the slot until it releases it.
Ask(t) ==
  /\ pc[t] = "acquire"
  /\ \E s \in Slots :
       /\ acquire_slot(s) /\ send_app_request(t, s)
       /\ slot' = [slot EXCEPT ![t] = s] /\ asked' = [asked EXCEPT ![t] = ret_ctr[s]]
  /\ UNCHANGED <<build, resp_buf, resp_event, got, senderVars, answers, spent, unanswered,
                 reached, discarded>>

\* sender_wait_response(): the event wakes the thread.
Wake(t) ==
  /\ pc[t] = "wait" /\ WaitForEvent(slot[t])
  /\ Goto(t, "woken")
  /\ UNCHANGED <<build, in_use, pending_nonce, resp_buf, ret_ctr, slot, asked, got, senderVars,
                 netVars, reached, discarded>>

\* Faulty: any answer of the slot will do.
AnyAnswer(a, n) == a # Nothing

Matches(a, n) == a # Nothing /\ a.to.nonce = n

\* Under resp_lock the buffer is copied; an answer with another nonce is
\* thrown away and the wait goes on.
TakeResponse(t) ==
  LET s == slot[t] IN
  /\ pc[t] = "woken"
  /\ TakeBuffer(s)
  /\ IF Matches(resp_buf[s], pending_nonce[s])
       THEN /\ got' = [got EXCEPT ![t] = resp_buf[s]]
            /\ Goto(t, "release") /\ UNCHANGED discarded
       ELSE Goto(t, "again") /\ discarded' = discarded \cup {t} /\ UNCHANGED got
  /\ UNCHANGED <<build, in_use, pending_nonce, ret_ctr, slot, asked, senderVars, netVars, reached>>

\* After a foreign answer the deadline is looked at before the next wait.
WaitAgain(t) ==
  /\ pc[t] = "again"
  /\ Goto(t, "wait") \/ Goto(t, "release")
  /\ UNCHANGED <<build, slotVars, slot, asked, got, senderVars, netVars, reached, discarded>>

\* Faulty: an event set as the time runs out does not count.
TimeoutRegardless(t) ==
  /\ pc[t] = "wait"
  /\ Goto(t, "release")
  /\ UNCHANGED <<build, slotVars, slot, asked, got, senderVars, netVars, reached, discarded>>

WaitTimeout(t) ==
  /\ pc[t] = "wait" /\ ~resp_event[slot[t]]
  /\ Goto(t, "release")
  /\ UNCHANGED <<build, slotVars, slot, asked, got, senderVars, netVars, reached, discarded>>

\* Faulty: a request without an answer keeps its slot.
ReleaseAnswered(t) ==
  IF got[t] # Nothing THEN in_use' = [in_use EXCEPT ![slot[t]] = FALSE] ELSE UNCHANGED in_use

\* Faulty: the heartbeat does not give its slot back.
KeptByHeart(t) ==
  IF t # Heart THEN in_use' = [in_use EXCEPT ![slot[t]] = FALSE] ELSE UNCHANGED in_use

release_slot(t) == in_use' = [in_use EXCEPT ![slot[t]] = FALSE]
-----------------------------------------------------------------------------
(* What the threads do with it                                             *)

\* remember_owned_key(), then the PUT.
upload_content(k) ==
  /\ pc[Main] = "idle" /\ puts < MaxPuts
  /\ puts' = puts + 1
  /\ owned' = owned \cup {k}
  /\ Goto(Main, "acquire")
  /\ UNCHANGED <<build, slotVars, slot, asked, got, attempt, round, listing, entry, beats, netVars,
                 reached, discarded>>

ForgetCall(t) ==
  /\ slot' = [slot EXCEPT ![t] = 0] /\ asked' = [asked EXCEPT ![t] = 0]
  /\ got' = [got EXCEPT ![t] = Nothing]
  /\ reached' = reached \ {t} /\ discarded' = discarded \ {t}

\* An upload or a response ends with the release of its slot, answered or not.
CallEnds(t) ==
  /\ t # Heart /\ pc[t] = "release"
  /\ release_slot(t)
  /\ Goto(t, "idle")
  /\ ForgetCall(t)
  /\ UNCHANGED <<build, pending_nonce, resp_buf, resp_event, ret_ctr, senderVars, netVars>>

\* heartbeat_thread(): a tick begins.
HeartbeatTick ==
  /\ Started /\ pc[Heart] = "idle" /\ beats < MaxBeats
  /\ beats' = beats + 1 /\ round' = 0
  /\ Goto(Heart, "acquire")
  /\ UNCHANGED <<build, slotVars, slot, asked, got, attempt, listing, entry, owned, puts, netVars,
                 reached, discarded>>

Owned(w) == content_key(w) \in owned

Idle == {w \in Workers : pc[w] = "idle"}

\* The slot is released; then every entry of the answer gets a worker, as far
\* as threads can be made.  A worker of a key not owned ends at once.
HeartbeatAnswered ==
  /\ pc[Heart] = "release"
  /\ release_slot(Heart)
  /\ ForgetCall(Heart)
  /\ IF got[Heart] = Nothing
       THEN Goto(Heart, "idle") /\ UNCHANGED <<listing, entry>>
       ELSE /\ listing' = got[Heart].list
            /\ \E run \in SUBSET got[Heart].list :
               \E f \in [Idle -> run \cup {Nothing}] :
                 /\ \A w \in run : \E x \in Idle : f[x] = w
                 /\ \A x, y \in Idle : x # y /\ f[x] = f[y] => f[x] = Nothing
                 /\ entry' = [w \in Workers |-> IF w \in Idle THEN f[w] ELSE entry[w]]
                 /\ pc' = [t \in Threads |->
                      IF t = Heart THEN "join"
                      ELSE IF t \in Idle /\ f[t] # Nothing /\ Owned(f[t]) THEN "acquire"
                      ELSE pc[t]]
  /\ UNCHANGED <<build, pending_nonce, resp_buf, resp_event, ret_ctr, attempt, round, owned,
                 puts, beats, netVars>>

\* Faulty: a full listing is drained again without end.
DrainOnAndOn ==
  /\ pc[Heart] = "join"
  /\ IF Cardinality(listing) >= LISTING
       THEN Goto(Heart, "acquire") /\ round' = round + 1
       ELSE Goto(Heart, "idle") /\ UNCHANGED round
  /\ entry' = [w \in Workers |-> IF w \in Idle THEN Nothing ELSE entry[w]] /\ listing' = {}
  /\ UNCHANGED <<build, slotVars, slot, asked, got, attempt, owned, puts, beats, netVars,
                 reached, discarded>>

\* The workers are joined: on Windows each for 10 s at most, and one that has
\* no slot or no answer by then goes on alone; on POSIX until they end, as
\* WaitForSingleObject() of posix_compat.h ignores the timeout of a thread.
\* The step may come early, FairSpec asks for it only when all have ended.
\* A full listing is drained again at once.
JoinWorkers ==
  /\ pc[Heart] = "join"
  /\ IF Cardinality(listing) >= LISTING /\ round + 1 < HEARTBEAT_DRAIN_MAX
       THEN Goto(Heart, "acquire") /\ round' = round + 1
       ELSE Goto(Heart, "idle") /\ UNCHANGED round
  /\ entry' = [w \in Workers |-> IF w \in Idle THEN Nothing ELSE entry[w]] /\ listing' = {}
  /\ UNCHANGED <<build, slotVars, slot, asked, got, attempt, owned, puts, beats, netVars,
                 reached, discarded>>

\* outbound_cover_thread() of the "loopix" build sends what is in the mailbox.
DispatchTick ==
  /\ mailbox # Nothing
  /\ requests' = Sent(mailbox) /\ mailbox' = Nothing
  /\ UNCHANGED <<build, slotVars, pc, slot, asked, got, senderVars, answers, spent, unanswered,
                 reached, discarded>>
-----------------------------------------------------------------------------
(* Gateway and cache server (external)                                     *)

Listings == {l \in SUBSET unanswered :
               Cardinality(l) = IF Cardinality(unanswered) < LISTING
                                  THEN Cardinality(unanswered) ELSE LISTING}

\* A second answer under a SETUP's return header is a replay on path B.
Serve(r) ==
  /\ requests' = requests \ {r}
  /\ \E l \in IF r.kind = "HEARTBEAT" THEN Listings ELSE {{}} :
       answers' = IF r.kind = "SETUP" /\ r.slot \in spent THEN answers
                  ELSE answers \cup {[to |-> r, list |-> l]}
  /\ spent' = IF r.kind = "SETUP" THEN spent \cup {r.slot} ELSE spent
  /\ unanswered' = unanswered \ {r.wire}
  /\ UNCHANGED <<build, slotVars, pc, slot, asked, got, senderVars, mailbox, reached, discarded>>
-----------------------------------------------------------------------------
ThreadStep(t) ==
  \/ Ask(t) \/ Wake(t) \/ TakeResponse(t) \/ WaitAgain(t) \/ WaitTimeout(t) \/ CallEnds(t)

MainStep  == send_setup_for_slot \/ SetupAcknowledged \/ SetupTimeout \/ ThreadStep(Main)
HeartStep == ThreadStep(Heart) \/ HeartbeatAnswered \/ JoinWorkers

Next ==
  \/ MainStep \/ HeartStep \/ \E w \in Workers : ThreadStep(w)
  \/ \E k \in Keys : upload_content(k)
  \/ HeartbeatTick
  \/ DispatchTick
  \/ \E a \in answers : response_listener(a)
  \/ \E r \in requests : Serve(r)

Spec == Init /\ [][Next]_vars

\* Every thread runs on, a join only once its workers have ended; nothing is
\* assumed of the network, nor of uploads and ticks.
FairSpec ==
  /\ Spec
  /\ WF_vars(MainStep) /\ WF_vars((pc[Heart] = "join" => Idle = Workers) /\ HeartStep)
  /\ \A w \in Workers : WF_vars(ThreadStep(w))
-----------------------------------------------------------------------------
(* Properties                                                              *)

\* Every variable holds a value of its type.
TypeOK ==
  /\ build \in Builds
  /\ in_use \in [Slots -> BOOLEAN] /\ pending_nonce \in [Slots -> Nonces \cup {Nothing}]
  /\ resp_buf \in [Slots -> Answer \cup {Nothing}] /\ resp_event \in [Slots -> BOOLEAN]
  /\ ret_ctr \in [Slots -> Nat]
  /\ pc \in [Threads -> {"setup", "setup_wait", "exited", "idle", "acquire", "wait",
                          "woken", "again", "release", "join"}]
  /\ slot \in [Threads -> Slots \cup {0}] /\ asked \in [Threads -> Nat]
  /\ got \in [Threads -> Answer \cup {Nothing}]
  /\ attempt \in {0, 1} /\ round \in 0 .. (HEARTBEAT_DRAIN_MAX - 1)
  /\ listing \subseteq Wire /\ entry \in [Workers -> Wire \cup {Nothing}]
  /\ owned \subseteq Keys /\ puts \in 0 .. MaxPuts /\ beats \in 0 .. MaxBeats
  /\ mailbox \in Request \cup {Nothing} /\ requests \subseteq Request /\ answers \subseteq Answer
  /\ spent \subseteq Slots /\ unanswered \subseteq Wire
  /\ reached \subseteq Threads /\ discarded \subseteq Threads

Holds(t, s) == pc[t] \in {"wait", "woken", "again", "release"} /\ slot[t] = s

\* A slot is in use exactly while one thread is between acquire_slot() and
\* release_slot(), on every path out of a request: none leaks, none is shared.
SlotsHeld ==
  \A s \in Slots :
    /\ in_use[s] <=> \E t \in Threads : Holds(t, s)
    /\ \A t, u \in Threads : Holds(t, s) /\ Holds(u, s) => t = u

Own(t, r) == r.ret = asked[t] /\ r.kind = Kind(t)

\* The earlier request r of the slot drew the nonce that t has drawn since.
NonceRepeated(t, r) ==
  r.ret < asked[t] /\ r.kind # "SETUP" /\ r.nonce = pending_nonce[slot[t]]

\* "only accepts a response whose echoed nonce matches" (sender.c:192): the
\* answer a request ends with was given to that request, whatever late
\* answers of earlier requests, or of SETUP, reached its slot.  Two bytes can
\* do no better than with one exception: an earlier request of the very slot
\* drew the same nonce.
AnswerTakenIsOwn ==
  \A t \in Threads : got[t] # Nothing =>
    /\ got[t].to.slot = slot[t]
    /\ Own(t, got[t].to) \/ NonceRepeated(t, got[t].to)

\* The one buffer and its event lose nothing by themselves: a request whose
\* answer reached the listener during its wait ends without an answer only
\* if an answer of an earlier request came into that wait.
MissedOnlyForStale ==
  \A t \in Threads :
    pc[t] = "release" /\ got[t] = Nothing /\ t \in reached => t \in discarded

\* No interleaving of slots, joins and waits blocks a thread for good: each
\* request ends, and so does each heartbeat tick.
RequestsEnd == \A t \in Threads : Started /\ pc[t] # "idle" ~> pc[t] = "idle"
=============================================================================
