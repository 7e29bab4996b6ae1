-------------------------- MODULE SenderSlotsProofs --------------------------
(***************************************************************************)
(* What SenderSlots guarantees for every number of slots, workers, keys,   *)
(* uploads, ticks and messages.                                            *)
(***************************************************************************)
EXTENDS SenderSlots, TLAPS

USE SlotsAssumption

\* A thread between acquire_slot() and release_slot().
Busy(t) == pc[t] \in {"wait", "woken", "again", "release"}

\* Where threads can be: what only the main thread or only the heartbeat does,
\* workers that run on keys they looked up, and nobody but the main thread
\* before all slots are set up.
WorkInv ==
  /\ pc[Main] \in {"setup", "setup_wait"} => slot[Main] \in Slots
  /\ \A t \in Threads : t # Main => pc[t] \notin {"setup", "setup_wait", "exited"}
  /\ \A t \in Threads : t # Heart => pc[t] # "join"
  /\ \A t \in Threads : Busy(t) => slot[t] \in Slots
  /\ \A w \in Workers : pc[w] # "idle" => entry[w] # Nothing /\ Owned(entry[w])
  /\ ~Started => \A t \in Threads : t # Main => pc[t] = "idle"

-----------------------------------------------------------------------------
(* Type correctness                                                        *)

LEMMA ThreadNames == Main # Heart /\ Main \notin Workers /\ Heart \notin Workers
  BY DEF Main, Heart

LEMMA KindNames ==
  ASSUME NEW t \in Threads
  PROVE  /\ Kind(t) \in {"PUT", "HEARTBEAT", "RESPOND"}
         /\ t = Heart => Kind(t) = "HEARTBEAT"
  BY ThreadNames DEF Kind, Threads

\* What a message on its way to the first hop leaves behind.
LEMMA SentType ==
  ASSUME TypeOK, NEW r \in Request
  PROVE  Sent(r) \subseteq Request
  BY DEF TypeOK, Sent

LEMMA PostType ==
  ASSUME TypeOK, NEW r \in Request, Post(r)
  PROVE  requests' \subseteq Request /\ mailbox' \in Request \cup {Nothing}
<1>1. CASE build = "base" \/ r.kind = "SETUP"
  BY <1>1, SentType DEF TypeOK, Post
<1>2. CASE ~(build = "base" \/ r.kind = "SETUP")
  BY <1>2 DEF TypeOK, Post
<1> QED BY <1>1, <1>2

LEMMA SetupRequestType ==
  ASSUME NEW s \in Slots
  PROVE  SetupRequest(s) \in Request
  BY DEF SetupRequest, Request

LEMMA AppRequestType ==
  ASSUME TypeOK, WorkInv, NEW t \in Threads, NEW s \in Slots, NEW n \in Nonces,
         pc[t] = "acquire"
  PROVE  AppRequest(t, s, n) \in Request
<1>1. ret_ctr[s] \in Nat /\ Kind(t) \in {"SETUP", "PUT", "HEARTBEAT", "RESPOND"}
  BY KindNames DEF TypeOK
<1>2. t \in Workers => entry[t] \in Wire /\ content_key(entry[t]) \in Keys
  BY DEF TypeOK, WorkInv, Owned
<1> QED
  BY <1>1, <1>2 DEF AppRequest, Request

LEMMA InitType == Init => TypeOK /\ WorkInv
<1> SUFFICES ASSUME Init PROVE TypeOK /\ WorkInv
  OBVIOUS
<1>1. TypeOK
  BY DEF Init, TypeOK, Slots, Threads
<1>2. WorkInv
  BY ThreadNames DEF Init, WorkInv, Busy, Started, Slots, Threads
<1> QED BY <1>1, <1>2

\* The main thread's startup.
LEMMA SetupType ==
  ASSUME TypeOK, WorkInv, send_setup_for_slot \/ SetupAcknowledged \/ SetupTimeout
  PROVE  TypeOK' /\ WorkInv'
<1> USE ThreadNames DEF Goto, Threads
<1>1. CASE send_setup_for_slot
  <2>1. requests' \subseteq Request /\ mailbox' \in Request \cup {Nothing}
    BY <1>1, SetupRequestType, PostType DEF send_setup_for_slot, WorkInv
  <2>2. TypeOK'
    BY <1>1, <2>1 DEF send_setup_for_slot, TypeOK, senderVars, WorkInv
  <2>3. WorkInv'
    BY <1>1 DEF send_setup_for_slot, TypeOK, senderVars, WorkInv, Busy, Started, Owned
  <2> QED BY <2>2, <2>3
<1>2. CASE SetupAcknowledged
  <2>1. TypeOK'
    BY <1>2 DEF SetupAcknowledged, TakeBuffer, TypeOK, netVars, WorkInv
  <2>2. WorkInv'
    BY <1>2 DEF SetupAcknowledged, TakeBuffer, TypeOK, netVars, WorkInv, Busy, Started, Owned
  <2> QED BY <2>1, <2>2
<1>3. CASE SetupTimeout
  <2>1. TypeOK'
    BY <1>3 DEF SetupTimeout, TypeOK, slotVars, netVars, WorkInv
  <2>2. WorkInv'
    BY <1>3 DEF SetupTimeout, TypeOK, slotVars, netVars, WorkInv, Busy, Started, Owned
  <2> QED BY <2>1, <2>2
<1> QED BY <1>1, <1>2, <1>3

\* The steps of one request, of whichever thread.
LEMMA RequestType ==
  ASSUME TypeOK, WorkInv, NEW t \in Threads, ThreadStep(t)
  PROVE  TypeOK' /\ WorkInv'
<1> USE ThreadNames DEF Goto, Threads
<1>1. CASE Ask(t)
  <2>1. PICK s \in Slots :
          /\ acquire_slot(s) /\ send_app_request(t, s)
          /\ slot' = [slot EXCEPT ![t] = s] /\ asked' = [asked EXCEPT ![t] = ret_ctr[s]]
    BY <1>1 DEF Ask
  <2>2. PICK n \in Nonces :
          /\ pending_nonce' = [pending_nonce EXCEPT ![s] = n]
          /\ \/ Post(AppRequest(t, s, n)) /\ Goto(t, "wait")
             \/ build = "base" /\ Goto(t, "release") /\ UNCHANGED <<mailbox, requests>>
    BY <2>1 DEF send_app_request
  <2>3. AppRequest(t, s, n) \in Request
    BY <1>1, AppRequestType DEF Ask
  <2>4. requests' \subseteq Request /\ mailbox' \in Request \cup {Nothing}
    BY <2>2, <2>3, PostType DEF TypeOK
  <2>5. ret_ctr' = [ret_ctr EXCEPT ![s] = @ + 1]
    BY <2>1 DEF send_app_request
  <2>6. TypeOK'
    BY <1>1, <2>1, <2>2, <2>4, <2>5 DEF Ask, acquire_slot, TypeOK, senderVars
  <2>7. WorkInv'
    BY <1>1, <2>1, <2>2 DEF Ask, TypeOK, senderVars, WorkInv, Busy, Started, Owned
  <2> QED BY <2>6, <2>7
<1>2. CASE Wake(t)
  <2>1. TypeOK'
    BY <1>2 DEF Wake, WaitForEvent, TypeOK, senderVars, netVars
  <2>2. WorkInv'
    BY <1>2 DEF Wake, TypeOK, senderVars, WorkInv, Busy, Started, Owned
  <2> QED BY <2>1, <2>2
<1>3. CASE TakeResponse(t)
  <2>1. slot[t] \in Slots
    BY <1>3 DEF TakeResponse, WorkInv, Busy
  <2>2. TypeOK'
    BY <1>3, <2>1, SMTT(60) DEF TakeResponse, TakeBuffer, Matches, TypeOK, senderVars, netVars
  <2>3. WorkInv'
    BY <1>3 DEF TakeResponse, TypeOK, senderVars, WorkInv, Busy, Started, Owned
  <2> QED BY <2>2, <2>3
<1>4. CASE WaitAgain(t) \/ WaitTimeout(t)
  <2>1. TypeOK'
    BY <1>4, SMTT(60) DEF WaitAgain, WaitTimeout, TypeOK, slotVars, senderVars, netVars
  <2>2. WorkInv'
    BY <1>4, SMTT(60) DEF WaitAgain, WaitTimeout, TypeOK, senderVars, WorkInv, Busy, Started, Owned
  <2> QED BY <2>1, <2>2
<1>5. CASE CallEnds(t)
  <2>1. TypeOK'
    BY <1>5 DEF CallEnds, release_slot, ForgetCall, TypeOK, senderVars, netVars
  <2>2. WorkInv'
    BY <1>5 DEF CallEnds, ForgetCall, TypeOK, senderVars, WorkInv, Busy, Started, Owned
  <2> QED BY <2>1, <2>2
<1> QED BY <1>1, <1>2, <1>3, <1>4, <1>5 DEF ThreadStep

\* With the answer to a HEARTBEAT threads without work may get some; the others
\* go on.
LEMMA AnsweredMoves ==
  ASSUME TypeOK, HeartbeatAnswered
  PROVE  /\ pc'[Heart] \in {"idle", "join"}
         /\ \A t \in Threads : t # Heart =>
              \/ pc'[t] = pc[t]
              \/ t \in Workers /\ pc[t] = "idle" /\ pc'[t] = "acquire"
         /\ \A t \in Threads : t # Heart => asked'[t] = asked[t] /\ slot'[t] = slot[t] /\ got'[t] = got[t]
<1>0. Heart \in Threads
  BY DEF Threads
<1>1. CASE got[Heart] = Nothing
  <2>1. pc' = [pc EXCEPT ![Heart] = "idle"] /\ ForgetCall(Heart)
    BY <1>1 DEF HeartbeatAnswered, Goto
  <2>2. pc'[Heart] = "idle" /\ \A t \in Threads : t # Heart => pc'[t] = pc[t]
    BY <1>0, <2>1 DEF TypeOK
  <2> QED BY <2>1, <2>2 DEF ForgetCall, TypeOK
<1>2. CASE got[Heart] # Nothing
  <2>1. ForgetCall(Heart)
    BY <1>2 DEF HeartbeatAnswered
  <2>2. PICK f :
          pc' = [t \in Threads |->
                   IF t = Heart THEN "join"
                   ELSE IF t \in Idle /\ f[t] # Nothing /\ Owned(f[t]) THEN "acquire"
                   ELSE pc[t]]
    BY <1>2 DEF HeartbeatAnswered
  <2>3. pc'[Heart] = "join"
        /\ \A t \in Threads : t # Heart => pc'[t] = pc[t] \/ (t \in Idle /\ pc'[t] = "acquire")
    BY <1>0, <2>2
  <2>4. \A t \in Idle : t \in Workers /\ pc[t] = "idle"
    BY DEF Idle
  <2> QED BY <2>1, <2>3, <2>4 DEF ForgetCall, TypeOK
<1> QED BY <1>1, <1>2

\* Uploads, ticks, the answer to a HEARTBEAT and the joins.
LEMMA HeartType ==
  ASSUME TypeOK, WorkInv,
         \/ \E k \in Keys : upload_content(k)
         \/ HeartbeatTick \/ HeartbeatAnswered \/ JoinWorkers
  PROVE  TypeOK' /\ WorkInv'
<1> USE ThreadNames DEF Goto, Threads
<1>1. CASE \E k \in Keys : upload_content(k)
  <2>1. PICK k \in Keys : upload_content(k)
    BY <1>1
  <2>2. TypeOK'
    BY <2>1 DEF upload_content, TypeOK, slotVars, netVars
  <2>3. WorkInv'
    BY <2>1 DEF upload_content, TypeOK, WorkInv, Busy, Started, Owned
  <2> QED BY <2>2, <2>3
<1>2. CASE HeartbeatTick
  <2>1. TypeOK'
    BY <1>2 DEF HeartbeatTick, TypeOK, slotVars, netVars
  <2>2. WorkInv'
    BY <1>2 DEF HeartbeatTick, TypeOK, WorkInv, Busy, Started, Owned
  <2> QED BY <2>1, <2>2
<1>3. CASE HeartbeatAnswered
  <2>1. Started
    <3>1. pc[Heart] = "release"
      BY <1>3 DEF HeartbeatAnswered
    <3> QED BY <3>1 DEF WorkInv
  <2>2. CASE got[Heart] = Nothing
    <3>1. TypeOK'
      <4>1. /\ in_use' = [in_use EXCEPT ![slot[Heart]] = FALSE]
            /\ slot' = [slot EXCEPT ![Heart] = 0] /\ asked' = [asked EXCEPT ![Heart] = 0]
            /\ got' = [got EXCEPT ![Heart] = Nothing] /\ pc' = [pc EXCEPT ![Heart] = "idle"]
            /\ reached' = reached \ {Heart} /\ discarded' = discarded \ {Heart}
            /\ UNCHANGED <<listing, entry, build, pending_nonce, resp_buf, resp_event, ret_ctr, attempt, round,
                           owned, puts, beats, mailbox, requests, answers, spent, unanswered>>
        BY <1>3, <2>2 DEF HeartbeatAnswered, release_slot, ForgetCall, Goto, netVars
      <4>2. in_use' \in [Slots -> BOOLEAN]
        BY <4>1, Zenon DEF TypeOK
      <4>3. /\ slot' \in [Threads -> Slots \cup {0}] /\ asked' \in [Threads -> Nat]
            /\ got' \in [Threads -> Answer \cup {Nothing}]
        BY <4>1 DEF TypeOK
      <4>4. pc' \in [Threads -> {"setup", "setup_wait", "exited", "idle", "acquire", "wait",
                                "woken", "again", "release", "join"}]
        BY <4>1 DEF TypeOK
      <4> QED BY <4>1, <4>2, <4>3, <4>4 DEF TypeOK
    <3>2. WorkInv'
      <4>1. /\ pc' = [pc EXCEPT ![Heart] = "idle"] /\ UNCHANGED <<entry, owned>>
            /\ slot' = [slot EXCEPT ![Heart] = 0]
        BY <1>3, <2>2 DEF HeartbeatAnswered, ForgetCall
      <4>2. pc'[Heart] = "idle" /\ \A t \in Threads : t # Heart => pc'[t] = pc[t] /\ slot'[t] = slot[t]
        BY <4>1 DEF TypeOK
      <4> QED BY <2>1, <4>1, <4>2 DEF WorkInv, Busy, Started, Owned
    <3> QED BY <3>1, <3>2
  <2>3. CASE got[Heart] # Nothing
    <3>1. got[Heart].list \subseteq Wire
      BY <2>3 DEF TypeOK, Answer
    <3>2. PICK run \in SUBSET got[Heart].list :
            \E f \in [Idle -> run \cup {Nothing}] :
              /\ \A w \in run : \E x \in Idle : f[x] = w
              /\ \A x, y \in Idle : x # y /\ f[x] = f[y] => f[x] = Nothing
              /\ entry' = [w \in Workers |-> IF w \in Idle THEN f[w] ELSE entry[w]]
              /\ pc' = [t \in Threads |->
                   IF t = Heart THEN "join"
                   ELSE IF t \in Idle /\ f[t] # Nothing /\ Owned(f[t]) THEN "acquire"
                   ELSE pc[t]]
      BY <1>3, <2>3, Zenon DEF HeartbeatAnswered
    <3>3. PICK f \in [Idle -> run \cup {Nothing}] :
            /\ entry' = [w \in Workers |-> IF w \in Idle THEN f[w] ELSE entry[w]]
            /\ pc' = [t \in Threads |->
                 IF t = Heart THEN "join"
                 ELSE IF t \in Idle /\ f[t] # Nothing /\ Owned(f[t]) THEN "acquire"
                 ELSE pc[t]]
      BY <3>2, Zenon
    <3>4. entry' \in [Workers -> Wire \cup {Nothing}]
      <4>1. \A w \in Idle : f[w] \in Wire \cup {Nothing}
        BY <3>1, <3>2, <3>3
      <4>2. entry \in [Workers -> Wire \cup {Nothing}]
        BY DEF TypeOK
      <4> QED BY <3>3, <4>1, <4>2
    <3>5. pc' \in [Threads -> {"setup", "setup_wait", "exited", "idle", "acquire", "wait",
                               "woken", "again", "release", "join"}]
      BY <3>3 DEF TypeOK
    <3>6. /\ release_slot(Heart) /\ ForgetCall(Heart) /\ listing' = got[Heart].list
          /\ UNCHANGED <<build, pending_nonce, resp_buf, resp_event, ret_ctr, attempt, round, owned,
                         puts, beats, netVars>>
      BY <1>3, <2>3 DEF HeartbeatAnswered
    <3>7. TypeOK'
      BY <3>1, <3>4, <3>5, <3>6 DEF release_slot, ForgetCall, TypeOK, netVars
    <3>8. WorkInv'
      <4>1. \A w \in Workers : pc'[w] # "idle" => entry'[w] # Nothing /\ Owned(entry'[w])
        BY <3>3, <3>6 DEF WorkInv, Idle, Owned
      <4>2. /\ pc'[Heart] \in {"idle", "join"}
            /\ \A t \in Threads : t # Heart => pc'[t] = pc[t] \/ (t \in Workers /\ pc'[t] = "acquire")
        BY <1>3, AnsweredMoves
      <4>3. \A t \in Threads : t # Heart => slot'[t] = slot[t]
        BY <3>6 DEF ForgetCall, TypeOK
      <4>4. Started'
        BY <2>1, <4>2 DEF Started
      <4>5. /\ pc'[Main] \in {"setup", "setup_wait"} => slot'[Main] \in Slots
            /\ \A t \in Threads : t # Main => pc'[t] \notin {"setup", "setup_wait", "exited"}
            /\ \A t \in Threads : t # Heart => pc'[t] # "join"
        BY <4>2, <4>3 DEF WorkInv
      <4>6. \A t \in Threads : Busy(t)' => slot'[t] \in Slots
        BY <4>2, <4>3 DEF WorkInv, Busy
      <4>7. \A w \in Workers : pc'[w] # "idle" => entry'[w] # Nothing /\ Owned(entry[w])'
        BY <3>6, <4>1 DEF Owned
      <4> QED BY <4>4, <4>5, <4>6, <4>7 DEF WorkInv
    <3> QED BY <3>7, <3>8
  <2> QED BY <2>2, <2>3
<1>4. CASE JoinWorkers
  <2>1. TypeOK'
    BY <1>4 DEF JoinWorkers, TypeOK, slotVars, netVars
  <2>2. WorkInv'
    BY <1>4 DEF JoinWorkers, TypeOK, WorkInv, Busy, Started, Owned, Idle
  <2> QED BY <2>1, <2>2
<1> QED BY <1>1, <1>2, <1>3, <1>4

\* The dispatch clock, the listeners, and what happens outside.
LEMMA OutsideType ==
  ASSUME TypeOK, WorkInv,
         \/ DispatchTick
         \/ \E a \in answers : response_listener(a)
         \/ \E r \in requests : Serve(r)
  PROVE  TypeOK' /\ WorkInv'
<1>1. CASE DispatchTick
  <2>1. requests' \subseteq Request
    BY <1>1, SentType DEF DispatchTick, TypeOK
  <2>2. TypeOK' /\ WorkInv'
    BY <1>1, <2>1 DEF DispatchTick, TypeOK, slotVars, senderVars, WorkInv, Busy, Started, Owned
  <2> QED BY <2>2
<1>2. CASE \E a \in answers : response_listener(a)
  <2>1. PICK a \in answers : response_listener(a)
    BY <1>2
  <2>2. a \in Answer /\ a.to.slot \in Slots
    BY DEF TypeOK, Answer, Request
  <2>3. TypeOK' /\ WorkInv'
    BY <2>1, <2>2 DEF response_listener, TypeOK, senderVars, WorkInv, Busy, Started, Owned
  <2> QED BY <2>3
<1>3. CASE \E r \in requests : Serve(r)
  <2>1. PICK r \in requests : Serve(r)
    BY <1>3
  <2>2. PICK l \in IF r.kind = "HEARTBEAT" THEN Listings ELSE {{}} :
          answers' = IF r.kind = "SETUP" /\ r.slot \in spent THEN answers
                     ELSE answers \cup {[to |-> r, list |-> l]}
    BY <2>1 DEF Serve
  <2>3. [to |-> r, list |-> l] \in Answer /\ r.slot \in Slots
    <3>1. r \in Request /\ unanswered \in SUBSET Wire
      BY DEF TypeOK
    <3>2. l \in SUBSET Wire
      BY <2>2, <3>1 DEF Listings
    <3> QED BY <3>1, <3>2 DEF Answer, Request
  <2>4. TypeOK'
    BY <2>1, <2>2, <2>3 DEF Serve, TypeOK, slotVars, senderVars
  <2>5. WorkInv'
    BY <2>1 DEF Serve, slotVars, senderVars, WorkInv, Busy, Started, Owned
  <2> QED BY <2>4, <2>5
<1> QED BY <1>1, <1>2, <1>3

LEMMA NextType == TypeOK /\ WorkInv /\ [Next]_vars => TypeOK' /\ WorkInv'
<1> SUFFICES ASSUME TypeOK, WorkInv, [Next]_vars PROVE TypeOK' /\ WorkInv'
  OBVIOUS
<1>1. CASE MainStep \/ HeartStep \/ \E w \in Workers : ThreadStep(w)
  BY <1>1, SetupType, RequestType, HeartType DEF MainStep, HeartStep, Threads
<1>2. CASE (\E k \in Keys : upload_content(k)) \/ HeartbeatTick
  BY <1>2, HeartType
<1>3. CASE DispatchTick \/ (\E a \in answers : response_listener(a)) \/ \E r \in requests : Serve(r)
  BY <1>3, OutsideType
<1>4. CASE UNCHANGED vars
  BY <1>4 DEF vars, slotVars, senderVars, netVars, TypeOK, WorkInv, Busy, Started, Owned
<1> QED BY <1>1, <1>2, <1>3, <1>4 DEF Next

\* Every variable of the sender keeps its type, however many slots, workers
\* and messages there are; in particular the drain rounds of a tick stay
\* within HEARTBEAT_DRAIN_MAX.
THEOREM TypeCorrect == Spec => []TypeOK
<1>1. TypeOK /\ WorkInv /\ [Next]_vars => (TypeOK /\ WorkInv)'
  BY NextType
<1> QED BY <1>1, InitType, PTL DEF Spec
-----------------------------------------------------------------------------
(* Slots                                                                   *)

\* A step after which the same threads hold the same slots.
LEMMA SameHolders ==
  ASSUME SlotsHeld, UNCHANGED in_use,
         \A t \in Threads : Busy(t)' <=> Busy(t),
         \A t \in Threads : Busy(t) => slot'[t] = slot[t]
  PROVE  SlotsHeld'
  BY DEF SlotsHeld, Holds, Busy

\* A slot is given back by the one thread that held it.
LEMMA GivenBack ==
  ASSUME SlotsHeld, TypeOK, WorkInv, NEW t \in Threads, Busy(t), release_slot(t), ~Busy(t)',
         \A u \in Threads \ {t} : (Busy(u)' <=> Busy(u)) /\ slot'[u] = slot[u]
  PROVE  SlotsHeld'
<1>1. \A u \in Threads, s \in Slots : Holds(u, s)' <=> Holds(u, s) /\ u # t
  BY DEF Holds, Busy
<1>2. Holds(t, slot[t]) /\ slot[t] \in Slots
  BY DEF Holds, Busy, WorkInv
<1>3. \A s \in Slots : in_use'[s] <=> in_use[s] /\ s # slot[t]
  BY <1>2 DEF release_slot, TypeOK
<1>4. ASSUME NEW s \in Slots
      PROVE  /\ in_use'[s] <=> \E u \in Threads : Holds(u, s)'
             /\ \A u, v \in Threads : Holds(u, s)' /\ Holds(v, s)' => u = v
  <2>1. s # slot[t] => ~Holds(t, s)
    BY DEF Holds
  <2>2. \A u \in Threads : Holds(u, slot[t]) => u = t
    BY <1>2 DEF SlotsHeld
  <2> QED BY <1>1, <1>3, <2>1, <2>2 DEF SlotsHeld
<1> QED BY <1>4 DEF SlotsHeld, Holds

LEMMA AskSlots ==
  ASSUME TypeOK, WorkInv, SlotsHeld, NEW t \in Threads, Ask(t)
  PROVE  SlotsHeld'
<1>1. PICK s \in Slots :
        /\ acquire_slot(s) /\ send_app_request(t, s)
        /\ slot' = [slot EXCEPT ![t] = s] /\ asked' = [asked EXCEPT ![t] = ret_ctr[s]]
  BY DEF Ask
<1>2. \A u \in Threads, i \in Slots : Holds(u, i)' <=> Holds(u, i) \/ (u = t /\ i = s)
  BY <1>1 DEF Ask, send_app_request, Goto, Holds, TypeOK
<1>3. \A u \in Threads : ~Holds(u, s)
  BY <1>1 DEF acquire_slot, FreeSlots, SlotsHeld
<1>4. \A i \in Slots : in_use'[i] <=> in_use[i] \/ i = s
  BY <1>1 DEF acquire_slot, TypeOK
<1>5. ASSUME NEW i \in Slots
      PROVE  /\ in_use'[i] <=> \E u \in Threads : Holds(u, i)'
             /\ \A u, v \in Threads : Holds(u, i)' /\ Holds(v, i)' => u = v
  BY <1>2, <1>3, <1>4 DEF SlotsHeld
<1> QED BY <1>5 DEF SlotsHeld, Holds

LEMMA NextSlots == TypeOK /\ WorkInv /\ SlotsHeld /\ [Next]_vars => SlotsHeld'
<1> SUFFICES ASSUME TypeOK, WorkInv, SlotsHeld, [Next]_vars PROVE SlotsHeld'
  OBVIOUS
<1> USE ThreadNames DEF Threads, Goto
<1>1. CASE send_setup_for_slot \/ SetupAcknowledged \/ SetupTimeout
  BY <1>1, SameHolders
     DEF send_setup_for_slot, SetupAcknowledged, SetupTimeout, slotVars, Busy, TypeOK
<1>2. ASSUME NEW t \in Threads, ThreadStep(t) PROVE SlotsHeld'
  <2>1. CASE Ask(t)
    BY <2>1, AskSlots
  <2>2. CASE Wake(t) \/ TakeResponse(t) \/ WaitAgain(t) \/ WaitTimeout(t)
    <3>1. UNCHANGED <<in_use, slot>> /\ Busy(t) /\ Busy(t)'
      BY <2>2 DEF Wake, TakeResponse, WaitAgain, WaitTimeout, slotVars, Busy, TypeOK
    <3>2. \A u \in Threads : u # t => pc'[u] = pc[u]
      BY <2>2 DEF Wake, TakeResponse, WaitAgain, WaitTimeout, TypeOK
    <3> QED BY <3>1, <3>2, SameHolders DEF Busy
  <2>3. CASE CallEnds(t)
    BY <2>3, GivenBack DEF CallEnds, ForgetCall, Busy, TypeOK
  <2> QED BY <1>2, <2>1, <2>2, <2>3 DEF ThreadStep
<1>3. CASE (\E k \in Keys : upload_content(k)) \/ HeartbeatTick \/ JoinWorkers
  BY <1>3, SameHolders DEF upload_content, HeartbeatTick, JoinWorkers, slotVars, Busy, TypeOK
<1>4. CASE HeartbeatAnswered
  <2>1. pc[Heart] = "release" /\ release_slot(Heart) /\ ForgetCall(Heart)
    BY <1>4 DEF HeartbeatAnswered
  <2>2. pc'[Heart] \in {"idle", "join"}
        /\ \A t \in Threads : t # Heart => pc'[t] = pc[t] \/ (pc[t] = "idle" /\ pc'[t] = "acquire")
    BY <1>4, AnsweredMoves
  <2> QED BY <2>1, <2>2, GivenBack DEF ForgetCall, Busy, TypeOK
<1>5. CASE DispatchTick \/ (\E a \in answers : response_listener(a)) \/ \E r \in requests : Serve(r)
  BY <1>5, SameHolders DEF DispatchTick, response_listener, Serve, slotVars, Busy
<1>6. CASE UNCHANGED vars
  BY <1>6, SameHolders DEF vars, slotVars, Busy
<1> QED BY <1>1, <1>2, <1>3, <1>4, <1>5, <1>6 DEF Next, MainStep, HeartStep

\* No slot leaks and none is shared, on whatever path a request ends.
THEOREM SlotsHeldHolds == Spec => []SlotsHeld
<1>1. Init => SlotsHeld
  BY ThreadNames DEF Init, SlotsHeld, Holds, Threads
<1>2. TypeOK /\ WorkInv /\ SlotsHeld /\ [Next]_vars => (TypeOK /\ WorkInv /\ SlotsHeld)'
  BY NextType, NextSlots
<1> QED BY <1>1, <1>2, InitType, PTL DEF Spec
-----------------------------------------------------------------------------
(* Answers                                                                 *)

\* Requests that can still lead to an answer in a slot's buffer.
Pending(r) ==
  \/ r \in requests
  \/ mailbox # Nothing /\ mailbox = r
  \/ \E a \in answers : a.to = r
  \/ \E s \in Slots : resp_buf[s] # Nothing /\ resp_buf[s].to = r

\* A buffer holds answers for its slot.
BuffersOwn == \A s \in Slots : resp_buf[s] # Nothing => resp_buf[s].to.slot = s

\* A request has a return counter older than the next of its slot, and a nonce;
\* SETUP has no nonce.
Numbered ==
  \A r \in Request : Pending(r) =>
    IF r.kind = "SETUP" THEN r.nonce = Nothing ELSE Started /\ r.ret < ret_ctr[r.slot]

\* While a thread waits its request is the newest of its slot, and the only one
\* with its return counter.
Waiting ==
  \A t \in Threads : Busy(t) =>
    /\ ret_ctr[slot[t]] = asked[t] + 1 /\ pending_nonce[slot[t]] \in Nonces
    /\ \A r \in Request :
         Pending(r) /\ r.kind # "SETUP" /\ r.slot = slot[t] /\ r.ret = asked[t] => r.kind = Kind(t)

\* An answer is kept until its slot is released.
GotAtEnd == \A t \in Threads : got[t] # Nothing => pc[t] = "release"

OwnInv == BuffersOwn /\ Numbered /\ Waiting /\ GotAtEnd /\ AnswerTakenIsOwn

\* Steps that make no request, begin no wait and bring no answer.
LEMMA NothingNew ==
  ASSUME OwnInv, BuffersOwn', Started => Started', UNCHANGED <<ret_ctr, pending_nonce>>,
         \A r \in Request : Pending(r)' => Pending(r),
         \A t \in Threads : Busy(t)' => Busy(t) /\ asked'[t] = asked[t] /\ slot'[t] = slot[t],
         \A t \in Threads : got'[t] # Nothing => /\ got'[t] = got[t] /\ pc'[t] = pc[t]
                                                 /\ asked'[t] = asked[t] /\ slot'[t] = slot[t]
  PROVE  OwnInv'
<1>1. Numbered'
  BY DEF OwnInv, Numbered
<1>2. Waiting'
  BY DEF OwnInv, Waiting, Kind
<1>3. GotAtEnd' /\ AnswerTakenIsOwn'
  BY DEF OwnInv, GotAtEnd, AnswerTakenIsOwn, Own, NonceRepeated, Kind
<1> QED BY <1>1, <1>2, <1>3 DEF OwnInv

LEMMA SetupOwn ==
  ASSUME TypeOK, WorkInv, OwnInv, send_setup_for_slot
  PROVE  OwnInv'
<1> USE ThreadNames DEF Threads, Goto
<1> DEFINE s == slot[Main]
<1>1. s \in Slots /\ ~Started /\ pc[Main] = "setup"
  BY DEF send_setup_for_slot, WorkInv, Started
<1>2. \A t \in Threads : ~Busy(t) /\ ~Busy(t)' /\ got[t] = Nothing /\ got'[t] = Nothing
  BY <1>1 DEF send_setup_for_slot, WorkInv, Busy, OwnInv, GotAtEnd, TypeOK
<1>3. SetupRequest(s) \in Request /\ SetupRequest(s).kind = "SETUP" /\ SetupRequest(s).nonce = Nothing
  BY <1>1, SetupRequestType DEF SetupRequest
<1>4. requests' \subseteq requests \cup {SetupRequest(s)} /\ UNCHANGED <<mailbox, answers, resp_buf>>
  BY <1>3 DEF send_setup_for_slot, Post, Sent
<1>5. \A r \in Request : Pending(r)' => r.kind = "SETUP" /\ r.nonce = Nothing
  BY <1>1, <1>3, <1>4 DEF Pending, OwnInv, Numbered
<1>6. BuffersOwn' /\ Numbered'
  BY <1>4, <1>5 DEF OwnInv, BuffersOwn, Numbered
<1>7. Waiting' /\ GotAtEnd' /\ AnswerTakenIsOwn'
  BY <1>2 DEF Waiting, GotAtEnd, AnswerTakenIsOwn
<1> QED BY <1>6, <1>7 DEF OwnInv

LEMMA AskOwn ==
  ASSUME TypeOK, WorkInv, SlotsHeld, OwnInv, NEW t \in Threads, Ask(t)
  PROVE  OwnInv'
<1> USE ThreadNames DEF Goto
<1>1. PICK s \in Slots :
        /\ acquire_slot(s) /\ send_app_request(t, s)
        /\ slot' = [slot EXCEPT ![t] = s] /\ asked' = [asked EXCEPT ![t] = ret_ctr[s]]
  BY DEF Ask
<1>0. PICK n \in Nonces :
        /\ pending_nonce' = [pending_nonce EXCEPT ![s] = n]
        /\ \/ Post(AppRequest(t, s, n)) /\ Goto(t, "wait")
           \/ build = "base" /\ Goto(t, "release") /\ UNCHANGED <<mailbox, requests>>
  BY <1>1 DEF send_app_request
<1> DEFINE new == AppRequest(t, s, n)
<1>2. /\ new \in Request /\ new.kind = Kind(t) /\ new.kind # "SETUP"
      /\ new.slot = s /\ new.ret = ret_ctr[s]
  BY AppRequestType, KindNames DEF AppRequest, Ask
<1>3. Started /\ Started' /\ pc[t] = "acquire" /\ got[t] = Nothing /\ ~Busy(t)
  BY <1>0, <1>1 DEF Ask, WorkInv, Started, OwnInv, GotAtEnd, Busy, TypeOK, Threads
<1>4. UNCHANGED <<answers, resp_buf, got>>
  BY DEF Ask
<1>5. \A r \in Request : Pending(r)' => Pending(r) \/ r = new
  BY <1>0, <1>4 DEF Post, Sent, Pending
<1>6. ret_ctr' = [ret_ctr EXCEPT ![s] = @ + 1]
  BY <1>1 DEF send_app_request
<1>7. ret_ctr[s] \in Nat /\ ret_ctr'[s] = ret_ctr[s] + 1 /\ pending_nonce'[s] = n
      /\ \A i \in Slots : i # s => ret_ctr'[i] = ret_ctr[i] /\ pending_nonce'[i] = pending_nonce[i]
  BY <1>0, <1>6 DEF TypeOK
<1>8. \A r \in Request : r.slot \in Slots /\ r.ret \in Nat
  BY DEF Request
<1>9. Numbered'
  BY <1>2, <1>3, <1>5, <1>7, <1>8 DEF OwnInv, Numbered
<1>10. ASSUME NEW u \in Threads, Busy(u)'
       PROVE  /\ ret_ctr'[slot'[u]] = asked'[u] + 1 /\ pending_nonce'[slot'[u]] \in Nonces
              /\ \A r \in Request :
                   Pending(r)' /\ r.kind # "SETUP" /\ r.slot = slot'[u] /\ r.ret = asked'[u]
                     => r.kind = Kind(u)
  <2>1. CASE u = t
    <3>1. slot'[u] = s /\ asked'[u] = ret_ctr[s]
      BY <1>1, <2>1 DEF TypeOK
    <3>2. \A r \in Request : Pending(r) /\ r.kind # "SETUP" /\ r.slot = s => r.ret # ret_ctr[s]
      BY <1>7, <1>8 DEF OwnInv, Numbered
    <3> QED BY <1>2, <1>5, <1>7, <2>1, <3>1, <3>2
  <2>2. CASE u # t
    <3>1. Busy(u) /\ slot'[u] = slot[u] /\ asked'[u] = asked[u]
      BY <1>0, <1>1, <1>10, <2>2 DEF Busy, TypeOK
    <3>2. slot[u] \in Slots /\ slot[u] # s
      BY <1>1, <3>1 DEF WorkInv, SlotsHeld, Holds, Busy, acquire_slot, FreeSlots
    <3> QED BY <1>2, <1>5, <1>7, <3>1, <3>2 DEF OwnInv, Waiting
  <2> QED BY <2>1, <2>2
<1>11. Waiting'
  BY <1>10 DEF Waiting, Kind
<1>12. ASSUME NEW u \in Threads, got[u] # Nothing
       PROVE  /\ u # t /\ pc'[u] = pc[u] /\ slot'[u] = slot[u] /\ asked'[u] = asked[u]
              /\ pending_nonce'[slot[u]] = pending_nonce[slot[u]]
  <2>1. u # t /\ pc'[u] = pc[u] /\ slot'[u] = slot[u] /\ asked'[u] = asked[u]
    BY <1>0, <1>1, <1>3, <1>12 DEF TypeOK
  <2>2. Busy(u)
    BY <1>12 DEF OwnInv, GotAtEnd, Busy
  <2>3. slot[u] \in Slots /\ slot[u] # s
    BY <1>1, <2>2 DEF WorkInv, SlotsHeld, Holds, Busy, acquire_slot, FreeSlots
  <2> QED BY <1>7, <2>1, <2>3
<1>13. BuffersOwn' /\ GotAtEnd' /\ AnswerTakenIsOwn'
  BY <1>4, <1>12 DEF OwnInv, BuffersOwn, GotAtEnd, AnswerTakenIsOwn, Own, NonceRepeated, Kind
<1> QED BY <1>9, <1>11, <1>13 DEF OwnInv

LEMMA TakeOwn ==
  ASSUME TypeOK, WorkInv, OwnInv, NEW t \in Threads, TakeResponse(t)
  PROVE  OwnInv'
<1> USE DEF Goto
<1> DEFINE s == slot[t]
<1>1. s \in Slots /\ Busy(t) /\ pc[t] = "woken" /\ got[t] = Nothing
  BY DEF TakeResponse, WorkInv, Busy, OwnInv, GotAtEnd
<1>2. resp_buf' = [resp_buf EXCEPT ![s] = Nothing]
      /\ UNCHANGED <<requests, mailbox, answers, ret_ctr, pending_nonce, slot, asked>>
  BY DEF TakeResponse, TakeBuffer, netVars
<1>3. BuffersOwn' /\ \A r \in Request : Pending(r)' => Pending(r)
  BY <1>1, <1>2 DEF OwnInv, BuffersOwn, Pending, TypeOK
<1>4. Started => Started'
  BY DEF TakeResponse, Started, TypeOK, Threads
<1>5. \A u \in Threads : (Busy(u)' <=> Busy(u)) /\ (u # t => pc'[u] = pc[u] /\ got'[u] = got[u])
  BY <1>1 DEF TakeResponse, Busy, TypeOK
<1>6. CASE Matches(resp_buf[s], pending_nonce[s])
  <2> DEFINE r == resp_buf[s].to
  <2>1. got' = [got EXCEPT ![t] = resp_buf[s]] /\ pc' = [pc EXCEPT ![t] = "release"]
    BY <1>6 DEF TakeResponse
  <2>2. r \in Request /\ Pending(r) /\ r.slot = s /\ r.nonce = pending_nonce[s]
    BY <1>1, <1>6 DEF Matches, Pending, OwnInv, BuffersOwn, TypeOK, Answer
  <2>3. r.kind # "SETUP" /\ r.ret < ret_ctr[s] /\ ret_ctr[s] = asked[t] + 1
    BY <1>1, <2>2 DEF OwnInv, Waiting, Numbered
  <2>4. Own(t, r) \/ NonceRepeated(t, r)
    <3>1. r.ret \in Nat /\ asked[t] \in Nat
      BY <2>2 DEF Request, TypeOK
    <3>2. CASE r.ret = asked[t]
      BY <1>1, <2>2, <2>3, <3>2 DEF OwnInv, Waiting, Own
    <3>3. CASE r.ret # asked[t]
      <4>1. r.ret < asked[t]
        BY <2>3, <3>1, <3>3
      <4> QED BY <2>2, <2>3, <4>1 DEF NonceRepeated
    <3> QED BY <3>2, <3>3
  <2>5. GotAtEnd' /\ AnswerTakenIsOwn'
    <3>1. /\ \A u \in Threads : u # t => got'[u] = got[u] /\ pc'[u] = pc[u]
          /\ got'[t] = resp_buf[s] /\ pc'[t] = "release" /\ resp_buf[s].to.slot = slot'[t]
      BY <1>2, <1>5, <2>1, <2>2 DEF TypeOK
    <3>2. GotAtEnd'
      BY <3>1 DEF OwnInv, GotAtEnd
    <3>3. AnswerTakenIsOwn'
      BY <1>2, <2>4, <3>1 DEF OwnInv, AnswerTakenIsOwn, Own, NonceRepeated, Kind
    <3> QED BY <3>2, <3>3
  <2>6. Numbered' /\ Waiting'
    BY <1>2, <1>3, <1>4, <1>5 DEF OwnInv, Numbered, Waiting, Kind
  <2> QED BY <1>3, <2>5, <2>6 DEF OwnInv
<1>7. CASE ~Matches(resp_buf[s], pending_nonce[s])
  <2>1. UNCHANGED got
    BY <1>7 DEF TakeResponse
  <2> QED BY <1>1, <1>2, <1>3, <1>4, <1>5, <2>1, NothingNew
<1> QED BY <1>6, <1>7

\* The sender's other steps.
LEMMA SenderOwn ==
  ASSUME TypeOK, WorkInv, OwnInv,
         \/ SetupAcknowledged \/ SetupTimeout
         \/ \E t \in Threads : Wake(t) \/ WaitAgain(t) \/ WaitTimeout(t) \/ CallEnds(t)
         \/ \E k \in Keys : upload_content(k)
         \/ HeartbeatTick \/ HeartbeatAnswered \/ JoinWorkers
  PROVE  OwnInv'
<1> USE ThreadNames DEF Goto, Threads
<1>1. CASE SetupAcknowledged
  <2>0. resp_buf' = [resp_buf EXCEPT ![slot[Main]] = Nothing] /\ slot[Main] \in Slots
        /\ UNCHANGED <<requests, mailbox, answers>>
    BY <1>1 DEF SetupAcknowledged, TakeBuffer, netVars, WorkInv
  <2>1. BuffersOwn' /\ \A r \in Request : Pending(r)' => Pending(r)
    BY <2>0 DEF OwnInv, BuffersOwn, Pending, TypeOK
  <2>2. \A t \in Threads : (Busy(t)' => Busy(t) /\ slot'[t] = slot[t])
                           /\ (got[t] # Nothing => pc'[t] = pc[t] /\ slot'[t] = slot[t])
    BY <1>1 DEF SetupAcknowledged, Busy, OwnInv, GotAtEnd, TypeOK
  <2>3. UNCHANGED <<ret_ctr, pending_nonce, asked, got>> /\ ~Started
    BY <1>1 DEF SetupAcknowledged, Started
  <2> QED BY <2>1, <2>2, <2>3, NothingNew
<1>2. CASE ~SetupAcknowledged
  <2>1. UNCHANGED <<resp_buf, ret_ctr, pending_nonce, mailbox, requests, answers>>
    BY <1>2 DEF SetupTimeout, Wake, WaitAgain, WaitTimeout, CallEnds, upload_content, HeartbeatTick,
                HeartbeatAnswered, JoinWorkers, slotVars, netVars
  <2>2. Started => Started'
    BY <1>2 DEF SetupTimeout, Wake, WaitAgain, WaitTimeout, CallEnds, upload_content, HeartbeatTick,
                HeartbeatAnswered, JoinWorkers, Started, TypeOK
  <2>3. BuffersOwn' /\ \A r \in Request : Pending(r)' => Pending(r)
    BY <2>1 DEF OwnInv, BuffersOwn, Pending
  <2>4. CASE HeartbeatAnswered
    <3>1. \A t \in Threads :
            IF t = Heart THEN pc'[t] \in {"idle", "join"}
            ELSE pc'[t] = pc[t] \/ (pc[t] = "idle" /\ pc'[t] = "acquire")
      BY <2>4, AnsweredMoves
    <3>2. \A t \in Threads : t # Heart => asked'[t] = asked[t] /\ slot'[t] = slot[t] /\ got'[t] = got[t]
      BY <2>4, AnsweredMoves
    <3>3. got'[Heart] = Nothing /\ \A t \in Threads : got[t] # Nothing => pc[t] # "idle"
      BY <2>4 DEF HeartbeatAnswered, ForgetCall, OwnInv, GotAtEnd, TypeOK
    <3>5. \A t \in Threads : Busy(t)' => Busy(t) /\ asked'[t] = asked[t] /\ slot'[t] = slot[t]
      BY <3>1, <3>2 DEF Busy
    <3>6. \A t \in Threads : got'[t] # Nothing => /\ got'[t] = got[t] /\ pc'[t] = pc[t]
                                                  /\ asked'[t] = asked[t] /\ slot'[t] = slot[t]
      BY <3>1, <3>2, <3>3
    <3> QED BY <2>1, <2>2, <2>3, <3>5, <3>6, NothingNew
  <2>5. CASE \E t \in Threads : CallEnds(t)
    <3>1. PICK t \in Threads : CallEnds(t)
      BY <2>5
    <3>2. \A u \in Threads : /\ Busy(u)' => Busy(u) /\ u # t
                             /\ u # t => /\ got'[u] = got[u] /\ pc'[u] = pc[u]
                                         /\ asked'[u] = asked[u] /\ slot'[u] = slot[u]
      BY <3>1 DEF CallEnds, ForgetCall, Busy, TypeOK
    <3>3. got'[t] = Nothing
      BY <3>1 DEF CallEnds, ForgetCall, TypeOK
    <3> QED BY <2>1, <2>2, <2>3, <3>2, <3>3, NothingNew
  <2>6. CASE ~HeartbeatAnswered /\ ~\E t \in Threads : CallEnds(t)
    <3>1. UNCHANGED <<asked, got, slot>>
      BY <1>2, <2>6 DEF SetupTimeout, Wake, WaitAgain, WaitTimeout, upload_content, HeartbeatTick,
                        JoinWorkers
    <3>2. \A t \in Threads : (Busy(t)' => Busy(t)) /\ (got[t] # Nothing => pc'[t] = pc[t])
      BY <1>2, <2>6 DEF SetupTimeout, Wake, WaitAgain, WaitTimeout, upload_content, HeartbeatTick,
                        JoinWorkers, Busy, OwnInv, GotAtEnd, TypeOK
    <3> QED BY <2>1, <2>2, <2>3, <3>1, <3>2, NothingNew
  <2> QED BY <2>4, <2>5, <2>6
<1> QED BY <1>1, <1>2

\* Messages on their way: none becomes another.
LEMMA OutsideOwn ==
  ASSUME TypeOK, WorkInv, OwnInv,
         \/ DispatchTick
         \/ \E a \in answers : response_listener(a)
         \/ \E r \in requests : Serve(r)
  PROVE  OwnInv'
<1>1. UNCHANGED <<pc, slot, asked, got, ret_ctr, pending_nonce>>
  BY DEF DispatchTick, response_listener, Serve, slotVars
<1>2. BuffersOwn' /\ \A r \in Request : Pending(r)' => Pending(r)
  <2>1. CASE DispatchTick
    BY <2>1 DEF DispatchTick, Sent, slotVars, OwnInv, BuffersOwn, Pending
  <2>2. CASE \E a \in answers : response_listener(a)
    <3>1. PICK a \in answers : response_listener(a)
      BY <2>2
    <3>2. a.to \in Request /\ a.to.slot \in Slots /\ resp_buf' = [resp_buf EXCEPT ![a.to.slot] = a]
      BY <3>1 DEF response_listener, TypeOK, Answer, Request
    <3>3. BuffersOwn'
      BY <3>2 DEF OwnInv, BuffersOwn, TypeOK
    <3>4. \A r \in Request : Pending(r)' => Pending(r)
      BY <3>1, <3>2 DEF response_listener, Pending, TypeOK
    <3> QED BY <3>3, <3>4
  <2>3. CASE \E r \in requests : Serve(r)
    <3>1. PICK r \in requests : Serve(r)
      BY <2>3
    <3>2. UNCHANGED <<resp_buf, mailbox>> /\ requests' \subseteq requests
          /\ \A a \in answers' : a \in answers \/ a.to = r
      BY <3>1 DEF Serve, slotVars
    <3> QED BY <3>2 DEF OwnInv, BuffersOwn, Pending
  <2> QED BY <2>1, <2>2, <2>3
<1> QED BY <1>1, <1>2, NothingNew DEF Busy, Started

LEMMA NextOwn == TypeOK /\ WorkInv /\ SlotsHeld /\ OwnInv /\ [Next]_vars => OwnInv'
<1> SUFFICES ASSUME TypeOK, WorkInv, SlotsHeld, OwnInv, [Next]_vars PROVE OwnInv'
  OBVIOUS
<1>1. CASE MainStep \/ HeartStep \/ \E w \in Workers : ThreadStep(w)
  <2>1. CASE \E t \in Threads : Ask(t) \/ TakeResponse(t)
    BY <2>1, AskOwn, TakeOwn
  <2>2. CASE ~\E t \in Threads : Ask(t) \/ TakeResponse(t)
    BY <1>1, <2>2, SetupOwn, SenderOwn DEF MainStep, HeartStep, ThreadStep, Threads
  <2> QED BY <2>1, <2>2
<1>2. CASE (\E k \in Keys : upload_content(k)) \/ HeartbeatTick
  BY <1>2, SenderOwn
<1>3. CASE DispatchTick \/ (\E a \in answers : response_listener(a)) \/ \E r \in requests : Serve(r)
  BY <1>3, OutsideOwn
<1>4. CASE UNCHANGED vars
  <2>1. UNCHANGED <<pc, slot, asked, got, ret_ctr, pending_nonce, resp_buf, requests, mailbox, answers>>
    BY <1>4 DEF vars, slotVars, netVars
  <2> QED BY <2>1, NothingNew DEF OwnInv, BuffersOwn, Pending, Busy, Started
<1> QED BY <1>1, <1>2, <1>3, <1>4 DEF Next

\* Whatever late answers come to a slot that another request has acquired
\* since, a request ends with its own answer, or with none, or with that of an
\* earlier request of the slot that drew the same nonce.
THEOREM AnswerTakenIsOwnHolds == Spec => []AnswerTakenIsOwn
<1>1. Init => OwnInv
  BY DEF Init, OwnInv, BuffersOwn, Numbered, Waiting, GotAtEnd, AnswerTakenIsOwn, Pending, Busy
<1>2. Init => SlotsHeld
  BY ThreadNames DEF Init, SlotsHeld, Holds, Threads
<1>3. TypeOK /\ WorkInv /\ SlotsHeld /\ OwnInv /\ [Next]_vars
        => (TypeOK /\ WorkInv /\ SlotsHeld /\ OwnInv)'
  BY NextType, NextSlots, NextOwn
<1>4. OwnInv => AnswerTakenIsOwn
  BY DEF OwnInv
<1> QED BY <1>1, <1>2, <1>3, <1>4, InitType, PTL DEF Spec
-----------------------------------------------------------------------------
(* Answers that came in time                                               *)

\* A thread whose answer has come and that has thrown nothing away still has
\* the event before it, or is awake, or has taken an answer.
InTime ==
  \A t \in Threads :
    /\ t \in reached => Busy(t)
    /\ pc[t] = "again" => t \in discarded
    /\ t \in reached /\ t \notin discarded =>
         /\ pc[t] = "wait" => resp_event[slot[t]]
         /\ pc[t] = "release" => got[t] # Nothing

\* Steps that touch no wait.
LEMMA WaitsAlone ==
  ASSUME InTime, UNCHANGED <<reached, discarded, got>>,
         \A t \in Threads : Busy(t) \/ Busy(t)' => pc'[t] = pc[t] /\ slot'[t] = slot[t],
         \A t \in Threads : Busy(t) => resp_event'[slot[t]] = resp_event[slot[t]]
  PROVE  InTime'
  BY DEF InTime, Busy

\* Steps of one thread t within its wait: no other thread waits for the event
\* that t resets.
LEMMA OneWait ==
  ASSUME InTime, TypeOK, WorkInv, SlotsHeld, NEW t \in Threads, Busy(t),
         UNCHANGED <<slot, reached>>,
         \A s \in Slots : s # slot[t] => resp_event'[s] = resp_event[s],
         \A u \in Threads : u # t => /\ pc'[u] = pc[u] /\ got'[u] = got[u]
                                     /\ u \in discarded' <=> u \in discarded,
         Busy(t)', pc'[t] = "again" => t \in discarded',
         t \in reached /\ t \notin discarded' =>
           /\ pc'[t] = "wait" => resp_event'[slot[t]]
           /\ pc'[t] = "release" => got'[t] # Nothing
  PROVE  InTime'
<1>1. ASSUME NEW u \in Threads, u # t
      PROVE  /\ u \in reached' => Busy(u)'
             /\ pc'[u] = "again" => u \in discarded'
             /\ u \in reached' /\ u \notin discarded' =>
                  /\ pc'[u] = "wait" => resp_event'[slot'[u]]
                  /\ pc'[u] = "release" => got'[u] # Nothing
  <2>1. Busy(u) => slot[u] \in Slots /\ slot[u] # slot[t]
    BY <1>1 DEF WorkInv, SlotsHeld, Holds, Busy
  <2>2. /\ slot'[u] = slot[u] /\ pc'[u] = pc[u] /\ got'[u] = got[u]
        /\ u \in reached' <=> u \in reached
        /\ u \in discarded' <=> u \in discarded
    BY <1>1
  <2>3. Busy(u) => resp_event'[slot[u]] = resp_event[slot[u]]
    BY <2>1
  <2> QED BY <2>2, <2>3 DEF InTime, Busy
<1> QED BY <1>1 DEF InTime, Busy

\* The end of a call: the thread is forgotten.
LEMMA OneEnds ==
  ASSUME InTime, TypeOK, NEW t \in Threads, ForgetCall(t), UNCHANGED resp_event,
         \A u \in Threads : (Busy(u)' => Busy(u) /\ u # t),
         \A u \in Threads : u # t /\ Busy(u) => pc'[u] = pc[u]
  PROVE  InTime'
<1>1. \A u \in Threads : u # t => slot'[u] = slot[u] /\ got'[u] = got[u]
  BY DEF ForgetCall, TypeOK
<1>2. reached' = reached \ {t} /\ discarded' = discarded \ {t}
  BY DEF ForgetCall
<1> QED BY <1>1, <1>2 DEF InTime, Busy

LEMMA ThreadInTime ==
  ASSUME InTime, TypeOK, WorkInv, SlotsHeld, OwnInv, NEW t \in Threads, ThreadStep(t)
  PROVE  InTime'
<1> USE DEF Goto
<1>1. CASE Ask(t)
  <2>1. PICK s \in Slots :
          /\ send_app_request(t, s)
          /\ slot' = [slot EXCEPT ![t] = s]
    BY <1>1 DEF Ask
  <2>2. UNCHANGED <<resp_event, got, reached, discarded>> /\ pc[t] = "acquire"
    BY <1>1 DEF Ask
  <2>3. pc' = [pc EXCEPT ![t] = "wait"] \/ pc' = [pc EXCEPT ![t] = "release"]
    BY <2>1 DEF send_app_request
  <2>4. t \notin reached /\ pc'[t] # "again"
    BY <2>2, <2>3 DEF InTime, Busy, TypeOK
  <2>5. \A u \in Threads : u # t => pc'[u] = pc[u] /\ slot'[u] = slot[u]
    BY <2>1, <2>3 DEF TypeOK
  <2> QED BY <2>2, <2>4, <2>5 DEF InTime, Busy
<1>2. CASE Wake(t)
  <2>1. /\ pc[t] = "wait" /\ pc' = [pc EXCEPT ![t] = "woken"]
        /\ resp_event' = [resp_event EXCEPT ![slot[t]] = FALSE]
        /\ UNCHANGED <<slot, got, reached, discarded>>
    BY <1>2 DEF Wake, WaitForEvent
  <2>2. /\ Busy(t) /\ Busy(t)' /\ pc'[t] = "woken"
        /\ \A u \in Threads : u # t => pc'[u] = pc[u]
        /\ \A s \in Slots : s # slot[t] => resp_event'[s] = resp_event[s]
    BY <2>1 DEF Busy, TypeOK
  <2> QED BY <2>1, <2>2, OneWait
<1>3. CASE TakeResponse(t)
  <2>1. /\ pc[t] = "woken" /\ resp_event' = [resp_event EXCEPT ![slot[t]] = FALSE]
        /\ UNCHANGED <<slot, reached>>
        /\ \/ /\ Matches(resp_buf[slot[t]], pending_nonce[slot[t]])
              /\ got' = [got EXCEPT ![t] = resp_buf[slot[t]]]
              /\ pc' = [pc EXCEPT ![t] = "release"] /\ discarded' = discarded
           \/ /\ pc' = [pc EXCEPT ![t] = "again"]
              /\ discarded' = discarded \cup {t} /\ got' = got
    BY <1>3 DEF TakeResponse, TakeBuffer
  <2>2. /\ Busy(t) /\ Busy(t)'
        /\ pc'[t] = "release" => got'[t] # Nothing
        /\ pc'[t] = "again" => t \in discarded'
        /\ pc'[t] # "wait"
    BY <2>1 DEF Busy, Matches, TypeOK
  <2>3. /\ \A u \in Threads : u # t => /\ pc'[u] = pc[u] /\ got'[u] = got[u]
                                       /\ u \in discarded' <=> u \in discarded
        /\ \A s \in Slots : s # slot[t] => resp_event'[s] = resp_event[s]
    BY <2>1 DEF TypeOK
  <2> QED BY <2>1, <2>2, <2>3, OneWait
<1>4. CASE WaitAgain(t)
  <2>1. /\ pc[t] = "again" /\ UNCHANGED <<slot, reached, discarded, got, resp_event>>
        /\ pc' = [pc EXCEPT ![t] = "wait"] \/ pc' = [pc EXCEPT ![t] = "release"]
    BY <1>4 DEF WaitAgain, slotVars
  <2>2. /\ Busy(t) /\ Busy(t)' /\ pc'[t] # "again" /\ t \in discarded'
        /\ \A u \in Threads : u # t => pc'[u] = pc[u]
    BY <2>1 DEF Busy, TypeOK, InTime
  <2> QED BY <2>1, <2>2, OneWait
<1>5. CASE WaitTimeout(t)
  <2>1. /\ pc[t] = "wait" /\ ~resp_event[slot[t]]
        /\ UNCHANGED <<slot, reached, discarded, got, resp_event>>
        /\ pc' = [pc EXCEPT ![t] = "release"]
    BY <1>5 DEF WaitTimeout, slotVars
  <2>2. /\ Busy(t) /\ Busy(t)' /\ pc'[t] = "release"
        /\ \A u \in Threads : u # t => pc'[u] = pc[u]
        /\ t \in reached => t \in discarded
    BY <2>1 DEF Busy, TypeOK, InTime
  <2> QED BY <2>1, <2>2, OneWait
<1>6. CASE CallEnds(t)
  <2>1. ForgetCall(t) /\ UNCHANGED resp_event /\ pc' = [pc EXCEPT ![t] = "idle"]
    BY <1>6 DEF CallEnds
  <2>2. \A u \in Threads : /\ Busy(u)' => Busy(u) /\ u # t
                           /\ u # t => pc'[u] = pc[u]
    BY <2>1 DEF Busy, TypeOK
  <2> QED BY <2>1, <2>2, OneEnds
<1> QED BY <1>1, <1>2, <1>3, <1>4, <1>5, <1>6 DEF ThreadStep

\* Startup, uploads, ticks and joins.
LEMMA OthersInTime ==
  ASSUME InTime, TypeOK, WorkInv, SlotsHeld, OwnInv,
         \/ send_setup_for_slot \/ SetupAcknowledged \/ SetupTimeout
         \/ \E k \in Keys : upload_content(k)
         \/ HeartbeatTick \/ HeartbeatAnswered \/ JoinWorkers
  PROVE  InTime'
<1> USE ThreadNames DEF Goto, Threads
<1>1. CASE send_setup_for_slot \/ SetupAcknowledged \/ SetupTimeout
  <2>1. UNCHANGED <<reached, discarded, got>>
    BY <1>1 DEF send_setup_for_slot, SetupAcknowledged, SetupTimeout
  <2>2. \A t \in Threads : ~Busy(t) /\ ~Busy(t)'
    BY <1>1 DEF send_setup_for_slot, SetupAcknowledged, SetupTimeout, WorkInv, Started, Busy, TypeOK
  <2> QED BY <2>1, <2>2, WaitsAlone
<1>2. CASE (\E k \in Keys : upload_content(k)) \/ HeartbeatTick \/ JoinWorkers
  <2>1. UNCHANGED <<reached, discarded, got, slot, resp_event>>
    BY <1>2 DEF upload_content, HeartbeatTick, JoinWorkers, slotVars
  <2>2. \A t \in Threads : Busy(t) \/ Busy(t)' => pc'[t] = pc[t]
    BY <1>2 DEF upload_content, HeartbeatTick, JoinWorkers, Busy, TypeOK
  <2> QED BY <2>1, <2>2, WaitsAlone
<1>3. CASE HeartbeatAnswered
  <2>1. ForgetCall(Heart) /\ UNCHANGED resp_event
    BY <1>3 DEF HeartbeatAnswered
  <2>2. \A t \in Threads :
          IF t = Heart THEN pc'[t] \in {"idle", "join"}
          ELSE pc'[t] = pc[t] \/ (pc[t] = "idle" /\ pc'[t] = "acquire")
    BY <1>3, AnsweredMoves
  <2>3. \A u \in Threads : /\ Busy(u)' => Busy(u) /\ u # Heart
                           /\ u # Heart /\ Busy(u) => pc'[u] = pc[u]
    BY <2>2 DEF Busy
  <2> QED BY <2>1, <2>3, OneEnds
<1> QED BY <1>1, <1>2, <1>3

\* The listener sets the event with the answer.
LEMMA ListenerInTime ==
  ASSUME InTime, TypeOK, WorkInv, NEW a \in answers, response_listener(a)
  PROVE  InTime'
<1> DEFINE s == a.to.slot
<1>1. s \in Slots
  BY DEF TypeOK, Answer, Request
<1>2. /\ resp_event' = [resp_event EXCEPT ![s] = TRUE]
      /\ UNCHANGED <<pc, slot, got, discarded>>
      /\ \A t \in Threads : t \in reached' /\ t \notin reached =>
           pc[t] \in {"wait", "woken", "again"} /\ slot[t] = s
  BY DEF response_listener
<1>3. \A i \in Slots : resp_event[i] => resp_event'[i]
  BY <1>1, <1>2 DEF TypeOK
<1>4. ASSUME NEW t \in Threads, t \in reached'
      PROVE  Busy(t)' /\ (t \notin discarded' =>
               /\ pc'[t] = "wait" => resp_event'[slot'[t]]
               /\ pc'[t] = "release" => got'[t] # Nothing)
  <2>1. CASE t \in reached
    BY <1>2, <1>3, <2>1 DEF InTime, Busy, WorkInv
  <2>2. CASE t \notin reached
    BY <1>1, <1>2, <1>4, <2>2 DEF Busy, TypeOK
  <2> QED BY <2>1, <2>2
<1> QED BY <1>2, <1>4 DEF InTime

LEMMA NextInTime ==
  TypeOK /\ WorkInv /\ SlotsHeld /\ OwnInv /\ InTime /\ [Next]_vars => InTime'
<1> SUFFICES ASSUME TypeOK, WorkInv, SlotsHeld, OwnInv, InTime, [Next]_vars PROVE InTime'
  OBVIOUS
<1>1. CASE MainStep \/ HeartStep \/ \E w \in Workers : ThreadStep(w)
  BY <1>1, ThreadInTime, OthersInTime DEF MainStep, HeartStep, Threads
<1>2. CASE (\E k \in Keys : upload_content(k)) \/ HeartbeatTick
  BY <1>2, OthersInTime
<1>3. CASE \E a \in answers : response_listener(a)
  BY <1>3, ListenerInTime
<1>4. CASE DispatchTick \/ (\E r \in requests : Serve(r)) \/ UNCHANGED vars
  <2>1. UNCHANGED <<pc, slot, got, resp_event, reached, discarded>>
    BY <1>4 DEF DispatchTick, Serve, vars, slotVars
  <2> QED BY <2>1, WaitsAlone DEF Busy
<1> QED BY <1>1, <1>2, <1>3, <1>4 DEF Next

\* The event is set with the answer, and only the thread that holds the slot
\* resets it: a request misses an answer that came in time only by having
\* thrown another one away.
THEOREM MissedOnlyForStaleHolds == Spec => []MissedOnlyForStale
<1>1. Init => OwnInv /\ InTime
  BY DEF Init, OwnInv, BuffersOwn, Numbered, Waiting, GotAtEnd, AnswerTakenIsOwn, Pending, Busy, InTime
<1>2. Init => SlotsHeld
  BY ThreadNames DEF Init, SlotsHeld, Holds, Threads
<1>3. TypeOK /\ WorkInv /\ SlotsHeld /\ OwnInv /\ InTime /\ [Next]_vars
        => (TypeOK /\ WorkInv /\ SlotsHeld /\ OwnInv /\ InTime)'
  BY NextType, NextSlots, NextOwn, NextInTime
<1>4. InTime => MissedOnlyForStale
  BY DEF InTime, MissedOnlyForStale
<1> QED BY <1>1, <1>2, <1>3, <1>4, InitType, PTL DEF Spec
=============================================================================
