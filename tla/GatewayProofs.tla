---------------------------- MODULE GatewayProofs ----------------------------
(***************************************************************************)
(* What ServiceGateway guarantees for every number of threads, slots,      *)
(* clients and packets, and for every size of the mailboxes.               *)
(***************************************************************************)
EXTENDS ServiceGateway, FiniteSetTheorems, WellFoundedInduction, TLAPS

USE GatewayAssumption

\* A thread past find_a_session(): its A slot is pinned, and its B slot once
\* it has one.
Active(t) == pc[t] \notin {"idle", "candidate"}

\* A thread at work has a packet and the slot that may own it; until a B slot
\* is found it has none, and the tag is only verified with one.
JobInv == \A t \in Workers :
  /\ pc[t] # "idle" => job[t] \in Job
  /\ pc[t] \in {"candidate", "pinned", "find_b", "unset"} => job[t].b = NoSlot
  /\ pc[t] = "verify" => job[t].b # NoSlot

\* A pinned slot still holds the session it was pinned for.
PinnedInv == \A t \in Workers : Active(t) =>
  /\ in_use[job[t].a] /\ owner[job[t].a] = job[t].sess
  /\ job[t].b # NoSlot => in_use[job[t].b] /\ owner[job[t].b] \in BSessions

PinInv == TypeOK /\ JobInv /\ PinsCounted /\ PinnedInv

-----------------------------------------------------------------------------
(* Slots and sets                                                          *)

LEMMA SlotNumbers == Slots \subseteq Nat /\ NoSlot \notin Slots
  BY DEF Slots, NoSlot

LEMMA WorkersFinite == IsFiniteSet(Workers)
  BY FS_AddElement DEF Workers

LEMMA Smallest ==
  ASSUME NEW S, S \subseteq Nat, S # {}
  PROVE  \E x \in S : \A y \in S : x <= y
<1> DEFINE R == {p \in Nat \X Nat : p[1] < p[2]}
<1>1. IsWellFoundedOn(R, Nat)
  BY NatLessThanWellFounded, Zenon DEF OpToRel
<1>2. \A x, y \in S : y < x => <<y, x>> \in R
  OBVIOUS
<1> HIDE DEF R
<1>3. \E x \in S : \A y \in S : <<y, x>> \notin R
  BY <1>1, WFMin
<1>4. PICK x \in S : \A y \in S : ~(y < x)
  BY <1>2, <1>3
<1>5. \A y \in S : x <= y
  BY <1>4
<1> QED BY <1>5

\* find_verified_b() returns a slot in use by the client's B session, if any.
LEMMA VerifiedSlot ==
  ASSUME NEW a, find_verified_b(a) # NoSlot
  PROVE  find_verified_b(a) \in Verified(a)
<1>1. Verified(a) # {} /\ Verified(a) \subseteq Nat
  BY SlotNumbers DEF find_verified_b, Verified
<1>2. \E j \in Verified(a) : \A k \in Verified(a) : j <= k
  BY <1>1, Smallest
<1> QED BY <1>1, <1>2 DEF find_verified_b

\* find_b_for_a() returns a slot in use by some B session.
LEMMA BoundSlot ==
  ASSUME NEW i \in Slots, BoundB(i) # NoSlot
  PROVE  BoundB(i) \in Slots /\ in_use[BoundB(i)] /\ owner[BoundB(i)] \in BSessions
<1> DEFINE b == bound_b_idx[i]
<1>1. CASE b \in Slots /\ in_use[b] /\ owner[b] \in BSessions
  BY <1>1 DEF BoundB
<1>2. CASE ~(b \in Slots /\ in_use[b] /\ owner[b] \in BSessions)
  <2>1. BoundB(i) = find_verified_b(owner[i])
    BY <1>2 DEF BoundB
  <2>2. BoundB(i) \in Verified(owner[i])
    BY <2>1, VerifiedSlot
  <2> QED BY <2>2 DEF Verified
<1> QED BY <1>1, <1>2

-----------------------------------------------------------------------------
(* Pins                                                                    *)

\* A slot without pins is held by no thread.
LEMMA HeldIsPinned ==
  ASSUME PinsCounted, NEW t \in Workers, NEW i \in Slots, Holds(t, i)
  PROVE  in_flight[i] \in Nat /\ in_flight[i] > 0
<1> DEFINE H == {u \in Workers : Holds(u, i)}
<1>1. IsFiniteSet(H) /\ H # {}
  BY WorkersFinite, FS_Subset
<1>2. Cardinality(H) \in Nat /\ Cardinality(H) # 0
  BY <1>1, FS_CardinalityType, FS_EmptySet
<1> QED BY <1>2 DEF PinsCounted

\* One thread's step counts right when it adds one to each slot it comes to
\* hold and takes one from each slot it gives up.
LEMMA OneCounts ==
  ASSUME PinsCounted, NEW t \in Workers,
         \A u \in Workers : u # t => pc'[u] = pc[u] /\ job'[u] = job[u],
         NEW i \in Slots,
         \/ (Holds(t, i)' <=> Holds(t, i)) /\ in_flight'[i] = in_flight[i]
         \/ Holds(t, i)' /\ ~Holds(t, i) /\ in_flight'[i] = in_flight[i] + 1
         \/ ~Holds(t, i)' /\ Holds(t, i) /\ in_flight'[i] = in_flight[i] - 1
  PROVE  in_flight'[i] = Cardinality({u \in Workers : Holds(u, i)})'
<1> DEFINE H == {u \in Workers : Holds(u, i)}
           G == {u \in Workers : Holds(u, i)'}
<1>1. IsFiniteSet(H) /\ Cardinality(H) \in Nat /\ in_flight[i] = Cardinality(H)
  BY WorkersFinite, FS_Subset, FS_CardinalityType DEF PinsCounted
<1>2. \A u \in Workers : u # t => (Holds(u, i)' <=> Holds(u, i))
  BY DEF Holds
<1>3. CASE (Holds(t, i)' <=> Holds(t, i)) /\ in_flight'[i] = in_flight[i]
  <2>1. G = H
    BY <1>2, <1>3
  <2> QED BY <1>1, <1>3, <2>1
<1>4. CASE Holds(t, i)' /\ ~Holds(t, i) /\ in_flight'[i] = in_flight[i] + 1
  <2>1. G = H \cup {t} /\ t \notin H
    BY <1>2, <1>4
  <2>2. Cardinality(H \cup {t}) = Cardinality(H) + 1
    <3> HIDE DEF H
    <3> QED BY <1>1, <2>1, FS_AddElement
  <2> QED BY <1>1, <1>4, <2>1, <2>2
<1>5. CASE ~Holds(t, i)' /\ Holds(t, i) /\ in_flight'[i] = in_flight[i] - 1
  <2>1. G = H \ {t} /\ t \in H
    BY <1>2, <1>5
  <2>2. Cardinality(H \ {t}) = Cardinality(H) - 1
    <3> HIDE DEF H
    <3> QED BY <1>1, <2>1, FS_RemoveElement
  <2> QED BY <1>1, <1>5, <2>1, <2>2
<1> QED BY <1>3, <1>4, <1>5

-----------------------------------------------------------------------------
(* Type correctness                                                        *)

LEMMA JobFields ==
  ASSUME NEW j \in Job
  PROVE  /\ j.sess \in ASessions /\ j.a \in Slots /\ j.b \in Slots \cup {NoSlot} /\ j.n \in Nat
         /\ j.kind \in Kind \cup {"flush"} /\ j.out \in Out \cup {NoOut} /\ j.out.n \in Nat
         /\ \A b \in Slots \cup {NoSlot} : [j EXCEPT !.b = b] \in Job
         /\ \A o \in Out : [j EXCEPT !.out = o] \in Job
  BY DEF Job, Out, NoOut

LEMMA InitType == Init => TypeOK
<1> SUFFICES ASSUME Init PROVE TypeOK
  OBVIOUS
<1>1. in_use \in [Slots -> BOOLEAN] /\ owner \in [Slots -> Sessions \cup {NoSession}]
      /\ last_active_ms \in [Slots -> 0 .. (TICK_MOD - 1)] /\ in_flight \in [Slots -> Nat]
      /\ now \in 0 .. (TICK_MOD - 1)
  BY DEF Init
<1>2. routed \in [Slots -> BOOLEAN] /\ setup_done \in [Slots -> BOOLEAN]
      /\ bound_b_idx \in [Slots -> Slots \cup {NoSlot}] /\ b_key \in [Slots -> BSessions \cup {NoSession}]
  BY DEF Init, Slots
<1>3. /\ pending \in [Slots -> Seq(Entry)]
      /\ \A i \in Slots : Len(pending[i]) <= PENDING_RESP_QUEUE /\ pending[i] = <<>>
  BY DEF Init
<1>4. /\ pc \in [Workers -> {"idle", "candidate", "pinned", "find_b", "unset", "verify",
                             "pop", "serve", "dispatch", "unpin"}]
      /\ job \in [Workers -> Job \cup {NoJob}]
  BY DEF Init
<1>5. /\ opened \in [Sessions -> {"no", "open", "failed"}] /\ ready \in [ASessions -> BOOLEAN]
      /\ sent \in [ASessions -> [Kind -> Nat]] /\ net \subseteq Packet
      /\ queued \in [ASessions -> Seq(Nat)] /\ left \in [ASessions -> Seq(Nat)]
      /\ lost \subseteq ASessions \X Nat
  BY DEF Init
<1> QED BY <1>1, <1>2, <1>3, <1>4, <1>5 DEF TypeOK

\* A thread's step that leaves the table, the mailboxes and the clients alone.
LEMMA StepType ==
  ASSUME TypeOK, NEW t \in Workers,
         NEW l \in {"idle", "candidate", "pinned", "find_b", "unset", "verify",
                    "pop", "serve", "dispatch", "unpin"},
         NEW j \in Job \cup {NoJob},
         pc' = [pc EXCEPT ![t] = l], job' = [job EXCEPT ![t] = j]
  PROVE  /\ pc' \in [Workers -> {"idle", "candidate", "pinned", "find_b", "unset", "verify",
                                 "pop", "serve", "dispatch", "unpin"}]
         /\ job' \in [Workers -> Job \cup {NoJob}]
  BY DEF TypeOK

LEMMA PinType ==
  ASSUME TypeOK, NEW i \in Slots
  PROVE  [in_flight EXCEPT ![i] = @ + 1] \in [Slots -> Nat]
  BY DEF TypeOK

\* Taking the oldest reply out of a mailbox, or putting one in.
LEMMA BoxType ==
  ASSUME NEW q \in Seq(Entry), Len(q) <= PENDING_RESP_QUEUE, NEW e \in Entry
  PROVE  /\ q # <<>> => /\ Head(q) \in Entry /\ Tail(q) \in Seq(Entry)
                        /\ Len(Tail(q)) < PENDING_RESP_QUEUE /\ Len(Tail(q)) = Len(q) - 1
         /\ Len(q) < PENDING_RESP_QUEUE => /\ Append(q, e) \in Seq(Entry)
                                           /\ Len(Append(q, e)) <= PENDING_RESP_QUEUE
<1>1. PENDING_RESP_QUEUE \in Nat \ {0}
  OBVIOUS
<1>2. q # <<>> => /\ Head(q) \in Entry /\ Tail(q) \in Seq(Entry) /\ Len(Tail(q)) = Len(q) - 1
                  /\ Len(q) \in Nat
  OBVIOUS
<1>3. Append(q, e) \in Seq(Entry) /\ Len(Append(q, e)) = Len(q) + 1 /\ Len(q) \in Nat
  OBVIOUS
<1> HIDE DEF Entry
<1> QED BY <1>1, <1>2, <1>3
\* Steps before a B slot is looked for.
LEMMA FrontType ==
  ASSUME PinInv, NEW t \in Workers,
         \/ Snapshot(t) \/ NoCandidate(t) \/ find_a_session(t) \/ CheckSetup(t) \/ SetupWrite(t)
  PROVE  TypeOK'
<1> USE DEF PinInv, Goto, Finish
<1>1. ASSUME Snapshot(t) PROVE TypeOK'
  <2>1. PICK p \in net, i \in Slots :
          /\ net' = net \ {p}
          /\ job' = [job EXCEPT ![t] = [sess |-> p.sess, kind |-> p.kind, n |-> p.n,
                                        a |-> i, b |-> NoSlot, out |-> NoOut]]
    BY <1>1 DEF Snapshot
  <2>2. [sess |-> p.sess, kind |-> p.kind, n |-> p.n, a |-> i, b |-> NoSlot, out |-> NoOut] \in Job
    BY DEF TypeOK, Packet, Job
  <2>3. pc' = [pc EXCEPT ![t] = "candidate"]
    BY <1>1 DEF Snapshot
  <2> QED BY <1>1, <2>1, <2>2, <2>3, StepType
          DEF TypeOK, Snapshot, slotVars, setupVars, history
<1>2. ASSUME NoCandidate(t) PROVE TypeOK'
  BY <1>2 DEF TypeOK, NoCandidate, slotVars, setupVars, history
<1>3. ASSUME find_a_session(t) PROVE TypeOK'
  <2>1. job[t] \in Job /\ job[t].a \in Slots
    BY <1>3, JobFields DEF JobInv, find_a_session
  <2>2. UNCHANGED <<slotVars, pending, now, clientVars, history>>
        /\ last_active_ms' \in [Slots -> 0 .. (TICK_MOD - 1)] /\ in_flight' \in [Slots -> Nat]
    <3>1. \/ in_flight' = in_flight /\ last_active_ms' = last_active_ms
          \/ in_flight' = [in_flight EXCEPT ![job[t].a] = @ + 1]
             /\ last_active_ms' = [last_active_ms EXCEPT ![job[t].a] = now]
      BY <1>3 DEF find_a_session
    <3>2. in_flight' \in [Slots -> Nat]
      <4>1. [in_flight EXCEPT ![job[t].a] = @ + 1] \in [Slots -> Nat]
        BY <2>1, PinType
      <4> QED BY <3>1, <4>1 DEF TypeOK
    <3>3. last_active_ms' \in [Slots -> 0 .. (TICK_MOD - 1)]
      <4>1. last_active_ms \in [Slots -> 0 .. (TICK_MOD - 1)] /\ now \in 0 .. (TICK_MOD - 1)
        BY DEF TypeOK
      <4> QED BY ONLY <2>1, <3>1, <4>1
    <3>4. UNCHANGED <<slotVars, pending, now, clientVars, history>>
      BY <1>3 DEF find_a_session
    <3> QED BY <3>2, <3>3, <3>4
  <2>3. CASE Accepts(job[t])
    <3>1. pc' = [pc EXCEPT ![t] = "pinned"] /\ job' = [job EXCEPT ![t] = job[t]]
      BY <1>3, <2>3 DEF TypeOK, find_a_session
    <3> QED BY <2>1, <2>2, <3>1, StepType DEF TypeOK, slotVars, setupVars, clientVars, history
  <2>4. CASE ~Accepts(job[t])
    <3>1. pc' = [pc EXCEPT ![t] = "idle"] /\ job' = [job EXCEPT ![t] = NoJob]
      BY <1>3, <2>4 DEF find_a_session
    <3> QED BY <2>2, <3>1, StepType DEF TypeOK, slotVars, setupVars, clientVars, history
  <2> QED BY <2>3, <2>4
<1>4. ASSUME CheckSetup(t) PROVE TypeOK'
  BY <1>4 DEF TypeOK, CheckSetup, slotVars, setupVars, clientVars, history
<1>5. ASSUME SetupWrite(t) PROVE TypeOK'
  BY <1>5 DEF TypeOK, SetupWrite, clientVars, history
<1> QED BY <1>1, <1>2, <1>3, <1>4, <1>5

\* Steps that find the B slot and commit a pairing.
LEMMA PairType ==
  ASSUME PinInv, NEW t \in Workers,
         \/ find_b_for_a(t) \/ NoB(t) \/ ClearSetup(t) \/ CommitSetup(t) \/ TagMismatch(t)
  PROVE  TypeOK'
<1> USE DEF PinInv, Goto
<1>1. job[t] \in Job /\ job[t].a \in Slots
  BY JobFields DEF JobInv, find_b_for_a, NoB, ClearSetup, CommitSetup, TagMismatch
<1>2. ASSUME find_b_for_a(t) PROVE TypeOK'
  <2> DEFINE b == BoundB(job[t].a)
  <2>1. b \in Slots
    BY <1>1, <1>2, BoundSlot DEF find_b_for_a
  <2>2. in_flight' = [in_flight EXCEPT ![b] = @ + 1] /\ job' = [job EXCEPT ![t] = [job[t] EXCEPT !.b = b]]
    BY <1>2 DEF find_b_for_a
  <2>3. pc' = [pc EXCEPT ![t] = AfterFindB(job[t].kind)]
    BY <1>2 DEF find_b_for_a
  <2>4. AfterFindB(job[t].kind) \in {"pop", "verify", "serve", "dispatch"}
    BY <1>1, JobFields DEF AfterFindB, Kind
  <2>5. UNCHANGED <<slotVars, last_active_ms, pending, now, clientVars, history>>
    BY <1>2 DEF find_b_for_a
  <2> HIDE DEF b
  <2>6. [job[t] EXCEPT !.b = b] \in Job
    BY <1>1, <2>1, JobFields
  <2>7. in_flight' \in [Slots -> Nat]
    BY <2>1, <2>2, PinType
  <2> QED BY <2>2, <2>3, <2>4, <2>5, <2>6, <2>7, StepType
          DEF TypeOK, slotVars, setupVars, clientVars, history
<1>3. ASSUME NoB(t) PROVE TypeOK'
  <2>1. <<job[t].sess, job[t].n>> \in ASessions \X Nat
    BY <1>1, JobFields
  <2>2. lost' = lost \/ lost' = lost \cup {<<job[t].sess, job[t].n>>}
    BY <1>3 DEF NoB
  <2>3. lost' \subseteq ASessions \X Nat
    BY <2>1, <2>2 DEF TypeOK
  <2> QED BY <1>3, <2>3 DEF TypeOK, NoB, slotVars, setupVars, clientVars
<1>4. ASSUME ClearSetup(t) PROVE TypeOK'
  BY <1>4 DEF TypeOK, ClearSetup, clientVars, history
<1>5. ASSUME CommitSetup(t) PROVE TypeOK'
  <2>1. job[t].b \in Slots /\ owner[job[t].b] \in BSessions
    BY <1>1, <1>5, JobFields, SlotNumbers DEF CommitSetup, JobInv, PinnedInv, Active
  <2>2. [flags |-> "ack", n |-> job[t].n] \in Out
    BY <1>1, JobFields DEF Out
  <2>3. [job[t] EXCEPT !.out = [flags |-> "ack", n |-> job[t].n]] \in Job
    BY <1>1, <2>2, JobFields
  <2>4. pc' = [pc EXCEPT ![t] = "dispatch"]
        /\ job' = [job EXCEPT ![t] = [job[t] EXCEPT !.out = [flags |-> "ack", n |-> job[t].n]]]
    BY <1>5 DEF CommitSetup
  <2>5. setup_done' \in [Slots -> BOOLEAN] /\ bound_b_idx' \in [Slots -> Slots \cup {NoSlot}]
        /\ b_key' \in [Slots -> BSessions \cup {NoSession}]
    BY <1>1, <1>5, <2>1 DEF TypeOK, CommitSetup
  <2> QED BY <1>5, <2>3, <2>4, <2>5, StepType DEF TypeOK, CommitSetup, clientVars, history
<1>6. ASSUME TagMismatch(t) PROVE TypeOK'
  BY <1>6 DEF TypeOK, TagMismatch, slotVars, setupVars, clientVars, history
<1> QED BY <1>2, <1>3, <1>4, <1>5, <1>6
\* Steps that make a reply, hand one out or send it.
LEMMA ReplyType ==
  ASSUME PinInv, NEW t \in Workers,
         \/ DrainByCover(t) \/ send_response(t) \/ NoAnswer(t)
         \/ send_response_ex(t) \/ DispatchFails(t)
  PROVE  TypeOK'
<1> USE DEF PinInv, Goto
<1> DEFINE a == job[t].a  s == job[t].sess
<1>1. job[t] \in Job /\ Active(t) /\ a \in Slots /\ s \in ASessions
  BY JobFields DEF JobInv, Active, DrainByCover, send_response, NoAnswer, send_response_ex, DispatchFails
<1>2. owner[a] = s
  BY <1>1 DEF PinnedInv
<1>3. pending[a] \in Seq(Entry) /\ Len(pending[a]) <= PENDING_RESP_QUEUE /\ job[t].n \in Nat
  BY <1>1, JobFields DEF TypeOK
<1>4. ASSUME DrainByCover(t) PROVE TypeOK'
  <2>1. UNCHANGED <<slotVars, last_active_ms, in_flight, now, clientVars, history>>
        /\ pc' = [pc EXCEPT ![t] = "dispatch"]
    BY <1>4 DEF DrainByCover
  <2>2. CASE pending[a] # <<>>
    <3>1. job' = [job EXCEPT ![t] = [job[t] EXCEPT !.out = Reply(Head(pending[a]))]]
          /\ pending' = [pending EXCEPT ![a] = Tail(pending[a])]
      BY <1>4, <2>2 DEF DrainByCover
    <3>2. Head(pending[a]) \in Entry /\ Tail(pending[a]) \in Seq(Entry)
          /\ Len(Tail(pending[a])) <= PENDING_RESP_QUEUE
      BY <1>3, <2>2
    <3>3. [job[t] EXCEPT !.out = Reply(Head(pending[a]))] \in Job
      BY <1>1, <3>2, JobFields DEF Reply, Out, Entry
    <3>4. /\ pending' \in [Slots -> Seq(Entry)]
          /\ \A i \in Slots : Len(pending'[i]) <= PENDING_RESP_QUEUE
                              /\ (pending'[i] # <<>> => owner[i] \in ASessions)
      BY <1>1, <1>2, <3>1, <3>2 DEF TypeOK
    <3> QED BY <2>1, <3>1, <3>3, <3>4, StepType DEF TypeOK, slotVars, setupVars, clientVars, history
  <2>3. CASE pending[a] = <<>>
    <3>1. job' = [job EXCEPT ![t] = [job[t] EXCEPT !.out = [flags |-> "dummy", n |-> 0]]]
          /\ UNCHANGED pending
      BY <1>4, <2>3 DEF DrainByCover
    <3>2. [job[t] EXCEPT !.out = [flags |-> "dummy", n |-> 0]] \in Job
      BY <1>1, JobFields DEF Out
    <3> QED BY <2>1, <3>1, <3>2, StepType DEF TypeOK, slotVars, setupVars, clientVars, history
  <2> QED BY <2>2, <2>3
<1>5. ASSUME send_response(t) PROVE TypeOK'
  <2> DEFINE e == [n |-> job[t].n, since |-> now]
             full == Len(pending[a]) = PENDING_RESP_QUEUE
             box == IF full THEN Tail(pending[a]) ELSE pending[a]
  <2>1. UNCHANGED <<slotVars, last_active_ms, in_flight, now, job, clientVars, left>>
        /\ pc' = [pc EXCEPT ![t] = "unpin"]
        /\ pending' = [pending EXCEPT ![a] = Append(box, e)]
        /\ queued' = [queued EXCEPT ![s] = Append(@, job[t].n)]
        /\ lost' = IF full THEN lost \cup {<<s, Head(pending[a]).n>>} ELSE lost
    BY <1>5 DEF send_response
  <2>2. e \in Entry
    BY <1>3 DEF TypeOK, Entry
  <2>3. full => pending[a] # <<>>
    OBVIOUS
  <2>4. Append(box, e) \in Seq(Entry) /\ Len(Append(box, e)) <= PENDING_RESP_QUEUE
    <3> HIDE DEF e
    <3>1. full => Tail(pending[a]) \in Seq(Entry) /\ Len(Tail(pending[a])) < PENDING_RESP_QUEUE
      BY <1>3, <2>2, <2>3, BoxType
    <3>2. box \in Seq(Entry) /\ Len(box) < PENDING_RESP_QUEUE
      BY <1>3, <3>1
    <3> HIDE DEF box
    <3> QED BY <2>2, <3>2, BoxType
  <2>5. full => <<s, Head(pending[a]).n>> \in ASessions \X Nat
    <3>1. full => Head(pending[a]) \in Entry
      BY <1>3, <2>2, <2>3, BoxType
    <3> HIDE DEF full
    <3> QED BY <1>1, <3>1 DEF Entry
  <2> HIDE DEF e, full, box
  <2>6. /\ pending' \in [Slots -> Seq(Entry)]
        /\ \A i \in Slots : Len(pending'[i]) <= PENDING_RESP_QUEUE
                            /\ (pending'[i] # <<>> => owner[i] \in ASessions)
    BY <1>1, <1>2, <2>1, <2>4 DEF TypeOK
  <2>7. queued' \in [ASessions -> Seq(Nat)]
    BY <1>1, <1>3, <2>1 DEF TypeOK
  <2>8. lost' \subseteq ASessions \X Nat
    BY <2>1, <2>5 DEF TypeOK
  <2> QED BY <2>1, <2>6, <2>7, <2>8 DEF TypeOK, slotVars, setupVars, clientVars
<1>6. ASSUME NoAnswer(t) PROVE TypeOK'
  BY <1>6 DEF TypeOK, NoAnswer, slotVars, setupVars, clientVars, history
<1>7. job[t].out.n \in Nat
  BY <1>1, JobFields
<1>8. ASSUME send_response_ex(t) PROVE TypeOK'
  <2>1. left' \in [ASessions -> Seq(Nat)] /\ ready' \in [ASessions -> BOOLEAN]
    <3>1. left' = left \/ left' = [left EXCEPT ![s] = Append(@, job[t].out.n)]
      BY <1>8 DEF send_response_ex
    <3>2. left[s] \in Seq(Nat) /\ left \in [ASessions -> Seq(Nat)]
      BY <1>1 DEF TypeOK
    <3>3. Append(left[s], job[t].out.n) \in Seq(Nat)
      BY <1>7, <3>2
    <3>4. left' \in [ASessions -> Seq(Nat)]
      BY <1>1, <3>1, <3>2, <3>3
    <3>5. ready' = ready \/ ready' = [ready EXCEPT ![s] = TRUE]
      BY <1>8 DEF send_response_ex
    <3>6. ready' \in [ASessions -> BOOLEAN]
      BY <3>5 DEF TypeOK
    <3> QED BY <3>4, <3>6
  <2> QED BY <1>8, <2>1 DEF TypeOK, send_response_ex, slotVars, setupVars
<1>9. ASSUME DispatchFails(t) PROVE TypeOK'
  <2>1. <<s, job[t].out.n>> \in ASessions \X Nat
    BY <1>1, <1>7
  <2>2. lost' = lost \/ lost' = lost \cup {<<s, job[t].out.n>>}
    BY <1>9 DEF DispatchFails
  <2>3. lost' \subseteq ASessions \X Nat
    BY <2>1, <2>2 DEF TypeOK
  <2> QED BY <1>9, <2>3 DEF TypeOK, DispatchFails, slotVars, setupVars, clientVars
<1> QED BY <1>4, <1>5, <1>6, <1>8, <1>9
\* A thread that is to release its slots holds them: no count falls below zero.
LEMMA ReleaseType ==
  ASSUME PinInv, NEW t \in Workers, Unpin(t) \/ (t = Flush /\ FlushUnpin)
  PROVE  TypeOK'
<1> USE DEF PinInv, Goto, Finish
<1> DEFINE a == job[t].a  b == job[t].b
<1>1. job[t] \in Job /\ a \in Slots /\ b \in Slots \cup {NoSlot} /\ pc[t] = "unpin"
  BY JobFields DEF JobInv, Unpin, FlushUnpin
<1>2. \A i \in Slots : i \in {a, b} => in_flight[i] \in Nat /\ in_flight[i] > 0
  BY <1>1, HeldIsPinned DEF Holds
<1>3. in_flight \in [Slots -> Nat]
  BY DEF TypeOK
<1>4. CASE Unpin(t)
  <2>1. in_flight' = [i \in Slots |-> in_flight[i] - (IF i \in {a, b} THEN 1 ELSE 0)]
    BY <1>4 DEF Unpin
  <2>2. in_flight' \in [Slots -> Nat]
    BY <1>2, <1>3, <2>1
  <2> QED BY <1>4, <2>2 DEF TypeOK, Unpin, slotVars, setupVars, clientVars, history
<1>5. CASE t = Flush /\ FlushUnpin
  <2>1. UNCHANGED <<slotVars, last_active_ms, pending, now, clientVars, history>>
    BY <1>5 DEF FlushUnpin
  <2>2. CASE b # NoSlot
    <3>1. b \in Slots
      BY <1>1, <2>2
    <3>2. in_flight' = [in_flight EXCEPT ![b] = @ - 1]
          /\ job' = [job EXCEPT ![t] = [job[t] EXCEPT !.b = NoSlot]] /\ pc' = pc
      BY <1>5, <2>2 DEF FlushUnpin
    <3>3. in_flight' \in [Slots -> Nat]
      BY <1>2, <1>3, <3>1, <3>2
    <3>4. [job[t] EXCEPT !.b = NoSlot] \in Job
      BY <1>1, JobFields
    <3> QED BY <2>1, <3>2, <3>3, <3>4 DEF TypeOK, slotVars, setupVars, clientVars, history
  <2>3. CASE b = NoSlot
    <3>1. in_flight' = [in_flight EXCEPT ![a] = @ - 1]
          /\ pc' = [pc EXCEPT ![t] = "idle"] /\ job' = [job EXCEPT ![t] = NoJob]
      BY <1>5, <2>3 DEF FlushUnpin
    <3>2. in_flight' \in [Slots -> Nat]
      BY <1>1, <1>2, <1>3, <3>1
    <3> QED BY <2>1, <3>1, <3>2, StepType DEF TypeOK, slotVars, setupVars, clientVars, history
  <2> QED BY <2>2, <2>3
<1> QED BY <1>4, <1>5

LEMMA PopType ==
  ASSUME PinInv, NEW i \in Slots, FlushPop(i)
  PROVE  TypeOK'
<1> USE DEF PinInv, Goto
<1> DEFINE e == Head(pending[i])
           j == [sess |-> owner[i], kind |-> "flush", n |-> e.n, a |-> i, b |-> NoSlot, out |-> Reply(e)]
<1>1. pending[i] \in Seq(Entry) /\ Len(pending[i]) <= PENDING_RESP_QUEUE
      /\ pending[i] # <<>> /\ owner[i] \in ASessions
  BY DEF TypeOK, FlushPop
<1>2. e \in Entry /\ Tail(pending[i]) \in Seq(Entry) /\ Len(Tail(pending[i])) <= PENDING_RESP_QUEUE
  BY <1>1
<1>3. j \in Job
  BY <1>1, <1>2 DEF Job, Reply, Out, Entry
<1>4. /\ pending' = [pending EXCEPT ![i] = Tail(pending[i])]
      /\ in_flight' = [in_flight EXCEPT ![i] = @ + 1]
      /\ job' = [job EXCEPT ![Flush] = j] /\ pc' = [pc EXCEPT ![Flush] = "find_b"]
      /\ UNCHANGED <<slotVars, last_active_ms, now, clientVars, history>>
  BY DEF FlushPop
<1> HIDE DEF j
<1>5. in_flight' \in [Slots -> Nat]
  BY <1>4, PinType
<1>6. /\ pending' \in [Slots -> Seq(Entry)]
      /\ \A k \in Slots : Len(pending'[k]) <= PENDING_RESP_QUEUE
                          /\ (pending'[k] # <<>> => owner[k] \in ASessions)
  BY <1>1, <1>2, <1>4 DEF TypeOK
<1>7. Flush \in Workers
  BY DEF Workers
<1> QED BY <1>3, <1>4, <1>5, <1>6, <1>7, StepType
        DEF TypeOK, slotVars, setupVars, clientVars, history

\* Clients and the clock.
LEMMA OutsideType ==
  ASSUME PinInv,
         \/ \E s \in Sessions : Extend(s) \/ StoreFull(s)
         \/ \E a \in ASessions, k \in Kind : ClientSend(a, k)
         \/ Tick
  PROVE  TypeOK'
<1> USE DEF PinInv
<1>1. ASSUME NEW s \in Sessions, Extend(s) PROVE TypeOK'
  <2>1. PICK i \in Slots : sess_alloc(i, s)
    BY <1>1 DEF Extend
  <2>2. RepliesIn(i) \subseteq ASessions \X Nat
    <3>1. \A k \in DOMAIN pending[i] : pending[i][k] \in Entry /\ pending[i] # <<>>
      BY DEF TypeOK
    <3>2. \A k \in DOMAIN pending[i] : owner[i] \in ASessions /\ pending[i][k].n \in Nat
      BY <3>1 DEF TypeOK, Entry
    <3> QED BY <3>2 DEF RepliesIn
  <2>3. in_use' \in [Slots -> BOOLEAN] /\ owner' \in [Slots -> Sessions \cup {NoSession}]
        /\ last_active_ms' \in [Slots -> 0 .. (TICK_MOD - 1)] /\ in_flight' \in [Slots -> Nat]
        /\ lost' \subseteq ASessions \X Nat
    BY <2>1, <2>2 DEF TypeOK, sess_alloc
  <2>4. routed' \in [Slots -> BOOLEAN] /\ setup_done' \in [Slots -> BOOLEAN]
        /\ bound_b_idx' \in [Slots -> Slots \cup {NoSlot}]
        /\ b_key' \in [Slots -> BSessions \cup {NoSession}]
    BY <2>1 DEF TypeOK, sess_alloc
  <2>5. /\ pending' \in [Slots -> Seq(Entry)]
        /\ \A k \in Slots : Len(pending'[k]) <= PENDING_RESP_QUEUE
                            /\ (pending'[k] # <<>> => owner'[k] \in ASessions)
    BY <2>1 DEF TypeOK, sess_alloc
  <2>6. opened' \in [Sessions -> {"no", "open", "failed"}]
        /\ UNCHANGED <<now, pc, job, ready, sent, net, queued, left>>
    BY <1>1 DEF TypeOK, Extend
  <2> QED BY <2>3, <2>4, <2>5, <2>6 DEF TypeOK
<1>2. ASSUME NEW s \in Sessions, StoreFull(s) PROVE TypeOK'
  BY <1>2 DEF TypeOK, StoreFull, slotVars, setupVars, history
<1>3. ASSUME NEW a \in ASessions, NEW k \in Kind, ClientSend(a, k) PROVE TypeOK'
  <2>1. sent[a] \in [Kind -> Nat] /\ sent[a][k] + 1 \in Nat
    BY DEF TypeOK
  <2>2. sent' = [sent EXCEPT ![a] = [sent[a] EXCEPT ![k] = sent[a][k] + 1]]
    BY <1>3 DEF ClientSend
  <2>3. [sent[a] EXCEPT ![k] = sent[a][k] + 1] \in [Kind -> Nat]
    BY <2>1
  <2>4. sent' \in [ASessions -> [Kind -> Nat]]
    BY <2>2, <2>3 DEF TypeOK
  <2>5. net' \subseteq Packet
    <3>1. net' = net \cup {[sess |-> a, kind |-> k, n |-> sent[a][k] + 1]}
      BY <1>3 DEF ClientSend
    <3>2. [sess |-> a, kind |-> k, n |-> sent[a][k] + 1] \in Packet
      BY <2>1 DEF Packet
    <3> QED BY <3>1, <3>2 DEF TypeOK
  <2> QED BY <1>3, <2>4, <2>5 DEF TypeOK, ClientSend, slotVars, setupVars, history
<1>4. ASSUME Tick PROVE TypeOK'
  <2>1. now' \in 0 .. (TICK_MOD - 1)
    BY <1>4 DEF TypeOK, Tick
  <2> QED BY <1>4, <2>1 DEF TypeOK, Tick, slotVars, setupVars, clientVars, history
<1> QED BY <1>1, <1>2, <1>3, <1>4
-----------------------------------------------------------------------------
(* Who holds what                                                          *)

\* A step of one thread: the others stay where they are, and no slot changes
\* hands.
OneActs(t) ==
  /\ \A u \in Workers : u # t => pc'[u] = pc[u] /\ job'[u] = job[u]
  /\ UNCHANGED <<in_use, owner>>

ThreadStep(t) == Handle(t) \/ Dispatch(t) \/ (t = Flush /\ FlushUnpin)

LEMMA ActsAlone ==
  ASSUME TypeOK, NEW t \in Workers, ThreadStep(t)
  PROVE  OneActs(t)
<1> USE DEF Goto, Finish
<1>1. UNCHANGED <<in_use, owner>>
  <2>1. CASE Handle(t)
    BY <2>1 DEF Handle, Snapshot, NoCandidate, find_a_session, CheckSetup, SetupWrite, ClearSetup,
                CommitSetup, TagMismatch, DrainByCover, send_response, NoAnswer, Unpin, slotVars
  <2>2. CASE ~Handle(t)
    BY <2>2 DEF ThreadStep, Dispatch, find_b_for_a, NoB, send_response_ex, DispatchFails, FlushUnpin,
                slotVars
  <2> QED BY <2>1, <2>2
<1>2. (\E l : pc' = [pc EXCEPT ![t] = l]) /\ (\E j : job' = [job EXCEPT ![t] = j])
  <2>1. pc = [pc EXCEPT ![t] = pc[t]] /\ job = [job EXCEPT ![t] = job[t]]
    BY DEF TypeOK
  <2>2. CASE NoCandidate(t)
    BY <2>1, <2>2 DEF NoCandidate
  <2>3. CASE Snapshot(t)
    BY <2>3 DEF Snapshot
  <2>4. CASE find_a_session(t)
    BY <2>1, <2>4 DEF find_a_session
  <2>5. CASE \/ CheckSetup(t) \/ SetupWrite(t) \/ ClearSetup(t) \/ TagMismatch(t) \/ NoAnswer(t) \/ NoB(t)
             \/ send_response(t) \/ send_response_ex(t) \/ DispatchFails(t)
    <3>1. job' = job /\ \E l : pc' = [pc EXCEPT ![t] = l]
      BY <2>5 DEF CheckSetup, SetupWrite, ClearSetup, TagMismatch, NoAnswer, NoB, send_response,
                  send_response_ex, DispatchFails
    <3> QED BY <2>1, <3>1
  <2>6. CASE CommitSetup(t) \/ DrainByCover(t) \/ find_b_for_a(t)
    BY <2>6 DEF CommitSetup, DrainByCover, find_b_for_a
  <2>7. CASE Unpin(t)
    BY <2>7 DEF Unpin
  <2>8. CASE t = Flush /\ FlushUnpin
    BY <2>1, <2>8 DEF FlushUnpin
  <2> QED BY <2>2, <2>3, <2>4, <2>5, <2>6, <2>7, <2>8 DEF ThreadStep, Handle, Dispatch
<1>3. \A u \in Workers : u # t => pc'[u] = pc[u] /\ job'[u] = job[u]
  BY <1>2 DEF TypeOK
<1> QED BY <1>1, <1>3 DEF OneActs

LEMMA OneJob ==
  ASSUME JobInv, NEW t \in Workers, OneActs(t), pc'[t] # "idle" => job'[t] \in Job,
         pc'[t] \in {"candidate", "pinned", "find_b", "unset"} => job'[t].b = NoSlot,
         pc'[t] = "verify" => job'[t].b # NoSlot
  PROVE  JobInv'
  BY DEF JobInv, OneActs

LEMMA QuietKeepsPins ==
  ASSUME PinInv, NEW t \in Workers, OneActs(t), UNCHANGED in_flight,
         Active(t)' <=> Active(t),
         Active(t) => job'[t].a = job[t].a /\ job'[t].b = job[t].b /\ job'[t].sess = job[t].sess
  PROVE  PinsCounted' /\ PinnedInv'
<1>1. \A i \in Slots : Holds(t, i)' <=> Holds(t, i)
  BY DEF Holds, Active
<1>2. PinsCounted'
  BY <1>1, OneCounts DEF PinsCounted, PinInv, OneActs
<1>3. PinnedInv'
  BY DEF PinInv, PinnedInv, OneActs, Active
<1> QED BY <1>2, <1>3

\* Steps of a thread that pin and release nothing.
Quiet(t) ==
  \/ Snapshot(t) \/ NoCandidate(t) \/ CheckSetup(t) \/ SetupWrite(t) \/ NoB(t) \/ ClearSetup(t)
  \/ CommitSetup(t) \/ TagMismatch(t) \/ DrainByCover(t) \/ send_response(t) \/ NoAnswer(t)
  \/ send_response_ex(t) \/ DispatchFails(t)

LEMMA QuietPins ==
  ASSUME PinInv, TypeOK', NEW t \in Workers, Quiet(t)
  PROVE  JobInv' /\ PinsCounted' /\ PinnedInv'
<1> USE DEF PinInv, Goto
<1>1. OneActs(t) /\ UNCHANGED in_flight
  <2>1. OneActs(t)
    BY ActsAlone DEF Quiet, ThreadStep, Handle, Dispatch
  <2>2. UNCHANGED in_flight
    BY DEF Quiet, Snapshot, NoCandidate, CheckSetup, SetupWrite, NoB, ClearSetup, CommitSetup, TagMismatch,
           DrainByCover, send_response, NoAnswer, send_response_ex, DispatchFails
  <2> QED BY <2>1, <2>2
<1>2. CASE Snapshot(t)
  <2>1. PICK p \in net, i \in Slots :
          job' = [job EXCEPT ![t] = [sess |-> p.sess, kind |-> p.kind, n |-> p.n,
                                     a |-> i, b |-> NoSlot, out |-> NoOut]]
    BY <1>2 DEF Snapshot
  <2>2. job'[t].b = NoSlot /\ pc'[t] = "candidate" /\ pc[t] = "idle"
    BY <1>2, <2>1 DEF TypeOK, Snapshot
  <2>3. job'[t] \in Job
    BY <2>1, SMTT(60) DEF TypeOK, Packet, Job
  <2>4. JobInv'
    BY <1>1, <2>2, <2>3 DEF JobInv, OneActs
  <2> QED BY <1>1, <2>2, <2>4, QuietKeepsPins DEF Active
<1>3. CASE NoCandidate(t)
  BY <1>1, <1>3, QuietKeepsPins DEF NoCandidate, Active, JobInv
<1>4. CASE CheckSetup(t) \/ SetupWrite(t) \/ NoB(t) \/ ClearSetup(t)
           \/ TagMismatch(t) \/ send_response(t) \/ NoAnswer(t) \/ send_response_ex(t) \/ DispatchFails(t)
  <2>1. pc[t] \in {"pinned", "find_b", "unset", "verify", "serve", "dispatch"} /\ job' = job
    BY <1>4 DEF CheckSetup, SetupWrite, NoB, ClearSetup, TagMismatch, send_response, NoAnswer,
                send_response_ex, DispatchFails
  <2>2. /\ pc'[t] \in {"find_b", "unset", "unpin"}
        /\ pc'[t] \in {"find_b", "unset"} => pc[t] \in {"pinned", "find_b"}
    <3>1. \E l \in {"find_b", "unset", "unpin"} :
            /\ pc' = [pc EXCEPT ![t] = l]
            /\ l \in {"find_b", "unset"} => pc[t] \in {"pinned", "find_b"}
      BY <1>4 DEF CheckSetup, SetupWrite, NoB, ClearSetup, TagMismatch, send_response, NoAnswer,
                  send_response_ex, DispatchFails
    <3> QED BY <3>1 DEF TypeOK
  <2>3. JobInv'
    BY <1>1, <2>1, <2>2 DEF JobInv, OneActs
  <2> QED BY <1>1, <2>1, <2>2, <2>3, QuietKeepsPins DEF Active
<1>5. CASE CommitSetup(t) \/ DrainByCover(t)
  <2>1. pc[t] \in {"verify", "pop"} /\ pc'[t] = "dispatch"
    BY <1>5 DEF TypeOK, CommitSetup, DrainByCover
  <2>2. PICK o : job' = [job EXCEPT ![t] = [job[t] EXCEPT !.out = o]]
    BY <1>5 DEF CommitSetup, DrainByCover
  <2>3. job[t] \in Job /\ job'[t] = [job[t] EXCEPT !.out = o]
    BY <2>1, <2>2 DEF JobInv, TypeOK
  <2>4. job'[t].a = job[t].a /\ job'[t].b = job[t].b /\ job'[t].sess = job[t].sess
    BY <2>3 DEF Job
  <2>5. job'[t] \in Job
    <3>1. job'[t] \in Job \cup {NoJob}
      BY DEF TypeOK
    <3>2. job'[t].a # NoJob.a
      BY <2>3, <2>4, SlotNumbers DEF NoJob, Job
    <3> QED BY <3>1, <3>2
  <2>6. JobInv'
    BY <1>1, <2>1, <2>5 DEF JobInv, OneActs
  <2> QED BY <1>1, <2>1, <2>4, <2>6, QuietKeepsPins DEF Active
<1> QED BY <1>2, <1>3, <1>4, <1>5 DEF Quiet
LEMMA FindAPins ==
  ASSUME PinInv, TypeOK', NEW t \in Workers, find_a_session(t)
  PROVE  JobInv' /\ PinsCounted' /\ PinnedInv'
<1> USE DEF PinInv, Goto, Finish
<1> DEFINE a == job[t].a
<1>1. OneActs(t) /\ pc[t] = "candidate"
  BY DEF TypeOK, OneActs, find_a_session, slotVars
<1>2. job[t] \in Job /\ a \in Slots /\ job[t].b = NoSlot
  BY <1>1, JobFields DEF JobInv
<1>3. CASE Accepts(job[t])
  <2>1. pc'[t] = "pinned" /\ job' = job /\ in_flight' = [in_flight EXCEPT ![a] = @ + 1]
    BY <1>3 DEF TypeOK, find_a_session
  <2>2. JobInv'
    BY <1>1, <1>2, <2>1 DEF JobInv, OneActs
  <2>3. \A i \in Slots : ~Holds(t, i) /\ (Holds(t, i)' <=> i = a)
    BY <1>1, <1>2, <2>1, SlotNumbers DEF Holds
  <2>4. \A i \in Slots : in_flight'[i] = IF i = a THEN in_flight[i] + 1 ELSE in_flight[i]
    BY <2>1 DEF TypeOK
  <2>5. PinsCounted'
    BY <1>1, <2>3, <2>4, OneCounts DEF PinsCounted, OneActs
  <2>6. PinnedInv'
    BY <1>1, <1>2, <1>3, <2>1 DEF PinnedInv, OneActs, Active, Accepts
  <2> QED BY <2>2, <2>5, <2>6
<1>4. CASE ~Accepts(job[t])
  <2>1. pc'[t] = "idle" /\ in_flight' = in_flight
    BY <1>4 DEF TypeOK, find_a_session
  <2>2. JobInv'
    BY <1>1, <2>1 DEF JobInv, OneActs
  <2> QED BY <1>1, <2>1, <2>2, QuietKeepsPins DEF Active
<1> QED BY <1>3, <1>4

\* The B slot is another one than the A slot: it holds a B session.
LEMMA FindBPins ==
  ASSUME PinInv, TypeOK', NEW t \in Workers, find_b_for_a(t)
  PROVE  JobInv' /\ PinsCounted' /\ PinnedInv'
<1> USE DEF PinInv, Goto
<1> DEFINE a == job[t].a  b == BoundB(a)
<1>1. OneActs(t) /\ pc[t] = "find_b" /\ b # NoSlot
  BY DEF TypeOK, OneActs, find_b_for_a, slotVars
<1>2. job[t] \in Job /\ a \in Slots /\ job[t].b = NoSlot /\ job[t].sess \in ASessions
  BY <1>1, JobFields DEF JobInv
<1>3. b \in Slots /\ in_use[b] /\ owner[b] \in BSessions
  BY <1>1, <1>2, BoundSlot
<1>4. in_use[a] /\ owner[a] = job[t].sess /\ a # b
  BY <1>1, <1>2, <1>3 DEF PinnedInv, Active
<1>5. pc'[t] = AfterFindB(job[t].kind) /\ in_flight' = [in_flight EXCEPT ![b] = @ + 1]
      /\ job' = [job EXCEPT ![t] = [job[t] EXCEPT !.b = b]]
  BY DEF TypeOK, find_b_for_a
<1>6. pc'[t] \in {"pop", "verify", "serve", "dispatch"}
  BY <1>2, <1>5, JobFields DEF AfterFindB, Kind
<1> HIDE DEF b
<1>7. job'[t] = [job[t] EXCEPT !.b = b] /\ job'[t] \in Job
  BY <1>2, <1>3, <1>5, JobFields, SMTT(60) DEF TypeOK
<1>8. job'[t].a = a /\ job'[t].b = b /\ job'[t].sess = job[t].sess
  BY <1>2, <1>7 DEF Job
<1>9. JobInv'
  BY <1>1, <1>6, <1>7, <1>8, OneJob
<1>10. \A i \in Slots : (Holds(t, i) <=> i = a) /\ (Holds(t, i)' <=> i \in {a, b})
  BY <1>1, <1>2, <1>6, <1>8, SlotNumbers DEF Holds
<1>11. \A i \in Slots : in_flight'[i] = IF i = b THEN in_flight[i] + 1 ELSE in_flight[i]
  BY <1>5 DEF TypeOK
<1>12. PinsCounted'
  BY <1>1, <1>4, <1>10, <1>11, OneCounts DEF PinsCounted, OneActs
<1>13. PinnedInv'
  BY <1>1, <1>3, <1>4, <1>8 DEF PinnedInv, OneActs, Active
<1> QED BY <1>9, <1>12, <1>13

LEMMA PopPins ==
  ASSUME PinInv, TypeOK', NEW i \in Slots, FlushPop(i)
  PROVE  JobInv' /\ PinsCounted' /\ PinnedInv'
<1> USE DEF PinInv, Goto
<1> DEFINE j == [sess |-> owner[i], kind |-> "flush", n |-> Head(pending[i]).n,
                 a |-> i, b |-> NoSlot, out |-> Reply(Head(pending[i]))]
<1>1. Flush \in Workers /\ OneActs(Flush) /\ pc[Flush] = "idle" /\ in_use[i]
  BY DEF Workers, OneActs, FlushPop, slotVars
<1>2. pc'[Flush] = "find_b" /\ job'[Flush] = j /\ in_flight' = [in_flight EXCEPT ![i] = @ + 1]
  BY <1>1 DEF TypeOK, FlushPop
<1>3. j.a = i /\ j.b = NoSlot /\ j.sess = owner[i]
  OBVIOUS
<1> HIDE DEF j
<1>4. j \in Job
  <2>1. j \in Job \cup {NoJob}
    BY <1>1, <1>2 DEF TypeOK
  <2>2. j.a # NoJob.a
    BY <1>3, SlotNumbers DEF NoJob
  <2> QED BY <2>1, <2>2
<1>5. JobInv'
  BY <1>1, <1>2, <1>3, <1>4 DEF JobInv, OneActs
<1>6. \A k \in Slots : ~Holds(Flush, k) /\ (Holds(Flush, k)' <=> k = i)
  BY <1>1, <1>2, <1>3, SlotNumbers DEF Holds
<1>7. \A k \in Slots : in_flight'[k] = IF k = i THEN in_flight[k] + 1 ELSE in_flight[k]
  BY <1>2 DEF TypeOK
<1>8. PinsCounted'
  BY <1>1, <1>6, <1>7, OneCounts DEF PinsCounted, OneActs
<1>9. PinnedInv'
  BY <1>1, <1>2, <1>3 DEF PinnedInv, OneActs, Active
<1> QED BY <1>5, <1>8, <1>9

LEMMA ReleasePins ==
  ASSUME PinInv, TypeOK', NEW t \in Workers, Unpin(t) \/ (t = Flush /\ FlushUnpin)
  PROVE  JobInv' /\ PinsCounted' /\ PinnedInv'
<1> USE DEF PinInv, Goto, Finish
<1> DEFINE a == job[t].a  b == job[t].b
<1>1. OneActs(t) /\ pc[t] = "unpin"
  BY DEF TypeOK, OneActs, Unpin, FlushUnpin, slotVars
<1>2. job[t] \in Job /\ a \in Slots /\ b \in Slots \cup {NoSlot} /\ job[t].sess \in ASessions
  BY <1>1, JobFields DEF JobInv
<1>3. a # b
  BY <1>1, <1>2, SlotNumbers DEF PinnedInv, Active
<1>4. \A i \in Slots : Holds(t, i) <=> i \in {a, b}
  BY <1>1 DEF Holds
<1>5. CASE pc'[t] = "idle" /\ \A i \in Slots : in_flight'[i] = in_flight[i] - (IF i \in {a, b} THEN 1 ELSE 0)
  <2>1. \A i \in Slots : ~Holds(t, i)'
    BY <1>5 DEF Holds
  <2>2. \A i \in Slots : \/ Holds(t, i) /\ in_flight'[i] = in_flight[i] - 1
                         \/ ~Holds(t, i) /\ in_flight'[i] = in_flight[i]
    BY <1>4, <1>5, SMTT(60) DEF TypeOK
  <2>3. PinsCounted'
    BY <1>1, <2>1, <2>2, OneCounts DEF PinsCounted, OneActs
  <2>4. JobInv' /\ PinnedInv'
    BY <1>1, <1>5 DEF JobInv, PinnedInv, OneActs, Active
  <2> QED BY <2>3, <2>4
<1>6. CASE Unpin(t)
  BY <1>5, <1>6 DEF TypeOK, Unpin
<1>7. CASE t = Flush /\ FlushUnpin /\ b = NoSlot
  <2>1. in_flight' = [in_flight EXCEPT ![a] = @ - 1] /\ pc'[t] = "idle"
    BY <1>7 DEF TypeOK, FlushUnpin
  <2>2. \A i \in Slots : i \in {a, b} <=> i = a
    BY <1>7, SlotNumbers
  <2>3. \A i \in Slots : in_flight'[i] = IF i = a THEN in_flight[i] - 1 ELSE in_flight[i]
    BY <2>1 DEF TypeOK
  <2>4. \A i \in Slots : in_flight'[i] = in_flight[i] - (IF i \in {a, b} THEN 1 ELSE 0)
    BY <2>2, <2>3 DEF TypeOK
  <2> QED BY <1>5, <2>1, <2>4
<1>8. CASE t = Flush /\ FlushUnpin /\ b # NoSlot
  <2>1. in_flight' = [in_flight EXCEPT ![b] = @ - 1] /\ pc' = pc
        /\ job'[t] = [job[t] EXCEPT !.b = NoSlot]
    BY <1>8 DEF TypeOK, FlushUnpin
  <2>2. job'[t] \in Job /\ job'[t].a = a /\ job'[t].b = NoSlot /\ job'[t].sess = job[t].sess
    BY <1>2, <2>1, JobFields DEF Job
  <2>3. \A i \in Slots : Holds(t, i)' <=> i = a
    BY <1>1, <2>1, <2>2, SlotNumbers DEF Holds
  <2>4. \A i \in Slots :
          in_flight'[i] = IF i = b THEN in_flight[i] - 1 ELSE in_flight[i]
    BY <2>1 DEF TypeOK
  <2>5. \A i \in Slots : \/ Holds(t, i) /\ ~Holds(t, i)' /\ in_flight'[i] = in_flight[i] - 1
                         \/ (Holds(t, i)' <=> Holds(t, i)) /\ in_flight'[i] = in_flight[i]
    BY <1>3, <1>4, <2>3, <2>4
  <2>6. PinsCounted'
    BY <1>1, <2>5, OneCounts DEF PinsCounted, OneActs
  <2>7. JobInv'
    BY <1>1, <2>1, <2>2, OneJob
  <2>8. \A u \in Workers : Active(u)' =>
          /\ Active(u) /\ job'[u].a = job[u].a /\ job'[u].sess = job[u].sess
          /\ job'[u].b = job[u].b \/ job'[u].b = NoSlot
    <3>1. \A u \in Workers : Active(u)' => Active(u)
      BY <2>1 DEF Active
    <3>2. \A u \in Workers : u # t => job'[u] = job[u]
      BY <1>1 DEF OneActs
    <3> QED BY <2>2, <3>1, <3>2
  <2>9. UNCHANGED <<in_use, owner>>
    BY <1>1 DEF OneActs
  <2>10. PinnedInv'
    BY <2>8, <2>9 DEF PinnedInv
  <2> QED BY <2>6, <2>7, <2>10
<1> QED BY <1>6, <1>7, <1>8
\* sess_alloc() takes no slot that a thread works on.
LEMMA AllocSparesPinned ==
  ASSUME PinInv, NEW i \in Slots, AllocSlot(i), NEW t \in Workers
  PROVE  ~Holds(t, i)
<1> SUFFICES ASSUME Holds(t, i) PROVE FALSE
  OBVIOUS
<1>1. in_use[i]
  BY SlotNumbers DEF PinInv, PinnedInv, Holds, Active
<1>2. in_flight[i] > 0
  BY HeldIsPinned DEF PinInv
<1> QED BY <1>1, <1>2 DEF AllocSlot, FreeSlots, ExpiredSlots

LEMMA ExtendPins ==
  ASSUME PinInv, NEW s \in Sessions, Extend(s)
  PROVE  JobInv' /\ PinsCounted' /\ PinnedInv'
<1> USE DEF PinInv
<1>1. PICK i \in Slots : sess_alloc(i, s)
  BY DEF Extend
<1>2. \A t \in Workers : ~Holds(t, i)
  BY <1>1, AllocSparesPinned DEF sess_alloc
<1>3. UNCHANGED <<pc, job>>
  BY DEF Extend
<1>4. JobInv'
  BY <1>3 DEF JobInv
<1>5. \A k \in Slots : k # i => in_flight'[k] = in_flight[k] /\ in_use'[k] = in_use[k] /\ owner'[k] = owner[k]
  BY <1>1 DEF TypeOK, sess_alloc
<1>6. ASSUME NEW k \in Slots PROVE in_flight'[k] = Cardinality({t \in Workers : Holds(t, k)})'
  <2>1. \A t \in Workers : Holds(t, k)' <=> Holds(t, k)
    BY <1>3 DEF Holds
  <2>2. CASE k = i
    <3>1. {t \in Workers : Holds(t, k)'} = {}
      BY <1>2, <2>1, <2>2
    <3>2. in_flight'[k] = 0
      BY <1>1, <2>2 DEF TypeOK, sess_alloc
    <3> QED BY <3>1, <3>2, FS_EmptySet
  <2>3. CASE k # i
    <3>1. {t \in Workers : Holds(t, k)'} = {t \in Workers : Holds(t, k)}
      BY <2>1
    <3> QED BY <1>5, <2>3, <3>1 DEF PinsCounted
  <2> QED BY <2>2, <2>3
<1>7. PinsCounted'
  BY <1>6 DEF PinsCounted
<1>8. \A t \in Workers : Active(t) => /\ job[t] \in Job /\ job[t].a \in Slots \ {i}
                                      /\ job[t].b # NoSlot => job[t].b \in Slots \ {i}
  BY <1>2, JobFields DEF JobInv, Active, Holds
<1>9. PinnedInv'
  BY <1>3, <1>5, <1>8 DEF PinnedInv, Active
<1> QED BY <1>4, <1>7, <1>9

\* Steps that concern no thread.
LEMMA IdlePins ==
  ASSUME PinInv, UNCHANGED <<pc, job, in_flight, in_use, owner>>
  PROVE  JobInv' /\ PinsCounted' /\ PinnedInv'
  BY DEF PinInv, JobInv, PinsCounted, PinnedInv, Holds, Active

LEMMA NextPin == PinInv /\ [Next]_vars => PinInv'
<1> SUFFICES ASSUME PinInv, [Next]_vars PROVE PinInv'
  OBVIOUS
<1>1. ASSUME NEW t \in Workers, Handle(t) \/ Dispatch(t) PROVE PinInv'
  <2>1. TypeOK'
    BY <1>1, FrontType, PairType, ReplyType, ReleaseType DEF Handle, Dispatch
  <2>2. CASE find_a_session(t)
    BY <2>1, <2>2, FindAPins DEF PinInv
  <2>3. CASE find_b_for_a(t)
    BY <2>1, <2>3, FindBPins DEF PinInv
  <2>4. CASE Unpin(t)
    BY <2>1, <2>4, ReleasePins DEF PinInv
  <2>5. CASE Quiet(t)
    BY <2>1, <2>5, QuietPins DEF PinInv
  <2> QED BY <1>1, <2>2, <2>3, <2>4, <2>5 DEF Handle, Dispatch, Quiet
<1>2. CASE \E t \in Threads : Handle(t) \/ Dispatch(t)
  BY <1>1, <1>2 DEF Workers
<1>3. CASE \E i \in Slots : FlushPop(i)
  BY <1>3, PopType, PopPins DEF PinInv
<1>4. CASE FlushStep
  <2>1. Flush \in Workers
    BY DEF Workers
  <2>2. CASE Dispatch(Flush)
    BY <1>1, <2>1, <2>2
  <2>3. CASE FlushUnpin
    BY <2>1, <2>3, ReleaseType, ReleasePins DEF PinInv
  <2> QED BY <1>4, <2>2, <2>3 DEF FlushStep
<1>5. CASE \E s \in Sessions : Extend(s) \/ StoreFull(s)
  <2>1. TypeOK'
    BY <1>5, OutsideType
  <2>2. CASE \E s \in Sessions : Extend(s)
    BY <2>1, <2>2, ExtendPins DEF PinInv
  <2>3. CASE \E s \in Sessions : StoreFull(s)
    <3>1. UNCHANGED <<pc, job, in_flight, in_use, owner>>
      BY <2>3 DEF StoreFull, slotVars
    <3> QED BY <2>1, <3>1, IdlePins DEF PinInv
  <2> QED BY <1>5, <2>2, <2>3
<1>6. CASE (\E a \in ASessions, k \in Kind : ClientSend(a, k)) \/ Tick
  <2>1. TypeOK'
    BY <1>6, OutsideType
  <2>2. UNCHANGED <<pc, job, in_flight, in_use, owner>>
    BY <1>6 DEF ClientSend, Tick, slotVars
  <2> QED BY <2>1, <2>2, IdlePins DEF PinInv
<1>7. CASE UNCHANGED vars
  <2>1. TypeOK'
    BY <1>7 DEF PinInv, TypeOK, vars, slotVars, setupVars, clientVars, history
  <2>2. UNCHANGED <<pc, job, in_flight, in_use, owner>>
    BY <1>7 DEF vars, slotVars
  <2> QED BY <2>1, <2>2, IdlePins DEF PinInv
<1> QED BY <1>2, <1>3, <1>4, <1>5, <1>6, <1>7 DEF Next

LEMMA InitPin == Init => PinInv
<1> SUFFICES ASSUME Init PROVE PinInv
  OBVIOUS
<1>1. \A t \in Workers : pc[t] = "idle"
  BY DEF Init
<1>2. JobInv /\ PinnedInv
  BY <1>1 DEF JobInv, PinnedInv, Active
<1>3. \A i \in Slots : in_flight[i] = 0 /\ {t \in Workers : Holds(t, i)} = {}
  BY <1>1 DEF Init, Holds
<1>4. PinsCounted
  BY <1>3, FS_EmptySet DEF PinsCounted
<1> QED BY <1>2, <1>4, InitType DEF PinInv

LEMMA PinInvHolds == Spec => []PinInv
  BY InitPin, NextPin, PTL DEF Spec

\* Every variable holds a value of its C type.  This rests on the pins: a slot
\* whose session changed under a request would get replies that are not its
\* own, and a count released twice would fall below zero.
THEOREM TypeCorrect == Spec => []TypeOK
<1>1. PinInv => TypeOK
  BY DEF PinInv
<1> QED BY <1>1, PinInvHolds, PTL

\* in_flight counts the threads that use a slot, on every path through
\* handle_connection() and the flush thread, which releases in two steps.
THEOREM PinsCountedHolds == Spec => []PinsCounted
<1>1. PinInv => PinsCounted
  BY DEF PinInv
<1> QED BY <1>1, PinInvHolds, PTL
-----------------------------------------------------------------------------
(* Pairings and routes                                                     *)

LEMMA NextSetup == PinInv /\ SetupMeansBound /\ [Next]_vars => SetupMeansBound'
<1> SUFFICES ASSUME PinInv, SetupMeansBound, [Next]_vars PROVE SetupMeansBound'
  OBVIOUS
<1> USE DEF PinInv
<1>1. ASSUME NEW t \in Workers, CommitSetup(t) PROVE SetupMeansBound'
  <2> DEFINE a == job[t].a
  <2>1. pc[t] = "verify" /\ job[t] \in Job /\ a \in Slots /\ job[t].b # NoSlot
    BY <1>1, JobFields DEF CommitSetup, JobInv
  <2>2. owner[a] = job[t].sess
    BY <2>1 DEF PinnedInv, Active
  <2>3. /\ b_key' = [b_key EXCEPT ![a] = Partner[owner[a]]]
        /\ bound_b_idx' = [bound_b_idx EXCEPT ![a] = job[t].b]
        /\ setup_done' = [setup_done EXCEPT ![a] = TRUE] /\ owner' = owner
    BY <1>1, <2>2 DEF CommitSetup, TagMatches
  <2> QED BY <2>1, <2>3 DEF TypeOK, SetupMeansBound
<1>2. ASSUME NEW t \in Workers, ClearSetup(t) PROVE SetupMeansBound'
  BY <1>2 DEF ClearSetup, TypeOK, SetupMeansBound
<1>3. ASSUME NEW s \in Sessions, Extend(s) PROVE SetupMeansBound'
  <2>1. PICK i \in Slots : sess_alloc(i, s)
    BY <1>3 DEF Extend
  <2> QED BY <2>1 DEF sess_alloc, TypeOK, SetupMeansBound
<1>4. ASSUME UNCHANGED <<setup_done, bound_b_idx, b_key, owner>> PROVE SetupMeansBound'
  BY <1>4 DEF SetupMeansBound
<1>5. ASSUME NEW t \in Workers, Handle(t), ~CommitSetup(t), ~ClearSetup(t) PROVE SetupMeansBound'
  <2>1. UNCHANGED <<setup_done, bound_b_idx, b_key, owner>>
    BY <1>5 DEF Handle, Snapshot, NoCandidate, find_a_session, CheckSetup, SetupWrite, TagMismatch,
                DrainByCover, send_response, NoAnswer, Unpin, slotVars, setupVars
  <2> QED BY <1>4, <2>1
<1>6. ASSUME NEW t \in Workers, Dispatch(t) PROVE SetupMeansBound'
  <2>1. UNCHANGED <<setup_done, bound_b_idx, b_key, owner>>
    BY <1>6 DEF Dispatch, find_b_for_a, NoB, send_response_ex, DispatchFails, slotVars, setupVars
  <2> QED BY <1>4, <2>1
<1>7. CASE \E t \in Threads : Handle(t) \/ Dispatch(t)
  BY <1>1, <1>2, <1>5, <1>6, <1>7 DEF Workers
<1>8. CASE FlushStep
  <2>1. CASE Dispatch(Flush)
    BY <1>6, <2>1 DEF Workers
  <2>2. CASE FlushUnpin
    BY <1>4, <2>2 DEF FlushUnpin, slotVars, setupVars
  <2> QED BY <1>8, <2>1, <2>2 DEF FlushStep
<1>9. CASE \E i \in Slots : FlushPop(i)
  BY <1>4, <1>9 DEF FlushPop, slotVars, setupVars
<1>10. CASE \E s \in Sessions : StoreFull(s)
  BY <1>4, <1>10 DEF StoreFull, slotVars, setupVars
<1>11. CASE (\E a \in ASessions, k \in Kind : ClientSend(a, k)) \/ Tick \/ UNCHANGED vars
  BY <1>4, <1>11 DEF ClientSend, Tick, vars, slotVars, setupVars
<1> QED BY <1>3, <1>7, <1>8, <1>9, <1>10, <1>11 DEF Next

\* However SETUPs of several clients interleave with each other and with
\* reclaimed slots, a session that is set up is bound to the B slot of its own
\* client.
THEOREM SetupMeansBoundHolds == Spec => []SetupMeansBound
<1>1. Init => SetupMeansBound
  BY DEF Init, SetupMeansBound
<1> QED BY <1>1, InitPin, NextPin, NextSetup, PTL DEF Spec

\* A thread on its way to a reply, and a slot that can have one sent, have a
\* route.
OnRoute(t) == pc[t] \in {"find_b", "unset", "verify", "pop", "serve", "dispatch"}

RoutedInv ==
  /\ \A i \in Slots : setup_done[i] \/ pending[i] # <<>> => routed[i]
  /\ \A t \in Workers : OnRoute(t) => routed[job[t].a]

\* Steps of a thread that is on its way or gets there.
LEMMA OnRouteKept ==
  ASSUME RoutedInv, PinInv, NEW t \in Workers, OneActs(t),
         \A i \in Slots : routed[i] => routed'[i],
         \A i \in Slots : setup_done'[i] => setup_done[i] \/ routed'[i],
         \A i \in Slots : pending'[i] # <<>> => pending[i] # <<>> \/ routed'[i],
         OnRoute(t)' => routed'[job'[t].a]
  PROVE  RoutedInv'
<1>1. \A u \in Workers : u # t /\ OnRoute(u)' => OnRoute(u) /\ job'[u] = job[u]
  BY DEF OneActs, OnRoute
<1>2. \A u \in Workers : OnRoute(u) => job[u].a \in Slots
  BY JobFields DEF PinInv, JobInv, OnRoute
<1> QED BY <1>1, <1>2 DEF RoutedInv

LEMMA HandleRouted ==
  ASSUME PinInv, RoutedInv, NEW t \in Workers, Handle(t) \/ Dispatch(t)
  PROVE  RoutedInv'
<1> USE DEF PinInv, Goto, Finish
<1> DEFINE a == job[t].a
<1>1. OneActs(t)
  BY ActsAlone DEF ThreadStep
<1>2. pc[t] \notin {"idle"} => job[t] \in Job /\ a \in Slots
  BY JobFields DEF JobInv
<1>3. CASE NoCandidate(t) \/ Snapshot(t) \/ find_a_session(t) \/ TagMismatch(t) \/ NoAnswer(t) \/ Unpin(t)
           \/ send_response_ex(t) \/ DispatchFails(t)
  <2>1. UNCHANGED <<routed, setup_done, pending>> /\ ~OnRoute(t)'
    BY <1>3 DEF TypeOK, OnRoute, NoCandidate, Snapshot, find_a_session, TagMismatch, NoAnswer, Unpin,
                send_response_ex, DispatchFails, slotVars, setupVars
  <2> QED BY <1>1, <2>1, OnRouteKept
<1>4. CASE CheckSetup(t)
  <2>1. UNCHANGED <<routed, setup_done, pending, job>> /\ (OnRoute(t)' => setup_done[a]) /\ a \in Slots
    BY <1>2, <1>4 DEF TypeOK, OnRoute, CheckSetup, slotVars, setupVars
  <2> QED BY <1>1, <2>1, OnRouteKept DEF RoutedInv
<1>5. CASE SetupWrite(t)
  <2>1. UNCHANGED <<setup_done, pending, job>> /\ routed' = [routed EXCEPT ![a] = TRUE] /\ a \in Slots
    BY <1>2, <1>5 DEF SetupWrite
  <2>2. routed'[a] /\ \A i \in Slots : routed[i] => routed'[i]
    BY <2>1 DEF TypeOK
  <2> QED BY <1>1, <2>1, <2>2, OnRouteKept
<1>6. CASE OnRoute(t)
  <2>1. routed[a] /\ a \in Slots
    BY <1>2, <1>6 DEF RoutedInv, OnRoute
  <2>2. routed' = routed /\ (OnRoute(t)' => job'[t].a = a)
    <3>1. CASE find_b_for_a(t)
      <4>1. job'[t] = [job[t] EXCEPT !.b = BoundB(a)] /\ routed' = routed
        BY <3>1 DEF TypeOK, find_b_for_a, slotVars, setupVars
      <4> QED BY <1>2, <1>6, <4>1 DEF Job, OnRoute
    <3>2. CASE CommitSetup(t) \/ DrainByCover(t)
      <4>1. PICK o : job' = [job EXCEPT ![t] = [job[t] EXCEPT !.out = o]]
        BY <3>2 DEF CommitSetup, DrainByCover
      <4>2. job'[t] = [job[t] EXCEPT !.out = o]
        BY <4>1 DEF TypeOK
      <4>3. routed' = routed
        BY <3>2 DEF CommitSetup, DrainByCover, slotVars, setupVars
      <4> QED BY <1>2, <1>6, <4>2, <4>3 DEF Job, OnRoute
    <3>3. CASE ~find_b_for_a(t) /\ ~CommitSetup(t) /\ ~DrainByCover(t)
      BY <1>6, <3>3 DEF TypeOK, OnRoute, Handle, Dispatch, Snapshot, NoCandidate, find_a_session,
         CheckSetup, SetupWrite, ClearSetup, TagMismatch, send_response, NoAnswer,
         Unpin, NoB, send_response_ex, DispatchFails, slotVars, setupVars
    <3> QED BY <3>1, <3>2, <3>3
  <2>3. \A i \in Slots : i # a => setup_done'[i] = setup_done[i] /\ pending'[i] = pending[i]
    <3>1. CASE ClearSetup(t) \/ CommitSetup(t)
      BY <3>1 DEF TypeOK, ClearSetup, CommitSetup
    <3>2. CASE DrainByCover(t)
      BY <3>2 DEF TypeOK, DrainByCover, slotVars, setupVars
    <3>3. CASE send_response(t)
      BY <3>3 DEF TypeOK, send_response, slotVars, setupVars
    <3>4. CASE ~ClearSetup(t) /\ ~CommitSetup(t) /\ ~DrainByCover(t) /\ ~send_response(t)
      BY <1>6, <3>4 DEF OnRoute, Handle, Dispatch, Snapshot, NoCandidate, find_a_session, CheckSetup,
         SetupWrite, TagMismatch, NoAnswer, Unpin, find_b_for_a, NoB, send_response_ex, DispatchFails,
         slotVars, setupVars
    <3> QED BY <3>1, <3>2, <3>3, <3>4
  <2> QED BY <1>1, <2>1, <2>2, <2>3, OnRouteKept
<1>7. CASE ~OnRoute(t)
  BY <1>3, <1>4, <1>5, <1>7 DEF OnRoute, Handle, Dispatch, ClearSetup, CommitSetup, TagMismatch,
     DrainByCover, send_response, NoAnswer, find_b_for_a, NoB, send_response_ex, DispatchFails
<1> QED BY <1>6, <1>7

LEMMA NextRouted == PinInv /\ RoutedInv /\ [Next]_vars => RoutedInv'
<1> SUFFICES ASSUME PinInv, RoutedInv, [Next]_vars PROVE RoutedInv'
  OBVIOUS
<1> USE DEF PinInv
<1>1. CASE \E t \in Workers : Handle(t) \/ Dispatch(t)
  BY <1>1, HandleRouted
<1>2. CASE FlushUnpin
  <2>1. Flush \in Workers /\ OneActs(Flush)
    BY <1>2 DEF Workers, OneActs, TypeOK, FlushUnpin, Goto, Finish, slotVars
  <2>2. UNCHANGED <<routed, setup_done, pending>> /\ ~OnRoute(Flush)'
    BY <1>2, <2>1 DEF OnRoute, TypeOK, FlushUnpin, Goto, Finish, slotVars, setupVars
  <2> QED BY <2>1, <2>2, OnRouteKept
<1>3. ASSUME NEW i \in Slots, FlushPop(i) PROVE RoutedInv'
  <2>1. Flush \in Workers /\ OneActs(Flush)
    BY <1>3 DEF Workers, OneActs, TypeOK, FlushPop, Goto, slotVars
  <2>2. UNCHANGED <<routed, setup_done>> /\ pending[i] # <<>> /\ job'[Flush].a = i
        /\ pending' = [pending EXCEPT ![i] = Tail(@)]
    BY <1>3, <2>1 DEF TypeOK, FlushPop, slotVars, setupVars
  <2>3. \A k \in Slots : pending'[k] # <<>> => pending[k] # <<>>
    BY <2>2 DEF TypeOK
  <2> QED BY <2>1, <2>2, <2>3, OnRouteKept DEF RoutedInv
<1>4. ASSUME NEW s \in Sessions, Extend(s) PROVE RoutedInv'
  <2>1. PICK i \in Slots : sess_alloc(i, s)
    BY <1>4 DEF Extend
  <2>2. UNCHANGED <<pc, job>>
    BY <1>4 DEF Extend
  <2>3. \A t \in Workers : OnRoute(t) => job[t].a \in Slots \ {i}
    BY <2>1, AllocSparesPinned, JobFields DEF sess_alloc, OnRoute, Holds, JobInv
  <2>4. \A k \in Slots : k # i => routed'[k] = routed[k] /\ setup_done'[k] = setup_done[k]
                                  /\ pending'[k] = pending[k]
    BY <2>1 DEF TypeOK, sess_alloc
  <2>5. ~setup_done'[i] /\ pending'[i] = <<>>
    BY <2>1 DEF TypeOK, sess_alloc
  <2> QED BY <2>2, <2>3, <2>4, <2>5 DEF RoutedInv, OnRoute
<1>5. CASE UNCHANGED <<routed, setup_done, pending, pc, job>>
  BY <1>5 DEF RoutedInv, OnRoute
<1>6. CASE \/ \E s \in Sessions : StoreFull(s)
           \/ \E a \in ASessions, k \in Kind : ClientSend(a, k)
           \/ Tick \/ UNCHANGED vars
  BY <1>5, <1>6 DEF StoreFull, ClientSend, Tick, vars, slotVars, setupVars
<1> QED BY <1>1, <1>2, <1>3, <1>4, <1>6 DEF Next, FlushStep, Workers

\* Whichever thread sends a reply, and whenever it checked that there is a
\* route: the slot is pinned, so the route it uses is there.
THEOREM DispatchIsRoutedHolds == Spec => []DispatchIsRouted
<1>1. Init => RoutedInv
  BY DEF Init, RoutedInv, OnRoute
<1>2. RoutedInv => DispatchIsRouted
  BY DEF RoutedInv, OnRoute, DispatchIsRouted
<1> QED BY <1>1, <1>2, InitPin, NextPin, NextRouted, PTL DEF Spec
-----------------------------------------------------------------------------
(* Requests                                                                *)

\* A thread that can still put the reply to its request into the mailbox.
Asking(t) ==
  pc[t] \in {"candidate", "pinned", "find_b", "serve"} /\ job[t].kind = "request"

\* What threads carry: a reply taken from a mailbox while they look for the B
\* slot to send it through, nothing else before that.
JobFlow ==
  \A t \in Workers :
    /\ pc[t] \in {"candidate", "pinned"} => job[t].kind # "flush" /\ job[t].out = NoOut
    /\ pc[t] = "find_b" =>
         job[t].out = IF job[t].kind = "flush" THEN [flags |-> "real", n |-> job[t].n] ELSE NoOut
    /\ pc[t] = "serve" => job[t].kind = "request"

\* A request is on its way, or with one thread, or its reply has been queued.
AskedOnce ==
  /\ \A a \in ASessions, n \in Nat : Queued(a, n) => n <= sent[a]["request"]
  /\ \A p \in net : p.kind = "request" => p.n <= sent[p.sess]["request"] /\ ~Queued(p.sess, p.n)
  /\ \A t \in Workers : Asking(t) =>
       /\ job[t].n <= sent[job[t].sess]["request"] /\ ~Queued(job[t].sess, job[t].n)
       /\ \A p \in net : ~(p.sess = job[t].sess /\ p.kind = "request" /\ p.n = job[t].n)
  /\ \A t, u \in Workers :
       Asking(t) /\ Asking(u) /\ job[t].sess = job[u].sess /\ job[t].n = job[u].n => t = u

RequestInv == JobFlow /\ AskedOnce

\* Steps of a thread that goes on with its packet, or is done with it.
LEMMA AskedGoesOn ==
  ASSUME RequestInv, NEW t \in Workers, OneActs(t), UNCHANGED <<net, sent, queued>>,
         Asking(t)' => Asking(t) /\ job'[t].sess = job[t].sess /\ job'[t].n = job[t].n
  PROVE  AskedOnce'
<1>1. \A u \in Workers : Asking(u)' => Asking(u) /\ job'[u].sess = job[u].sess /\ job'[u].n = job[u].n
  BY DEF OneActs, Asking
<1>2. \A a, n : Queued(a, n)' <=> Queued(a, n)
  BY DEF Queued
<1> QED BY <1>1, <1>2 DEF RequestInv, AskedOnce

LEMMA FlowKept ==
  ASSUME RequestInv, NEW t \in Workers, OneActs(t),
         pc'[t] \in {"candidate", "pinned"} => job'[t].kind # "flush" /\ job'[t].out = NoOut,
         pc'[t] = "find_b" =>
           job'[t].out = IF job'[t].kind = "flush" THEN [flags |-> "real", n |-> job'[t].n] ELSE NoOut,
         pc'[t] = "serve" => job'[t].kind = "request"
  PROVE  JobFlow'
  BY DEF OneActs, RequestInv, JobFlow

LEMMA SnapshotAsks ==
  ASSUME PinInv, RequestInv, NEW t \in Workers, Snapshot(t)
  PROVE  RequestInv'
<1> USE DEF PinInv, Goto
<1>1. PICK p \in net, i \in Slots :
        /\ net' = net \ {p}
        /\ job' = [job EXCEPT ![t] = [sess |-> p.sess, kind |-> p.kind, n |-> p.n,
                                      a |-> i, b |-> NoSlot, out |-> NoOut]]
  BY DEF Snapshot
<1>2. /\ OneActs(t) /\ pc'[t] = "candidate" /\ UNCHANGED <<sent, queued>>
      /\ job'[t].sess = p.sess /\ job'[t].kind = p.kind /\ job'[t].n = p.n /\ job'[t].out = NoOut
  <2>1. OneActs(t)
    BY ActsAlone DEF ThreadStep, Handle
  <2>2. pc'[t] = "candidate" /\ UNCHANGED <<sent, queued>>
    BY DEF Snapshot, TypeOK, history
  <2>3. job'[t] = [sess |-> p.sess, kind |-> p.kind, n |-> p.n, a |-> i, b |-> NoSlot, out |-> NoOut]
    BY <1>1 DEF TypeOK
  <2> QED BY <2>1, <2>2, <2>3
<1>3. p.sess \in ASessions /\ p.kind # "flush" /\ p.n \in Nat
  BY DEF TypeOK, Packet, Kind
<1>4. \A a, n : Queued(a, n)' <=> Queued(a, n)
  BY <1>2 DEF Queued
<1>5. \A u \in Workers : u # t => (Asking(u)' <=> Asking(u)) /\ job'[u] = job[u]
  BY <1>2 DEF OneActs, Asking
<1>6. \A q \in net : q.sess = p.sess /\ q.kind = p.kind /\ q.n = p.n => q = p
  <2>1. \A q \in Packet : q = [sess |-> q.sess, kind |-> q.kind, n |-> q.n]
    BY DEF Packet
  <2>2. net \subseteq Packet
    BY DEF TypeOK
  <2> QED BY <2>1, <2>2
<1>7. Asking(t)' => p.kind = "request"
  BY <1>2 DEF Asking
<1>8. /\ \A a \in ASessions, n \in Nat : Queued(a, n)' => n <= sent'[a]["request"]
      /\ \A q \in net' : q.kind = "request" => q.n <= sent'[q.sess]["request"] /\ ~Queued(q.sess, q.n)'
  BY <1>1, <1>2, <1>4 DEF RequestInv, AskedOnce
<1>9. \A u \in Workers : Asking(u)' =>
       /\ job'[u].n <= sent'[job'[u].sess]["request"] /\ ~Queued(job[u].sess, job[u].n)'
       /\ \A q \in net' : ~(q.sess = job'[u].sess /\ q.kind = "request" /\ q.n = job'[u].n)
  <2> SUFFICES ASSUME NEW u \in Workers, Asking(u)'
               PROVE  /\ job'[u].n <= sent'[job'[u].sess]["request"] /\ ~Queued(job[u].sess, job[u].n)'
                      /\ \A q \in net' : ~(q.sess = job'[u].sess /\ q.kind = "request" /\ q.n = job'[u].n)
    OBVIOUS
  <2>1. CASE u = t
    BY <1>1, <1>2, <1>4, <1>6, <1>7, <2>1 DEF RequestInv, AskedOnce
  <2>2. CASE u # t
    BY <1>1, <1>2, <1>4, <1>5, <2>2 DEF RequestInv, AskedOnce
  <2> QED BY <2>1, <2>2
<1>10. \A u, v \in Workers :
        Asking(u)' /\ Asking(v)' /\ job'[u].sess = job'[v].sess /\ job'[u].n = job'[v].n => u = v
  <2>1. \A u \in Workers : u # t /\ Asking(u)' /\ Asking(t)' =>
          ~(job'[u].sess = p.sess /\ job'[u].n = p.n)
    BY <1>5, <1>7 DEF RequestInv, AskedOnce
  <2> QED BY <1>2, <1>5, <2>1 DEF RequestInv, AskedOnce
<1>11. JobFlow'
  BY <1>2, <1>3, FlowKept
<1> QED BY <1>8, <1>9, <1>10, <1>11 DEF RequestInv, AskedOnce

\* The steps of a thread but the first and the one that queues the reply.
LEMMA GoesOnAsks ==
  ASSUME PinInv, RequestInv, NEW t \in Workers,
         \/ NoCandidate(t) \/ find_a_session(t) \/ CheckSetup(t) \/ SetupWrite(t)
         \/ ClearSetup(t) \/ CommitSetup(t) \/ TagMismatch(t) \/ DrainByCover(t) \/ NoAnswer(t)
         \/ Unpin(t) \/ Dispatch(t) \/ (t = Flush /\ FlushUnpin)
  PROVE  RequestInv'
<1> USE DEF PinInv, Goto, Finish
<1>1. OneActs(t) /\ UNCHANGED <<sent, queued>> /\ net' \subseteq net
  <2>1. OneActs(t)
    BY ActsAlone DEF ThreadStep, Handle
  <2>2. UNCHANGED <<sent, queued>> /\ net' \subseteq net
    BY DEF NoCandidate, find_a_session, CheckSetup, SetupWrite, ClearSetup, CommitSetup, TagMismatch,
           DrainByCover, NoAnswer, Unpin, Dispatch, find_b_for_a, NoB, send_response_ex, DispatchFails,
           FlushUnpin, clientVars, history
  <2> QED BY <2>1, <2>2
<1>2. CASE NoCandidate(t)
  <2>1. pc' = pc /\ job' = job
    BY <1>2 DEF NoCandidate
  <2>2. \A a, n : Queued(a, n)' <=> Queued(a, n)
    BY <1>1 DEF Queued
  <2>3. \A u \in Workers : Asking(u)' <=> Asking(u)
    BY <2>1 DEF Asking
  <2> QED BY <1>1, <2>1, <2>2, <2>3 DEF RequestInv, AskedOnce, JobFlow
<1>3. CASE \/ ClearSetup(t) \/ CommitSetup(t) \/ TagMismatch(t) \/ DrainByCover(t) \/ NoAnswer(t)
           \/ Unpin(t) \/ NoB(t) \/ send_response_ex(t) \/ DispatchFails(t) \/ (t = Flush /\ FlushUnpin)
  <2>1. /\ pc'[t] \in {"unpin", "unset", "dispatch", "idle"} /\ net' = net
    <3>1. \/ \E l \in {"unpin", "unset", "dispatch", "idle"} : pc' = [pc EXCEPT ![t] = l]
          \/ pc' = pc /\ pc[t] = "unpin"
      BY <1>3 DEF ClearSetup, CommitSetup, TagMismatch, DrainByCover, NoAnswer, Unpin, NoB,
                  send_response_ex, DispatchFails, FlushUnpin
    <3>2. net' = net
      BY <1>3 DEF ClearSetup, CommitSetup, TagMismatch, DrainByCover, NoAnswer, Unpin, NoB,
                  send_response_ex, DispatchFails, FlushUnpin, clientVars
    <3> QED BY <3>1, <3>2 DEF TypeOK
  <2> QED BY <1>1, <2>1, AskedGoesOn, FlowKept DEF RequestInv, Asking
<1>4. CASE CheckSetup(t) \/ SetupWrite(t)
  <2>1. /\ pc[t] = "pinned" /\ pc'[t] \in {"find_b", "unpin"} /\ net' = net /\ job' = job
    BY <1>4 DEF TypeOK, CheckSetup, SetupWrite, clientVars
  <2>2. Asking(t)' => Asking(t)
    BY <2>1 DEF Asking
  <2> QED BY <1>1, <2>1, <2>2, AskedGoesOn, FlowKept DEF RequestInv, JobFlow
<1>5. CASE find_a_session(t)
  <2>1. /\ pc[t] = "candidate" /\ net' = net
        /\ (pc'[t] = "pinned" /\ job' = job) \/ pc'[t] = "idle"
    BY <1>5 DEF TypeOK, find_a_session, clientVars
  <2>2. Asking(t)' => Asking(t) /\ job' = job
    BY <2>1 DEF Asking
  <2> QED BY <1>1, <2>1, <2>2, AskedGoesOn, FlowKept DEF RequestInv, JobFlow
<1>6. CASE find_b_for_a(t)
  <2>1. /\ pc[t] = "find_b" /\ net' = net /\ job[t] \in Job
        /\ pc'[t] = AfterFindB(job[t].kind) /\ job'[t] = [job[t] EXCEPT !.b = BoundB(job[t].a)]
    BY <1>6 DEF TypeOK, find_b_for_a, clientVars, JobInv
  <2>2. /\ job'[t].sess = job[t].sess /\ job'[t].kind = job[t].kind /\ job'[t].n = job[t].n
    BY <2>1 DEF Job
  <2>3. job[t].kind \in {"setup", "request", "cover", "flush"}
    BY <2>1 DEF Job, Kind
  <2>4. /\ pc'[t] \in {"pop", "verify", "serve", "dispatch"}
        /\ pc'[t] = "serve" => job[t].kind = "request"
    BY <2>1, <2>3 DEF AfterFindB
  <2>5. Asking(t)' => Asking(t)
    BY <2>1, <2>2 DEF Asking
  <2> QED BY <1>1, <2>1, <2>2, <2>4, <2>5, AskedGoesOn, FlowKept DEF RequestInv
<1> QED BY <1>2, <1>3, <1>4, <1>5, <1>6 DEF Dispatch

LEMMA ServeAsks ==
  ASSUME PinInv, RequestInv, NEW t \in Workers, send_response(t)
  PROVE  /\ RequestInv'
         /\ Asking(t) /\ job[t].sess \in ASessions /\ job[t].n \in Nat
         /\ ~Queued(job[t].sess, job[t].n)
         /\ \A a \in ASessions, n \in Nat :
              Queued(a, n)' <=> Queued(a, n) \/ (a = job[t].sess /\ n = job[t].n)
<1> USE DEF PinInv, Goto
<1> DEFINE s == job[t].sess
           m == job[t].n
<1>1. OneActs(t) /\ pc[t] = "serve" /\ pc'[t] = "unpin" /\ UNCHANGED <<job, net, sent>>
  BY DEF TypeOK, OneActs, send_response, slotVars, clientVars
<1>2. job[t] \in Job /\ job[t].kind = "request" /\ Asking(t)
  BY <1>1 DEF JobInv, RequestInv, JobFlow, Asking
<1>3. s \in ASessions /\ m \in Nat
  BY <1>2, JobFields
<1>4. queued' = [queued EXCEPT ![s] = Append(@, m)] /\ queued \in [ASessions -> Seq(Nat)]
  BY DEF send_response, TypeOK
<1>5. \A a \in ASessions, n \in Nat : Queued(a, n)' <=> Queued(a, n) \/ (a = s /\ n = m)
  <2> SUFFICES ASSUME NEW a \in ASessions, NEW n \in Nat
               PROVE  Queued(a, n)' <=> Queued(a, n) \/ (a = s /\ n = m)
    OBVIOUS
  <2>1. CASE a # s
    BY <1>3, <1>4, <2>1 DEF Queued
  <2>2. CASE a = s
    <3>1. queued'[a] = Append(queued[a], m) /\ queued[a] \in Seq(Nat)
      BY <1>3, <1>4, <2>2
    <3>2. Len(queued[a]) + 1 \in DOMAIN queued'[a] /\ queued'[a][Len(queued[a]) + 1] = m
      BY <1>3, <3>1
    <3>3. \A k \in DOMAIN queued[a] : k \in DOMAIN queued'[a] /\ queued'[a][k] = queued[a][k]
      BY <1>3, <3>1
    <3>4. \A k \in DOMAIN queued'[a] : k \in DOMAIN queued[a] \/ k = Len(queued[a]) + 1
      BY <1>3, <3>1
    <3> QED BY <2>2, <3>2, <3>3, <3>4 DEF Queued
  <2> QED BY <2>1, <2>2
<1>6. \A u \in Workers : Asking(u)' => Asking(u) /\ u # t /\ job'[u] = job[u]
  BY <1>1 DEF OneActs, Asking
<1>7. ~Queued(s, m) /\ m <= sent[s]["request"]
  BY <1>2 DEF RequestInv, AskedOnce
<1>8. \A u \in Workers : Asking(u) => job[u].sess \in ASessions /\ job[u].n \in Nat
  BY JobFields DEF JobInv, Asking
<1>9. \A p \in net : p.sess \in ASessions /\ p.n \in Nat
  BY DEF TypeOK, Packet
<1>10. /\ \A a \in ASessions, n \in Nat : Queued(a, n)' => n <= sent'[a]["request"]
       /\ \A p \in net' : p.kind = "request" => p.n <= sent'[p.sess]["request"] /\ ~Queued(p.sess, p.n)'
  BY <1>1, <1>2, <1>5, <1>7, <1>9 DEF RequestInv, AskedOnce
<1>11. ASSUME NEW u \in Workers, Asking(u)'
       PROVE  /\ job'[u].n <= sent'[job'[u].sess]["request"] /\ ~Queued(job[u].sess, job[u].n)'
              /\ \A p \in net' : ~(p.sess = job'[u].sess /\ p.kind = "request" /\ p.n = job'[u].n)
  <2>1. ~(job[u].sess = s /\ job[u].n = m)
    BY <1>2, <1>6, <1>11 DEF RequestInv, AskedOnce
  <2>2. ~Queued(job[u].sess, job[u].n)'
    BY <1>5, <1>6, <1>8, <1>11, <2>1 DEF RequestInv, AskedOnce
  <2> QED BY <1>1, <1>6, <1>11, <2>2 DEF RequestInv, AskedOnce
<1>12. AskedOnce'
  BY <1>1, <1>6, <1>10, <1>11 DEF RequestInv, AskedOnce
<1>13. JobFlow'
  BY <1>1, FlowKept
<1> QED BY <1>2, <1>3, <1>5, <1>7, <1>12, <1>13 DEF RequestInv

LEMMA ClientAsks ==
  ASSUME PinInv, RequestInv, NEW a \in ASessions, NEW k \in Kind, ClientSend(a, k)
  PROVE  RequestInv'
<1> USE DEF PinInv
<1>1. /\ UNCHANGED <<pc, job, queued>>
      /\ net' = net \cup {[sess |-> a, kind |-> k, n |-> sent[a][k] + 1]}
      /\ sent' = [sent EXCEPT ![a] = [sent[a] EXCEPT ![k] = sent[a][k] + 1]]
  BY DEF ClientSend, history
<1>2. \A s \in ASessions, c \in Kind : sent[s][c] \in Nat /\ sent'[s][c] =
        IF s = a /\ c = k THEN sent[s][c] + 1 ELSE sent[s][c]
  BY <1>1, SMTT(60) DEF TypeOK
<1>3. "request" \in Kind
  BY DEF Kind
<1>4. \A s \in ASessions : sent[s]["request"] \in Nat /\ sent'[s]["request"] \in Nat
                           /\ sent[s]["request"] <= sent'[s]["request"]
                           /\ (s = a /\ k = "request" => sent'[s]["request"] = sent[s]["request"] + 1)
  BY <1>2, <1>3
<1>5. \A s, n : Queued(s, n)' <=> Queued(s, n)
  BY <1>1 DEF Queued
<1>6. \A t \in Workers : (Asking(t)' <=> Asking(t))
                         /\ (Asking(t) => job[t].sess \in ASessions /\ job[t].n \in Nat)
  BY <1>1, JobFields DEF Asking, JobInv
<1>7. \A p \in net : p.sess \in ASessions /\ p.n \in Nat
  BY DEF TypeOK, Packet
<1> DEFINE new == [sess |-> a, kind |-> k, n |-> sent[a][k] + 1]
<1>8. \A p \in net' : p \in net \/ (p = new /\ p.sess = a /\ p.kind = k /\ p.n = sent[a][k] + 1)
  BY <1>1
<1>9. \A s \in ASessions, n \in Nat : Queued(s, n) => n <= sent'[s]["request"]
  BY <1>4 DEF RequestInv, AskedOnce
<1>10. \A p \in net' : p.kind = "request" => p.n <= sent'[p.sess]["request"] /\ ~Queued(p.sess, p.n)
  <2> SUFFICES ASSUME NEW p \in net', p.kind = "request"
               PROVE  p.n <= sent'[p.sess]["request"] /\ ~Queued(p.sess, p.n)
    OBVIOUS
  <2>1. CASE p \in net
    BY <1>4, <1>7, <2>1 DEF RequestInv, AskedOnce
  <2>2. CASE p \notin net
    <3>1. p.sess = a /\ k = "request" /\ p.n = sent[a]["request"] + 1
      BY <1>8, <2>2
    <3> QED BY <1>4, <3>1 DEF RequestInv, AskedOnce
  <2> QED BY <2>1, <2>2
<1>11. \A t \in Workers : Asking(t) =>
       /\ job[t].n <= sent'[job[t].sess]["request"] /\ ~Queued(job[t].sess, job[t].n)
       /\ \A p \in net' : ~(p.sess = job[t].sess /\ p.kind = "request" /\ p.n = job[t].n)
  <2> SUFFICES ASSUME NEW t \in Workers, Asking(t)
               PROVE  /\ job[t].n <= sent'[job[t].sess]["request"] /\ ~Queued(job[t].sess, job[t].n)
                      /\ \A p \in net' : ~(p.sess = job[t].sess /\ p.kind = "request" /\ p.n = job[t].n)
    OBVIOUS
  <2>1. /\ job[t].n <= sent[job[t].sess]["request"] /\ ~Queued(job[t].sess, job[t].n)
        /\ \A p \in net : ~(p.sess = job[t].sess /\ p.kind = "request" /\ p.n = job[t].n)
    BY DEF RequestInv, AskedOnce
  <2>2. \A p \in net' : ~(p.sess = job[t].sess /\ p.kind = "request" /\ p.n = job[t].n)
    BY <1>4, <1>6, <1>8, <2>1
  <2> QED BY <1>4, <1>6, <2>1, <2>2
<1>12. AskedOnce'
  BY <1>1, <1>5, <1>6, <1>9, <1>10, <1>11 DEF RequestInv, AskedOnce
<1>13. JobFlow'
  BY <1>1 DEF RequestInv, JobFlow
<1> QED BY <1>12, <1>13 DEF RequestInv

LEMMA PopAsks ==
  ASSUME PinInv, RequestInv, NEW i \in Slots, FlushPop(i)
  PROVE  RequestInv'
<1>1. Flush \in Workers /\ OneActs(Flush) /\ pc'[Flush] = "find_b" /\ UNCHANGED <<net, sent, queued>>
  BY DEF Workers, OneActs, PinInv, TypeOK, FlushPop, Goto, slotVars, clientVars, history
<1>2. /\ job'[Flush].kind = "flush" /\ job'[Flush].n = Head(pending[i]).n
      /\ job'[Flush].out = [flags |-> "real", n |-> Head(pending[i]).n]
  BY <1>1 DEF PinInv, TypeOK, FlushPop, Reply
<1>3. ~Asking(Flush)'
  BY <1>2 DEF Asking
<1> QED BY <1>1, <1>2, <1>3, AskedGoesOn, FlowKept DEF RequestInv

LEMMA NextAsks == PinInv /\ RequestInv /\ [Next]_vars => RequestInv'
<1> SUFFICES ASSUME PinInv, RequestInv, [Next]_vars PROVE RequestInv'
  OBVIOUS
<1>1. CASE \E t \in Workers : Handle(t) \/ Dispatch(t)
  BY <1>1, SnapshotAsks, GoesOnAsks, ServeAsks DEF Handle
<1>2. CASE FlushUnpin
  BY <1>2, GoesOnAsks DEF Workers
<1>3. CASE \E i \in Slots : FlushPop(i)
  BY <1>3, PopAsks
<1>4. CASE \E a \in ASessions, k \in Kind : ClientSend(a, k)
  BY <1>4, ClientAsks
<1>5. CASE (\E s \in Sessions : Extend(s) \/ StoreFull(s)) \/ Tick \/ UNCHANGED vars
  <2>1. UNCHANGED <<pc, job, net, sent, queued>>
    BY <1>5 DEF Extend, StoreFull, Tick, vars, clientVars, history
  <2> QED BY <2>1 DEF RequestInv, JobFlow, AskedOnce, Asking, Queued
<1> QED BY <1>1, <1>2, <1>3, <1>4, <1>5 DEF Next, FlushStep, Workers
-----------------------------------------------------------------------------
(* Replies                                                                 *)

\* The four places a reply can be in.
BoxAt(a, n, i, k) == owner[i] = a /\ k \in DOMAIN pending[i] /\ pending[i][k].n = n
HandAt(a, n, t)   == /\ job[t].sess = a /\ pc[t] \in {"find_b", "dispatch"}
                     /\ job[t].out = [flags |-> "real", n |-> n]
LeftAt(a, n, k)   == k \in DOMAIN left[a] /\ left[a][k] = n

Boxed(a, n)  == \E i \in Slots, k \in Nat : BoxAt(a, n, i, k)
Handed(a, n) == \E t \in Workers : HandAt(a, n, t)
HasLeft(a, n) == \E k \in Nat : LeftAt(a, n, k)
Lost(a, n)   == <<a, n>> \in lost

BoxedOnce(a, n) == \A i, j \in Slots : \A k, l \in Nat :
                     BoxAt(a, n, i, k) /\ BoxAt(a, n, j, l) => i = j /\ k = l
HandedOnce(a, n) == \A t, u \in Workers : HandAt(a, n, t) /\ HandAt(a, n, u) => t = u
LeftOnce(a, n) == \A k, l \in Nat : LeftAt(a, n, k) /\ LeftAt(a, n, l) => k = l

\* A queued reply is in one of them, and there once.
OnePlace(a, n) ==
  /\ Queued(a, n) <=> Boxed(a, n) \/ Handed(a, n) \/ HasLeft(a, n) \/ Lost(a, n)
  /\ ~(Boxed(a, n) /\ Handed(a, n)) /\ ~(Boxed(a, n) /\ HasLeft(a, n)) /\ ~(Boxed(a, n) /\ Lost(a, n))
  /\ ~(Handed(a, n) /\ HasLeft(a, n)) /\ ~(Handed(a, n) /\ Lost(a, n)) /\ ~(HasLeft(a, n) /\ Lost(a, n))

Accounted(a, n) == OnePlace(a, n) /\ BoxedOnce(a, n) /\ HandedOnce(a, n) /\ LeftOnce(a, n)

AccountInv == \A a \in ASessions, n \in Nat : Accounted(a, n)

LEMMA TailOf ==
  ASSUME NEW S, NEW q \in Seq(S), q # <<>>
  PROVE  /\ Len(q) \in Nat \ {0} /\ DOMAIN q = 1 .. Len(q)
         /\ Tail(q) \in Seq(S) /\ Len(Tail(q)) = Len(q) - 1 /\ DOMAIN Tail(q) = 1 .. (Len(q) - 1)
         /\ \A k \in 1 .. (Len(q) - 1) : Tail(q)[k] = q[k + 1]
         /\ Head(q) = q[1]
<1>1. Len(q) \in Nat /\ Len(q) # 0 /\ DOMAIN q = 1 .. Len(q) /\ Head(q) = q[1]
  OBVIOUS
<1>2. Tail(q) \in Seq(S) /\ Len(Tail(q)) = Len(q) - 1
  OBVIOUS
<1>3. DOMAIN Tail(q) = 1 .. (Len(q) - 1)
  BY <1>2
<1>4. \A k \in 1 .. (Len(q) - 1) : Tail(q)[k] = q[k + 1]
  BY <1>1
<1> QED BY <1>1, <1>2, <1>3, <1>4

LEMMA AppendOf ==
  ASSUME NEW S, NEW q \in Seq(S), NEW x \in S
  PROVE  /\ DOMAIN Append(q, x) = 1 .. (Len(q) + 1) /\ Append(q, x)[Len(q) + 1] = x
         /\ \A k \in 1 .. Len(q) : Append(q, x)[k] = q[k]
  OBVIOUS

\* What is left of a mailbox whose oldest reply is taken.
LEMMA TailBox ==
  ASSUME TypeOK, NEW i \in Slots, NEW a \in ASessions, NEW n \in Nat, BoxedOnce(a, n),
         pending[i] # <<>>, UNCHANGED owner, pending' = [pending EXCEPT ![i] = Tail(@)]
  PROVE  /\ BoxedOnce(a, n)'
         /\ IF owner[i] = a /\ Head(pending[i]).n = n
              THEN Boxed(a, n) /\ ~Boxed(a, n)' ELSE Boxed(a, n)' <=> Boxed(a, n)
<1>1. pending[i] \in Seq(Entry) /\ pending'[i] = Tail(pending[i])
      /\ \A j \in Slots : j # i => pending'[j] = pending[j]
  BY DEF TypeOK
<1>2. /\ Len(pending[i]) \in Nat \ {0} /\ DOMAIN pending[i] = 1 .. Len(pending[i])
      /\ DOMAIN pending'[i] = 1 .. (Len(pending[i]) - 1)
      /\ \A k \in DOMAIN pending'[i] : pending'[i][k] = pending[i][k + 1]
      /\ Head(pending[i]) = pending[i][1]
  <2>1. /\ Len(pending[i]) \in Nat \ {0} /\ DOMAIN pending[i] = 1 .. Len(pending[i])
        /\ DOMAIN Tail(pending[i]) = 1 .. (Len(pending[i]) - 1)
        /\ \A k \in 1 .. (Len(pending[i]) - 1) : Tail(pending[i])[k] = pending[i][k + 1]
        /\ Head(pending[i]) = pending[i][1]
    BY ONLY <1>1, pending[i] # <<>>, TailOf
  <2> QED BY <1>1, <2>1
<1>3. \A j \in Slots, k \in Nat :
        BoxAt(a, n, j, k)' <=> IF j = i THEN k # 0 /\ BoxAt(a, n, i, k + 1) ELSE BoxAt(a, n, j, k)
  BY <1>1, <1>2 DEF BoxAt
<1>4. BoxedOnce(a, n)'
  <2> SUFFICES ASSUME NEW j \in Slots, NEW m \in Slots, NEW k \in Nat, NEW l \in Nat,
                      BoxAt(a, n, j, k)', BoxAt(a, n, m, l)'
               PROVE  j = m /\ k = l
    BY DEF BoxedOnce
  <2>1. k + 1 \in Nat /\ l + 1 \in Nat
    OBVIOUS
  <2> QED BY <1>3, <2>1 DEF BoxedOnce
<1>5. CASE owner[i] = a /\ Head(pending[i]).n = n
  <2>1. BoxAt(a, n, i, 1)
    BY <1>2, <1>5 DEF BoxAt
  <2>2. ASSUME NEW j \in Slots, NEW k \in Nat, BoxAt(a, n, j, k)' PROVE FALSE
    <3>1. CASE j = i
      <4>1. k # 0 /\ BoxAt(a, n, i, k + 1) /\ k + 1 \in Nat
        BY <1>3, <2>2, <3>1
      <4> QED BY <2>1, <4>1 DEF BoxedOnce
    <3>2. CASE j # i
      BY <1>3, <2>1, <2>2, <3>2 DEF BoxedOnce
    <3> QED BY <3>1, <3>2
  <2>3. Boxed(a, n) /\ ~Boxed(a, n)'
    BY <2>1, <2>2 DEF Boxed
  <2> QED BY <1>4, <1>5, <2>3
<1>6. CASE ~(owner[i] = a /\ Head(pending[i]).n = n)
  <2>1. ASSUME Boxed(a, n)' PROVE Boxed(a, n)
    <3>1. PICK j \in Slots, k \in Nat : BoxAt(a, n, j, k)'
      BY <2>1 DEF Boxed
    <3>2. k + 1 \in Nat
      OBVIOUS
    <3> QED BY <1>3, <3>1, <3>2 DEF Boxed
  <2>2. ASSUME Boxed(a, n) PROVE Boxed(a, n)'
    <3>1. PICK j \in Slots, k \in Nat : BoxAt(a, n, j, k)
      BY <2>2 DEF Boxed
    <3>2. CASE j = i
      <4>1. k \in Nat \ {0, 1}
        BY <1>2, <1>6, <3>1, <3>2 DEF BoxAt
      <4>2. k - 1 \in Nat /\ k - 1 # 0 /\ (k - 1) + 1 = k
        BY <4>1
      <4>3. BoxAt(a, n, i, k - 1)'
        BY <1>3, <3>1, <3>2, <4>2
      <4> QED BY <4>2, <4>3 DEF Boxed
    <3>3. CASE j # i
      BY <1>3, <3>1, <3>3 DEF Boxed
    <3> QED BY <3>2, <3>3
  <2> QED BY <1>4, <1>6, <2>1, <2>2
<1> QED BY <1>5, <1>6

\* A new reply at the end of a mailbox that keeps, or loses, its oldest one.
LEMMA AppendBox ==
  ASSUME TypeOK, NEW i \in Slots, NEW m \in Nat, NEW tick \in 0 .. (TICK_MOD - 1),
         NEW a \in ASessions, NEW n \in Nat, BoxedOnce(a, n),
         owner[i] = a /\ m = n => ~Boxed(a, n),
         UNCHANGED owner,
         pending' = [pending EXCEPT ![i] = Append(@, [n |-> m, since |-> tick])]
  PROVE  /\ BoxedOnce(a, n)'
         /\ Boxed(a, n)' <=> Boxed(a, n) \/ (owner[i] = a /\ m = n)
<1> DEFINE e == [n |-> m, since |-> tick]
           N == Len(pending[i]) + 1
<1>1. pending[i] \in Seq(Entry) /\ e \in Entry /\ pending'[i] = Append(pending[i], e)
      /\ \A j \in Slots : j # i => pending'[j] = pending[j]
  BY DEF TypeOK, Entry
<1>2. /\ Len(pending[i]) \in Nat /\ DOMAIN pending[i] = 1 .. Len(pending[i])
      /\ DOMAIN pending'[i] = 1 .. N
      /\ \A k \in DOMAIN pending[i] : pending'[i][k] = pending[i][k]
      /\ pending'[i][N] = e
  BY <1>1
<1>3. e.n = m
  OBVIOUS
<1>4. \A j \in Slots, k \in Nat :
        BoxAt(a, n, j, k)' <=> BoxAt(a, n, j, k) \/ (j = i /\ k = N /\ owner[i] = a /\ m = n)
  <2> HIDE DEF e
  <2> QED BY <1>1, <1>2, <1>3 DEF BoxAt
<1>5. BoxedOnce(a, n)'
  BY <1>4 DEF BoxedOnce, Boxed
<1>6. Boxed(a, n)' <=> Boxed(a, n) \/ (owner[i] = a /\ m = n)
  <2>1. N \in Nat
    BY <1>2
  <2> HIDE DEF N
  <2> QED BY <1>4, <2>1 DEF Boxed
<1> QED BY <1>5, <1>6

LEMMA FullBox ==
  ASSUME TypeOK, NEW i \in Slots, NEW m \in Nat, NEW tick \in 0 .. (TICK_MOD - 1),
         NEW a \in ASessions, NEW n \in Nat, BoxedOnce(a, n), pending[i] # <<>>,
         owner[i] = a /\ m = n => ~Boxed(a, n),
         UNCHANGED owner,
         pending' = [pending EXCEPT ![i] = Append(Tail(@), [n |-> m, since |-> tick])]
  PROVE  /\ BoxedOnce(a, n)'
         /\ IF owner[i] = a /\ Head(pending[i]).n = n
              THEN Boxed(a, n) /\ ~Boxed(a, n)'
              ELSE Boxed(a, n)' <=> Boxed(a, n) \/ (owner[i] = a /\ m = n)
<1> DEFINE e == [n |-> m, since |-> tick]
           N == Len(pending[i])
<1>1. pending[i] \in Seq(Entry) /\ e \in Entry /\ pending'[i] = Append(Tail(pending[i]), e)
      /\ \A j \in Slots : j # i => pending'[j] = pending[j]
  BY DEF TypeOK, Entry
<1>2. /\ N \in Nat \ {0} /\ DOMAIN pending[i] = 1 .. N
      /\ DOMAIN pending'[i] = 1 .. N
      /\ \A k \in 1 .. (N - 1) : pending'[i][k] = pending[i][k + 1]
      /\ pending'[i][N] = e /\ Head(pending[i]) = pending[i][1]
  <2> HIDE DEF e
  <2>1. /\ N \in Nat \ {0} /\ DOMAIN pending[i] = 1 .. N /\ Head(pending[i]) = pending[i][1]
        /\ Tail(pending[i]) \in Seq(Entry) /\ Len(Tail(pending[i])) = N - 1
        /\ \A k \in 1 .. (N - 1) : Tail(pending[i])[k] = pending[i][k + 1]
    BY <1>1, TailOf
  <2>2. /\ DOMAIN pending'[i] = 1 .. N /\ pending'[i][N] = e
        /\ \A k \in 1 .. (N - 1) : pending'[i][k] = Tail(pending[i])[k]
    <3> DEFINE q == Tail(pending[i])
    <3>1. q \in Seq(Entry) /\ Len(q) = N - 1 /\ e \in Entry /\ pending'[i] = Append(q, e)
      BY <1>1, <2>1
    <3> HIDE DEF q
    <3>2. /\ DOMAIN Append(q, e) = 1 .. (Len(q) + 1) /\ Append(q, e)[Len(q) + 1] = e
          /\ \A k \in 1 .. Len(q) : Append(q, e)[k] = q[k]
      BY ONLY <3>1, AppendOf
    <3>3. Len(q) + 1 = N
      BY <2>1, <3>1
    <3> QED BY <3>1, <3>2, <3>3 DEF q
  <2> QED BY <2>1, <2>2
<1>3. e.n = m
  OBVIOUS
<1>4. \A j \in Slots, k \in Nat :
        BoxAt(a, n, j, k)' <=>
          IF j = i THEN \/ k # 0 /\ BoxAt(a, n, i, k + 1)
                        \/ k = N /\ owner[i] = a /\ m = n
                   ELSE BoxAt(a, n, j, k)
  <2> HIDE DEF e
  <2> QED BY <1>1, <1>2, <1>3 DEF BoxAt
<1>5. ~BoxAt(a, n, i, N + 1)
  BY <1>2 DEF BoxAt
<1> HIDE DEF N
<1>6. BoxedOnce(a, n)'
  <2> SUFFICES ASSUME NEW j \in Slots, NEW o \in Slots, NEW k \in Nat, NEW l \in Nat,
                      BoxAt(a, n, j, k)', BoxAt(a, n, o, l)'
               PROVE  j = o /\ k = l
    BY DEF BoxedOnce
  <2>1. k + 1 \in Nat /\ l + 1 \in Nat
    OBVIOUS
  <2>2. CASE owner[i] = a /\ m = n
    BY <1>4, <2>1, <2>2 DEF Boxed
  <2>3. CASE ~(owner[i] = a /\ m = n)
    BY <1>4, <2>1, <2>3 DEF BoxedOnce
  <2> QED BY <2>2, <2>3
<1>7. CASE owner[i] = a /\ Head(pending[i]).n = n
  <2>1. BoxAt(a, n, i, 1)
    BY <1>2, <1>7 DEF BoxAt
  <2>2. m # n
    BY <1>7, <2>1 DEF Boxed
  <2>3. ASSUME NEW j \in Slots, NEW k \in Nat, BoxAt(a, n, j, k)' PROVE FALSE
    <3>1. CASE j = i
      <4>1. k # 0 /\ BoxAt(a, n, i, k + 1) /\ k + 1 \in Nat
        BY <1>4, <2>2, <2>3, <3>1
      <4> QED BY <2>1, <4>1 DEF BoxedOnce
    <3>2. CASE j # i
      BY <1>4, <2>1, <2>3, <3>2 DEF BoxedOnce
    <3> QED BY <3>1, <3>2
  <2>4. Boxed(a, n) /\ ~Boxed(a, n)'
    BY <2>1, <2>3 DEF Boxed
  <2> QED BY <1>6, <1>7, <2>4
<1>8. CASE ~(owner[i] = a /\ Head(pending[i]).n = n)
  <2>1. ASSUME Boxed(a, n)' PROVE Boxed(a, n) \/ (owner[i] = a /\ m = n)
    <3>1. PICK j \in Slots, k \in Nat : BoxAt(a, n, j, k)'
      BY <2>1 DEF Boxed
    <3>2. k + 1 \in Nat
      OBVIOUS
    <3> QED BY <1>4, <3>1, <3>2 DEF Boxed
  <2>2. ASSUME owner[i] = a, m = n PROVE Boxed(a, n)'
    <3>1. \E k \in Nat : BoxAt(a, n, i, k)'
      <4>1. N \in Nat
        BY <1>2
      <4> QED BY <1>4, <2>2, <4>1
    <3> QED BY <3>1 DEF Boxed
  <2>3. ASSUME Boxed(a, n) PROVE Boxed(a, n)'
    <3>1. PICK j \in Slots, k \in Nat : BoxAt(a, n, j, k)
      BY <2>3 DEF Boxed
    <3>2. CASE j = i
      <4>1. k \in Nat \ {0, 1}
        BY <1>2, <1>8, <3>1, <3>2 DEF BoxAt
      <4>2. k - 1 \in Nat /\ k - 1 # 0 /\ (k - 1) + 1 = k
        BY <4>1
      <4>3. BoxAt(a, n, i, k - 1)'
        BY <1>4, <3>1, <3>2, <4>2
      <4> QED BY <4>2, <4>3 DEF Boxed
    <3>3. CASE j # i
      BY <1>4, <3>1, <3>3 DEF Boxed
    <3> QED BY <3>2, <3>3
  <2> QED BY <1>6, <1>8, <2>1, <2>2, <2>3
<1> QED BY <1>7, <1>8

\* One thread puts down or picks up a reply.
LEMMA OneHand ==
  ASSUME NEW t \in Workers, OneActs(t), NEW a, NEW n, HandedOnce(a, n),
         HandAt(a, n, t)' => HandAt(a, n, t) \/ ~Handed(a, n)
  PROVE  /\ HandedOnce(a, n)'
         /\ Handed(a, n)' <=> HandAt(a, n, t)' \/ (Handed(a, n) /\ ~HandAt(a, n, t))
<1>1. \A u \in Workers : u # t => (HandAt(a, n, u)' <=> HandAt(a, n, u))
  BY DEF OneActs, HandAt
<1> QED BY <1>1 DEF HandedOnce, Handed

\* A reply goes out.
LEMMA OneLeaves ==
  ASSUME TypeOK, NEW s \in ASessions, NEW m \in Nat, NEW a \in ASessions, NEW n \in Nat,
         LeftOnce(a, n), a = s /\ n = m => ~HasLeft(a, n),
         left' = [left EXCEPT ![s] = Append(@, m)]
  PROVE  /\ LeftOnce(a, n)'
         /\ HasLeft(a, n)' <=> HasLeft(a, n) \/ (a = s /\ n = m)
<1> DEFINE N == Len(left[s]) + 1
<1>1. left[s] \in Seq(Nat) /\ left'[s] = Append(left[s], m)
      /\ \A b \in ASessions : b # s => left'[b] = left[b]
  BY DEF TypeOK
<1>2. /\ N \in Nat /\ DOMAIN left[s] = 1 .. (N - 1) /\ DOMAIN left'[s] = 1 .. N
      /\ \A k \in DOMAIN left[s] : left'[s][k] = left[s][k]
      /\ left'[s][N] = m
  BY <1>1
<1> HIDE DEF N
<1>3. \A k \in Nat : LeftAt(a, n, k)' <=> LeftAt(a, n, k) \/ (a = s /\ n = m /\ k = N)
  BY <1>1, <1>2 DEF LeftAt
<1>4. LeftOnce(a, n)'
  BY <1>3 DEF LeftOnce, HasLeft
<1>5. HasLeft(a, n)' <=> HasLeft(a, n) \/ (a = s /\ n = m)
  BY <1>2, <1>3 DEF HasLeft
<1> QED BY <1>4, <1>5

\* What a step leaves alone.
LEMMA SamePlaces ==
  ASSUME NEW a, NEW n
  PROVE  /\ UNCHANGED <<owner, pending>> /\ BoxedOnce(a, n) =>
              BoxedOnce(a, n)' /\ (Boxed(a, n)' <=> Boxed(a, n))
         /\ UNCHANGED <<pc, job>> /\ HandedOnce(a, n) =>
              HandedOnce(a, n)' /\ (Handed(a, n)' <=> Handed(a, n))
         /\ UNCHANGED left /\ LeftOnce(a, n) => LeftOnce(a, n)' /\ (HasLeft(a, n)' <=> HasLeft(a, n))
         /\ UNCHANGED lost => (Lost(a, n)' <=> Lost(a, n))
         /\ UNCHANGED queued => (Queued(a, n)' <=> Queued(a, n))
<1>1. UNCHANGED <<owner, pending>> /\ BoxedOnce(a, n) =>
              BoxedOnce(a, n)' /\ (Boxed(a, n)' <=> Boxed(a, n))
  BY DEF BoxedOnce, Boxed, BoxAt
<1>2. UNCHANGED <<pc, job>> /\ HandedOnce(a, n) =>
              HandedOnce(a, n)' /\ (Handed(a, n)' <=> Handed(a, n))
  BY DEF HandedOnce, Handed, HandAt
<1>3. UNCHANGED left /\ LeftOnce(a, n) => LeftOnce(a, n)' /\ (HasLeft(a, n)' <=> HasLeft(a, n))
  BY DEF LeftOnce, HasLeft, LeftAt
<1>4. UNCHANGED lost => (Lost(a, n)' <=> Lost(a, n))
  BY DEF Lost
<1>5. UNCHANGED queued => (Queued(a, n)' <=> Queued(a, n))
  BY DEF Queued
<1> QED BY <1>1, <1>2, <1>3, <1>4, <1>5

\* A cover takes the oldest reply out of the mailbox.
LEMMA DrainAccounts ==
  ASSUME PinInv, AccountInv, NEW t \in Workers, DrainByCover(t)
  PROVE  AccountInv'
<1> DEFINE s == job[t].sess
           i == job[t].a
<1>1. job[t] \in Job /\ pc[t] = "pop" /\ i \in Slots /\ owner[i] = s
  BY JobFields DEF PinInv, JobInv, PinnedInv, Active, DrainByCover
<1>2. OneActs(t) /\ UNCHANGED <<left, lost, queued, owner>> /\ pc'[t] = "dispatch"
  BY DEF OneActs, DrainByCover, PinInv, TypeOK, Goto, slotVars, history
<1>3. ASSUME NEW a \in ASessions, NEW n \in Nat
      PROVE  Accounted(a, n)'
  <2>1. Accounted(a, n)
    BY DEF AccountInv
  <2>2. ~HandAt(a, n, t)
    BY <1>1 DEF HandAt
  <2>3. CASE pending[i] # <<>>
    <3>1. /\ pending' = [pending EXCEPT ![i] = Tail(@)]
          /\ job' = [job EXCEPT ![t] = [job[t] EXCEPT !.out = Reply(Head(pending[i]))]]
      BY <2>3 DEF DrainByCover
    <3>2. job'[t].sess = s /\ job'[t].out = [flags |-> "real", n |-> Head(pending[i]).n]
      BY <1>1, <3>1 DEF PinInv, TypeOK, Reply, Job
    <3>3. HandAt(a, n, t)' <=> owner[i] = a /\ Head(pending[i]).n = n
      BY <1>1, <1>2, <3>2 DEF HandAt
    <3>4. /\ BoxedOnce(a, n)'
          /\ IF owner[i] = a /\ Head(pending[i]).n = n
               THEN Boxed(a, n) /\ ~Boxed(a, n)' ELSE Boxed(a, n)' <=> Boxed(a, n)
      BY <1>1, <1>2, <2>1, <2>3, <3>1, TailBox DEF PinInv, Accounted
    <3>5. HandedOnce(a, n)' /\ (Handed(a, n)' <=> HandAt(a, n, t)' \/ Handed(a, n))
      BY <1>2, <2>1, <2>2, <3>3, <3>4, OneHand DEF Accounted, OnePlace
    <3> QED BY <1>2, <2>1, <3>3, <3>4, <3>5, SamePlaces DEF Accounted, OnePlace
  <2>4. CASE pending[i] = <<>>
    <3>1. pending' = pending /\ job'[t].out = [flags |-> "dummy", n |-> 0]
      <4>1. /\ pending' = pending
            /\ job' = [job EXCEPT ![t] = [job[t] EXCEPT !.out = [flags |-> "dummy", n |-> 0]]]
        BY <2>4 DEF DrainByCover
      <4> QED BY <1>1, <4>1 DEF PinInv, TypeOK, Job
    <3>2. ~HandAt(a, n, t)'
      BY <3>1 DEF HandAt
    <3>3. HandedOnce(a, n)' /\ (Handed(a, n)' <=> Handed(a, n))
      BY <1>2, <2>1, <2>2, <3>2, OneHand DEF Accounted
    <3> QED BY <1>2, <2>1, <3>1, <3>3, SamePlaces DEF Accounted, OnePlace
  <2> QED BY <2>3, <2>4
<1> QED BY <1>3 DEF AccountInv

\* The flush thread takes it.
LEMMA PopAccounts ==
  ASSUME PinInv, AccountInv, NEW i \in Slots, FlushPop(i)
  PROVE  AccountInv'
<1>1. Flush \in Workers /\ OneActs(Flush) /\ pc[Flush] = "idle" /\ pc'[Flush] = "find_b"
      /\ UNCHANGED <<left, lost, queued, owner>>
      /\ pending[i] # <<>> /\ pending' = [pending EXCEPT ![i] = Tail(@)]
  BY DEF Workers, OneActs, PinInv, TypeOK, FlushPop, Goto, slotVars, history
<1>2. job'[Flush].sess = owner[i] /\ job'[Flush].out = [flags |-> "real", n |-> Head(pending[i]).n]
  BY <1>1 DEF PinInv, TypeOK, FlushPop, Reply
<1>3. ASSUME NEW a \in ASessions, NEW n \in Nat
      PROVE  Accounted(a, n)'
  <2>1. Accounted(a, n)
    BY DEF AccountInv
  <2>2. ~HandAt(a, n, Flush)
    BY <1>1 DEF HandAt
  <2>3. HandAt(a, n, Flush)' <=> owner[i] = a /\ Head(pending[i]).n = n
    BY <1>1, <1>2 DEF HandAt
  <2>4. /\ BoxedOnce(a, n)'
        /\ IF owner[i] = a /\ Head(pending[i]).n = n
             THEN Boxed(a, n) /\ ~Boxed(a, n)' ELSE Boxed(a, n)' <=> Boxed(a, n)
    BY <1>1, <2>1, TailBox DEF PinInv, Accounted
  <2>5. HandedOnce(a, n)' /\ (Handed(a, n)' <=> HandAt(a, n, Flush)' \/ Handed(a, n))
    BY <1>1, <2>1, <2>2, <2>3, <2>4, OneHand DEF Accounted, OnePlace
  <2> QED BY <1>1, <2>1, <2>3, <2>4, <2>5, SamePlaces DEF Accounted, OnePlace
<1> QED BY <1>3 DEF AccountInv

\* A reply is queued, at the expense of the oldest one when the mailbox is full.
LEMMA ServeAccounts ==
  ASSUME PinInv, RequestInv, AccountInv, NEW t \in Workers, send_response(t)
  PROVE  AccountInv'
<1> DEFINE s == job[t].sess
           m == job[t].n
           i == job[t].a
<1>1. job[t] \in Job /\ pc[t] = "serve" /\ i \in Slots /\ owner[i] = s
  BY JobFields DEF PinInv, JobInv, PinnedInv, Active, send_response
<1>2. /\ s \in ASessions /\ m \in Nat /\ ~Queued(s, m)
      /\ \A a \in ASessions, n \in Nat : Queued(a, n)' <=> Queued(a, n) \/ (a = s /\ n = m)
  BY ServeAsks
<1>3. OneActs(t) /\ UNCHANGED <<left, owner>> /\ pc'[t] = "unpin" /\ now \in 0 .. (TICK_MOD - 1)
  BY DEF OneActs, send_response, PinInv, TypeOK, Goto, slotVars
<1>4. ASSUME NEW a \in ASessions, NEW n \in Nat
      PROVE  Accounted(a, n)'
  <2>1. Accounted(a, n)
    BY DEF AccountInv
  <2>2. ~HandAt(a, n, t) /\ ~HandAt(a, n, t)'
    BY <1>1, <1>3 DEF HandAt
  <2>3. HandedOnce(a, n)' /\ (Handed(a, n)' <=> Handed(a, n))
    BY <1>3, <2>1, <2>2, OneHand DEF Accounted
  <2>4. owner[i] = a /\ m = n =>
          ~Queued(a, n) /\ ~Boxed(a, n) /\ ~Handed(a, n) /\ ~HasLeft(a, n) /\ ~Lost(a, n)
    BY <1>1, <1>2, <2>1 DEF Accounted, OnePlace
  <2>5. CASE Len(pending[i]) = PENDING_RESP_QUEUE
    <3>1. /\ pending[i] # <<>>
          /\ pending' = [pending EXCEPT ![i] = Append(Tail(@), [n |-> m, since |-> now])]
          /\ lost' = lost \cup {<<s, Head(pending[i]).n>>}
      BY <1>1, <2>5 DEF send_response, PinInv, TypeOK
    <3>2. /\ BoxedOnce(a, n)'
          /\ IF owner[i] = a /\ Head(pending[i]).n = n
               THEN Boxed(a, n) /\ ~Boxed(a, n)'
               ELSE Boxed(a, n)' <=> Boxed(a, n) \/ (owner[i] = a /\ m = n)
      <4>1. TypeOK /\ a \in ASessions /\ n \in Nat /\ BoxedOnce(a, n) /\ i \in Slots /\ m \in Nat
            /\ owner' = owner /\ now \in 0 .. (TICK_MOD - 1)
            /\ (owner[i] = a /\ m = n => ~Boxed(a, n))
        BY <1>1, <1>2, <1>3, <2>1, <2>4 DEF PinInv, Accounted
      <4> HIDE DEF i, m
      <4> QED BY ONLY <3>1, <4>1, FullBox
    <3>3. Lost(a, n)' <=> Lost(a, n) \/ (owner[i] = a /\ Head(pending[i]).n = n)
      BY <1>1, <3>1 DEF Lost
    <3>4. Queued(a, n)' <=> Queued(a, n) \/ (owner[i] = a /\ n = m)
      BY <1>1, <1>2
    <3> QED BY <1>3, <2>1, <2>3, <2>4, <3>2, <3>3, <3>4, SamePlaces DEF Accounted, OnePlace
  <2>6. CASE Len(pending[i]) # PENDING_RESP_QUEUE
    <3>1. /\ pending' = [pending EXCEPT ![i] = Append(@, [n |-> m, since |-> now])]
          /\ lost' = lost
      BY <1>1, <2>6 DEF send_response
    <3>2. /\ BoxedOnce(a, n)'
          /\ Boxed(a, n)' <=> Boxed(a, n) \/ (owner[i] = a /\ m = n)
      <4>1. TypeOK /\ a \in ASessions /\ n \in Nat /\ BoxedOnce(a, n) /\ i \in Slots /\ m \in Nat
            /\ owner' = owner /\ now \in 0 .. (TICK_MOD - 1)
            /\ (owner[i] = a /\ m = n => ~Boxed(a, n))
        BY <1>1, <1>2, <1>3, <2>1, <2>4 DEF PinInv, Accounted
      <4> HIDE DEF i, m
      <4> QED BY ONLY <3>1, <4>1, AppendBox, ZenonT(60)
    <3>3. Queued(a, n)' <=> Queued(a, n) \/ (owner[i] = a /\ n = m)
      BY <1>1, <1>2
    <3> QED BY <1>3, <2>1, <2>3, <2>4, <3>1, <3>2, <3>3, SamePlaces DEF Accounted, OnePlace
  <2> QED BY <2>5, <2>6
<1> QED BY <1>4 DEF AccountInv

\* A reply in a thread's hands is sent, or given up.
LEMMA DispatchAccounts ==
  ASSUME PinInv, RequestInv, AccountInv, NEW t \in Workers,
         send_response_ex(t) \/ DispatchFails(t) \/ NoB(t)
  PROVE  AccountInv'
<1> DEFINE s == job[t].sess
           o == job[t].out
<1>1. job[t] \in Job /\ s \in ASessions /\ o.n \in Nat /\ pc[t] \in {"find_b", "dispatch"}
  BY JobFields DEF PinInv, JobInv, send_response_ex, DispatchFails, NoB
<1>2. OneActs(t) /\ UNCHANGED <<pending, owner, queued>> /\ pc'[t] \in {"unpin", "unset"} /\ job' = job
  BY DEF OneActs, send_response_ex, DispatchFails, NoB, PinInv, TypeOK, Goto, slotVars
<1>3. o \in Out \cup {NoOut} /\ o.flags \in {"real", "dummy", "ack", "none"}
      /\ (o.flags = "real" => o = [flags |-> "real", n |-> o.n])
  <2>1. o \in Out \cup {NoOut}
    BY <1>1, JobFields
  <2> QED BY <2>1 DEF Out, NoOut
<1>4. ASSUME NEW a \in ASessions, NEW n \in Nat
      PROVE  Accounted(a, n)'
  <2>1. Accounted(a, n)
    BY DEF AccountInv
  <2>2. HandAt(a, n, t) <=> a = s /\ o.flags = "real" /\ n = o.n
    BY <1>1, <1>3 DEF HandAt
  <2>3. ~HandAt(a, n, t)'
    BY <1>2 DEF HandAt
  <2>4. HandedOnce(a, n)' /\ (Handed(a, n)' <=> Handed(a, n) /\ ~HandAt(a, n, t))
        /\ (HandAt(a, n, t) => Handed(a, n))
    <3>1. HandedOnce(a, n)' /\ (Handed(a, n)' <=> Handed(a, n) /\ ~HandAt(a, n, t))
      BY <1>2, <2>1, <2>3, OneHand DEF Accounted
    <3> QED BY <3>1 DEF Handed
  <2>5. CASE send_response_ex(t) /\ o.flags = "real"
    <3>1. left' = [left EXCEPT ![s] = Append(@, o.n)] /\ lost' = lost
      BY <2>5 DEF send_response_ex
    <3>2. a = s /\ n = o.n => ~HasLeft(a, n)
      BY <2>1, <2>2, <2>4, <2>5 DEF Accounted, OnePlace
    <3>3. LeftOnce(a, n)' /\ (HasLeft(a, n)' <=> HasLeft(a, n) \/ (a = s /\ n = o.n))
      <4>1. TypeOK /\ a \in ASessions /\ n \in Nat /\ LeftOnce(a, n) /\ s \in ASessions /\ o.n \in Nat
        BY <1>1, <2>1 DEF PinInv, Accounted
      <4> DEFINE m == o.n
      <4>2. m \in Nat /\ left' = [left EXCEPT ![s] = Append(@, m)] /\ (a = s /\ n = m => ~HasLeft(a, n))
        BY <3>1, <3>2, <4>1
      <4>3. s \in ASessions
        BY <4>1
      <4> HIDE DEF m, s
      <4>4. LeftOnce(a, n)' /\ (HasLeft(a, n)' <=> HasLeft(a, n) \/ (a = s /\ n = m))
        BY ONLY <4>1, <4>2, <4>3, OneLeaves
      <4> QED BY <4>4 DEF m
    <3> QED BY <1>2, <2>1, <2>2, <2>4, <2>5, <3>1, <3>3, SamePlaces DEF Accounted, OnePlace
  <2>6. CASE ~send_response_ex(t) /\ o.flags = "real"
    <3>1. lost' = lost \cup {<<s, o.n>>} /\ left' = left
      <4>1. CASE DispatchFails(t)
        BY <2>6, <4>1 DEF DispatchFails
      <4>2. CASE NoB(t)
        <5>1. job[t].kind = "flush" /\ o = [flags |-> "real", n |-> job[t].n]
          BY <2>6, <4>2 DEF NoB, RequestInv, JobFlow, NoOut
        <5> QED BY <4>2, <5>1 DEF NoB
      <4> QED BY <2>6, <4>1, <4>2
    <3>2. Lost(a, n)' <=> Lost(a, n) \/ (a = s /\ n = o.n)
      BY <3>1 DEF Lost
    <3> QED BY <1>2, <2>1, <2>2, <2>4, <2>6, <3>1, <3>2, SamePlaces DEF Accounted, OnePlace
  <2>7. CASE o.flags # "real"
    <3>1. UNCHANGED <<left, lost>>
      <4>1. CASE NoB(t)
        <5>1. job[t].kind # "flush"
          <6>1. pc[t] = "find_b"
            BY <4>1 DEF NoB
          <6>2. job[t].kind = "flush" => o = [flags |-> "real", n |-> job[t].n]
            BY <6>1 DEF RequestInv, JobFlow
          <6> QED BY <2>7, <6>2
        <5> QED BY <4>1, <5>1 DEF NoB
      <4>2. CASE ~NoB(t)
        BY <2>7, <4>2 DEF send_response_ex, DispatchFails
      <4> QED BY <4>1, <4>2
    <3> QED BY <1>2, <2>1, <2>2, <2>4, <2>7, <3>1, SamePlaces DEF Accounted, OnePlace
  <2> QED BY <2>5, <2>6, <2>7
<1> QED BY <1>4 DEF AccountInv

\* The other steps of a thread pick nothing up and put nothing down.
LEMMA CarryAccounts ==
  ASSUME PinInv, RequestInv, AccountInv, NEW t \in Workers,
         \/ Snapshot(t) \/ NoCandidate(t) \/ find_a_session(t) \/ CheckSetup(t) \/ SetupWrite(t)
         \/ ClearSetup(t) \/ CommitSetup(t) \/ TagMismatch(t) \/ NoAnswer(t) \/ Unpin(t)
         \/ find_b_for_a(t) \/ (t = Flush /\ FlushUnpin)
  PROVE  AccountInv'
<1>1. OneActs(t) /\ UNCHANGED <<pending, owner, queued, left, lost>>
  <2>1. OneActs(t)
    BY ActsAlone DEF PinInv, ThreadStep, Handle, Dispatch
  <2>2. UNCHANGED <<pending, queued, left, lost>>
    BY DEF history, Snapshot, NoCandidate, find_a_session, CheckSetup, SetupWrite, ClearSetup, CommitSetup,
           TagMismatch, NoAnswer, Unpin, find_b_for_a, FlushUnpin
  <2> QED BY <2>1, <2>2 DEF OneActs
<1>2. ASSUME NEW a \in ASessions, NEW n \in Nat
      PROVE  HandAt(a, n, t)' <=> HandAt(a, n, t)
  <2>1. [flags |-> "real", n |-> n] # NoOut
    BY DEF NoOut
  <2>2. CASE NoCandidate(t)
    BY <2>2 DEF NoCandidate, HandAt
  <2>3. CASE \/ Snapshot(t) \/ find_a_session(t) \/ ClearSetup(t) \/ TagMismatch(t) \/ NoAnswer(t)
             \/ Unpin(t) \/ (t = Flush /\ FlushUnpin)
    <3>1. pc[t] \notin {"find_b", "dispatch"} /\ pc'[t] \notin {"find_b", "dispatch"}
      BY <2>3, SMTT(60) DEF PinInv, TypeOK, Goto, Finish, Snapshot, find_a_session, ClearSetup, TagMismatch,
                  NoAnswer, Unpin, FlushUnpin
    <3> QED BY <3>1 DEF HandAt
  <2>4. CASE CheckSetup(t) \/ SetupWrite(t)
    <3>1. pc[t] = "pinned" /\ job' = job
      BY <2>4 DEF CheckSetup, SetupWrite
    <3>2. job[t].out = NoOut
      BY <3>1 DEF RequestInv, JobFlow
    <3> QED BY <2>1, <3>1, <3>2 DEF HandAt
  <2>5. CASE CommitSetup(t)
    <3>1. pc[t] = "verify" /\ job' = [job EXCEPT ![t] = [job[t] EXCEPT !.out = [flags |-> "ack", n |-> job[t].n]]]
      BY <2>5 DEF CommitSetup
    <3>2. job[t] \in Job
      BY <3>1 DEF PinInv, JobInv
    <3>3. job'[t].out.flags = "ack"
      BY <3>1, <3>2 DEF PinInv, TypeOK, Job
    <3> QED BY <3>1, <3>3 DEF HandAt
  <2>6. CASE find_b_for_a(t)
    <3>1. /\ pc[t] = "find_b" /\ job[t] \in Job /\ pc'[t] = AfterFindB(job[t].kind)
          /\ job' = [job EXCEPT ![t] = [job[t] EXCEPT !.b = BoundB(job[t].a)]]
      BY <2>6 DEF PinInv, JobInv, TypeOK, find_b_for_a, Goto
    <3>2. job'[t].sess = job[t].sess /\ job'[t].out = job[t].out
      BY <3>1 DEF PinInv, TypeOK, Job
    <3>3. CASE job[t].kind = "flush"
      BY <3>1, <3>2, <3>3 DEF AfterFindB, HandAt
    <3>4. CASE job[t].kind # "flush"
      <4>1. job[t].out = NoOut
        BY <3>1, <3>4 DEF RequestInv, JobFlow
      <4> QED BY <2>1, <3>2, <4>1 DEF HandAt
    <3> QED BY <3>3, <3>4
  <2> QED BY <2>2, <2>3, <2>4, <2>5, <2>6
<1>3. ASSUME NEW a \in ASessions, NEW n \in Nat
      PROVE  Accounted(a, n)'
  <2>1. Accounted(a, n)
    BY DEF AccountInv
  <2>2. HandedOnce(a, n)' /\ (Handed(a, n)' <=> HandAt(a, n, t) \/ Handed(a, n))
    BY <1>1, <1>2, <2>1, OneHand DEF Accounted
  <2>3. HandAt(a, n, t) => Handed(a, n)
    BY DEF Handed
  <2> QED BY <1>1, <2>1, <2>2, <2>3, SamePlaces DEF Accounted, OnePlace
<1> QED BY <1>3 DEF AccountInv

\* A slot is given to another session: the replies in its mailbox are lost.
LEMMA ExtendAccounts ==
  ASSUME PinInv, AccountInv, NEW s \in Sessions, Extend(s)
  PROVE  AccountInv'
<1>1. PICK i \in Slots : sess_alloc(i, s)
  BY DEF Extend
<1>2. /\ UNCHANGED <<pc, job, queued, left>> /\ lost' = lost \cup RepliesIn(i)
      /\ owner' = [owner EXCEPT ![i] = s] /\ pending' = [pending EXCEPT ![i] = <<>>]
  BY <1>1 DEF Extend, sess_alloc
<1>3. ASSUME NEW a \in ASessions, NEW n \in Nat
      PROVE  Accounted(a, n)'
  <2>1. Accounted(a, n)
    BY DEF AccountInv
  <2>2. \A j \in Slots, k \in Nat : BoxAt(a, n, j, k)' <=> j # i /\ BoxAt(a, n, j, k)
    BY <1>2 DEF PinInv, TypeOK, BoxAt
  <2>3. <<a, n>> \in RepliesIn(i) <=> \E k \in Nat : BoxAt(a, n, i, k)
    <3>1. DOMAIN pending[i] \subseteq Nat
      BY DEF PinInv, TypeOK
    <3> QED BY <3>1 DEF RepliesIn, BoxAt
  <2>4. BoxedOnce(a, n)'
    BY <2>1, <2>2 DEF Accounted, BoxedOnce
  <2>5. Boxed(a, n)' <=> Boxed(a, n) /\ ~\E k \in Nat : BoxAt(a, n, i, k)
    BY <2>1, <2>2 DEF Accounted, BoxedOnce, Boxed
  <2>6. (\E k \in Nat : BoxAt(a, n, i, k)) => Boxed(a, n)
    BY DEF Boxed
  <2>7. Lost(a, n)' <=> Lost(a, n) \/ \E k \in Nat : BoxAt(a, n, i, k)
    BY <1>2, <2>3 DEF Lost
  <2> QED BY <1>2, <2>1, <2>4, <2>5, <2>6, <2>7, SamePlaces DEF Accounted, OnePlace
<1> QED BY <1>3 DEF AccountInv

LEMMA NextAccounts == PinInv /\ RequestInv /\ AccountInv /\ [Next]_vars => AccountInv'
<1> SUFFICES ASSUME PinInv, RequestInv, AccountInv, [Next]_vars PROVE AccountInv'
  OBVIOUS
<1>1. CASE \E t \in Workers : Handle(t) \/ Dispatch(t)
  BY <1>1, DrainAccounts, ServeAccounts, DispatchAccounts, CarryAccounts DEF Handle, Dispatch
<1>2. CASE FlushUnpin
  BY <1>2, CarryAccounts DEF Workers
<1>3. CASE \E i \in Slots : FlushPop(i)
  BY <1>3, PopAccounts
<1>4. CASE \E s \in Sessions : Extend(s)
  BY <1>4, ExtendAccounts
<1>5. CASE \/ \E s \in Sessions : StoreFull(s)
           \/ \E a \in ASessions, k \in Kind : ClientSend(a, k)
           \/ Tick \/ UNCHANGED vars
  <2>1. UNCHANGED <<owner, pending, pc, job, left, lost, queued>>
    BY <1>5 DEF StoreFull, ClientSend, Tick, vars, slotVars, clientVars, history
  <2> QED BY <2>1, SamePlaces DEF AccountInv, Accounted, OnePlace
<1> QED BY <1>1, <1>2, <1>3, <1>4, <1>5 DEF Next, FlushStep, Workers

\* At most one element, counted.
LEMMA OneOrNone ==
  ASSUME NEW S, \A x, y \in S : x = y
  PROVE  Cardinality(S) = IF S = {} THEN 0 ELSE 1
<1>1. CASE S = {}
  BY <1>1, FS_EmptySet
<1>2. CASE S # {}
  <2>1. PICK x \in S : TRUE
    BY <1>2
  <2>2. S = {} \cup {x}
    BY <2>1
  <2>3. Cardinality({} \cup {x}) = Cardinality({}) + 1
    BY FS_EmptySet, FS_AddElement
  <2> QED BY <1>2, <2>2, <2>3, FS_EmptySet
<1> QED BY <1>1, <1>2

LEMMA PlacesCounted ==
  ASSUME TypeOK, NEW a \in ASessions, NEW n \in Nat, Accounted(a, n)
  PROVE  Places(a, n) = IF Queued(a, n) THEN 1 ELSE 0
<1> DEFINE B == {p \in Slots \X (1 .. PENDING_RESP_QUEUE) :
                   /\ owner[p[1]] = a /\ p[2] \in DOMAIN pending[p[1]]
                   /\ pending[p[1]][p[2]].n = n}
           H == {t \in Workers : /\ job[t].sess = a /\ pc[t] \in {"find_b", "dispatch"}
                                 /\ job[t].out = [flags |-> "real", n |-> n]}
           L == {k \in DOMAIN left[a] : left[a][k] = n}
<1>1. /\ \A p, q \in B : p = q
      /\ B = {} <=> ~Boxed(a, n)
  <2>1. \A p \in B : p = <<p[1], p[2]>> /\ p[1] \in Slots /\ p[2] \in Nat /\ BoxAt(a, n, p[1], p[2])
    BY DEF BoxAt
  <2>2. \A i \in Slots, k \in Nat : BoxAt(a, n, i, k) => <<i, k>> \in B
    <3> SUFFICES ASSUME NEW i \in Slots, NEW k \in Nat, BoxAt(a, n, i, k) PROVE <<i, k>> \in B
      OBVIOUS
    <3>1. k \in 1 .. PENDING_RESP_QUEUE
      BY DEF TypeOK, BoxAt
    <3> QED BY <3>1 DEF BoxAt
  <2>3. \A p, q \in B : p = q
    BY <2>1 DEF Accounted, BoxedOnce
  <2>4. B = {} <=> ~Boxed(a, n)
    BY <2>1, <2>2 DEF Boxed
  <2> QED BY <2>3, <2>4
<1>2. /\ \A t, u \in H : t = u
      /\ H = {} <=> ~Handed(a, n)
  <2>1. \A t \in Workers : t \in H <=> HandAt(a, n, t)
    BY DEF HandAt
  <2> QED BY <2>1 DEF Accounted, HandedOnce, Handed
<1>3. /\ \A k, l \in L : k = l
      /\ L = {} <=> ~HasLeft(a, n)
  <2>1. \A k : k \in L <=> k \in Nat /\ LeftAt(a, n, k)
    BY DEF LeftAt, TypeOK
  <2> QED BY <2>1 DEF Accounted, LeftOnce, HasLeft
<1>4. Places(a, n) = Cardinality(B) + Cardinality(H) + Cardinality(L) + (IF <<a, n>> \in lost THEN 1 ELSE 0)
  BY DEF Places
<1> HIDE DEF B, H, L
<1>5. /\ Cardinality(B) = IF Boxed(a, n) THEN 1 ELSE 0
      /\ Cardinality(H) = IF Handed(a, n) THEN 1 ELSE 0
      /\ Cardinality(L) = IF HasLeft(a, n) THEN 1 ELSE 0
  BY <1>1, <1>2, <1>3, OneOrNone
<1> QED BY <1>4, <1>5 DEF Accounted, OnePlace, Lost

\* However cover triggers, the flush thread, full mailboxes and reclaimed
\* slots interleave, a queued reply is in one place: it is sent at most once,
\* and not lost without having been dropped.
THEOREM RepliesAccountedHolds == Spec => []RepliesAccounted
<1>1. Init => RequestInv /\ AccountInv
  <2> SUFFICES ASSUME Init PROVE RequestInv /\ AccountInv
    OBVIOUS
  <2>1. RequestInv
    BY DEF Init, RequestInv, JobFlow, AskedOnce, Asking, Queued
  <2>2. ASSUME NEW a \in ASessions, NEW n \in Nat PROVE Accounted(a, n)
    <3>1. ~Queued(a, n) /\ ~Lost(a, n)
      BY DEF Init, Queued, Lost
    <3>2. \A i \in Slots, k \in Nat : ~BoxAt(a, n, i, k)
      BY DEF Init, BoxAt
    <3>3. \A t \in Workers : ~HandAt(a, n, t)
      BY DEF Init, HandAt
    <3>4. \A k \in Nat : ~LeftAt(a, n, k)
      BY DEF Init, LeftAt
    <3> QED BY <3>1, <3>2, <3>3, <3>4
            DEF Accounted, OnePlace, BoxedOnce, HandedOnce, LeftOnce, Boxed, Handed, HasLeft
  <2> QED BY <2>1, <2>2 DEF AccountInv
<1>2. PinInv /\ RequestInv /\ AccountInv /\ [Next]_vars => (PinInv /\ RequestInv /\ AccountInv)'
  BY NextPin, NextAsks, NextAccounts
<1>3. PinInv /\ AccountInv => RepliesAccounted
  BY PlacesCounted DEF PinInv, AccountInv, RepliesAccounted
<1> QED BY <1>1, <1>2, <1>3, InitPin, PTL DEF Spec
=============================================================================
