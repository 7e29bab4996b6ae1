--------------------------- MODULE MixNodeProofs ---------------------------
(***************************************************************************)
(* What MixNode guarantees for every number of threads, sessions and       *)
(* slots, every window and ring size, and any number of packets.           *)
(***************************************************************************)
EXTENDS MixNode, SequenceTheorems, FiniteSetTheorems, TLAPS

USE HintAssumption, ReplayAssumption, MixNodeAssumption

-----------------------------------------------------------------------------
(* Lemmas about the operators of HintWindow and ReplayRing                  *)

\* The cursor of the ring steps to the next entry, or back to the first.
LEMMA NextRingPos ==
  ASSUME NEW k \in RingPos
  PROVE  (k + 1) % REPLAY_WINDOW = IF k = REPLAY_WINDOW - 1 THEN 0 ELSE k + 1
  BY DEF RingPos

\* Recording a nonce keeps count and cursor inside the array.
LEMMA RecordType ==
  ASSUME NEW N, NEW r \in Ring(N), NEW n \in N
  PROVE  Record(r, n) \in Ring(N)
<1>1. (r.next + 1) % REPLAY_WINDOW \in RingPos
  BY DEF Ring, RingPos
<1>2. QED
  BY <1>1 DEF Ring, Record, RingPos

\* A ring that has just been cleared.
LEMMA EmptyRingType == ASSUME NEW N PROVE EmptyRing \in Ring(N)
  BY DEF EmptyRing, Ring, RingPos

\* Sliding a window keeps the base and the high water mark natural numbers.
LEMMA AdvanceType ==
  ASSUME NEW h \in HintState, NEW d \in Domain, NEW k \in Nat
  PROVE  session_advance_hint_window(h, d, k) \in HintState
<1> DEFINE matched == h.base[d] + k
           high    == IF h.high[d] = NothingMatched \/ matched > h.high[d]
                        THEN matched ELSE h.high[d]
<1>1. h.base \in [Domain -> Nat] /\ h.high \in [Domain -> Nat \cup {NothingMatched}]
  BY DEF HintState
<1>2. matched \in Nat /\ high \in Nat
  BY <1>1 DEF NothingMatched
<1>3. DesiredBase(high) \in Nat
  BY <1>2 DEF DesiredBase
<1>4. QED
  BY <1>1, <1>2, <1>3 DEF session_advance_hint_window, HintState

LEMMA InitialHintsType == session_init_hint_window \in HintState /\ ZeroedHints \in HintState
  BY DEF session_init_hint_window, ZeroedHints, HintState, FirstCounter, Domain

\* Changing one entry of a table indexed twice.
LEMMA UpdateEntry ==
  ASSUME NEW A, NEW B, NEW V, NEW f \in [A -> [B -> V]],
         NEW a \in A, NEW b \in B, NEW v \in V
  PROVE  [f EXCEPT ![a][b] = v] \in [A -> [B -> V]]
  OBVIOUS

-----------------------------------------------------------------------------
(* Type correctness                                                        *)

\* What every allocation does to the table, whoever is stored in the slot.
LEMMA AllocType ==
  ASSUME TypeOK, NEW i \in Slots, NEW s \in Sessions \cup {NoSession},
         NEW h \in HintState, session_alloc(i, s, h)
  PROVE  /\ in_use' \in [Slots -> BOOLEAN]
         /\ generation' \in [Slots -> Nat]
         /\ owner' \in [Slots -> Sessions \cup {NoSession}]
         /\ hint' \in [Slots -> HintState]
         /\ seen' \in [Slots -> [Mode -> Ring(Nonce)]]
         /\ last_active_ms' \in [Slots -> 0 .. (TICK_MOD - 1)]
         /\ accepted' \in [Slots -> [Mode -> Seq(Nonce)]]
         /\ idle' \in [Slots -> 0 .. SESSION_TTL]
  BY EmptyRingType DEF TypeOK, session_alloc

LEMMA ExtendType ==
  ASSUME TypeOK, NEW s \in Sessions, Extend(s)
  PROVE  TypeOK'
<1>1. CASE handle_extend(s)
  BY <1>1, AllocType, InitialHintsType DEF handle_extend, TypeOK
<1>2. CASE HintSeedFails(s)
  BY <1>2, AllocType, InitialHintsType DEF HintSeedFails, TypeOK
<1>3. CASE StoreFull(s)
  BY <1>3 DEF StoreFull, slotVars, TypeOK
<1>4. QED
  BY <1>1, <1>2, <1>3 DEF Extend

\* A packet that matched gives a job whose offset lies in the window.
LEMMA FoundType ==
  ASSUME TypeOK, NEW p \in Packet, NEW i \in Slots, Found(p, i)
  PROVE  [pkt |-> p, idx |-> i, gen |-> generation[i],
          dom |-> FoundDomain(i, p.ctr),
          off |-> p.ctr - hint[i].base[FoundDomain(i, p.ctr)]] \in Job
<1>1. hint[i].base \in [Domain -> Nat] /\ p.ctr \in Nat
  BY DEF TypeOK, HintState, Packet
<1>2. FoundDomain(i, p.ctr) \in Domain /\ InWindow(hint[i], FoundDomain(i, p.ctr), p.ctr)
  BY DEF Found, Matches, FoundDomain, Domain
<1>3. p.ctr - hint[i].base[FoundDomain(i, p.ctr)] \in 0 .. (HINT_WINDOW - 1)
  BY <1>1, <1>2 DEF InWindow
<1>4. QED
  BY <1>2, <1>3 DEF Job, TypeOK

LEMMA DoneType ==
  ASSUME TypeOK, NEW t \in Threads, Done(t)
  PROVE  /\ pc' \in [Threads -> {"idle", "peel", "nonce"}]
         /\ job' \in [Threads -> Job \cup {NoJob}]
         /\ \A u \in Threads : pc'[u] # "idle" => job'[u] \in Job
  BY DEF Done, TypeOK

LEMMA HandleType ==
  ASSUME TypeOK, NEW t \in Threads, Handle(t)
  PROVE  TypeOK'
<1>1. CASE Receive(t)
  <2>1. PICK p \in net, i \in Slots : session_find(t, p, i) /\ net' = net \ {p}
    BY <1>1 DEF Receive
  <2>2. p \in Packet
    BY DEF TypeOK
  <2>3. job'[t] \in Job /\ job' \in [Threads -> Job \cup {NoJob}]
    BY <2>1, <2>2, FoundType DEF session_find, TypeOK
  <2>4. /\ last_active_ms' \in [Slots -> 0 .. (TICK_MOD - 1)]
        /\ idle' \in [Slots -> 0 .. SESSION_TTL]
        /\ pc' \in [Threads -> {"idle", "peel", "nonce"}]
    BY <2>1 DEF session_find, TypeOK
  <2>5. \A u \in Threads : pc'[u] # "idle" => job'[u] \in Job
    BY <2>1, <2>3 DEF session_find, TypeOK
  <2>6. QED
    BY <1>1, <2>1, <2>3, <2>4, <2>5 DEF Receive, TypeOK
<1>2. CASE HintMiss(t)
  BY <1>2 DEF HintMiss, slotVars, TypeOK
<1>3. CASE PeelFails(t)
  BY <1>3, DoneType DEF PeelFails, slotVars, clientVars, TypeOK
<1>4. CASE session_confirm_hint_match(t)
  <2>1. job[t] \in Job
    BY <1>4 DEF session_confirm_hint_match, TypeOK
  <2>2. hint' \in [Slots -> HintState]
    BY <1>4, <2>1, AdvanceType DEF session_confirm_hint_match, Job, TypeOK
  <2>3. QED
    BY <1>4, <2>1, <2>2 DEF session_confirm_hint_match, slotVars, clientVars, TypeOK
<1>5. ASSUME NEW m \in Mode, CheckNonce(t, m)
      PROVE  TypeOK'
  <2>1. job[t] \in Job
    BY <1>5 DEF CheckNonce, TypeOK
  <2>2. job[t].idx \in Slots /\ NonceOf(job[t].pkt) \in Nonce
    BY <2>1 DEF Job, Packet, Nonce, NonceOf
  <2>3. Record(seen[job[t].idx][m], NonceOf(job[t].pkt)) \in Ring(Nonce)
    BY <2>2, RecordType DEF TypeOK
  <2>4. Append(accepted[job[t].idx][m], NonceOf(job[t].pkt)) \in Seq(Nonce)
    BY <2>2 DEF TypeOK
  <2>5. \/ UNCHANGED <<seen, accepted>>
        \/ /\ seen' = [seen EXCEPT ![job[t].idx][m] =
                          Record(seen[job[t].idx][m], NonceOf(job[t].pkt))]
           /\ accepted' = [accepted EXCEPT ![job[t].idx][m] =
                              Append(accepted[job[t].idx][m], NonceOf(job[t].pkt))]
    BY <1>5 DEF CheckNonce
  <2>6. seen' \in [Slots -> [Mode -> Ring(Nonce)]]
    <3>1. seen \in [Slots -> [Mode -> Ring(Nonce)]]
      BY DEF TypeOK
    <3> DEFINE i == job[t].idx
               v == Record(seen[i][m], NonceOf(job[t].pkt))
    <3>2. i \in Slots /\ v \in Ring(Nonce)
      BY <2>2, <2>3
    <3>3. seen' = seen \/ seen' = [seen EXCEPT ![i][m] = v]
      BY <2>5
    <3> HIDE DEF i, v
    <3>4. [seen EXCEPT ![i][m] = v] \in [Slots -> [Mode -> Ring(Nonce)]]
      BY <1>5, <3>1, <3>2, UpdateEntry
    <3>5. QED
      BY <3>1, <3>3, <3>4
  <2>7. accepted' \in [Slots -> [Mode -> Seq(Nonce)]]
    <3>1. accepted \in [Slots -> [Mode -> Seq(Nonce)]]
      BY DEF TypeOK
    <3> DEFINE i == job[t].idx
               v == Append(accepted[i][m], NonceOf(job[t].pkt))
    <3>2. i \in Slots /\ v \in Seq(Nonce)
      BY <2>2, <2>4
    <3>3. accepted' = accepted \/ accepted' = [accepted EXCEPT ![i][m] = v]
      BY <2>5
    <3> HIDE DEF i, v
    <3>4. [accepted EXCEPT ![i][m] = v] \in [Slots -> [Mode -> Seq(Nonce)]]
      BY <1>5, <3>1, <3>2, UpdateEntry
    <3>5. QED
      BY <3>1, <3>3, <3>4
  <2>8. QED
    BY <1>5, <2>6, <2>7, DoneType DEF CheckNonce, slotVars, clientVars, TypeOK
<1>6. QED
  BY <1>1, <1>2, <1>3, <1>4, <1>5
  DEF Handle, session_check_nonce_by_idx, session_check_return_nonce_by_idx, Mode

LEMMA EnvironmentType ==
  ASSUME TypeOK, NEW s \in Sessions, NEW d \in Domain, Send(s, d) \/ Resend(s, d)
  PROVE  TypeOK'
<1>1. FirstCounter(d) \in Nat
  BY DEF FirstCounter
<1>2. CASE Send(s, d)
  <2>1. [sess |-> s, ctr |-> FirstCounter(d) + sent[s][d], intact |-> TRUE] \in Packet
    BY <1>1 DEF Packet, TypeOK
  <2>2. sent' \in [Sessions -> [Domain -> Nat]]
    BY <1>2 DEF Send, TypeOK
  <2>3. QED
    BY <1>2, <2>1, <2>2 DEF Send, slotVars, TypeOK
<1>3. CASE Resend(s, d)
  <2>1. sent[s][d] \in Nat
    BY DEF TypeOK
  <2>2. \A c \in 0 .. (sent[s][d] - 1), b \in BOOLEAN :
          [sess |-> s, ctr |-> FirstCounter(d) + c, intact |-> b] \in Packet
    BY <1>1, <2>1 DEF Packet
  <2>3. net' \subseteq Packet
    BY <1>3, <2>2 DEF Resend, TypeOK
  <2>4. QED
    BY <1>3, <2>3 DEF Resend, slotVars, TypeOK
<1>4. QED
  BY <1>2, <1>3

LEMMA TickType == ASSUME TypeOK, Tick PROVE TypeOK'
<1>1. (now + 1) % TICK_MOD \in 0 .. (TICK_MOD - 1)
  BY DEF TypeOK
<1>2. \A i \in Slots : (IF idle[i] < SESSION_TTL THEN idle[i] + 1 ELSE SESSION_TTL)
                         \in 0 .. SESSION_TTL
  BY DEF TypeOK
<1>3. QED
  BY <1>1, <1>2 DEF Tick, clientVars, TypeOK

\* No step leaves the ranges of the C types, in particular the ring cursor of
\* seen_nonces and the window offset a thread carries stay inside their arrays.
THEOREM TypeCorrect == Spec => []TypeOK
<1>1. Init => TypeOK
  <2> SUFFICES ASSUME Init PROVE TypeOK
    OBVIOUS
  <2>1. ZeroedHints \in HintState /\ EmptyRing \in Ring(Nonce) /\ <<>> \in Seq(Nonce)
    BY InitialHintsType, EmptyRingType
  <2>2. QED
    BY <2>1 DEF Init, TypeOK
<1>2. TypeOK /\ [Next]_vars => TypeOK'
  <2> SUFFICES ASSUME TypeOK, [Next]_vars PROVE TypeOK'
    OBVIOUS
  <2>1. CASE Next
    BY <2>1, ExtendType, HandleType, EnvironmentType, TickType DEF Next
  <2>2. CASE UNCHANGED vars
    BY <2>2 DEF vars, TypeOK
  <2>3. QED
    BY <2>1, <2>2
<1>3. QED
  BY <1>1, <1>2, PTL DEF Spec

-----------------------------------------------------------------------------
(* The replay ring                                                         *)

\* Position of the k-th most recent entry of a ring.
Back(r, k) == IF r.next >= k THEN r.next - k ELSE r.next - k + REPLAY_WINDOW

\* The ring holds exactly the last REPLAY_WINDOW nonces of the sequence L.
HoldsRecent(r, L) ==
  /\ r.count = IF Len(L) < REPLAY_WINDOW THEN Len(L) ELSE REPLAY_WINDOW
  /\ r.count < REPLAY_WINDOW => r.next = r.count
  /\ \A k \in 1 .. r.count : r.nonces[Back(r, k)] = L[Len(L) - k + 1]

Spaced(L) ==
  \A a, b \in DOMAIN L : a < b /\ L[a] = L[b] => b - a > REPLAY_WINDOW

RingInv == \A i \in Slots, m \in Mode :
             HoldsRecent(seen[i][m], accepted[i][m]) /\ Spaced(accepted[i][m])

\* Every recorded position lies in the part of the array the scan looks at.
LEMMA BackIsScanned ==
  ASSUME NEW N, NEW r \in Ring(N), r.count < REPLAY_WINDOW => r.next = r.count,
         NEW k \in 1 .. r.count
  PROVE  Back(r, k) \in 0 .. (r.count - 1)
  BY DEF Ring, RingPos, Back

\* What recording does to the k-th most recent entry: the new nonce is the
\* first, and every other one still in the ring moves one place back.
LEMMA BackAfterRecord ==
  ASSUME NEW N, NEW r \in Ring(N), NEW n \in N, NEW k \in 1 .. REPLAY_WINDOW
  PROVE  /\ k = 1 => Back(Record(r, n), k) = r.next
         /\ k > 1 => /\ Back(Record(r, n), k) = Back(r, k - 1)
                     /\ Back(r, k - 1) # r.next
<1>1. r.next \in RingPos
  BY DEF Ring
<1>2. Record(r, n).next = IF r.next = REPLAY_WINDOW - 1 THEN 0 ELSE r.next + 1
  BY <1>1, NextRingPos DEF Record
<1>3. QED
  BY <1>1, <1>2 DEF Back, RingPos

\* A ring that holds the recent nonces of L holds those of Append(L, n) after
\* n has been recorded.
LEMMA RecordHoldsRecent ==
  ASSUME NEW N, NEW r \in Ring(N), NEW L \in Seq(N), NEW n \in N, HoldsRecent(r, L)
  PROVE  HoldsRecent(Record(r, n), Append(L, n))
<1> DEFINE q == Record(r, n)
           M == Append(L, n)
<1>1. /\ Len(L) \in Nat /\ Len(M) = Len(L) + 1 /\ M[Len(L) + 1] = n
      /\ \A a \in 1 .. Len(L) : M[a] = L[a]
  OBVIOUS
<1>2. /\ r.next \in RingPos /\ r.count \in 0 .. REPLAY_WINDOW
      /\ r.nonces \in [RingPos -> N \cup {NoNonce}]
  BY DEF Ring
<1>3. q.next = IF r.next = REPLAY_WINDOW - 1 THEN 0 ELSE r.next + 1
  BY <1>2, NextRingPos DEF Record
<1>4. q.count = IF r.count < REPLAY_WINDOW THEN r.count + 1 ELSE r.count
  BY DEF Record
<1>5. q.nonces = [r.nonces EXCEPT ![r.next] = n]
  BY DEF Record
<1>6. /\ r.count = IF Len(L) < REPLAY_WINDOW THEN Len(L) ELSE REPLAY_WINDOW
      /\ r.count < REPLAY_WINDOW => r.next = r.count
      /\ \A k \in 1 .. r.count : r.nonces[Back(r, k)] = L[Len(L) - k + 1]
  BY DEF HoldsRecent
<1>7. q.count = IF Len(M) < REPLAY_WINDOW THEN Len(M) ELSE REPLAY_WINDOW
  BY <1>1, <1>4, <1>6
<1>8. q.count < REPLAY_WINDOW => q.next = q.count
  BY <1>2, <1>3, <1>4, <1>6 DEF RingPos
<1>9. ASSUME NEW k \in 1 .. q.count
      PROVE  q.nonces[Back(q, k)] = M[Len(M) - k + 1]
  <2>0. k \in 1 .. REPLAY_WINDOW
    BY <1>2, <1>4
  <2>1. CASE k = 1
    <3>1. Back(q, k) = r.next
      BY <2>0, <2>1, BackAfterRecord
    <3>2. q.nonces[r.next] = n
      BY <1>2, <1>5
    <3>3. Len(M) - k + 1 = Len(L) + 1
      BY <1>1, <2>1
    <3>4. QED
      BY <1>1, <3>1, <3>2, <3>3
  <2>2. CASE k > 1
    <3>1. k - 1 \in 1 .. r.count
      BY <1>2, <1>4, <2>0, <2>2
    <3>2. Back(q, k) = Back(r, k - 1) /\ Back(r, k - 1) # r.next
      BY <2>0, <2>2, BackAfterRecord
    <3>3. Back(r, k - 1) \in RingPos
      BY <1>2, <3>1 DEF Back, RingPos
    <3>4. q.nonces[Back(q, k)] = r.nonces[Back(r, k - 1)]
      BY <1>2, <1>5, <3>2, <3>3
    <3>5. r.nonces[Back(r, k - 1)] = L[Len(L) - (k - 1) + 1]
      BY <1>6, <3>1
    <3>6. Len(L) - (k - 1) + 1 \in 1 .. Len(L) /\ Len(M) - k + 1 = Len(L) - (k - 1) + 1
      BY <1>1, <1>6, <3>1
    <3>7. QED
      BY <1>1, <3>4, <3>5, <3>6
  <2>3. k = 1 \/ k > 1
    BY <2>0
  <2>4. QED
    BY <2>1, <2>2, <2>3
<1>10. QED
  BY <1>7, <1>8, <1>9 DEF HoldsRecent

\* A nonce the scan does not find keeps the sequence spaced when appended.
LEMMA AppendSpaced ==
  ASSUME NEW N, NEW r \in Ring(N), NEW L \in Seq(N), NEW n \in N,
         HoldsRecent(r, L), Spaced(L), ~Holds(r, n)
  PROVE  Spaced(Append(L, n))
<1> DEFINE M == Append(L, n)
<1>1. /\ Len(L) \in Nat /\ DOMAIN L = 1 .. Len(L) /\ DOMAIN M = 1 .. (Len(L) + 1)
      /\ M[Len(L) + 1] = n /\ \A a \in 1 .. Len(L) : M[a] = L[a]
  OBVIOUS
<1>2. ASSUME NEW a \in 1 .. Len(L), L[a] = n, Len(L) + 1 - a <= REPLAY_WINDOW
      PROVE  FALSE
  <2>1. r.count = IF Len(L) < REPLAY_WINDOW THEN Len(L) ELSE REPLAY_WINDOW
    BY DEF HoldsRecent
  <2>2. Len(L) + 1 - a \in 1 .. r.count /\ Len(L) - (Len(L) + 1 - a) + 1 = a
    BY <1>1, <1>2, <2>1
  <2>3. r.nonces[Back(r, Len(L) + 1 - a)] = n
    BY <1>2, <2>2 DEF HoldsRecent
  <2>4. Back(r, Len(L) + 1 - a) \in 0 .. (r.count - 1)
    BY <2>2, BackIsScanned DEF HoldsRecent
  <2>5. QED
    BY <2>3, <2>4 DEF Holds
<1>3. SUFFICES ASSUME NEW a \in DOMAIN M, NEW b \in DOMAIN M, a < b, M[a] = M[b]
               PROVE  b - a > REPLAY_WINDOW
  BY DEF Spaced
<1>4. CASE b = Len(L) + 1
  <2>1. a \in 1 .. Len(L) /\ L[a] = n
    BY <1>1, <1>3, <1>4
  <2>2. QED
    BY <1>1, <1>2, <1>4, <2>1
<1>5. CASE b # Len(L) + 1
  <2>1. a \in 1 .. Len(L) /\ b \in 1 .. Len(L) /\ L[a] = L[b]
    BY <1>1, <1>3, <1>5
  <2>2. QED
    BY <1>1, <1>3, <2>1 DEF Spaced
<1>6. QED
  BY <1>4, <1>5

LEMMA EmptyRecent == HoldsRecent(EmptyRing, <<>>) /\ Spaced(<<>>)
  BY DEF HoldsRecent, EmptyRing, Spaced

-----------------------------------------------------------------------------
(* Slots change hands, threads do not follow                               *)

\* A thread that is past session_find() carries a generation the slot has
\* had; if the slot still has it, the slot still holds the packet's session.
JobInv ==
  \A t \in Threads :
    pc[t] # "idle" =>
      /\ job[t].gen <= generation[job[t].idx]
      /\ SameSession(job[t]) => owner[job[t].idx] = job[t].pkt.sess

TableInv == JobInv /\ NoCrossSession /\ RingInv

LEMMA AllocKeepsTableInv ==
  ASSUME TypeOK, TableInv, NEW i \in Slots, NEW s \in Sessions \cup {NoSession},
         NEW h \in HintState, session_alloc(i, s, h), UNCHANGED <<pc, job>>
  PROVE  TableInv'
<1>1. JobInv'
  <2> SUFFICES ASSUME NEW t \in Threads, pc[t] # "idle"
               PROVE  /\ job[t].gen <= generation'[job[t].idx]
                      /\ in_use'[job[t].idx] /\ generation'[job[t].idx] = job[t].gen
                           => owner'[job[t].idx] = job[t].pkt.sess
    BY DEF JobInv, SameSession
  <2>1. job[t].idx \in Slots /\ job[t].gen \in Nat
    BY DEF TypeOK, Job
  <2>2. /\ job[t].gen <= generation[job[t].idx]
        /\ in_use[job[t].idx] /\ generation[job[t].idx] = job[t].gen
             => owner[job[t].idx] = job[t].pkt.sess
    BY DEF TableInv, JobInv, SameSession
  <2>3. CASE job[t].idx = i
    BY <2>1, <2>2, <2>3 DEF session_alloc, TypeOK
  <2>4. CASE job[t].idx # i
    BY <2>1, <2>2, <2>4 DEF session_alloc, TypeOK
  <2>5. QED
    BY <2>3, <2>4
<1>2. NoCrossSession' /\ RingInv'
  <2> SUFFICES ASSUME NEW k \in Slots, NEW m \in Mode
               PROVE  /\ \A a \in DOMAIN accepted'[k][m] :
                            accepted'[k][m][a].sess = owner'[k]
                      /\ HoldsRecent(seen'[k][m], accepted'[k][m])
                      /\ Spaced(accepted'[k][m])
    BY DEF NoCrossSession, RingInv
  <2>1. CASE k = i
    <3>1. accepted'[k][m] = <<>> /\ seen'[k][m] = EmptyRing
      BY <2>1 DEF session_alloc, TypeOK
    <3>2. QED
      BY <3>1, EmptyRecent
  <2>2. CASE k # i
    <3>1. /\ accepted'[k] = accepted[k] /\ seen'[k] = seen[k] /\ owner'[k] = owner[k]
      BY <2>2 DEF session_alloc, TypeOK
    <3>2. QED
      BY <3>1 DEF TableInv, NoCrossSession, RingInv
  <2>3. QED
    BY <2>1, <2>2
<1>3. QED
  BY <1>1, <1>2 DEF TableInv

\* A thread that finishes, or a step that only touches clients, network or
\* clock, leaves the table as it is.
LEMMA QuietKeepsTableInv ==
  ASSUME TypeOK, TableInv,
         UNCHANGED <<in_use, generation, owner, seen, accepted>>,
         \A t \in Threads : pc'[t] # "idle" => pc[t] # "idle" /\ job'[t] = job[t]
  PROVE  TableInv'
<1>1. JobInv'
  BY DEF TableInv, JobInv, SameSession
<1>2. NoCrossSession' /\ RingInv'
  BY DEF TableInv, NoCrossSession, RingInv
<1>3. QED
  BY <1>1, <1>2 DEF TableInv

\* session_find() hands out the slot's current generation and owner.
LEMMA ReceiveKeepsTableInv ==
  ASSUME TypeOK, TableInv, NEW t \in Threads, Receive(t)
  PROVE  TableInv'
<1>1. PICK p \in net, i \in Slots : session_find(t, p, i)
  BY DEF Receive
<1>2. /\ job'[t].gen = generation[i] /\ job'[t].idx = i /\ job'[t].pkt = p
      /\ \A u \in Threads \ {t} : job'[u] = job[u] /\ pc'[u] = pc[u]
  BY <1>1 DEF session_find, TypeOK
<1>3. owner[i] = p.sess /\ generation[i] \in Nat
  BY <1>1 DEF session_find, Found, TypeOK
<1>4. UNCHANGED <<in_use, generation, owner, seen, accepted>>
  BY DEF Receive
<1>5. JobInv'
  BY <1>2, <1>3, <1>4 DEF TableInv, JobInv, SameSession
<1>6. NoCrossSession' /\ RingInv'
  BY <1>4 DEF TableInv, NoCrossSession, RingInv
<1>7. QED
  BY <1>5, <1>6 DEF TableInv

\* The replay check: the generation test is what keeps the log of a slot to
\* its own session, the scan is what keeps it spaced.
LEMMA CheckKeepsTableInv ==
  ASSUME TypeOK, TableInv, NEW t \in Threads, NEW m \in Mode, CheckNonce(t, m)
  PROVE  TableInv'
<1> DEFINE i == job[t].idx
           n == NonceOf(job[t].pkt)
<1>1. job[t] \in Job /\ pc[t] # "idle"
  BY DEF CheckNonce, TypeOK
<1>2. i \in Slots /\ n \in Nonce /\ n.sess = job[t].pkt.sess
  BY <1>1 DEF Job, Packet, Nonce, NonceOf
<1>3. /\ UNCHANGED <<in_use, generation, owner>>
      /\ \A u \in Threads : pc'[u] # "idle" => pc[u] # "idle" /\ job'[u] = job[u]
  BY DEF CheckNonce, Done, slotVars, TypeOK
<1>4. CASE UNCHANGED <<seen, accepted>>
  BY <1>3, <1>4, QuietKeepsTableInv
<1>5. CASE /\ SameSession(job[t]) /\ ~Holds(seen[i][m], n)
           /\ seen' = [seen EXCEPT ![i][m] = Record(seen[i][m], n)]
           /\ accepted' = [accepted EXCEPT ![i][m] = Append(accepted[i][m], n)]
  <2>1. JobInv'
    BY <1>3 DEF TableInv, JobInv, SameSession
  <2>2. owner[i] = n.sess
    BY <1>1, <1>2, <1>5 DEF TableInv, JobInv
  <2>3. SUFFICES ASSUME NEW k \in Slots, NEW q \in Mode
                 PROVE  /\ \A a \in DOMAIN accepted'[k][q] :
                              accepted'[k][q][a].sess = owner[k]
                        /\ HoldsRecent(seen'[k][q], accepted'[k][q])
                        /\ Spaced(accepted'[k][q])
    BY <1>3, <2>1 DEF TableInv, NoCrossSession, RingInv
  <2>4. /\ \A a \in DOMAIN accepted[k][q] : accepted[k][q][a].sess = owner[k]
        /\ HoldsRecent(seen[k][q], accepted[k][q]) /\ Spaced(accepted[k][q])
        /\ seen[k][q] \in Ring(Nonce) /\ accepted[k][q] \in Seq(Nonce)
    BY DEF TableInv, NoCrossSession, RingInv, TypeOK
  <2>5. CASE k = i /\ q = m
    <3>1. /\ seen'[k][q] = Record(seen[k][q], n)
          /\ accepted'[k][q] = Append(accepted[k][q], n)
      BY <1>2, <1>5, <2>5 DEF TypeOK
    <3>2. \A a \in DOMAIN Append(accepted[k][q], n) :
             Append(accepted[k][q], n)[a].sess = owner[k]
      BY <1>2, <2>2, <2>4, <2>5
    <3>3. ~Holds(seen[k][q], n)
      BY <1>5, <2>5
    <3>4. /\ HoldsRecent(Record(seen[k][q], n), Append(accepted[k][q], n))
          /\ Spaced(Append(accepted[k][q], n))
      BY <1>2, <2>4, <3>3, RecordHoldsRecent, AppendSpaced
    <3>5. QED
      BY <3>1, <3>2, <3>4
  <2>6. CASE ~(k = i /\ q = m)
    <3>1. seen'[k][q] = seen[k][q] /\ accepted'[k][q] = accepted[k][q]
      BY <1>2, <1>5, <2>6 DEF TypeOK
    <3>2. QED
      BY <2>4, <3>1
  <2>7. QED
    BY <2>5, <2>6
<1>6. QED
  BY <1>4, <1>5 DEF CheckNonce

LEMMA TableInvInductive == TypeOK /\ TableInv /\ [Next]_vars => TableInv'
<1> SUFFICES ASSUME TypeOK, TableInv, [Next]_vars PROVE TableInv'
  OBVIOUS
<1>1. ASSUME NEW s \in Sessions, Extend(s) PROVE TableInv'
  <2>1. CASE handle_extend(s)
    BY <2>1, AllocKeepsTableInv, InitialHintsType DEF handle_extend
  <2>2. CASE HintSeedFails(s)
    BY <2>2, AllocKeepsTableInv, InitialHintsType DEF HintSeedFails
  <2>3. CASE StoreFull(s)
    BY <2>3, QuietKeepsTableInv DEF StoreFull, slotVars
  <2>4. QED
    BY <1>1, <2>1, <2>2, <2>3 DEF Extend
<1>2. ASSUME NEW t \in Threads, Handle(t) PROVE TableInv'
  <2>1. CASE HintMiss(t)
    BY <2>1, QuietKeepsTableInv DEF HintMiss, slotVars
  <2>2. CASE PeelFails(t)
    BY <2>2, QuietKeepsTableInv DEF PeelFails, Done, slotVars, TypeOK
  <2>3. CASE session_confirm_hint_match(t)
    BY <2>3, QuietKeepsTableInv DEF session_confirm_hint_match, slotVars, TypeOK
  <2>4. QED
    BY <1>2, <2>1, <2>2, <2>3, ReceiveKeepsTableInv, CheckKeepsTableInv
    DEF Handle, session_check_nonce_by_idx, session_check_return_nonce_by_idx, Mode
<1>3. ASSUME NEW s \in Sessions, NEW d \in Domain, Send(s, d) \/ Resend(s, d)
      PROVE  TableInv'
  BY <1>3, QuietKeepsTableInv DEF Send, Resend, slotVars
<1>4. CASE Tick
  BY <1>4, QuietKeepsTableInv DEF Tick
<1>5. CASE UNCHANGED vars
  BY <1>5, QuietKeepsTableInv DEF vars
<1>6. QED
  BY <1>1, <1>2, <1>3, <1>4, <1>5 DEF Next

LEMMA TableInvHolds == Spec => []TableInv
<1>1. Init => TableInv
  <2> SUFFICES ASSUME Init PROVE TableInv
    OBVIOUS
  <2>1. \A k \in Slots, m \in Mode : accepted[k][m] = <<>> /\ seen[k][m] = EmptyRing
    BY DEF Init
  <2>2. JobInv
    BY DEF Init, JobInv
  <2>3. NoCrossSession /\ RingInv
    BY <2>1, EmptyRecent DEF NoCrossSession, RingInv
  <2>4. QED
    BY <2>2, <2>3 DEF TableInv
<1>2. QED
  BY <1>1, TypeCorrect, TableInvInductive, PTL DEF Spec

\* Exact resends within REPLAY_WINDOW accepted packets are never let through
\* twice, for every ring size and every interleaving.
THEOREM ReplayDistanceHolds == Spec => []ReplayDistance
<1>1. TableInv => ReplayDistance
  BY DEF TableInv, RingInv, Spaced, ReplayDistance
<1>2. QED
  BY <1>1, TableInvHolds, PTL

\* No thread that outlived its session's slot records into the new session.
THEOREM NoCrossSessionHolds == Spec => []NoCrossSession
<1>1. TableInv => NoCrossSession
  BY DEF TableInv
<1>2. QED
  BY <1>1, TableInvHolds, PTL

-----------------------------------------------------------------------------
(* Refinement: the table implements ReplayFilter                           *)

\* What the scan does not find is not among the last REPLAY_WINDOW nonces.
LEMMA NotHeldNotRecent ==
  ASSUME NEW N, NEW r \in Ring(N), NEW L \in Seq(N), NEW n \in N,
         HoldsRecent(r, L), ~Holds(r, n)
  PROVE  n \notin Filter!Recent(L)
<1>1. SUFFICES ASSUME NEW j \in 1 .. Len(L), Len(L) - j < REPLAY_WINDOW, n = L[j]
               PROVE  FALSE
  BY DEF Filter!Recent
<1>2. /\ Len(L) \in Nat
      /\ r.count = IF Len(L) < REPLAY_WINDOW THEN Len(L) ELSE REPLAY_WINDOW
  BY DEF HoldsRecent
<1>3. Len(L) + 1 - j \in 1 .. r.count /\ Len(L) - (Len(L) + 1 - j) + 1 = j
  BY <1>1, <1>2
<1>4. r.nonces[Back(r, Len(L) + 1 - j)] = n
  BY <1>1, <1>3 DEF HoldsRecent
<1>5. Back(r, Len(L) + 1 - j) \in 0 .. (r.count - 1)
  BY <1>3, BackIsScanned DEF HoldsRecent
<1>6. QED
  BY <1>4, <1>5 DEF Holds

LEMMA AllocIsAssign ==
  ASSUME NEW i \in Slots, NEW s \in Sessions \cup {NoSession}, NEW h, session_alloc(i, s, h)
  PROVE  Filter!Next
<1>1. Filter!Assign(i, s)
  BY DEF session_alloc, Filter!Assign
<1>2. QED
  BY <1>1 DEF Filter!Next

LEMMA CheckIsPass ==
  ASSUME TypeOK, TableInv, NEW t \in Threads, NEW m \in Mode, CheckNonce(t, m)
  PROVE  Filter!Next \/ UNCHANGED <<owner, accepted>>
<1> DEFINE i == job[t].idx
           n == NonceOf(job[t].pkt)
<1>1. job[t] \in Job /\ pc[t] # "idle"
  BY DEF CheckNonce, TypeOK
<1>2. i \in Slots /\ n \in Nonce /\ n.sess = job[t].pkt.sess
  BY <1>1 DEF Job, Packet, Nonce, NonceOf
<1>3. CASE UNCHANGED <<seen, accepted>>
  BY <1>3 DEF CheckNonce, slotVars
<1>4. CASE /\ SameSession(job[t]) /\ ~Holds(seen[i][m], n)
           /\ accepted' = [accepted EXCEPT ![i][m] = Append(accepted[i][m], n)]
  <2>1. n.sess = owner[i]
    BY <1>1, <1>2, <1>4 DEF TableInv, JobInv
  <2>2. /\ HoldsRecent(seen[i][m], accepted[i][m])
        /\ seen[i][m] \in Ring(Nonce) /\ accepted[i][m] \in Seq(Nonce)
    BY <1>2 DEF TableInv, RingInv, TypeOK
  <2>3. n \notin Filter!Recent(accepted[i][m])
    BY <1>2, <1>4, <2>2, NotHeldNotRecent
  <2>4. accepted'[i][m] = Append(accepted[i][m], n)
    BY <1>2, <1>4 DEF TypeOK
  <2>5. /\ Len(accepted'[i][m]) = Len(accepted[i][m]) + 1
        /\ accepted'[i][m][Len(accepted'[i][m])] = n
    <3> DEFINE L == accepted[i][m]
    <3>1. L \in Seq(Nonce) /\ n \in Nonce
      BY <1>2, <2>2
    <3>2. accepted'[i][m] = Append(L, n)
      BY <2>4
    <3> HIDE DEF L, n
    <3>3. Len(Append(L, n)) = Len(L) + 1 /\ Append(L, n)[Len(L) + 1] = n
      BY <3>1
    <3>4. QED
      BY <3>2, <3>3 DEF L
  <2>6. UNCHANGED owner
    BY DEF CheckNonce, slotVars
  <2>7. Filter!Pass(i, m)
    BY <1>4, <2>1, <2>3, <2>5, <2>6 DEF Filter!Pass
  <2>8. QED
    BY <1>2, <2>7 DEF Filter!Next
<1>5. QED
  BY <1>3, <1>4 DEF CheckNonce

\* Every step of the node is a step of the filter or leaves it alone.
THEOREM FilterImplemented == Spec => ImplementsFilter
<1>1. Init => Filter!Init
  BY DEF Init, Filter!Init
<1>2. TypeOK /\ TableInv /\ [Next]_vars => [Filter!Next]_<<owner, accepted>>
  <2> SUFFICES ASSUME TypeOK, TableInv, [Next]_vars
               PROVE  Filter!Next \/ UNCHANGED <<owner, accepted>>
    OBVIOUS
  <2>1. ASSUME NEW s \in Sessions, Extend(s)
        PROVE  Filter!Next \/ UNCHANGED <<owner, accepted>>
    BY <2>1, AllocIsAssign DEF Extend, handle_extend, HintSeedFails, StoreFull, slotVars
  <2>2. ASSUME NEW t \in Threads, Handle(t)
        PROVE  Filter!Next \/ UNCHANGED <<owner, accepted>>
    BY <2>2, CheckIsPass
    DEF Handle, Receive, HintMiss, PeelFails, session_confirm_hint_match, slotVars,
        session_check_nonce_by_idx, session_check_return_nonce_by_idx, Mode
  <2>3. ASSUME NEW s \in Sessions, NEW d \in Domain, Send(s, d) \/ Resend(s, d)
        PROVE  UNCHANGED <<owner, accepted>>
    BY <2>3 DEF Send, Resend, slotVars
  <2>4. CASE Tick \/ UNCHANGED vars
    BY <2>4 DEF Tick, vars
  <2>5. QED
    BY <2>4, <2>3, <2>2, <2>1 DEF Next
<1>3. QED
  BY <1>1, <1>2, TypeCorrect, TableInvHolds, PTL DEF Spec, ImplementsFilter, Filter!Spec

-----------------------------------------------------------------------------
(* Hint windows                                                            *)

\* The base has been slid at least as far as the high water mark asks.
WindowInv ==
  \A i \in Slots, d \in Domain : DesiredBase(hint[i].high[d]) <= hint[i].base[d]

\* An advance moves one domain, forward, and only for a new high water mark.
LEMMA AdvanceMoves ==
  ASSUME NEW h \in HintState, NEW d \in Domain, NEW k \in Nat,
         \A e \in Domain : DesiredBase(h.high[e]) <= h.base[e]
  PROVE  LET g == session_advance_hint_window(h, d, k) IN
         /\ \A e \in Domain : DesiredBase(g.high[e]) <= g.base[e]
         /\ g.base[d] >= h.base[d]
         /\ g # h => g.high[d] > h.high[d]
         /\ \A e \in Domain \ {d} : g.base[e] = h.base[e] /\ g.high[e] = h.high[e]
<1> DEFINE matched == h.base[d] + k
           high == IF h.high[d] = NothingMatched \/ matched > h.high[d]
                     THEN matched ELSE h.high[d]
           base == IF DesiredBase(high) <= h.base[d] THEN h.base[d] ELSE DesiredBase(high)
           g == session_advance_hint_window(h, d, k)
<1>1. /\ h.base \in [Domain -> Nat] /\ h.high \in [Domain -> Nat \cup {NothingMatched}]
      /\ h = [base |-> h.base, high |-> h.high]
  BY DEF HintState
<1>2. g = [base |-> [h.base EXCEPT ![d] = base], high |-> [h.high EXCEPT ![d] = high]]
  BY DEF session_advance_hint_window
<1>3. high \in Nat /\ (high # h.high[d] => high > h.high[d])
  BY <1>1 DEF NothingMatched
<1>4. DesiredBase(high) \in Nat
  BY <1>3 DEF DesiredBase
<1>5. base \in Nat /\ base >= h.base[d] /\ DesiredBase(high) <= base
  BY <1>1, <1>4
<1>6. high = h.high[d] => base = h.base[d]
  OBVIOUS
<1> HIDE DEF matched, high, base
<1>7. g.base[d] = base /\ g.high[d] = high
  BY <1>1, <1>2
<1>8. \A e \in Domain \ {d} : g.base[e] = h.base[e] /\ g.high[e] = h.high[e]
  BY <1>1, <1>2
<1>9. ASSUME high = h.high[d] PROVE g = h
  <2>1. [h.base EXCEPT ![d] = base] = h.base
    BY <1>1, <1>6, <1>9
  <2>2. [h.high EXCEPT ![d] = high] = h.high
    BY <1>1, <1>9
  <2>3. QED
    BY <1>1, <1>2, <2>1, <2>2
<1>10. \A e \in Domain : DesiredBase(g.high[e]) <= g.base[e]
  BY <1>5, <1>7, <1>8
<1>11. QED
  BY <1>3, <1>5, <1>7, <1>8, <1>9, <1>10

LEMMA FreshHints ==
  \A h \in {session_init_hint_window, ZeroedHints} :
    \A d \in Domain : DesiredBase(h.high[d]) <= h.base[d]
  BY DEF session_init_hint_window, ZeroedHints, DesiredBase, NothingMatched, FirstCounter

\* The only step that touches a window without reallocating the slot.
LEMMA ConfirmMoves ==
  ASSUME TypeOK, JobInv, WindowInv, NEW t \in Threads, session_confirm_hint_match(t)
  PROVE  /\ WindowInv'
         /\ \A i \in Slots : hint'[i] # hint[i] => WindowMove(i)
<1> DEFINE j == job[t]
           g == session_advance_hint_window(hint[j.idx], j.dom, j.off)
<1>1. pc[t] = "peel" /\ j.pkt.intact /\ j \in Job
  BY DEF session_confirm_hint_match, TypeOK
<1>2. j.idx \in Slots /\ j.dom \in Domain /\ j.off \in Nat
  BY <1>1 DEF Job
<1>3. hint[j.idx] \in HintState
  BY <1>2 DEF TypeOK
<1>4. CASE ~SameSession(j)
  BY <1>4 DEF session_confirm_hint_match, WindowInv
<1>5. CASE SameSession(j)
  <2>1. hint' = [hint EXCEPT ![j.idx] = g]
    BY <1>5 DEF session_confirm_hint_match
  <2>2. hint'[j.idx] = g /\ \A i \in Slots \ {j.idx} : hint'[i] = hint[i]
    BY <1>2, <2>1 DEF TypeOK
  <2>3. owner[j.idx] = j.pkt.sess
    BY <1>1, <1>5 DEF JobInv
  <2>4. \A e \in Domain : DesiredBase(hint[j.idx].high[e]) <= hint[j.idx].base[e]
    BY <1>2 DEF WindowInv
  <2>5. /\ \A e \in Domain : DesiredBase(g.high[e]) <= g.base[e]
        /\ g.base[j.dom] >= hint[j.idx].base[j.dom]
        /\ g # hint[j.idx] => g.high[j.dom] > hint[j.idx].high[j.dom]
        /\ \A e \in Domain \ {j.dom} : /\ g.base[e] = hint[j.idx].base[e]
                                       /\ g.high[e] = hint[j.idx].high[e]
    BY <1>2, <1>3, <2>4, AdvanceMoves, SMTT(120)
  <2> HIDE DEF g
  <2>6. WindowInv'
    BY <2>2, <2>5 DEF WindowInv
  <2>7. ASSUME NEW i \in Slots, hint'[i] # hint[i] PROVE WindowMove(i)
    <3>1. i = j.idx
      BY <2>2, <2>7
    <3>2. hint'[i] = g /\ g # hint[i]
      BY <2>2, <2>7, <3>1
    <3>3. /\ hint'[i].base[j.dom] >= hint[i].base[j.dom]
          /\ hint'[i].high[j.dom] > hint[i].high[j.dom]
          /\ \A e \in Domain \ {j.dom} : /\ hint'[i].base[e] = hint[i].base[e]
                                         /\ hint'[i].high[e] = hint[i].high[e]
      BY <2>5, <3>1, <3>2
    <3>4. pc[t] = "peel" /\ job[t].pkt.intact /\ job[t].pkt.sess = owner[i]
      BY <1>1, <2>3, <3>1
    <3>5. QED
      BY <1>2, <3>3, <3>4, Zenon DEF WindowMove
  <2>8. QED
    BY <2>6, <2>7
<1>6. QED
  BY <1>4, <1>5

WindowStep == /\ WindowInv'
              /\ \A i \in Slots : generation'[i] = generation[i] /\ hint'[i] # hint[i]
                                     => WindowMove(i)

LEMMA AllocWindowStep ==
  ASSUME TypeOK, WindowInv, NEW i \in Slots, NEW s,
         NEW h \in {session_init_hint_window, ZeroedHints}, session_alloc(i, s, h)
  PROVE  WindowStep
<1>1. generation'[i] # generation[i]
  BY DEF session_alloc, TypeOK
<1>2. hint'[i] = h /\ \A k \in Slots \ {i} : hint'[k] = hint[k]
  BY DEF session_alloc, TypeOK
<1>3. WindowInv'
  BY <1>2, FreshHints DEF WindowInv
<1>4. QED
  BY <1>1, <1>2, <1>3 DEF WindowStep

LEMMA NextWindowStep == TypeOK /\ JobInv /\ WindowInv /\ [Next]_vars => WindowStep
<1> SUFFICES ASSUME TypeOK, JobInv, WindowInv, [Next]_vars PROVE WindowStep
  OBVIOUS
<1>1. ASSUME UNCHANGED hint PROVE WindowStep
  BY <1>1 DEF WindowStep, WindowInv
<1>2. ASSUME NEW s \in Sessions, Extend(s) PROVE WindowStep
  <2>1. CASE handle_extend(s)
    BY <2>1, AllocWindowStep DEF handle_extend
  <2>2. CASE HintSeedFails(s)
    BY <2>2, AllocWindowStep DEF HintSeedFails
  <2>3. CASE StoreFull(s)
    BY <1>1, <2>3 DEF StoreFull
  <2>4. QED
    BY <1>2, <2>1, <2>2, <2>3 DEF Extend
<1>3. ASSUME NEW t \in Threads, Handle(t) PROVE WindowStep
  <2>1. CASE session_confirm_hint_match(t)
    BY <2>1, ConfirmMoves DEF WindowStep
  <2>2. CASE ~session_confirm_hint_match(t)
    BY <1>1, <1>3, <2>2
    DEF Handle, Receive, HintMiss, PeelFails, session_check_nonce_by_idx,
        session_check_return_nonce_by_idx, CheckNonce
  <2>3. QED
    BY <2>1, <2>2
<1>4. ASSUME NEW s \in Sessions, NEW d \in Domain, Send(s, d) \/ Resend(s, d)
      PROVE  WindowStep
  BY <1>1, <1>4 DEF Send, Resend
<1>5. CASE Tick
  BY <1>1, <1>5 DEF Tick
<1>6. CASE UNCHANGED vars
  BY <1>1, <1>6 DEF vars
<1>7. QED
  BY <1>2, <1>3, <1>4, <1>5, <1>6 DEF Next

\* Windows move forward only, one domain at a time, for verified packets of
\* the session that holds the slot, for every window width and margin.
THEOREM WindowMovesHold == Spec => WindowMovesByOwnPackets
<1>1. Init => WindowInv
  BY FreshHints DEF Init, WindowInv
<1>2. TypeOK /\ JobInv /\ WindowInv /\ [Next]_vars => WindowInv'
  BY NextWindowStep DEF WindowStep
<1>3. TypeOK /\ JobInv /\ WindowInv /\ [Next]_vars =>
        [\A i \in Slots : generation'[i] = generation[i] /\ hint'[i] # hint[i]
                            => WindowMove(i)]_vars
  BY NextWindowStep DEF WindowStep
<1>4. TableInv => JobInv
  BY DEF TableInv
<1>5. QED
  BY <1>1, <1>2, <1>3, <1>4, TypeCorrect, TableInvHolds, PTL
  DEF Spec, WindowMovesByOwnPackets

-----------------------------------------------------------------------------
(* Reclaiming and the wrapping clock                                       *)

\* The unsigned difference of two clock readings.
LEMMA UnsignedDifference ==
  ASSUME NEW a \in 0 .. (TICK_MOD - 1), NEW b \in 0 .. (TICK_MOD - 1)
  PROVE  (a - b) % TICK_MOD = IF a >= b THEN a - b ELSE a - b + TICK_MOD
<1>1. CASE a >= b
  BY <1>1
<1>2. CASE a < b
  <2>1. a - b + TICK_MOD \in 0 .. (TICK_MOD - 1)
    BY <1>2
  <2>2. (a - b) % TICK_MOD = (a - b + TICK_MOD) % TICK_MOD
    OBVIOUS
  <2>3. QED
    BY <1>2, <2>1, <2>2
<1>3. QED
  BY <1>1, <1>2

\* The age computed from a wrapped clock is the true one while that is short
\* of SESSION_TTL.
IdleInv == \A i \in Slots : idle[i] < SESSION_TTL => Age(i) = idle[i]

LEMMA TickIdle == ASSUME TypeOK, IdleInv, Tick PROVE IdleInv'
<1>1. SUFFICES ASSUME NEW i \in Slots, idle'[i] < SESSION_TTL
               PROVE  (now' - last_active_ms[i]) % TICK_MOD = idle'[i]
  BY DEF IdleInv, Age, Tick
<1>2. /\ now \in 0 .. (TICK_MOD - 1) /\ last_active_ms[i] \in 0 .. (TICK_MOD - 1)
      /\ idle[i] \in 0 .. SESSION_TTL
  BY DEF TypeOK
<1>3. now' = IF now = TICK_MOD - 1 THEN 0 ELSE now + 1
  BY <1>2 DEF Tick
<1>4. idle'[i] = idle[i] + 1 /\ idle[i] < SESSION_TTL
  BY <1>1, <1>2 DEF Tick
<1>5. idle[i] = IF now >= last_active_ms[i] THEN now - last_active_ms[i]
                                            ELSE now - last_active_ms[i] + TICK_MOD
  BY <1>2, <1>4, UnsignedDifference DEF IdleInv, Age
<1>6. (now' - last_active_ms[i]) % TICK_MOD =
         IF now' >= last_active_ms[i] THEN now' - last_active_ms[i]
                                      ELSE now' - last_active_ms[i] + TICK_MOD
  BY <1>2, <1>3, UnsignedDifference
<1>7. QED
  BY <1>2, <1>3, <1>4, <1>5, <1>6

\* A slot that has just been touched has age zero.
LEMMA TouchIdle ==
  ASSUME TypeOK, IdleInv, NEW i \in Slots, UNCHANGED now,
         last_active_ms' = [last_active_ms EXCEPT ![i] = now],
         idle' = [idle EXCEPT ![i] = 0]
  PROVE  IdleInv'
<1>1. now \in 0 .. (TICK_MOD - 1)
  BY DEF TypeOK
<1>2. (now - now) % TICK_MOD = 0
  BY <1>1, UnsignedDifference
<1>3. QED
  BY <1>2 DEF IdleInv, Age, TypeOK

\* A step that reallocates a slot in use does so after SESSION_TTL.
ReclaimStep == /\ IdleInv'
               /\ \A i \in Slots : in_use[i] /\ generation'[i] # generation[i]
                                      => idle[i] >= SESSION_TTL

LEMMA AllocReclaimStep ==
  ASSUME TypeOK, IdleInv, NEW i \in Slots, NEW s, NEW h, session_alloc(i, s, h),
         UNCHANGED now
  PROVE  ReclaimStep
<1>1. IdleInv'
  BY TouchIdle DEF session_alloc
<1>2. ASSUME NEW k \in Slots, in_use[k], generation'[k] # generation[k]
      PROVE  idle[k] >= SESSION_TTL
  <2>1. k = i
    BY <1>2 DEF session_alloc, TypeOK
  <2>2. Age(i) >= SESSION_TTL
    BY <1>2, <2>1 DEF session_alloc, AllocSlot, FreeSlots, ExpiredSlots
  <2>3. idle[i] \in 0 .. SESSION_TTL
    BY DEF TypeOK
  <2>4. QED
    BY <2>1, <2>2, <2>3 DEF IdleInv
<1>3. QED
  BY <1>1, <1>2 DEF ReclaimStep

LEMMA NextReclaimStep == TypeOK /\ IdleInv /\ [Next]_vars => ReclaimStep
<1> SUFFICES ASSUME TypeOK, IdleInv, [Next]_vars PROVE ReclaimStep
  OBVIOUS
<1>1. ASSUME UNCHANGED <<generation, last_active_ms, idle, now>> PROVE ReclaimStep
  BY <1>1 DEF ReclaimStep, IdleInv, Age
<1>2. ASSUME NEW s \in Sessions, Extend(s) PROVE ReclaimStep
  BY <1>1, <1>2, AllocReclaimStep
  DEF Extend, handle_extend, HintSeedFails, StoreFull, slotVars
<1>3. ASSUME NEW t \in Threads, Handle(t) PROVE ReclaimStep
  <2>1. CASE Receive(t)
    <3>1. IdleInv'
      BY <2>1, TouchIdle DEF Receive, session_find
    <3>2. QED
      BY <2>1, <3>1 DEF Receive, ReclaimStep
  <2>2. CASE ~Receive(t)
    BY <1>1, <1>3, <2>2
    DEF Handle, HintMiss, PeelFails, session_confirm_hint_match, slotVars,
        session_check_nonce_by_idx, session_check_return_nonce_by_idx, CheckNonce
  <2>3. QED
    BY <2>1, <2>2
<1>4. ASSUME NEW s \in Sessions, NEW d \in Domain, Send(s, d) \/ Resend(s, d)
      PROVE  ReclaimStep
  BY <1>1, <1>4 DEF Send, Resend, slotVars
<1>5. CASE Tick
  BY <1>5, TickIdle DEF ReclaimStep, Tick
<1>6. CASE UNCHANGED vars
  BY <1>1, <1>6 DEF vars
<1>7. QED
  BY <1>2, <1>3, <1>4, <1>5, <1>6 DEF Next

\* No session loses its slot within SESSION_TTL of its last packet, wherever
\* the millisecond counter stands and however often it wraps.
THEOREM ReclaimSparesActiveHolds == Spec => ReclaimSparesActive
<1>1. Init => IdleInv
  <2>1. (0 - 0) % TICK_MOD = 0
    BY UnsignedDifference
  <2>2. QED
    BY <2>1 DEF Init, IdleInv, Age
<1>2. TypeOK /\ IdleInv /\ [Next]_vars => IdleInv'
  BY NextReclaimStep DEF ReclaimStep
<1>3. TypeOK /\ IdleInv /\ [Next]_vars =>
        [\A i \in Slots : in_use[i] /\ generation'[i] # generation[i]
                            => idle[i] >= SESSION_TTL]_vars
  BY NextReclaimStep DEF ReclaimStep
<1>4. QED
  BY <1>1, <1>2, <1>3, TypeCorrect, PTL DEF Spec, ReclaimSparesActive

-----------------------------------------------------------------------------
(* How far threads that overlap slide a window                             *)

\* The window of real counters stays below the cover counters, which begin at
\* 2^62 in config.h, by all that the threads may slide it too far.
CountersApart ==
  MaxSent["real"] + Cardinality(Threads) * Slide + HINT_WINDOW <= HINT_COVER_COUNTER_BASE

\* A counter that a client has used.
WasSent(s, d, c) == FirstCounter(d) <= c /\ c <= TopSent(s, d)

SentInv ==
  /\ \A s \in Sessions, d \in Domain : sent[s][d] <= MaxSent[d]
  /\ \A p \in net : \E d \in Domain : WasSent(p.sess, d, p.ctr)

\* Threads whose packet will slide the window of slot i wherever it is by then.
Pushers(i, d) ==
  {t \in Threads : /\ pc[t] = "peel" /\ SameSession(job[t])
                   /\ job[t].idx = i /\ job[t].dom = d
                   /\ job[t].off >= HINT_SAFETY_MARGIN}

Push(i, d) == [t \in Pushers(i, d) |-> job[t].off - HINT_SAFETY_MARGIN + 1]

\* Where a window may start when all threads are through with it.
Limit(s, d) ==
  TopSent(s, d) - HINT_SAFETY_MARGIN + 1 + (Cardinality(Threads) - 1) * Slide

\* A window at b that the threads of P are about to slide, thread t by r[t]:
\* there is room for one of them and for the others at their worst.
HasRoom(b, first, limit, P, r) ==
  \/ P = {} /\ (b = first \/ b <= limit)
  \/ \E t \in P : b + r[t] + (Cardinality(P) - 1) * Slide <= limit

BaseInv ==
  \A i \in Slots, d \in Domain :
    in_use[i] /\ owner[i] # NoSession =>
      /\ FirstCounter(d) <= hint[i].base[d]
      /\ HasRoom(hint[i].base[d], FirstCounter(d), Limit(owner[i], d), Pushers(i, d), Push(i, d))

\* A thread carries a used counter in the domain it belongs to.  Its offset
\* takes it at least that far, and when it has, so does the high water mark.
CarriedInv ==
  \A t \in Threads :
    pc[t] # "idle" /\ SameSession(job[t]) =>
      /\ WasSent(job[t].pkt.sess, job[t].dom, job[t].pkt.ctr)
      /\ pc[t] = "peel" => job[t].pkt.ctr <= hint[job[t].idx].base[job[t].dom] + job[t].off
      /\ pc[t] = "nonce" => job[t].pkt.ctr <= hint[job[t].idx].high[job[t].dom]

\* Whatever was let through is at or below the high water mark of its domain.
HeardInv ==
  \A i \in Slots, m \in Mode :
    in_use[i] /\ owner[i] # NoSession =>
      \A k \in DOMAIN accepted[i][m] :
        \E d \in Domain : /\ WasSent(owner[i], d, accepted[i][m][k].ctr)
                          /\ accepted[i][m][k].ctr <= hint[i].high[d]

OverlapInv == SentInv /\ WindowInv /\ BaseInv /\ CarriedInv /\ HeardInv

LEMMA FirstCounterType ==
  /\ \A d \in Domain : FirstCounter(d) \in Nat /\ MaxSent[d] \in Nat
  /\ "real" \in Domain /\ "cover" \in Domain /\ FirstCounter("real") = 0
  /\ FirstCounter("cover") = HINT_COVER_COUNTER_BASE
  /\ HINT_WINDOW \in Nat /\ HINT_WINDOW > 0 /\ HINT_COVER_COUNTER_BASE \in Nat
  /\ HINT_SAFETY_MARGIN \in Nat /\ HINT_SAFETY_MARGIN > 0 /\ HINT_SAFETY_MARGIN <= HINT_WINDOW
  BY DEF FirstCounter, Domain

LEMMA TopSentType ==
  ASSUME TypeOK, NEW s \in Sessions, NEW d \in Domain
  PROVE  TopSent(s, d) \in Int /\ sent[s][d] \in Nat
  BY FirstCounterType DEF TypeOK, TopSent

\* Distances threads may slide a window.
LEMMA SlideType ==
  /\ Slide \in Nat /\ Slide <= HINT_WINDOW /\ Slide = HINT_WINDOW - HINT_SAFETY_MARGIN
  /\ Cardinality(Threads) \in Nat /\ IsFiniteSet(Threads)
  /\ \A n \in Int : /\ n * Slide \in Int
                    /\ (n + 1) * Slide = n * Slide + Slide
                    /\ (n - 1) * Slide = n * Slide - Slide
  /\ \A n \in Nat : n * Slide >= 0
<1>1. Slide \in Nat /\ Slide <= HINT_WINDOW
  BY FirstCounterType DEF Slide
<1>2. ASSUME NEW k \in Nat
      PROVE  /\ \A n \in Int : n * k \in Int /\ (n + 1) * k = n * k + k /\ (n - 1) * k = n * k - k
             /\ \A n \in Nat : n * k >= 0
  OBVIOUS
<1>3. Cardinality(Threads) \in Nat
  BY FS_CardinalityType
<1> QED BY <1>1, <1>2, <1>3 DEF Slide

LEMMA FewerSlides ==
  ASSUME NEW a \in Int, NEW b \in Int, a <= b
  PROVE  a * Slide <= b * Slide
<1>1. ASSUME NEW k \in Nat PROVE a * k <= b * k
  <2>1. (b - a) * k >= 0
    OBVIOUS
  <2>2. (b - a) * k = b * k - a * k
    OBVIOUS
  <2> QED BY <2>1, <2>2
<1> QED BY <1>1, SlideType

\* A thread that leaves may have slid the window by what it had to.
LEMMA OneLess ==
  ASSUME NEW P, IsFiniteSet(P), NEW r \in [P -> 1 .. Slide], NEW u \in P,
         NEW b \in Int, NEW c \in Int, NEW first, NEW limit \in Int,
         c <= b + r[u], HasRoom(b, first, limit, P, r),
         NEW q, \A t \in P \ {u} : q[t] = r[t]
  PROVE  HasRoom(c, first, limit, P \ {u}, q)
<1> DEFINE Q == P \ {u}
           n == Cardinality(P)
<1>1. n \in Nat /\ IsFiniteSet(Q) /\ Cardinality(Q) = n - 1 /\ Cardinality(Q) \in Nat
  BY FS_CardinalityType, FS_RemoveElement
<1>2. PICK t \in P : b + r[t] + (n - 1) * Slide <= limit
  BY DEF HasRoom
<1>3. r[u] \in 1 .. Slide /\ r[t] \in 1 .. Slide
  OBVIOUS
<1> HIDE DEF n
<1>4. CASE Q = {}
  <2>1. Cardinality(Q) = 0
    BY <1>4, FS_EmptySet
  <2>2. u = t
    BY <1>4
  <2>3. (n - 1) * Slide = 0
    BY <1>1, <2>1, SlideType
  <2>4. c <= limit
    BY <1>2, <1>3, <2>2, <2>3
  <2> QED BY <1>4, <2>4 DEF HasRoom
<1>5. CASE Q # {}
  <2>1. PICK v \in Q : t # u => v = t
    BY <1>5
  <2>2. r[v] \in 1 .. Slide /\ q[v] = r[v]
    BY <2>1
  <2>3. (n - 1) * Slide = (Cardinality(Q) - 1) * Slide + Slide
        /\ (Cardinality(Q) - 1) * Slide \in Int
    BY <1>1, SlideType
  <2>4. c + q[v] + (Cardinality(Q) - 1) * Slide <= limit
    <3>1. PICK w \in Int, z \in Int : /\ w = (Cardinality(Q) - 1) * Slide
                                      /\ z = (n - 1) * Slide
      BY <2>3, SlideType
    <3>2. z = w + Slide /\ b + r[t] + z <= limit
      BY <1>2, <2>3, <3>1
    <3>3. ASSUME t = u PROVE c + q[v] + w <= limit
      BY ONLY <1>3, <2>2, <3>2, <3>3, SlideType, c <= b + r[u], w \in Int, z \in Int, b \in Int,
              c \in Int, limit \in Int
    <3>4. ASSUME t # u PROVE c + q[v] + w <= limit
      BY ONLY <1>3, <2>1, <2>2, <3>2, <3>4, SlideType, c <= b + r[u], w \in Int, z \in Int,
              b \in Int, c \in Int, limit \in Int
    <3> QED BY <3>1, <3>3, <3>4
  <2> QED BY <2>4 DEF HasRoom
<1> QED BY <1>4, <1>5

\* A thread that joins finds the window behind its packet.
LEMMA OneMore ==
  ASSUME NEW P, P \subseteq Threads, NEW u, u \in Threads, u \notin P,
         NEW b \in Int, NEW first, NEW x \in Int, NEW q, q[u] \in Int, b + q[u] <= x
  PROVE  HasRoom(b, first, x + (Cardinality(Threads) - 1) * Slide, P \cup {u}, q)
<1>1. /\ IsFiniteSet(P) /\ Cardinality(P) \in Nat /\ Cardinality(P \cup {u}) = Cardinality(P) + 1
  BY SlideType, FS_Subset, FS_CardinalityType, FS_AddElement
<1>2. Cardinality(P \cup {u}) <= Cardinality(Threads)
  <2>1. P \cup {u} \subseteq Threads
    OBVIOUS
  <2> QED BY <2>1, SlideType, FS_Subset
<1>3. (Cardinality(P \cup {u}) - 1) * Slide <= (Cardinality(Threads) - 1) * Slide
  BY <1>1, <1>2, SlideType, FewerSlides
<1>4. /\ (Cardinality(P \cup {u}) - 1) * Slide \in Int
      /\ (Cardinality(Threads) - 1) * Slide \in Int
  BY <1>1, SlideType
<1>5. b + q[u] + (Cardinality(P \cup {u}) - 1) * Slide <= x + (Cardinality(Threads) - 1) * Slide
  BY <1>3, <1>4
<1> QED BY <1>5 DEF HasRoom

\* More packets sent leave more room.
LEMMA MoreRoom ==
  ASSUME NEW P, IsFiniteSet(P), NEW r \in [P -> 1 .. Slide], NEW b \in Int, NEW first,
         NEW l \in Int, NEW k \in Int, l <= k, HasRoom(b, first, l, P, r)
  PROVE  HasRoom(b, first, k, P, r)
<1>1. CASE P = {}
  BY <1>1 DEF HasRoom
<1>2. ASSUME NEW t \in P, b + r[t] + (Cardinality(P) - 1) * Slide <= l
      PROVE  HasRoom(b, first, k, P, r)
  <2>1. (Cardinality(P) - 1) * Slide \in Int /\ r[t] \in Int
    BY FS_CardinalityType, SlideType
  <2>2. b + r[t] + (Cardinality(P) - 1) * Slide <= k
    BY <1>2, <2>1
  <2> QED BY <2>2 DEF HasRoom
<1> QED BY <1>1, <1>2 DEF HasRoom

\* A window with room starts no further than the limit.
LEMMA RoomBounds ==
  ASSUME NEW P, IsFiniteSet(P), NEW r \in [P -> 1 .. Slide], NEW b \in Int, NEW first,
         NEW l \in Int, HasRoom(b, first, l, P, r)
  PROVE  b = first \/ b <= l
<1>1. ASSUME NEW t \in P, b + r[t] + (Cardinality(P) - 1) * Slide <= l
      PROVE  b <= l
  <2>1. Cardinality(P) \in Nat /\ Cardinality(P) # 0
    BY FS_CardinalityType, FS_EmptySet
  <2>2. (Cardinality(P) - 1) * Slide >= 0 /\ (Cardinality(P) - 1) * Slide \in Int
    BY <2>1, SlideType
  <2>3. r[t] \in 1 .. Slide
    OBVIOUS
  <2> QED BY <1>1, <2>2, <2>3, SlideType
<1> QED BY <1>1 DEF HasRoom

LEMMA PushType ==
  ASSUME TypeOK, NEW i \in Slots, NEW d \in Domain
  PROVE  /\ Pushers(i, d) \subseteq Threads /\ IsFiniteSet(Pushers(i, d))
         /\ Push(i, d) \in [Pushers(i, d) -> 1 .. Slide]
<1>1. Pushers(i, d) \subseteq Threads
  BY DEF Pushers
<1>2. IsFiniteSet(Pushers(i, d))
  BY <1>1, SlideType, FS_Subset
<1>3. ASSUME NEW t \in Pushers(i, d) PROVE job[t].off - HINT_SAFETY_MARGIN + 1 \in 1 .. Slide
  <2>1. job[t] \in Job /\ job[t].off >= HINT_SAFETY_MARGIN
    BY <1>3 DEF Pushers, TypeOK
  <2> QED BY <2>1, FirstCounterType, SlideType DEF Job
<1> QED BY <1>1, <1>2, <1>3 DEF Push


\* Clients send more, never less.
MoreSent == \A s \in Sessions, d \in Domain : sent'[s][d] >= sent[s][d] /\ sent'[s][d] \in Nat

LEMMA StillSent ==
  ASSUME TypeOK, MoreSent
  PROVE  \A s \in Sessions, d \in Domain : \A c \in Int : WasSent(s, d, c) => WasSent(s, d, c)'
<1> SUFFICES ASSUME NEW s \in Sessions, NEW d \in Domain, NEW c \in Int, WasSent(s, d, c)
             PROVE  WasSent(s, d, c)'
  OBVIOUS
<1>1. sent[s][d] \in Nat /\ sent'[s][d] \in Nat /\ sent'[s][d] >= sent[s][d] /\ FirstCounter(d) \in Nat
  BY TopSentType, FirstCounterType DEF MoreSent
<1> QED BY <1>1 DEF WasSent, TopSent

LEMMA LimitGrows ==
  ASSUME TypeOK, MoreSent, NEW s \in Sessions, NEW d \in Domain
  PROVE  Limit(s, d) \in Int /\ Limit(s, d)' \in Int /\ Limit(s, d) <= Limit(s, d)'
<1>1. /\ sent[s][d] \in Nat /\ sent'[s][d] \in Nat /\ sent'[s][d] >= sent[s][d]
      /\ FirstCounter(d) \in Nat
  BY TopSentType, FirstCounterType DEF MoreSent
<1>2. PICK z \in Int : z = (Cardinality(Threads) - 1) * Slide
  BY SlideType
<1> QED BY <1>1, <1>2, FirstCounterType DEF Limit, TopSent

\* The window that holds a used counter is that of the counter's own domain.
LEMMA DomainsApart ==
  ASSUME TypeOK, SentInv, BaseInv, CountersApart, NEW i \in Slots, NEW s \in Sessions,
         NEW c \in Nat, NEW e \in Domain,
         in_use[i], owner[i] = s, s # NoSession, WasSent(s, e, c), Matches(i, c)
  PROVE  FoundDomain(i, c) = e
<1>1. /\ hint[i].base["real"] \in Nat /\ hint[i].base["cover"] \in Nat
  <2>1. hint[i] \in HintState
    BY DEF TypeOK
  <2> QED BY <2>1, FirstCounterType DEF HintState
<1>2. sent[s]["real"] <= MaxSent["real"] /\ sent[s]["real"] \in Nat /\ MaxSent["real"] \in Nat
  BY TopSentType, FirstCounterType DEF SentInv
<1>3. TopSent(s, "real") < MaxSent["real"] /\ TopSent(s, "real") \in Int
  BY <1>2, FirstCounterType DEF TopSent
<1>4. PICK z \in Int : z = (Cardinality(Threads) - 1) * Slide
  BY SlideType
<1>5. z = Cardinality(Threads) * Slide - Slide /\ Cardinality(Threads) * Slide \in Nat
  <2>1. Cardinality(Threads) * Slide \in Int /\ Cardinality(Threads) * Slide >= 0
    BY SlideType
  <2> QED BY <1>4, <2>1, SlideType
<1>6. hint[i].base["real"] + HINT_WINDOW <= HINT_COVER_COUNTER_BASE
  <2>1. HasRoom(hint[i].base["real"], FirstCounter("real"), Limit(s, "real"),
                Pushers(i, "real"), Push(i, "real"))
    BY FirstCounterType DEF BaseInv
  <2>2. Limit(s, "real") \in Int
    BY <1>3, <1>4, FirstCounterType DEF Limit
  <2>3. hint[i].base["real"] = 0 \/ hint[i].base["real"] <= Limit(s, "real")
    BY <1>1, <2>1, <2>2, FirstCounterType, PushType, RoomBounds
  <2>4. PICK y \in Nat : y = Cardinality(Threads) * Slide
    BY <1>5
  <2>5. z <= y
    BY <1>4, <1>5, <2>4, SlideType
  <2>6. Limit(s, "real") = TopSent(s, "real") - HINT_SAFETY_MARGIN + 1 + z
    BY <1>4 DEF Limit
  <2>7. Limit(s, "real") <= MaxSent["real"] + y
    BY <1>2, <1>3, <1>4, <2>2, <2>4, <2>5, <2>6, FirstCounterType
  <2>8. MaxSent["real"] + y + HINT_WINDOW <= HINT_COVER_COUNTER_BASE
    BY <2>4 DEF CountersApart
  <2> QED BY <1>1, <1>2, <2>2, <2>3, <2>4, <2>7, <2>8, FirstCounterType
<1>7. hint[i].base["cover"] >= HINT_COVER_COUNTER_BASE
  BY FirstCounterType DEF BaseInv
<1>8. CASE e = "real"
  <2>1. c < HINT_COVER_COUNTER_BASE
    BY <1>2, <1>3, <1>5, <1>8, FirstCounterType DEF WasSent, CountersApart
  <2>2. ~InWindow(hint[i], "cover", c)
    BY <1>1, <1>7, <2>1, FirstCounterType DEF InWindow
  <2> QED BY <1>8, <2>2 DEF Matches, FoundDomain, Domain
<1>9. CASE e = "cover"
  <2>1. c >= HINT_COVER_COUNTER_BASE
    BY <1>9, FirstCounterType DEF WasSent
  <2>2. ~InWindow(hint[i], "real", c)
    BY <1>1, <1>6, <2>1, FirstCounterType DEF InWindow
  <2> QED BY <1>9, <2>2 DEF FoundDomain
<1> QED BY <1>8, <1>9 DEF Domain

LEMMA SentStep ==
  ASSUME TypeOK, SentInv, [Next]_vars
  PROVE  SentInv' /\ MoreSent
<1>1. MoreSent
  <2>1. CASE UNCHANGED sent
    BY <2>1, TopSentType DEF MoreSent
  <2>2. ASSUME NEW s \in Sessions, NEW d \in Domain, Send(s, d)
        PROVE  MoreSent
    BY <2>2, TopSentType DEF Send, MoreSent, TypeOK
  <2> QED BY <2>1, <2>2 DEF Next, vars, Extend, handle_extend, HintSeedFails, StoreFull, Handle,
             Receive, HintMiss, PeelFails, session_confirm_hint_match, session_check_nonce_by_idx,
             session_check_return_nonce_by_idx, CheckNonce, Resend, Tick, clientVars
<1>2. \A p \in net : \E d \in Domain : WasSent(p.sess, d, p.ctr)'
  <2> SUFFICES ASSUME NEW p \in net
               PROVE  \E d \in Domain : WasSent(p.sess, d, p.ctr)'
    OBVIOUS
  <2>1. p.sess \in Sessions /\ p.ctr \in Int
    BY DEF TypeOK, Packet
  <2> QED BY <1>1, <2>1, StillSent DEF SentInv
<1>3. CASE UNCHANGED sent /\ net' \subseteq net
  BY <1>1, <1>2, <1>3 DEF SentInv
<1>4. ASSUME NEW s \in Sessions, NEW d \in Domain, Send(s, d)
      PROVE  SentInv'
  <2> DEFINE n == [sess |-> s, ctr |-> FirstCounter(d) + sent[s][d], intact |-> TRUE]
  <2>1. /\ net' = net \cup {n} /\ sent' = [sent EXCEPT ![s][d] = sent[s][d] + 1]
        /\ sent[s][d] < MaxSent[d]
    BY <1>4 DEF Send
  <2>2. sent[s][d] \in Nat /\ sent'[s][d] = sent[s][d] + 1
    BY <2>1, TopSentType DEF TypeOK
  <2>3. \A r \in Sessions, e \in Domain : sent'[r][e] <= MaxSent[e]
    BY <2>1, TopSentType, FirstCounterType DEF SentInv, TypeOK
  <2>4. n.sess = s /\ n.ctr = FirstCounter(d) + sent[s][d]
    OBVIOUS
  <2> HIDE DEF n
  <2>5. PICK c \in Nat : c = FirstCounter(d) + sent[s][d]
    BY <2>2, FirstCounterType
  <2>6. WasSent(s, d, c)'
    BY <2>2, <2>5, FirstCounterType DEF WasSent, TopSent
  <2>7. \A p \in net' : \E e \in Domain : WasSent(p.sess, e, p.ctr)'
    <3> SUFFICES ASSUME NEW p \in net'
                 PROVE  \E e \in Domain : WasSent(p.sess, e, p.ctr)'
      OBVIOUS
    <3>1. CASE p \in net
      BY <1>2, <3>1
    <3>2. CASE p = n
      <4>1. p.sess = s /\ p.ctr = c
        BY <2>4, <2>5, <3>2
      <4>2. WasSent(p.sess, d, p.ctr)'
        BY <2>6, <4>1
      <4> QED BY <4>2
    <3> QED BY <2>1, <3>1, <3>2
  <2> QED BY <2>3, <2>7 DEF SentInv
<1>5. ASSUME NEW s \in Sessions, NEW d \in Domain, Resend(s, d)
      PROVE  SentInv'
  <2>1. PICK c \in 0 .. (sent[s][d] - 1), b \in BOOLEAN :
          net' = net \cup {[sess |-> s, ctr |-> FirstCounter(d) + c, intact |-> b]}
    BY <1>5 DEF Resend
  <2> DEFINE n == [sess |-> s, ctr |-> FirstCounter(d) + c, intact |-> b]
  <2>2. sent' = sent /\ sent[s][d] \in Nat
    BY <1>5, TopSentType DEF Resend
  <2>3. n.sess = s /\ n.ctr = FirstCounter(d) + c /\ net' = net \cup {n}
    BY <2>1
  <2> HIDE DEF n
  <2>4. WasSent(s, d, n.ctr)'
    BY <2>2, <2>3, FirstCounterType DEF WasSent, TopSent
  <2>5. \A p \in net' : \E e \in Domain : WasSent(p.sess, e, p.ctr)'
    BY <1>2, <2>3, <2>4 DEF WasSent, TopSent
  <2> QED BY <2>2, <2>5 DEF SentInv
<1>6. \/ UNCHANGED sent /\ net' \subseteq net
      \/ \E s \in Sessions, d \in Domain : Send(s, d) \/ Resend(s, d)
  BY DEF Next, vars, Extend, handle_extend, HintSeedFails, StoreFull, Handle, Receive, HintMiss,
         PeelFails, session_confirm_hint_match, session_check_nonce_by_idx,
         session_check_return_nonce_by_idx, CheckNonce, Tick, clientVars
<1> QED BY <1>1, <1>3, <1>4, <1>5, <1>6


\* One window from a step to the next: it is where it was, and so are those who
\* will slide it.
LEMMA RoomStays ==
  ASSUME TypeOK, MoreSent, NEW i \in Slots, NEW d \in Domain, NEW s \in Sessions,
         HasRoom(hint[i].base[d], FirstCounter(d), Limit(s, d), Pushers(i, d), Push(i, d)),
         hint'[i].base[d] = hint[i].base[d], Pushers(i, d)' = Pushers(i, d),
         \A t \in Pushers(i, d) : job'[t] = job[t]
  PROVE  HasRoom(hint[i].base[d], FirstCounter(d), Limit(s, d), Pushers(i, d), Push(i, d))'
<1>1. Push(i, d)' = Push(i, d)
  BY DEF Push
<1>2. PICK l \in Int, k \in Int : l = Limit(s, d) /\ k = Limit(s, d)' /\ l <= k
  BY LimitGrows
<1>3. hint[i].base[d] \in Int
  BY FirstCounterType DEF TypeOK, HintState
<1>4. HasRoom(hint[i].base[d], FirstCounter(d), k, Pushers(i, d), Push(i, d))
  BY <1>2, <1>3, PushType, MoreRoom
<1> QED BY <1>1, <1>2, <1>4 DEF HasRoom

\* A step that changes no window, and no thread whose packet is to slide one.
LEMMA QuietKeepsOverlap ==
  ASSUME TypeOK, OverlapInv, SentInv', MoreSent,
         UNCHANGED <<in_use, generation, owner, hint>>, UNCHANGED accepted \/ HeardInv',
         \A t \in Threads : \/ pc'[t] = pc[t] /\ job'[t] = job[t]
                            \/ pc[t] = "nonce" /\ pc'[t] = "idle"
                            \/ pc[t] = "idle" /\ pc'[t] = "idle"
  PROVE  OverlapInv'
<1>1. WindowInv'
  BY DEF OverlapInv, WindowInv
<1>2. ASSUME NEW i \in Slots, NEW d \in Domain, in_use[i], owner[i] # NoSession
      PROVE  HasRoom(hint[i].base[d], FirstCounter(d), Limit(owner[i], d), Pushers(i, d), Push(i, d))'
  <2>1. PICK s \in Sessions : s = owner[i]
    BY <1>2 DEF TypeOK
  <2>2. HasRoom(hint[i].base[d], FirstCounter(d), Limit(s, d), Pushers(i, d), Push(i, d))
    BY <1>2, <2>1 DEF OverlapInv, BaseInv
  <2>3. Pushers(i, d)' = Pushers(i, d) /\ \A t \in Pushers(i, d) : job'[t] = job[t]
    BY DEF Pushers, SameSession
  <2>4. HasRoom(hint[i].base[d], FirstCounter(d), Limit(s, d), Pushers(i, d), Push(i, d))'
    BY <2>2, <2>3, RoomStays
  <2>5. owner'[i] = s
    BY <2>1
  <2> QED BY <2>4, <2>5 DEF Limit, TopSent
<1>3. BaseInv'
  BY <1>2 DEF OverlapInv, BaseInv
<1>4. ASSUME NEW t \in Threads, pc[t] # "idle", SameSession(job[t])
      PROVE  /\ FirstCounter(job[t].dom) <= job[t].pkt.ctr
             /\ job[t].pkt.ctr <= FirstCounter(job[t].dom) + sent'[job[t].pkt.sess][job[t].dom] - 1
  <2>1. job[t] \in Job
    BY <1>4 DEF TypeOK
  <2>2. PICK s \in Sessions, d \in Domain, c \in Int :
          s = job[t].pkt.sess /\ d = job[t].dom /\ c = job[t].pkt.ctr
    BY <2>1 DEF Job, Packet
  <2>3. WasSent(s, d, c)'
    BY <1>4, <2>2, StillSent DEF OverlapInv, CarriedInv
  <2>4. c <= FirstCounter(d) + sent'[s][d] - 1 /\ FirstCounter(d) <= c
    BY <2>3 DEF WasSent, TopSent
  <2> QED BY <2>2, <2>4
<1>5. CarriedInv'
  <2> SUFFICES ASSUME NEW t \in Threads, pc'[t] # "idle", SameSession(job[t])'
               PROVE  /\ FirstCounter(job'[t].dom) <= job'[t].pkt.ctr
                      /\ job'[t].pkt.ctr <= FirstCounter(job'[t].dom) + sent'[job'[t].pkt.sess][job'[t].dom] - 1
                      /\ pc'[t] = "peel" => job'[t].pkt.ctr <= hint'[job'[t].idx].base[job'[t].dom] + job'[t].off
                      /\ pc'[t] = "nonce" => job'[t].pkt.ctr <= hint'[job'[t].idx].high[job'[t].dom]
    BY DEF CarriedInv, WasSent, TopSent
  <2>1. pc'[t] = pc[t] /\ job'[t] = job[t]
    OBVIOUS
  <2>2. SameSession(job[t])
    BY <2>1 DEF SameSession
  <2> QED BY <1>4, <2>1, <2>2 DEF OverlapInv, CarriedInv, TopSent
<1>6. HeardInv'
  <2> SUFFICES ASSUME UNCHANGED accepted, NEW i \in Slots, NEW m \in Mode, in_use[i], owner[i] # NoSession,
                      NEW k \in DOMAIN accepted[i][m]
               PROVE  \E d \in Domain :
                        /\ FirstCounter(d) <= accepted[i][m][k].ctr
                        /\ accepted[i][m][k].ctr <= FirstCounter(d) + sent'[owner[i]][d] - 1
                        /\ accepted[i][m][k].ctr <= hint[i].high[d]
    BY DEF HeardInv, WasSent, TopSent
  <2>1. PICK d \in Domain : /\ WasSent(owner[i], d, accepted[i][m][k].ctr)
                            /\ accepted[i][m][k].ctr <= hint[i].high[d]
    BY DEF OverlapInv, HeardInv
  <2>2. PICK s \in Sessions, c \in Int : s = owner[i] /\ c = accepted[i][m][k].ctr
    <3>1. accepted[i][m][k] \in Nonce
      BY DEF TypeOK
    <3> QED BY <3>1 DEF TypeOK, Nonce
  <2>3. WasSent(s, d, c)'
    BY <2>1, <2>2, StillSent
  <2> QED BY <2>1, <2>2, <2>3 DEF WasSent, TopSent
<1> QED BY <1>1, <1>3, <1>5, <1>6 DEF OverlapInv

\* A session is stored: no thread holds the slot's new generation, so none
\* will slide its window, and nothing has been let through yet.
LEMMA AllocKeepsOverlap ==
  ASSUME TypeOK, JobInv, OverlapInv, WindowInv', SentInv', UNCHANGED <<pc, job, sent>>,
         NEW i \in Slots, NEW s \in Sessions \cup {NoSession}, NEW h, session_alloc(i, s, h),
         s = NoSession \/ h = session_init_hint_window
  PROVE  OverlapInv'
<1>1. /\ in_use'[i] /\ generation'[i] = generation[i] + 1 /\ owner'[i] = s /\ hint'[i] = h
      /\ \A m \in Mode : accepted'[i][m] = <<>>
      /\ \A k \in Slots \ {i} : /\ in_use'[k] = in_use[k] /\ generation'[k] = generation[k]
                                /\ owner'[k] = owner[k] /\ hint'[k] = hint[k]
                                /\ accepted'[k] = accepted[k]
  BY DEF session_alloc, TypeOK
<1>2. ASSUME NEW t \in Threads, pc[t] # "idle",
             in_use'[job[t].idx], generation'[job[t].idx] = job[t].gen
      PROVE  job[t].idx # i /\ job[t].idx \in Slots /\ SameSession(job[t])
  <2>1. job[t] \in Job
    BY <1>2 DEF TypeOK
  <2>2. job[t].idx \in Slots /\ job[t].gen \in Nat /\ generation[job[t].idx] \in Nat
    BY <2>1 DEF Job, TypeOK
  <2>3. job[t].gen <= generation[job[t].idx]
    BY <1>2 DEF JobInv
  <2>4. job[t].idx # i
    BY <1>1, <1>2, <2>2, <2>3
  <2> QED BY <1>1, <1>2, <2>2, <2>4 DEF SameSession
<1>3. MoreSent
  BY TopSentType DEF MoreSent
<1>4. ASSUME NEW k \in Slots, NEW d \in Domain, in_use'[k], owner'[k] # NoSession
      PROVE  /\ FirstCounter(d) <= hint'[k].base[d]
             /\ HasRoom(hint[k].base[d], FirstCounter(d), Limit(owner[k], d), Pushers(k, d), Push(k, d))'
  <2>1. CASE k = i
    <3>1. Pushers(k, d)' = {}
      BY <1>2, <2>1 DEF Pushers, SameSession
    <3>2. hint'[k].base[d] = FirstCounter(d)
      BY <1>1, <1>4, <2>1 DEF session_init_hint_window
    <3> QED BY <3>1, <3>2, FirstCounterType DEF HasRoom
  <2>2. CASE k # i
    <3>1. PICK r \in Sessions : r = owner[k] /\ r = owner'[k]
      BY <1>1, <1>4, <2>2 DEF TypeOK
    <3>2. /\ FirstCounter(d) <= hint[k].base[d]
          /\ HasRoom(hint[k].base[d], FirstCounter(d), Limit(r, d), Pushers(k, d), Push(k, d))
      BY <1>1, <1>4, <2>2, <3>1 DEF OverlapInv, BaseInv
    <3>3. Pushers(k, d)' = Pushers(k, d) /\ hint'[k] = hint[k]
      BY <1>1, <2>2 DEF Pushers, SameSession
    <3>4. HasRoom(hint[k].base[d], FirstCounter(d), Limit(r, d), Pushers(k, d), Push(k, d))'
      BY <1>3, <3>2, <3>3, RoomStays
    <3> QED BY <3>1, <3>2, <3>3, <3>4 DEF Limit, TopSent
  <2> QED BY <2>1, <2>2
<1>5. BaseInv'
  BY <1>4 DEF BaseInv
<1>6. CarriedInv'
  <2> SUFFICES ASSUME NEW t \in Threads, pc[t] # "idle",
                      in_use'[job[t].idx], generation'[job[t].idx] = job[t].gen
               PROVE  /\ WasSent(job[t].pkt.sess, job[t].dom, job[t].pkt.ctr)
                      /\ pc[t] = "peel" => job[t].pkt.ctr <= hint'[job[t].idx].base[job[t].dom] + job[t].off
                      /\ pc[t] = "nonce" => job[t].pkt.ctr <= hint'[job[t].idx].high[job[t].dom]
    BY DEF CarriedInv, WasSent, TopSent, SameSession
  <2>1. SameSession(job[t]) /\ hint'[job[t].idx] = hint[job[t].idx]
    BY <1>1, <1>2
  <2> QED BY <2>1 DEF OverlapInv, CarriedInv
<1>7. HeardInv'
  <2> SUFFICES ASSUME NEW k \in Slots, NEW m \in Mode, in_use'[k], owner'[k] # NoSession,
                      NEW n \in DOMAIN accepted'[k][m]
               PROVE  \E d \in Domain : /\ WasSent(owner'[k], d, accepted'[k][m][n].ctr)
                                        /\ accepted'[k][m][n].ctr <= hint'[k].high[d]
    BY DEF HeardInv, WasSent, TopSent
  <2>1. k # i
    BY <1>1
  <2>2. /\ in_use[k] /\ owner[k] # NoSession /\ owner'[k] = owner[k] /\ hint'[k] = hint[k]
        /\ accepted'[k] = accepted[k]
    BY <1>1, <2>1
  <2> QED BY <2>2 DEF OverlapInv, HeardInv
<1> QED BY <1>5, <1>6, <1>7 DEF OverlapInv

\* A thread looks a packet up.
LEMMA ReceiveKeepsOverlap ==
  ASSUME TypeOK, JobInv, OverlapInv, CountersApart, WindowInv', SentInv', NEW t \in Threads, Receive(t)
  PROVE  OverlapInv'
<1>1. PICK p \in net, i \in Slots : session_find(t, p, i)
  BY DEF Receive
<1>2. UNCHANGED <<in_use, generation, owner, hint, sent, accepted>> /\ pc[t] = "idle"
  BY DEF Receive
<1>3. PICK s \in Sessions, c \in Nat : s = p.sess /\ c = p.ctr /\ s # NoSession
  <2>1. p \in Packet
    BY DEF TypeOK
  <2> QED BY <2>1 DEF Packet
<1>4. in_use[i] /\ owner[i] = s /\ Matches(i, c)
  BY <1>1, <1>3 DEF session_find, Found
<1>5. PICK d \in Domain : WasSent(s, d, c)
  BY <1>3 DEF OverlapInv, SentInv
<1>6. FoundDomain(i, c) = d
  BY <1>3, <1>4, <1>5, DomainsApart DEF OverlapInv
<1>7. PICK b \in Nat : b = hint[i].base[d]
  BY DEF TypeOK, HintState
<1>8. /\ job' = [job EXCEPT ![t] = [pkt |-> p, idx |-> i, gen |-> generation[i], dom |-> d, off |-> c - b]]
      /\ pc' = [pc EXCEPT ![t] = "peel"]
  BY <1>1, <1>3, <1>6, <1>7 DEF session_find
<1>9. /\ pc'[t] = "peel"
      /\ job'[t].pkt = p /\ job'[t].idx = i /\ job'[t].dom = d /\ job'[t].off = c - b
      /\ \A u \in Threads \ {t} : pc'[u] = pc[u] /\ job'[u] = job[u]
  BY <1>8 DEF TypeOK
<1>10. MoreSent
  BY <1>2, TopSentType DEF MoreSent
<1>11. ASSUME NEW k \in Slots, NEW e \in Domain, in_use[k], owner[k] # NoSession
       PROVE  HasRoom(hint[k].base[e], FirstCounter(e), Limit(owner[k], e), Pushers(k, e), Push(k, e))'
  <2>1. PICK r \in Sessions : r = owner[k]
    BY <1>11 DEF TypeOK
  <2>2. HasRoom(hint[k].base[e], FirstCounter(e), Limit(r, e), Pushers(k, e), Push(k, e))
    BY <1>11, <2>1 DEF OverlapInv, BaseInv
  <2>3. t \notin Pushers(k, e)
    BY <1>2 DEF Pushers
  <2>4. Pushers(k, e)' \ {t} = Pushers(k, e)
    BY <1>2, <1>9, <2>3 DEF Pushers, SameSession
  <2>5. HasRoom(hint[k].base[e], FirstCounter(e), Limit(r, e), Pushers(k, e), Push(k, e))'
    <3>1. CASE t \notin Pushers(k, e)'
      <4>1. Pushers(k, e)' = Pushers(k, e)
        BY <2>4, <3>1
      <4>2. \A u \in Pushers(k, e) : job'[u] = job[u]
        BY <1>9, <2>3 DEF Pushers
      <4> QED BY <1>2, <1>10, <2>2, <4>1, <4>2, RoomStays
    <3>2. CASE t \in Pushers(k, e)'
      <4>1. k = i /\ e = d /\ r = s
        BY <1>3, <1>4, <1>9, <2>1, <3>2 DEF Pushers
      <4>2. Push(k, e)'[t] = c - b - HINT_SAFETY_MARGIN + 1
        BY <1>9, <3>2 DEF Push
      <4>3. Pushers(k, e)' = Pushers(k, e) \cup {t}
        BY <2>4, <3>2
      <4>4. c <= TopSent(s, d) /\ TopSent(s, d) \in Int
        BY <1>5, TopSentType DEF WasSent
      <4>5. hint[k].base[e] = b
        BY <1>7, <4>1
      <4>6. PICK q : q = Push(k, e)'
        OBVIOUS
      <4>7. q[t] \in Int /\ b + q[t] <= TopSent(s, d) - HINT_SAFETY_MARGIN + 1
        BY <4>2, <4>4, <4>6, FirstCounterType
      <4>8. HasRoom(b, FirstCounter(e), Limit(s, d), Pushers(k, e) \cup {t}, q)
        <5>1. PICK P : P = Pushers(k, e) /\ P \subseteq Threads /\ t \notin P
          BY <2>3, PushType
        <5>2. PICK f, x \in Int : f = FirstCounter(e) /\ x = TopSent(s, d) - HINT_SAFETY_MARGIN + 1
          BY <4>4, FirstCounterType
        <5>3. b + q[t] <= x /\ b \in Int /\ q[t] \in Int
          BY <4>7, <5>2
        <5>4. HasRoom(b, f, x + (Cardinality(Threads) - 1) * Slide, P \cup {t}, q)
          BY <5>1, <5>3, OneMore
        <5> QED BY <5>1, <5>2, <5>4 DEF Limit
      <4> QED BY <1>2, <4>1, <4>3, <4>5, <4>6, <4>8 DEF HasRoom, Limit, TopSent
    <3> QED BY <3>1, <3>2
  <2>6. owner'[k] = r
    BY <1>2, <2>1
  <2> QED BY <2>5, <2>6 DEF Limit, TopSent
<1>12. BaseInv'
  BY <1>2, <1>11 DEF OverlapInv, BaseInv
<1>13. CarriedInv'
  <2> SUFFICES ASSUME NEW u \in Threads, pc'[u] # "idle", SameSession(job[u])'
               PROVE  /\ WasSent(job'[u].pkt.sess, job'[u].dom, job'[u].pkt.ctr)
                      /\ pc'[u] = "peel" => job'[u].pkt.ctr <= hint[job'[u].idx].base[job'[u].dom] + job'[u].off
                      /\ pc'[u] = "nonce" => job'[u].pkt.ctr <= hint[job'[u].idx].high[job'[u].dom]
    BY <1>2 DEF CarriedInv, WasSent, TopSent
  <2>1. CASE u = t
    BY <1>3, <1>5, <1>7, <1>9, <2>1
  <2>2. CASE u # t
    <3>1. pc'[u] = pc[u] /\ job'[u] = job[u]
      BY <1>9, <2>2
    <3>2. SameSession(job[u])
      BY <1>2, <3>1 DEF SameSession
    <3> QED BY <3>1, <3>2 DEF OverlapInv, CarriedInv
  <2> QED BY <2>1, <2>2
<1>14. HeardInv'
  BY <1>2 DEF OverlapInv, HeardInv, WasSent, TopSent
<1> QED BY <1>12, <1>13, <1>14 DEF OverlapInv

\* A thread lets its packet go without having slid the window.
LEMMA PeelFailsKeepsOverlap ==
  ASSUME TypeOK, OverlapInv, WindowInv', SentInv', NEW t \in Threads, PeelFails(t)
  PROVE  OverlapInv'
<1>1. UNCHANGED <<in_use, generation, owner, hint, sent, accepted>> /\ pc[t] = "peel"
  BY DEF PeelFails, slotVars, clientVars
<1>2. pc'[t] = "idle" /\ \A u \in Threads \ {t} : pc'[u] = pc[u] /\ job'[u] = job[u]
  BY DEF PeelFails, Done, TypeOK
<1>3. MoreSent
  BY <1>1, TopSentType DEF MoreSent
<1>4. ASSUME NEW k \in Slots, NEW e \in Domain, in_use[k], owner[k] # NoSession
      PROVE  HasRoom(hint[k].base[e], FirstCounter(e), Limit(owner[k], e), Pushers(k, e), Push(k, e))'
  <2>1. PICK r \in Sessions : r = owner[k]
    BY <1>4 DEF TypeOK
  <2>2. HasRoom(hint[k].base[e], FirstCounter(e), Limit(r, e), Pushers(k, e), Push(k, e))
    BY <1>4, <2>1 DEF OverlapInv, BaseInv
  <2>3. Pushers(k, e)' = Pushers(k, e) \ {t}
    BY <1>1, <1>2 DEF Pushers, SameSession
  <2>4. HasRoom(hint[k].base[e], FirstCounter(e), Limit(r, e), Pushers(k, e), Push(k, e))'
    <3>1. CASE t \notin Pushers(k, e)
      <4>1. Pushers(k, e)' = Pushers(k, e)
        BY <2>3, <3>1
      <4>2. \A u \in Pushers(k, e) : job'[u] = job[u]
        BY <1>2, <3>1 DEF Pushers
      <4> QED BY <1>1, <1>3, <2>2, <4>1, <4>2, RoomStays
    <3>2. CASE t \in Pushers(k, e)
      <4>1. PICK P, q, g : P = Pushers(k, e) /\ q = Push(k, e) /\ g = Push(k, e)'
        OBVIOUS
      <4>2. IsFiniteSet(P) /\ q \in [P -> 1 .. Slide] /\ P \subseteq Threads /\ t \in P
        BY <3>2, <4>1, PushType
      <4>3. \A u \in P \ {t} : g[u] = q[u]
        BY <1>2, <2>3, <4>1, <4>2 DEF Push
      <4>4. PICK b \in Int, l \in Int, f \in Int : b = hint[k].base[e] /\ l = Limit(r, e) /\ f = FirstCounter(e)
        <5>1. hint[k].base[e] \in Int
          BY DEF TypeOK, HintState
        <5>2. Limit(r, e) \in Int
          BY <1>3, LimitGrows
        <5> QED BY <5>1, <5>2, FirstCounterType
      <4>5. q[t] \in 1 .. Slide /\ b <= b + q[t]
        BY <4>2, <4>4, SlideType
      <4>6. HasRoom(b, f, l, P \ {t}, g)
        BY <2>2, <4>1, <4>2, <4>3, <4>4, <4>5, OneLess
      <4> QED BY <1>1, <2>3, <4>1, <4>4, <4>6 DEF HasRoom, Limit, TopSent
    <3> QED BY <3>1, <3>2
  <2>5. owner'[k] = r
    BY <1>1, <2>1
  <2> QED BY <2>4, <2>5 DEF Limit, TopSent
<1>5. BaseInv'
  BY <1>1, <1>4 DEF OverlapInv, BaseInv
<1>6. CarriedInv'
  <2> SUFFICES ASSUME NEW u \in Threads, pc'[u] # "idle", SameSession(job[u])'
               PROVE  /\ WasSent(job'[u].pkt.sess, job'[u].dom, job'[u].pkt.ctr)
                      /\ pc'[u] = "peel" => job'[u].pkt.ctr <= hint[job'[u].idx].base[job'[u].dom] + job'[u].off
                      /\ pc'[u] = "nonce" => job'[u].pkt.ctr <= hint[job'[u].idx].high[job'[u].dom]
    BY <1>1 DEF CarriedInv, WasSent, TopSent
  <2>1. pc'[u] = pc[u] /\ job'[u] = job[u]
    BY <1>2
  <2>2. SameSession(job[u])
    BY <1>1, <2>1 DEF SameSession
  <2> QED BY <2>1, <2>2 DEF OverlapInv, CarriedInv
<1>7. HeardInv'
  BY <1>1 DEF OverlapInv, HeardInv, WasSent, TopSent
<1> QED BY <1>5, <1>6, <1>7 DEF OverlapInv

\* How far an advance slides a window whose base is where its high water mark
\* asks, or further: only for an offset of the margin or more.
LEMMA AdvanceReach ==
  ASSUME NEW h \in HintState, NEW d \in Domain, NEW k \in Nat,
         DesiredBase(h.high[d]) <= h.base[d]
  PROVE  LET g == session_advance_hint_window(h, d, k) IN
         /\ g.base[d] >= h.base[d] /\ g.high[d] >= h.high[d] /\ g.high[d] >= h.base[d] + k
         /\ \/ g.base[d] = h.base[d]
            \/ /\ k >= HINT_SAFETY_MARGIN
               /\ g.base[d] = h.base[d] + (k - HINT_SAFETY_MARGIN + 1)
         /\ \A e \in Domain \ {d} : g.base[e] = h.base[e] /\ g.high[e] = h.high[e]
<1>1. PICK b \in Nat, u \in Nat \cup {NothingMatched} : b = h.base[d] /\ u = h.high[d]
  BY DEF HintState
<1>2. PICK high \in Nat : high = IF u = NothingMatched \/ b + k > u THEN b + k ELSE u
  BY <1>1 DEF NothingMatched
<1>3. PICK base \in Nat : base = IF DesiredBase(high) <= b THEN b ELSE DesiredBase(high)
  <2>1. DesiredBase(high) \in Nat
    BY FirstCounterType DEF DesiredBase
  <2> QED BY <2>1
<1>4. session_advance_hint_window(h, d, k) =
        [base |-> [h.base EXCEPT ![d] = base], high |-> [h.high EXCEPT ![d] = high]]
  BY <1>1, <1>2, <1>3 DEF session_advance_hint_window
<1>5. PICK g : g = session_advance_hint_window(h, d, k)
  OBVIOUS
<1>6. /\ g.base[d] = base /\ g.high[d] = high
      /\ \A e \in Domain \ {d} : g.base[e] = h.base[e] /\ g.high[e] = h.high[e]
  BY <1>4, <1>5 DEF HintState
<1>7. base >= b /\ high >= b + k /\ high >= u
  BY <1>1, <1>2, <1>3, FirstCounterType DEF NothingMatched, DesiredBase
<1>8. \/ base = b
      \/ k >= HINT_SAFETY_MARGIN /\ base = b + (k - HINT_SAFETY_MARGIN + 1)
  <2>1. CASE high = u
    BY <1>1, <1>3, <2>1
  <2>2. CASE high = b + k
    BY <1>3, <2>2, FirstCounterType DEF DesiredBase
  <2> QED BY <1>2, <2>1, <2>2
<1> QED BY <1>1, <1>5, <1>6, <1>7, <1>8

\* The packet verified: the window is slid by what was looked up, wherever the
\* others have moved it since.
LEMMA ConfirmKeepsOverlap ==
  ASSUME TypeOK, JobInv, OverlapInv, WindowInv', SentInv', NEW t \in Threads,
         session_confirm_hint_match(t), SameSession(job[t])
  PROVE  OverlapInv'
<1>1. PICK i \in Slots, d \in Domain, off \in Nat, s \in Sessions, c \in Nat :
        /\ i = job[t].idx /\ d = job[t].dom /\ off = job[t].off
        /\ s = job[t].pkt.sess /\ c = job[t].pkt.ctr
  <2>1. job[t] \in Job
    BY DEF session_confirm_hint_match, TypeOK
  <2> QED BY <2>1 DEF Job, Packet
<1>2. /\ UNCHANGED <<in_use, generation, owner, sent, accepted, job>> /\ pc[t] = "peel"
      /\ pc'[t] = "nonce" /\ \A u \in Threads \ {t} : pc'[u] = pc[u]
  BY DEF session_confirm_hint_match, slotVars, clientVars, TypeOK
<1>3. PICK h \in HintState, g \in HintState : h = hint[i] /\ g = session_advance_hint_window(h, d, off)
  <2>1. hint[i] \in HintState
    BY DEF TypeOK
  <2> QED BY <2>1, AdvanceType
<1>4. /\ g.base[d] >= h.base[d] /\ g.high[d] >= h.high[d] /\ g.high[d] >= h.base[d] + off
      /\ \/ g.base[d] = h.base[d]
         \/ off >= HINT_SAFETY_MARGIN /\ g.base[d] = h.base[d] + (off - HINT_SAFETY_MARGIN + 1)
      /\ \A e \in Domain \ {d} : g.base[e] = h.base[e] /\ g.high[e] = h.high[e]
  <2>1. DesiredBase(h.high[d]) <= h.base[d]
    BY <1>3 DEF OverlapInv, WindowInv
  <2> QED BY <1>3, <2>1, AdvanceReach
<1>6. hint'[i] = g /\ \A k \in Slots \ {i} : hint'[k] = hint[k]
  BY <1>1, <1>3 DEF session_confirm_hint_match, TypeOK
<1>7. \A k \in Slots, e \in Domain :
        /\ hint[k].base[e] \in Nat /\ hint'[k].base[e] \in Nat
        /\ hint[k].high[e] \in Int /\ hint'[k].high[e] \in Int
  <2> SUFFICES ASSUME NEW k \in Slots
               PROVE  hint[k] \in HintState /\ hint'[k] \in HintState
    BY DEF HintState, NothingMatched
  <2> QED BY <1>6 DEF TypeOK
<1>8. \A k \in Slots, e \in Domain :
        hint'[k].base[e] >= hint[k].base[e] /\ hint'[k].high[e] >= hint[k].high[e]
  <2> SUFFICES ASSUME NEW k \in Slots, NEW e \in Domain
               PROVE  hint'[k].base[e] >= hint[k].base[e] /\ hint'[k].high[e] >= hint[k].high[e]
    OBVIOUS
  <2> QED BY <1>3, <1>4, <1>6, <1>7
<1>9. MoreSent
  BY <1>2, TopSentType DEF MoreSent
<1>10. ASSUME NEW k \in Slots, NEW e \in Domain, in_use[k], owner[k] # NoSession
       PROVE  HasRoom(hint[k].base[e], FirstCounter(e), Limit(owner[k], e), Pushers(k, e), Push(k, e))'
  <2>1. PICK r \in Sessions : r = owner[k]
    BY <1>10 DEF TypeOK
  <2>2. HasRoom(hint[k].base[e], FirstCounter(e), Limit(r, e), Pushers(k, e), Push(k, e))
    BY <1>10, <2>1 DEF OverlapInv, BaseInv
  <2>3. Pushers(k, e)' = Pushers(k, e) \ {t}
    BY <1>2 DEF Pushers, SameSession
  <2>4. HasRoom(hint[k].base[e], FirstCounter(e), Limit(r, e), Pushers(k, e), Push(k, e))'
    <3>1. CASE t \notin Pushers(k, e)
      <4>1. Pushers(k, e)' = Pushers(k, e) /\ \A u \in Pushers(k, e) : job'[u] = job[u]
        BY <1>2, <2>3, <3>1
      <4>2. hint'[k].base[e] = hint[k].base[e]
        <5>1. CASE k = i /\ e = d
          <6>1. ~(off >= HINT_SAFETY_MARGIN)
            BY <1>1, <1>2, <3>1, <5>1 DEF Pushers
          <6> QED BY <1>3, <1>4, <1>6, <5>1, <6>1
        <5>2. CASE k # i \/ e # d
          BY <1>3, <1>4, <1>6, <5>2
        <5> QED BY <5>1, <5>2
      <4> QED BY <1>9, <2>2, <4>1, <4>2, RoomStays
    <3>2. CASE t \in Pushers(k, e)
      <4>1. PICK P, q, y : P = Pushers(k, e) /\ q = Push(k, e) /\ y = Push(k, e)'
        OBVIOUS
      <4>2. IsFiniteSet(P) /\ q \in [P -> 1 .. Slide] /\ P \subseteq Threads /\ t \in P
        BY <3>2, <4>1, PushType
      <4>3. \A u \in P \ {t} : y[u] = q[u]
        BY <1>2, <2>3, <4>1, <4>2 DEF Push
      <4>4. PICK b \in Int, z \in Int, l \in Int, f \in Int :
              b = hint[k].base[e] /\ z = hint'[k].base[e] /\ l = Limit(r, e) /\ f = FirstCounter(e)
        <5>1. hint[k].base[e] \in Int /\ hint'[k].base[e] \in Int
          BY <1>7
        <5>2. Limit(r, e) \in Int
          BY <1>9, LimitGrows
        <5> QED BY <5>1, <5>2, FirstCounterType
      <4>5. z <= b + q[t]
        <5>1. k = i /\ e = d /\ q[t] = off - HINT_SAFETY_MARGIN + 1 /\ off >= HINT_SAFETY_MARGIN
          BY <1>1, <3>2, <4>1 DEF Pushers, Push
        <5>2. b = h.base[d] /\ z = g.base[d]
          BY <1>3, <1>6, <4>4, <5>1
        <5> QED BY <1>4, <4>4, <5>1, <5>2, FirstCounterType
      <4>6. HasRoom(z, f, l, P \ {t}, y)
        BY <2>2, <4>1, <4>2, <4>3, <4>4, <4>5, OneLess
      <4> QED BY <1>2, <2>3, <4>1, <4>4, <4>6 DEF HasRoom, Limit, TopSent
    <3> QED BY <3>1, <3>2
  <2>5. owner'[k] = r
    BY <1>2, <2>1
  <2> QED BY <2>4, <2>5 DEF Limit, TopSent
<1>11. BaseInv'
  <2> SUFFICES ASSUME NEW k \in Slots, NEW e \in Domain, in_use[k], owner[k] # NoSession
               PROVE  FirstCounter(e) <= hint'[k].base[e]
    BY <1>2, <1>10 DEF BaseInv
  <2>1. FirstCounter(e) <= hint[k].base[e]
    BY DEF OverlapInv, BaseInv
  <2> QED BY <1>7, <1>8, <2>1, FirstCounterType
<1>12. CarriedInv'
  <2> SUFFICES ASSUME NEW u \in Threads, pc'[u] # "idle", SameSession(job[u])
               PROVE  /\ WasSent(job[u].pkt.sess, job[u].dom, job[u].pkt.ctr)
                      /\ pc'[u] = "peel" => job[u].pkt.ctr <= hint'[job[u].idx].base[job[u].dom] + job[u].off
                      /\ pc'[u] = "nonce" => job[u].pkt.ctr <= hint'[job[u].idx].high[job[u].dom]
    BY <1>2 DEF CarriedInv, WasSent, TopSent, SameSession
  <2>1. pc[u] # "idle"
    BY <1>2
  <2>2. PICK k \in Slots, e \in Domain, o \in Nat, n \in Nat :
          k = job[u].idx /\ e = job[u].dom /\ o = job[u].off /\ n = job[u].pkt.ctr
    <3>1. job[u] \in Job
      BY <2>1 DEF TypeOK
    <3> QED BY <3>1 DEF Job, Packet
  <2>3. /\ WasSent(job[u].pkt.sess, job[u].dom, job[u].pkt.ctr)
        /\ pc[u] = "peel" => n <= hint[k].base[e] + o
        /\ pc[u] = "nonce" => n <= hint[k].high[e]
    BY <2>1, <2>2 DEF OverlapInv, CarriedInv
  <2>4. pc'[u] = "peel" => n <= hint'[k].base[e] + o
    BY <1>2, <1>7, <1>8, <2>3
  <2>5. pc'[u] = "nonce" => n <= hint'[k].high[e]
    <3>1. CASE u = t
      <4>1. k = i /\ e = d /\ o = off
        BY <1>1, <2>2, <3>1
      <4>2. n <= h.base[d] + off /\ g.high[d] = hint'[k].high[e]
        BY <1>2, <1>3, <1>6, <2>3, <3>1, <4>1
      <4>3. h.base[d] \in Nat /\ g.high[d] \in Int
        BY <1>3, <1>6, <1>7
      <4> QED BY <1>4, <4>2, <4>3
    <3>2. CASE u # t
      BY <1>2, <1>7, <1>8, <2>3, <3>2
    <3> QED BY <3>1, <3>2
  <2> QED BY <2>2, <2>3, <2>4, <2>5
<1>13. HeardInv'
  <2> SUFFICES ASSUME NEW k \in Slots, NEW m \in Mode, in_use[k], owner[k] # NoSession,
                      NEW n \in DOMAIN accepted[k][m]
               PROVE  \E e \in Domain : /\ WasSent(owner[k], e, accepted[k][m][n].ctr)
                                        /\ accepted[k][m][n].ctr <= hint'[k].high[e]
    BY <1>2 DEF HeardInv, WasSent, TopSent
  <2>1. PICK e \in Domain : /\ WasSent(owner[k], e, accepted[k][m][n].ctr)
                            /\ accepted[k][m][n].ctr <= hint[k].high[e]
    BY DEF OverlapInv, HeardInv
  <2>2. PICK a \in Nat : a = accepted[k][m][n].ctr
    <3>1. accepted[k][m] \in Seq(Nonce)
      BY DEF TypeOK
    <3>2. PICK x \in Nonce : x = accepted[k][m][n]
      BY <3>1
    <3>3. x.ctr \in Nat
      BY DEF Nonce
    <3> QED BY <3>2, <3>3
  <2>3. a <= hint'[k].high[e]
    BY <1>7, <1>8, <2>1, <2>2
  <2> QED BY <2>1, <2>2, <2>3
<1> QED BY <1>11, <1>12, <1>13 DEF OverlapInv

\* A packet is let through: the high water mark has reached it.
LEMMA CheckHears ==
  ASSUME TypeOK, JobInv, OverlapInv, NEW t \in Threads, NEW m \in Mode, CheckNonce(t, m)
  PROVE  UNCHANGED accepted \/ HeardInv'
<1>1. CASE ~SameSession(job[t])
  BY <1>1 DEF CheckNonce
<1>2. CASE SameSession(job[t])
  <2>1. PICK i \in Slots, d \in Domain, s \in Sessions, n \in Nonce :
          /\ i = job[t].idx /\ d = job[t].dom /\ s = job[t].pkt.sess
          /\ n = NonceOf(job[t].pkt) /\ n.ctr = job[t].pkt.ctr
    <3>1. job[t] \in Job
      BY DEF CheckNonce, TypeOK
    <3>2. NonceOf(job[t].pkt) \in Nonce /\ NonceOf(job[t].pkt).ctr = job[t].pkt.ctr
      BY <3>1 DEF Job, Packet, Nonce, NonceOf
    <3> QED BY <3>1, <3>2 DEF Job, Packet
  <2>2. /\ UNCHANGED <<in_use, owner, hint, sent>> /\ pc[t] = "nonce"
        /\ accepted' = accepted \/ accepted' = [accepted EXCEPT ![i][m] = Append(@, n)]
    BY <2>1 DEF CheckNonce, slotVars, clientVars
  <2>3. owner[i] = s /\ WasSent(s, d, n.ctr) /\ n.ctr <= hint[i].high[d]
    BY <1>2, <2>1, <2>2 DEF JobInv, OverlapInv, CarriedInv
  <2>4. ASSUME accepted' = [accepted EXCEPT ![i][m] = Append(@, n)]
        PROVE  HeardInv'
    <3>1. PICK L \in Seq(Nonce) : L = accepted[i][m]
      BY DEF TypeOK
    <3>2. accepted'[i][m] = Append(L, n)
      BY <2>4, <3>1 DEF TypeOK
    <3>3. \A k \in Slots, mode \in Mode : k # i \/ mode # m => accepted'[k][mode] = accepted[k][mode]
      BY <2>4 DEF TypeOK
    <3>4. \A a \in DOMAIN Append(L, n) : \/ a \in DOMAIN L /\ Append(L, n)[a] = L[a]
                                         \/ Append(L, n)[a] = n
      OBVIOUS
    <3> SUFFICES ASSUME NEW k \in Slots, NEW mode \in Mode, in_use[k], owner[k] # NoSession,
                        NEW a \in DOMAIN accepted'[k][mode]
                 PROVE  \E e \in Domain : /\ WasSent(owner[k], e, accepted'[k][mode][a].ctr)
                                          /\ accepted'[k][mode][a].ctr <= hint[k].high[e]
      BY <2>2 DEF HeardInv, WasSent, TopSent
    <3>5. CASE k # i \/ mode # m
      BY <3>3, <3>5 DEF OverlapInv, HeardInv
    <3>6. CASE k = i /\ mode = m
      <4>1. \/ a \in DOMAIN L /\ accepted'[k][mode][a] = L[a]
            \/ accepted'[k][mode][a] = n
        BY <3>2, <3>4, <3>6
      <4>2. CASE a \in DOMAIN L /\ accepted'[k][mode][a] = L[a]
        BY <3>1, <3>6, <4>2 DEF OverlapInv, HeardInv
      <4>3. CASE accepted'[k][mode][a] = n
        BY <2>3, <3>6, <4>3
      <4> QED BY <4>1, <4>2, <4>3
    <3> QED BY <3>5, <3>6
  <2> QED BY <2>2, <2>4
<1> QED BY <1>1, <1>2

\* The slot has another session by now: the window is left alone.
LEMMA StaleKeepsOverlap ==
  ASSUME TypeOK, OverlapInv, SentInv', WindowInv', NEW t \in Threads, ~SameSession(job[t]),
         UNCHANGED <<in_use, generation, owner, hint, sent, accepted, job>>,
         pc[t] = "peel", \A u \in Threads \ {t} : pc'[u] = pc[u], pc'[t] = "nonce"
  PROVE  OverlapInv'
<1>1. \A k \in Slots, e \in Domain : Pushers(k, e)' = Pushers(k, e) /\ Push(k, e)' = Push(k, e)
  <2> SUFFICES ASSUME NEW k \in Slots, NEW e \in Domain
               PROVE  Pushers(k, e)' = Pushers(k, e) /\ Push(k, e)' = Push(k, e)
    OBVIOUS
  <2>1. Pushers(k, e)' = Pushers(k, e)
    BY DEF Pushers, SameSession
  <2> QED BY <2>1 DEF Push
<1>2. BaseInv'
  BY <1>1 DEF OverlapInv, BaseInv, HasRoom, Limit, TopSent
<1>3. CarriedInv'
  BY DEF OverlapInv, CarriedInv, SameSession, WasSent, TopSent
<1>4. HeardInv'
  BY DEF OverlapInv, HeardInv, WasSent, TopSent
<1> QED BY <1>2, <1>3, <1>4 DEF OverlapInv

\* A used counter belongs to one domain.
LEMMA OwnDomain ==
  ASSUME TypeOK, SentInv, CountersApart, NEW s \in Sessions, NEW c \in Nat,
         NEW d \in Domain, NEW e \in Domain, WasSent(s, d, c), WasSent(s, e, c)
  PROVE  d = e
<1>1. sent[s]["real"] <= MaxSent["real"] /\ sent[s]["real"] \in Nat /\ MaxSent["real"] \in Nat
  BY TopSentType, FirstCounterType DEF SentInv
<1>2. PICK y \in Int : y = Cardinality(Threads) * Slide /\ y >= 0
  BY SlideType
<1>3. MaxSent["real"] <= HINT_COVER_COUNTER_BASE
  BY <1>1, <1>2, FirstCounterType DEF CountersApart
<1> QED BY <1>1, <1>3, FirstCounterType DEF WasSent, TopSent, Domain

LEMMA OverlapInvInductive ==
  ASSUME TypeOK, JobInv, OverlapInv, CountersApart, [Next]_vars
  PROVE  OverlapInv'
<1>1. SentInv' /\ MoreSent /\ WindowInv'
  BY SentStep, NextWindowStep DEF OverlapInv, WindowStep
<1>2. CASE UNCHANGED <<in_use, generation, owner, hint, accepted, pc, job>>
  BY <1>1, <1>2, QuietKeepsOverlap
<1>3. ASSUME NEW s \in Sessions, Extend(s)
      PROVE  OverlapInv'
  <2>1. CASE handle_extend(s)
    BY <1>1, <2>1, AllocKeepsOverlap DEF handle_extend
  <2>2. CASE HintSeedFails(s)
    BY <1>1, <2>2, AllocKeepsOverlap DEF HintSeedFails
  <2>3. CASE StoreFull(s)
    BY <1>2, <2>3 DEF StoreFull, slotVars
  <2> QED BY <1>3, <2>1, <2>2, <2>3 DEF Extend
<1>4. ASSUME NEW t \in Threads, Handle(t)
      PROVE  OverlapInv'
  <2>1. CASE Receive(t)
    BY <1>1, <2>1, ReceiveKeepsOverlap
  <2>2. CASE HintMiss(t)
    BY <1>2, <2>2 DEF HintMiss, slotVars
  <2>3. CASE PeelFails(t)
    BY <1>1, <2>3, PeelFailsKeepsOverlap
  <2>4. CASE session_confirm_hint_match(t) /\ SameSession(job[t])
    BY <1>1, <2>4, ConfirmKeepsOverlap
  <2>5. CASE session_confirm_hint_match(t) /\ ~SameSession(job[t])
    <3>1. UNCHANGED <<in_use, generation, owner, hint, sent, accepted, job>>
      BY <2>5 DEF session_confirm_hint_match, slotVars, clientVars
    <3>2. pc[t] = "peel" /\ pc'[t] = "nonce" /\ \A u \in Threads \ {t} : pc'[u] = pc[u]
      BY <2>5 DEF session_confirm_hint_match, TypeOK
    <3> QED BY <1>1, <2>5, <3>1, <3>2, StaleKeepsOverlap
  <2>6. ASSUME NEW m \in Mode, CheckNonce(t, m)
        PROVE  OverlapInv'
    <3>1. UNCHANGED <<in_use, generation, owner, hint>>
      BY <2>6 DEF CheckNonce, slotVars
    <3>2. pc[t] = "nonce" /\ pc'[t] = "idle"
          /\ \A u \in Threads \ {t} : pc'[u] = pc[u] /\ job'[u] = job[u]
      BY <2>6 DEF CheckNonce, Done, TypeOK
    <3>3. UNCHANGED accepted \/ HeardInv'
      BY <2>6, CheckHears
    <3> QED BY <1>1, <3>1, <3>2, <3>3, QuietKeepsOverlap
  <2> QED BY <1>4, <2>1, <2>2, <2>3, <2>4, <2>5, <2>6
          DEF Handle, session_check_nonce_by_idx, session_check_return_nonce_by_idx, Mode
<1>5. (\E s \in Sessions, d \in Domain : Send(s, d) \/ Resend(s, d)) \/ Tick \/ UNCHANGED vars =>
        UNCHANGED <<in_use, generation, owner, hint, accepted, pc, job>>
  BY DEF Send, Resend, Tick, vars, slotVars
<1> QED BY <1>2, <1>3, <1>4, <1>5 DEF Next

LEMMA OverlapInvHolds == ASSUME CountersApart PROVE Spec => []OverlapInv
<1>1. Init => OverlapInv
  <2> SUFFICES ASSUME Init PROVE OverlapInv
    OBVIOUS
  <2>1. SentInv
    BY FirstCounterType DEF Init, SentInv
  <2>2. WindowInv
    BY FreshHints DEF Init, WindowInv
  <2>3. BaseInv
    BY DEF Init, BaseInv
  <2>4. CarriedInv
    BY DEF Init, CarriedInv
  <2>5. HeardInv
    BY DEF Init, HeardInv
  <2> QED BY <2>1, <2>2, <2>3, <2>4, <2>5 DEF OverlapInv
<1>2. TypeOK /\ JobInv /\ OverlapInv /\ [Next]_vars => OverlapInv'
  BY OverlapInvInductive
<1>3. TableInv => JobInv
  BY DEF TableInv
<1> QED BY <1>1, <1>2, <1>3, TypeCorrect, TableInvHolds, PTL DEF Spec

\* What OverlapInv says of one window.
LEMMA WindowStart ==
  ASSUME TypeOK, OverlapInv, NEW i \in Slots, NEW d \in Domain,
         in_use[i], owner[i] # NoSession
  PROVE  /\ owner[i] \in Sessions /\ hint[i].base[d] \in Nat /\ hint[i].high[d] \in Int
         /\ FirstCounter(d) <= hint[i].base[d]
         /\ DesiredBase(hint[i].high[d]) <= hint[i].base[d]
         /\ hint[i].base[d] = FirstCounter(d) \/ hint[i].base[d] <= Limit(owner[i], d)
<1>1. owner[i] \in Sessions /\ hint[i] \in HintState
  BY DEF TypeOK
<1>2. hint[i].base[d] \in Nat /\ hint[i].high[d] \in Int
  BY <1>1 DEF HintState, NothingMatched
<1>3. /\ FirstCounter(d) <= hint[i].base[d]
      /\ HasRoom(hint[i].base[d], FirstCounter(d), Limit(owner[i], d), Pushers(i, d), Push(i, d))
      /\ DesiredBase(hint[i].high[d]) <= hint[i].base[d]
  BY DEF OverlapInv, BaseInv, WindowInv
<1>4. PICK l \in Int : l = Limit(owner[i], d)
  <2>1. TopSent(owner[i], d) \in Int
    BY <1>1, TopSentType
  <2>2. (Cardinality(Threads) - 1) * Slide \in Int
    BY SlideType
  <2> QED BY <2>1, <2>2, FirstCounterType DEF Limit
<1>5. hint[i].base[d] = FirstCounter(d) \/ hint[i].base[d] <= l
  BY <1>2, <1>3, <1>4, PushType, RoomBounds
<1> QED BY <1>1, <1>2, <1>3, <1>4, <1>5

\* Whatever the connection threads of a node interleave, each beyond the first
\* slides a window by no more than Slide past the place that the newest packet
\* asks for, for any number of threads, sessions and slots.
THEOREM InFlightKeepsItsHintHolds == ASSUME CountersApart PROVE Spec => []InFlightKeepsItsHint
<1>1. TypeOK /\ OverlapInv => InFlightKeepsItsHint
  BY WindowStart DEF InFlightKeepsItsHint, Limit
<1> QED BY <1>1, OverlapInvHolds, TypeCorrect, PTL

\* For as many threads as together slide a window past no more than the
\* margin, a session that has been heard lately is heard again.
THEOREM DeafOnlyAfterLossesHolds == ASSUME CountersApart PROVE Spec => []DeafOnlyAfterLosses
<1>1. TypeOK /\ OverlapInv => DeafOnlyAfterLosses
  <2> SUFFICES ASSUME TypeOK, OverlapInv, NEW i \in Slots, NEW d \in Domain,
                      (Cardinality(Threads) - 1) * Slide <= HINT_SAFETY_MARGIN,
                      in_use[i], owner[i] # NoSession, HeardOf(i, d, Slide)
               PROVE  InWindow(hint[i], d, TopSent(owner[i], d) + 1)
    BY DEF DeafOnlyAfterLosses
  <2>1. PICK s \in Sessions, b \in Nat, u \in Int : s = owner[i] /\ b = hint[i].base[d] /\ u = hint[i].high[d]
    BY WindowStart
  <2>2. PICK first \in Nat, top \in Int, n \in Nat :
          first = FirstCounter(d) /\ top = TopSent(s, d) /\ n = sent[s][d] /\ top = first + n - 1
    BY FirstCounterType, TopSentType DEF TopSent
  <2>3. PICK z \in Int : z = (Cardinality(Threads) - 1) * Slide /\ z <= HINT_SAFETY_MARGIN
    BY SlideType
  <2>4. /\ first <= b /\ DesiredBase(u) <= b
        /\ b = first \/ b <= top - HINT_SAFETY_MARGIN + 1 + z
    BY <2>1, <2>2, <2>3, WindowStart DEF Limit
  <2>5. b <= top + 1
    BY <2>2, <2>3, <2>4, FirstCounterType
  <2>6. top + 1 <= b + HINT_WINDOW - 1
    <3>1. CASE n < Slide
      <4>1. PICK w \in Nat : w = Slide /\ w <= HINT_WINDOW
        BY SlideType
      <4> QED BY <2>2, <2>4, <3>1, <4>1, FirstCounterType
    <3>2. CASE ~(n < Slide)
      <4>1. PICK m \in Mode : \E k \in DOMAIN accepted[i][m] :
              LET c == accepted[i][m][k].ctr IN first <= c /\ c <= top /\ top - c < Slide
        BY <2>1, <2>2, <3>2 DEF HeardOf
      <4>2. PICK k \in DOMAIN accepted[i][m], c \in Nat :
              c = accepted[i][m][k].ctr /\ first <= c /\ c <= top /\ top - c < Slide
        <5>1. PICK k \in DOMAIN accepted[i][m] :
                LET c == accepted[i][m][k].ctr IN first <= c /\ c <= top /\ top - c < Slide
          BY <4>1
        <5>2. accepted[i][m][k] \in Nonce
          BY <5>1 DEF TypeOK
        <5> QED BY <5>1, <5>2 DEF Nonce
      <4>3. PICK e \in Domain : WasSent(s, e, c) /\ c <= hint[i].high[e]
        BY <2>1, <4>2 DEF OverlapInv, HeardInv
      <4>4. e = d
        BY <2>2, <4>2, <4>3, OwnDomain DEF OverlapInv, WasSent
      <4>5. u - HINT_SAFETY_MARGIN + 1 <= b /\ c <= u
        BY <2>1, <2>4, <4>3, <4>4, FirstCounterType DEF DesiredBase
      <4> QED BY <2>2, <4>2, <4>5, SlideType, FirstCounterType
    <3> QED BY <3>1, <3>2
  <2> QED BY <2>1, <2>2, <2>5, <2>6 DEF InWindow
<1> QED BY <1>1, OverlapInvHolds, TypeCorrect, PTL
=============================================================================
