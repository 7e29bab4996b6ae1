-------------------------- MODULE HandshakeProofs --------------------------
(***************************************************************************)
(* What ContentHandshake guarantees for every number of keys, clients,     *)
(* commands, uploads and messages, for every size of the cache server's    *)
(* tables and every length of its timers.  The step lemmas of the cache    *)
(* server speak of its table as a value, before and after a step.          *)
(***************************************************************************)
EXTENDS ContentHandshake, FiniteSetTheorems, WellFoundedInduction, TLAPS

USE CacheAssumption, ContentAssumption

-----------------------------------------------------------------------------
(* The table of pending handshakes                                         *)

LEMMA SlotNumbers == PSlots \subseteq Nat /\ NoSlot \notin PSlots
  BY DEF PSlots, NoSlot

LEMMA Smallest ==
  ASSUME NEW S, S \subseteq Nat, S # {}
  PROVE  Min(S) \in S /\ \A y \in S : Min(S) <= y
<1> DEFINE R == {p \in Nat \X Nat : p[1] < p[2]}
<1>1. IsWellFoundedOn(R, Nat)
  BY NatLessThanWellFounded, Zenon DEF OpToRel
<1>2. \A x, y \in S : y < x => <<y, x>> \in R
  OBVIOUS
<1> HIDE DEF R
<1>3. \E x \in S : \A y \in S : <<y, x>> \notin R
  BY <1>1, WFMin
<1>4. PICK x \in S : \A y \in S : ~(y < x)
  BY <1>2, <1>3
<1>5. \A y \in S : x <= y
  BY <1>4
<1> QED BY <1>5 DEF Min

LEMMA FirstOf ==
  ASSUME NEW S, S \subseteq PSlots
  PROVE  IF S = {} THEN First(S) = NoSlot ELSE First(S) \in S
  BY SlotNumbers, Smallest DEF First

\* One table, as a value: pending_find(), and the mailbox of a wire key.
Find(T, w) == First({i \in PSlots : T[i].in_use /\ T[i].key = w})

BoxIn(T, w) ==
  LET i == Find(T, w) IN
  IF i = NoSlot THEN Nothing
  ELSE [r_pub |-> T[i].r_pub, resp |-> IF T[i].ready THEN T[i].resp ELSE Nothing]

\* A wire key has one slot, and what a slot in use holds is there.
SlotOK(h) ==
  h.in_use => h.key \in WireKey /\ h.r_pub \in Pubs /\ (h.ready => h.resp \in Responses)

TableOK(T) ==
  /\ T \in [PSlots -> Handshake]
  /\ \A i \in PSlots : SlotOK(T[i])
  /\ \A i, j \in PSlots : T[i].in_use /\ T[j].in_use /\ T[i].key = T[j].key => i = j

LEMMA FindIs ==
  ASSUME NEW T, TableOK(T), NEW w
  PROVE  /\ \A i \in PSlots : T[i].in_use /\ T[i].key = w => Find(T, w) = i
         /\ Find(T, w) # NoSlot =>
              Find(T, w) \in PSlots /\ T[Find(T, w)].in_use /\ T[Find(T, w)].key = w
<1> DEFINE S == {i \in PSlots : T[i].in_use /\ T[i].key = w}
<1>1. IF S = {} THEN First(S) = NoSlot ELSE First(S) \in S
  <2>1. S \subseteq PSlots
    OBVIOUS
  <2> HIDE DEF S
  <2> QED BY <2>1, FirstOf
<1> QED BY <1>1 DEF Find, TableOK

LEMMA FindNow ==
  /\ \A w : pending_find(w) = Find(pending, w)
  /\ Mailbox = [w \in WireKey |-> BoxIn(pending, w)]
  /\ Mailbox' = [w \in WireKey |-> BoxIn(pending', w)]
  BY DEF pending_find, Find, Mailbox, BoxIn

LEMMA BoxIs ==
  ASSUME NEW T, TableOK(T), NEW w
  PROVE  /\ \A i \in PSlots : T[i].in_use /\ T[i].key = w =>
              BoxIn(T, w) = [r_pub |-> T[i].r_pub, resp |-> IF T[i].ready THEN T[i].resp ELSE Nothing]
         /\ (\A i \in PSlots : ~(T[i].in_use /\ T[i].key = w)) => BoxIn(T, w) = Nothing
         /\ BoxIn(T, w) # Nothing => \E i \in PSlots : T[i].in_use /\ T[i].key = w
<1>1. ASSUME NEW i \in PSlots, T[i].in_use, T[i].key = w
      PROVE  BoxIn(T, w) = [r_pub |-> T[i].r_pub, resp |-> IF T[i].ready THEN T[i].resp ELSE Nothing]
  <2>1. Find(T, w) = i /\ i # NoSlot
    BY <1>1, FindIs, SlotNumbers
  <2> QED BY <2>1 DEF BoxIn
<1>2. ASSUME \A i \in PSlots : ~(T[i].in_use /\ T[i].key = w) PROVE BoxIn(T, w) = Nothing
  <2>1. Find(T, w) = NoSlot
    BY <1>2, FindIs
  <2> QED BY <2>1 DEF BoxIn
<1> QED BY <1>1, <1>2

\* A step on one slot leaves the mailboxes of other wire keys alone.
LEMMA BoxKept ==
  ASSUME NEW T, NEW U, TableOK(T), TableOK(U), NEW w,
         \A i \in PSlots : (U[i].in_use /\ U[i].key = w) <=> (T[i].in_use /\ T[i].key = w),
         \A i \in PSlots : T[i].in_use /\ T[i].key = w =>
           U[i].r_pub = T[i].r_pub /\ U[i].ready = T[i].ready /\ U[i].resp = T[i].resp
  PROVE  BoxIn(U, w) = BoxIn(T, w)
<1>1. CASE \E i \in PSlots : T[i].in_use /\ T[i].key = w
  <2>1. PICK i \in PSlots : T[i].in_use /\ T[i].key = w
    BY <1>1
  <2>2. /\ BoxIn(T, w) = [r_pub |-> T[i].r_pub, resp |-> IF T[i].ready THEN T[i].resp ELSE Nothing]
        /\ BoxIn(U, w) = [r_pub |-> U[i].r_pub, resp |-> IF U[i].ready THEN U[i].resp ELSE Nothing]
    BY <2>1, BoxIs
  <2> QED BY <2>1, <2>2
<1>2. CASE \A i \in PSlots : ~(T[i].in_use /\ T[i].key = w)
  BY <1>2, BoxIs
<1> QED BY <1>1, <1>2

CacheOK == store \in [Keys -> Blobs \cup {Nothing}] /\ IsFiniteSet(Stored)
           /\ Cardinality(Stored) <= MAX_ENTRIES /\ TableOK(pending)

LEMMA HandshakeFields ==
  ASSUME NEW h \in Handshake
  PROVE  /\ h.in_use \in BOOLEAN /\ h.key \in WireKey \cup {Nothing} /\ h.r_pub \in Pubs \cup {Nothing}
         /\ h.ready \in BOOLEAN /\ h.resp \in Responses \cup {Nothing} /\ h.age \in 0 .. (PENDING_TTL + 1)
  BY DEF Handshake

LEMMA UnusedIs == UnusedSlot \in Handshake /\ ~UnusedSlot.in_use
  BY DEF UnusedSlot, Handshake

LEMMA CacheInitOK == CacheInit => CacheOK
<1> SUFFICES ASSUME CacheInit PROVE CacheOK
  OBVIOUS
<1>1. Stored = {}
  BY DEF CacheInit, Stored
<1>2. TableOK(pending)
  BY UnusedIs DEF CacheInit, TableOK, SlotOK
<1>3. IsFiniteSet(Stored) /\ Cardinality(Stored) <= MAX_ENTRIES
  BY <1>1, FS_EmptySet
<1> QED BY <1>2, <1>3 DEF CacheInit, CacheOK

LEMMA PutOK ==
  ASSUME CacheOK, NEW k \in Keys, NEW b \in Blobs, store_put(k, b)
  PROVE  CacheOK'
<1>1. CASE ~PutAccepted(k)
  BY <1>1 DEF store_put, CacheOK, Stored
<1>2. CASE PutAccepted(k)
  <2>1. store' = [store EXCEPT ![k] = b] /\ pending' = pending
    BY <1>2 DEF store_put
  <2>2. Stored' = Stored \cup {k}
    BY <2>1 DEF CacheOK, Stored
  <2>3. IsFiniteSet(Stored \cup {k}) /\ Cardinality(Stored \cup {k}) <= MAX_ENTRIES
    <3>1. IsFiniteSet(Stored) /\ Cardinality(Stored) \in Nat /\ Cardinality(Stored) <= MAX_ENTRIES
      BY FS_CardinalityType DEF CacheOK
    <3>2. k \in Stored \/ Cardinality(Stored) < MAX_ENTRIES
      BY <1>2 DEF PutAccepted
    <3>3. IsFiniteSet(Stored \cup {k}) /\ Cardinality(Stored \cup {k}) =
             IF k \in Stored THEN Cardinality(Stored) ELSE Cardinality(Stored) + 1
      BY <3>1, FS_AddElement
    <3> QED BY <3>1, <3>2, <3>3
  <2> QED BY <2>1, <2>2, <2>3 DEF CacheOK
<1> QED BY <1>1, <1>2

LEMMA PutRefines ==
  ASSUME CacheOK, NEW k \in Keys, NEW b \in Blobs, store_put(k, b)
  PROVE  [Contract!Next]_<<Contents, Mailbox>>
<1>1. Mailbox' = Mailbox
  BY FindNow DEF store_put
<1>2. CASE PutAccepted(k)
  BY <1>1, <1>2 DEF store_put, Contents, Contract!Next, Contract!Put
<1>3. CASE ~PutAccepted(k)
  BY <1>1, <1>3 DEF store_put, Contents
<1> QED BY <1>2, <1>3

\* HANDSHAKE_INIT: the slot of the wire key, or else a free or stale one.
LEMMA InitOK ==
  ASSUME CacheOK, NEW w \in WireKey, NEW p \in Pubs, HandshakeInit(w, p)
  PROVE  CacheOK' /\ [Contract!Next]_<<Contents, Mailbox>>
<1> DEFINE i == InitSlot(w)
           h == [in_use |-> TRUE, key |-> w, r_pub |-> p, ready |-> FALSE, resp |-> Nothing, age |-> 0]
<1>1. store' = store /\ Contents' = Contents /\ Stored' = Stored /\ TableOK(pending)
  BY DEF HandshakeInit, Contents, Stored, CacheOK
<1>2. CASE i = NoSlot
  <2>1. pending' = pending
    BY <1>2 DEF HandshakeInit
  <2> QED BY <1>1, <2>1, FindNow DEF CacheOK
<1>3. CASE i # NoSlot
  <2>1. /\ i \in PSlots
        /\ \A j \in PSlots : j # i => ~(pending[j].in_use /\ pending[j].key = w)
    <3>1. CASE pending_find(w) # NoSlot
      BY <1>1, <3>1, FindNow, FindIs DEF InitSlot
    <3>2. CASE pending_find(w) = NoSlot
      <4>1. \A j \in PSlots : ~(pending[j].in_use /\ pending[j].key = w)
        BY <1>1, <3>2, FindNow, FindIs, SlotNumbers
      <4>2. i = First(Reusable) /\ Reusable \subseteq PSlots
        BY <3>2 DEF InitSlot, Reusable
      <4> QED BY <1>3, <4>1, <4>2, FirstOf
    <3> QED BY <3>1, <3>2
  <2>2. pending' = [pending EXCEPT ![i] = h] /\ h \in Handshake
    BY <1>3 DEF HandshakeInit, Handshake
  <2>3. h.in_use /\ h.key = w /\ h.r_pub = p /\ ~h.ready
    OBVIOUS
  <2> HIDE DEF h, i
  <2>4. pending'[i] = h /\ \A j \in PSlots : j # i => pending'[j] = pending[j]
    BY <1>1, <2>1, <2>2 DEF TableOK
  <2>5. TableOK(pending')
    <3>1. pending' \in [PSlots -> Handshake]
      BY <1>1, <2>1, <2>2 DEF TableOK
    <3>2. \A j \in PSlots : SlotOK(pending'[j])
      BY <1>1, <2>3, <2>4 DEF TableOK, SlotOK
    <3>3. \A j, k \in PSlots : pending'[j].in_use /\ pending'[k].in_use /\ pending'[j].key = pending'[k].key
                                 => j = k
      BY <1>1, <2>1, <2>3, <2>4 DEF TableOK
    <3> QED BY <3>1, <3>2, <3>3 DEF TableOK
  <2>6. BoxIn(pending', w) = [r_pub |-> p, resp |-> Nothing]
    BY <2>1, <2>3, <2>4, <2>5, BoxIs
  <2> DEFINE gone == IF pending[i].in_use /\ pending[i].key # w THEN {pending[i].key} ELSE {}
  <2>7. gone \in {{}} \cup {{v} : v \in WireKey \ {w}}
    BY <1>1, <2>1 DEF TableOK, SlotOK
  <2>8. ASSUME NEW v \in WireKey, v # w
        PROVE  BoxIn(pending', v) = IF v \in gone THEN Nothing ELSE BoxIn(pending, v)
    <3>1. CASE v \in gone
      <4>1. pending[i].in_use /\ pending[i].key = v
        BY <3>1
      <4>2. \A j \in PSlots : ~(pending'[j].in_use /\ pending'[j].key = v)
        BY <1>1, <2>1, <2>3, <2>4, <2>8, <4>1 DEF TableOK
      <4> QED BY <2>5, <3>1, <4>2, BoxIs
    <3>2. CASE v \notin gone
      <4>1. ~(pending[i].in_use /\ pending[i].key = v)
        BY <2>8, <3>2
      <4>2. \A j \in PSlots : (pending'[j].in_use /\ pending'[j].key = v)
                                <=> (pending[j].in_use /\ pending[j].key = v)
        BY <2>1, <2>3, <2>4, <2>8, <4>1
      <4>3. \A j \in PSlots : pending[j].in_use /\ pending[j].key = v => pending'[j] = pending[j]
        BY <2>4, <4>1
      <4>4. BoxIn(pending', v) = BoxIn(pending, v)
        BY <1>1, <2>5, <4>2, <4>3, BoxKept
      <4> QED BY <3>2, <4>4
    <3> QED BY <3>1, <3>2
  <2>9. Mailbox' = [v \in WireKey |-> IF v = w THEN [r_pub |-> p, resp |-> Nothing]
                                     ELSE IF v \in gone THEN Nothing ELSE Mailbox[v]]
    <3> HIDE DEF gone
    <3> QED BY <2>6, <2>8, FindNow
  <2> HIDE DEF gone
  <2>10. Contract!Register
    <3>1. \E v \in WireKey, q \in Pubs : \E g \in {{}} \cup {{u} : u \in WireKey \ {v}} :
            Mailbox' = [u \in WireKey |-> IF u = v THEN [r_pub |-> q, resp |-> Nothing]
                                          ELSE IF u \in g THEN Nothing ELSE Mailbox[u]]
      <4> WITNESS w \in WireKey, p \in Pubs
      <4> WITNESS gone \in {{}} \cup {{u} : u \in WireKey \ {w}}
      <4> QED BY <2>9
    <3> HIDE DEF Mailbox, Contents
    <3> QED BY <1>1, <3>1 DEF Contract!Register
  <2> QED BY <1>1, <2>5, <2>10 DEF CacheOK, Contract!Next
<1> QED BY <1>2, <1>3

\* HANDSHAKE_POLL: a response is handed back once.
LEMMA PollOK ==
  ASSUME CacheOK, NEW w \in WireKey, HandshakePoll(w)
  PROVE  CacheOK' /\ [Contract!Next]_<<Contents, Mailbox>>
<1> DEFINE i == Find(pending, w)
<1>1. store' = store /\ Contents' = Contents /\ Stored' = Stored /\ TableOK(pending)
  BY DEF HandshakePoll, Contents, Stored, CacheOK
<1>2. CASE PollAnswer(w) = Nothing
  <2>1. pending' = pending
    BY <1>2 DEF HandshakePoll
  <2> QED BY <1>1, <2>1, FindNow DEF CacheOK
<1>3. CASE PollAnswer(w) # Nothing
  <2>1. /\ i \in PSlots /\ pending[i].in_use /\ pending[i].key = w /\ pending[i].ready
        /\ pending' = [pending EXCEPT ![i] = UnusedSlot]
    BY <1>1, <1>3, FindNow, FindIs DEF PollAnswer, HandshakePoll
  <2> HIDE DEF i
  <2>2. pending'[i] = UnusedSlot /\ \A j \in PSlots : j # i => pending'[j] = pending[j]
    BY <1>1, <2>1 DEF TableOK
  <2>3. TableOK(pending')
    <3>1. pending' \in [PSlots -> Handshake]
      BY <1>1, <2>1, UnusedIs DEF TableOK
    <3>2. \A j \in PSlots : SlotOK(pending'[j])
      BY <1>1, <2>2, UnusedIs DEF TableOK, SlotOK
    <3>3. \A j, k \in PSlots : pending'[j].in_use /\ pending'[k].in_use /\ pending'[j].key = pending'[k].key
                                 => j = k
      BY <1>1, <2>2, UnusedIs DEF TableOK
    <3> QED BY <3>1, <3>2, <3>3 DEF TableOK
  <2>4. BoxIn(pending', w) = Nothing
    <3>1. \A j \in PSlots : ~(pending'[j].in_use /\ pending'[j].key = w)
      BY <1>1, <2>1, <2>2, UnusedIs DEF TableOK
    <3> QED BY <2>3, <3>1, BoxIs
  <2>5. ASSUME NEW v \in WireKey, v # w PROVE BoxIn(pending', v) = BoxIn(pending, v)
    <3>1. \A j \in PSlots : (pending'[j].in_use /\ pending'[j].key = v)
                              <=> (pending[j].in_use /\ pending[j].key = v)
      BY <2>1, <2>2, <2>5, UnusedIs
    <3>2. \A j \in PSlots : pending[j].in_use /\ pending[j].key = v => pending'[j] = pending[j]
      BY <2>1, <2>2, <2>5
    <3> QED BY <1>1, <2>3, <3>1, <3>2, BoxKept
  <2>6. Mailbox[w] = [r_pub |-> pending[i].r_pub, resp |-> pending[i].resp]
    BY <1>1, <2>1, BoxIs, FindNow
  <2>7. pending[i].r_pub \in Pubs /\ pending[i].resp \in Responses
    BY <1>1, <2>1 DEF TableOK, SlotOK
  <2>8. Mailbox[w] # Nothing /\ Mailbox[w].resp # Nothing
    BY <2>6, <2>7
  <2>9. Mailbox' = [Mailbox EXCEPT ![w] = Nothing]
    BY <2>4, <2>5, FindNow
  <2>10. Contract!Collect
    BY <1>1, <2>8, <2>9 DEF Contract!Collect
  <2> QED BY <1>1, <2>3, <2>10 DEF CacheOK, Contract!Next
<1> QED BY <1>2, <1>3

\* HANDSHAKE_RESPOND: a response that nobody waits for changes nothing.
LEMMA RespondOK ==
  ASSUME CacheOK, NEW w \in WireKey, NEW r \in Responses, HandshakeRespond(w, r)
  PROVE  CacheOK' /\ [Contract!Next]_<<Contents, Mailbox>>
<1> DEFINE i == Find(pending, w)
<1>1. store' = store /\ Contents' = Contents /\ Stored' = Stored /\ TableOK(pending)
  BY DEF HandshakeRespond, Contents, Stored, CacheOK
<1>2. CASE i = NoSlot
  <2>1. pending' = pending
    BY <1>2, FindNow DEF HandshakeRespond
  <2> QED BY <1>1, <2>1, FindNow DEF CacheOK
<1>3. CASE i # NoSlot
  <2>1. /\ i \in PSlots /\ pending[i].in_use /\ pending[i].key = w
        /\ pending' = [pending EXCEPT ![i] = [[pending[i] EXCEPT !.resp = r] EXCEPT !.ready = TRUE]]
    <3>1. i \in PSlots /\ pending[i].in_use /\ pending[i].key = w
      BY <1>1, <1>3, FindIs
    <3>2. pending' = [pending EXCEPT ![i].resp = r, ![i].ready = TRUE]
      BY <1>3, FindNow DEF HandshakeRespond
    <3> QED BY <1>1, <3>1, <3>2 DEF TableOK
  <2> HIDE DEF i
  <2>2. \A j \in PSlots : j # i => pending'[j] = pending[j]
    BY <1>1, <2>1 DEF TableOK
  <2>3. /\ pending[i] \in Handshake /\ pending'[i] \in Handshake
        /\ pending'[i].in_use /\ pending'[i].key = w /\ pending'[i].r_pub = pending[i].r_pub
        /\ pending'[i].ready /\ pending'[i].resp = r
    <3> DEFINE h == [[pending[i] EXCEPT !.resp = r] EXCEPT !.ready = TRUE]
    <3>1. pending[i] \in Handshake /\ pending'[i] = h
      BY <1>1, <2>1 DEF TableOK
    <3>2. [pending[i] EXCEPT !.resp = r] \in Handshake
      BY <3>1 DEF Handshake
    <3>3. h \in Handshake
      BY <3>2 DEF Handshake
    <3>4. h.in_use = pending[i].in_use /\ h.key = pending[i].key /\ h.r_pub = pending[i].r_pub
          /\ h.resp = r
      BY <3>1 DEF Handshake
    <3>5. h.ready
      BY <3>1, Zenon DEF Handshake
    <3> HIDE DEF h
    <3> QED BY <2>1, <3>1, <3>3, <3>4, <3>5
  <2>4. TableOK(pending')
    <3>1. pending' \in [PSlots -> Handshake]
      BY <1>1, <2>1, <2>3 DEF TableOK
    <3>2. \A j \in PSlots : SlotOK(pending'[j])
      BY <1>1, <2>1, <2>2, <2>3 DEF TableOK, SlotOK
    <3>3. \A j, k \in PSlots : pending'[j].in_use /\ pending'[k].in_use /\ pending'[j].key = pending'[k].key
                                 => j = k
      BY <1>1, <2>1, <2>2, <2>3 DEF TableOK
    <3> QED BY <3>1, <3>2, <3>3 DEF TableOK
  <2>5. BoxIn(pending', w) = [r_pub |-> pending[i].r_pub, resp |-> r]
    <3>1. BoxIn(pending', w) = [r_pub |-> pending'[i].r_pub,
                                resp  |-> IF pending'[i].ready THEN pending'[i].resp ELSE Nothing]
      <4>1. TableOK(pending') /\ i \in PSlots /\ pending'[i].in_use /\ pending'[i].key = w
        BY <2>1, <2>3, <2>4
      <4> QED BY ONLY <4>1, BoxIs
    <3>2. (IF pending'[i].ready THEN pending'[i].resp ELSE Nothing) = r
      BY <2>3
    <3> QED BY <2>3, <3>1, <3>2
  <2>6. ASSUME NEW v \in WireKey, v # w PROVE BoxIn(pending', v) = BoxIn(pending, v)
    <3>1. \A j \in PSlots : (pending'[j].in_use /\ pending'[j].key = v)
                              <=> (pending[j].in_use /\ pending[j].key = v)
      BY <2>1, <2>2, <2>3, <2>6
    <3>2. \A j \in PSlots : pending[j].in_use /\ pending[j].key = v => pending'[j] = pending[j]
      BY <2>1, <2>2, <2>6
    <3> QED BY <1>1, <2>4, <3>1, <3>2, BoxKept
  <2>7. /\ Mailbox[w] = [r_pub |-> pending[i].r_pub,
                         resp |-> IF pending[i].ready THEN pending[i].resp ELSE Nothing]
        /\ pending[i].r_pub \in Pubs /\ (pending[i].ready => pending[i].resp \in Responses)
    BY <1>1, <2>1, BoxIs, FindNow DEF TableOK, SlotOK
  <2>8. Mailbox[w] # Nothing /\ Mailbox[w].r_pub = pending[i].r_pub
    BY <2>7
  <2>9. Mailbox' = [Mailbox EXCEPT ![w] = [r_pub |-> Mailbox[w].r_pub, resp |-> r]]
    BY <2>5, <2>6, <2>8, FindNow
  <2>10. Contract!Answer
    BY <1>1, <2>8, <2>9 DEF Contract!Answer
  <2> QED BY <1>1, <2>4, <2>10 DEF CacheOK, Contract!Next
<1> QED BY <1>2, <1>3

\* The clock ages slots; nobody sees that before a slot is reused.
LEMMA TickOK ==
  ASSUME CacheOK, CacheTick
  PROVE  CacheOK' /\ UNCHANGED <<Contents, Mailbox>>
<1>1. store' = store /\ Contents' = Contents /\ Stored' = Stored /\ TableOK(pending)
  BY DEF CacheTick, Contents, Stored, CacheOK
<1>2. ASSUME NEW i \in PSlots
      PROVE  /\ pending'[i] \in Handshake
             /\ pending'[i].in_use = pending[i].in_use /\ pending'[i].key = pending[i].key
             /\ pending'[i].r_pub = pending[i].r_pub /\ pending'[i].ready = pending[i].ready
             /\ pending'[i].resp = pending[i].resp
  <2>1. pending'[i] = Older(pending[i]) /\ pending[i] \in Handshake
    BY <1>1 DEF CacheTick, TableOK
  <2>2. CASE pending[i].in_use /\ pending[i].age <= PENDING_TTL
    <3> DEFINE h == [pending[i] EXCEPT !.age = @ + 1]
    <3>1. pending'[i] = h
      BY <2>1, <2>2 DEF Older
    <3>2. pending[i].age + 1 \in 0 .. (PENDING_TTL + 1)
      BY <2>1, <2>2 DEF Handshake
    <3>3. h \in Handshake
      BY <2>1, <3>2 DEF Handshake
    <3>4. /\ h.in_use = pending[i].in_use /\ h.key = pending[i].key
          /\ h.r_pub = pending[i].r_pub /\ h.ready = pending[i].ready
          /\ h.resp = pending[i].resp
      BY <2>1 DEF Handshake
    <3> HIDE DEF h
    <3> QED BY <3>1, <3>3, <3>4
  <2>3. CASE ~(pending[i].in_use /\ pending[i].age <= PENDING_TTL)
    BY <2>1, <2>3 DEF Older
  <2> QED BY <2>2, <2>3
<1>3. TableOK(pending')
  <2>1. pending' \in [PSlots -> Handshake]
    BY <1>2 DEF CacheTick
  <2> QED BY <1>1, <1>2, <2>1 DEF TableOK, SlotOK
<1>4. \A w \in WireKey : BoxIn(pending', w) = BoxIn(pending, w)
  BY <1>1, <1>2, <1>3, BoxKept
<1> QED BY <1>1, <1>3, <1>4, FindNow DEF CacheOK

-----------------------------------------------------------------------------
(* The inductive invariant: where every key, response and blob comes from  *)

Begun(w, p) == w \in WireKey /\ p \in Pubs /\ <<w, p>> \in inits

\* A blob or K_content that the sender has uploaded.
Made(b) == b \in Blobs /\ b.version <= uploads[b.key]

\* A response for a handshake that was begun with this wire key.
Rightful(w, x) == x \in Responses /\ Begun(w, x.to) /\ x.k.key = w.key /\ Made(x.k)

RequestOK(m) == m \in Request /\ Begun(m.wire, m.r_pub)

ReplyOK(r) ==
  /\ r \in Reply /\ RequestOK(r.to)
  /\ r.kind = "ready" => r.to.kind = "poll" /\ Rightful(r.to.wire, r.val)
  /\ r.kind = "blob"  => r.to.kind = "get" /\ Made(r.val) /\ r.val.key = r.to.wire.key

\* A key pair is made by one command and used with one wire key.
PairsOnce ==
  /\ inits \subseteq WireKey \X Pubs
  /\ \A a \in inits : a[2].run <= run[a[2].client]
  /\ \A a, b \in inits : a[2] = b[2] => a[1] = b[1]

NetworkOK ==
  /\ \A m \in requests : RequestOK(m)
  /\ \A r \in replies : ReplyOK(r)

TablesOK ==
  /\ \A i \in PSlots : pending[i].in_use =>
       /\ Begun(pending[i].key, pending[i].r_pub)
       /\ pending[i].ready => Rightful(pending[i].key, pending[i].resp)
  /\ \A k \in Keys : store[k] # Nothing => Made(store[k]) /\ store[k].key = k

SenderOK ==
  /\ owned \in [Keys -> 0 .. MaxUploads] /\ uploads \in [Keys -> 0 .. MaxUploads]
  /\ \A k \in Keys : owned[k] <= uploads[k]
  /\ \A u \in puts : Made(u)
  /\ \A a \in responds : a \in [wire : WireKey, resp : Responses] /\ Rightful(a.wire, a.resp)
  /\ \A e \in work : e \in [wire : WireKey, r_pub : Pubs] /\ Begun(e.wire, e.r_pub)

ClientTypes ==
  /\ phase \in [Clients -> {"idle", "init", "sleep", "poll", "get"}]
  /\ run \in [Clients -> 0 .. MaxRuns]
  /\ wire_key \in [Clients -> WireKey \cup {Nothing}]
  /\ tries \in [Clients -> 0 .. (POLL_TRIES - 1)] /\ left \in [Clients -> Nat]
  /\ inbox \in [Clients -> Reply \cup {Nothing}]
  /\ known \in [Clients -> Blobs \cup {Nothing}] /\ shown \in [Clients -> Blobs \cup {Nothing}]
  /\ pin \in [Clients -> [Keys -> {"none", "sender", "junk"}]]
  /\ late \subseteq Clients /\ alarm \subseteq Clients

\* What a command under way knows.
CommandOK(c) ==
  /\ Busy(c) => Begun(wire_key[c], MyPub(c))
  /\ phase[c] = "get" => Made(known[c]) /\ known[c].key = wire_key[c].key
  /\ inbox[c] # Nothing => ReplyOK(inbox[c])
  /\ shown[c] # Nothing => Made(shown[c]) /\ shown[c].key = wire_key[c].key

HandshakeInv ==
  /\ CacheOK /\ ClientTypes /\ PairsOnce /\ NetworkOK /\ TablesOK /\ SenderOK
  /\ \A c \in Clients : CommandOK(c)
  /\ AlarmsExplained

-----------------------------------------------------------------------------
(* What is begun, made or rightful stays so                                *)

Counts == uploads \in [Keys -> 0 .. MaxUploads]
Grows  == inits \subseteq inits' /\ \A k \in Keys : uploads[k] <= uploads'[k]

LEMMA Begins ==
  ASSUME Grows PROVE \A w, p : Begun(w, p) => Begun(w, p)'
  BY DEF Grows, Begun

LEMMA StaysMade ==
  ASSUME Counts, Counts', Grows, NEW b, Made(b)
  PROVE  Made(b)'
<1>1. b \in Blobs /\ b.key \in Keys /\ b.version \in Int /\ b.version <= uploads[b.key]
  BY DEF Made, Version
<1>2. uploads[b.key] \in Int /\ uploads'[b.key] \in Int /\ uploads[b.key] <= uploads'[b.key]
  BY <1>1 DEF Counts, Grows
<1> QED BY <1>1, <1>2 DEF Made

LEMMA StaysRightful ==
  ASSUME Counts, Counts', Grows, NEW w, NEW x, Rightful(w, x)
  PROVE  Rightful(w, x)'
  BY Begins, StaysMade DEF Rightful

LEMMA RequestStays ==
  ASSUME Grows, NEW m, RequestOK(m) PROVE RequestOK(m)'
  BY Begins DEF RequestOK

LEMMA ReplyStays ==
  ASSUME Counts, Counts', Grows, NEW r, ReplyOK(r)
  PROVE  ReplyOK(r)'
<1>1. r \in Reply /\ RequestOK(r.to)'
  BY RequestStays DEF ReplyOK
<1>2. r.kind = "ready" => r.to.kind = "poll" /\ Rightful(r.to.wire, r.val)'
  <2>1. r.kind = "ready" => r.to.kind = "poll" /\ Rightful(r.to.wire, r.val)
    BY DEF ReplyOK
  <2>2. Rightful(r.to.wire, r.val) => Rightful(r.to.wire, r.val)'
    BY StaysRightful
  <2> QED BY <2>1, <2>2
<1>3. r.kind = "blob"  => r.to.kind = "get" /\ Made(r.val)' /\ r.val.key = r.to.wire.key
  BY StaysMade DEF ReplyOK
<1> QED BY <1>1, <1>2, <1>3 DEF ReplyOK

\* A command keeps what it knows while others take steps.
SameCommand(c) ==
  /\ phase'[c] = phase[c] /\ run'[c] = run[c] /\ wire_key'[c] = wire_key[c]
  /\ known'[c] = known[c] /\ inbox'[c] = inbox[c] /\ shown'[c] = shown[c]

LEMMA CommandStays ==
  ASSUME Counts, Counts', Grows, NEW c \in Clients, CommandOK(c), SameCommand(c)
  PROVE  CommandOK(c)'
<1>1. Busy(c)' <=> Busy(c)
  BY DEF SameCommand, Busy
<1>2. MyPub(c)' = MyPub(c)
  BY DEF SameCommand, MyPub
<1>3. Busy(c)' => Begun(wire_key[c], MyPub(c))'
  BY <1>1, <1>2, Begins DEF CommandOK, SameCommand
<1>4. /\ phase'[c] = "get" => Made(known[c])' /\ known[c].key = wire_key[c].key
      /\ shown[c] # Nothing => Made(shown[c])' /\ shown[c].key = wire_key[c].key
      /\ inbox[c] # Nothing => ReplyOK(inbox[c])'
  BY StaysMade, ReplyStays DEF CommandOK, SameCommand
<1> QED BY <1>3, <1>4 DEF CommandOK, SameCommand

\* One alarm.
AlarmOK(c) ==
  \/ c \in late \/ Collision
  \/ pin[c][wire_key[c].key] = "junk"
  \/ \E k \in Keys : uploads[k] > 1

LEMMA AlarmStays ==
  ASSUME Counts, Counts', Grows, NEW c \in Clients, AlarmOK(c), c \in late => c \in late',
         wire_key'[c] = wire_key[c],
         pin[c][wire_key[c].key] = "junk" => pin'[c][wire_key[c].key] = "junk"
  PROVE  AlarmOK(c)'
<1>1. Collision => Collision'
  BY DEF Grows, Collision
<1>2. (\E k \in Keys : uploads[k] > 1) => \E k \in Keys : uploads'[k] > 1
  <2> SUFFICES ASSUME NEW k \in Keys, uploads[k] > 1 PROVE uploads'[k] > 1
    OBVIOUS
  <2> QED BY DEF Grows, Counts
<1> QED BY <1>1, <1>2 DEF AlarmOK

LEMMA Alarms == AlarmsExplained <=> \A c \in alarm : AlarmOK(c)
  BY DEF AlarmsExplained, AlarmOK

LEMMA AlarmsNext == AlarmsExplained' <=> \A c \in alarm' : AlarmOK(c)'
  BY DEF AlarmsExplained, AlarmOK

-----------------------------------------------------------------------------
(* Halves of a step                                                        *)

LEMMA ClientsStay ==
  ASSUME HandshakeInv, Counts', Grows, UNCHANGED clientVars
  PROVE  ClientTypes' /\ PairsOnce' /\ (\A c \in Clients : CommandOK(c)') /\ AlarmsExplained'
<1>1. Counts
  BY DEF HandshakeInv, SenderOK, Counts
<1>2. ClientTypes'
  BY DEF HandshakeInv, ClientTypes, clientVars
<1>3. PairsOnce'
  BY DEF HandshakeInv, PairsOnce, clientVars
<1>4. \A c \in Clients : CommandOK(c)'
  <2>1. \A c \in Clients : SameCommand(c) /\ CommandOK(c)
    BY DEF HandshakeInv, clientVars, SameCommand
  <2> QED BY ONLY <1>1, <2>1, Counts', Grows, CommandStays
<1>5. AlarmsExplained'
  <2>1. \A c \in alarm' : c \in Clients /\ AlarmOK(c)
    BY Alarms DEF HandshakeInv, clientVars, ClientTypes
  <2>2. late' = late /\ wire_key' = wire_key /\ pin' = pin
    BY DEF clientVars
  <2>3. \A c \in alarm' : AlarmOK(c)'
    BY <1>1, <2>1, <2>2, AlarmStays
  <2> QED BY <2>3, AlarmsNext
<1> QED BY <1>2, <1>3, <1>4, <1>5

LEMMA NetworkStays ==
  ASSUME HandshakeInv, Counts', Grows, UNCHANGED networkVars
  PROVE  NetworkOK'
<1>1. Counts /\ NetworkOK
  BY DEF HandshakeInv, SenderOK, Counts
<1>2. \A m \in requests' : RequestOK(m)'
  BY <1>1, RequestStays DEF NetworkOK, networkVars
<1>3. \A r \in replies' : ReplyOK(r)'
  BY <1>1, ReplyStays DEF NetworkOK, networkVars
<1> QED BY <1>2, <1>3 DEF NetworkOK

LEMMA TablesStay ==
  ASSUME HandshakeInv, Counts', Grows, UNCHANGED cacheVars
  PROVE  CacheOK' /\ TablesOK'
<1>1. Counts /\ TablesOK /\ CacheOK
  BY DEF HandshakeInv, SenderOK, Counts
<1>2. store' = store /\ pending' = pending
  BY DEF cacheVars
<1>3. CacheOK'
  BY <1>1, <1>2 DEF CacheOK, Stored
<1>4. ASSUME NEW i \in PSlots, pending[i].in_use
      PROVE  /\ Begun(pending[i].key, pending[i].r_pub)'
             /\ pending[i].ready => Rightful(pending[i].key, pending[i].resp)'
  <2>1. /\ Begun(pending[i].key, pending[i].r_pub)
        /\ pending[i].ready => Rightful(pending[i].key, pending[i].resp)
    BY <1>1, <1>4 DEF TablesOK
  <2>2. \A w, p : Begun(w, p) => Begun(w, p)'
    BY Begins
  <2>3. \A w, x : Rightful(w, x) => Rightful(w, x)'
    BY <1>1, StaysRightful
  <2> QED BY <1>2, <2>1, <2>2, <2>3
<1>5. ASSUME NEW k \in Keys, store[k] # Nothing PROVE Made(store[k])' /\ store[k].key = k
  <2>1. Made(store[k]) /\ store[k].key = k
    BY <1>1, <1>5 DEF TablesOK
  <2>2. \A b : Made(b) => Made(b)'
    BY <1>1, StaysMade
  <2> QED BY <1>2, <2>1, <2>2
<1>6. TablesOK'
  BY <1>2, <1>4, <1>5 DEF TablesOK
<1> QED BY <1>3, <1>6

LEMMA SenderStays ==
  ASSUME HandshakeInv, Grows, UNCHANGED senderVars
  PROVE  Counts' /\ SenderOK'
<1>1. Counts /\ SenderOK
  BY DEF HandshakeInv, SenderOK, Counts
<1>2. Counts'
  BY <1>1 DEF Counts, senderVars
<1>3. owned' = owned /\ uploads' = uploads /\ puts' = puts /\ responds' = responds /\ work' = work
  BY DEF senderVars
<1>4. \A u \in puts : Made(u)'
  BY <1>1, <1>2, StaysMade DEF SenderOK
<1>5. \A a \in responds : Rightful(a.wire, a.resp)'
  <2>1. \A w, x : Rightful(w, x) => Rightful(w, x)'
    BY <1>1, <1>2, StaysRightful
  <2> QED BY <1>1, <1>3, <2>1 DEF SenderOK
<1>6. \A e \in work : Begun(e.wire, e.r_pub)'
  BY <1>1, <1>3, Begins DEF SenderOK
<1> QED BY <1>1, <1>2, <1>3, <1>4, <1>5, <1>6 DEF SenderOK

-----------------------------------------------------------------------------
(* The cache server's steps                                                *)

\* What HANDSHAKE_INIT does to a slot.
LEMMA InitSlots ==
  ASSUME CacheOK, NEW w \in WireKey, NEW p \in Pubs, HandshakeInit(w, p), NEW j \in PSlots
  PROVE  \/ pending'[j] = pending[j]
         \/ pending'[j].key = w /\ pending'[j].r_pub = p /\ ~pending'[j].ready
<1> DEFINE i == InitSlot(w)
           h == [in_use |-> TRUE, key |-> w, r_pub |-> p, ready |-> FALSE, resp |-> Nothing, age |-> 0]
<1>1. pending' = IF i = NoSlot THEN pending ELSE [pending EXCEPT ![i] = h]
  BY DEF HandshakeInit
<1>2. h.key = w /\ h.r_pub = p /\ ~h.ready
  OBVIOUS
<1>3. pending \in [PSlots -> Handshake]
  BY DEF CacheOK, TableOK
<1> HIDE DEF i, h
<1> QED BY <1>1, <1>2, <1>3

LEMMA PollSlots ==
  ASSUME CacheOK, NEW w \in WireKey, HandshakePoll(w)
  PROVE  /\ \A j \in PSlots : pending'[j] = pending[j] \/ ~pending'[j].in_use
         /\ PollAnswer(w) # Nothing =>
              \E i \in PSlots : pending[i].in_use /\ pending[i].key = w /\ pending[i].ready
                                /\ PollAnswer(w) = pending[i].resp
<1>1. pending \in [PSlots -> Handshake] /\ TableOK(pending)
  BY DEF CacheOK, TableOK
<1>2. \A j \in PSlots : pending'[j] = pending[j] \/ ~pending'[j].in_use
  BY <1>1, UnusedIs DEF HandshakePoll
<1>3. ASSUME PollAnswer(w) # Nothing
      PROVE  \E i \in PSlots : pending[i].in_use /\ pending[i].key = w /\ pending[i].ready
                               /\ PollAnswer(w) = pending[i].resp
  BY <1>1, <1>3, FindNow, FindIs DEF PollAnswer
<1> QED BY <1>2, <1>3

LEMMA RespondSlots ==
  ASSUME CacheOK, NEW w \in WireKey, NEW r \in Responses, HandshakeRespond(w, r), NEW j \in PSlots
  PROVE  \/ pending'[j] = pending[j]
         \/ /\ pending[j].in_use /\ pending[j].key = w /\ pending'[j].key = w
            /\ pending'[j].r_pub = pending[j].r_pub /\ pending'[j].resp = r
<1> DEFINE i == Find(pending, w)
<1>1. TableOK(pending) /\ pending \in [PSlots -> Handshake]
  BY DEF CacheOK, TableOK
<1>2. CASE i = NoSlot \/ j # i
  BY <1>1, <1>2, FindNow DEF HandshakeRespond
<1>3. CASE i # NoSlot /\ j = i
  <2>1. pending[j].in_use /\ pending[j].key = w
    BY <1>1, <1>3, FindIs
  <2>2. pending' = [pending EXCEPT ![j].resp = r, ![j].ready = TRUE]
    BY <1>3, FindNow DEF HandshakeRespond
  <2>3. pending'[j] = [[pending[j] EXCEPT !.resp = r] EXCEPT !.ready = TRUE] /\ pending[j] \in Handshake
    BY <1>1, <2>2
  <2>4. pending'[j].key = pending[j].key /\ pending'[j].r_pub = pending[j].r_pub /\ pending'[j].resp = r
    BY <2>3 DEF Handshake
  <2> QED BY <2>1, <2>4
<1> QED BY <1>2, <1>3

LEMMA TickSlots ==
  ASSUME CacheOK, CacheTick, NEW j \in PSlots
  PROVE  /\ pending'[j].in_use = pending[j].in_use /\ pending'[j].key = pending[j].key
         /\ pending'[j].r_pub = pending[j].r_pub /\ pending'[j].ready = pending[j].ready
         /\ pending'[j].resp = pending[j].resp
<1>1. pending'[j] = Older(pending[j]) /\ pending[j] \in Handshake
  BY DEF CacheTick, CacheOK, TableOK
<1>2. CASE pending[j].in_use /\ pending[j].age <= PENDING_TTL
  <2> DEFINE h == [pending[j] EXCEPT !.age = @ + 1]
  <2>1. pending'[j] = h
    BY <1>1, <1>2 DEF Older
  <2>2. /\ h.in_use = pending[j].in_use /\ h.key = pending[j].key
        /\ h.r_pub = pending[j].r_pub /\ h.ready = pending[j].ready
        /\ h.resp = pending[j].resp
    BY <1>1 DEF Handshake
  <2> HIDE DEF h
  <2> QED BY <2>1, <2>2
<1>3. CASE ~(pending[j].in_use /\ pending[j].age <= PENDING_TTL)
  BY <1>1, <1>3 DEF Older
<1> QED BY <1>2, <1>3

\* The tables after a step that leaves the contents alone.
LEMMA SlotsOK ==
  ASSUME HandshakeInv, Counts', Grows, store' = store,
         \A j \in PSlots : pending'[j].in_use =>
            \/ pending'[j] = pending[j]
            \/ /\ Begun(pending'[j].key, pending'[j].r_pub)
               /\ pending'[j].ready => Rightful(pending'[j].key, pending'[j].resp)
  PROVE  TablesOK'
<1>1. Counts /\ TablesOK
  BY DEF HandshakeInv, SenderOK, Counts
<1>2. \A w, p : Begun(w, p) => Begun(w, p)'
  BY Begins
<1>3. \A w, x : Rightful(w, x) => Rightful(w, x)'
  BY <1>1, StaysRightful
<1>4. \A b : Made(b) => Made(b)'
  BY <1>1, StaysMade
<1>5. ASSUME NEW j \in PSlots, pending'[j].in_use
      PROVE  /\ Begun(pending'[j].key, pending'[j].r_pub)
             /\ pending'[j].ready => Rightful(pending'[j].key, pending'[j].resp)
  <2>1. pending[j].in_use => /\ Begun(pending[j].key, pending[j].r_pub)
                             /\ pending[j].ready => Rightful(pending[j].key, pending[j].resp)
    BY <1>1 DEF TablesOK
  <2>2. \/ pending'[j] = pending[j]
        \/ /\ Begun(pending'[j].key, pending'[j].r_pub)
           /\ pending'[j].ready => Rightful(pending'[j].key, pending'[j].resp)
    BY <1>5
  <2>3. pending'[j] = pending[j] => pending[j].in_use
    BY <1>5
  <2> QED BY ONLY <2>1, <2>2, <2>3
<1>6. \A j \in PSlots : pending'[j].in_use =>
        /\ Begun(pending[j].key, pending[j].r_pub)'
        /\ pending'[j].ready => Rightful(pending[j].key, pending[j].resp)'
  BY <1>2, <1>3, <1>5
<1>7. \A k \in Keys : store[k] # Nothing => Made(store[k])' /\ store[k].key = k
  <2>1. \A k \in Keys : store[k] # Nothing => Made(store[k]) /\ store[k].key = k
    BY <1>1 DEF TablesOK
  <2> QED BY <1>4, <2>1
<1> QED BY <1>6, <1>7 DEF TablesOK

LEMMA Unchanging ==
  ASSUME HandshakeInv, inits' = inits, uploads' = uploads
  PROVE  Grows /\ Counts /\ Counts'
<1>1. Counts
  BY DEF HandshakeInv, SenderOK, Counts
<1>2. \A k \in Keys : uploads[k] \in Int
  BY <1>1 DEF Counts
<1> QED BY <1>1, <1>2 DEF Grows, Counts

\* A request answered.
LEMMA Answered ==
  ASSUME HandshakeInv, Counts', Grows, NEW m \in requests, NEW kind, NEW val,
         Answer(m, kind, val), requests' = requests \ {m},
         kind \in {"ok", "full", "wait", "ready", "blob", "missing"},
         val \in Blobs \cup Responses \cup {Nothing},
         kind = "ready" => m.kind = "poll" /\ Rightful(m.wire, val),
         kind = "blob" => m.kind = "get" /\ Made(val) /\ val.key = m.wire.key
  PROVE  NetworkOK'
<1> DEFINE r == [to |-> m, kind |-> kind, val |-> val]
<1>1. Counts /\ NetworkOK
  BY DEF HandshakeInv, SenderOK, Counts
<1>2. ReplyOK(r)
  <2>1. RequestOK(m) /\ m \in Request
    BY <1>1 DEF NetworkOK, RequestOK
  <2>2. r \in Reply /\ r.to = m /\ r.kind = kind /\ r.val = val
    BY <2>1 DEF Reply
  <2> HIDE DEF r
  <2> QED BY <2>1, <2>2 DEF ReplyOK
<1>3. replies' = replies \cup {r}
  BY DEF Answer
<1> HIDE DEF r
<1>4. \A q \in replies' : ReplyOK(q)
  BY <1>1, <1>2, <1>3 DEF NetworkOK
<1>5. \A q \in replies' : ReplyOK(q)'
  BY <1>1, <1>4, ReplyStays
<1>6. \A q \in requests' : RequestOK(q)'
  BY <1>1, RequestStays DEF NetworkOK
<1> QED BY <1>5, <1>6 DEF NetworkOK

LEMMA ServeKeeps ==
  ASSUME HandshakeInv, NEW m \in requests, Serve(m)
  PROVE  HandshakeInv' /\ [Contract!Next]_<<Contents, Mailbox>>
<1>1. UNCHANGED <<clientVars, senderVars>> /\ requests' = requests \ {m}
  BY DEF Serve
<1>2. Grows /\ Counts /\ Counts'
  BY <1>1, Unchanging DEF clientVars, senderVars
<1>3. /\ ClientTypes' /\ PairsOnce' /\ (\A c \in Clients : CommandOK(c)') /\ AlarmsExplained'
      /\ SenderOK'
  BY <1>1, <1>2, ClientsStay, SenderStays
<1>4. /\ m.kind \in {"init", "poll", "get"} /\ m.wire \in WireKey /\ m.r_pub \in Pubs
      /\ m.wire.key \in Keys /\ Begun(m.wire, m.r_pub)
  BY DEF HandshakeInv, NetworkOK, RequestOK, Request, WireKey
<1>5. CacheOK /\ TablesOK
  BY DEF HandshakeInv
<1>6. CacheOK' /\ TablesOK' /\ NetworkOK' /\ [Contract!Next]_<<Contents, Mailbox>>
  <2>1. CASE HandleInit(m)
    <3>1. /\ HandshakeInit(m.wire, m.r_pub)
          /\ \E kind \in {"ok", "full"} : Answer(m, kind, Nothing)
      BY <2>1 DEF HandleInit
    <3>2. CacheOK' /\ [Contract!Next]_<<Contents, Mailbox>>
      BY <1>4, <1>5, <3>1, InitOK
    <3>3. TablesOK'
      <4>1. \A j \in PSlots :
              \/ pending'[j] = pending[j]
              \/ pending'[j].key = m.wire /\ pending'[j].r_pub = m.r_pub /\ ~pending'[j].ready
        BY <1>4, <1>5, <3>1, InitSlots
      <4>2. \A j \in PSlots : \/ pending'[j] = pending[j]
                              \/ Begun(pending'[j].key, pending'[j].r_pub) /\ ~pending'[j].ready
        BY <1>4, <4>1
      <4>3. store' = store
        BY <3>1 DEF HandshakeInit
      <4> QED BY <1>2, <4>2, <4>3, SlotsOK
    <3>4. NetworkOK'
      <4>1. PICK kind \in {"ok", "full"} : Answer(m, kind, Nothing)
        BY <3>1
      <4> QED BY <1>1, <1>2, <4>1, Answered
    <3> QED BY <3>2, <3>3, <3>4
  <2>2. CASE HandlePoll(m)
    <3> DEFINE a == PollAnswer(m.wire)
    <3>1. m.kind = "poll" /\ HandshakePoll(m.wire) /\ Answer(m, IF a # Nothing THEN "ready" ELSE "wait", a)
      BY <2>2 DEF HandlePoll
    <3>2. CacheOK' /\ [Contract!Next]_<<Contents, Mailbox>>
      BY <1>4, <1>5, <3>1, PollOK
    <3>3. TablesOK'
      <4>1. \A j \in PSlots : pending'[j] = pending[j] \/ ~pending'[j].in_use
        BY <1>4, <1>5, <3>1, PollSlots
      <4>2. store' = store
        BY <3>1 DEF HandshakePoll
      <4> QED BY <1>2, <4>1, <4>2, SlotsOK
    <3>4. a # Nothing => Rightful(m.wire, a)
      <4>1. SUFFICES ASSUME a # Nothing PROVE Rightful(m.wire, a)
        OBVIOUS
      <4>2. PICK i \in PSlots : pending[i].in_use /\ pending[i].key = m.wire /\ pending[i].ready
                                /\ a = pending[i].resp
        BY <1>4, <1>5, <3>1, <4>1, PollSlots
      <4>3. Rightful(pending[i].key, pending[i].resp)
        BY <1>5, <4>2 DEF TablesOK
      <4> QED BY <4>2, <4>3
    <3>5. a \in Blobs \cup Responses \cup {Nothing}
      BY <3>4 DEF Rightful
    <3> HIDE DEF a
    <3>6. NetworkOK'
      <4>1. CASE a # Nothing
        <5>1. Answer(m, "ready", a)
          BY <3>1, <4>1
        <5> QED BY <1>1, <1>2, <3>1, <3>4, <3>5, <4>1, <5>1, Answered
      <4>2. CASE a = Nothing
        <5>1. Answer(m, "wait", a)
          BY <3>1, <4>2
        <5> QED BY <1>1, <1>2, <3>5, <5>1, Answered
      <4> QED BY <4>1, <4>2
    <3> QED BY <3>2, <3>3, <3>6
  <2>3. CASE HandleGet(m)
    <3> DEFINE b == store[m.wire.key]
    <3>1. /\ m.kind = "get" /\ Answer(m, IF b # Nothing THEN "blob" ELSE "missing", b)
          /\ UNCHANGED cacheVars
      BY <2>3 DEF HandleGet
    <3>2. CacheOK' /\ TablesOK'
      BY <1>2, <3>1, TablesStay
    <3>3. [Contract!Next]_<<Contents, Mailbox>>
      BY <3>1, FindNow DEF cacheVars, Contents
    <3>4. /\ b # Nothing => Made(b) /\ b.key = m.wire.key
          /\ b \in Blobs \cup Responses \cup {Nothing}
      BY <1>4, <1>5 DEF TablesOK, CacheOK
    <3> HIDE DEF b
    <3>5. NetworkOK'
      <4>1. CASE b # Nothing
        <5>1. Answer(m, "blob", b)
          BY <3>1, <4>1
        <5> QED BY <1>1, <1>2, <3>1, <3>4, <4>1, <5>1, Answered
      <4>2. CASE b = Nothing
        <5>1. Answer(m, "missing", b)
          BY <3>1, <4>2
        <5> QED BY <1>1, <1>2, <3>4, <5>1, Answered
      <4> QED BY <4>1, <4>2
    <3> QED BY <3>2, <3>3, <3>5
  <2> QED BY <2>1, <2>2, <2>3 DEF Serve
<1> QED BY <1>3, <1>6 DEF HandshakeInv

LEMMA ServePutKeeps ==
  ASSUME HandshakeInv, NEW u \in puts, ServePut(u)
  PROVE  HandshakeInv' /\ [Contract!Next]_<<Contents, Mailbox>>
<1>1. /\ UNCHANGED <<clientVars, networkVars>> /\ store_put(u.key, u) /\ puts' = puts \ {u}
      /\ owned' = owned /\ uploads' = uploads /\ responds' = responds /\ work' = work
  BY DEF ServePut
<1>2. Grows /\ Counts /\ Counts'
  BY <1>1, Unchanging DEF clientVars
<1>3. /\ ClientTypes' /\ PairsOnce' /\ (\A c \in Clients : CommandOK(c)') /\ AlarmsExplained'
      /\ NetworkOK'
  BY <1>1, <1>2, ClientsStay, NetworkStays
<1>4. Made(u) /\ u \in Blobs /\ u.key \in Keys
  BY DEF HandshakeInv, SenderOK, Made
<1>5. CacheOK' /\ [Contract!Next]_<<Contents, Mailbox>>
  BY <1>1, <1>4, PutOK, PutRefines DEF HandshakeInv
<1>6. \A b : Made(b) <=> Made(b)'
  BY <1>1 DEF Made
<1>7. \A w, p : Begun(w, p) <=> Begun(w, p)'
  BY <1>1 DEF Begun, clientVars
<1>8. \A w, x : Rightful(w, x) <=> Rightful(w, x)'
  BY <1>6, <1>7 DEF Rightful
<1>9. TablesOK'
  <2>1. pending' = pending /\ \A k \in Keys : store'[k] = store[k] \/ (k = u.key /\ store'[k] = u)
    BY <1>1 DEF store_put, HandshakeInv, CacheOK
  <2>2. \A k \in Keys : store'[k] # Nothing => Made(store'[k]) /\ store'[k].key = k
    BY <1>4, <2>1 DEF HandshakeInv, TablesOK
  <2>3. \A k \in Keys : store'[k] # Nothing => Made(store[k])' /\ store'[k].key = k
    BY <1>6, <2>2
  <2>4. ASSUME NEW i \in PSlots, pending'[i].in_use
        PROVE  /\ Begun(pending[i].key, pending[i].r_pub)'
               /\ pending'[i].ready => Rightful(pending[i].key, pending[i].resp)'
    <3>1. /\ Begun(pending[i].key, pending[i].r_pub)
          /\ pending[i].ready => Rightful(pending[i].key, pending[i].resp)
      BY <2>1, <2>4 DEF HandshakeInv, TablesOK
    <3> QED BY <1>7, <1>8, <2>1, <3>1
  <2> QED BY <2>3, <2>4 DEF TablesOK
<1>10. SenderOK'
  <2>1. SenderOK
    BY DEF HandshakeInv
  <2>2. \A v \in puts : Made(v)'
    BY <1>6, <2>1 DEF SenderOK
  <2>3. \A a \in responds : Rightful(a.wire, a.resp)'
    BY <1>1, <1>8, <2>1 DEF SenderOK
  <2>4. \A e \in work : Begun(e.wire, e.r_pub)'
    BY <1>1, <1>7, <2>1 DEF SenderOK
  <2> QED BY <1>1, <2>1, <2>2, <2>3, <2>4 DEF SenderOK
<1> QED BY <1>3, <1>5, <1>9, <1>10 DEF HandshakeInv

LEMMA ServeRespondKeeps ==
  ASSUME HandshakeInv, NEW a \in responds, ServeRespond(a)
  PROVE  HandshakeInv' /\ [Contract!Next]_<<Contents, Mailbox>>
<1>1. /\ UNCHANGED <<clientVars, networkVars>> /\ HandshakeRespond(a.wire, a.resp)
      /\ responds' = responds \ {a}
      /\ owned' = owned /\ uploads' = uploads /\ puts' = puts /\ work' = work
  BY DEF ServeRespond
<1>2. Grows /\ Counts /\ Counts'
  BY <1>1, Unchanging DEF clientVars
<1>3. /\ ClientTypes' /\ PairsOnce' /\ (\A c \in Clients : CommandOK(c)') /\ AlarmsExplained'
      /\ NetworkOK'
  BY <1>1, <1>2, ClientsStay, NetworkStays
<1>4. Rightful(a.wire, a.resp) /\ a.wire \in WireKey /\ a.resp \in Responses
  BY DEF HandshakeInv, SenderOK
<1>5. CacheOK' /\ [Contract!Next]_<<Contents, Mailbox>>
  BY <1>1, <1>4, RespondOK DEF HandshakeInv
<1>6. TablesOK'
  <2>1. ASSUME NEW j \in PSlots
        PROVE  \/ pending'[j] = pending[j]
               \/ /\ Begun(pending'[j].key, pending'[j].r_pub)
                  /\ Rightful(pending'[j].key, pending'[j].resp)
    <3>1. \/ pending'[j] = pending[j]
          \/ /\ pending[j].in_use /\ pending[j].key = a.wire /\ pending'[j].key = a.wire
             /\ pending'[j].r_pub = pending[j].r_pub /\ pending'[j].resp = a.resp
      BY <1>1, <1>4, RespondSlots DEF HandshakeInv
    <3>2. pending[j].in_use => Begun(pending[j].key, pending[j].r_pub)
      BY DEF HandshakeInv, TablesOK
    <3> QED BY <1>4, <3>1, <3>2
  <2>2. store' = store
    BY <1>1 DEF HandshakeRespond
  <2> QED BY <1>2, <2>1, <2>2, SlotsOK
<1>7. SenderOK'
  <2>1. SenderOK
    BY DEF HandshakeInv
  <2>2. \A b \in responds : Rightful(b.wire, b.resp) /\ Rightful(b.wire, b.resp)'
    <3>1. \A w, x : Rightful(w, x) => Rightful(w, x)'
      BY <1>2, StaysRightful
    <3> QED BY <1>1, <2>1, <3>1 DEF SenderOK
  <2>3. \A v \in puts : Made(v)'
    BY <1>2, <2>1, StaysMade DEF SenderOK
  <2>4. \A e \in work : Begun(e.wire, e.r_pub)'
    BY <1>1, <1>2, <2>1, Begins DEF SenderOK
  <2> QED BY <1>1, <2>1, <2>2, <2>3, <2>4 DEF SenderOK
<1> QED BY <1>3, <1>5, <1>6, <1>7 DEF HandshakeInv

-----------------------------------------------------------------------------
(* The sender's steps                                                      *)

LEMMA UploadKeeps ==
  ASSUME HandshakeInv, NEW k \in Keys, upload_content(k)
  PROVE  HandshakeInv' /\ UNCHANGED cacheVars
<1> DEFINE v == uploads[k] + 1
           b == [key |-> k, version |-> v]
<1>1. /\ UNCHANGED <<cacheVars, clientVars, networkVars>> /\ responds' = responds /\ work' = work
      /\ uploads' = [uploads EXCEPT ![k] = v] /\ v \in Version /\ puts' = puts \cup {b}
      /\ owned' = owned \/ owned' = [owned EXCEPT ![k] = v]
  BY DEF upload_content
<1>2. SenderOK /\ Counts
  BY DEF HandshakeInv, SenderOK, Counts
<1>3. Counts' /\ Grows
  <2>1. \A j \in Keys : uploads[j] \in Nat /\ uploads'[j] = IF j = k THEN uploads[j] + 1 ELSE uploads[j]
    BY <1>1, <1>2 DEF Counts
  <2>2. Counts'
    BY <1>1, <1>2 DEF Counts, Version
  <2> QED BY <1>1, <2>1, <2>2 DEF Grows, clientVars
<1>4. /\ ClientTypes' /\ PairsOnce' /\ (\A c \in Clients : CommandOK(c)') /\ AlarmsExplained'
      /\ NetworkOK' /\ CacheOK' /\ TablesOK'
  BY <1>1, <1>3, ClientsStay, NetworkStays, TablesStay
<1>5. SenderOK'
  <2>1. /\ owned' \in [Keys -> 0 .. MaxUploads]
        /\ \A j \in Keys : owned'[j] <= uploads'[j]
    <3>1. \A j \in Keys : /\ uploads[j] \in Nat /\ uploads'[j] = IF j = k THEN v ELSE uploads[j]
                          /\ owned[j] \in Nat /\ owned[j] <= uploads[j] /\ v = uploads[k] + 1
      BY <1>1, <1>2 DEF SenderOK
    <3>2. owned' \in [Keys -> 0 .. MaxUploads]
      BY <1>1, <1>2 DEF SenderOK, Version
    <3>3. \A j \in Keys : owned'[j] = owned[j] \/ (j = k /\ owned'[j] = v)
      BY <1>1, <1>2 DEF SenderOK
    <3> HIDE DEF v
    <3> QED BY <3>1, <3>2, <3>3
  <2>2. \A u \in puts' : Made(u)'
    <3>1. ASSUME NEW u, u = b PROVE Made(u)'
      <4>1. u \in Blobs /\ u.key = k /\ u.version = v
        BY <1>1, <3>1
      <4>2. uploads'[k] = v /\ v \in Int
        BY <1>1, <1>2 DEF Counts, Version
      <4> HIDE DEF b, v
      <4> QED BY <4>1, <4>2 DEF Made
    <3>2. \A u \in puts : Made(u)'
      BY <1>2, <1>3, StaysMade DEF SenderOK
    <3> QED BY <1>1, <3>1, <3>2
  <2>3. \A a \in responds : Rightful(a.wire, a.resp)'
    <3>1. \A w, x : Rightful(w, x) => Rightful(w, x)'
      BY <1>2, <1>3, StaysRightful
    <3> QED BY <1>2, <3>1 DEF SenderOK
  <2>4. \A e \in work : Begun(e.wire, e.r_pub)'
    BY <1>2, <1>3, Begins DEF SenderOK
  <2> HIDE DEF b
  <2> QED BY <1>1, <1>2, <1>3, <2>1, <2>2, <2>3, <2>4 DEF SenderOK, Counts
<1> QED BY <1>1, <1>4, <1>5 DEF HandshakeInv

LEMMA HeartbeatKeeps ==
  ASSUME HandshakeInv, heartbeat_thread
  PROVE  HandshakeInv' /\ UNCHANGED cacheVars
<1>1. /\ UNCHANGED <<cacheVars, clientVars, networkVars>> /\ work' = HeartbeatListing
      /\ owned' = owned /\ uploads' = uploads /\ puts' = puts /\ responds' = responds
  BY DEF heartbeat_thread
<1>2. Grows /\ Counts /\ Counts'
  BY <1>1, Unchanging DEF clientVars
<1>3. /\ ClientTypes' /\ PairsOnce' /\ (\A c \in Clients : CommandOK(c)') /\ AlarmsExplained'
      /\ NetworkOK' /\ CacheOK' /\ TablesOK'
  BY <1>1, <1>2, ClientsStay, NetworkStays, TablesStay
<1>4. SenderOK'
  <2>1. SenderOK
    BY DEF HandshakeInv
  <2>2. \A w, p : Begun(w, p) => Begun(w, p)'
    BY <1>2, Begins
  <2>3. \A e \in work' : e \in [wire : WireKey, r_pub : Pubs] /\ Begun(e.wire, e.r_pub)
    <3> SUFFICES ASSUME NEW e \in HeartbeatListing
                 PROVE  e \in [wire : WireKey, r_pub : Pubs] /\ Begun(e.wire, e.r_pub)
      BY <1>1
    <3>1. PICK i \in Listed : e = [wire |-> pending[i].key, r_pub |-> pending[i].r_pub]
      BY DEF HeartbeatListing
    <3>2. i \in PSlots /\ pending[i].in_use
      BY DEF Listed, Unanswered
    <3>3. Begun(pending[i].key, pending[i].r_pub)
      BY <3>2 DEF HandshakeInv, TablesOK
    <3>4. pending[i].key \in WireKey /\ pending[i].r_pub \in Pubs
      BY <3>3 DEF Begun
    <3> QED BY <3>1, <3>3, <3>4
  <2>4. \A e \in work' : e \in [wire : WireKey, r_pub : Pubs] /\ Begun(e.wire, e.r_pub)'
    BY <2>2, <2>3
  <2>5. \A u \in puts : Made(u)'
    BY <1>2, <2>1, StaysMade DEF SenderOK
  <2>6. \A a \in responds : Rightful(a.wire, a.resp)'
    <3>1. \A w, x : Rightful(w, x) => Rightful(w, x)'
      BY <1>2, StaysRightful
    <3> QED BY <2>1, <3>1 DEF SenderOK
  <2> QED BY <1>1, <2>1, <2>4, <2>5, <2>6 DEF SenderOK
<1> QED BY <1>1, <1>3, <1>4 DEF HandshakeInv

\* A response is for the key pair and the wire key of its entry, and carries
\* the version of the key remembered.
LEMMA WorkerKeeps ==
  ASSUME HandshakeInv, NEW e \in work, respond_worker(e)
  PROVE  HandshakeInv' /\ UNCHANGED cacheVars
<1> DEFINE b == [key |-> e.wire.key, version |-> owned[e.wire.key]]
           x == [to |-> e.r_pub, k |-> b]
           a == [wire |-> e.wire, resp |-> x]
<1>1. /\ UNCHANGED <<cacheVars, clientVars, networkVars>> /\ work' = work \ {e}
      /\ owned' = owned /\ uploads' = uploads /\ puts' = puts
      /\ responds' = IF owned[e.wire.key] > 0 THEN responds \cup {a} ELSE responds
  BY DEF respond_worker
<1>2. Grows /\ Counts /\ Counts'
  BY <1>1, Unchanging DEF clientVars
<1>3. /\ ClientTypes' /\ PairsOnce' /\ (\A c \in Clients : CommandOK(c)') /\ AlarmsExplained'
      /\ NetworkOK' /\ CacheOK' /\ TablesOK'
  BY <1>1, <1>2, ClientsStay, NetworkStays, TablesStay
<1>4. SenderOK'
  <2>1. SenderOK
    BY DEF HandshakeInv
  <2>2. e.wire \in WireKey /\ e.wire.key \in Keys /\ e.r_pub \in Pubs /\ Begun(e.wire, e.r_pub)
    BY <2>1 DEF SenderOK, WireKey
  <2>3. owned[e.wire.key] > 0 => Rightful(e.wire, x)
    <3> SUFFICES ASSUME owned[e.wire.key] > 0 PROVE Rightful(e.wire, x)
      OBVIOUS
    <3>1. owned[e.wire.key] \in Version /\ owned[e.wire.key] <= uploads[e.wire.key]
      BY <2>1, <2>2 DEF SenderOK, Version
    <3>2. b \in Blobs /\ Made(b)
      BY <2>2, <3>1 DEF Made
    <3>3. b.key = e.wire.key
      OBVIOUS
    <3> HIDE DEF b
    <3>4. x \in Responses /\ x.to = e.r_pub /\ x.k = b
      BY <2>2, <3>2
    <3> HIDE DEF x
    <3> QED BY <2>2, <3>2, <3>3, <3>4 DEF Rightful
  <2> HIDE DEF x
  <2>4. \A r \in responds' : r \in [wire : WireKey, resp : Responses] /\ Rightful(r.wire, r.resp)
    <3>1. owned[e.wire.key] > 0 => /\ a \in [wire : WireKey, resp : Responses]
                                   /\ a.wire = e.wire /\ a.resp = x
      BY <2>2, <2>3 DEF Rightful
    <3> HIDE DEF a
    <3> QED BY <1>1, <2>1, <2>3, <3>1 DEF SenderOK
  <2>5. \A w, y : Rightful(w, y) => Rightful(w, y)'
    BY <1>2, StaysRightful
  <2>6. \A r \in responds' : r \in [wire : WireKey, resp : Responses] /\ Rightful(r.wire, r.resp)'
    BY <2>4, <2>5
  <2>7. \A u \in puts : Made(u)'
    BY <1>2, <2>1, StaysMade DEF SenderOK
  <2>8. \A d \in work : Begun(d.wire, d.r_pub)'
    BY <1>2, <2>1, Begins DEF SenderOK
  <2> QED BY <1>1, <2>1, <2>6, <2>7, <2>8 DEF SenderOK
<1> QED BY <1>1, <1>3, <1>4 DEF HandshakeInv

-----------------------------------------------------------------------------
(* The clock and the network                                               *)

\* A step that only moves what the clients know.
LEMMA OnlyClients ==
  ASSUME HandshakeInv, UNCHANGED <<cacheVars, senderVars>>, inits' = inits, run' = run,
         ClientTypes', NetworkOK', \A c \in Clients : CommandOK(c)',
         \A c \in Clients : AlarmOK(c) /\ c \in alarm => AlarmOK(c)',
         \A c \in alarm' \ alarm : AlarmOK(c)'
  PROVE  HandshakeInv'
<1>1. Grows /\ Counts /\ Counts'
  BY Unchanging DEF senderVars
<1>2. CacheOK' /\ TablesOK' /\ SenderOK'
  BY <1>1, TablesStay, SenderStays
<1>3. PairsOnce'
  BY DEF HandshakeInv, PairsOnce
<1>4. AlarmsExplained'
  <2>1. \A c \in alarm : c \in Clients /\ AlarmOK(c)
    BY Alarms DEF HandshakeInv, ClientTypes
  <2>2. \A c \in alarm' : AlarmOK(c)'
    BY <2>1
  <2> QED BY <2>2, AlarmsNext
<1> QED BY <1>2, <1>3, <1>4 DEF HandshakeInv

LEMMA TickKeeps ==
  ASSUME HandshakeInv, Tick
  PROVE  HandshakeInv' /\ UNCHANGED <<Contents, Mailbox>>
<1>1. /\ UNCHANGED <<phase, run, wire_key, tries, inbox, known, shown, pin, inits, late, alarm>>
      /\ UNCHANGED <<networkVars, senderVars>> /\ CacheTick
      /\ left' = [c \in Clients |-> IF Busy(c) THEN left[c] - 1 ELSE 0]
      /\ \A c \in Clients : Busy(c) => left[c] > 0
  BY DEF Tick
<1>2. Grows /\ Counts /\ Counts'
  BY <1>1, Unchanging DEF senderVars
<1>3. CacheOK' /\ UNCHANGED <<Contents, Mailbox>>
  BY <1>1, TickOK DEF HandshakeInv
<1>4. NetworkOK' /\ SenderOK'
  BY <1>1, <1>2, NetworkStays, SenderStays
<1>5. TablesOK'
  <2>1. ASSUME NEW j \in PSlots, pending'[j].in_use
        PROVE  /\ Begun(pending'[j].key, pending'[j].r_pub)
               /\ pending'[j].ready => Rightful(pending'[j].key, pending'[j].resp)
    <3>1. /\ pending'[j].in_use = pending[j].in_use /\ pending'[j].key = pending[j].key
          /\ pending'[j].r_pub = pending[j].r_pub /\ pending'[j].ready = pending[j].ready
          /\ pending'[j].resp = pending[j].resp
      BY <1>1, TickSlots DEF HandshakeInv
    <3>2. pending[j].in_use => /\ Begun(pending[j].key, pending[j].r_pub)
                               /\ pending[j].ready => Rightful(pending[j].key, pending[j].resp)
      BY DEF HandshakeInv, TablesOK
    <3> QED BY <2>1, <3>1, <3>2
  <2>2. store' = store
    BY <1>1 DEF CacheTick
  <2> QED BY <1>2, <2>1, <2>2, SlotsOK
<1>6. ClientTypes'
  <2>1. left' \in [Clients -> Nat]
    BY <1>1 DEF HandshakeInv, ClientTypes
  <2> QED BY <1>1, <2>1 DEF HandshakeInv, ClientTypes
<1>7. PairsOnce'
  BY <1>1 DEF HandshakeInv, PairsOnce
<1>8. \A c \in Clients : CommandOK(c)'
  <2>1. \A c \in Clients : SameCommand(c) /\ CommandOK(c)
    BY <1>1 DEF HandshakeInv, SameCommand
  <2> QED BY ONLY <1>2, <2>1, CommandStays
<1>9. AlarmsExplained'
  <2>1. \A c \in alarm' : c \in Clients /\ AlarmOK(c)
    BY <1>1, Alarms DEF HandshakeInv, ClientTypes
  <2>2. \A c \in alarm' : AlarmOK(c)'
    BY <1>1, <1>2, <2>1, AlarmStays
  <2> QED BY <2>2, AlarmsNext
<1> QED BY <1>3, <1>4, <1>5, <1>6, <1>7, <1>8, <1>9 DEF HandshakeInv

LEMMA DeliverKeeps ==
  ASSUME HandshakeInv, NEW r \in replies, Deliver(r)
  PROVE  HandshakeInv' /\ UNCHANGED cacheVars
<1> DEFINE d == r.to.r_pub.client
<1>1. /\ replies' = replies \ {r} /\ requests' = requests
      /\ inbox' = [inbox EXCEPT ![d] = r]
      /\ UNCHANGED <<cacheVars, phase, run, wire_key, tries, left, known, shown, pin, inits, late, alarm>>
      /\ UNCHANGED senderVars
  BY DEF Deliver
<1>2. Grows /\ Counts /\ Counts'
  BY <1>1, Unchanging DEF senderVars
<1>3. ReplyOK(r) /\ r \in Reply
  BY DEF HandshakeInv, NetworkOK, ReplyOK
<1>4. ClientTypes'
  BY <1>1, <1>3 DEF HandshakeInv, ClientTypes
<1>5. NetworkOK'
  <2>1. \A m \in requests' : RequestOK(m)'
    BY <1>1, <1>2, RequestStays DEF HandshakeInv, NetworkOK
  <2>2. \A q \in replies' : ReplyOK(q)'
    BY <1>1, <1>2, ReplyStays DEF HandshakeInv, NetworkOK
  <2> QED BY <2>1, <2>2 DEF NetworkOK
<1>6. \A c \in Clients : CommandOK(c)'
  <2> SUFFICES ASSUME NEW c \in Clients PROVE CommandOK(c)'
    OBVIOUS
  <2>1. \A q : ReplyOK(q) => ReplyOK(q)'
    BY <1>2, ReplyStays
  <2>2. inbox'[c] = inbox[c] \/ inbox'[c] = r
    BY <1>1 DEF HandshakeInv, ClientTypes
  <2>3. inbox'[c] # Nothing => ReplyOK(inbox'[c])
    BY <1>3, <2>2 DEF HandshakeInv, CommandOK
  <2>4. inbox'[c] # Nothing => ReplyOK(inbox[c])'
    BY <2>1, <2>3
  <2>5. /\ Busy(c) => Begun(wire_key[c], MyPub(c))
        /\ phase[c] = "get" => Made(known[c]) /\ known[c].key = wire_key[c].key
        /\ shown[c] # Nothing => Made(shown[c]) /\ shown[c].key = wire_key[c].key
    BY DEF HandshakeInv, CommandOK
  <2>6. /\ Busy(c)' <=> Busy(c)
        /\ MyPub(c)' = MyPub(c)
    BY <1>1 DEF Busy, MyPub
  <2>7. Busy(c)' => Begun(wire_key[c], MyPub(c))'
    BY <1>1, <1>2, <2>5, <2>6, Begins
  <2>8. /\ phase'[c] = "get" => Made(known[c])' /\ known'[c].key = wire_key'[c].key
        /\ shown'[c] # Nothing => Made(shown[c])' /\ shown'[c].key = wire_key'[c].key
    BY <1>1, <1>2, <2>5, StaysMade
  <2> QED BY <2>4, <2>7, <2>8 DEF CommandOK
<1>7. \A c \in Clients : AlarmOK(c) /\ c \in alarm => AlarmOK(c)'
  BY <1>1, <1>2, AlarmStays
<1> QED BY <1>1, <1>4, <1>5, <1>6, <1>7, OnlyClients

-----------------------------------------------------------------------------
(* The clients' steps                                                      *)

\* What the parts of a step leave of a command.
Moves(c) ==
  /\ phase' \in [Clients -> {"idle", "init", "sleep", "poll", "get"}] /\ left' \in [Clients -> Nat]
  /\ tries' \in [Clients -> 0 .. (POLL_TRIES - 1)] /\ known' \in [Clients -> Blobs \cup {Nothing}]
  /\ \A d \in Clients \ {c} : phase'[d] = phase[d] /\ known'[d] = known[d]

LEMMA FinishIs ==
  ASSUME ClientTypes, NEW c \in Clients, Finish(c)
  PROVE  Moves(c) /\ phase'[c] = "idle"
<1>1. 0 \in 0 .. (POLL_TRIES - 1)
  OBVIOUS
<1> QED BY <1>1 DEF ClientTypes, Finish, Moves

LEMMA SleepIs ==
  ASSUME ClientTypes, NEW c \in Clients, SleepFor(c), UNCHANGED <<tries, known>>
  PROVE  Moves(c) /\ phase'[c] = "sleep"
  BY DEF ClientTypes, SleepFor, Moves

LEMMA NextTryIs ==
  ASSUME ClientTypes, NEW c \in Clients, NextTry(c)
  PROVE  Moves(c) /\ phase'[c] \in {"sleep", "idle"}
<1>1. CASE tries[c] + 1 < POLL_TRIES
  <2>1. tries[c] + 1 \in 0 .. (POLL_TRIES - 1)
    BY <1>1 DEF ClientTypes
  <2>2. SleepFor(c) /\ tries' = [tries EXCEPT ![c] = tries[c] + 1] /\ UNCHANGED known
    BY <1>1 DEF NextTry
  <2> QED BY <2>1, <2>2 DEF ClientTypes, SleepFor, Moves
<1>2. CASE ~(tries[c] + 1 < POLL_TRIES)
  BY <1>2, FinishIs DEF NextTry
<1> QED BY <1>1, <1>2

LEMMA AskIs ==
  ASSUME ClientTypes, NetworkOK, NEW c \in Clients, NEW m, RequestOK(m), Ask(c, m)
  PROVE  /\ phase' \in [Clients -> {"idle", "init", "sleep", "poll", "get"}]
         /\ left' \in [Clients -> Nat]
         /\ phase'[c] = m.kind /\ \A d \in Clients \ {c} : phase'[d] = phase[d]
         /\ \A q \in requests' : RequestOK(q)
<1>1. m.kind \in {"init", "poll", "get"}
  BY DEF RequestOK, Request
<1>2. /\ phase' \in [Clients -> {"idle", "init", "sleep", "poll", "get"}]
      /\ left' \in [Clients -> Nat]
      /\ phase'[c] = m.kind /\ \A d \in Clients \ {c} : phase'[d] = phase[d]
  BY <1>1 DEF Ask, ClientTypes
<1>3. requests' \subseteq requests \cup {m}
  BY DEF Ask
<1> QED BY <1>2, <1>3 DEF NetworkOK

LEMMA TakeIs ==
  ASSUME HandshakeInv, NEW c \in Clients, Take(c)
  PROVE  /\ inbox[c] \in Reply /\ ReplyOK(inbox[c])
         /\ inbox' \in [Clients -> Reply \cup {Nothing}]
         /\ inbox'[c] = Nothing /\ \A d \in Clients \ {c} : inbox'[d] = inbox[d]
         /\ late \subseteq late' /\ late' \subseteq Clients
         /\ c \notin late' => inbox[c].to = Current(c, phase[c])
<1>1. inbox[c] # Nothing /\ inbox' = [inbox EXCEPT ![c] = Nothing]
  BY DEF Take
<1>2. inbox[c] \in Reply /\ ReplyOK(inbox[c])
  BY <1>1 DEF HandshakeInv, CommandOK, ReplyOK
<1>3. /\ late \subseteq late' /\ late' \subseteq Clients
      /\ c \notin late' => inbox[c].to = Current(c, phase[c])
  BY DEF Take, HandshakeInv, ClientTypes
<1> QED BY <1>1, <1>2, <1>3 DEF HandshakeInv, ClientTypes

\* A step of a command, from what it leaves.
LEMMA CommandStep ==
  ASSUME HandshakeInv, NEW c \in Clients, UNCHANGED <<cacheVars, senderVars>>,
         run' = run, wire_key' = wire_key, inits' = inits, replies' = replies,
         Moves(c), inbox' \in [Clients -> Reply \cup {Nothing}],
         shown' \in [Clients -> Blobs \cup {Nothing}],
         pin' \in [Clients -> [Keys -> {"none", "sender", "junk"}]],
         \A d \in Clients \ {c} : inbox'[d] = inbox[d] /\ shown'[d] = shown[d] /\ pin'[d] = pin[d],
         pin[c][wire_key[c].key] = "junk" => pin'[c][wire_key[c].key] = "junk",
         late \subseteq late', late' \subseteq Clients,
         alarm' \subseteq alarm \cup {c}, c \in alarm' \ alarm => AlarmOK(c)',
         \A q \in requests' : RequestOK(q), Busy(c),
         phase'[c] = "get" => Made(known'[c]) /\ known'[c].key = wire_key[c].key,
         inbox'[c] # Nothing => ReplyOK(inbox'[c]),
         shown'[c] # Nothing => Made(shown'[c]) /\ shown'[c].key = wire_key[c].key
  PROVE  HandshakeInv'
<1>1. Grows /\ Counts /\ Counts'
  BY Unchanging DEF senderVars
<1>2. ClientTypes'
  BY DEF HandshakeInv, ClientTypes, Moves
<1>3. NetworkOK'
  <2>1. \A m \in requests' : RequestOK(m)'
    BY <1>1, RequestStays
  <2>2. \A q \in replies' : ReplyOK(q)'
    BY <1>1, ReplyStays DEF HandshakeInv, NetworkOK
  <2> QED BY <2>1, <2>2 DEF NetworkOK
<1>4. CommandOK(c)'
  <2>1. Begun(wire_key[c], MyPub(c))
    BY DEF HandshakeInv, CommandOK
  <2>2. Begun(wire_key[c], MyPub(c))'
    BY <1>1, <2>1, Begins DEF MyPub
  <2>3. \A b : Made(b) => Made(b)'
    BY <1>1, StaysMade
  <2>4. \A q : ReplyOK(q) => ReplyOK(q)'
    BY <1>1, ReplyStays
  <2>5. /\ phase'[c] = "get" => Made(known[c])'
        /\ inbox'[c] # Nothing => ReplyOK(inbox[c])'
        /\ shown'[c] # Nothing => Made(shown[c])'
    BY <2>3, <2>4
  <2> QED BY <2>2, <2>5 DEF CommandOK
<1>5. ASSUME NEW d \in Clients, d # c PROVE CommandOK(d)'
  <2>1. SameCommand(d) /\ CommandOK(d)
    BY <1>5 DEF HandshakeInv, SameCommand, Moves
  <2> QED BY <1>1, <2>1, CommandStays
<1>6. \A d \in Clients : AlarmOK(d) /\ d \in alarm => AlarmOK(d)'
  <2> SUFFICES ASSUME NEW d \in Clients, AlarmOK(d) PROVE AlarmOK(d)'
    OBVIOUS
  <2>1. pin[d][wire_key[d].key] = "junk" => pin'[d][wire_key[d].key] = "junk"
    BY DEF HandshakeInv
  <2> QED BY <1>1, <2>1, AlarmStays
<1>7. \A d \in alarm' \ alarm : AlarmOK(d)'
  OBVIOUS
<1> QED BY <1>1, <1>2, <1>3, <1>4, <1>5, <1>6, <1>7, OnlyClients

LEMMA BusyKnows ==
  ASSUME HandshakeInv, NEW c \in Clients, Busy(c)
  PROVE  /\ wire_key[c] \in WireKey /\ wire_key[c].key \in Keys /\ MyPub(c) \in Pubs
         /\ Begun(wire_key[c], MyPub(c))
         /\ \A kind \in {"init", "poll", "get"} :
              /\ RequestOK(Current(c, kind)) /\ Current(c, kind).kind = kind
              /\ Current(c, kind).wire = wire_key[c]
<1>1. Begun(wire_key[c], MyPub(c))
  BY DEF HandshakeInv, CommandOK
<1>2. wire_key[c] \in WireKey /\ MyPub(c) \in Pubs
  BY <1>1 DEF Begun
<1>3. ASSUME NEW kind \in {"init", "poll", "get"}
      PROVE  /\ RequestOK(Current(c, kind)) /\ Current(c, kind).kind = kind
             /\ Current(c, kind).wire = wire_key[c]
  <2> DEFINE p == MyPub(c)
             m == [kind |-> kind, try |-> tries[c], wire |-> wire_key[c], r_pub |-> p]
  <2>1. Current(c, kind) = m
    BY DEF Current
  <2>2. p \in Pubs /\ tries[c] \in 0 .. (POLL_TRIES - 1) /\ Begun(wire_key[c], p)
    BY <1>1, <1>2 DEF HandshakeInv, ClientTypes
  <2> HIDE DEF p
  <2>3. m \in Request /\ m.kind = kind /\ m.wire = wire_key[c] /\ m.r_pub = p
    BY <1>2, <2>2 DEF Request
  <2> HIDE DEF m
  <2> QED BY <2>1, <2>2, <2>3 DEF RequestOK
<1> QED BY <1>1, <1>2, <1>3 DEF WireKey

LEMMA CommandState ==
  ASSUME HandshakeInv
  PROVE  /\ ClientTypes /\ NetworkOK /\ \A m \in requests : RequestOK(m)
         /\ \A c \in Clients : CommandOK(c)
  BY DEF HandshakeInv, NetworkOK

LEMMA SendPollKeeps ==
  ASSUME HandshakeInv, NEW c \in Clients, SendPoll(c)
  PROVE  HandshakeInv'
<1>1. /\ phase[c] = "sleep" /\ Ask(c, Current(c, "poll"))
      /\ UNCHANGED <<cacheVars, run, wire_key, tries, inbox, known, shown, pin, inits, late, alarm,
                     replies, senderVars>>
  BY DEF SendPoll
<1>2. Busy(c)
  BY <1>1 DEF Busy
<1>3. RequestOK(Current(c, "poll")) /\ Current(c, "poll").kind = "poll"
  BY <1>2, BusyKnows
<1>4. /\ phase' \in [Clients -> {"idle", "init", "sleep", "poll", "get"}]
      /\ left' \in [Clients -> Nat]
      /\ phase'[c] = "poll" /\ \A d \in Clients \ {c} : phase'[d] = phase[d]
      /\ \A q \in requests' : RequestOK(q)
  BY <1>1, <1>3, AskIs, CommandState
<1>5. Moves(c)
  BY <1>1, <1>4, CommandState DEF Moves, ClientTypes
<1>6. ClientTypes /\ CommandOK(c)
  BY CommandState
<1>7. UNCHANGED <<cacheVars, senderVars>> /\ run' = run /\ wire_key' = wire_key /\ inits' = inits
      /\ replies' = replies
  BY <1>1
<1> QED BY <1>1, <1>2, <1>4, <1>5, <1>6, <1>7, CommandStep DEF ClientTypes, CommandOK

\* The command ends or sleeps, and nothing else is learnt.
LEMMA SendFailsKeeps ==
  ASSUME HandshakeInv, NEW c \in Clients, SendFails(c)
  PROVE  HandshakeInv' /\ UNCHANGED cacheVars
<1>1. /\ phase[c] = "sleep" /\ Finish(c)
      /\ UNCHANGED <<cacheVars, run, wire_key, inbox, shown, pin, inits, late, alarm>>
      /\ requests' = requests /\ replies' = replies /\ UNCHANGED senderVars
  BY DEF SendFails, networkVars
<1>2. Busy(c) /\ Moves(c) /\ phase'[c] = "idle"
  BY <1>1, FinishIs, CommandState DEF Busy
<1>3. ClientTypes /\ CommandOK(c) /\ \A m \in requests : RequestOK(m)
  BY CommandState
<1> QED BY <1>1, <1>2, <1>3, CommandStep DEF ClientTypes, CommandOK

LEMMA TimeoutKeeps ==
  ASSUME HandshakeInv, NEW c \in Clients, Timeout(c)
  PROVE  HandshakeInv' /\ UNCHANGED cacheVars
<1>1. /\ phase[c] \in {"init", "poll", "get"} /\ (NextTry(c) \/ Finish(c))
      /\ UNCHANGED <<cacheVars, run, wire_key, inbox, shown, pin, inits, late, alarm>>
      /\ requests' = requests /\ replies' = replies /\ UNCHANGED senderVars
  BY DEF Timeout, networkVars
<1>2. Busy(c) /\ Moves(c) /\ phase'[c] \in {"sleep", "idle"}
  BY <1>1, FinishIs, NextTryIs, CommandState DEF Busy
<1>3. ClientTypes /\ CommandOK(c) /\ \A m \in requests : RequestOK(m)
  BY CommandState
<1> QED BY <1>1, <1>2, <1>3, CommandStep DEF ClientTypes, CommandOK

LEMMA InitAnsweredKeeps ==
  ASSUME HandshakeInv, NEW c \in Clients, InitAnswered(c)
  PROVE  HandshakeInv' /\ UNCHANGED cacheVars
<1>1. /\ phase[c] = "init" /\ Take(c)
      /\ (SleepFor(c) /\ UNCHANGED <<tries, known>>) \/ Finish(c)
      /\ UNCHANGED <<cacheVars, run, wire_key, shown, pin, inits, alarm>>
      /\ requests' = requests /\ replies' = replies /\ UNCHANGED senderVars
  BY DEF InitAnswered, networkVars
<1>2. Busy(c) /\ Moves(c) /\ phase'[c] \in {"sleep", "idle"}
  BY <1>1, FinishIs, SleepIs, CommandState DEF Busy
<1>3. /\ inbox' \in [Clients -> Reply \cup {Nothing}]
      /\ inbox'[c] = Nothing /\ \A d \in Clients \ {c} : inbox'[d] = inbox[d]
      /\ late \subseteq late' /\ late' \subseteq Clients
  BY <1>1, TakeIs
<1>4. ClientTypes /\ CommandOK(c) /\ \A m \in requests : RequestOK(m)
  BY CommandState
<1> QED BY <1>1, <1>2, <1>3, <1>4, CommandStep DEF ClientTypes, CommandOK

\* A response that opens was made for this key pair, so for this wire key.
LEMMA OpensIsMine ==
  ASSUME HandshakeInv, NEW c \in Clients, Busy(c), NEW r, ReplyOK(r), Opens(c, r)
  PROVE  r.val.k \in Blobs /\ Made(r.val.k) /\ r.val.k.key = wire_key[c].key
<1>1. Rightful(r.to.wire, r.val) /\ r.val.to = MyPub(c)
  BY DEF ReplyOK, Opens
<1>2. Begun(r.to.wire, MyPub(c)) /\ Begun(wire_key[c], MyPub(c))
  BY <1>1, BusyKnows DEF Rightful
<1>3. r.to.wire = wire_key[c]
  <2>1. <<r.to.wire, MyPub(c)>> \in inits /\ <<wire_key[c], MyPub(c)>> \in inits
    BY <1>2 DEF Begun
  <2>2. \A a, b \in inits : a[2] = b[2] => a[1] = b[1]
    BY DEF HandshakeInv, PairsOnce
  <2> QED BY <2>1, <2>2
<1> QED BY <1>1, <1>3 DEF Rightful, Made

\* A response to this poll that does not open: the wire key is another's too.
LEMMA PollAlarm ==
  ASSUME HandshakeInv, NEW c \in Clients, Busy(c), NEW r, ReplyOK(r), r.kind = "ready",
         r.to = Current(c, "poll"), ~Opens(c, r)
  PROVE  AlarmOK(c)
<1>1. CASE pin[c][wire_key[c].key] = "junk"
  BY <1>1 DEF AlarmOK
<1>2. CASE r.val.to # MyPub(c)
  <2>1. Begun(wire_key[c], r.val.to) /\ Begun(wire_key[c], MyPub(c))
    BY BusyKnows DEF ReplyOK, Rightful
  <2> DEFINE a == <<wire_key[c], r.val.to>>
             b == <<wire_key[c], MyPub(c)>>
  <2>2. a \in inits /\ b \in inits /\ a # b /\ a[1] = b[1]
    BY <1>2, <2>1 DEF Begun
  <2> HIDE DEF a, b
  <2>3. Collision
    BY <2>2 DEF Collision
  <2> QED BY <2>3 DEF AlarmOK
<1> QED BY <1>1, <1>2 DEF Opens

LEMMA PollAnsweredKeeps ==
  ASSUME HandshakeInv, NEW c \in Clients, PollAnswered(c)
  PROVE  HandshakeInv' /\ UNCHANGED cacheVars
<1> DEFINE r == inbox[c]
<1>1. /\ phase[c] = "poll" /\ Take(c)
      /\ UNCHANGED <<cacheVars, run, wire_key, shown, pin, inits>>
      /\ replies' = replies /\ UNCHANGED senderVars
  BY DEF PollAnswered
<1>2. Busy(c)
  BY <1>1 DEF Busy
<1>3. /\ ReplyOK(r)
      /\ inbox' \in [Clients -> Reply \cup {Nothing}]
      /\ inbox'[c] = Nothing /\ \A d \in Clients \ {c} : inbox'[d] = inbox[d]
      /\ late \subseteq late' /\ late' \subseteq Clients
      /\ c \notin late' => r.to = Current(c, "poll")
  BY <1>1, TakeIs
<1>4. ClientTypes /\ CommandOK(c) /\ \A m \in requests : RequestOK(m)
  BY CommandState
<1>5. /\ shown' \in [Clients -> Blobs \cup {Nothing}]
      /\ pin' \in [Clients -> [Keys -> {"none", "sender", "junk"}]]
      /\ \A d \in Clients \ {c} : inbox'[d] = inbox[d] /\ shown'[d] = shown[d] /\ pin'[d] = pin[d]
      /\ pin[c][wire_key[c].key] = "junk" => pin'[c][wire_key[c].key] = "junk"
      /\ inbox'[c] # Nothing => ReplyOK(inbox'[c])
      /\ shown'[c] # Nothing => Made(shown'[c]) /\ shown'[c].key = wire_key[c].key
  BY <1>1, <1>3, <1>4 DEF ClientTypes, CommandOK
<1>6. /\ Moves(c) /\ alarm' \subseteq alarm \cup {c} /\ \A q \in requests' : RequestOK(q)
      /\ phase'[c] = "get" => Made(known'[c]) /\ known'[c].key = wire_key[c].key
      /\ c \in alarm' \ alarm => r.kind = "ready" /\ ~Opens(c, r)
  <2>1. CASE r.kind \in {"wait", "full"}
    <3>1. NextTry(c) /\ alarm' = alarm /\ requests' = requests
      BY <1>1, <2>1 DEF PollAnswered
    <3>2. Moves(c) /\ phase'[c] \in {"sleep", "idle"}
      BY <1>4, <3>1, NextTryIs
    <3> QED BY <1>4, <3>1, <3>2
  <2>2. CASE r.kind \notin {"wait", "full"} /\ Opens(c, r)
    <3>1. /\ known' = [known EXCEPT ![c] = r.val.k] /\ Ask(c, Current(c, "get"))
          /\ tries' = tries /\ alarm' = alarm
      BY <2>2 DEF PollAnswered
    <3>2. r.val.k \in Blobs /\ Made(r.val.k) /\ r.val.k.key = wire_key[c].key
      BY <1>2, <1>3, <2>2, OpensIsMine
    <3>3. RequestOK(Current(c, "get")) /\ Current(c, "get").kind = "get"
      BY <1>2, BusyKnows
    <3>4. /\ phase' \in [Clients -> {"idle", "init", "sleep", "poll", "get"}]
          /\ left' \in [Clients -> Nat]
          /\ \A d \in Clients \ {c} : phase'[d] = phase[d]
          /\ \A q \in requests' : RequestOK(q)
      BY <3>1, <3>3, AskIs, CommandState
    <3>5. /\ known' \in [Clients -> Blobs \cup {Nothing}] /\ known'[c] = r.val.k
          /\ \A d \in Clients \ {c} : known'[d] = known[d]
      BY <1>4, <3>1, <3>2 DEF ClientTypes
    <3>6. Moves(c)
      BY <1>4, <3>1, <3>4, <3>5 DEF Moves, ClientTypes
    <3> QED BY <3>1, <3>2, <3>4, <3>5, <3>6
  <2>3. CASE r.kind \notin {"wait", "full"} /\ ~Opens(c, r)
    <3>1. /\ Finish(c) /\ alarm' = IF r.kind = "ready" THEN alarm \cup {c} ELSE alarm
          /\ requests' = requests
      BY <2>3 DEF PollAnswered
    <3>2. Moves(c) /\ phase'[c] = "idle"
      BY <1>4, <3>1, FinishIs
    <3> QED BY <1>4, <2>3, <3>1, <3>2
  <2> QED BY <2>1, <2>2, <2>3
<1>7. c \in alarm' \ alarm => AlarmOK(c)'
  <2> SUFFICES ASSUME c \in alarm' \ alarm PROVE AlarmOK(c)'
    OBVIOUS
  <2>1. CASE c \in late'
    BY <2>1 DEF AlarmOK
  <2>2. CASE c \notin late'
    <3>1. AlarmOK(c)
      BY <1>2, <1>3, <1>6, <2>2, PollAlarm
    <3>2. Grows /\ Counts /\ Counts'
      BY <1>1, Unchanging DEF senderVars
    <3> QED BY <1>1, <1>3, <3>1, <3>2, AlarmStays
  <2> QED BY <2>1, <2>2
<1>8. UNCHANGED <<cacheVars, senderVars>> /\ run' = run /\ wire_key' = wire_key /\ inits' = inits
      /\ replies' = replies /\ UNCHANGED cacheVars
  BY <1>1
<1> HIDE DEF r
<1>9. HandshakeInv'
  BY ONLY HandshakeInv, c \in Clients, <1>2, <1>3, <1>5, <1>6, <1>7, <1>8, CommandStep
<1> QED BY <1>8, <1>9

\* Two contents of one key: it was uploaded again.
LEMMA TwoVersions ==
  ASSUME Counts, NEW a, NEW b, Made(a), Made(b), a.key = b.key, a # b
  PROVE  \E k \in Keys : uploads[k] > 1
<1>1. a \in Blobs /\ b \in Blobs /\ a.key \in Keys
  BY DEF Made
<1>2. a.version # b.version
  BY <1>1
<1>3. a.version \in Int /\ b.version \in Int /\ a.version >= 1 /\ b.version >= 1
  BY <1>1 DEF Version
<1>4. a.version <= uploads[a.key] /\ b.version <= uploads[a.key] /\ uploads[a.key] \in Int
  BY <1>1 DEF Made, Counts
<1>5. uploads[a.key] > 1
  BY <1>2, <1>3, <1>4
<1> QED BY <1>1, <1>5

\* A content that comes for this request and is not the one expected.
LEMMA GetAlarm ==
  ASSUME HandshakeInv, NEW c \in Clients, phase[c] = "get", NEW r, ReplyOK(r),
         r.to = Current(c, "get"), NEW parses \in ParsesAsBlob(r), parses,
         ~(Verifies(c, r) /\ Pinned(c, r) = "sender")
  PROVE  AlarmOK(c)
<1>1. Busy(c)
  BY DEF Busy
<1>2. r.to.kind = "get" /\ r.to.wire = wire_key[c] /\ wire_key[c].key \in Keys
  BY <1>1, BusyKnows
<1>3. r.kind # "ready"
  BY <1>2 DEF ReplyOK
<1>4. r.kind = "blob"
  BY <1>3 DEF ParsesAsBlob
<1>5. Made(r.val) /\ r.val.key = wire_key[c].key
  BY <1>2, <1>4 DEF ReplyOK
<1>6. CASE ~Verifies(c, r)
  <2>1. Made(known[c]) /\ known[c].key = wire_key[c].key
    BY DEF HandshakeInv, CommandOK
  <2>2. r.val # known[c]
    BY <1>4, <1>6 DEF Verifies
  <2>3. \E k \in Keys : uploads[k] > 1
    <3>1. Counts
      BY DEF HandshakeInv, SenderOK, Counts
    <3> QED BY <1>5, <2>1, <2>2, <3>1, TwoVersions
  <2> QED BY <2>3 DEF AlarmOK
<1>7. CASE Pinned(c, r) # "sender"
  <2>1. pin[c][wire_key[c].key] \in {"none", "sender", "junk"}
    BY <1>2 DEF HandshakeInv, ClientTypes
  <2>2. pin[c][wire_key[c].key] = "junk"
    BY <1>4, <1>7, <2>1 DEF Pinned
  <2> QED BY <2>2 DEF AlarmOK
<1> QED BY <1>6, <1>7

LEMMA GetAnsweredKeeps ==
  ASSUME HandshakeInv, NEW c \in Clients, GetAnswered(c)
  PROVE  HandshakeInv' /\ UNCHANGED cacheVars
<1> DEFINE r == inbox[c]
<1>1. /\ phase[c] = "get" /\ Take(c) /\ Finish(c)
      /\ UNCHANGED <<cacheVars, run, wire_key, inits>>
      /\ replies' = replies /\ requests' = requests /\ UNCHANGED senderVars
  BY DEF GetAnswered, networkVars
<1>2. Busy(c)
  BY <1>1 DEF Busy
<1>3. /\ ReplyOK(r)
      /\ inbox' \in [Clients -> Reply \cup {Nothing}]
      /\ inbox'[c] = Nothing /\ \A d \in Clients \ {c} : inbox'[d] = inbox[d]
      /\ late \subseteq late' /\ late' \subseteq Clients
      /\ c \notin late' => r.to = Current(c, "get")
  BY <1>1, TakeIs
<1>4. ClientTypes /\ CommandOK(c) /\ \A m \in requests : RequestOK(m)
  BY CommandState
<1>5. Moves(c) /\ phase'[c] = "idle"
  BY <1>1, <1>4, FinishIs
<1>6. wire_key[c].key \in Keys
  BY <1>2, BusyKnows
<1>7. PICK parses \in ParsesAsBlob(r) :
        IF ~parses THEN UNCHANGED <<pin, shown, alarm>>
        ELSE /\ pin' = [pin EXCEPT ![c][wire_key[c].key] = Pinned(c, r)]
             /\ IF Verifies(c, r) /\ Pinned(c, r) = "sender"
                  THEN shown' = [shown EXCEPT ![c] = r.val] /\ UNCHANGED alarm
                  ELSE alarm' = alarm \cup {c} /\ UNCHANGED shown
  BY DEF GetAnswered
<1>8. /\ pin' \in [Clients -> [Keys -> {"none", "sender", "junk"}]]
      /\ \A d \in Clients \ {c} : pin'[d] = pin[d]
      /\ pin[c][wire_key[c].key] = "junk" => pin'[c][wire_key[c].key] = "junk"
  <2>1. CASE ~parses
    BY <1>4, <1>7, <2>1 DEF ClientTypes
  <2>2. CASE parses
    <3>1. pin' = [pin EXCEPT ![c] = [pin[c] EXCEPT ![wire_key[c].key] = Pinned(c, r)]]
      BY <1>4, <1>7, <2>2 DEF ClientTypes
    <3>2. /\ Pinned(c, r) \in {"none", "sender", "junk"}
          /\ pin[c][wire_key[c].key] = "junk" => Pinned(c, r) = "junk"
      BY <1>4, <1>6 DEF Pinned, ClientTypes
    <3> QED BY <1>4, <1>6, <3>1, <3>2 DEF ClientTypes
  <2> QED BY <2>1, <2>2
<1>9. /\ shown' \in [Clients -> Blobs \cup {Nothing}]
      /\ \A d \in Clients \ {c} : shown'[d] = shown[d]
      /\ shown'[c] # Nothing => Made(shown'[c]) /\ shown'[c].key = wire_key[c].key
  <2>1. CASE shown' = shown
    BY <1>4, <2>1 DEF ClientTypes, CommandOK
  <2>2. CASE shown' # shown
    <3>1. Verifies(c, r) /\ shown' = [shown EXCEPT ![c] = r.val]
      BY <1>7, <2>2
    <3>2. r.val = known[c] /\ Made(known[c]) /\ known[c].key = wire_key[c].key
      BY <1>1, <1>4, <3>1 DEF Verifies, CommandOK
    <3>3. r.val \in Blobs
      BY <3>2 DEF Made
    <3> QED BY <1>4, <3>1, <3>2, <3>3 DEF ClientTypes
  <2> QED BY <2>1, <2>2
<1>10. /\ alarm' \subseteq alarm \cup {c}
       /\ c \in alarm' \ alarm => parses /\ ~(Verifies(c, r) /\ Pinned(c, r) = "sender")
  BY <1>7
<1>11. c \in alarm' \ alarm => AlarmOK(c)'
  <2> SUFFICES ASSUME c \in alarm' \ alarm PROVE AlarmOK(c)'
    OBVIOUS
  <2>1. CASE c \in late'
    BY <2>1 DEF AlarmOK
  <2>2. CASE c \notin late'
    <3>1. AlarmOK(c)
      BY <1>1, <1>3, <1>7, <1>10, <2>2, GetAlarm
    <3>2. Grows /\ Counts /\ Counts'
      BY <1>1, Unchanging DEF senderVars
    <3> QED BY <1>1, <1>3, <1>8, <3>1, <3>2, AlarmStays
  <2> QED BY <2>1, <2>2
<1>12. UNCHANGED <<cacheVars, senderVars>> /\ run' = run /\ wire_key' = wire_key /\ inits' = inits
       /\ replies' = replies /\ UNCHANGED cacheVars /\ \A q \in requests' : RequestOK(q)
  BY <1>1, <1>4
<1>13. /\ phase'[c] = "get" => Made(known'[c]) /\ known'[c].key = wire_key[c].key
       /\ inbox'[c] # Nothing => ReplyOK(inbox'[c])
       /\ \A d \in Clients \ {c} : inbox'[d] = inbox[d] /\ shown'[d] = shown[d] /\ pin'[d] = pin[d]
  BY <1>3, <1>5, <1>8, <1>9
<1> HIDE DEF r
<1>14. HandshakeInv'
  BY ONLY HandshakeInv, c \in Clients, <1>2, <1>3, <1>5, <1>8, <1>9, <1>10, <1>11, <1>12, <1>13,
          CommandStep
<1> QED BY <1>12, <1>14

\* A new command: its key pair was in no handshake before.
LEMMA StartGetKeeps ==
  ASSUME HandshakeInv, NEW c \in Clients, NEW k \in Keys, StartGet(c, k)
  PROVE  HandshakeInv' /\ UNCHANGED cacheVars
<1>0. PICK p : p = [client |-> c, run |-> run[c] + 1]
  OBVIOUS
<1>1. /\ phase[c] = "idle" /\ run[c] < MaxRuns
      /\ run' = [run EXCEPT ![c] = run[c] + 1]
      /\ tries' = [tries EXCEPT ![c] = 0]
      /\ known' = [known EXCEPT ![c] = Nothing] /\ shown' = [shown EXCEPT ![c] = Nothing]
      /\ late' = late \ {c} /\ alarm' = alarm \ {c}
      /\ UNCHANGED <<cacheVars, inbox, pin, replies, senderVars>>
  BY DEF StartGet
<1>2. PICK x \in Suffixes :
        /\ wire_key' = [wire_key EXCEPT ![c] = [key |-> k, suffix |-> x]]
        /\ inits' = inits \cup {<<[key |-> k, suffix |-> x], p>>}
        /\ Ask(c, [kind |-> "init", try |-> 0, wire |-> [key |-> k, suffix |-> x], r_pub |-> p])
  BY <1>0 DEF StartGet
<1> DEFINE w == [key |-> k, suffix |-> x]
           m == [kind |-> "init", try |-> 0, wire |-> w, r_pub |-> p]
<1>3. ClientTypes /\ NetworkOK /\ CommandOK(c) /\ PairsOnce
  BY CommandState DEF HandshakeInv
<1>4. p \in Pubs /\ p.client = c /\ p.run = run[c] + 1 /\ w \in WireKey /\ run[c] \in Nat
      /\ run[c] + 1 \in 0 .. MaxRuns
  BY <1>0, <1>1, <1>3 DEF WireKey, ClientTypes
<1>5. MyPub(c)' = p
  BY <1>0, <1>1, <1>3 DEF MyPub, ClientTypes
<1>6. Grows /\ Counts /\ Counts'
  <2>1. Counts
    BY DEF HandshakeInv, SenderOK, Counts
  <2>2. uploads' = uploads
    BY <1>1 DEF senderVars
  <2>3. \A j \in Keys : uploads[j] \in Int
    BY <2>1 DEF Counts
  <2> QED BY <1>2, <2>1, <2>2, <2>3 DEF Grows, Counts
<1> HIDE DEF w
<1>7. Begun(w, p)'
  BY <1>2, <1>4 DEF Begun, w
<1>8. m \in Request /\ m.kind = "init" /\ m.wire = w /\ m.r_pub = p
  BY <1>4 DEF Request
<1> HIDE DEF m
<1>9. /\ phase' \in [Clients -> {"idle", "init", "sleep", "poll", "get"}]
      /\ left' \in [Clients -> Nat] /\ requests' \subseteq requests \cup {m}
      /\ phase'[c] = "init" /\ \A d \in Clients \ {c} : phase'[d] = phase[d]
  <2>1. Ask(c, m)
    BY <1>2 DEF m, w
  <2> QED BY <1>3, <1>8, <2>1 DEF Ask, ClientTypes
<1>10. ClientTypes'
  <2>1. run' \in [Clients -> 0 .. MaxRuns]
    BY <1>1, <1>3, <1>4 DEF ClientTypes
  <2>2. wire_key' \in [Clients -> WireKey \cup {Nothing}]
    BY <1>2, <1>3, <1>4 DEF ClientTypes, w
  <2>3. /\ tries' \in [Clients -> 0 .. (POLL_TRIES - 1)]
        /\ known' \in [Clients -> Blobs \cup {Nothing}] /\ shown' \in [Clients -> Blobs \cup {Nothing}]
    BY <1>1, <1>3 DEF ClientTypes
  <2> QED BY <1>1, <1>3, <1>9, <2>1, <2>2, <2>3 DEF ClientTypes
<1>11. PairsOnce'
  <2>1. inits' = inits \cup {<<w, p>>}
    BY <1>2 DEF w
  <2>2. inits' \subseteq WireKey \X Pubs
    BY <1>3, <1>4, <2>1 DEF PairsOnce
  <2>3. \A a \in inits : a[2] \in Pubs /\ a[2].client \in Clients /\ a[2].run \in Int
                         /\ a[2].run <= run[a[2].client]
    BY <1>3 DEF PairsOnce
  <2>4. \A d \in Clients : run[d] \in Int /\ run'[d] = IF d = c THEN run[c] + 1 ELSE run[d]
    BY <1>1, <1>3 DEF ClientTypes
  <2>5. \A a \in inits' : a[2].run <= run'[a[2].client]
    <3>1. \A a \in inits : a[2].run <= run'[a[2].client]
      BY <2>3, <2>4
    <3>2. <<w, p>>[2] = p /\ p.run <= run'[p.client]
      BY <1>4, <2>4
    <3> QED BY <2>1, <3>1, <3>2
  <2>6. \A a \in inits : a[2] # p
    BY <1>4, <2>3
  <2>7. \A a, b \in inits' : a[2] = b[2] => a[1] = b[1]
    <3>1. \A a, b \in inits : a[2] = b[2] => a[1] = b[1]
      BY <1>3 DEF PairsOnce
    <3> QED BY <2>1, <2>6, <3>1
  <2> QED BY <2>2, <2>5, <2>7 DEF PairsOnce
<1>12. NetworkOK'
  <2>1. \A q \in requests : RequestOK(q)'
    BY <1>3, <1>6, RequestStays DEF NetworkOK
  <2>2. ASSUME NEW q, q = m PROVE RequestOK(q)'
    BY <1>7, <1>8, <2>2 DEF RequestOK
  <2>3. \A q \in requests' : RequestOK(q)'
    BY <1>9, <2>1, <2>2
  <2>4. \A q \in replies' : ReplyOK(q)'
    BY <1>1, <1>3, <1>6, ReplyStays DEF NetworkOK
  <2> QED BY <2>3, <2>4 DEF NetworkOK
<1>13. CacheOK' /\ TablesOK' /\ SenderOK'
  BY <1>1, <1>6, TablesStay, SenderStays
<1>14. \A d \in Clients : CommandOK(d)'
  <2>1. ASSUME NEW d \in Clients, d # c PROVE CommandOK(d)'
    <3>1. SameCommand(d) /\ CommandOK(d)
      BY <1>1, <1>2, <1>3, <1>9, <2>1 DEF SameCommand, ClientTypes, HandshakeInv
    <3> QED BY <1>6, <3>1, CommandStays
  <2>2. CommandOK(c)'
    <3>1. wire_key'[c] = w /\ shown'[c] = Nothing /\ inbox'[c] = inbox[c] /\ phase'[c] = "init"
      BY <1>1, <1>2, <1>3, <1>9 DEF ClientTypes, w
    <3>2. Begun(wire_key[c], MyPub(c))'
      BY <1>5, <1>7, <3>1 DEF Begun
    <3>3. inbox'[c] # Nothing => ReplyOK(inbox[c])'
      <4>1. \A q : ReplyOK(q) => ReplyOK(q)'
        BY <1>6, ReplyStays
      <4>2. inbox[c] # Nothing => ReplyOK(inbox[c])
        BY <1>3 DEF CommandOK
      <4> QED BY <3>1, <4>1, <4>2
    <3> QED BY <3>1, <3>2, <3>3 DEF CommandOK
  <2> QED BY <2>1, <2>2
<1>15. AlarmsExplained'
  <2>1. ASSUME NEW d \in alarm' PROVE AlarmOK(d)'
    <3>1. d \in alarm /\ d \in Clients /\ d # c /\ AlarmOK(d)
      BY <1>1, <1>3, Alarms DEF HandshakeInv, ClientTypes
    <3>2. wire_key'[d] = wire_key[d] /\ pin' = pin /\ (d \in late => d \in late')
      BY <1>1, <1>2, <1>3, <3>1 DEF ClientTypes
    <3> QED BY <1>6, <3>1, <3>2, AlarmStays
  <2> QED BY <2>1, AlarmsNext
<1> QED BY <1>1, <1>10, <1>11, <1>12, <1>13, <1>14, <1>15 DEF HandshakeInv

-----------------------------------------------------------------------------
(* The theorems                                                            *)

LEMMA InitHolds == Init => HandshakeInv /\ Contract!Init
<1> SUFFICES ASSUME Init PROVE HandshakeInv /\ Contract!Init
  OBVIOUS
<1>1. CacheInit /\ CacheOK
  BY CacheInitOK DEF Init
<1>2. \A c \in Clients : phase[c] = "idle" /\ inbox[c] = Nothing /\ shown[c] = Nothing
  BY DEF Init
<1>3. ClientTypes
  <2>1. 0 \in 0 .. (POLL_TRIES - 1) /\ 0 \in 0 .. MaxRuns
    BY DEF Version
  <2> QED BY <2>1 DEF Init, ClientTypes
<1>4. PairsOnce /\ NetworkOK /\ AlarmsExplained
  BY DEF Init, PairsOnce, NetworkOK, AlarmsExplained
<1>5. TablesOK
  BY <1>1, UnusedIs DEF CacheInit, TablesOK
<1>6. SenderOK
  BY DEF Init, SenderOK
<1>7. \A c \in Clients : CommandOK(c)
  BY <1>2 DEF CommandOK, Busy
<1>8. Contract!Init
  <2>1. \A i \in PSlots : ~pending[i].in_use
    BY <1>1, UnusedIs DEF CacheInit
  <2>2. \A w \in WireKey : BoxIn(pending, w) = Nothing
    BY <1>1, <2>1, BoxIs DEF CacheOK
  <2>3. Mailbox = [w \in WireKey |-> Nothing]
    BY <2>2, FindNow
  <2> QED BY <1>1, <2>3 DEF Contract!Init, Contents, CacheInit
<1> QED BY <1>1, <1>3, <1>4, <1>5, <1>6, <1>7, <1>8 DEF HandshakeInv

LEMMA TablesAlone ==
  UNCHANGED cacheVars => UNCHANGED <<Contents, Mailbox>>
  BY FindNow DEF cacheVars, Contents

\* Every step keeps the invariant, and is a step of the contract or none.
LEMMA StepHolds ==
  HandshakeInv /\ [Next]_vars => HandshakeInv' /\ [Contract!Next]_<<Contents, Mailbox>>
<1> SUFFICES ASSUME HandshakeInv, [Next]_vars
             PROVE  HandshakeInv' /\ [Contract!Next]_<<Contents, Mailbox>>
  OBVIOUS
<1>1. ASSUME NEW c \in Clients, NEW k \in Keys, StartGet(c, k)
      PROVE  HandshakeInv' /\ UNCHANGED cacheVars
  BY <1>1, StartGetKeeps
<1>2. ASSUME NEW c \in Clients, ClientStep(c)
      PROVE  HandshakeInv' /\ UNCHANGED cacheVars
  <2>1. CASE SendPoll(c)
    BY <2>1, SendPollKeeps DEF SendPoll
  <2>2. CASE SendFails(c)
    BY <2>2, SendFailsKeeps
  <2>3. CASE Timeout(c)
    BY <2>3, TimeoutKeeps
  <2>4. CASE InitAnswered(c)
    BY <2>4, InitAnsweredKeeps
  <2>5. CASE PollAnswered(c)
    BY <2>5, PollAnsweredKeeps
  <2>6. CASE GetAnswered(c)
    BY <2>6, GetAnsweredKeeps
  <2> QED BY <1>2, <2>1, <2>2, <2>3, <2>4, <2>5, <2>6 DEF ClientStep
<1>3. ASSUME NEW r \in replies, Deliver(r) PROVE HandshakeInv' /\ UNCHANGED cacheVars
  BY <1>3, DeliverKeeps
<1>4. ASSUME NEW m \in requests, Serve(m)
      PROVE  HandshakeInv' /\ [Contract!Next]_<<Contents, Mailbox>>
  BY <1>4, ServeKeeps
<1>5. ASSUME NEW u \in puts, ServePut(u)
      PROVE  HandshakeInv' /\ [Contract!Next]_<<Contents, Mailbox>>
  BY <1>5, ServePutKeeps
<1>6. ASSUME NEW a \in responds, ServeRespond(a)
      PROVE  HandshakeInv' /\ [Contract!Next]_<<Contents, Mailbox>>
  BY <1>6, ServeRespondKeeps
<1>7. ASSUME NEW k \in Keys, upload_content(k) PROVE HandshakeInv' /\ UNCHANGED cacheVars
  BY <1>7, UploadKeeps
<1>8. CASE heartbeat_thread
  BY <1>8, HeartbeatKeeps, TablesAlone
<1>9. ASSUME NEW e \in work, respond_worker(e) PROVE HandshakeInv' /\ UNCHANGED cacheVars
  BY <1>9, WorkerKeeps
<1>10. CASE Tick
  BY <1>10, TickKeeps
<1>11. CASE UNCHANGED vars
  <2>1. UNCHANGED <<cacheVars, clientVars, networkVars, senderVars>>
    BY <1>11 DEF vars
  <2>2. Grows /\ Counts'
    BY <2>1, Unchanging DEF clientVars, senderVars
  <2>3. HandshakeInv'
    BY <2>1, <2>2, ClientsStay, NetworkStays, TablesStay, SenderStays DEF HandshakeInv
  <2> QED BY <2>1, <2>3, TablesAlone
<1> QED BY <1>1, <1>2, <1>3, <1>4, <1>5, <1>6, <1>7, <1>8, <1>9, <1>10, <1>11, TablesAlone DEF Next

LEMMA InvImplies == HandshakeInv => TypeOK /\ ShownWasAskedFor /\ AlarmsExplained
<1> SUFFICES ASSUME HandshakeInv PROVE TypeOK /\ ShownWasAskedFor /\ AlarmsExplained
  OBVIOUS
<1>1. CacheTypeOK
  BY DEF HandshakeInv, CacheOK, TableOK, CacheTypeOK
<1>2. requests \subseteq Request /\ replies \subseteq Reply
  BY DEF HandshakeInv, NetworkOK, RequestOK, ReplyOK
<1>3. /\ owned \in [Keys -> 0 .. MaxUploads] /\ uploads \in [Keys -> 0 .. MaxUploads]
      /\ puts \subseteq Blobs /\ responds \subseteq [wire : WireKey, resp : Responses]
      /\ work \subseteq [wire : WireKey, r_pub : Pubs]
  BY DEF HandshakeInv, SenderOK, Made
<1>4. inits \subseteq WireKey \X Pubs
  BY DEF HandshakeInv, PairsOnce
<1>5. TypeOK
  BY <1>1, <1>2, <1>3, <1>4 DEF HandshakeInv, ClientTypes, TypeOK
<1>6. ShownWasAskedFor
  <2> SUFFICES ASSUME NEW c \in Clients, shown[c] # Nothing
               PROVE  shown[c].key = wire_key[c].key /\ shown[c].version \in 1 .. uploads[shown[c].key]
    BY DEF ShownWasAskedFor
  <2>1. Made(shown[c]) /\ shown[c].key = wire_key[c].key
    BY DEF HandshakeInv, CommandOK
  <2>2. shown[c].key \in Keys /\ shown[c].version \in Version
        /\ shown[c].version <= uploads[shown[c].key]
    BY <2>1 DEF Made
  <2>3. uploads[shown[c].key] \in Int
    BY <1>3, <2>2
  <2> QED BY <2>1, <2>2, <2>3 DEF Version
<1> QED BY <1>5, <1>6 DEF HandshakeInv

\* The invariant holds in every state.
THEOREM InvHolds == Spec => []HandshakeInv
<1>1. Init => HandshakeInv
  BY InitHolds
<1>2. HandshakeInv /\ [Next]_vars => HandshakeInv'
  BY StepHolds
<1> QED BY <1>1, <1>2, PTL DEF Spec

\* Every variable keeps its type, g_store never holds more than MAX_ENTRIES
\* contents and the pending table keeps its slots (cache_server.c,
\* client.c, sender.c).
THEOREM TypeCorrect == Spec => []TypeOK
<1>1. HandshakeInv => TypeOK
  BY InvImplies
<1> QED BY <1>1, InvHolds, PTL

\* What a GET displays is an upload of the key it was asked for, whatever
\* replies and responses were late or meant for another request
\* (perform_content_handshake(), verify_signed_content()).
THEOREM ShownWasAskedForHolds == Spec => []ShownWasAskedFor
<1>1. HandshakeInv => ShownWasAskedFor
  BY InvImplies
<1> QED BY <1>1, InvHolds, PTL

\* A client reports tampering only after a reply to an earlier request was
\* taken for the answer, two handshakes had one wire key, a response was
\* pinned as a sender's identity, or a key was uploaded again (the GET
\* command of client.c).
THEOREM AlarmsExplainedHolds == Spec => []AlarmsExplained
<1>1. HandshakeInv => AlarmsExplained
  BY InvImplies
<1> QED BY <1>1, InvHolds, PTL

\* The table of pending handshakes, with its slots, its reuse of stale ones
\* and its clock, is a mailbox per wire key (store_put() and the HANDSHAKE
\* branches of handle_connection()).
THEOREM CacheImplementsContract == Spec => ImplementsContract
<1>1. Init => Contract!Init
  BY InitHolds
<1>2. HandshakeInv /\ [Next]_vars => [Contract!Next]_<<Contents, Mailbox>>
  BY StepHolds
<1> QED BY <1>1, <1>2, InvHolds, PTL DEF Spec, ImplementsContract, Contract!Spec
============================================================================
