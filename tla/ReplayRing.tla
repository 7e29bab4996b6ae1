----------------------------- MODULE ReplayRing -----------------------------
(***************************************************************************)
(* The bounded replay cache of a mix-node session: seen_nonces, seen_count *)
(* and seen_next of session_entry_t in src/ASN/mix_node/mix_node.c, a ring *)
(* of the last REPLAY_WINDOW nonces that were let through.                 *)
(***************************************************************************)
EXTENDS Integers

CONSTANT REPLAY_WINDOW      \* capacity of the ring, 1024 in mix_node.c

ASSUME ReplayAssumption == REPLAY_WINDOW \in Nat \ {0}

RingPos == 0 .. (REPLAY_WINDOW - 1)

\* What a ring position holds before anything was recorded in it.
NoNonce == [sess |-> "none"]

Ring(Nonces) ==
  [nonces : [RingPos -> Nonces \cup {NoNonce}],
   count  : 0 .. REPLAY_WINDOW,
   next   : RingPos]

EmptyRing == [nonces |-> [k \in RingPos |-> NoNonce], count |-> 0, next |-> 0]

\* Faulty: the scan stops one entry short.
HoldsButLast(r, n) == \E k \in 0 .. (r.count - 2) : r.nonces[k] = n

\* The memcmp scan over the first seen_count entries.
Holds(r, n) == \E k \in 0 .. (r.count - 1) : r.nonces[k] = n

\* Faulty: the cursor runs past the end of the array.
RecordUnwrapped(r, n) ==
  [nonces |-> [r.nonces EXCEPT ![r.next] = n],
   count  |-> IF r.count < REPLAY_WINDOW THEN r.count + 1 ELSE r.count,
   next   |-> IF r.next < REPLAY_WINDOW THEN r.next + 1 ELSE r.next]

\* Faulty: the last entry of the array is never scanned.
RecordShort(r, n) ==
  [nonces |-> [r.nonces EXCEPT ![r.next] = n],
   count  |-> IF r.count < REPLAY_WINDOW - 1 THEN r.count + 1 ELSE r.count,
   next   |-> (r.next + 1) % REPLAY_WINDOW]

Record(r, n) ==
  [nonces |-> [r.nonces EXCEPT ![r.next] = n],
   count  |-> IF r.count < REPLAY_WINDOW THEN r.count + 1 ELSE r.count,
   next   |-> (r.next + 1) % REPLAY_WINDOW]
=============================================================================
