----------------------------- MODULE HintWindow -----------------------------
(***************************************************************************)
(* The rotating per-hop hint window of src/ASN/mix_node/mix_node.c.        *)
(*                                                                         *)
(* Every packet of a session carries HMAC(hint_seed, counter).  A mix node *)
(* precomputes the hints of HINT_WINDOW consecutive counters per session   *)
(* and per counter domain, and slides the window as packets match.  A hint *)
(* is modelled by the counter it was derived from: two hints of one seed   *)
(* are equal exactly when their counters are.                              *)
(***************************************************************************)
EXTENDS Integers

CONSTANTS
  HINT_WINDOW,              \* width of the window, 64 in config.h
  HINT_SAFETY_MARGIN,       \* distance kept behind the high water, 32 in config.h
  HINT_COVER_COUNTER_BASE   \* first counter of the cover domain, 2^62 in config.h

ASSUME HintAssumption ==
  /\ HINT_WINDOW \in Nat \ {0}
  /\ HINT_SAFETY_MARGIN \in 1 .. HINT_WINDOW
  /\ HINT_COVER_COUNTER_BASE \in Nat

\* hint_base[0] and hint_base[1]: the real and the cover counters.
Domain == {"real", "cover"}

FirstCounter(d) == IF d = "real" THEN 0 ELSE HINT_COVER_COUNTER_BASE

\* UINT64_MAX in hint_high_water: nothing matched yet.
NothingMatched == -1

HintState == [base : [Domain -> Nat], high : [Domain -> Nat \cup {NothingMatched}]]

\* A slot that memset() left zeroed.
ZeroedHints == [base |-> [d \in Domain |-> 0], high |-> [d \in Domain |-> 0]]

session_init_hint_window ==
  [base |-> [d \in Domain |-> FirstCounter(d)],
   high |-> [d \in Domain |-> NothingMatched]]

\* Is the hint of counter c among the precomputed ones of domain d?
InWindow(h, d, c) == c \in h.base[d] .. (h.base[d] + HINT_WINDOW - 1)

\* Faulty: the window slides to just past whatever matched.
DesiredBaseNoMargin(high) == high + 1

\* Faulty: off by one, the window stays one further behind.
DesiredBaseBehind(high) ==
  IF high >= HINT_SAFETY_MARGIN THEN high - HINT_SAFETY_MARGIN ELSE 0

\* The position the window is to be slid to for a given high water mark.
DesiredBase(high) ==
  IF high >= HINT_SAFETY_MARGIN THEN high - HINT_SAFETY_MARGIN + 1 ELSE 0

\* Faulty: the high water mark follows the last match, not the highest.
AdvanceToLast(h, d, consumed_through) ==
  LET high == h.base[d] + consumed_through
      base == IF DesiredBase(high) <= h.base[d] THEN h.base[d] ELSE DesiredBase(high)
  IN  [base |-> [h.base EXCEPT ![d] = base], high |-> [h.high EXCEPT ![d] = high]]

\* The window after offset consumed_through of domain d has matched.  The
\* offset is applied to the base the window has at the time of the call.
session_advance_hint_window(h, d, consumed_through) ==
  LET matched == h.base[d] + consumed_through
      high    == IF h.high[d] = NothingMatched \/ matched > h.high[d]
                   THEN matched
                   ELSE h.high[d]
      base    == IF DesiredBase(high) <= h.base[d]
                   THEN h.base[d]
                   ELSE DesiredBase(high)
  IN  [base |-> [h.base EXCEPT ![d] = base],
       high |-> [h.high EXCEPT ![d] = high]]
=============================================================================
