---------------------------- MODULE ReplayFilter ----------------------------
(***************************************************************************)
(* What a mix node's session table promises to the rest of the network,    *)
(* with no rings, hints, generations or threads: each slot is held by one  *)
(* session at a time, lets through only packets of its holder, and never   *)
(* one that is among the last REPLAY_WINDOW it let through.                *)
(***************************************************************************)
EXTENDS Integers, Sequences

CONSTANTS Slots, Mode, Sessions, NoSession, REPLAY_WINDOW

VARIABLES holder, passed

Recent(L) == {L[k] : k \in {j \in 1 .. Len(L) : Len(L) - j < REPLAY_WINDOW}}

Init ==
  /\ holder = [i \in Slots |-> NoSession]
  /\ passed = [i \in Slots |-> [m \in Mode |-> <<>>]]

\* The slot is given to a new session and forgets what the old one sent.
Assign(i, s) ==
  /\ holder' = [holder EXCEPT ![i] = s]
  /\ passed' = [passed EXCEPT ![i] = [m \in Mode |-> <<>>]]

\* One more packet is let through, of any nonce the holder has not used
\* recently.
Pass(i, m) ==
  /\ Len(passed'[i][m]) = Len(passed[i][m]) + 1
  /\ LET n == passed'[i][m][Len(passed'[i][m])] IN
       /\ n.sess = holder[i]
       /\ n \notin Recent(passed[i][m])
       /\ passed' = [passed EXCEPT ![i][m] = Append(@, n)]
  /\ UNCHANGED holder

Next ==
  \/ \E i \in Slots, s \in Sessions \cup {NoSession} : Assign(i, s)
  \/ \E i \in Slots, m \in Mode : Pass(i, m)

Spec == Init /\ [][Next]_<<holder, passed>>
=============================================================================
