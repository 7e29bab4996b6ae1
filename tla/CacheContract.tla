--------------------------- MODULE CacheContract ---------------------------
(***************************************************************************)
(* What the cache server promises, with no tables: a map of contents, and  *)
(* a mailbox per wire key in which one receiver leaves its public key, the *)
(* sender leaves one response, and the response is collected once.         *)
(***************************************************************************)
CONSTANTS Keys, WireKey, Blobs, Pubs, Responses, Nothing

VARIABLES contents, mailbox

Init ==
  /\ contents = [k \in Keys |-> Nothing]
  /\ mailbox  = [w \in WireKey |-> Nothing]

Put ==
  /\ \E k \in Keys, b \in Blobs : contents' = [contents EXCEPT ![k] = b]
  /\ UNCHANGED mailbox

\* A new request is registered; at most one other may be forgotten for it.
Register ==
  /\ LET box == mailbox IN
     \E w \in WireKey, p \in Pubs : \E gone \in {{}} \cup {{v} : v \in WireKey \ {w}} :
       mailbox' = [v \in WireKey |-> IF v = w THEN [r_pub |-> p, resp |-> Nothing]
                                     ELSE IF v \in gone THEN Nothing ELSE box[v]]
  /\ UNCHANGED contents

\* A later response replaces an earlier one.
Answer ==
  /\ LET box == mailbox IN
     \E w \in {v \in WireKey : box[v] # Nothing}, r \in Responses :
       mailbox' = [box EXCEPT ![w] = [r_pub |-> box[w].r_pub, resp |-> r]]
  /\ UNCHANGED contents

\* Only a mailbox that has a response is emptied, and for good.
Collect ==
  /\ LET box == mailbox IN
     \E w \in {v \in WireKey : box[v] # Nothing} :
       box[w].resp # Nothing /\ mailbox' = [box EXCEPT ![w] = Nothing]
  /\ UNCHANGED contents

Next == Put \/ Register \/ Answer \/ Collect

Spec == Init /\ [][Next]_<<contents, mailbox>>
=============================================================================
