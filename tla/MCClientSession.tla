--------------------------- MODULE MCClientSession ---------------------------
(* An instance of ClientSession for TLC: two legs of weights 2 and 1.        *)
EXTENDS ClientSession

MCWeights == [l \in 0 .. 1 |-> 2 - l]
=============================================================================
