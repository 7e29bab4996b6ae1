----------------------------- MODULE MCMixNode -----------------------------
(* Instances of MixNode for TLC. *)
EXTENDS MixNode, TLC

CONSTANTS MaxReal, MaxCover     \* bounds: packets sent per session and domain

MCMaxSent == [d \in Domain |-> IF d = "real" THEN MaxReal ELSE MaxCover]

ThreadSymmetry == Permutations(Threads)
=============================================================================
