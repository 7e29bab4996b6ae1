-------------------------- MODULE MCServiceGateway --------------------------
(* Instances of ServiceGateway for TLC. *)
EXTENDS ServiceGateway, TLC

CONSTANTS a1, b1, b2

OneClient  == a1 :> b1

ThreadSymmetry == Permutations(Threads)
=============================================================================
