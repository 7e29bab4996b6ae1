------------------------------ MODULE MCNodePool ------------------------------
(* An instance of NodePool for TLC: two processes of one directory.          *)
EXTENDS NodePool, TLC

MCSymmetry == Permutations(Processes)
=============================================================================
