----------------------------- MODULE MCTelescope -----------------------------
(* An instance of Telescope for TLC: two programs whose paths meet in a mix  *)
(* node and in the gateway.  The longer path has a hop that only copies.     *)
EXTENDS Telescope

CONSTANTS m1, m2, sg, client1, sender1

MCRoutes == [p \in Processes |-> IF p = client1 THEN <<<<m1, m2, sg>>>> ELSE <<<<m2, sg>>>>]
=============================================================================
