------------------------- MODULE MC_CycleLiveness --------------------------
(***************************************************************************)
(* Liveness of the profile cycle on a single pass.  lathe_cycle_advance()  *)
(* is left out: it cannot change what a single pass does, and doubles the  *)
(* graph.                                                                  *)
(***************************************************************************)
EXTENDS Cycle

MCNext == Next /\ ~advance'

MCSpec == Init /\ [][MCNext]_vars /\ Fairness
============================================================================
