-------------------------- MODULE CycleRefinement --------------------------
(***************************************************************************)
(* The profile cycle implements its contract: commands, interruptions and  *)
(* resets are stuttering steps of CycleContract.                           *)
(***************************************************************************)
EXTENDS Cycle

Whole == c.pass < Passes /\ cutTo = Endpoint(c.pass)

Phase == IF ~active THEN "off" ELSE IF pending THEN "asked" ELSE "working"

Contract == INSTANCE CycleContract
    WITH Starts <- PlanStarts, phase <- Phase,
         pass <- c.pass, start <- c.start, whole <- Whole

\* Every behaviour of the cycle is one its contract allows: starts and depths
\* in order, each fully cut before the next, a skip never drops the last.
KeepsContract == Contract!Spec
============================================================================
