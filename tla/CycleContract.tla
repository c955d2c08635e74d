--------------------------- MODULE CycleContract ---------------------------
(***************************************************************************)
(* What a profile cycle promises to the operator, without its commands,    *)
(* stages, resets or spindle: the starts of a depth are cut one after      *)
(* another, each one to its end, a requested skip drops one whole depth    *)
(* but never the last, and the operation ends either with everything cut   *)
(* or because it was stopped.  OPERATIONS.md, Interaction and cancellation.*)
(***************************************************************************)
EXTENDS Integers

CONSTANTS Passes, Starts

VARIABLES
    phase,  \* "off", "asked" for, or "working"
    pass,   \* depth being cut; Passes when every depth has been
    start,  \* start being cut at that depth
    whole   \* this start is cut to its end

vars == <<phase, pass, start, whole>>

Uncut == pass' = 0 /\ start' = 0 /\ whole' = FALSE

Init == phase = "off" /\ pass = 0 /\ start = 0 /\ whole = FALSE

Ask == phase = "off" /\ phase' = "asked" /\ UNCHANGED <<pass, start, whole>>

\* A new operation starts from the first depth whatever the last one left,
\* or is refused.
Begin == phase = "asked" /\ Uncut /\ phase' \in {"working", "off"}

CutToEnd ==
    /\ phase = "working" /\ ~whole /\ pass < Passes
    /\ whole' = TRUE
    /\ UNCHANGED <<phase, pass, start>>

NextStart ==
    /\ phase = "working" /\ whole /\ start + 1 < Starts
    /\ start' = start + 1 /\ whole' = FALSE
    /\ UNCHANGED <<phase, pass>>

NextPass ==
    /\ phase = "working" /\ whole /\ start + 1 = Starts
    /\ pass' = pass + 1 \/ (pass' = pass + 2 /\ pass' < Passes)
    /\ start' = 0 /\ whole' = FALSE
    /\ UNCHANGED phase

\* Stopped or faulted at any point, or complete.
End == phase # "off" /\ phase' = "off" /\ whole' = FALSE /\ UNCHANGED <<pass, start>>

Next == Ask \/ Begin \/ CutToEnd \/ NextStart \/ NextPass \/ End

Spec == Init /\ [][Next]_vars
============================================================================
