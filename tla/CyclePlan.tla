----------------------------- MODULE CyclePlan -----------------------------
(***************************************************************************)
(* The geometry a profile cycle works from: lathe_cycle_plan() and the     *)
(* helpers of components/lathe_ui/cycle_plan.c.                            *)
(*                                                                         *)
(* Positions are integers in a cycle frame, one per axis: the cutting axis *)
(* counts from cut_start towards cut_end, the depth axis from the          *)
(* clearance into the work.  A unit is one planned depth increment or one  *)
(* station of the cut, so every quotient of the code is exact here; the    *)
(* sign of `direction` and the choice of X or Z are absorbed by the frame. *)
(***************************************************************************)
EXTENDS Integers

CONSTANTS
    Operation,  \* one of the profile operations of lathe_cycle_operation_t
    Passes,     \* config.passes
    Starts,     \* config.starts; the plan keeps it only for threads
    CutSteps,   \* length of the cut (of the first parting increment)
    Segments    \* chords of a quarter ellipse

Operations == {"turn", "thread", "face", "cut", "ellipse"}

\* p->indexed: only a thread needs phase registration
Indexed == Operation = "thread"
Ellipse == Operation = "ellipse"
Parting == Operation = "cut"

PlanStarts == IF Indexed THEN Starts ELSE 1

ASSUME PlanAssumption ==
    /\ Operation \in Operations
    /\ Passes \in Nat \ {0}
    /\ Starts \in Nat \ {0}
    /\ Segments \in Nat \ {0}
    /\ CutSteps \in Nat \ {0}
    \* "Thread travel needs a takeup step and a cutting step"
    /\ Indexed => CutSteps > 1

PassIndex == 0 .. Passes - 1

---------------------------------------------------------------------------
(* Depth axis                                                              *)

Clearance  == 0
\* the parting cut keeps its depth axis fixed at the starting position
DepthStart == IF Parting THEN 0 ELSE 1
DepthStep  == IF Parting THEN 0 ELSE IF Ellipse THEN Segments ELSE 1

\* lathe_cycle_depth(): linear progression, the last pass reaches depth_end
Depth(p) == DepthStart + DepthStep * (p + 1)

---------------------------------------------------------------------------
(* Cutting axis                                                            *)

CutStart == 0
CutEnd   == IF Ellipse THEN Passes * Segments
            ELSE IF Parting THEN Passes * CutSteps
            ELSE CutSteps

\* lathe_cycle_point(): chord end `s` of pass `p`, the scaled quarter
\* ellipse being taken along its parameter, which the chords divide evenly
PointDepth(p, s) == DepthStart + s * (p + 1)
PointCut(p, s)   == (Passes - (p + 1)) * Segments + s * (p + 1)

Takeup == CutStart
Approach(p) == IF Ellipse THEN PointCut(p, 0)
               ELSE IF Indexed THEN CutStart + 1
               ELSE CutStart
Endpoint(p) == IF Parting THEN (p + 1) * CutSteps ELSE CutEnd
Infeed(p)   == IF Ellipse THEN PointDepth(p, 0) ELSE Depth(p)

\* lathe_cycle_segment_at(): the chord nearest to the stopped point, and on a
\* joint the chord that ends there.
SegmentAt(p, at) ==
    LET along == at.cut - PointCut(p, 0)
        nearest == {i \in 0 .. Segments - 1 :
                       /\ i = 0 \/ i * (p + 1) < along
                       /\ i = Segments - 1 \/ along <= (i + 1) * (p + 1)}
    IN  IF nearest = {} THEN 0 ELSE CHOOSE i \in nearest : TRUE
============================================================================
