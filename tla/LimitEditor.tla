---------------------------- MODULE LimitEditor ----------------------------
(***************************************************************************)
(* The editor of the machining limits (LimitEditor.cpp and the functions   *)
(* of ui.cpp it calls).  The operator types each endpoint as a coordinate  *)
(* in the work zero and the units on the screen; the editor keeps a draft  *)
(* in machine steps and applies the four endpoints together.  Meanwhile a  *)
(* line from USB may move the work zero, the unit may change, or $ setting *)
(* 100 or 102 may change the steps per millimetre.                         *)
(*                                                                         *)
(* Every callback holds the display lock, so each is one step; the core's  *)
(* position, zero and scale arrive with a publication of the bridge.       *)
(***************************************************************************)
EXTENDS Integers

CONSTANTS Coordinates,   \* the numbers typed, in thousandths of a unit
          Offsets,       \* work zeros, in tenths of a micron
          Scales,        \* configured steps per millimetre
          Positions      \* machine positions, in steps

Axes == {"x", "z"}
LONG_MAX == 2147483647
LONG_MIN == -2147483647 - 1

\* The rows X-, X+, Z- and Z+, as in the arrays of the source.
Rows == 1 .. 4
AxisFor(i) == IF i <= 2 THEN "x" ELSE "z"
Unset(i) == IF i \in {1, 3} THEN LONG_MIN ELSE LONG_MAX

VARIABLES
  endpoints,   \* rightStop and leftStop of x, then of z
  status,      \* what the bridge published last: position, zero, scale, and whether the
               \* limits may be edited
  measure,     \* the unit on the screen
  open,        \* the editor is shown
  draft,       \* draft
  edit,        \* editMeasure, and editOffset with editSystem
  keypad,      \* the row its number pad is open for, 0 when hidden
  asked        \* history: what the operator last asked for each row of this edit
editorVars == <<endpoints, status, measure, open, draft, edit, keypad, asked>>

\* A work zero is the coordinate system's name and its offset.
Zeros == [system : {"G54", "G55"}, x : Offsets, z : Offsets]
Status == [editable : BOOLEAN, zero : Zeros, scale : [Axes -> Scales],
           position : [Axes -> Positions]]

\* lathe_ui_limit_steps(): the nearest whole step, halves away from zero; refused when it
\* does not lie strictly inside the range of a long, whose ends mean an unset endpoint.
Rounded(n, d) ==
  IF n >= 0 THEN (2 * n + d) \div (2 * d) ELSE -((d - 2 * n) \div (2 * d))
LimitSteps(v, unit, offset, scale) ==
  Rounded((v * (IF unit = "metric" THEN 10 ELSE 254) + offset) * scale, 10000)
Convertible(steps) == LONG_MIN < steps /\ steps < LONG_MAX

Kept == [kind |-> "kept"]
Typed(v, scale) == [kind |-> "typed", value |-> v, scale |-> scale]

EditorInit ==
  /\ endpoints = [i \in Rows |-> Unset(i)]
  /\ status \in Status /\ measure = "metric"
  /\ open = FALSE /\ draft = endpoints /\ keypad = 0
  /\ edit = [measure |-> measure, zero |-> status.zero]
  /\ asked = [i \in Rows |-> Kept]

-----------------------------------------------------------------------------
(* The rest of the machine.                                                *)

\* The bridge publishes, in whatever state an operation, a jog or a line left the core.
NewStatus == status' \in Status /\ UNCHANGED <<endpoints, measure, open, draft, edit, keypad, asked>>

\* buttonMeasurePress().
Measure ==
  /\ measure' \in {"metric", "inch"} \ {measure}
  /\ UNCHANGED <<endpoints, status, open, draft, edit, keypad, asked>>

\* The endstop buttons set an endpoint to the position the last frame showed, or clear it;
\* the open editor covers them.
Endstop ==
  /\ ~open
  /\ \E i \in Rows, p \in Positions :
       \/ endpoints' = [endpoints EXCEPT ![i] = p]
       \/ endpoints' = [endpoints EXCEPT ![i] = Unset(i)]
  /\ UNCHANGED <<status, measure, open, draft, edit, keypad, asked>>

-----------------------------------------------------------------------------
(* The editor.                                                             *)

CoordinatesUnchanged == measure = edit.measure /\ status.zero = edit.zero

Show ==
  /\ ~open
  /\ open' = TRUE /\ draft' = endpoints /\ keypad' = 0
  /\ edit' = [measure |-> measure, zero |-> status.zero]
  /\ asked' = [i \in Rows |-> Kept]
  /\ UNCHANGED <<endpoints, status, measure>>

EnterValue(i) ==
  /\ open
  /\ keypad' = i
  /\ UNCHANGED <<endpoints, status, measure, open, draft, edit, asked>>

\* The callback of the number pad, which hides itself whatever the answer.
Enter(v) ==
  LET i == keypad
      scale == status.scale[AxisFor(i)]
      steps == LimitSteps(v, measure, status.zero[AxisFor(i)], scale)
  IN  /\ open /\ keypad # 0
      /\ keypad' = 0
      /\ IF CoordinatesUnchanged /\ Convertible(steps)
           THEN /\ draft' = [draft EXCEPT ![i] = steps]
                /\ asked' = [asked EXCEPT ![i] = Typed(v, scale)]
           ELSE UNCHANGED <<draft, asked>>
      /\ UNCHANGED <<endpoints, status, measure, open, edit>>

UseCurrent(i) ==
  /\ open
  /\ IF status.editable /\ CoordinatesUnchanged
       THEN /\ draft' = [draft EXCEPT ![i] = status.position[AxisFor(i)]]
            /\ asked' = [asked EXCEPT ![i] = [kind |-> "current"]]
       ELSE UNCHANGED <<draft, asked>>
  /\ UNCHANGED <<endpoints, status, measure, open, edit, keypad>>

Clear(i) ==
  /\ open
  /\ draft' = [draft EXCEPT ![i] = Unset(i)]
  /\ asked' = [asked EXCEPT ![i] = [kind |-> "unset"]]
  /\ UNCHANGED <<endpoints, status, measure, open, edit, keypad>>

Cancel ==
  /\ open
  /\ open' = FALSE
  /\ UNCHANGED <<endpoints, status, measure, draft, edit, keypad, asked>>

\* lathe_ui_apply_limits(): both axes are checked before any endpoint changes.
Ordered(limits, low) ==
  limits[low] # LONG_MIN /\ limits[low + 1] # LONG_MAX => limits[low] < limits[low + 1]
Accepted == status.editable /\ Ordered(draft, 1) /\ Ordered(draft, 3)
Apply ==
  /\ open
  /\ CoordinatesUnchanged /\ Accepted
  /\ endpoints' = draft
  /\ open' = FALSE
  /\ UNCHANGED <<status, measure, draft, edit, keypad, asked>>

EditorNext ==
  \/ NewStatus \/ Measure \/ Endstop
  \/ Show \/ Cancel \/ Apply
  \/ \E i \in Rows : EnterValue(i) \/ UseCurrent(i) \/ Clear(i)
  \/ \E v \in Coordinates : Enter(v)

EditorSpec == EditorInit /\ [][EditorNext]_editorVars

-----------------------------------------------------------------------------
(* Properties.                                                             *)

\* What row i was asked for, read in the unit and the work zero now on the screen.
Meaning(i) ==
  CASE asked[i].kind = "typed" ->
         LimitSteps(asked[i].value, measure, status.zero[AxisFor(i)], asked[i].scale)
    [] asked[i].kind = "unset" -> Unset(i)
    [] asked[i].kind = "kept" -> endpoints[i]
    [] asked[i].kind = "current" -> draft[i]

\* An applied edit gives every row what was asked for it, in the unit and the work zero the
\* operator sees when he applies it - however often either changed, and changed back, while
\* the editor was open - and leaves the rows he did not touch as the machine had them.
\* (LimitEditor.cpp:78 and 142; the scale is not compared, so a typed coordinate keeps the
\* steps per millimetre in force when it was typed.)
AppliedAsAsked == [][Apply => \A i \in Rows : endpoints'[i] = Meaning(i)]_editorVars

\* A typed endpoint is never one that means "unset".
TypedIsSet == \A i \in Rows : asked[i].kind = "typed" => draft[i] # LONG_MIN /\ draft[i] # LONG_MAX

\* Two endpoints of an axis that were both typed are applied only if the operator typed them
\* in order: the comparison of the drafts is not skipped for a coordinate that converts to
\* the mark of an unset endpoint, and the unit and the zero, which may change and change
\* back between the two, turn none round (ui.cpp:99-119).  Where the steps per millimetre
\* changed between them the drafts are compared in different steps.
TypedInOrder(low) ==
  /\ asked[low].kind = "typed" /\ asked[low + 1].kind = "typed"
  /\ asked[low].scale = asked[low + 1].scale
  => asked[low].value < asked[low + 1].value
AppliedInOrder == [][Apply => TypedInOrder(1) /\ TypedInOrder(3)]_editorVars
=============================================================================
