------------------------------ MODULE Operator ------------------------------
(* The operator at the touchscreen: jogging one axis with the D-pad, distance
   moves, jog limits and stops, the preview of a cycle and START/STOP (ui.cpp
   and the callbacks of NormalOperationMode.cpp and DPad.cpp), on top of the
   command queue and the published status of bridge.c.

   Three tasks share this state.  The display task runs the callbacks of the
   touch screen, one finger at a time, and lathe_ui_sync() between them.  The
   grblHAL task takes lines from the queue, moves, and publishes its state every
   20 ms.  So whatever the panel decides rests on a position and a status that
   may be old, and a reset can fall between any two of its steps.

   The panel is modelled at one axis, as its two axes share held_axis and the
   lines.  Taken from elsewhere: the delivery of a line by characters (Stream), cycles
   and feeds themselves (Cycle, Follow), who may own the machine (Ownership).
   Disabling an axis is in Ownership; setting the work zero moves nothing.  USB
   moves nothing here either.                                                 *)
EXTENDS Integers, Sequences

CONSTANTS
  Slide,               \* an axis stands at 0..Slide
  Step,                \* the distance of a single step and of a SHIFT move
  StopsAt,             \* bound: where stops are set
  MaxLines, MaxResets  \* bounds: lines submitted, flushes of the stream

ASSUME SlideAssumption == Slide \in Nat /\ Step \in 1..Slide
ASSUME StopsAssumption == StopsAt \subseteq 0..Slide
ASSUME BoundAssumption == MaxLines \in Nat /\ MaxResets \in Nat

VARIABLES
  \* ui.cpp
  held_axis,           \* with continuous_jog: "none", "single", "hold"
  single_jog_id, last_command, last_generation,
  pos,                 \* x.pos
  jogLimitsEnabled, leftStop, rightStop,
  isOn, cycle_panel,
  \* bridge.c
  commands, next_id, completed_id, cancel_request, published,
  \* the core, and the operation in progress
  position, jogging, operation,
  \* the finger, and history
  finger,              \* it is on a key of the D-pad
  unseen,              \* an operation moved, and nothing was published since
  untracked,           \* the newest line the panel does not wait for
  edited               \* an edit since the operation was requested

keys == <<held_axis, single_jog_id, last_command, finger, untracked>>
line == <<single_jog_id, last_command, untracked, commands, next_id>>
seen == <<last_generation, pos>>
stops == <<jogLimitsEnabled, leftStop, rightStop>>
tabs == <<cycle_panel, isOn>>
bridge == <<commands, next_id, completed_id, cancel_request, published>>
core == <<position, jogging, operation, unseen, edited>>
vars == <<keys, seen, stops, tabs, bridge, core>>

\* LONG_MAX and LONG_MIN: a stop that is not set.
NoLeft == Slide + 1
NoRight == -1
Lefts == StopsAt \cup {NoLeft}
Rights == StopsAt \cup {NoRight}

\* A line of the panel.  Of the rest only histories: untracked lines went
\* before it, the position came from before the sample that let it pass, and
\* its key was pressed after a flush the panel had not noticed.
Lines == [id : 1..MaxLines, hold : BOOLEAN, key : BOOLEAN, distance : -NoLeft..NoLeft,
          behind : BOOLEAN, stale : BOOLEAN, blind : BOOLEAN]

\* A jog the core executes, and where it ends.
Joggings == [on : BOOLEAN, hold : BOOLEAN, blind : BOOLEAN, to : 0..Slide]
Still == [on |-> FALSE, hold |-> FALSE, blind |-> FALSE, to |-> 0]
\* A cycle or an assisted feed, if any.
Operations == [busy : {"none", "cycle", "feed"}, begun : BOOLEAN, stopping : BOOLEAN]
NoOperation == [busy |-> "none", begun |-> FALSE, stopping |-> FALSE]

Published(moving, at, sampled, generation) ==
  [moving |-> moving, position |-> at, sampled |-> sampled, generation |-> generation]

Init ==
  /\ position \in 0..Slide
  /\ pos = position /\ published = Published(FALSE, position, 0, 0)
  /\ held_axis = "none" /\ single_jog_id = 0 /\ last_command = 0
  /\ last_generation = 0
  /\ jogLimitsEnabled = TRUE
  /\ leftStop = NoLeft /\ rightStop = NoRight
  /\ isOn = FALSE /\ cycle_panel = FALSE
  /\ commands = <<>> /\ next_id = 0 /\ completed_id = 0 /\ cancel_request = FALSE
  /\ jogging = Still /\ operation = NoOperation
  /\ finger = FALSE /\ unseen = FALSE /\ untracked = 0 /\ edited = FALSE

----------------------------------------------------------------------------
(* The bridge, as the panel calls it. *)

Busy == operation.busy # "none"
Generation == published.generation

\* lathe_bridge_submit: refused while an operation is busy.
CanSubmit == ~Busy /\ next_id < MaxLines

\* lathe_bridge_cancel: it stops an operation, or drops what is queued and asks
\* the core to cancel a jog.
BridgeCancel ==
  IF Busy
  THEN /\ operation' = [operation EXCEPT !.stopping = TRUE]
       /\ UNCHANGED <<commands, cancel_request, untracked>>
  ELSE /\ commands' = <<>>
       /\ cancel_request' = TRUE
       /\ untracked' = 0
       /\ UNCHANGED operation

\* cancel_ui_motion.
CancelUiMotion ==
  /\ last_command' = 0 /\ single_jog_id' = 0 /\ held_axis' = "none"
  /\ BridgeCancel

\* The finger comes whenever it likes after the single step the panel waits for, and
\* at least one publication (20 ms) after any other motion began.
Tap ==
  /\ ~finger /\ ~unseen
  /\ published.sampled < completed_id => single_jog_id = completed_id

----------------------------------------------------------------------------
(* Jogging. *)

Least(a, b) == IF a < b THEN a ELSE b
Most(a, b) == IF a > b THEN a ELSE b

\* distance_to_stop.
DistanceToStop(sign, requested) ==
  CASE ~jogLimitsEnabled -> requested
    [] jogLimitsEnabled /\ sign > 0 /\ leftStop # NoLeft ->
         Least(requested, Most(0, leftStop - pos))
    [] jogLimitsEnabled /\ sign < 0 /\ rightStop # NoRight ->
         Least(requested, Most(0, pos - rightStop))
    [] OTHER -> requested

\* jog and send: a distance that is left is submitted.  A move of SHIFT waits for
\* nothing and is not waited for.
Jog(sign, requested, hold, key) ==
  LET distance == DistanceToStop(sign, requested)
      new == [id |-> next_id + 1, hold |-> hold, key |-> key, distance |-> sign * distance,
              behind |-> key /\ published.sampled < untracked,
              stale |-> key /\ pos # published.position,
              blind |-> key /\ Generation # last_generation]
  IN IF distance > 0 /\ CanSubmit
     THEN /\ commands' = Append(commands, new)
          /\ next_id' = new.id
          /\ last_command' = new.id
          /\ untracked' = IF key /\ ~new.blind THEN untracked ELSE new.id
     ELSE UNCHANGED <<commands, next_id, last_command, untracked>>

\* Mutant: an acknowledged jog may not have been sampled yet.
Acknowledged == ~published.moving /\ completed_id >= single_jog_id

\* A complete motion sample has observed the last single step.
Sampled == ~published.moving /\ published.sampled >= single_jog_id

\* Mutant: a single step is waited for although it was not queued.
WaitsAnyway(sign, hold) ==
  IF ~Sampled THEN UNCHANGED <<held_axis, line>>
  ELSE /\ held_axis' = IF hold THEN "hold" ELSE "single"
       /\ Jog(sign, IF hold THEN NoLeft ELSE Step, hold, TRUE)
       /\ single_jog_id' = IF hold THEN single_jog_id ELSE next_id + 1

\* A key outside a feed: refused, or a line.
PressJog(sign, hold) ==
  IF ~Sampled THEN UNCHANGED <<held_axis, line>>
  ELSE /\ held_axis' = IF hold THEN "hold" ELSE "single"
       /\ Jog(sign, IF hold THEN NoLeft ELSE Step, hold, TRUE)
       /\ single_jog_id' = IF ~hold /\ last_command' # last_command
                           THEN last_command' ELSE single_jog_id

\* A key in a feed: lathe_follow_jog, which refuses when the feed is over by then, as the
\* panel does with Rapids chosen.
PressFeed(hold) ==
  /\ held_axis' \in {"none", IF hold THEN "hold" ELSE "single"}
  /\ UNCHANGED line

\* lathe_ui_jog, pressed; hold is Rapids or jogContinuous.
Press(sign, hold) ==
  /\ Tap
  /\ finger' = TRUE
  /\ IF held_axis # "none"
     THEN UNCHANGED <<held_axis, line>>
     ELSE IF operation.busy = "feed" THEN PressFeed(hold) ELSE PressJog(sign, hold)
  /\ UNCHANGED <<completed_id, cancel_request, published, seen, stops, tabs, core>>

\* Mutant: a release only ends the beep.
JogGoesOn ==
  /\ held_axis' = "none"
  /\ UNCHANGED <<last_command, single_jog_id, untracked, commands, cancel_request, operation>>

\* A Hold jog stops with the finger; a feed is told (lathe_follow_release).
StopsHold ==
  IF held_axis = "hold" /\ operation.busy # "feed" THEN CancelUiMotion
  ELSE /\ held_axis' = "none"
       /\ UNCHANGED <<last_command, single_jog_id, untracked, commands, cancel_request, operation>>

\* lathe_ui_jog, released or slid off the key.
Release ==
  /\ finger
  /\ finger' = FALSE
  /\ IF held_axis # "none" THEN StopsHold
     ELSE UNCHANGED <<held_axis, last_command, single_jog_id, untracked, commands,
                      cancel_request, operation>>
  /\ UNCHANGED <<seen, stops, tabs, next_id,
                 completed_id, published, position, jogging, unseen, edited>>

\* The number pad of SHIFT and an arrow: manualMoveAxis, while nothing is on.
ShiftMove(sign) ==
  /\ Tap /\ ~isOn
  /\ Jog(sign, Step, FALSE, FALSE)
  /\ UNCHANGED <<held_axis, single_jog_id, finger, seen, stops, tabs, completed_id,
                 cancel_request, published, core>>

----------------------------------------------------------------------------
(* Limits and stops. *)

\* lathe_ui_limits_editable: with a fresh status and position.
LimitsEditable ==
  /\ ~published.moving /\ held_axis = "none" /\ ~Busy
  /\ published.sampled >= last_command
  /\ pos' = published.position /\ UNCHANGED last_generation

\* lathe_ui_set_jog_limits.
SetJogLimits ==
  /\ Tap
  /\ LimitsEditable
  /\ jogLimitsEnabled' = ~jogLimitsEnabled
  /\ UNCHANGED <<keys, leftStop, rightStop, tabs, bridge, core>>

\* lathe_ui_apply_limits, from the limit editor.
ApplyLimits(right, left) ==
  /\ Tap
  /\ LimitsEditable
  /\ right # NoRight /\ left # NoLeft => right < left
  /\ leftStop' = left /\ rightStop' = right
  /\ UNCHANGED <<keys, jogLimitsEnabled, tabs, bridge, core>>

\* setLeftStop and setRightStop: the buttons next to the arrows set the stop at
\* the axis or clear it, or take a distance from the number pad.
SetStop ==
  /\ Tap
  /\ \/ \E left \in {IF leftStop = NoLeft THEN pos ELSE NoLeft, pos + Step} \cap Lefts :
          leftStop' = left /\ UNCHANGED rightStop
     \/ \E right \in {IF rightStop = NoRight THEN pos ELSE NoRight, pos - Step} \cap Rights :
          rightStop' = right /\ UNCHANGED leftStop
  /\ CancelUiMotion
  /\ edited' = Busy
  /\ UNCHANGED <<finger, seen, jogLimitsEnabled, tabs, next_id, completed_id, published,
                 position, jogging, unseen>>

----------------------------------------------------------------------------
(* Tabs, settings, START and STOP. *)

\* setModeFromTask: another operation cancels what moves.
SelectTab ==
  /\ Tap
  /\ CancelUiMotion
  /\ edited' = Busy
  /\ isOn' = FALSE
  /\ UNCHANGED <<finger, seen, stops, cycle_panel, next_id, completed_id, published, position,
                 jogging, unseen>>

\* Mutant: the new parameters are for the next start.
KeepsCutting == UNCHANGED <<keys, bridge, operation>>

\* apply_feed_edit: a cycle stops.
StopsCycle ==
  IF operation.busy = "cycle"
  THEN CancelUiMotion /\ UNCHANGED <<finger, next_id, completed_id, published>>
  ELSE UNCHANGED <<keys, bridge, operation>>

\* setDupr, setAuxForward and setConeRatio: a feed goes on with the new parameters
\* (lathe_follow_update) unless they are impossible.  setTurnPasses and setStarts
\* stop either.
EditSetting ==
  /\ Tap
  /\ \/ StopsCycle
     \/ operation.busy = "feed" /\ CancelUiMotion
        /\ UNCHANGED <<finger, next_id, completed_id, published>>
  /\ edited' = (edited \/ operation.busy = "cycle")
  /\ UNCHANGED <<seen, stops, tabs, position, jogging, unseen>>

\* buttonOnOffPress, off.
Stop ==
  /\ Tap
  /\ isOn
  /\ CancelUiMotion
  /\ isOn' = FALSE
  /\ UNCHANGED <<finger, seen, stops, cycle_panel, next_id,
                 completed_id, published, position, jogging, unseen, edited>>

\* preview_cycle: a plan that is possible is shown.
Preview ==
  /\ Tap
  /\ ~isOn
  /\ LimitsEditable
  /\ cycle_panel' \in {cycle_panel, TRUE}
  /\ UNCHANGED <<keys, stops, isOn, bridge, core>>

\* CANCEL on the preview.
ClosePreview ==
  /\ Tap
  /\ cycle_panel
  /\ cycle_panel' = FALSE
  /\ UNCHANGED <<keys, seen, stops, isOn, bridge, core>>

\* lathe_cycle_request and lathe_follow_request: refused while one is busy.  The
\* tap comes after the core took the lines of earlier taps.
Request(kind) ==
  IF Busy THEN UNCHANGED <<operation, edited, isOn>>
  ELSE /\ operation' = [NoOperation EXCEPT !.busy = kind]
       /\ edited' = FALSE
       /\ isOn' = TRUE

\* RUN CYCLE on the preview.
RunCycle ==
  /\ Tap
  /\ cycle_panel /\ commands = <<>>
  /\ Request("cycle")
  /\ cycle_panel' = FALSE
  /\ UNCHANGED <<keys, seen, stops, bridge, position, jogging, unseen>>

\* buttonOnOffPress, on, outside the pass modes.
StartFeed ==
  /\ Tap
  /\ ~isOn /\ commands = <<>>
  /\ Request("feed")
  /\ UNCHANGED <<keys, seen, stops, cycle_panel, bridge, position, jogging, unseen>>

----------------------------------------------------------------------------
(* lathe_ui_sync. *)

\* lathe_follow_manual_held.
ManualHeld == operation.busy = "feed" /\ ~operation.stopping /\ held_axis = "hold"

Sync ==
  LET flushed == Generation # last_generation IN
  /\ pos' = published.position /\ last_generation' = Generation
  /\ IF flushed
     THEN /\ last_command' = 0 /\ single_jog_id' = 0
          /\ held_axis' = IF ManualHeld THEN held_axis ELSE "none"
          /\ cycle_panel' = FALSE
     ELSE UNCHANGED <<last_command, single_jog_id, held_axis, cycle_panel>>
  /\ isOn' = Busy
  /\ UNCHANGED <<finger, untracked, stops, bridge, core>>

----------------------------------------------------------------------------
(* The grblHAL task. *)

\* lathe_bridge_poll: a cancel reaches the core, which stops a jog, and may drop
\* its input with a flush of the stream.
CancelPoll ==
  /\ cancel_request
  /\ cancel_request' = FALSE
  /\ jogging' = Still
  /\ \/ UNCHANGED <<commands, untracked, published>>
     \/ /\ Generation < MaxResets
        /\ commands' = <<>> /\ untracked' = 0
        /\ published' = [published EXCEPT !.generation = Generation + 1]
  /\ UNCHANGED <<held_axis, single_jog_id, last_command, finger, seen, stops,
                 tabs, next_id, completed_id, position, operation, unseen, edited>>

\* lathe_bridge_poll, every 20 ms.  An operation may be at rest between its moves.
Publish ==
  /\ ~cancel_request
  /\ \E moving \in IF operation.begun THEN BOOLEAN ELSE {jogging.on} :
       published' = Published(moving, position, completed_id, Generation)
  /\ unseen' = FALSE
  /\ UNCHANGED <<keys, seen, stops, tabs, commands, next_id, completed_id, cancel_request,
                 position, jogging, operation, edited>>

Inside(at) ==
  /\ leftStop # NoLeft => at <= leftStop
  /\ rightStop # NoRight => at >= rightStop

\* A line is taken and acknowledged: a relative jog starts, or it is refused and
\* what waits behind it is discarded.
Execute ==
  /\ commands # <<>> /\ ~jogging.on /\ ~operation.begun
  /\ LET first == Head(commands) IN
     /\ completed_id' = first.id
     /\ \/ /\ jogging' = [on |-> TRUE, hold |-> first.hold, blind |-> first.blind,
                          to |-> Least(Slide, Most(0, position + first.distance))]
           /\ commands' = Tail(commands)
        \/ UNCHANGED jogging /\ commands' = <<>>
  /\ UNCHANGED <<keys, seen, stops, tabs, next_id, cancel_request, published, position,
                 operation, unseen, edited>>

Move ==
  /\ jogging.on
  /\ \/ position < jogging.to /\ position' = position + 1 /\ UNCHANGED jogging
     \/ position > jogging.to /\ position' = position - 1 /\ UNCHANGED jogging
     \/ position = jogging.to /\ jogging' = Still /\ UNCHANGED position
  /\ UNCHANGED <<keys, seen, stops, tabs, bridge, operation, unseen, edited>>

\* lathe_cycle_poll: an operation begins on an idle machine with an empty queue,
\* and moves; otherwise, or when it is stopped or done, it ends.
OperationPoll ==
  /\ Busy
  /\ \/ /\ ~operation.begun /\ ~operation.stopping
        /\ commands = <<>> /\ ~jogging.on
        /\ operation' = [operation EXCEPT !.begun = TRUE]
        /\ UNCHANGED <<position, unseen>>
     \/ /\ operation.begun
        /\ position' \in {position - 1, position + 1} \cap 0..Slide
        /\ unseen' = TRUE
        /\ UNCHANGED operation
     \/ operation' = NoOperation /\ UNCHANGED <<position, unseen>>
  /\ edited' = (edited /\ operation' # NoOperation)
  /\ UNCHANGED <<keys, seen, stops, tabs, bridge, jogging>>

\* A reset: lathe_bridge_flush, and everything stands still.
Reset ==
  /\ Generation < MaxResets
  /\ commands' = <<>> /\ cancel_request' = FALSE
  /\ published' = [published EXCEPT !.generation = Generation + 1]
  /\ jogging' = Still /\ operation' = NoOperation
  /\ untracked' = 0 /\ edited' = FALSE
  /\ UNCHANGED <<held_axis, single_jog_id, last_command, finger, seen, stops,
                 tabs, next_id, completed_id, position, unseen>>

----------------------------------------------------------------------------
Next ==
  \/ \E sign \in {-1, 1} : ShiftMove(sign) \/ \E hold \in BOOLEAN : Press(sign, hold)
  \/ Release
  \/ SetJogLimits \/ SetStop
  \/ \E right \in Rights, left \in Lefts : ApplyLimits(right, left)
  \/ SelectTab \/ EditSetting \/ Stop \/ Preview \/ ClosePreview \/ RunCycle \/ StartFeed
  \/ Sync
  \/ CancelPoll \/ Publish \/ Execute \/ Move \/ OperationPoll \/ Reset

Spec == Init /\ [][Next]_vars

----------------------------------------------------------------------------
(* Properties. *)

\* Every variable holds a value of its type: above all no press is taken for two
\* keys, and the panel never waits for a line that was never submitted.
TypeOK ==
  /\ held_axis \in {"none", "single", "hold"}
  /\ single_jog_id \in 0..next_id /\ last_command \in 0..next_id
  /\ completed_id \in 0..next_id /\ untracked \in 0..next_id /\ next_id \in 0..MaxLines
  /\ commands \in Seq(Lines) /\ cancel_request \in BOOLEAN
  /\ published \in [moving : BOOLEAN, position : 0..Slide,
                   sampled : 0..completed_id, generation : 0..MaxResets]
  /\ pos \in 0..Slide /\ position \in 0..Slide /\ last_generation \in 0..Generation
  /\ jogLimitsEnabled \in BOOLEAN /\ leftStop \in Lefts /\ rightStop \in Rights
  /\ cycle_panel \in BOOLEAN /\ isOn \in BOOLEAN
  /\ jogging \in Joggings /\ operation \in Operations
  /\ finger \in BOOLEAN /\ unseen \in BOOLEAN /\ edited \in BOOLEAN

\* A jog from a key, as it is taken from the queue.
TakesKey == commands # <<>> /\ completed_id' = Head(commands).id /\ Head(commands).key
KeepsInside == Inside(position) => Inside(position + Head(commands).distance)

\* ui.cpp:160-162: with the jog limits on, a jog that starts inside the stops ends
\* inside them; its distance was computed for the position it starts from.  Lines
\* the panel does not wait for, SHIFT moves among them, are left out.  So is a key
\* pressed between the sample that lets it pass and the sync that reads its
\* position.
StartsInside ==
  [][TakesKey /\ jogLimitsEnabled
       /\ ~Head(commands).behind /\ ~Head(commands).stale /\ ~Head(commands).blind
       => KeepsInside]_vars

\* A Hold jog that is under way, or will be, and that nothing stops.
Continuous ==
  \/ jogging.on /\ jogging.hold /\ ~jogging.blind
  \/ \E n \in 1..Len(commands) : commands[n].hold /\ ~commands[n].blind

\* OPERATIONS.md:47: a Hold jog goes on only while the finger holds its key.  A key
\* pressed after a flush that lathe_ui_sync has yet to notice is left out.
HoldNeedsFinger == Continuous /\ ~cancel_request => finger /\ held_axis = "hold"

\* The same without exception: "Hold stops on release" (ui.cpp:143).
HoldStopsOnRelease ==
  (jogging.on /\ jogging.hold /\ ~cancel_request) => finger

\* OPERATIONS.md:56-58: what was requested before the operator changed a stop, the
\* tab or, for a cycle, a parameter does not go on.
EditStops == Busy /\ edited => operation.stopping
=============================================================================
