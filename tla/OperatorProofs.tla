--------------------------- MODULE OperatorProofs ---------------------------
(* Proofs about the operator interface.

   About Operator, for every slide, stop and number of lines and resets: the
   panel decides on a position and a status that may be old, so Inv relates the
   numbers it keeps (the newest line, the newest single step, the newest line it
   does not wait for) to the lines that wait.  Then a key that passes finds the
   queue empty and the lathe at the position shown (VouchedAlone).

   About LimitEditor, for every set of coordinates, zeros, scales and positions:
   while the editor is open the draft is what was asked, read in the unit and the
   zero recorded when it opened (EditorInv); applying requires that unit and that
   zero.                                                                         *)
EXTENDS Operator, LimitEditor, TLAPS

----------------------------------------------------------------------------
(* The operator at the panel: the invariant. *)

\* The lines that wait are numbered in the order they came.
InOrder ==
  /\ \A n \in 1..Len(commands) : completed_id < commands[n].id /\ commands[n].id <= next_id
  /\ \A m, n \in 1..Len(commands) : m < n => commands[m].id < commands[n].id

\* Which number the panel keeps of a line that waits: the newest it does not wait
\* for, the newest single step, or none, when the finger holds its key.
Tracked(l) ==
  /\ l.hold => l.key
  /\ ~l.key \/ l.blind => l.id <= untracked
  /\ l.key /\ ~l.blind =>
       /\ Generation = last_generation /\ l.id <= last_command
       /\ IF l.hold THEN finger /\ held_axis = "hold" ELSE l.id <= single_jog_id

\* A Hold jog under way.
HoldTracked ==
  jogging.on /\ jogging.hold /\ ~jogging.blind =>
    /\ Generation = last_generation
    /\ cancel_request \/ (finger /\ held_axis = "hold" /\ ~Busy)

\* An operation and the lines of the panel exclude each other.
Apart ==
  /\ Busy => commands = <<>>
  /\ operation.begun => Busy /\ ~jogging.on

\* What the panel relies on when it lets a key pass: the published position is still
\* the position.
AtRest ==
  published.sampled = completed_id /\ ~published.moving /\ ~unseen
    => ~jogging.on /\ published.position = position

\* A line that the panel vouches for is the next one, and the lathe waits for it.
Vouched(l) == l.key /\ ~l.behind /\ ~l.stale /\ ~l.blind
Aimed(l) == jogLimitsEnabled /\ Inside(position) => Inside(position + l.distance)
Ready == \A n \in 1..Len(commands) : Vouched(commands[n]) => n = 1 /\ ~jogging.on /\ Aimed(commands[1])

Inv ==
  /\ TypeOK
  /\ InOrder
  /\ \A n \in 1..Len(commands) : Tracked(commands[n])
  /\ HoldTracked /\ Apart /\ AtRest /\ Ready

USE DEF keys, line, seen, stops, tabs, bridge, core, NoLeft, NoRight, Lefts, Rights, Busy, Generation

----------------------------------------------------------------------------
(* The operator at the panel: the lines. *)

\* A stop or its absence is a number.
LEMMA Numbers ==
  /\ Slide \in Nat /\ Step \in Nat /\ Step <= Slide /\ MaxLines \in Nat /\ MaxResets \in Nat
  /\ NoLeft \in Nat /\ NoRight \in Int
  /\ \A s \in Lefts \cup Rights : s \in Int /\ -1 <= s /\ s <= Slide + 1
BY SlideAssumption, StopsAssumption, BoundAssumption

\* What distance_to_stop returns is at most what was requested, and ends at a stop
\* that is set.
LEMMA Distances ==
  ASSUME TypeOK, NEW sign \in {-1, 1}, NEW requested \in 0..NoLeft
  PROVE  /\ DistanceToStop(sign, requested) \in 0..NoLeft
         /\ jogLimitsEnabled /\ DistanceToStop(sign, requested) > 0 =>
              /\ sign > 0 /\ leftStop # NoLeft =>
                   pos + DistanceToStop(sign, requested) <= leftStop
              /\ sign < 0 /\ rightStop # NoRight =>
                   pos - DistanceToStop(sign, requested) >= rightStop
<1>1. /\ leftStop \in Int /\ rightStop \in Int /\ pos \in Int /\ requested \in Int
      /\ 0 <= requested /\ requested <= NoLeft /\ NoLeft \in Int
  BY Numbers DEF TypeOK
<1>2. CASE ~jogLimitsEnabled
  <2>1. DistanceToStop(sign, requested) = requested
    BY <1>2 DEF DistanceToStop
  <2> QED BY <1>2, <2>1
<1>3. CASE jogLimitsEnabled /\ sign > 0 /\ leftStop # NoLeft
  <2>1. DistanceToStop(sign, requested) = Least(requested, Most(0, leftStop - pos))
    BY <1>3 DEF DistanceToStop
  <2> QED BY <1>1, <1>3, <2>1 DEF Least, Most
<1>4. CASE jogLimitsEnabled /\ sign < 0 /\ rightStop # NoRight
  <2>1. DistanceToStop(sign, requested) = Least(requested, Most(0, pos - rightStop))
    BY <1>4 DEF DistanceToStop
  <2> QED BY <1>1, <1>4, <2>1 DEF Least, Most
<1>5. CASE /\ jogLimitsEnabled
           /\ ~(sign > 0 /\ leftStop # NoLeft) /\ ~(sign < 0 /\ rightStop # NoRight)
  <2>1. DistanceToStop(sign, requested) = requested
    BY <1>5 DEF DistanceToStop
  <2> QED BY <1>5, <2>1
<1> QED BY <1>2, <1>3, <1>4, <1>5 DEF TypeOK

\* The line that jog and send submit.
Submitted(sign, requested, hold, key) ==
  [id |-> next_id + 1, hold |-> hold, key |-> key,
   distance |-> sign * DistanceToStop(sign, requested),
   behind |-> key /\ published.sampled < untracked,
   stale |-> key /\ pos # published.position,
   blind |-> key /\ Generation # last_generation]
Submits(l) ==
  /\ ~Busy /\ next_id < MaxLines
  /\ commands' = Append(commands, l) /\ next_id' = l.id /\ last_command' = l.id
  /\ untracked' = IF l.key /\ ~l.blind THEN untracked ELSE l.id

\* jog and send submit one line, or change nothing.
LEMMA Jogs ==
  ASSUME TypeOK, NEW sign \in {-1, 1}, NEW requested \in 0..NoLeft,
         NEW hold \in BOOLEAN, NEW key \in BOOLEAN, Jog(sign, requested, hold, key)
  PROVE  LET l == Submitted(sign, requested, hold, key)
         IN  \/ UNCHANGED <<commands, next_id, last_command, untracked>>
             \/ l \in Lines /\ DistanceToStop(sign, requested) > 0 /\ Submits(l)
<1> DEFINE l == Submitted(sign, requested, hold, key)
           distance == DistanceToStop(sign, requested)
<1>1. CASE ~(distance > 0 /\ CanSubmit)
  BY <1>1 DEF Jog
<1>2. CASE distance > 0 /\ CanSubmit
  <2>1. distance \in 0..NoLeft
    BY Distances
  <2>2. sign * distance \in -NoLeft..NoLeft
    <3> HIDE DEF distance
    <3>1. sign * distance = distance \/ sign * distance = -distance
      BY <2>1
    <3> QED BY <2>1, <3>1, Numbers
  <2>3. next_id \in Nat /\ next_id < MaxLines
    BY <1>2 DEF CanSubmit, TypeOK
  <2>4. next_id + 1 \in 1..MaxLines
    BY <2>3, Numbers
  <2>5. l \in Lines
    BY <2>2, <2>4 DEF Submitted, Lines
  <2>6. Submits(l)
    BY <1>2 DEF Jog, CanSubmit, Submits, Submitted
  <2> QED BY <1>2, <2>5, <2>6
<1> QED BY <1>1, <1>2

\* The elements of a queue with one line more, and of one with one less.
LEMMA Appended ==
  ASSUME NEW q \in Seq(Lines), NEW l \in Lines
  PROVE  /\ Append(q, l) \in Seq(Lines) /\ Len(Append(q, l)) = Len(q) + 1
         /\ \A n \in 1..Len(Append(q, l)) :
              (n \in 1..Len(q) /\ Append(q, l)[n] = q[n]) \/ (n = Len(q) + 1 /\ Append(q, l)[n] = l)
OBVIOUS

LEMMA Taken ==
  ASSUME NEW q \in Seq(Lines), q # <<>>
  PROVE  /\ Head(q) = q[1] /\ Head(q) \in Lines /\ 1 \in 1..Len(q)
         /\ Tail(q) \in Seq(Lines)
         /\ \A n \in 1..Len(Tail(q)) : n + 1 \in 1..Len(q) /\ Tail(q)[n] = q[n + 1]
OBVIOUS

LEMMA NoLines == <<>> \in Seq(Lines) /\ Len(<<>>) = 0
OBVIOUS

----------------------------------------------------------------------------
(* Types. *)

LineTypes ==
  /\ held_axis \in {"none", "single", "hold"}
  /\ single_jog_id \in 0..next_id /\ last_command \in 0..next_id /\ untracked \in 0..next_id
  /\ commands \in Seq(Lines) /\ next_id \in 0..MaxLines

\* A jog keeps the types of the lines and of their numbers.
LEMMA JogTypes ==
  ASSUME TypeOK, NEW sign \in {-1, 1}, NEW requested \in 0..NoLeft,
         NEW hold \in BOOLEAN, NEW key \in BOOLEAN, Jog(sign, requested, hold, key)
  PROVE  /\ commands' \in Seq(Lines) /\ next_id' \in next_id..MaxLines
         /\ last_command' \in 0..next_id' /\ untracked' \in 0..next_id'
<1> DEFINE l == Submitted(sign, requested, hold, key)
<1>1. CASE UNCHANGED <<commands, next_id, last_command, untracked>>
  BY <1>1, Numbers DEF TypeOK
<1>2. CASE l \in Lines /\ Submits(l)
  <2>1. commands' \in Seq(Lines)
    BY <1>2, Appended DEF TypeOK, Submits
  <2>2. next_id' = next_id + 1 /\ next_id \in Nat /\ next_id < MaxLines
    BY <1>2 DEF Submits, Submitted, TypeOK
  <2>3. last_command' = next_id' /\ untracked' \in {untracked, next_id'} /\ untracked \in 0..next_id
    BY <1>2 DEF Submits, TypeOK
  <2> QED BY <2>1, <2>2, <2>3, Numbers
<1> QED BY <1>1, <1>2, Jogs

\* A cancel keeps the types.
LEMMA CancelTypes ==
  ASSUME TypeOK, CancelUiMotion, UNCHANGED next_id
  PROVE  /\ LineTypes' /\ cancel_request' \in BOOLEAN
         /\ operation' \in Operations
<1>1. next_id' \in 0..MaxLines /\ 0 \in 0..next_id'
  BY Numbers DEF TypeOK
<1>2. commands' \in Seq(Lines) /\ untracked' \in 0..next_id'
  BY <1>1, NoLines DEF CancelUiMotion, BridgeCancel, TypeOK
<1> QED BY <1>1, <1>2 DEF CancelUiMotion, BridgeCancel, TypeOK, LineTypes, Operations

LEMMA TypeInit == Init => TypeOK
<1> SUFFICES ASSUME Init PROVE TypeOK
    OBVIOUS
<1>1. 0 \in 0..next_id /\ next_id \in 0..MaxLines /\ 0 \in 0..MaxResets
  BY Numbers DEF Init
<1>2. commands \in Seq(Lines)
  BY NoLines DEF Init
<1>3. published \in [moving : BOOLEAN, position : 0..Slide, sampled : 0..completed_id,
                     generation : 0..MaxResets]
  BY <1>1 DEF Init, Published
<1>4. jogging \in Joggings
  BY Numbers DEF Init, Still, Joggings
<1>5. operation \in Operations
  BY DEF Init, NoOperation, Operations
<1>6. last_generation \in 0..Generation
  BY DEF Init, Published
<1> QED BY <1>1, <1>2, <1>3, <1>4, <1>5, <1>6 DEF Init, TypeOK

\* What the callbacks of the panel leave alone.
BridgeTypes ==
  /\ completed_id \in 0..next_id /\ cancel_request \in BOOLEAN
  /\ published \in [moving : BOOLEAN, position : 0..Slide,
                   sampled : 0..completed_id, generation : 0..MaxResets]
PanelTypes ==
  /\ pos \in 0..Slide /\ last_generation \in 0..Generation
  /\ jogLimitsEnabled \in BOOLEAN /\ leftStop \in Lefts /\ rightStop \in Rights
  /\ cycle_panel \in BOOLEAN /\ isOn \in BOOLEAN /\ finger \in BOOLEAN
CoreTypes ==
  /\ position \in 0..Slide
  /\ jogging \in Joggings /\ operation \in Operations
  /\ unseen \in BOOLEAN /\ edited \in BOOLEAN

LEMMA Types == LineTypes' /\ BridgeTypes' /\ PanelTypes' /\ CoreTypes' => TypeOK'
BY DEF TypeOK, LineTypes, BridgeTypes, PanelTypes, CoreTypes

\* Jogs and distance moves.
LEMMA JogStepTypes ==
  ASSUME TypeOK, NEW sign \in {-1, 1}, NEW hold \in BOOLEAN,
         ShiftMove(sign) \/ Press(sign, hold) \/ Release
  PROVE  TypeOK'
<1>0. Step \in 0..NoLeft /\ NoLeft \in 0..NoLeft
  BY Numbers
<1>1. CASE ShiftMove(sign)
  <2>1. /\ commands' \in Seq(Lines) /\ next_id' \in next_id..MaxLines
        /\ last_command' \in 0..next_id' /\ untracked' \in 0..next_id'
    BY <1>0, <1>1, JogTypes DEF ShiftMove
  <2>2. single_jog_id' \in 0..next_id' /\ completed_id' \in 0..next_id' /\ next_id' \in 0..MaxLines
    BY <1>1, <2>1, Numbers DEF ShiftMove, TypeOK
  <2> QED BY <1>1, <2>1, <2>2 DEF ShiftMove, TypeOK
<1>2. CASE Press(sign, hold)
  <2>1. CASE UNCHANGED line
    <3>1. held_axis' \in {"none", "single", "hold"}
      BY <1>2 DEF Press, PressJog, PressFeed, TypeOK
    <3> QED BY <1>2, <2>1, <3>1 DEF Press, TypeOK
  <2>2. CASE PressJog(sign, hold) /\ Sampled
    <3> DEFINE requested == IF hold THEN NoLeft ELSE Step
    <3>1. requested \in 0..NoLeft
      BY <1>0
    <3>2. Jog(sign, requested, hold, TRUE)
      BY <2>2 DEF PressJog
    <3>3. /\ commands' \in Seq(Lines) /\ next_id' \in next_id..MaxLines
          /\ last_command' \in 0..next_id' /\ untracked' \in 0..next_id'
      BY <3>1, <3>2, JogTypes
    <3>4. single_jog_id' \in {last_command', single_jog_id}
      BY <2>2 DEF PressJog
    <3>5. single_jog_id' \in 0..next_id' /\ completed_id' \in 0..next_id' /\ next_id' \in 0..MaxLines
      BY <1>2, <3>3, <3>4, Numbers DEF Press, TypeOK
    <3>6. held_axis' \in {"none", "single", "hold"}
      BY <2>2 DEF PressJog
    <3> QED BY <1>2, <3>3, <3>5, <3>6 DEF Press, TypeOK
  <2> QED BY <1>2, <2>1, <2>2 DEF Press, PressJog, PressFeed
<1>3. CASE Release
  <2>1. UNCHANGED <<next_id, completed_id, published, pos, last_generation, stops, tabs,
                    position, jogging, unseen, edited>> /\ finger' = FALSE
    BY <1>3 DEF Release
  <2>2. CASE CancelUiMotion
    <3>1. LineTypes' /\ cancel_request' \in BOOLEAN
          /\ operation' \in Operations
      BY <2>1, <2>2, CancelTypes
    <3>2. BridgeTypes'
      BY <2>1, <3>1 DEF TypeOK, BridgeTypes
    <3>3. PanelTypes'
      BY <2>1 DEF TypeOK, PanelTypes
    <3>4. CoreTypes'
      BY <2>1, <3>1 DEF TypeOK, CoreTypes
    <3> QED BY <3>1, <3>2, <3>3, <3>4, Types
  <2>3. CASE /\ UNCHANGED <<last_command, single_jog_id, untracked, commands, cancel_request,
                            operation>>
             /\ held_axis' \in {"none", held_axis}
    <3>1. LineTypes'
      BY <2>1, <2>3 DEF TypeOK, LineTypes
    <3>2. BridgeTypes'
      BY <2>1, <2>3 DEF TypeOK, BridgeTypes
    <3>3. PanelTypes'
      BY <2>1 DEF TypeOK, PanelTypes
    <3>4. CoreTypes'
      BY <2>1, <2>3 DEF TypeOK, CoreTypes
    <3> QED BY <3>1, <3>2, <3>3, <3>4, Types
  <2> QED BY <1>3, <2>2, <2>3 DEF Release, StopsHold
<1> QED BY <1>1, <1>2, <1>3

\* Limits, stops, tabs, START and STOP.
LEMMA PanelStepTypes ==
  ASSUME TypeOK,
         \/ SetJogLimits \/ SetStop \/ (\E right \in Rights, left \in Lefts : ApplyLimits(right, left))
         \/ SelectTab \/ EditSetting \/ Stop \/ Preview \/ ClosePreview \/ RunCycle \/ StartFeed
         \/ Sync
  PROVE  TypeOK'
<1>1. CASE SetJogLimits
  BY <1>1 DEF SetJogLimits, LimitsEditable, TypeOK
<1>2. CASE SetStop
  <2>1. LineTypes' /\ cancel_request' \in BOOLEAN
        /\ operation' \in Operations
    BY <1>2, CancelTypes DEF SetStop
  <2>2. leftStop' \in Lefts /\ rightStop' \in Rights
    BY <1>2 DEF SetStop, TypeOK
  <2>3. edited' \in BOOLEAN
    BY <1>2 DEF SetStop
  <2>4. /\ UNCHANGED <<finger, pos, last_generation, jogLimitsEnabled, tabs, next_id, completed_id,
                       published, position, jogging, unseen>>
    BY <1>2 DEF SetStop
  <2>5. BridgeTypes' /\ PanelTypes' /\ CoreTypes'
    BY <2>1, <2>2, <2>3, <2>4 DEF TypeOK, BridgeTypes, PanelTypes, CoreTypes
  <2> QED BY <2>1, <2>5 DEF TypeOK, LineTypes, BridgeTypes, PanelTypes, CoreTypes
<1>3. ASSUME NEW right \in Rights, NEW left \in Lefts, ApplyLimits(right, left) PROVE TypeOK'
  BY <1>3 DEF ApplyLimits, LimitsEditable, TypeOK
<1>4. CASE SelectTab
  <2>1. LineTypes' /\ cancel_request' \in BOOLEAN
        /\ operation' \in Operations
    BY <1>4, CancelTypes DEF SelectTab
  <2>2. edited' \in BOOLEAN /\ isOn' \in BOOLEAN
    BY <1>4 DEF SelectTab
  <2>3. UNCHANGED <<finger, seen, stops, cycle_panel, next_id, completed_id, published, position,
                    jogging, unseen>>
    BY <1>4 DEF SelectTab
  <2> QED BY <2>1, <2>2, <2>3 DEF TypeOK, LineTypes
<1>5. CASE EditSetting
  <2>1. /\ UNCHANGED <<finger, seen, stops, tabs, next_id, completed_id, published, position,
                       jogging, unseen>> /\ edited' \in BOOLEAN
    BY <1>5 DEF EditSetting, StopsCycle, TypeOK
  <2>2. CASE CancelUiMotion
    <3>1. LineTypes' /\ cancel_request' \in BOOLEAN
          /\ operation' \in Operations
      BY <2>1, <2>2, CancelTypes
    <3> QED BY <2>1, <3>1 DEF TypeOK, LineTypes
  <2>3. CASE UNCHANGED <<keys, bridge, operation>>
    BY <2>1, <2>3 DEF TypeOK
  <2> QED BY <1>5, <2>2, <2>3 DEF EditSetting, StopsCycle
<1>6. CASE Stop
  <2>1. LineTypes' /\ cancel_request' \in BOOLEAN
        /\ operation' \in Operations
    BY <1>6, CancelTypes DEF Stop
  <2>2. UNCHANGED <<finger, seen, stops, cycle_panel, next_id, completed_id, published, position,
                    jogging, unseen, edited>> /\ isOn' = FALSE
    BY <1>6 DEF Stop
  <2> QED BY <2>1, <2>2 DEF TypeOK, LineTypes
<1>7. CASE Preview \/ ClosePreview
  BY <1>7 DEF Preview, ClosePreview, LimitsEditable, TypeOK
<1>8. CASE RunCycle
  <2>1. operation' \in Operations
    BY <1>8 DEF RunCycle, Request, NoOperation, Operations, TypeOK
  <2>2. edited' \in BOOLEAN /\ isOn' \in BOOLEAN
    BY <1>8 DEF RunCycle, Request, TypeOK
  <2>3. UNCHANGED <<keys, seen, stops, bridge, position, jogging, unseen>> /\ cycle_panel' = FALSE
    BY <1>8 DEF RunCycle
  <2>4. LineTypes' /\ BridgeTypes'
    BY <2>3 DEF TypeOK, LineTypes, BridgeTypes
  <2>5. PanelTypes'
    BY <2>2, <2>3 DEF TypeOK, PanelTypes
  <2>6. CoreTypes'
    BY <2>1, <2>2, <2>3 DEF TypeOK, CoreTypes
  <2> QED BY <2>4, <2>5, <2>6, Types
<1>9. CASE StartFeed
  <2>1. operation' \in Operations
    BY <1>9 DEF StartFeed, Request, NoOperation, Operations, TypeOK
  <2>2. edited' \in BOOLEAN /\ isOn' \in BOOLEAN
    BY <1>9 DEF StartFeed, Request, TypeOK
  <2> QED BY <1>9, <2>1, <2>2 DEF StartFeed, TypeOK
<1>10. CASE Sync
  <2>1. next_id \in Nat /\ Generation \in Nat
    BY Numbers DEF TypeOK
  <2>2. single_jog_id' \in 0..next_id /\ last_command' \in 0..next_id
    BY <1>10, <2>1 DEF Sync, TypeOK
  <2>3. held_axis' \in {"none", "single", "hold"} /\ cycle_panel' \in BOOLEAN
    BY <1>10 DEF Sync, TypeOK
  <2>4. last_generation' \in 0..Generation' /\ pos' \in 0..Slide /\ isOn' \in BOOLEAN
    BY <1>10, <2>1 DEF Sync, TypeOK
  <2>5. UNCHANGED <<finger, untracked, stops, bridge, core>>
    BY <1>10 DEF Sync
  <2> QED BY <2>2, <2>3, <2>4, <2>5 DEF TypeOK
<1> QED BY <1>1, <1>2, <1>3, <1>4, <1>5, <1>6, <1>7, <1>8, <1>9, <1>10

\* The grblHAL task.
LEMMA CoreStepTypes ==
  ASSUME TypeOK, InOrder,
         CancelPoll \/ Publish \/ Execute \/ Move \/ OperationPoll \/ Reset
  PROVE  TypeOK'
<1>0. /\ completed_id \in Nat /\ Generation \in 0..MaxResets /\ MaxResets \in Nat /\ next_id \in Nat
      /\ position \in 0..Slide /\ 0 \in 0..next_id
  BY Numbers DEF TypeOK
<1>n. Still \in Joggings
  BY Numbers DEF Still, Joggings
<1>f. ASSUME Generation < MaxResets, UNCHANGED <<completed_id, last_generation>>,
             published' = [published EXCEPT !.generation = Generation + 1]
      PROVE  /\ published' \in [moving : BOOLEAN, position : 0..Slide,
                                sampled : 0..completed_id', generation : 0..MaxResets]
             /\ last_generation' \in 0..Generation'
  <2>1. Generation + 1 \in 0..MaxResets
    BY <1>0, <1>f
  <2>2. Generation' = Generation + 1
    BY <1>f DEF TypeOK
  <2>3. last_generation \in 0..Generation
    BY DEF TypeOK
  <2>4. last_generation' \in 0..Generation'
    BY <1>0, <1>f, <2>2, <2>3
  <2> QED BY <1>f, <2>1, <2>4 DEF TypeOK
<1>1. CASE CancelPoll
  <2>1. /\ UNCHANGED <<held_axis, single_jog_id, last_command, finger, seen, stops,
                       tabs, next_id, completed_id, position, operation, unseen, edited>>
        /\ cancel_request' = FALSE /\ jogging' = Still
    BY <1>1 DEF CancelPoll
  <2>2. CASE UNCHANGED <<commands, untracked, published>>
    <3>1. LineTypes' /\ BridgeTypes'
      BY <2>1, <2>2 DEF TypeOK, LineTypes, BridgeTypes
    <3>2. PanelTypes'
      BY <2>1, <2>2 DEF TypeOK, PanelTypes
    <3>3. CoreTypes'
      BY <2>1, <1>n DEF TypeOK, CoreTypes
    <3> QED BY <3>1, <3>2, <3>3, Types
  <2>3. CASE /\ Generation < MaxResets
             /\ commands' = <<>> /\ untracked' = 0
             /\ published' = [published EXCEPT !.generation = Generation + 1]
    <3>1. LineTypes'
      BY <1>0, <2>1, <2>3, NoLines DEF TypeOK, LineTypes
    <3>2. published' \in [moving : BOOLEAN, position : 0..Slide,
                           sampled : 0..completed_id', generation : 0..MaxResets]
          /\ last_generation' \in 0..Generation'
      BY <1>f, <2>1, <2>3
    <3>3. BridgeTypes' /\ PanelTypes'
      BY <2>1, <3>2 DEF TypeOK, BridgeTypes, PanelTypes
    <3>4. position' \in 0..Slide /\ jogging' = Still
          /\ UNCHANGED <<operation, unseen, edited>>
      BY <2>1 DEF TypeOK
    <3>5. CoreTypes'
      BY <1>n, <3>4 DEF TypeOK, CoreTypes
    <3> QED BY <3>1, <3>3, <3>5, Types
  <2> QED BY <1>1, <2>2, <2>3 DEF CancelPoll
<1>2. CASE Publish
  <2>1. PICK moving \in BOOLEAN : published' = Published(moving, position, completed_id, Generation)
    <3>1. jogging.on \in BOOLEAN
      BY DEF TypeOK, Joggings
    <3>2. PICK moving \in IF operation.begun THEN BOOLEAN ELSE {jogging.on} :
            published' = Published(moving, position, completed_id, Generation)
      BY <1>2 DEF Publish
    <3>3. moving \in BOOLEAN
      BY <3>1, <3>2
    <3> QED BY <3>2, <3>3
  <2>2. UNCHANGED <<keys, seen, stops, tabs, commands, next_id, completed_id, cancel_request,
                    position, jogging, operation, edited>> /\ unseen' = FALSE
    BY <1>2 DEF Publish
  <2>3. completed_id \in 0..completed_id
    BY <1>0
  <2>4. published' \in [moving : BOOLEAN, position : 0..Slide,
                        sampled : 0..completed_id', generation : 0..MaxResets]
        /\ Generation' = Generation
    BY <1>0, <2>1, <2>2, <2>3 DEF Published
  <2>5. LineTypes' /\ BridgeTypes'
    BY <2>2, <2>4 DEF TypeOK, LineTypes, BridgeTypes
  <2>6. PanelTypes'
    BY <2>2, <2>4 DEF TypeOK, PanelTypes
  <2>7. CoreTypes'
    BY <2>2 DEF TypeOK, CoreTypes
  <2> QED BY <2>5, <2>6, <2>7, Types
<1>3. CASE Execute
  <2> DEFINE first == Head(commands)
             target == Least(Slide, Most(0, position + first.distance))
  <2>1. commands # <<>> /\ commands \in Seq(Lines)
    BY <1>3 DEF Execute, TypeOK
  <2>2. first = commands[1] /\ first \in Lines /\ 1 \in 1..Len(commands) /\ Tail(commands) \in Seq(Lines)
    BY <2>1, Taken
  <2>3. completed_id < first.id /\ first.id <= next_id
    BY <2>2 DEF InOrder
  <2>4. first.id \in Nat /\ first.distance \in Int /\ first.hold \in BOOLEAN /\ first.blind \in BOOLEAN
    BY <2>2, Numbers DEF Lines
  <2>5. /\ completed_id' = first.id
        /\ UNCHANGED <<keys, seen, stops, tabs, next_id, cancel_request, published, position,
                       operation, unseen, edited>>
    BY <1>3 DEF Execute
  <2>6. commands' \in Seq(Lines)
    BY <1>3, <2>2, NoLines DEF Execute
  <2>7. target \in 0..Slide
    BY <1>0, <2>4, Numbers DEF Least, Most
  <2>8. jogging' \in Joggings
    <3>1. \/ UNCHANGED jogging
          \/ jogging' = [on |-> TRUE, hold |-> first.hold, blind |-> first.blind, to |-> target]
      BY <1>3 DEF Execute
    <3> HIDE DEF first, target
    <3>2. [on |-> TRUE, hold |-> first.hold, blind |-> first.blind, to |-> target] \in Joggings
      BY <2>4, <2>7 DEF Joggings
    <3> QED BY <3>1, <3>2 DEF TypeOK
  <2>9. completed_id' \in 0..next_id' /\ completed_id <= completed_id'
    BY <1>0, <2>3, <2>4, <2>5
  <2> HIDE DEF first, target
  <2>10. published' \in [moving : BOOLEAN, position : 0..Slide,
                         sampled : 0..completed_id', generation : 0..MaxResets]
    <3>1. published.sampled \in 0..completed_id /\ completed_id' \in Nat
      BY <1>0, <2>9, <2>5 DEF TypeOK
    <3>2. published.sampled \in 0..completed_id'
      BY <1>0, <2>9, <3>1
    <3> QED BY <2>5, <3>2 DEF TypeOK
  <2> QED BY <2>5, <2>6, <2>8, <2>9, <2>10 DEF TypeOK
<1>4. CASE Move
  <2>1. position' \in 0..Slide
    <3>1. jogging.to \in 0..Slide
      BY DEF TypeOK, Joggings
    <3> QED BY <1>0, <1>4, <3>1, Numbers DEF Move
  <2>2. jogging' \in Joggings
    BY <1>4, <1>n DEF Move, TypeOK
  <2> QED BY <1>4, <2>1, <2>2 DEF Move, TypeOK
<1>5. CASE OperationPoll
  <2>1. operation' \in Operations
    <3>1. \/ operation' = [operation EXCEPT !.begun = TRUE]
          \/ operation' = operation
          \/ operation' = NoOperation
      BY <1>5 DEF OperationPoll
    <3>2. operation \in Operations
      BY DEF TypeOK
    <3>3. [operation EXCEPT !.begun = TRUE] \in Operations
      BY <3>2 DEF Operations
    <3>4. NoOperation \in Operations
      BY DEF NoOperation, Operations
    <3> QED BY <3>1, <3>2, <3>3, <3>4
  <2>2. position' \in 0..Slide /\ unseen' \in BOOLEAN /\ edited' \in BOOLEAN
    BY <1>5 DEF OperationPoll, TypeOK
  <2>3. UNCHANGED <<keys, seen, stops, tabs, bridge, jogging>>
    BY <1>5 DEF OperationPoll
  <2> QED BY <2>1, <2>2, <2>3 DEF TypeOK
<1>6. CASE Reset
  <2>1. /\ Generation < MaxResets
        /\ commands' = <<>> /\ cancel_request' = FALSE
        /\ published' = [published EXCEPT !.generation = Generation + 1]
        /\ jogging' = Still /\ operation' = NoOperation
        /\ untracked' = 0 /\ edited' = FALSE
        /\ UNCHANGED <<held_axis, single_jog_id, last_command, finger, seen, stops,
                       tabs, next_id, completed_id, position, unseen>>
    BY <1>6 DEF Reset
  <2>2. LineTypes'
    BY <1>0, <2>1, NoLines DEF TypeOK, LineTypes
  <2>3. BridgeTypes' /\ PanelTypes'
    BY <1>f, <2>1 DEF TypeOK, BridgeTypes, PanelTypes
  <2>4. CoreTypes'
    <3>1. position' \in 0..Slide /\ jogging' = Still /\ operation' = NoOperation
          /\ unseen' \in BOOLEAN /\ edited' \in BOOLEAN
      BY <2>1 DEF TypeOK
    <3> QED BY <1>n, <3>1 DEF CoreTypes, NoOperation, Operations
  <2> QED BY <2>2, <2>3, <2>4, Types
<1> QED BY <1>1, <1>2, <1>3, <1>4, <1>5, <1>6

LEMMA TypeStep ==
  ASSUME TypeOK, InOrder, [Next]_vars
  PROVE  TypeOK'
<1>1. CASE UNCHANGED vars
  BY <1>1 DEF vars, TypeOK
<1> QED BY <1>1, JogStepTypes, PanelStepTypes, CoreStepTypes DEF Next

----------------------------------------------------------------------------
(* What a step does to the lines that wait. *)

\* The panel's cancel leaves no line, for an operation and a line exclude each other.
LEMMA CancelEmpties ==
  ASSUME Apart, CancelUiMotion
  PROVE  commands' = <<>>
BY DEF Apart, CancelUiMotion, BridgeCancel

\* The lines that wait have numbers.
LEMMA Numbered ==
  ASSUME TypeOK
  PROVE  \A n \in 1..Len(commands) : commands[n] \in Lines /\ commands[n].id \in Int
<1>1. \A k \in Lines : k.id \in Int
  BY Numbers DEF Lines
<1>2. \A n \in 1..Len(commands) : commands[n] \in Lines
  BY DEF TypeOK
<1> QED BY <1>1, <1>2

\* A key or a distance move adds at most one line.
KeyAdds(sign, hold, l) ==
  /\ Press(sign, hold) /\ Sampled /\ held_axis' = IF hold THEN "hold" ELSE "single"
  /\ l = Submitted(sign, IF hold THEN NoLeft ELSE Step, hold, TRUE)
  /\ single_jog_id' = IF hold THEN single_jog_id ELSE l.id
ShiftAdds(sign, l) ==
  ShiftMove(sign) /\ l = Submitted(sign, Step, FALSE, FALSE)
Adds(sign, hold, l) ==
  /\ l \in Lines /\ Submits(l) /\ l.id = next_id + 1
  /\ sign * l.distance > 0
  /\ KeyAdds(sign, hold, l) \/ ShiftAdds(sign, l)

LEMMA Presses ==
  ASSUME TypeOK, NEW sign \in {-1, 1}, NEW hold \in BOOLEAN, ShiftMove(sign) \/ Press(sign, hold)
  PROVE  \/ UNCHANGED line
         \/ \E l \in Lines : Adds(sign, hold, l)
<1>0. Step \in 0..NoLeft /\ NoLeft \in 0..NoLeft
  BY Numbers
<1>1. ASSUME NEW requested \in 0..NoLeft, DistanceToStop(sign, requested) > 0, NEW h, NEW k
      PROVE  LET l == Submitted(sign, requested, h, k)
             IN  sign * l.distance > 0 /\ l.id = next_id + 1
  <2>1. DistanceToStop(sign, requested) \in Int
    BY Distances, Numbers
  <2>2. Submitted(sign, requested, h, k).distance = sign * DistanceToStop(sign, requested)
        /\ Submitted(sign, requested, h, k).id = next_id + 1
    BY DEF Submitted
  <2> DEFINE d == DistanceToStop(sign, requested)
  <2> HIDE DEF d
  <2>3. d \in Int /\ d > 0 => sign * (sign * d) > 0
    OBVIOUS
  <2> QED BY <1>1, <2>1, <2>2, <2>3 DEF d
<1>2. CASE ShiftMove(sign)
  <2> DEFINE l == Submitted(sign, Step, FALSE, FALSE)
  <2>1. Jog(sign, Step, FALSE, FALSE) /\ UNCHANGED single_jog_id
    BY <1>2 DEF ShiftMove
  <2>2. \/ UNCHANGED <<commands, next_id, last_command, untracked>>
        \/ l \in Lines /\ DistanceToStop(sign, Step) > 0 /\ Submits(l)
    BY <1>0, <2>1, Jogs
  <2>3. l \in Lines /\ DistanceToStop(sign, Step) > 0 /\ Submits(l) => Adds(sign, hold, l)
    BY <1>0, <1>1, <1>2 DEF Adds, ShiftAdds
  <2> HIDE DEF l
  <2> QED BY <2>1, <2>2, <2>3
<1>3. CASE Press(sign, hold)
  <2>1. CASE UNCHANGED line
    BY <2>1
  <2>2. CASE PressJog(sign, hold) /\ Sampled
    <3> DEFINE requested == IF hold THEN NoLeft ELSE Step
               l == Submitted(sign, requested, hold, TRUE)
    <3>1. requested \in 0..NoLeft
      BY <1>0
    <3>2. Jog(sign, requested, hold, TRUE) /\ held_axis' = IF hold THEN "hold" ELSE "single"
      BY <2>2 DEF PressJog
    <3>3. single_jog_id' = IF ~hold /\ last_command' # last_command THEN last_command' ELSE single_jog_id
      BY <2>2 DEF PressJog
    <3>4. \/ UNCHANGED <<commands, next_id, last_command, untracked>>
          \/ l \in Lines /\ DistanceToStop(sign, requested) > 0 /\ Submits(l)
      BY <3>1, <3>2, Jogs
    <3>5. CASE UNCHANGED <<commands, next_id, last_command, untracked>>
      BY <3>3, <3>5
    <3>6. CASE l \in Lines /\ DistanceToStop(sign, requested) > 0 /\ Submits(l)
      <4>1. sign * l.distance > 0 /\ l.id = next_id + 1
        BY <1>1, <3>1, <3>6
      <4>2. last_command' = l.id /\ last_command' # last_command
        <5>1. last_command \in 0..next_id /\ next_id \in Nat
          BY Numbers DEF TypeOK
        <5>2. last_command' = next_id + 1
          BY <3>6, <4>1 DEF Submits
        <5>3. next_id + 1 # last_command
          BY <5>1
        <5> QED BY <4>1, <5>2, <5>3
      <4>3. single_jog_id' = IF hold THEN single_jog_id ELSE l.id
        BY <3>3, <4>2
      <4>4. KeyAdds(sign, hold, l)
        BY <1>3, <2>2, <3>2, <4>3 DEF KeyAdds
      <4> QED BY <3>6, <4>1, <4>4 DEF Adds
    <3> QED BY <3>4, <3>5, <3>6
  <2> QED BY <1>3, <2>1, <2>2 DEF Press, PressJog, PressFeed
<1> QED BY <1>2, <1>3

\* Every other step leaves the lines alone, drops them all, or takes the first.
Calm == UNCHANGED <<commands, next_id, completed_id>>
Drops == commands' = <<>> /\ UNCHANGED <<next_id, completed_id>>
LEMMA Effects ==
  ASSUME TypeOK, Apart, [Next]_vars
  PROVE  \/ Calm \/ Drops \/ Execute
         \/ \E sign \in {-1, 1}, hold \in BOOLEAN, l \in Lines : Adds(sign, hold, l)
<1>1. ASSUME NEW sign \in {-1, 1}, NEW hold \in BOOLEAN, ShiftMove(sign) \/ Press(sign, hold)
      PROVE  Calm \/ \E l \in Lines : Adds(sign, hold, l)
  <2>1. UNCHANGED completed_id
    BY <1>1 DEF ShiftMove, Press
  <2> QED BY <1>1, <2>1, Presses DEF Calm
<1>2. CASE Release
  <2>1. UNCHANGED <<next_id, completed_id>>
    BY <1>2 DEF Release
  <2>2. CancelUiMotion \/ UNCHANGED commands
    BY <1>2 DEF Release, StopsHold
  <2> QED BY <2>1, <2>2, CancelEmpties DEF Calm, Drops
<1>3. CASE SetStop \/ SelectTab \/ Stop
  BY <1>3, CancelEmpties DEF SetStop, SelectTab, Stop, Drops
<1>4. CASE EditSetting
  <2>1. \/ CancelUiMotion /\ UNCHANGED <<next_id, completed_id>>
        \/ UNCHANGED bridge
    BY <1>4 DEF EditSetting, StopsCycle
  <2> QED BY <2>1, CancelEmpties DEF Calm, Drops
<1>5. CASE SetJogLimits \/ (\E right \in Rights, left \in Lefts : ApplyLimits(right, left))
           \/ Preview \/ ClosePreview \/ RunCycle \/ StartFeed \/ Sync \/ UNCHANGED vars
  BY <1>5 DEF SetJogLimits, ApplyLimits, Preview, ClosePreview, RunCycle, StartFeed, Sync, vars, Calm
<1>6. CASE CancelPoll \/ Publish \/ Move \/ OperationPoll \/ Reset
  BY <1>6 DEF CancelPoll, Publish, Move, OperationPoll, Reset, Calm, Drops
<1> QED BY <1>1, <1>2, <1>3, <1>4, <1>5, <1>6 DEF Next

LEMMA OrderStep ==
  ASSUME TypeOK, Apart, InOrder, [Next]_vars
  PROVE  InOrder'
<1>0. commands \in Seq(Lines) /\ completed_id \in Int /\ next_id \in Int /\ Len(commands) \in Nat
      /\ completed_id <= next_id
  BY Numbers DEF TypeOK
<1>i. \A n \in 1..Len(commands) : commands[n].id \in Int
  BY Numbered
<1>1. CASE Calm
  BY <1>1 DEF Calm, InOrder
<1>2. CASE Drops
  BY <1>2, NoLines DEF Drops, InOrder
<1>3. CASE Execute
  <2>1. commands # <<>> /\ completed_id' = Head(commands).id /\ UNCHANGED next_id
    BY <1>3 DEF Execute
  <2>2. CASE commands' = <<>>
    BY <2>2, NoLines DEF InOrder
  <2>3. CASE commands' = Tail(commands)
    <3>1. /\ Head(commands) = commands[1] /\ 1 \in 1..Len(commands)
          /\ \A n \in 1..Len(commands') : n + 1 \in 1..Len(commands) /\ commands'[n] = commands[n + 1]
      BY <1>0, <2>1, <2>3, Taken
    <3>2. ASSUME NEW n \in 1..Len(commands')
          PROVE  completed_id' < commands'[n].id /\ commands'[n].id <= next_id'
      <4>1. 1 < n + 1 /\ n + 1 \in 1..Len(commands)
        BY <3>1, <3>2
      <4> QED BY <2>1, <3>1, <3>2, <4>1 DEF InOrder
    <3>3. ASSUME NEW m \in 1..Len(commands'), NEW n \in 1..Len(commands'), m < n
          PROVE  commands'[m].id < commands'[n].id
      <4>1. m + 1 < n + 1 /\ m + 1 \in 1..Len(commands) /\ n + 1 \in 1..Len(commands)
        BY <3>1, <3>3
      <4> QED BY <3>1, <3>3, <4>1 DEF InOrder
    <3> QED BY <3>2, <3>3 DEF InOrder
  <2> QED BY <1>3, <2>2, <2>3 DEF Execute
<1>4. ASSUME NEW sign \in {-1, 1}, NEW hold \in BOOLEAN, NEW l \in Lines, Adds(sign, hold, l)
      PROVE  InOrder'
  <2>1. commands' = Append(commands, l) /\ next_id' = next_id + 1 /\ l.id = next_id + 1
        /\ UNCHANGED completed_id
    BY <1>4 DEF Adds, Submits, KeyAdds, ShiftAdds, Press, ShiftMove
  <2>2. \A n \in 1..Len(commands') :
          (n \in 1..Len(commands) /\ commands'[n] = commands[n])
            \/ (n = Len(commands) + 1 /\ commands'[n] = l)
    BY <1>0, <2>1, Appended
  <2>3. ASSUME NEW n \in 1..Len(commands')
        PROVE  completed_id' < commands'[n].id /\ commands'[n].id <= next_id'
    <3>1. CASE n \in 1..Len(commands) /\ commands'[n] = commands[n]
      <4>1. completed_id < commands[n].id /\ commands[n].id <= next_id /\ commands[n].id \in Int
        BY <1>i, <3>1 DEF InOrder
      <4> QED BY <1>0, <2>1, <3>1, <4>1
    <3>2. CASE commands'[n] = l
      BY <1>0, <2>1, <3>2
    <3> QED BY <2>2, <2>3, <3>1, <3>2
  <2>4. ASSUME NEW m \in 1..Len(commands'), NEW n \in 1..Len(commands'), m < n
        PROVE  commands'[m].id < commands'[n].id
    <3>1. m \in 1..Len(commands) /\ commands'[m] = commands[m]
      <4>1. m # Len(commands) + 1
        BY <1>0, <2>2, <2>4
      <4> QED BY <2>2, <2>4, <4>1
    <3>2. CASE n \in 1..Len(commands) /\ commands'[n] = commands[n]
      BY <2>4, <3>1, <3>2 DEF InOrder
    <3>3. CASE commands'[n] = l
      <4>1. commands[m].id <= next_id /\ commands[m].id \in Int
        BY <1>i, <3>1 DEF InOrder
      <4> QED BY <1>0, <2>1, <3>1, <3>3, <4>1
    <3> QED BY <2>2, <2>4, <3>2, <3>3
  <2> QED BY <2>3, <2>4 DEF InOrder
<1> QED BY <1>1, <1>2, <1>3, <1>4, Effects

----------------------------------------------------------------------------
(* The panel keeps track of the lines that wait. *)

AllTracked == \A n \in 1..Len(commands) : Tracked(commands[n])

\* A step that keeps what the panel knows of its lines.
LEMMA TrackedStill ==
  ASSUME AllTracked, UNCHANGED <<commands, untracked, last_command, single_jog_id>>,
         Generation' = Generation, last_generation' = last_generation,
         \/ UNCHANGED <<finger, held_axis>>
         \/ \A n \in 1..Len(commands) :
              ~(commands[n].hold /\ commands[n].key /\ ~commands[n].blind)
  PROVE  AllTracked'
BY DEF AllTracked, Tracked

LEMMA TrackedNone == ASSUME commands' = <<>> PROVE AllTracked'
BY NoLines DEF AllTracked

\* While no finger is on a key, no Hold jog waits.
LEMMA NoHoldWaits ==
  ASSUME AllTracked, ~(finger /\ held_axis = "hold")
  PROVE  \A n \in 1..Len(commands) : ~(commands[n].hold /\ commands[n].key /\ ~commands[n].blind)
BY DEF AllTracked, Tracked

LEMMA TrackedAdds ==
  ASSUME TypeOK, AllTracked, NEW sign \in {-1, 1}, NEW hold \in BOOLEAN, NEW l \in Lines,
         Adds(sign, hold, l)
  PROVE  AllTracked'
<1>0. /\ commands \in Seq(Lines) /\ next_id \in Nat /\ untracked \in 0..next_id
      /\ single_jog_id \in 0..next_id /\ Len(commands) \in Nat
  BY Numbers DEF TypeOK
<1>1. /\ commands' = Append(commands, l) /\ next_id' = next_id + 1 /\ l.id = next_id + 1
      /\ last_command' = l.id /\ untracked' = IF l.key /\ ~l.blind THEN untracked ELSE l.id
  BY DEF Adds, Submits
<1>2. UNCHANGED <<published, last_generation>>
  BY DEF Adds, KeyAdds, ShiftAdds, Press, ShiftMove
<1>3. ~finger
  BY DEF Adds, KeyAdds, ShiftAdds, Press, ShiftMove, Tap
<1>4. \A n \in 1..Len(commands') :
        (n \in 1..Len(commands) /\ commands'[n] = commands[n])
          \/ (n = Len(commands) + 1 /\ commands'[n] = l)
  BY <1>0, <1>1, Appended
<1>5. single_jog_id' = single_jog_id \/ single_jog_id' = l.id
  BY DEF Adds, KeyAdds, ShiftAdds, ShiftMove
<1>6. ASSUME NEW n \in 1..Len(commands), commands[n].id \in Int
      PROVE  Tracked(commands[n])'
  <2> DEFINE k == commands'[n]
  <2>1. commands'[n] = commands[n] /\ Tracked(commands[n])
    BY <1>0, <1>1, <1>6 DEF AllTracked
  <2>2. untracked <= untracked' /\ single_jog_id <= single_jog_id'
    BY <1>0, <1>1, <1>5
  <2>3. commands[n].hold => commands[n].key
    BY <2>1 DEF Tracked
  <2>4. ~commands[n].key \/ commands[n].blind => commands[n].id <= untracked'
    <3>1. ~commands[n].key \/ commands[n].blind => commands[n].id <= untracked
      BY <2>1 DEF Tracked
    <3>2. untracked \in Int /\ untracked' \in Int
      BY <1>0, <1>1
    <3> QED BY <1>6, <2>2, <3>1, <3>2
  <2>5. CASE commands[n].key /\ ~commands[n].blind
    <3>1. /\ Generation = last_generation /\ commands[n].id <= last_command
          /\ ~commands[n].hold /\ commands[n].id <= single_jog_id
      BY <1>3, <2>1, <2>5 DEF Tracked
    <3>2. single_jog_id \in Int /\ single_jog_id' \in Int
      BY <1>0, <1>1, <1>5
    <3>3. commands[n].id <= single_jog_id'
      BY <1>6, <2>2, <3>1, <3>2
    <3>4. commands[n].id <= last_command'
      BY <1>0, <1>1, <1>6, <3>1
    <3> QED BY <1>2, <2>1, <2>3, <2>4, <3>1, <3>3, <3>4 DEF Tracked
  <2> QED BY <2>1, <2>3, <2>4, <2>5 DEF Tracked
<1>7. Tracked(l)'
  <2>1. CASE \E requested \in {Step, NoLeft} : l = Submitted(sign, requested, FALSE, FALSE)
    BY <1>1, <2>1 DEF Tracked, Submitted
  <2>2. CASE KeyAdds(sign, hold, l)
    <3>1. /\ l.key /\ l.hold = hold /\ (l.blind <=> Generation # last_generation)
          /\ single_jog_id' = IF hold THEN single_jog_id ELSE l.id
          /\ held_axis' = IF hold THEN "hold" ELSE "single"
      BY <2>2 DEF KeyAdds, Submitted
    <3>2. finger' = TRUE
      BY <2>2 DEF KeyAdds, Press
    <3>3. l.id <= last_command' /\ l.id <= l.id
      BY <1>0, <1>1
    <3> QED BY <1>1, <1>2, <3>1, <3>2, <3>3 DEF Tracked
  <2> QED BY <2>1, <2>2 DEF Adds, ShiftAdds
<1>8. \A n \in 1..Len(commands) : commands[n].id \in Int
  BY Numbered
<1>9. ASSUME NEW n \in 1..Len(commands') PROVE Tracked(commands[n])'
  <2>1. CASE n \in 1..Len(commands)
    BY <1>6, <1>8, <2>1
  <2>2. CASE commands'[n] = l
    BY <1>7, <2>2 DEF Tracked
  <2> QED BY <1>4, <1>9, <2>1, <2>2
<1> QED BY <1>9 DEF AllTracked

LEMMA TrackedStep ==
  ASSUME TypeOK, Apart, AllTracked, [Next]_vars
  PROVE  AllTracked'
<1>1. ASSUME NEW sign \in {-1, 1}, NEW hold \in BOOLEAN, ShiftMove(sign) \/ Press(sign, hold)
      PROVE  AllTracked'
  <2>1. CASE UNCHANGED line
    <3>1. UNCHANGED <<published, last_generation>>
      BY <1>1 DEF ShiftMove, Press
    <3>2. ~finger
      BY <1>1 DEF ShiftMove, Press, Tap
    <3>3. \A n \in 1..Len(commands) : ~(commands[n].hold /\ commands[n].key /\ ~commands[n].blind)
      BY <3>2, NoHoldWaits
    <3> QED BY <2>1, <3>1, <3>3, TrackedStill
  <2> QED BY <1>1, <2>1, Presses, TrackedAdds
<1>2. CASE Release
  <2>1. UNCHANGED <<published, last_generation>> /\ finger' = FALSE
    BY <1>2 DEF Release
  <2>2. CASE CancelUiMotion
    BY <2>2, CancelEmpties, TrackedNone
  <2>3. CASE /\ UNCHANGED <<last_command, single_jog_id, untracked, commands>>
             /\ held_axis # "hold" \/ operation.busy = "feed"
    <3>1. CASE held_axis # "hold"
      <4>1. \A n \in 1..Len(commands) : ~(commands[n].hold /\ commands[n].key /\ ~commands[n].blind)
        BY <3>1, NoHoldWaits
      <4> QED BY <2>1, <2>3, <4>1, TrackedStill
    <3>2. CASE operation.busy = "feed"
      <4>1. commands' = <<>>
        BY <2>3, <3>2 DEF Apart
      <4> QED BY <4>1, TrackedNone
    <3> QED BY <2>3, <3>1, <3>2
  <2> QED BY <1>2, <2>2, <2>3 DEF Release, StopsHold
<1>3. CASE SetStop \/ SelectTab \/ Stop
  <2>1. commands' = <<>>
    BY <1>3, CancelEmpties DEF SetStop, SelectTab, Stop
  <2> QED BY <2>1, TrackedNone
<1>4. CASE EditSetting
  <2>1. UNCHANGED <<last_generation>> /\ (CancelUiMotion \/ UNCHANGED <<keys, bridge>>)
    BY <1>4 DEF EditSetting, StopsCycle
  <2>2. CASE CancelUiMotion
    BY <2>2, CancelEmpties, TrackedNone
  <2>3. CASE UNCHANGED <<keys, bridge>>
    BY <2>1, <2>3, TrackedStill
  <2> QED BY <2>1, <2>2, <2>3
<1>5. CASE SetJogLimits \/ (\E right \in Rights, left \in Lefts : ApplyLimits(right, left))
           \/ Preview \/ ClosePreview \/ RunCycle \/ StartFeed \/ UNCHANGED vars
  <2>1. UNCHANGED <<keys, bridge, last_generation>>
    BY <1>5 DEF SetJogLimits, ApplyLimits, LimitsEditable, Preview, ClosePreview, RunCycle, StartFeed,
                vars
  <2> QED BY <2>1, TrackedStill
<1>6. CASE Sync
  <2>1. /\ last_generation' = Generation
        /\ UNCHANGED <<finger, untracked, commands, published>>
    BY <1>6 DEF Sync
  <2>2. CASE Generation = last_generation
    <3>1. UNCHANGED <<last_command, single_jog_id, held_axis>>
      BY <1>6, <2>2 DEF Sync
    <3> QED BY <2>1, <2>2, <3>1, TrackedStill
  <2>3. CASE Generation # last_generation
    <3>1. ASSUME NEW n \in 1..Len(commands)
          PROVE  /\ commands[n].hold => commands[n].key
                 /\ ~(commands[n].key /\ ~commands[n].blind)
                 /\ commands[n].id <= untracked
      BY <2>3, <3>1 DEF AllTracked, Tracked
    <3> QED BY <2>1, <3>1 DEF AllTracked, Tracked
  <2> QED BY <2>2, <2>3
<1>7. CASE CancelPoll
  <2>1. CASE commands' = <<>>
    BY <2>1, TrackedNone
  <2>2. CASE UNCHANGED <<commands, untracked, published>>
    <3>1. UNCHANGED <<held_axis, single_jog_id, last_command, finger, last_generation>>
      BY <1>7 DEF CancelPoll
    <3> QED BY <2>2, <3>1, TrackedStill
  <2> QED BY <1>7, <2>1, <2>2 DEF CancelPoll
<1>8. CASE Publish
  <2>1. UNCHANGED <<keys, commands, last_generation>> /\ Generation' = Generation
    BY <1>8 DEF Publish, Published
  <2> QED BY <2>1, TrackedStill
<1>9. CASE Execute
  <2>1. UNCHANGED <<keys, published, last_generation>>
    BY <1>9 DEF Execute
  <2>2. CASE commands' = <<>>
    BY <2>2, TrackedNone
  <2>3. CASE commands # <<>> /\ commands' = Tail(commands)
    <3>1. commands \in Seq(Lines)
      BY DEF TypeOK
    <3>2. \A n \in 1..Len(commands') : n + 1 \in 1..Len(commands) /\ commands'[n] = commands[n + 1]
      BY <2>3, <3>1, Taken
    <3> QED BY <2>1, <3>2 DEF AllTracked, Tracked
  <2> QED BY <1>9, <2>2, <2>3 DEF Execute
<1>10. CASE Move \/ OperationPoll
  <2>1. UNCHANGED <<keys, bridge, last_generation>>
    BY <1>10 DEF Move, OperationPoll
  <2> QED BY <2>1, TrackedStill
<1>11. CASE Reset
  <2>1. commands' = <<>>
    BY <1>11 DEF Reset
  <2> QED BY <2>1, TrackedNone
<1> QED BY <1>1, <1>2, <1>3, <1>4, <1>5, <1>6, <1>7, <1>8, <1>9, <1>10, <1>11 DEF Next

----------------------------------------------------------------------------
(* A Hold jog under way, operations, and the position the panel relies on. *)

LEMMA HoldStep ==
  ASSUME TypeOK, Apart, AllTracked, HoldTracked, [Next]_vars
  PROVE  HoldTracked'
<1>1. ASSUME UNCHANGED <<jogging, published, last_generation>>,
             ~(finger /\ held_axis = "hold"), cancel_request => cancel_request'
      PROVE  HoldTracked'
  BY <1>1 DEF HoldTracked
<1>2. ASSUME UNCHANGED <<jogging, cancel_request, finger, held_axis, operation, last_generation>>,
             Generation' = Generation
      PROVE  HoldTracked'
  BY <1>2 DEF HoldTracked
<1>3. ASSUME jogging' = Still PROVE HoldTracked'
  BY <1>3 DEF HoldTracked, Still
<1>4. CancelUiMotion => (cancel_request => cancel_request')
  BY DEF CancelUiMotion, BridgeCancel
<1>5. ASSUME NEW sign \in {-1, 1}, NEW hold \in BOOLEAN, ShiftMove(sign) \/ Press(sign, hold)
      PROVE  HoldTracked'
  <2>1. /\ UNCHANGED <<jogging, published, last_generation, cancel_request>> /\ ~finger
    BY <1>5 DEF ShiftMove, Press, Tap
  <2> QED BY <1>1, <2>1
<1>6. CASE Release
  <2>1. UNCHANGED <<jogging, published, last_generation>>
    BY <1>6 DEF Release
  <2>2. CASE CancelUiMotion
    <3>1. CASE Busy
      <4>1. cancel_request' = cancel_request /\ (jogging.on /\ jogging.hold /\ ~jogging.blind => cancel_request)
        BY <2>2, <3>1 DEF CancelUiMotion, BridgeCancel, HoldTracked
      <4> QED BY <2>1, <4>1 DEF HoldTracked
    <3>2. CASE ~Busy
      <4>1. cancel_request'
        BY <2>2, <3>2 DEF CancelUiMotion, BridgeCancel
      <4> QED BY <2>1, <4>1 DEF HoldTracked
    <3> QED BY <3>1, <3>2
  <2>3. CASE UNCHANGED cancel_request /\ (held_axis # "hold" \/ operation.busy = "feed")
    <3>1. jogging.on /\ jogging.hold /\ ~jogging.blind => cancel_request
      BY <2>3 DEF HoldTracked
    <3> QED BY <2>1, <2>3, <3>1 DEF HoldTracked
  <2> QED BY <1>6, <2>2, <2>3 DEF Release, StopsHold
<1>7. CASE SetStop \/ SelectTab \/ Stop \/ EditSetting
  <2>1. UNCHANGED <<jogging, published, last_generation>> /\ ~finger
    BY <1>7 DEF SetStop, SelectTab, Stop, EditSetting, StopsCycle, Tap
  <2>2. CancelUiMotion \/ UNCHANGED cancel_request
    BY <1>7 DEF SetStop, SelectTab, Stop, EditSetting, StopsCycle
  <2> QED BY <1>1, <1>4, <2>1, <2>2
<1>8. CASE SetJogLimits \/ (\E right \in Rights, left \in Lefts : ApplyLimits(right, left))
           \/ Preview \/ ClosePreview \/ RunCycle \/ StartFeed
  <2>1. UNCHANGED <<jogging, published, last_generation, cancel_request>> /\ ~finger
    BY <1>8 DEF SetJogLimits, ApplyLimits, LimitsEditable, Preview, ClosePreview, RunCycle, StartFeed,
                Tap
  <2> QED BY <1>1, <2>1
<1>9. CASE Sync
  <2>1. /\ last_generation' = Generation
        /\ UNCHANGED <<finger, published, jogging, cancel_request, operation>>
    BY <1>9 DEF Sync
  <2>2. CASE Generation = last_generation
    <3>1. UNCHANGED held_axis
      BY <1>9, <2>2 DEF Sync
    <3> QED BY <1>2, <2>1, <2>2, <3>1
  <2>3. CASE Generation # last_generation
    BY <2>1, <2>3 DEF HoldTracked
  <2> QED BY <2>2, <2>3
<1>10. CASE CancelPoll \/ Reset
  BY <1>3, <1>10 DEF CancelPoll, Reset
<1>11. CASE Publish
  BY <1>2, <1>11 DEF Publish, Published
<1>12. CASE Execute
  <2> DEFINE first == Head(commands)
  <2>1. /\ commands # <<>> /\ ~jogging.on
        /\ UNCHANGED <<keys, published, last_generation, cancel_request, operation>>
    BY <1>12 DEF Execute
  <2>2. CASE UNCHANGED jogging
    BY <2>1, <2>2 DEF HoldTracked
  <2>3. CASE jogging' = [on |-> TRUE, hold |-> first.hold, blind |-> first.blind,
                         to |-> Least(Slide, Most(0, position + first.distance))]
    <3>1. Head(commands) = commands[1] /\ 1 \in 1..Len(commands)
      BY <2>1, Taken DEF TypeOK
    <3>2. Tracked(first)
      BY <3>1 DEF AllTracked
    <3>3. jogging'.hold = first.hold /\ jogging'.blind = first.blind
      BY <2>3
    <3>4. ~Busy
      BY <2>1 DEF Apart
    <3> HIDE DEF first
    <3>5. first.hold /\ ~first.blind => Generation = last_generation /\ finger /\ held_axis = "hold"
      BY <3>2 DEF Tracked
    <3> QED BY <2>1, <3>3, <3>4, <3>5 DEF HoldTracked
  <2> QED BY <1>12, <2>2, <2>3 DEF Execute
<1>13. CASE Move
  <2>1. UNCHANGED <<keys, published, cancel_request, operation, last_generation>>
        /\ (jogging' = jogging \/ jogging' = Still)
    BY <1>13 DEF Move
  <2> QED BY <1>2, <1>3, <2>1
<1>14. CASE OperationPoll
  <2>1. UNCHANGED <<jogging, published, cancel_request, last_generation>> /\ Busy
    BY <1>14 DEF OperationPoll
  <2>2. jogging.on /\ jogging.hold /\ ~jogging.blind => cancel_request /\ Generation = last_generation
    BY <2>1 DEF HoldTracked
  <2> QED BY <2>1, <2>2 DEF HoldTracked
<1>15. CASE UNCHANGED vars
  BY <1>2, <1>15 DEF vars
<1> QED BY <1>5, <1>6, <1>7, <1>8, <1>9, <1>10, <1>11, <1>12, <1>13, <1>14, <1>15 DEF Next

\* A cancel only asks an operation to stop.
LEMMA CancelKeeps ==
  ASSUME TypeOK, CancelUiMotion
  PROVE  operation'.busy = operation.busy /\ operation'.begun = operation.begun
BY DEF CancelUiMotion, BridgeCancel, TypeOK, Operations

LEMMA ApartStep ==
  ASSUME TypeOK, Apart, [Next]_vars
  PROVE  Apart'
<1>1. ASSUME UNCHANGED jogging, operation'.busy = operation.busy, operation'.begun = operation.begun,
             commands' = commands \/ commands' = <<>>
      PROVE  Apart'
  BY <1>1 DEF Apart
<1>2. ASSUME NEW sign \in {-1, 1}, NEW hold \in BOOLEAN, ShiftMove(sign) \/ Press(sign, hold)
      PROVE  Apart'
  <2>1. UNCHANGED <<jogging, operation>>
    BY <1>2 DEF ShiftMove, Press
  <2>2. CASE UNCHANGED line
    BY <1>1, <2>1, <2>2
  <2>3. ASSUME NEW l \in Lines, Adds(sign, hold, l) PROVE Apart'
    <3>1. ~Busy
      BY <2>3 DEF Adds, Submits
    <3> QED BY <2>1, <3>1 DEF Apart
  <2> QED BY <1>2, <2>2, <2>3, Presses
<1>3. CASE Release
  <2>1. UNCHANGED jogging
    BY <1>3 DEF Release
  <2>2. CASE CancelUiMotion
    BY <1>1, <2>1, <2>2, CancelKeeps, CancelEmpties
  <2>3. CASE UNCHANGED <<commands, operation>>
    BY <1>1, <2>1, <2>3
  <2> QED BY <1>3, <2>2, <2>3 DEF Release, StopsHold
<1>4. CASE SetStop \/ SelectTab \/ Stop
  <2>1. UNCHANGED jogging /\ CancelUiMotion
    BY <1>4 DEF SetStop, SelectTab, Stop
  <2> QED BY <1>1, <2>1, CancelKeeps, CancelEmpties
<1>5. CASE EditSetting
  <2>1. UNCHANGED jogging /\ (CancelUiMotion \/ UNCHANGED <<bridge, operation>>)
    BY <1>5 DEF EditSetting, StopsCycle
  <2> QED BY <1>1, <2>1, CancelKeeps, CancelEmpties
<1>6. CASE SetJogLimits \/ (\E right \in Rights, left \in Lefts : ApplyLimits(right, left))
           \/ Preview \/ ClosePreview \/ Sync \/ CancelPoll \/ Publish \/ UNCHANGED vars
  <2>1. UNCHANGED operation /\ (commands' = commands \/ commands' = <<>>)
        /\ (jogging' = jogging \/ jogging' = Still)
    BY <1>6 DEF SetJogLimits, ApplyLimits, Preview, ClosePreview, Sync, CancelPoll, Publish, vars
  <2> QED BY <2>1 DEF Apart, Still
<1>7. CASE RunCycle \/ StartFeed
  <2>1. PICK kind \in {"cycle", "feed"} : Request(kind)
    BY <1>7 DEF RunCycle, StartFeed
  <2>2. commands = <<>> /\ UNCHANGED <<commands, jogging>>
    BY <1>7 DEF RunCycle, StartFeed
  <2>3. CASE Busy
    BY <1>1, <2>1, <2>2, <2>3 DEF Request
  <2>4. CASE ~Busy
    <3>1. operation'.begun = FALSE
      BY <2>1, <2>4 DEF Request, NoOperation
    <3> QED BY <2>2, <3>1 DEF Apart
  <2> QED BY <2>3, <2>4
<1>8. CASE Execute
  BY <1>8 DEF Execute, Apart
<1>9. CASE Move
  <2>1. UNCHANGED <<operation, commands>> /\ jogging.on
    BY <1>9 DEF Move
  <2> QED BY <2>1 DEF Apart
<1>10. CASE OperationPoll
  <2>1. UNCHANGED <<commands, jogging>> /\ Busy
    BY <1>10 DEF OperationPoll
  <2>2. CASE /\ ~operation.begun /\ commands = <<>> /\ ~jogging.on
             /\ operation' = [operation EXCEPT !.begun = TRUE]
    <3>1. operation'.busy = operation.busy
      BY <2>2 DEF TypeOK, Operations
    <3> QED BY <2>1, <2>2, <3>1 DEF Apart
  <2>3. CASE UNCHANGED operation
    BY <1>1, <2>1, <2>3
  <2>4. CASE operation' = NoOperation
    BY <2>1, <2>4 DEF Apart, NoOperation
  <2> QED BY <1>10, <2>2, <2>3, <2>4 DEF OperationPoll
<1>11. CASE Reset
  <2>1. commands' = <<>> /\ jogging' = Still /\ operation' = NoOperation
    BY <1>11 DEF Reset
  <2> QED BY <2>1 DEF Apart, NoOperation, Still
<1> QED BY <1>2, <1>3, <1>4, <1>5, <1>6, <1>7, <1>8, <1>9, <1>10, <1>11 DEF Next

LEMMA AtRestStep ==
  ASSUME TypeOK, InOrder, Apart, AtRest, [Next]_vars
  PROVE  AtRest'
<1>1. ASSUME UNCHANGED <<completed_id, unseen, position>>, jogging' = jogging \/ jogging' = Still,
             published' = published \/ published' = [published EXCEPT !.generation = Generation + 1]
      PROVE  AtRest'
  <2>1. /\ published'.sampled = published.sampled /\ published'.moving = published.moving
        /\ published'.position = published.position
    BY <1>1 DEF TypeOK
  <2>2. jogging'.on => jogging.on
    BY <1>1 DEF Still
  <2> QED BY <1>1, <2>1, <2>2 DEF AtRest
<1>2. ASSUME NEW sign \in {-1, 1}, NEW hold \in BOOLEAN, ShiftMove(sign) \/ Press(sign, hold)
      PROVE  AtRest'
  BY <1>1, <1>2 DEF ShiftMove, Press
<1>3. CASE Release
  BY <1>1, <1>3 DEF Release
<1>4. CASE SetStop \/ SelectTab \/ Stop \/ EditSetting
  BY <1>1, <1>4 DEF SetStop, SelectTab, Stop, EditSetting, StopsCycle
<1>5. CASE SetJogLimits \/ (\E right \in Rights, left \in Lefts : ApplyLimits(right, left))
           \/ Preview \/ ClosePreview \/ RunCycle \/ StartFeed \/ Sync \/ UNCHANGED vars
  BY <1>1, <1>5 DEF SetJogLimits, ApplyLimits, Preview, ClosePreview, RunCycle, StartFeed, Sync, vars
<1>6. CASE CancelPoll \/ Reset
  BY <1>1, <1>6 DEF CancelPoll, Reset
<1>7. CASE Publish
  <2>1. PICK moving \in IF operation.begun THEN BOOLEAN ELSE {jogging.on} :
          published' = Published(moving, position, completed_id, Generation)
    BY <1>7 DEF Publish
  <2>2. UNCHANGED <<position, completed_id, jogging>>
    BY <1>7 DEF Publish
  <2>3. ~moving => ~jogging.on
    BY <2>1 DEF Apart
  <2>4. published'.moving = moving /\ published'.position = position
    BY <2>1 DEF Published
  <2> QED BY <2>2, <2>3, <2>4 DEF AtRest
<1>8. CASE Execute
  <2>1. commands # <<>> /\ completed_id' = Head(commands).id /\ UNCHANGED published
    BY <1>8 DEF Execute
  <2>2. Head(commands) = commands[1] /\ Head(commands) \in Lines /\ 1 \in 1..Len(commands)
    BY <2>1, Taken DEF TypeOK
  <2>3. completed_id < completed_id' /\ completed_id' \in Int
    BY <2>1, <2>2, Numbers DEF InOrder, Lines
  <2>4. published.sampled \in Int /\ completed_id \in Int /\ published.sampled <= completed_id
    BY Numbers DEF TypeOK
  <2>5. published'.sampled # completed_id'
    BY <2>1, <2>3, <2>4
  <2> QED BY <2>5 DEF AtRest
<1>9. CASE Move
  BY <1>9 DEF Move, AtRest
<1>10. CASE OperationPoll
  <2>1. UNCHANGED <<published, completed_id, jogging>> /\ (unseen' = TRUE \/ UNCHANGED <<position, unseen>>)
    BY <1>10 DEF OperationPoll
  <2> QED BY <2>1 DEF AtRest
<1> QED BY <1>2, <1>3, <1>4, <1>5, <1>6, <1>7, <1>8, <1>9, <1>10 DEF Next

----------------------------------------------------------------------------
(* A line that the panel vouches for. *)

\* A key that the panel lets pass with a position that is fresh is pressed when no
\* line waits and the lathe stands where the panel shows it.
LEMMA VouchedAlone ==
  ASSUME TypeOK, InOrder, AllTracked, AtRest, Tap, Sampled, published.sampled >= untracked
  PROVE  commands = <<>> /\ ~jogging.on /\ published.position = position
<1>0. /\ published.sampled \in Int /\ completed_id \in Int /\ published.sampled <= completed_id
      /\ single_jog_id \in Int /\ untracked \in Int /\ commands \in Seq(Lines)
  BY Numbers DEF TypeOK
<1>1. published.sampled >= single_jog_id /\ ~published.moving
  BY DEF Sampled
<1>2. published.sampled = completed_id
  <2>1. published.sampled < completed_id => single_jog_id = completed_id
    BY DEF Tap
  <2> QED BY <1>0, <1>1, <2>1
<1>3. ASSUME NEW n \in 1..Len(commands) PROVE FALSE
  <2>1. commands[n] \in Lines /\ commands[n].id \in Int
    BY Numbered
  <2>2. completed_id < commands[n].id
    BY DEF InOrder
  <2>3. Tracked(commands[n]) /\ ~finger
    BY DEF AllTracked, Tap
  <2>4. commands[n].id <= untracked \/ commands[n].id <= single_jog_id
    BY <2>3 DEF Tracked
  <2> QED BY <1>0, <1>1, <1>2, <2>1, <2>2, <2>4
<1>4. commands = <<>>
  BY <1>0, <1>3
<1> QED BY <1>1, <1>2, <1>4 DEF AtRest, Tap

\* Its distance ends inside the stops.
LEMMA Aims ==
  ASSUME TypeOK, NEW sign \in {-1, 1}, NEW requested \in 0..NoLeft,
         DistanceToStop(sign, requested) > 0, pos = position
  PROVE  jogLimitsEnabled /\ Inside(position)
           => Inside(position + sign * DistanceToStop(sign, requested))
<1> DEFINE d == DistanceToStop(sign, requested)
<1>1. d \in Int /\ d > 0 /\ position \in Int /\ leftStop \in Int /\ rightStop \in Int
  <2>1. d \in 0..NoLeft
    BY Distances
  <2>2. position \in Int /\ leftStop \in Int /\ rightStop \in Int
    BY Numbers DEF TypeOK
  <2> HIDE DEF d
  <2>3. d \in Int
    BY <2>1, Numbers
  <2>4. d > 0
    BY DEF d
  <2> QED BY <2>2, <2>3, <2>4
<1>2. jogLimitsEnabled => /\ sign > 0 /\ leftStop # NoLeft => pos + d <= leftStop
                          /\ sign < 0 /\ rightStop # NoRight => pos - d >= rightStop
  BY Distances
<1> HIDE DEF d
<1> SUFFICES ASSUME jogLimitsEnabled, Inside(position) PROVE Inside(position + sign * d)
    BY DEF d
<1>3. CASE sign = 1
  <2>1. position + sign * d = position + d
    BY <1>1, <1>3
  <2> QED BY <1>1, <1>2, <1>3, <2>1 DEF Inside
<1>4. CASE sign = -1
  <2>1. position + sign * d = position - d
    BY <1>1, <1>4
  <2> QED BY <1>1, <1>2, <1>4, <2>1 DEF Inside
<1> QED BY <1>3, <1>4

\* A step that changes nothing a line aims by.
LEMMA ReadyStill ==
  ASSUME Ready, UNCHANGED <<commands, position, jogLimitsEnabled, leftStop, rightStop>>,
         jogging' = jogging \/ jogging' = Still
  PROVE  Ready'
BY DEF Ready, Aimed, Vouched, Inside, Still

LEMMA ReadyNone == ASSUME commands' = <<>> PROVE Ready'
BY NoLines DEF Ready

LEMMA ReadyAdds ==
  ASSUME TypeOK, InOrder, AllTracked, AtRest, Ready,
         NEW sign \in {-1, 1}, NEW hold \in BOOLEAN, NEW l \in Lines, Adds(sign, hold, l)
  PROVE  Ready'
<1>0. commands \in Seq(Lines) /\ Len(commands) \in Nat
  BY DEF TypeOK
<1>1. commands' = Append(commands, l)
  BY DEF Adds, Submits
<1>2. UNCHANGED <<position, jogging, stops>>
  BY DEF Adds, KeyAdds, ShiftAdds, Press, ShiftMove
<1>3. \A n \in 1..Len(commands') :
        (n \in 1..Len(commands) /\ commands'[n] = commands[n])
          \/ (n = Len(commands) + 1 /\ commands'[n] = l)
  BY <1>0, <1>1, Appended
<1>4. CASE Vouched(l)
  <2>1. KeyAdds(sign, hold, l)
    BY <1>4 DEF Adds, ShiftAdds, Submitted, Vouched
  <2> DEFINE requested == IF hold THEN NoLeft ELSE Step
  <2>2. /\ Tap /\ Sampled /\ l = Submitted(sign, requested, hold, TRUE)
    BY <2>1 DEF KeyAdds, Press
  <2>3. ~(published.sampled < untracked) /\ pos = published.position
    BY <1>4, <2>2 DEF Vouched, Submitted
  <2>4. published.sampled >= untracked
    <3>1. published.sampled \in Int /\ untracked \in Int
      BY Numbers DEF TypeOK
    <3> QED BY <2>3, <3>1
  <2>5. commands = <<>> /\ ~jogging.on /\ pos = position
    BY <2>2, <2>3, <2>4, VouchedAlone
  <2>6. requested \in 0..NoLeft
    BY Numbers
  <2>7. DistanceToStop(sign, requested) > 0
    <3>1. sign * l.distance > 0 /\ l.distance = sign * DistanceToStop(sign, requested)
      BY <2>2 DEF Adds, Submitted
    <3> DEFINE d == DistanceToStop(sign, requested)
    <3>2. d \in Int
      BY <2>6, Distances, Numbers
    <3> HIDE DEF d
    <3>3. sign * (sign * d) = d
      BY <3>2
    <3> QED BY <3>1, <3>3 DEF d
  <2>8. Aimed(l)
    <3>1. l.distance = sign * DistanceToStop(sign, requested)
      BY <2>2 DEF Submitted
    <3> QED BY <2>5, <2>6, <2>7, <3>1, Aims DEF Aimed
  <2>9. Len(commands') = 1 /\ commands'[1] = l
    BY <1>0, <1>1, <2>5
  <2>10. Aimed(commands[1])'
    BY <1>2, <2>8, <2>9 DEF Aimed, Inside
  <2> QED BY <1>2, <2>5, <2>9, <2>10 DEF Ready
<1>5. CASE ~Vouched(l)
  <2>1. ASSUME NEW n \in 1..Len(commands'), Vouched(commands[n])'
        PROVE  n = 1 /\ ~jogging'.on /\ Aimed(commands[1])'
    <3>1. n \in 1..Len(commands) /\ commands'[n] = commands[n]
      BY <1>3, <1>5, <2>1 DEF Vouched
    <3>2. Vouched(commands[n])
      BY <2>1, <3>1 DEF Vouched
    <3>3. n = 1 /\ ~jogging.on /\ Aimed(commands[1])
      BY <3>1, <3>2 DEF Ready
    <3> QED BY <1>2, <3>1, <3>3 DEF Aimed, Inside
  <2> QED BY <2>1 DEF Ready
<1> QED BY <1>4, <1>5

\* While the limits may be edited no such line waits.
LEMMA EditableAlone ==
  ASSUME TypeOK, InOrder, AllTracked, LimitsEditable
  PROVE  \A n \in 1..Len(commands) : ~Vouched(commands[n])
<1>1. published.sampled >= last_command
  BY DEF LimitsEditable
<1>2. /\ published.sampled \in Int /\ completed_id \in Int /\ published.sampled <= completed_id
      /\ last_command \in Int /\ commands \in Seq(Lines)
  BY Numbers DEF TypeOK
<1> SUFFICES ASSUME NEW n \in 1..Len(commands), Vouched(commands[n]) PROVE FALSE
    OBVIOUS
<1>3. commands[n].id \in Int
  BY Numbered
<1>4. commands[n].id <= last_command
  BY DEF AllTracked, Tracked, Vouched
<1>5. completed_id < commands[n].id
  BY DEF InOrder
<1> QED BY <1>1, <1>2, <1>3, <1>4, <1>5

LEMMA ReadyStep ==
  ASSUME TypeOK, InOrder, AllTracked, Apart, AtRest, Ready, [Next]_vars
  PROVE  Ready'
<1>1. ASSUME NEW sign \in {-1, 1}, NEW hold \in BOOLEAN, ShiftMove(sign) \/ Press(sign, hold)
      PROVE  Ready'
  <2>1. UNCHANGED <<position, jogging, stops>>
    BY <1>1 DEF ShiftMove, Press
  <2>2. CASE UNCHANGED line
    BY <2>1, <2>2, ReadyStill
  <2> QED BY <1>1, <2>2, Presses, ReadyAdds
<1>2. CASE Release
  <2>1. UNCHANGED <<position, jogging, stops>>
    BY <1>2 DEF Release
  <2>2. CancelUiMotion \/ UNCHANGED commands
    BY <1>2 DEF Release, StopsHold
  <2> QED BY <2>1, <2>2, CancelEmpties, ReadyNone, ReadyStill
<1>3. CASE SetStop \/ SelectTab \/ Stop
  BY <1>3, CancelEmpties, ReadyNone DEF SetStop, SelectTab, Stop
<1>4. CASE EditSetting
  <2>1. UNCHANGED <<position, jogging, stops>> /\ (CancelUiMotion \/ UNCHANGED bridge)
    BY <1>4 DEF EditSetting, StopsCycle
  <2> QED BY <2>1, CancelEmpties, ReadyNone, ReadyStill
<1>5. CASE SetJogLimits \/ (\E right \in Rights, left \in Lefts : ApplyLimits(right, left))
  <2>1. UNCHANGED commands /\ LimitsEditable
    BY <1>5 DEF SetJogLimits, ApplyLimits
  <2> QED BY <2>1, EditableAlone DEF Ready, Vouched
<1>6. CASE Preview \/ ClosePreview \/ RunCycle \/ StartFeed \/ Sync \/ Publish \/ UNCHANGED vars
  <2>1. UNCHANGED <<commands, position, jogging, stops>>
    BY <1>6 DEF Preview, ClosePreview, RunCycle, StartFeed, Sync, Publish, vars
  <2> QED BY <2>1, ReadyStill
<1>7. CASE CancelPoll
  <2>1. UNCHANGED <<position, stops>> /\ jogging' = Still /\ (commands' = commands \/ commands' = <<>>)
    BY <1>7 DEF CancelPoll
  <2> QED BY <2>1, ReadyNone, ReadyStill
<1>8. CASE Execute
  <2>1. CASE commands' = <<>>
    BY <2>1, ReadyNone
  <2>2. CASE commands # <<>> /\ commands' = Tail(commands)
    <3>1. commands \in Seq(Lines)
      BY DEF TypeOK
    <3>2. \A n \in 1..Len(commands') : n + 1 \in 1..Len(commands) /\ commands'[n] = commands[n + 1]
      BY <2>2, <3>1, Taken
    <3>3. ASSUME NEW n \in 1..Len(commands') PROVE ~Vouched(commands'[n])
      <4>1. n + 1 # 1
        BY <3>1
      <4> QED BY <3>2, <4>1 DEF Ready
    <3> QED BY <3>3 DEF Ready, Vouched
  <2> QED BY <1>8, <2>1, <2>2 DEF Execute
<1>9. CASE Move
  <2>1. UNCHANGED commands /\ jogging.on
    BY <1>9 DEF Move
  <2> QED BY <2>1 DEF Ready, Vouched
<1>10. CASE OperationPoll
  <2>1. commands' = <<>>
    BY <1>10 DEF OperationPoll, Apart
  <2> QED BY <2>1, ReadyNone
<1>11. CASE Reset
  BY <1>11, ReadyNone DEF Reset
<1> QED BY <1>1, <1>2, <1>3, <1>4, <1>5, <1>6, <1>7, <1>8, <1>9, <1>10, <1>11 DEF Next

----------------------------------------------------------------------------
(* The panel: what holds of every behaviour. *)

LEMMA InitInv == Init => Inv
<1> SUFFICES ASSUME Init PROVE Inv
    OBVIOUS
<1>1. TypeOK
  BY TypeInit
<1>2. Len(commands) = 0 /\ ~Busy /\ ~operation.begun /\ ~jogging.on
  BY NoLines DEF Init, Still, NoOperation
<1>3. published.position = position
  BY DEF Init, Published
<1>4. InOrder /\ AllTracked /\ Ready
  BY <1>2 DEF InOrder, AllTracked, Ready
<1>5. HoldTracked /\ Apart /\ AtRest
  BY <1>2, <1>3 DEF HoldTracked, Apart, AtRest, Init
<1> QED BY <1>1, <1>4, <1>5 DEF Inv, AllTracked

LEMMA NextInv == Inv /\ [Next]_vars => Inv'
<1> SUFFICES ASSUME Inv, [Next]_vars PROVE Inv'
    OBVIOUS
<1>1. /\ TypeOK /\ InOrder /\ AllTracked /\ HoldTracked /\ Apart /\ AtRest /\ Ready
  BY DEF Inv, AllTracked
<1>2. TypeOK' /\ InOrder' /\ AllTracked'
  BY <1>1, TypeStep, OrderStep, TrackedStep
<1>3. HoldTracked' /\ Apart' /\ AtRest' /\ Ready'
  BY <1>1, HoldStep, ApartStep, AtRestStep, ReadyStep
<1> QED BY <1>2, <1>3 DEF Inv, AllTracked

\* Inv holds of every behaviour of the panel.
THEOREM PanelInductive == Spec => []Inv
BY InitInv, NextInv, PTL DEF Spec

\* Every variable of the panel and of the bridge holds a value of its type.
THEOREM PanelTypeCorrect == Spec => []TypeOK
<1>1. Inv => TypeOK
  BY DEF Inv
<1> QED BY <1>1, PanelInductive, PTL

\* A Hold jog is under way or waits only while the finger holds its key, or its
\* cancel is on the way.
THEOREM HoldsNeedFinger == Spec => []HoldNeedsFinger
<1>1. Inv => HoldNeedsFinger
  BY DEF Inv, HoldNeedsFinger, Continuous, HoldTracked, Tracked
<1> QED BY <1>1, PanelInductive, PTL

\* A jog that starts inside the stops ends inside them.
THEOREM JogsStayInside == Spec => StartsInside
<1>1. ASSUME Inv, TakesKey, jogLimitsEnabled,
             ~Head(commands).behind, ~Head(commands).stale, ~Head(commands).blind
      PROVE  KeepsInside
  <2>1. commands # <<>> /\ Head(commands).key
    BY <1>1 DEF TakesKey
  <2>2. Head(commands) = commands[1] /\ 1 \in 1..Len(commands)
    BY <1>1, <2>1, Taken DEF Inv, TypeOK
  <2>3. Aimed(commands[1])
    BY <1>1, <2>1, <2>2 DEF Inv, Ready, Vouched
  <2> QED BY <1>1, <2>2, <2>3 DEF KeepsInside, Aimed
<1> QED BY <1>1, PanelInductive, PTL DEF StartsInside

\* An operation that was requested before an edit is being stopped.
THEOREM EditsStop == Spec => []EditStops
<1>1. Init => EditStops
  BY DEF Init, EditStops
<1>2. TypeOK /\ EditStops /\ [Next]_vars => EditStops'
  <2> SUFFICES ASSUME TypeOK, EditStops, [Next]_vars PROVE EditStops'
      OBVIOUS
  <2>0. ASSUME CancelUiMotion PROVE Busy' => operation'.stopping
    BY <2>0 DEF CancelUiMotion, BridgeCancel, TypeOK, Operations
  <2>1. CASE (\E sign \in {-1, 1} : ShiftMove(sign) \/ \E hold \in BOOLEAN : Press(sign, hold))
             \/ SetJogLimits \/ (\E right \in Rights, left \in Lefts : ApplyLimits(right, left))
             \/ Preview \/ ClosePreview \/ Sync \/ CancelPoll \/ Publish \/ Execute \/ Move
             \/ UNCHANGED vars
    <3>1. UNCHANGED <<operation, edited>>
      BY <2>1 DEF ShiftMove, Press, SetJogLimits, ApplyLimits, Preview, ClosePreview, Sync,
                  CancelPoll, Publish, Execute, Move, vars
    <3> QED BY <3>1 DEF EditStops
  <2>2. CASE Release
    <3>1. UNCHANGED edited /\ (CancelUiMotion \/ UNCHANGED operation)
      BY <2>2 DEF Release, StopsHold
    <3> QED BY <2>0, <3>1 DEF EditStops
  <2>3. CASE SetStop \/ SelectTab \/ Stop
    BY <2>0, <2>3 DEF SetStop, SelectTab, Stop, EditStops
  <2>4. CASE EditSetting
    <3>1. CASE CancelUiMotion
      BY <2>0, <3>1 DEF EditStops
    <3>2. CASE operation.busy # "cycle" /\ UNCHANGED operation
      BY <2>4, <3>2 DEF EditSetting, EditStops
    <3> QED BY <2>4, <3>1, <3>2 DEF EditSetting, StopsCycle
  <2>5. CASE RunCycle \/ StartFeed
    BY <2>5 DEF RunCycle, StartFeed, Request, EditStops
  <2>6. CASE OperationPoll
    <3>1. CASE ~operation.stopping /\ operation' = [operation EXCEPT !.begun = TRUE]
      BY <2>6, <3>1 DEF OperationPoll, EditStops
    <3>2. CASE UNCHANGED operation
      BY <2>6, <3>2 DEF OperationPoll, EditStops
    <3>3. CASE operation' = NoOperation
      BY <3>3 DEF NoOperation, EditStops
    <3> QED BY <2>6, <3>1, <3>2, <3>3 DEF OperationPoll
  <2>7. CASE Reset
    BY <2>7 DEF Reset, EditStops
  <2> QED BY <2>1, <2>2, <2>3, <2>4, <2>5, <2>6, <2>7 DEF Next
<1> QED BY <1>1, <1>2, PanelTypeCorrect, PTL DEF Spec

----------------------------------------------------------------------------
(* The limit editor. *)

Integral == /\ Coordinates \subseteq Int /\ Offsets \subseteq Int
            /\ Scales \subseteq Int /\ Positions \subseteq Int

ReadAsEdited(i) ==
  LimitSteps(asked[i].value, edit.measure, edit.zero[AxisFor(i)], asked[i].scale)
DraftRow(i) ==
  /\ asked[i].kind \in {"typed", "unset", "kept", "current"}
  /\ asked[i].kind = "typed" => draft[i] = ReadAsEdited(i)
  /\ asked[i].kind = "unset" => draft[i] = Unset(i)
  /\ asked[i].kind = "kept" /\ open => draft[i] = endpoints[i]
  /\ asked[i].kind = "typed" => /\ draft[i] \in Int /\ Convertible(draft[i])
                                /\ asked[i].value \in Coordinates /\ asked[i].scale \in Scales
Shape ==
  /\ status \in Status /\ edit.zero \in Zeros
  /\ draft = [i \in Rows |-> draft[i]]
  /\ endpoints = [i \in Rows |-> endpoints[i]]
  /\ asked = [i \in Rows |-> asked[i]]
  /\ keypad \in Rows \cup {0}
EditorInv == Shape /\ \A i \in Rows : DraftRow(i)

\* A converted coordinate is a number of steps.
LEMMA StepsInt ==
  ASSUME Integral, NEW v \in Coordinates, NEW unit, NEW o \in Offsets, NEW s \in Scales
  PROVE  LimitSteps(v, unit, o, s) \in Int
<1> DEFINE f == IF unit = "metric" THEN 10 ELSE 254
           n == (v * f + o) * s
<1>1. v \in Int /\ o \in Int /\ s \in Int /\ f \in Int
  BY DEF Integral
<1> HIDE DEF f
<1>2. n \in Int
  BY <1>1
<1>3. LimitSteps(v, unit, o, s) = Rounded(n, 10000)
  BY DEF LimitSteps, f
<1> HIDE DEF n
<1> QED
  BY <1>2, <1>3 DEF Rounded

LEMMA EditorInitInv == EditorInit => EditorInv
<1> SUFFICES ASSUME EditorInit PROVE EditorInv
  OBVIOUS
<1>1. Shape
  BY DEF EditorInit, Shape, Status
<1>2. ASSUME NEW i \in Rows PROVE DraftRow(i)
  BY <1>2 DEF EditorInit, DraftRow, Kept
<1> QED
  BY <1>1, <1>2 DEF EditorInv

\* A step that leaves the draft and what was asked alone, and the endpoints while editing.
LEMMA EditorStillInv ==
  ASSUME EditorInv, UNCHANGED <<draft, asked, edit>>, status' \in Status,
         keypad' \in Rows \cup {0},
         endpoints' = [i \in Rows |-> endpoints'[i]], open' => open /\ endpoints' = endpoints
  PROVE  EditorInv'
<1>1. Shape'
  BY DEF EditorInv, Shape
<1>2. ASSUME NEW i \in Rows PROVE DraftRow(i)'
  BY <1>2 DEF EditorInv, DraftRow, ReadAsEdited
<1> QED
  BY <1>1, <1>2 DEF EditorInv

LEMMA EditorNextInv == Integral /\ EditorInv /\ [EditorNext]_editorVars => EditorInv'
<1> SUFFICES ASSUME Integral, EditorInv, [EditorNext]_editorVars PROVE EditorInv'
  OBVIOUS
<1>s. Shape
  BY DEF EditorInv
<1>1. CASE NewStatus \/ Measure \/ Cancel \/ Apply \/ UNCHANGED editorVars
  <2>1. UNCHANGED <<draft, asked, edit, keypad>> /\ status' \in Status
    BY <1>1, <1>s DEF NewStatus, Measure, Cancel, Apply, editorVars, Shape
  <2>2. endpoints' = [i \in Rows |-> endpoints'[i]] /\ (open' => open /\ endpoints' = endpoints)
    BY <1>1, <1>s DEF NewStatus, Measure, Cancel, Apply, editorVars, Shape
  <2> QED
    BY <2>1, <2>2, <1>s, EditorStillInv DEF Shape
<1>2. CASE Endstop
  <2>1. UNCHANGED <<draft, asked, edit, keypad, status, open>> /\ ~open
    BY <1>2 DEF Endstop
  <2>2. endpoints' = [i \in Rows |-> endpoints'[i]]
    BY <1>2, <1>s DEF Endstop, Shape
  <2> QED
    BY <2>1, <2>2, <1>s, EditorStillInv DEF Shape
<1>3. CASE Show
  <2>1. Shape'
    BY <1>3, <1>s DEF Show, Shape, Status
  <2>2. ASSUME NEW i \in Rows PROVE DraftRow(i)'
    BY <1>3, <2>2 DEF Show, DraftRow, Kept
  <2> QED
    BY <2>1, <2>2 DEF EditorInv
<1>4. ASSUME NEW i \in Rows, EnterValue(i) PROVE EditorInv'
  <2>1. UNCHANGED <<endpoints, status, open, draft, edit, asked>> /\ keypad' = i
    BY <1>4 DEF EnterValue
  <2> QED
    BY <2>1, <1>s, EditorStillInv DEF Shape
<1>5. ASSUME NEW i \in Rows, UseCurrent(i) \/ Clear(i) PROVE EditorInv'
  <2>1. UNCHANGED <<endpoints, status, open, edit, keypad>>
    BY <1>5 DEF UseCurrent, Clear
  <2>2. CASE UNCHANGED <<draft, asked>>
    BY <2>1, <2>2, <1>s, EditorStillInv DEF Shape
  <2>3. CASE /\ draft' = [draft EXCEPT ![i] = status.position[AxisFor(i)]]
             /\ asked' = [asked EXCEPT ![i] = [kind |-> "current"]]
    <3>1. Shape'
      BY <1>s, <2>1, <2>3 DEF Shape
    <3>2. ASSUME NEW j \in Rows PROVE DraftRow(j)'
      BY <1>s, <2>1, <2>3, <3>2 DEF Shape, EditorInv, DraftRow, ReadAsEdited
    <3> QED
      BY <3>1, <3>2 DEF EditorInv
  <2>4. CASE /\ draft' = [draft EXCEPT ![i] = Unset(i)]
             /\ asked' = [asked EXCEPT ![i] = [kind |-> "unset"]]
    <3>1. Shape'
      BY <1>s, <2>1, <2>4 DEF Shape
    <3>2. ASSUME NEW j \in Rows PROVE DraftRow(j)'
      BY <1>s, <2>1, <2>4, <3>2 DEF Shape, EditorInv, DraftRow, ReadAsEdited
    <3> QED
      BY <3>1, <3>2 DEF EditorInv
  <2> QED
    BY <1>5, <2>2, <2>3, <2>4 DEF UseCurrent, Clear
<1>6. ASSUME NEW v \in Coordinates, Enter(v) PROVE EditorInv'
  <2> DEFINE k == keypad
             scale == status.scale[AxisFor(k)]
             steps == LimitSteps(v, measure, status.zero[AxisFor(k)], scale)
  <2>1. UNCHANGED <<endpoints, status, open, edit>> /\ keypad' = 0 /\ k \in Rows
    BY <1>6, <1>s DEF Enter, Shape
  <2>2. CASE UNCHANGED <<draft, asked>>
    BY <2>1, <2>2, <1>s, EditorStillInv DEF Shape
  <2>3. CASE /\ CoordinatesUnchanged /\ Convertible(steps)
             /\ draft' = [draft EXCEPT ![k] = steps]
             /\ asked' = [asked EXCEPT ![k] = Typed(v, scale)]
    <3>1. Shape'
      BY <1>s, <2>1, <2>3 DEF Shape
    <3>2. AxisFor(k) \in Axes
      BY DEF AxisFor, Axes
    <3>3. scale \in Scales /\ status.zero[AxisFor(k)] \in Offsets
      BY <1>s, <3>2 DEF Shape, Status, Zeros, Axes
    <3>4. steps \in Int
      BY <3>3, StepsInt
    <3>5. steps = LimitSteps(v, edit.measure, edit.zero[AxisFor(k)], scale)
      BY <2>3 DEF CoordinatesUnchanged
    <3> HIDE DEF steps, scale, k
    <3>6. ASSUME NEW j \in Rows PROVE DraftRow(j)'
      <4>1. CASE j = k
        <5>1. draft'[j] = steps /\ asked'[j] = Typed(v, scale) /\ edit' = edit
          BY <1>s, <2>1, <2>3, <4>1 DEF Shape
        <5>2. ReadAsEdited(j)' = steps
          BY <3>5, <4>1, <5>1 DEF ReadAsEdited, Typed
        <5> QED
          BY <2>3, <3>3, <3>4, <5>1, <5>2 DEF DraftRow, Typed
      <4>2. CASE j # k
        <5>1. draft'[j] = draft[j] /\ asked'[j] = asked[j] /\ DraftRow(j)
          BY <1>s, <2>1, <2>3, <3>6, <4>2 DEF Shape, EditorInv
        <5> QED
          BY <2>1, <5>1 DEF DraftRow, ReadAsEdited
      <4> QED
        BY <4>1, <4>2
    <3> QED
      BY <3>1, <3>6 DEF EditorInv
  <2> QED
    BY <1>6, <2>2, <2>3 DEF Enter
<1> QED
  BY <1>1, <1>2, <1>3, <1>4, <1>5, <1>6 DEF EditorNext

LEMMA EditorInvariance == ASSUME Integral PROVE EditorSpec => []EditorInv
<1>1. EditorInit => EditorInv
  BY EditorInitInv
<1>2. EditorInv /\ [EditorNext]_editorVars => EditorInv'
  BY EditorNextInv
<1> QED
  BY <1>1, <1>2, PTL DEF EditorSpec

\* An applied edit is what was asked, in the unit and the work zero on the screen.
THEOREM EditsApplyAsAsked == ASSUME Integral PROVE EditorSpec => AppliedAsAsked
<1>1. ASSUME EditorInv, Apply PROVE \A i \in Rows : endpoints'[i] = Meaning(i)
  <2> TAKE i \in Rows
  <2>1. endpoints' = draft /\ CoordinatesUnchanged /\ open
    BY <1>1 DEF Apply
  <2>2. DraftRow(i)
    BY <1>1 DEF EditorInv
  <2>3. CASE asked[i].kind = "typed"
    BY <2>1, <2>2, <2>3 DEF DraftRow, ReadAsEdited, Meaning, CoordinatesUnchanged
  <2>4. CASE asked[i].kind # "typed"
    BY <2>1, <2>2, <2>4 DEF DraftRow, Meaning
  <2> QED
    BY <2>3, <2>4
<1> QED
  BY <1>1, EditorInvariance, PTL DEF AppliedAsAsked

\* A typed endpoint never reads as unset.
THEOREM TypedEndpointsAreSet == ASSUME Integral PROVE EditorSpec => []TypedIsSet
<1>1. EditorInv => TypedIsSet
  BY DEF EditorInv, DraftRow, TypedIsSet, Convertible, LONG_MIN, LONG_MAX
<1> QED
  BY <1>1, EditorInvariance, PTL

\* A larger number converts to no fewer steps.
LEMMA RoundedGrows ==
  ASSUME NEW m \in Int, NEW n \in Int, m <= n
  PROVE  Rounded(m, 10000) <= Rounded(n, 10000)
  BY SMT DEF Rounded

LEMMA StepsGrow ==
  ASSUME NEW v \in Int, NEW w \in Int, NEW unit, NEW o \in Int, NEW s \in Nat, v <= w
  PROVE  LimitSteps(v, unit, o, s) <= LimitSteps(w, unit, o, s)
<1>1. PICK f \in Nat : f = IF unit = "metric" THEN 10 ELSE 254
  OBVIOUS
<1>2. PICK d \in Nat : d = w - v /\ w = v + d
  BY SMT
<1>3. d * f \in Nat /\ (v + d) * f = v * f + d * f
  BY SMT
<1>4. (d * f) * s \in Nat /\ ((v * f + o) + d * f) * s = (v * f + o) * s + (d * f) * s
  BY <1>3, SMT
<1>5. (v * f + o) * s \in Int /\ (w * f + o) * s \in Int
  BY SMT
<1>6. (v * f + o) * s <= (w * f + o) * s
  BY <1>2, <1>3, <1>4, <1>5, SMT
<1>7. Rounded((v * f + o) * s, 10000) <= Rounded((w * f + o) * s, 10000)
  BY <1>5, <1>6, RoundedGrows
<1> QED
  BY <1>1, <1>7 DEF LimitSteps

\* What was typed out of order is not applied.
THEOREM EditsApplyInOrder ==
  ASSUME Integral, Scales \subseteq Nat
  PROVE  EditorSpec => AppliedInOrder
<1>1. ASSUME EditorInv, Apply, NEW low \in {1, 3}
      PROVE  TypedInOrder(low)
  <2> SUFFICES ASSUME asked[low].kind = "typed", asked[low + 1].kind = "typed",
                      asked[low].scale = asked[low + 1].scale
               PROVE  asked[low].value < asked[low + 1].value
    BY DEF TypedInOrder
  <2>1. low \in Rows /\ low + 1 \in Rows /\ AxisFor(low + 1) = AxisFor(low) /\ AxisFor(low) \in Axes
    BY SMT DEF Rows, AxisFor, Axes
  <2>2. PICK a \in Int, b \in Int : a = draft[low] /\ b = draft[low + 1]
                                  /\ Convertible(a) /\ Convertible(b)
    BY <1>1, <2>1 DEF EditorInv, DraftRow
  <2>3. a < b
    <3>1. a # LONG_MIN /\ b # LONG_MAX
      BY <2>2, SMT DEF Convertible, LONG_MIN, LONG_MAX
    <3>2. Ordered(draft, low)
      BY <1>1 DEF Apply, Accepted
    <3> QED
      BY <2>2, <3>1, <3>2 DEF Ordered
  <2>4. PICK v \in Int, w \in Int, o \in Int, s \in Nat :
          /\ v = asked[low].value /\ w = asked[low + 1].value
          /\ a = LimitSteps(v, edit.measure, o, s) /\ b = LimitSteps(w, edit.measure, o, s)
    <3>1. /\ DraftRow(low) /\ DraftRow(low + 1) /\ edit.zero \in Zeros
      BY <1>1, <2>1 DEF EditorInv, Shape
    <3>2. edit.zero[AxisFor(low)] \in Offsets
      BY <2>1, <3>1 DEF Zeros, Axes
    <3> QED
      BY <2>1, <2>2, <3>1, <3>2 DEF DraftRow, ReadAsEdited, Integral
  <2>5. LimitSteps(w, edit.measure, o, s) <= LimitSteps(v, edit.measure, o, s) => b <= a
    BY <2>4
  <2>6. w <= v => b <= a
    BY <2>4, <2>5, StepsGrow
  <2>7. ~(w <= v)
    BY <2>2, <2>3, <2>6, SMT
  <2> QED
    BY <2>4, <2>7, SMT
<1>2. EditorInv /\ Apply => TypedInOrder(1) /\ TypedInOrder(3)
  BY <1>1
<1> QED
  BY <1>2, EditorInvariance, PTL DEF AppliedInOrder
=============================================================================
