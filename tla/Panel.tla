------------------------------- MODULE Panel -------------------------------
(***************************************************************************)
(* The settings half of the touch screen: the operation tabs, the setting  *)
(* buttons with their number pad, the pitch picker and the sound switch    *)
(* (components/lathe_ui), and the record of preferences every frame hands  *)
(* to storage.  The motion half is module Operator; the write to flash is  *)
(* module Storage.                                                         *)
(*                                                                         *)
(* A button is redrawn only when a cached copy of what it showed differs   *)
(* from the setting, is hidden outside the operations it belongs to, and   *)
(* is placed in a column by a table of its own.  The actions are the       *)
(* touch callbacks and the frame of ui_task; all of them hold the display  *)
(* lock, so each is one step.  No action relies on one panel covering      *)
(* another.  A label is abstracted to the value it was drawn from, the     *)
(* number being typed to its value.                                        *)
(***************************************************************************)
EXTENDS Integers

CONSTANTS One,    \* the number 1, in the smallest unit the number pad types
          Typed   \* the numbers the operator types, in that unit

VARIABLES
  settings,     \* mode .. jogContinuous, the globals of ui.cpp
  saved,        \* storage.c: valid and preferences
  flash,        \* the blob "ui_v1"
  keypad,       \* Numpad: visible, currentAction, currentValue
  picker,       \* PitchPicker::visible
  sound,        \* SettingsScreen: visible, and the position of its switch
  tab,          \* what the tab selector names, and previousTabId
  shift,        \* shiftButtonState
  label,        \* the value each button was last drawn from
  last,         \* the cached values: lastTurnPassesValue, lastDuprValue, ...
  visible,      \* the buttons LVGL shows
  lastVisible,  \* the cached flags: lastPassesButtonVisible, ...
  row,          \* where in the settings column a button was placed
  isOn,         \* isOn, kept by the motion half
  busy          \* lathe_cycle_busy()

drawing == <<label, last, visible, lastVisible>>
vars == <<settings, saved, flash, keypad, picker, sound, tab, shift, label, last,
          visible, lastVisible, row, isOn, busy>>

-----------------------------------------------------------------------------
(* The settings.                                                           *)

Modes == {"normal", "async", "cone", "turn", "face", "cut", "thread", "ellipse"}
Rapids == 0
UnitSteps(measure) == IF measure = "metric" THEN {10000, 1000, 100} ELSE {25400, 2540, 254}
PASSES_MAX == 999
STARTS_MAX == 124
RATIO_MAX == 10000 * One
INT_MAX == 2147483647

Defaults == [mode |-> "normal", measure |-> "metric", moveStep |-> 10000, dupr |-> 1000,
             pitchType |-> "mm", turnPasses |-> 1, starts |-> 1, coneRatio |-> One,
             auxForward |-> FALSE, sound |-> TRUE, jogContinuous |-> TRUE]

\* The picker's three pages, in tenths of a micron per turn; the imperial page holds 25.4 / TPI
\* for 6 to 14, 16, 18 and 20 TPI, rounded down.
TurningPitches == {500, 750, 1000, 1250, 1500, 1750, 2000, 2250, 2500}
MetricPitches == {2500, 3000, 4000, 5000, 7000, 7500, 8000, 10000, 12500, 15000, 20000, 25000}
ImperialPitches == {42333, 36285, 31750, 28222, 25400, 23090, 21166, 19538, 18142, 15875,
                    14111, 12700}
Picks == [dupr : TurningPitches \cup MetricPitches, pitchType : {"mm"}]
           \cup [dupr : ImperialPitches, pitchType : {"tpi"}]

\* valid_preferences(): what storage accepts.
Acceptable(p) ==
  /\ p.mode \in Modes
  /\ p.measure \in {"metric", "inch"}
  /\ p.pitchType \in {"mm", "tpi", "inch"}
  /\ -10000000 <= p.dupr /\ p.dupr <= 10000000
  /\ 0 <= p.moveStep /\ p.moveStep <= 10000000
  /\ 0 < p.turnPasses /\ p.turnPasses <= 999
  /\ 0 < p.starts /\ p.starts <= 124
  /\ -RATIO_MAX <= p.coneRatio /\ p.coneRatio <= RATIO_MAX

\* lathe_preferences_set(), which every lathe_ui_sync() calls.
Save(old, s) == IF Acceptable(s) THEN [valid |-> TRUE, prefs |-> s] ELSE old

-----------------------------------------------------------------------------
(* The buttons.                                                            *)

Column == {"cone", "aux", "starts", "passes"}
Widgets == Column \cup {"run", "pitch", "step", "jog"}

\* The operations a button belongs to: shouldShow in its update function.
ShownIn ==
  [cone |-> {"cone"}, starts |-> {"thread"}, aux |-> {"turn", "face", "thread", "ellipse"},
   passes |-> {"turn", "face", "thread", "cut", "ellipse"}]
Applies(w, mode) == w \in Column => mode \in ShownIn[w]

\* What the update function of a button compares with its cache and draws.
Value(w, s, on) ==
  CASE w = "cone" -> s.coneRatio
    [] w = "aux" -> s.auxForward
    [] w = "starts" -> s.starts
    [] w = "passes" -> s.turnPasses
    [] w = "run" -> on
    [] w = "pitch" -> <<s.dupr, s.pitchType>>
    [] w = "step" -> <<s.moveStep, s.measure>>
    [] w = "jog" -> <<s.jogContinuous, s.moveStep = Rapids>>

\* The update functions of the buttons in W.
Stale(W, w, s, on) == w \in W /\ Applies(w, s.mode) /\ last[w] # Value(w, s, on)
Flips(W, w, s) == w \in W /\ Applies(w, s.mode) # lastVisible[w]
Update(W, s, on) ==
  /\ label' = [w \in Widgets |-> IF Stale(W, w, s, on) THEN Value(w, s, on) ELSE label[w]]
  /\ last' = [w \in Widgets |-> IF Stale(W, w, s, on) THEN Value(w, s, on) ELSE last[w]]
  /\ visible' = [w \in Widgets |-> IF Flips(W, w, s) THEN Applies(w, s.mode) ELSE visible[w]]
  /\ lastVisible' =
       [w \in Widgets |-> IF Flips(W, w, s) THEN Applies(w, s.mode) ELSE lastVisible[w]]

\* repositionButtons(): the buttons of the operation from the top of the column,
\* the others where they were.
PlacedIn ==
  [cone |-> {"cone"}, aux |-> {"turn", "face", "thread", "ellipse"}, starts |-> {"thread"},
   passes |-> {"turn", "face", "cut", "thread", "ellipse"}]
Placed(w, mode) == mode \in PlacedIn[w]
Below(w, mode, y) == IF Placed(w, mode) THEN y + 1 ELSE y
Rows(mode, old) ==
  LET aux == Below("cone", mode, 1)
      starts == Below("aux", mode, aux)
      passes == Below("starts", mode, starts)
      y == [cone |-> 1, aux |-> aux, starts |-> starts, passes |-> passes]
  IN  [w \in Column |-> IF Placed(w, mode) THEN y[w] ELSE old[w]]
AsCreated == [cone |-> 1, aux |-> 2, starts |-> 3, passes |-> 4]

-----------------------------------------------------------------------------
(* Start-up.                                                               *)

\* lathe_ui_start() and ui_task() up to its loop, with the preferences f in flash: the
\* buttons are created from the restored settings, then initialize() selects the first tab.
Restored(f) == IF f.valid THEN f.prefs ELSE Defaults
Started(f) == [Restored(f) EXCEPT !.mode = "normal"]
Hidden == [visible |-> FALSE, action |-> "passes", entry |-> 0]
CreatedLabel(f) == [w \in Widgets |-> Value(w, Restored(f), FALSE)]
CreatedVisible(f) == [w \in Widgets |-> Applies(w, Restored(f).mode)]

Nothing == [valid |-> FALSE, prefs |-> Defaults]
Init ==
  /\ flash = Nothing /\ saved = Save(Nothing, Started(Nothing))
  /\ settings = Started(Nothing)
  /\ keypad = Hidden /\ picker = FALSE /\ shift = FALSE /\ isOn = FALSE /\ busy = FALSE
  /\ sound = [visible |-> FALSE, switch |-> TRUE]
  /\ tab = [shown |-> "normal", previous |-> "normal"]
  /\ label = CreatedLabel(Nothing) /\ last = CreatedLabel(Nothing)
  /\ visible = CreatedVisible(Nothing) /\ lastVisible = CreatedVisible(Nothing)
  /\ row = Rows("normal", AsCreated)

\* The power fails and returns; RAM is lost and flash is kept.
Restart ==
  /\ settings' = Started(flash) /\ saved' = Save(flash, Started(flash))
  /\ keypad' = Hidden /\ picker' = FALSE /\ shift' = FALSE /\ isOn' = FALSE /\ busy' = FALSE
  /\ sound' = [visible |-> FALSE, switch |-> Started(flash).sound]
  /\ tab' = [shown |-> "normal", previous |-> "normal"]
  /\ label' = CreatedLabel(flash) /\ last' = CreatedLabel(flash)
  /\ visible' = CreatedVisible(flash) /\ lastVisible' = CreatedVisible(flash)
  /\ row' = Rows("normal", AsCreated)
  /\ UNCHANGED flash

\* lathe_storage_poll() has written the preferences it copied.
Flush == flash' = saved /\ UNCHANGED <<settings, saved, keypad, picker, sound, tab, shift,
                                       drawing, row, isOn, busy>>

\* An operation starts or ends in the grblHAL task.
Operation == busy' \in BOOLEAN /\ UNCHANGED <<settings, saved, flash, keypad, picker, sound,
                                              tab, shift, drawing, row, isOn>>

\* One pass of ui_task's loop: lathe_ui_sync(), which may change isOn, then every update
\* function.
Frame ==
  /\ isOn' \in BOOLEAN
  /\ saved' = Save(saved, settings)
  /\ Update(Widgets, settings, isOn')
  /\ UNCHANGED <<settings, flash, keypad, picker, sound, tab, shift, row, busy>>

-----------------------------------------------------------------------------
(* Touches.                                                                *)

\* A callback that changes a setting and redraws the button that changed it.
Change(s, W) ==
  /\ settings' = s
  /\ Update(W, s, isOn)
  /\ UNCHANGED <<saved, flash, sound, tab, shift, row, isOn, busy>>

AuxToggle ==
  /\ visible["aux"]
  /\ Change([settings EXCEPT !.auxForward = ~@], {"aux"})
  /\ UNCHANGED <<keypad, picker>>

PitchSign ==
  /\ Change([settings EXCEPT !.dupr = -@], {"pitch"})
  /\ UNCHANGED <<keypad, picker>>

\* buttonMoveStepPress(): the next smaller step of the unit, Rapids after the smallest, and
\* the largest after Rapids or after anything else.
NextStep(s) ==
  CASE s.measure = "metric" /\ s.moveStep = 10000 -> 1000
    [] s.measure = "metric" /\ s.moveStep = 1000 -> 100
    [] s.measure = "metric" /\ s.moveStep = 100 -> Rapids
    [] s.measure = "metric" /\ s.moveStep \notin {10000, 1000, 100} -> 10000
    [] s.measure # "metric" /\ s.moveStep = 25400 -> 2540
    [] s.measure # "metric" /\ s.moveStep = 2540 -> 254
    [] s.measure # "metric" /\ s.moveStep = 254 -> Rapids
    [] s.measure # "metric" /\ s.moveStep \notin {25400, 2540, 254} -> 25400
StepPress ==
  /\ Change([settings EXCEPT !.moveStep = NextStep(settings)], {"step"})
  /\ UNCHANGED <<keypad, picker>>

\* buttonMeasurePress(), a long press on the same button.
OtherMeasure(s) ==
  LET measure == IF s.measure = "metric" THEN "inch" ELSE "metric"
      first == IF measure = "metric" THEN 10000 ELSE 25400
  IN  [s EXCEPT !.measure = measure,
                !.moveStep = IF s.moveStep # Rapids THEN first ELSE Rapids]
MeasurePress ==
  /\ Change(OtherMeasure(settings), {"step"})
  /\ UNCHANGED <<keypad, picker>>

JogMode ==
  /\ settings.moveStep # Rapids
  /\ Change([settings EXCEPT !.jogContinuous = ~@], {"jog"})
  /\ UNCHANGED <<keypad, picker>>

PickerShow == picker' = TRUE /\ UNCHANGED <<settings, saved, flash, keypad, sound, tab, shift,
                                            drawing, row, isOn, busy>>
PickerBack == picker' = FALSE /\ UNCHANGED <<settings, saved, flash, keypad, sound, tab,
                                             shift, drawing, row, isOn, busy>>
\* onPitchSelected: setDupr() with the positive pitch of the button, so a left-hand thread
\* has its sign chosen again.
Pick ==
  /\ picker
  /\ picker' = FALSE
  /\ \E p \in Picks :
       Change([settings EXCEPT !.dupr = p.dupr, !.pitchType = p.pitchType], {"pitch"})
  /\ UNCHANGED keypad

\* Numpad::show() from the setting buttons; PASSES answers only while no operation runs.
Show(action) == keypad' = [visible |-> TRUE, action |-> action, entry |-> 0]
Keypads ==
  /\ \/ \E w \in {"cone", "starts"} : visible[w] /\ Show(w)
     \/ visible["passes"] /\ ~busy /\ Show("passes")
     \/ shift /\ ~isOn /\ Show("move")
     \/ shift /\ Show("stop")
  /\ UNCHANGED <<settings, saved, flash, picker, sound, tab, shift, drawing, row, isOn, busy>>

\* addDigit(), addDecimalPoint(), backspace(): another number stands in the display.
Key ==
  /\ keypad.visible
  /\ \E v \in Typed : keypad' = [keypad EXCEPT !.entry = v]
  /\ UNCHANGED <<settings, saved, flash, picker, sound, tab, shift, drawing, row, isOn, busy>>

\* handleNumpadCallback(): the conversion to int drops the fraction and saturates; a number
\* out of range leaves the setting alone.  Typed moves and endstops are module Operator's.
AsInt(v) == IF v \div One > INT_MAX THEN INT_MAX ELSE v \div One
Entered(s, k) ==
  LET n == AsInt(k.entry)
  IN  CASE k.action = "passes" /\ 1 <= n /\ n <= PASSES_MAX -> [s EXCEPT !.turnPasses = n]
        [] k.action = "starts" /\ 1 <= n /\ n <= STARTS_MAX -> [s EXCEPT !.starts = n]
        [] k.action = "cone" /\ 0 < k.entry -> [s EXCEPT !.coneRatio = k.entry]
        [] OTHER -> s
Enter ==
  /\ keypad.visible
  /\ keypad' = [keypad EXCEPT !.visible = FALSE]
  /\ Change(Entered(settings, keypad), {})
  /\ UNCHANGED picker
Cancel ==
  /\ keypad.visible
  /\ keypad' = [keypad EXCEPT !.visible = FALSE]
  /\ UNCHANGED <<settings, saved, flash, picker, sound, tab, shift, drawing, row, isOn, busy>>

\* onMenuItemClick() and onTabSelected() of an operation: the buttons move at once, and are
\* shown and hidden by the next frame.  setModeFromTask() stops what runs.
SelectTab(m) ==
  /\ tab' = [shown |-> m, previous |-> m]
  /\ settings' = [settings EXCEPT !.mode = m]
  /\ isOn' = IF settings.mode # m THEN FALSE ELSE isOn
  /\ row' = Rows(m, row)
  /\ UNCHANGED <<saved, flash, keypad, picker, sound, shift, drawing, busy>>

\* The firmware tab leaves the operation as it is; the settings tab opens its screen and
\* puts the selector back.
SelectUpdate ==
  /\ tab' = [tab EXCEPT !.shown = "update"]
  /\ isOn' \in BOOLEAN
  /\ UNCHANGED <<settings, saved, flash, keypad, picker, sound, shift, drawing, row, busy>>
SelectSettings ==
  /\ sound' = [visible |-> TRUE, switch |-> settings.sound]
  /\ tab' = [tab EXCEPT !.shown = tab.previous]
  /\ UNCHANGED <<settings, saved, flash, keypad, picker, shift, drawing, row, isOn, busy>>

BuzzerToggle ==
  /\ sound.visible
  /\ sound' = [sound EXCEPT !.switch = ~@]
  /\ settings' = [settings EXCEPT !.sound = ~sound.switch]
  /\ UNCHANGED <<saved, flash, keypad, picker, tab, shift, drawing, row, isOn, busy>>
CloseSettings ==
  /\ sound' = [sound EXCEPT !.visible = FALSE]
  /\ UNCHANGED <<settings, saved, flash, keypad, picker, tab, shift, drawing, row, isOn, busy>>

\* buttonOnOffPress(), whose effect on isOn is module Operator's.
StartStop ==
  /\ isOn' \in BOOLEAN
  /\ Update({"run"}, settings, isOn')
  /\ UNCHANGED <<settings, saved, flash, keypad, picker, sound, tab, shift, row, busy>>
Shift == shift' = ~shift /\ UNCHANGED <<settings, saved, flash, keypad, picker, sound, tab,
                                        drawing, row, isOn, busy>>

Next ==
  \/ Restart \/ Flush \/ Operation \/ Frame
  \/ AuxToggle \/ PitchSign \/ StepPress \/ MeasurePress \/ JogMode
  \/ PickerShow \/ PickerBack \/ Pick
  \/ Keypads \/ Key \/ Enter \/ Cancel
  \/ \E m \in Modes : SelectTab(m)
  \/ SelectUpdate \/ SelectSettings \/ BuzzerToggle \/ CloseSettings \/ StartStop \/ Shift

Spec == Init /\ [][Next]_vars

-----------------------------------------------------------------------------
(* Properties.                                                             *)

Steps == {Rapids} \cup UnitSteps("metric") \cup UnitSteps("inch")
Pitches == {d \in Int : -42333 <= d /\ d <= 42333}
Settings ==
  [mode : Modes, measure : {"metric", "inch"}, moveStep : Steps, dupr : Pitches,
   pitchType : {"mm", "tpi"}, turnPasses : 1 .. PASSES_MAX, starts : 1 .. STARTS_MAX,
   coneRatio : Nat \ {0}, auxForward : BOOLEAN, sound : BOOLEAN, jogContinuous : BOOLEAN]

KeypadType ==
  [visible : BOOLEAN, action : {"passes", "starts", "cone", "move", "stop"}, entry : Nat]

\* Every variable has its type.
TypeOK ==
  /\ settings \in Settings
  /\ saved \in [valid : BOOLEAN, prefs : Settings]
  /\ flash \in [valid : BOOLEAN, prefs : Settings]
  /\ keypad \in KeypadType
  /\ picker \in BOOLEAN /\ shift \in BOOLEAN /\ isOn \in BOOLEAN /\ busy \in BOOLEAN
  /\ sound \in [visible : BOOLEAN, switch : BOOLEAN]
  /\ tab \in [shown : Modes \cup {"update"}, previous : Modes]

\* Whatever the operator types or picks, in any order and over any restart, storage accepts
\* the settings - but for a cone ratio above 10000, which the number pad takes
\* (NormalOperationMode.cpp:864) and valid_preferences() refuses (storage.c:85).
SettingsAcceptable == settings.coneRatio <= RATIO_MAX => Acceptable(settings)

\* The jog step belongs to the unit on the screen, or is Rapids: a step is never read in
\* the other unit after the unit, the step and Rapids were changed in any order.
StepOfUnit == settings.moveStep \in {Rapids} \cup UnitSteps(settings.measure)

\* The tab selector names the operation in force, or the firmware tab over it: the operation
\* restored at start-up is given up with the selector on the first tab.
SelectorNamesMode ==
  tab.previous = settings.mode /\ tab.shown \in {settings.mode, "update"}

\* The open settings screen shows whether the buzzer sounds.
SwitchShows == sound.visible => sound.switch = settings.sound

\* What a frame leaves on the screen: the buttons of the operation and no other, each with
\* the value of its setting, although a hidden button is not redrawn and the caches are
\* compared instead of the labels ...
ShownIsCurrent ==
  \A w \in Widgets : /\ visible[w] = Applies(w, settings.mode)
                     /\ visible[w] => label[w] = Value(w, settings, isOn)
\* ... no two of them in the same place ...
ButtonsApart ==
  \A v, w \in Column : visible[v] /\ visible[w] /\ v # w => row[v] # row[w]
\* ... and the preferences storage holds are the ones on the screen.
SavedIsShown ==
  settings.coneRatio <= RATIO_MAX => saved = [valid |-> TRUE, prefs |-> settings]

\* A frame, whatever was touched before it, leaves the screen and storage as the settings are.
FrameSettles == [][Frame => ShownIsCurrent' /\ ButtonsApart' /\ SavedIsShown']_vars
=============================================================================
