---------------------------- MODULE PanelProofs ----------------------------
(***************************************************************************)
(* Proofs about module Panel, for every scale of the number pad and every  *)
(* set of numbers typed.  The invariant IInv says that the preferences in  *)
(* storage are settings the panel once had, that every cache agrees with   *)
(* what is drawn, and that the buttons of the operation are placed apart.  *)
(***************************************************************************)
EXTENDS Panel, TLAPS

UnitOK(s) == s.moveStep \in {Rapids} \cup UnitSteps(s.measure)
UnitsOK == UnitOK(settings) /\ UnitOK(saved.prefs) /\ UnitOK(flash.prefs)
CachesAgree ==
  /\ label = [w \in Widgets |-> last[w]] /\ last = [w \in Widgets |-> last[w]]
  /\ visible = [w \in Widgets |-> lastVisible[w]]
  /\ lastVisible \in [Widgets -> BOOLEAN]
PlacedApart ==
  \A v, w \in Column :
    Placed(v, settings.mode) /\ Placed(w, settings.mode) /\ v # w => row[v] # row[w]
IInv == TypeOK /\ UnitsOK /\ CachesAgree /\ PlacedApart /\ SelectorNamesMode /\ SwitchShows

Numbers == One \in Nat \ {0} /\ Typed \subseteq Nat

-----------------------------------------------------------------------------
(* Lemmas about the operators.                                             *)

\* The factory settings are settings, in their own unit.
LEMMA DefaultsOK == Numbers => Defaults \in Settings /\ UnitOK(Defaults)
  BY DEF Numbers, Defaults, Settings, Pitches, Modes, Steps, UnitSteps, Rapids, UnitOK, PASSES_MAX,
         STARTS_MAX

\* Starting from settings gives settings.
LEMMA StartedOK ==
  ASSUME NEW f \in [valid : BOOLEAN, prefs : Settings], UnitOK(f.prefs), Numbers
  PROVE  /\ Restored(f) \in Settings /\ Started(f) \in Settings
         /\ UnitOK(Started(f)) /\ Started(f).mode = "normal"
<1>1. Restored(f) \in Settings /\ UnitOK(Restored(f))
  BY DefaultsOK DEF Restored
<1>2. "normal" \in Modes
  BY DEF Modes
<1> QED
  BY <1>1, <1>2 DEF Started, Settings, UnitOK

\* Storage keeps settings.
LEMMA SaveOK ==
  ASSUME NEW old \in [valid : BOOLEAN, prefs : Settings], UnitOK(old.prefs),
         NEW s \in Settings, UnitOK(s)
  PROVE  Save(old, s) \in [valid : BOOLEAN, prefs : Settings] /\ UnitOK(Save(old, s).prefs)
<1>1. CASE Acceptable(s)
  BY <1>1, Zenon DEF Save
<1>2. CASE ~Acceptable(s)
  BY <1>2, Zenon DEF Save
<1> QED
  BY <1>1, <1>2

\* Settings the panel can have are acceptable, the cone ratio apart.
LEMMA AcceptableOK ==
  ASSUME NEW s \in Settings, s.coneRatio <= RATIO_MAX, Numbers
  PROVE  Acceptable(s)
<1>1. /\ s.mode \in Modes /\ s.measure \in {"metric", "inch"} /\ s.pitchType \in {"mm", "tpi"}
      /\ s.dupr \in Pitches /\ s.moveStep \in Steps /\ s.turnPasses \in 1 .. 999
      /\ s.starts \in 1 .. 124 /\ s.coneRatio \in Nat \ {0}
  BY DEF Settings, PASSES_MAX, STARTS_MAX
<1>2. 0 <= s.moveStep /\ s.moveStep <= 10000000
  BY <1>1 DEF Steps, UnitSteps, Rapids
<1>3. -RATIO_MAX <= s.coneRatio
  BY <1>1 DEF Numbers, RATIO_MAX
<1> QED
  BY <1>1, <1>2, <1>3 DEF Acceptable, Pitches

\* The buttons of any operation are placed in rows of their own.
LEMMA RowsApart ==
  ASSUME NEW m, NEW old, NEW v \in Column, NEW w \in Column, Placed(v, m), Placed(w, m), v # w
  PROVE  Rows(m, old)[v] # Rows(m, old)[w]
<1> DEFINE aux == Below("cone", m, 1)
           starts == Below("aux", m, aux)
           passes == Below("starts", m, starts)
           y == [cone |-> 1, aux |-> aux, starts |-> starts, passes |-> passes]
<1>1. Rows(m, old)[v] = y[v] /\ Rows(m, old)[w] = y[w]
  BY DEF Rows
<1>2. aux \in Int /\ starts \in Int /\ passes \in Int
  BY DEF Below
<1>3. /\ Placed("cone", m) => aux > 1
      /\ Placed("aux", m) => starts > aux
      /\ Placed("starts", m) => passes > starts
      /\ aux >= 1 /\ starts >= aux /\ passes >= starts
  BY <1>2 DEF Below
<1>4. y["cone"] = 1 /\ y["aux"] = aux /\ y["starts"] = starts /\ y["passes"] = passes
  OBVIOUS
<1> HIDE DEF aux, starts, passes, y
<1> QED
  BY <1>1, <1>2, <1>3, <1>4 DEF Column

\* The two tables of the source agree: a button shown is a button placed.
LEMMA TablesAgree ==
  ASSUME NEW m, NEW w \in Column
  PROVE  Applies(w, m) <=> Placed(w, m)
  BY DEF Applies, Placed, ShownIn, PlacedIn, Column

\* Updating buttons keeps the caches in agreement with what is drawn.
LEMMA UpdateAgrees ==
  ASSUME CachesAgree, NEW W, NEW s, NEW on, Update(W, s, on)
  PROVE  CachesAgree'
<1>1. label' = [w \in Widgets |-> last'[w]] /\ last' = [w \in Widgets |-> last'[w]]
  BY DEF CachesAgree, Update
<1>2. visible' = [w \in Widgets |-> lastVisible'[w]]
  BY DEF CachesAgree, Update
<1>3. \A w \in Widgets : Applies(w, s.mode) \in BOOLEAN
  BY DEF Applies
<1>4. lastVisible' \in [Widgets -> BOOLEAN]
  BY <1>3, Zenon DEF CachesAgree, Update
<1> QED
  BY <1>1, <1>2, <1>4 DEF CachesAgree

\* Updating every button draws every button of the operation.
LEMMA UpdateShows ==
  ASSUME CachesAgree, NEW s, NEW on, Update(Widgets, s, on), NEW w \in Widgets
  PROVE  /\ visible'[w] = Applies(w, s.mode)
         /\ Applies(w, s.mode) => label'[w] = Value(w, s, on)
<1>1. /\ label'[w] = IF Stale(Widgets, w, s, on) THEN Value(w, s, on) ELSE label[w]
      /\ visible'[w] = IF Flips(Widgets, w, s) THEN Applies(w, s.mode) ELSE visible[w]
  BY DEF Update
<1>2. label[w] = last[w] /\ visible[w] = lastVisible[w]
  BY DEF CachesAgree
<1>3. visible'[w] = Applies(w, s.mode)
  BY <1>1, <1>2, Zenon DEF Flips
<1>4. Applies(w, s.mode) => label'[w] = Value(w, s, on)
  BY <1>1, <1>2, Zenon DEF Stale
<1> QED
  BY <1>3, <1>4

-----------------------------------------------------------------------------
(* The invariant.                                                          *)

LEMMA InitInv == Numbers /\ Init => IInv
<1> SUFFICES ASSUME Numbers, Init PROVE IInv
  OBVIOUS
<1>1. Nothing \in [valid : BOOLEAN, prefs : Settings] /\ UnitOK(Nothing.prefs)
  BY DefaultsOK DEF Nothing
<1>2. /\ Started(Nothing) \in Settings /\ UnitOK(Started(Nothing))
      /\ Started(Nothing).mode = "normal"
  BY <1>1, StartedOK
<1>3. Save(Nothing, Started(Nothing)) \in [valid : BOOLEAN, prefs : Settings]
      /\ UnitOK(Save(Nothing, Started(Nothing)).prefs)
  BY <1>1, <1>2, SaveOK
<1>4. TypeOK
  <2>1. settings \in Settings /\ saved \in [valid : BOOLEAN, prefs : Settings]
        /\ flash \in [valid : BOOLEAN, prefs : Settings]
    BY <1>1, <1>2, <1>3 DEF Init
  <2>2. keypad \in KeypadType
    BY DEF Init, Hidden, KeypadType
  <2>3. picker \in BOOLEAN /\ shift \in BOOLEAN /\ isOn \in BOOLEAN /\ busy \in BOOLEAN
    BY Zenon DEF Init
  <2>4. sound \in [visible : BOOLEAN, switch : BOOLEAN]
    BY DEF Init
  <2>5. tab \in [shown : Modes \cup {"update"}, previous : Modes]
    BY DEF Init, Modes
  <2> QED
    BY <2>1, <2>2, <2>3, <2>4, <2>5, Zenon DEF TypeOK
<1>5. UnitsOK
  BY <1>1, <1>2, <1>3 DEF UnitsOK, Init
<1>6. CachesAgree
  <2>1. \A w \in Widgets : Applies(w, Restored(Nothing).mode) \in BOOLEAN
    BY DEF Applies
  <2> QED
    BY <2>1 DEF CachesAgree, Init, CreatedLabel, CreatedVisible
<1>7. PlacedApart
  BY <1>2, RowsApart DEF PlacedApart, Init
<1>8. SelectorNamesMode
  BY <1>2 DEF SelectorNamesMode, Init
<1>9. SwitchShows
  BY DEF SwitchShows, Init
<1> QED
  BY <1>4, <1>5, <1>6, <1>7, <1>8, <1>9 DEF IInv

\* A step that leaves the settings and the drawing alone.
LEMMA StillInv ==
  ASSUME IInv, UNCHANGED <<settings, saved, flash, sound, tab, drawing, row>>,
         keypad' \in KeypadType, picker' \in BOOLEAN, shift' \in BOOLEAN, isOn' \in BOOLEAN,
         busy' \in BOOLEAN
  PROVE  IInv'
<1>1. TypeOK'
  BY Zenon DEF IInv, TypeOK
<1>2. UnitsOK' /\ PlacedApart' /\ SelectorNamesMode' /\ SwitchShows'
  BY DEF IInv, UnitsOK, UnitOK, PlacedApart, SelectorNamesMode, SwitchShows
<1>3. CachesAgree'
  BY DEF IInv, CachesAgree, drawing
<1> QED
  BY <1>1, <1>2, <1>3 DEF IInv

\* A button that changes a setting other than the operation and the buzzer.
LEMMA ChangeInv ==
  ASSUME IInv, NEW s \in Settings, UnitOK(s), s.mode = settings.mode, s.sound = settings.sound,
         NEW W, Change(s, W), keypad' \in KeypadType, picker' \in BOOLEAN
  PROVE  IInv'
<1>1. /\ settings' = s
      /\ UNCHANGED <<saved, flash, sound, tab, shift, row, isOn, busy>>
  BY DEF Change
<1>2. TypeOK'
  BY <1>1, Zenon DEF IInv, TypeOK
<1>3. UnitsOK'
  BY <1>1 DEF IInv, UnitsOK, UnitOK
<1>4. PlacedApart' /\ SelectorNamesMode' /\ SwitchShows'
  BY <1>1 DEF IInv, PlacedApart, SelectorNamesMode, SwitchShows
<1>5. CachesAgree'
  BY UpdateAgrees DEF IInv, Change
<1> QED
  BY <1>2, <1>3, <1>4, <1>5 DEF IInv

\* A typed setting is a setting.
LEMMA EnteredOK ==
  ASSUME NEW s \in Settings, UnitOK(s), NEW k \in KeypadType, Numbers
  PROVE  LET e == Entered(s, k)
         IN  e \in Settings /\ UnitOK(e) /\ e.mode = s.mode /\ e.sound = s.sound
<1> DEFINE n == AsInt(k.entry)
<1>1. n \in Int
  BY DEF KeypadType, Numbers, AsInt, INT_MAX
<1>2. k.entry \in Nat
  BY DEF KeypadType
<1> HIDE DEF n
<1>3. CASE k.action = "passes" /\ 1 <= n /\ n <= PASSES_MAX
  <2>1. Entered(s, k) = [s EXCEPT !.turnPasses = n]
    BY <1>3 DEF Entered, n
  <2> QED
    BY <1>1, <1>3, <2>1 DEF Settings, UnitOK, PASSES_MAX
<1>4. CASE k.action = "starts" /\ 1 <= n /\ n <= STARTS_MAX
  <2>1. Entered(s, k) = [s EXCEPT !.starts = n]
    BY <1>4 DEF Entered, n
  <2> QED
    BY <1>1, <1>4, <2>1 DEF Settings, UnitOK, STARTS_MAX
<1>5. CASE k.action = "cone" /\ 0 < k.entry
  <2>1. Entered(s, k) = [s EXCEPT !.coneRatio = k.entry]
    BY <1>5 DEF Entered
  <2> QED
    BY <1>2, <1>5, <2>1 DEF Settings, UnitOK
<1>6. CASE /\ ~(k.action = "passes" /\ 1 <= n /\ n <= PASSES_MAX)
           /\ ~(k.action = "starts" /\ 1 <= n /\ n <= STARTS_MAX)
           /\ ~(k.action = "cone" /\ 0 < k.entry)
  <2>1. Entered(s, k) = s
    BY <1>6 DEF Entered, n
  <2> QED
    BY <2>1
<1> QED
  BY <1>3, <1>4, <1>5, <1>6

\* The pitches of the picker are pitches, and so is a pitch with its sign changed.
LEMMA PicksOK == \A p \in Picks : p.dupr \in Pitches /\ p.pitchType \in {"mm", "tpi"}
<1>1. \A d \in TurningPitches \cup MetricPitches : d \in Pitches
  BY DEF TurningPitches, MetricPitches, Pitches
<1>2. \A d \in ImperialPitches : d \in Pitches
  BY DEF ImperialPitches, Pitches
<1> QED
  BY <1>1, <1>2 DEF Picks

LEMMA NextInv == Numbers /\ IInv /\ [Next]_vars => IInv'
<1> SUFFICES ASSUME Numbers, IInv, [Next]_vars PROVE IInv'
  OBVIOUS
<1> USE DEF Numbers
<1>t. /\ settings \in Settings
      /\ saved \in [valid : BOOLEAN, prefs : Settings]
      /\ flash \in [valid : BOOLEAN, prefs : Settings]
      /\ keypad \in KeypadType
      /\ picker \in BOOLEAN /\ shift \in BOOLEAN /\ isOn \in BOOLEAN /\ busy \in BOOLEAN
      /\ sound \in [visible : BOOLEAN, switch : BOOLEAN]
      /\ tab \in [shown : Modes \cup {"update"}, previous : Modes]
  BY Zenon DEF IInv, TypeOK
<1>u. UnitOK(settings) /\ UnitOK(saved.prefs) /\ UnitOK(flash.prefs)
  BY DEF IInv, UnitsOK
<1>b. TRUE \in BOOLEAN /\ FALSE \in BOOLEAN /\ (~shift) \in BOOLEAN
  BY Zenon
<1>1. CASE Restart
  <2>1. /\ Started(flash) \in Settings /\ UnitOK(Started(flash))
        /\ Started(flash).mode = "normal"
    BY <1>t, <1>u, StartedOK
  <2>2. Save(flash, Started(flash)) \in [valid : BOOLEAN, prefs : Settings]
        /\ UnitOK(Save(flash, Started(flash)).prefs)
    BY <1>t, <1>u, <2>1, SaveOK
  <2>3. TypeOK'
    <3>1. /\ settings' \in Settings /\ saved' \in [valid : BOOLEAN, prefs : Settings]
          /\ flash' \in [valid : BOOLEAN, prefs : Settings]
      BY <1>1, <1>t, <2>1, <2>2 DEF Restart
    <3>2. keypad' \in KeypadType
      BY <1>1 DEF Restart, Hidden, KeypadType
    <3>3. picker' \in BOOLEAN /\ shift' \in BOOLEAN /\ isOn' \in BOOLEAN /\ busy' \in BOOLEAN
      BY <1>1, Zenon DEF Restart
    <3>4. Started(flash).sound \in BOOLEAN
      BY <2>1 DEF Settings
    <3>5. sound' \in [visible : BOOLEAN, switch : BOOLEAN]
      BY <1>1, <3>4 DEF Restart
    <3>6. tab' \in [shown : Modes \cup {"update"}, previous : Modes]
      BY <1>1 DEF Restart, Modes
    <3> QED
      BY <3>1, <3>2, <3>3, <3>5, <3>6, Zenon DEF TypeOK
  <2>4. UnitsOK'
    BY <1>1, <1>u, <2>1, <2>2 DEF Restart, UnitsOK, UnitOK
  <2>5. CachesAgree'
    <3>1. \A w \in Widgets : Applies(w, Restored(flash).mode) \in BOOLEAN
      BY DEF Applies
    <3> QED
      BY <1>1, <3>1 DEF Restart, CachesAgree, CreatedLabel, CreatedVisible
  <2>6. PlacedApart'
    BY <1>1, <2>1, RowsApart DEF Restart, PlacedApart
  <2>7. SelectorNamesMode' /\ SwitchShows'
    BY <1>1, <2>1 DEF Restart, SelectorNamesMode, SwitchShows
  <2> QED
    BY <2>3, <2>4, <2>5, <2>6, <2>7 DEF IInv
<1>2. CASE Flush
  <2>1. TypeOK'
    BY <1>2, <1>t, Zenon DEF Flush, TypeOK
  <2>2. UnitsOK'
    BY <1>2, <1>u DEF Flush, UnitsOK, UnitOK
  <2>3. CachesAgree' /\ PlacedApart' /\ SelectorNamesMode' /\ SwitchShows'
    BY <1>2 DEF Flush, drawing, IInv, CachesAgree, PlacedApart, SelectorNamesMode, SwitchShows
  <2> QED
    BY <2>1, <2>2, <2>3 DEF IInv
<1>3. CASE Operation
  <2>1. keypad' \in KeypadType /\ picker' \in BOOLEAN /\ shift' \in BOOLEAN
        /\ isOn' \in BOOLEAN /\ busy' \in BOOLEAN
    BY <1>3, <1>t, Zenon DEF Operation
  <2> QED
    BY <1>3, <2>1, StillInv DEF Operation
<1>4. CASE Frame
  <2>1. Save(saved, settings) \in [valid : BOOLEAN, prefs : Settings]
        /\ UnitOK(Save(saved, settings).prefs)
    BY <1>t, <1>u, SaveOK
  <2>2. saved' \in [valid : BOOLEAN, prefs : Settings] /\ UnitOK(saved'.prefs)
    BY <1>4, <2>1 DEF Frame
  <2>3. TypeOK'
    BY <1>4, <1>t, <2>2, Zenon DEF Frame, TypeOK
  <2>4. UnitsOK'
    BY <1>4, <1>u, <2>2 DEF Frame, UnitsOK, UnitOK
  <2>5. PlacedApart' /\ SelectorNamesMode' /\ SwitchShows'
    BY <1>4 DEF Frame, IInv, PlacedApart, SelectorNamesMode, SwitchShows
  <2>6. CachesAgree'
    BY <1>4, UpdateAgrees DEF Frame, IInv
  <2> QED
    BY <2>3, <2>4, <2>5, <2>6 DEF IInv
<1>5. CASE AuxToggle
  <2> DEFINE s == [settings EXCEPT !.auxForward = ~@]
  <2>1. settings.auxForward \in BOOLEAN
    BY <1>t DEF Settings
  <2>2. (~settings.auxForward) \in BOOLEAN
    BY <2>1, Zenon
  <2>3. s \in Settings /\ UnitOK(s) /\ s.mode = settings.mode /\ s.sound = settings.sound
    BY <1>t, <1>u, <2>2 DEF Settings, UnitOK
  <2>4. keypad' \in KeypadType /\ picker' \in BOOLEAN
    BY <1>5, <1>t, Zenon DEF AuxToggle
  <2>5. Change(s, {"aux"})
    BY <1>5 DEF AuxToggle
  <2> HIDE DEF s
  <2> QED
    BY <2>3, <2>4, <2>5, ChangeInv
<1>6. CASE PitchSign
  <2> DEFINE s == [settings EXCEPT !.dupr = -@]
  <2>1. settings.dupr \in Pitches
    BY <1>t DEF Settings
  <2>2. -settings.dupr \in Pitches
    BY <2>1 DEF Pitches
  <2>3. s \in Settings /\ UnitOK(s) /\ s.mode = settings.mode /\ s.sound = settings.sound
    BY <1>t, <1>u, <2>2 DEF Settings, UnitOK
  <2>4. keypad' \in KeypadType /\ picker' \in BOOLEAN
    BY <1>6, <1>t, Zenon DEF PitchSign
  <2>5. Change(s, {"pitch"})
    BY <1>6 DEF PitchSign
  <2> HIDE DEF s
  <2> QED
    BY <2>3, <2>4, <2>5, ChangeInv
<1>7. CASE StepPress
  <2> DEFINE s == [settings EXCEPT !.moveStep = NextStep(settings)]
  <2>1. settings.measure \in {"metric", "inch"} /\ settings.moveStep \in Steps
    BY <1>t DEF Settings
  <2>2. NextStep(settings) \in {Rapids} \cup UnitSteps(settings.measure)
        /\ NextStep(settings) \in Steps
    BY <2>1 DEF NextStep, Steps, UnitSteps, Rapids
  <2>3. s \in Settings /\ UnitOK(s) /\ s.mode = settings.mode /\ s.sound = settings.sound
    BY <1>t, <2>2 DEF Settings, UnitOK
  <2>4. keypad' \in KeypadType /\ picker' \in BOOLEAN
    BY <1>7, <1>t, Zenon DEF StepPress
  <2>5. Change(s, {"step"})
    BY <1>7 DEF StepPress
  <2> HIDE DEF s
  <2> QED
    BY <2>3, <2>4, <2>5, ChangeInv
<1>8. CASE MeasurePress
  <2> DEFINE m == IF settings.measure = "metric" THEN "inch" ELSE "metric"
             step == IF settings.moveStep # Rapids
                     THEN IF m = "metric" THEN 10000 ELSE 25400 ELSE Rapids
             s == [settings EXCEPT !.measure = m, !.moveStep = step]
  <2>1. OtherMeasure(settings) = s
    BY DEF OtherMeasure
  <2>2. m \in {"metric", "inch"} /\ step \in {Rapids} \cup UnitSteps(m) /\ step \in Steps
    BY DEF UnitSteps, Steps, Rapids
  <2> HIDE DEF m, step
  <2>3. s \in Settings /\ UnitOK(s) /\ s.mode = settings.mode /\ s.sound = settings.sound
    BY <1>t, <2>2 DEF Settings, UnitOK
  <2>4. keypad' \in KeypadType /\ picker' \in BOOLEAN
    BY <1>8, <1>t, Zenon DEF MeasurePress
  <2>5. Change(s, {"step"})
    BY <1>8, <2>1 DEF MeasurePress
  <2> HIDE DEF s
  <2> QED
    BY <2>3, <2>4, <2>5, ChangeInv
<1>9. CASE JogMode
  <2> DEFINE s == [settings EXCEPT !.jogContinuous = ~@]
  <2>1. settings.jogContinuous \in BOOLEAN
    BY <1>t DEF Settings
  <2>2. (~settings.jogContinuous) \in BOOLEAN
    BY <2>1, Zenon
  <2>3. s \in Settings /\ UnitOK(s) /\ s.mode = settings.mode /\ s.sound = settings.sound
    BY <1>t, <1>u, <2>2 DEF Settings, UnitOK
  <2>4. keypad' \in KeypadType /\ picker' \in BOOLEAN
    BY <1>9, <1>t, Zenon DEF JogMode
  <2>5. Change(s, {"jog"})
    BY <1>9 DEF JogMode
  <2> HIDE DEF s
  <2> QED
    BY <2>3, <2>4, <2>5, ChangeInv
<1>10. CASE PickerShow \/ PickerBack
  <2>1. keypad' \in KeypadType /\ picker' \in BOOLEAN /\ shift' \in BOOLEAN
        /\ isOn' \in BOOLEAN /\ busy' \in BOOLEAN
    BY <1>10, <1>t, Zenon DEF PickerShow, PickerBack
  <2> QED
    BY <1>10, <2>1, StillInv DEF PickerShow, PickerBack
<1>11. CASE Pick
  <2>1. PICK p \in Picks :
          Change([settings EXCEPT !.dupr = p.dupr, !.pitchType = p.pitchType], {"pitch"})
    BY <1>11 DEF Pick
  <2> DEFINE s == [settings EXCEPT !.dupr = p.dupr, !.pitchType = p.pitchType]
  <2>2. p.dupr \in Pitches /\ p.pitchType \in {"mm", "tpi"}
    BY PicksOK
  <2>3. s \in Settings /\ UnitOK(s) /\ s.mode = settings.mode /\ s.sound = settings.sound
    BY <1>t, <1>u, <2>2 DEF Settings, UnitOK
  <2>4. keypad' \in KeypadType /\ picker' \in BOOLEAN
    BY <1>11, <1>t, Zenon DEF Pick
  <2>5. Change(s, {"pitch"})
    BY <2>1
  <2> HIDE DEF s
  <2> QED
    BY <2>3, <2>4, <2>5, ChangeInv
<1>12. CASE Keypads
  <2>1. keypad' \in KeypadType
    <3>1. PICK a \in {"passes", "starts", "cone", "move", "stop"} : Show(a)
      BY <1>12, Zenon DEF Keypads
    <3> QED
      BY <3>1 DEF Show, KeypadType
  <2>2. picker' \in BOOLEAN /\ shift' \in BOOLEAN /\ isOn' \in BOOLEAN /\ busy' \in BOOLEAN
    BY <1>12, <1>t, Zenon DEF Keypads
  <2> QED
    BY <1>12, <2>1, <2>2, StillInv DEF Keypads
<1>13. CASE Key
  <2>1. PICK v \in Typed : keypad' = [keypad EXCEPT !.entry = v]
    BY <1>13 DEF Key
  <2>2. keypad' \in KeypadType
    BY <1>t, <2>1 DEF KeypadType
  <2>3. picker' \in BOOLEAN /\ shift' \in BOOLEAN /\ isOn' \in BOOLEAN /\ busy' \in BOOLEAN
    BY <1>13, <1>t, Zenon DEF Key
  <2> QED
    BY <1>13, <2>2, <2>3, StillInv DEF Key
<1>14. CASE Enter
  <2> DEFINE s == Entered(settings, keypad)
  <2>1. s \in Settings /\ UnitOK(s) /\ s.mode = settings.mode /\ s.sound = settings.sound
    BY <1>t, <1>u, EnteredOK
  <2>2. keypad' \in KeypadType
    BY <1>14, <1>t DEF Enter, KeypadType
  <2>3. picker' \in BOOLEAN
    BY <1>14, <1>t, Zenon DEF Enter
  <2>4. Change(s, {})
    BY <1>14 DEF Enter
  <2> HIDE DEF s
  <2> QED
    BY <2>1, <2>2, <2>3, <2>4, ChangeInv
<1>15. CASE Cancel
  <2>1. keypad' \in KeypadType
    BY <1>15, <1>t DEF Cancel, KeypadType
  <2>2. picker' \in BOOLEAN /\ shift' \in BOOLEAN /\ isOn' \in BOOLEAN /\ busy' \in BOOLEAN
    BY <1>15, <1>t, Zenon DEF Cancel
  <2> QED
    BY <1>15, <2>1, <2>2, StillInv DEF Cancel
<1>16. ASSUME NEW m \in Modes, SelectTab(m) PROVE IInv'
  <2>1. settings' \in Settings /\ UnitOK(settings') /\ settings'.mode = m
        /\ settings'.sound = settings.sound
    BY <1>16, <1>t, <1>u DEF SelectTab, Settings, UnitOK
  <2>2. TypeOK'
    <3>1. isOn' = FALSE \/ isOn' = isOn
      BY <1>16 DEF SelectTab
    <3>2. isOn' \in BOOLEAN
      BY <1>t, <3>1, Zenon
    <3>3. tab' \in [shown : Modes \cup {"update"}, previous : Modes]
      BY <1>16 DEF SelectTab
    <3>4. UNCHANGED <<saved, flash, keypad, picker, sound, shift, busy>>
      BY <1>16 DEF SelectTab
    <3> QED
      BY <1>t, <2>1, <3>2, <3>3, <3>4, Zenon DEF TypeOK
  <2>3. UnitsOK'
    BY <1>16, <1>u, <2>1 DEF SelectTab, UnitsOK, UnitOK
  <2>4. CachesAgree'
    BY <1>16 DEF SelectTab, drawing, IInv, CachesAgree
  <2>5. PlacedApart'
    BY <1>16, <2>1, RowsApart DEF SelectTab, PlacedApart
  <2>6. SelectorNamesMode' /\ SwitchShows'
    BY <1>16, <2>1 DEF SelectTab, IInv, SelectorNamesMode, SwitchShows
  <2> QED
    BY <2>2, <2>3, <2>4, <2>5, <2>6 DEF IInv
<1>17. CASE SelectUpdate
  <2>1. tab' \in [shown : Modes \cup {"update"}, previous : Modes]
    BY <1>17, <1>t DEF SelectUpdate
  <2>2. TypeOK'
    BY <1>17, <1>t, <2>1, Zenon DEF SelectUpdate, TypeOK
  <2>3. UnitsOK' /\ CachesAgree' /\ PlacedApart' /\ SwitchShows'
    BY <1>17 DEF SelectUpdate, drawing, IInv, UnitsOK, UnitOK, CachesAgree, PlacedApart,
                 SwitchShows
  <2>4. SelectorNamesMode'
    BY <1>17, <1>t DEF SelectUpdate, IInv, SelectorNamesMode
  <2> QED
    BY <2>2, <2>3, <2>4 DEF IInv
<1>18. CASE SelectSettings
  <2>1. tab' \in [shown : Modes \cup {"update"}, previous : Modes]
    BY <1>18, <1>t DEF SelectSettings
  <2>2. settings.sound \in BOOLEAN
    BY <1>t DEF Settings
  <2>3. sound' \in [visible : BOOLEAN, switch : BOOLEAN]
    BY <1>18, <2>2 DEF SelectSettings
  <2>4. TypeOK'
    BY <1>18, <1>t, <2>1, <2>3, Zenon DEF SelectSettings, TypeOK
  <2>5. UnitsOK' /\ CachesAgree' /\ PlacedApart'
    BY <1>18 DEF SelectSettings, drawing, IInv, UnitsOK, UnitOK, CachesAgree, PlacedApart
  <2>6. SelectorNamesMode'
    BY <1>18, <1>t DEF SelectSettings, IInv, SelectorNamesMode
  <2>7. SwitchShows'
    BY <1>18 DEF SelectSettings, SwitchShows
  <2> QED
    BY <2>4, <2>5, <2>6, <2>7 DEF IInv
<1>19. CASE BuzzerToggle
  <2>1. sound.switch \in BOOLEAN
    BY <1>t
  <2>2. (~sound.switch) \in BOOLEAN
    BY <2>1, Zenon
  <2>3. sound' = [sound EXCEPT !.switch = ~sound.switch]
        /\ settings' = [settings EXCEPT !.sound = ~sound.switch]
    BY <1>19 DEF BuzzerToggle
  <2>4. sound' \in [visible : BOOLEAN, switch : BOOLEAN] /\ settings' \in Settings
        /\ UnitOK(settings') /\ settings'.mode = settings.mode
        /\ sound'.switch = settings'.sound
    BY <1>t, <1>u, <2>2, <2>3 DEF Settings, UnitOK
  <2>5. UNCHANGED <<saved, flash, keypad, picker, tab, shift, drawing, row, isOn, busy>>
    BY <1>19 DEF BuzzerToggle
  <2>6. TypeOK'
    BY <1>t, <2>4, <2>5, Zenon DEF TypeOK
  <2>7. UnitsOK'
    BY <1>u, <2>4, <2>5 DEF UnitsOK, UnitOK
  <2>8. CachesAgree' /\ PlacedApart' /\ SelectorNamesMode' /\ SwitchShows'
    BY <2>4, <2>5 DEF drawing, IInv, CachesAgree, PlacedApart, SelectorNamesMode, SwitchShows
  <2> QED
    BY <2>6, <2>7, <2>8 DEF IInv
<1>20. CASE CloseSettings
  <2>1. sound' \in [visible : BOOLEAN, switch : BOOLEAN] /\ ~sound'.visible
    BY <1>20, <1>t DEF CloseSettings
  <2>2. TypeOK'
    BY <1>20, <1>t, <2>1, Zenon DEF CloseSettings, TypeOK
  <2>3. UnitsOK' /\ CachesAgree' /\ PlacedApart' /\ SelectorNamesMode' /\ SwitchShows'
    BY <1>20, <2>1 DEF CloseSettings, drawing, IInv, UnitsOK, UnitOK, CachesAgree, PlacedApart,
                       SelectorNamesMode, SwitchShows
  <2> QED
    BY <2>2, <2>3 DEF IInv
<1>21. CASE StartStop
  <2>1. TypeOK'
    BY <1>21, <1>t, Zenon DEF StartStop, TypeOK
  <2>2. UnitsOK' /\ PlacedApart' /\ SelectorNamesMode' /\ SwitchShows'
    BY <1>21 DEF StartStop, IInv, UnitsOK, UnitOK, PlacedApart, SelectorNamesMode, SwitchShows
  <2>3. CachesAgree'
    BY <1>21, UpdateAgrees DEF StartStop, IInv
  <2> QED
    BY <2>1, <2>2, <2>3 DEF IInv
<1>22. CASE Shift
  <2>1. keypad' \in KeypadType /\ picker' \in BOOLEAN /\ shift' \in BOOLEAN
        /\ isOn' \in BOOLEAN /\ busy' \in BOOLEAN
    BY <1>22, <1>t, Zenon DEF Shift
  <2> QED
    BY <1>22, <2>1, StillInv DEF Shift
<1>23. CASE UNCHANGED vars
  <2>1. keypad' \in KeypadType /\ picker' \in BOOLEAN /\ shift' \in BOOLEAN
        /\ isOn' \in BOOLEAN /\ busy' \in BOOLEAN
    BY <1>23, <1>t, Zenon DEF vars
  <2> QED
    BY <1>23, <2>1, StillInv DEF vars, drawing
<1> QED
  BY <1>1, <1>2, <1>3, <1>4, <1>5, <1>6, <1>7, <1>8, <1>9, <1>10, <1>11, <1>12, <1>13, <1>14,
     <1>15, <1>16, <1>17, <1>18, <1>19, <1>20, <1>21, <1>22, <1>23 DEF Next

LEMMA Invariance == ASSUME Numbers PROVE Spec => []IInv
<1>1. Init => IInv
  BY InitInv
<1>2. IInv /\ [Next]_vars => IInv'
  BY NextInv
<1> QED
  BY <1>1, <1>2, PTL DEF Spec

-----------------------------------------------------------------------------
(* The results.                                                            *)

\* Every variable keeps its type.
THEOREM PanelTypes == ASSUME Numbers PROVE Spec => []TypeOK
<1>1. IInv => TypeOK
  BY DEF IInv
<1> QED
  BY <1>1, Invariance, PTL

\* Storage accepts whatever was typed and picked, but for a cone ratio above 10000.
THEOREM AlwaysAcceptable == ASSUME Numbers PROVE Spec => []SettingsAcceptable
<1>1. IInv => SettingsAcceptable
  BY AcceptableOK DEF IInv, TypeOK, SettingsAcceptable
<1> QED
  BY <1>1, Invariance, PTL

\* The jog step belongs to the unit on the screen, or is Rapids.
THEOREM StepsOfUnit == ASSUME Numbers PROVE Spec => []StepOfUnit
<1>1. IInv => StepOfUnit
  BY DEF IInv, UnitsOK, UnitOK, StepOfUnit
<1> QED
  BY <1>1, Invariance, PTL

\* The tab selector names the operation in force, the settings screen shows the buzzer.
THEOREM SelectorAndSwitch == ASSUME Numbers PROVE Spec => [](SelectorNamesMode /\ SwitchShows)
<1>1. IInv => SelectorNamesMode /\ SwitchShows
  BY DEF IInv
<1> QED
  BY <1>1, Invariance, PTL

\* A frame shows the buttons of the operation with the settings' values, none on top of
\* another, and hands storage the settings shown.
THEOREM FramesSettle == ASSUME Numbers PROVE Spec => FrameSettles
<1>1. ASSUME IInv, Frame
      PROVE  ShownIsCurrent' /\ ButtonsApart' /\ SavedIsShown'
  <2>1. ShownIsCurrent'
    <3>1. UNCHANGED settings /\ Update(Widgets, settings, isOn')
      BY <1>1 DEF Frame
    <3>2. \A w \in Widgets :
            /\ visible'[w] = Applies(w, settings.mode)
            /\ Applies(w, settings.mode) => label'[w] = Value(w, settings, isOn')
      BY <1>1, <3>1, UpdateShows DEF IInv
    <3> QED
      BY <3>1, <3>2 DEF ShownIsCurrent
  <2>2. ButtonsApart'
    <3> SUFFICES ASSUME NEW v \in Column, NEW w \in Column, visible'[v], visible'[w], v # w
                 PROVE  row'[v] # row'[w]
      BY DEF ButtonsApart
    <3>1. Applies(v, settings.mode) /\ Applies(w, settings.mode)
      BY <1>1, <2>1 DEF ShownIsCurrent, Frame, Widgets
    <3>2. Placed(v, settings.mode) /\ Placed(w, settings.mode)
      BY <3>1, TablesAgree
    <3> QED
      BY <1>1, <3>2 DEF Frame, IInv, PlacedApart
  <2>3. SavedIsShown'
    <3>1. settings \in Settings
      BY <1>1 DEF IInv, TypeOK
    <3>2. settings.coneRatio <= RATIO_MAX => Acceptable(settings)
      BY <1>1, <3>1, AcceptableOK
    <3> QED
      BY <1>1, <3>2 DEF SavedIsShown, Frame, Save
  <2> QED
    BY <2>1, <2>2, <2>3
<1> QED
  BY <1>1, Invariance, PTL DEF FrameSettles
=============================================================================
