--------------------------- MODULE StorageProofs ---------------------------
(* Proofs about storage.c.  About Storage: the types, that whatever is not marked
   as unsaved is in flash, and that a position in flash is one at which the axes
   rested, for any limits, preferences and delays.  About MotionUpgrade: that the
   revision is a promise about the blob.  All of them for a power cut and a failed
   write in any step.                                                         *)
EXTENDS Storage, MotionUpgrade, TLAPS

USE DEF machinery, panel, polling, motion

----------------------------------------------------------------------------
(* Types. *)

\* The machine state that MachineChanged stamps stays in its types.
LEMMA ChangedTypes ==
  ASSUME StorageTypeOK, MachineChanged
  PROVE  /\ machine_dirty' \in BOOLEAN /\ machine_changed_at' \in 0..MaxTime
         /\ machine_generation' \in 0..MaxChanges
BY BoundAssumption DEF StorageTypeOK, MachineChanged

\* Start finds a world of the right types.
LEMMA InitTypes == StorageInit => StorageTypeOK
<1> SUFFICES ASSUME StorageInit PROVE StorageTypeOK
    OBVIOUS
<1>1. NewMachine \in Machine
  BY UnlimitedAssumption, OriginAssumption, NoAxisAssumption DEF NewMachine, Machine
<1>2. rested \in SUBSET Positions
  <2>1. CASE flash.machine = None
    BY <2>1, OriginAssumption DEF StorageInit
  <2>2. CASE flash.machine # None
    <3>1. flash.machine \in Machine
      BY <2>2 DEF StorageInit
    <3>2. flash.machine.position \in Positions
      BY <3>1 DEF Machine
    <3> QED BY <2>2, <3>2, OriginAssumption DEF StorageInit
  <2> QED BY <2>1, <2>2
<1>3. /\ snapshot \in [machine : {None} \cup Machine, generation : 0..MaxChanges]
      /\ saving \in [preferences : {None} \cup Preferences, stamp : 0..MaxTime]
  BY BoundAssumption DEF StorageInit, NoSnapshot, NothingSaving
<1>4. /\ ready \in BOOLEAN /\ machine_valid \in BOOLEAN /\ machine_dirty \in BOOLEAN
      /\ valid \in BOOLEAN /\ dirty \in BOOLEAN
      /\ moving \in BOOLEAN /\ queued \in BOOLEAN /\ updating \in BOOLEAN
  BY Zenon DEF StorageInit
<1> QED
  BY <1>1, <1>2, <1>3, <1>4, BoundAssumption, OriginAssumption DEF StorageInit, StorageTypeOK

\* A power cut leaves the initial values in RAM.
LEMMA PowerCutTypes == StorageTypeOK /\ PowerCut => StorageTypeOK'
<1>1. NewMachine \in Machine
  BY UnlimitedAssumption, OriginAssumption, NoAxisAssumption DEF NewMachine, Machine
<1> SUFFICES ASSUME StorageTypeOK, PowerCut PROVE StorageTypeOK'
    OBVIOUS
<1>2. /\ snapshot' \in [machine : {None} \cup Machine, generation : 0..MaxChanges]
      /\ saving' \in [preferences : {None} \cup Preferences, stamp : 0..MaxTime]
  BY BoundAssumption DEF PowerCut, NoSnapshot, NothingSaving
<1>3. /\ ready' \in BOOLEAN /\ machine_valid' \in BOOLEAN /\ machine_dirty' \in BOOLEAN
      /\ valid' \in BOOLEAN /\ dirty' \in BOOLEAN
      /\ moving' \in BOOLEAN /\ queued' \in BOOLEAN /\ updating' \in BOOLEAN
  BY Zenon DEF PowerCut
<1> QED
  BY <1>1, <1>2, <1>3, BoundAssumption, OriginAssumption DEF PowerCut, StorageTypeOK

\* A start restores only what passed the checks.
LEMMA StartTypes == StorageTypeOK /\ StorageStart => StorageTypeOK'
<1> SUFFICES ASSUME StorageTypeOK, StorageStart PROVE StorageTypeOK'
    OBVIOUS
<1>1. PICK opens \in BOOLEAN :
        /\ ready' = opens
        /\ valid' = (opens /\ flash.ui # None)
        /\ preferences' = IF opens THEN flash.ui ELSE None
        /\ machine_valid' = (opens /\ flash.machine # None)
        /\ machine' = Restored(opens)
        /\ sys_position' = IF machine_valid' THEN machine'.position ELSE Origin
  BY DEF StorageStart
<1>2. flash.machine \in {None} \cup Machine /\ flash.ui \in {None} \cup Preferences
  BY DEF StorageTypeOK
<1>3. machine' \in Machine
  BY <1>1, <1>2 DEF StorageTypeOK, Restored
<1>4. sys_position' \in Positions
  BY <1>1, <1>3, OriginAssumption DEF Machine
<1>5. valid' \in BOOLEAN /\ machine_valid' \in BOOLEAN /\ ready' \in BOOLEAN
  BY <1>1
<1>6. preferences' \in {None} \cup Preferences
  BY <1>1, <1>2
<1> QED
  BY <1>3, <1>4, <1>5, <1>6 DEF StorageStart, StorageTypeOK

\* The panel's writes.
LEMMA PanelTypes ==
  ASSUME StorageTypeOK, NEW limits \in Limits, NEW p \in Preferences, PanelSaves(limits, p)
  PROVE  StorageTypeOK'
<1>1. machine' \in Machine /\ machine_valid' \in BOOLEAN /\ machine_dirty' \in BOOLEAN
      /\ machine_changed_at' \in 0..MaxTime /\ machine_generation' \in 0..MaxChanges
  <2>1. CASE limits = machine.limits
    BY <2>1 DEF PanelSaves, SavedLimits, StorageTypeOK
  <2>2. CASE limits # machine.limits
    <3>1. MachineChanged /\ machine' = [machine EXCEPT !.limits = limits]
          /\ UNCHANGED machine_valid
      BY <2>2 DEF PanelSaves, SavedLimits
    <3>2. machine' \in Machine
      BY <3>1 DEF StorageTypeOK, Machine
    <3> QED BY <3>1, <3>2, ChangedTypes DEF StorageTypeOK
  <2> QED BY <2>1, <2>2
<1>2. preferences' \in {None} \cup Preferences /\ valid' \in BOOLEAN /\ dirty' \in BOOLEAN
      /\ changed_at' \in 0..MaxTime
  BY DEF PanelSaves, PreferencesSet, StorageTypeOK
<1> QED BY <1>1, <1>2 DEF PanelSaves, StorageTypeOK

LEMMA AxisTypes ==
  ASSUME StorageTypeOK, NEW mask \in Masks, AxisSaves(mask)
  PROVE  StorageTypeOK'
<1>1. machine' \in Machine /\ machine_valid' \in BOOLEAN /\ machine_dirty' \in BOOLEAN
      /\ machine_changed_at' \in 0..MaxTime /\ machine_generation' \in 0..MaxChanges
  <2>1. CASE mask = machine.disabled
    BY <2>1 DEF AxisSaves, SavedDisabled, StorageTypeOK
  <2>2. CASE mask # machine.disabled
    <3>1. MachineChanged /\ machine' = [machine EXCEPT !.disabled = mask]
          /\ UNCHANGED machine_valid
      BY <2>2 DEF AxisSaves, SavedDisabled
    <3>2. machine' \in Machine
      BY <3>1 DEF StorageTypeOK, Machine
    <3> QED BY <3>1, <3>2, ChangedTypes DEF StorageTypeOK
  <2> QED BY <2>1, <2>2
<1> QED BY <1>1 DEF AxisSaves, StorageTypeOK

LEMMA SampleTypes == StorageTypeOK /\ PollSample => StorageTypeOK'
<1> SUFFICES ASSUME StorageTypeOK, PollSample PROVE StorageTypeOK'
    OBVIOUS
<1>1. machine' \in Machine /\ machine_valid' \in BOOLEAN /\ machine_dirty' \in BOOLEAN
      /\ machine_changed_at' \in 0..MaxTime /\ machine_generation' \in 0..MaxChanges
  <2>1. CASE machine_valid /\ machine.position = sys_position
    BY <2>1 DEF PollSample, Sampled, StorageTypeOK
  <2>2. CASE ~(machine_valid /\ machine.position = sys_position)
    <3>1. MachineChanged /\ machine' = [machine EXCEPT !.position = sys_position]
          /\ machine_valid' = TRUE
      BY <2>2 DEF PollSample, Sampled
    <3>2. machine' \in Machine
      BY <3>1 DEF StorageTypeOK, Machine
    <3> QED BY <3>1, <3>2, ChangedTypes
  <2> QED BY <2>1, <2>2
<1>2. snapshot' \in [machine : {None} \cup Machine, generation : 0..MaxChanges]
  BY <1>1 DEF PollSample
<1>3. pc' \in {"machine", "copy"}
  BY DEF PollSample
<1> QED BY <1>1, <1>2, <1>3 DEF PollSample, StorageTypeOK

\* A write that took place leaves a blob that passes the checks.
LEMMA WriteMachineTypes == StorageTypeOK /\ PollWriteMachine => StorageTypeOK'
<1> SUFFICES ASSUME StorageTypeOK, PollWriteMachine PROVE StorageTypeOK'
    OBVIOUS
<1>1. snapshot.machine \in {None} \cup Machine
  BY DEF StorageTypeOK
<1>2. /\ flash' = [flash EXCEPT !.machine = snapshot.machine] \/ flash' = flash
      /\ pc' = "machine_saved" \/ pc' = "copy"
  BY DEF PollWriteMachine
<1>3. flash' \in [machine : {None} \cup Machine, ui : {None} \cup Preferences]
  BY <1>1, <1>2 DEF StorageTypeOK
<1> QED BY <1>2, <1>3 DEF PollWriteMachine, StorageTypeOK

LEMMA WritePreferencesTypes == StorageTypeOK /\ PollWritePreferences => StorageTypeOK'
<1> SUFFICES ASSUME StorageTypeOK, PollWritePreferences PROVE StorageTypeOK'
    OBVIOUS
<1>1. saving.preferences \in {None} \cup Preferences
  BY DEF StorageTypeOK
<1>2. /\ flash' = [flash EXCEPT !.ui = saving.preferences] \/ flash' = flash
      /\ pc' = "preferences_saved" \/ pc' = "rest"
  BY DEF PollWritePreferences
<1>3. flash' \in [machine : {None} \cup Machine, ui : {None} \cup Preferences]
  BY <1>1, <1>2 DEF StorageTypeOK
<1> QED BY <1>2, <1>3 DEF PollWritePreferences, StorageTypeOK

LEMMA NextTypes == StorageTypeOK /\ [StorageNext]_storage_vars => StorageTypeOK'
<1> SUFFICES ASSUME StorageTypeOK, [StorageNext]_storage_vars PROVE StorageTypeOK'
    OBVIOUS
<1>1. CASE PowerCut
  BY <1>1, PowerCutTypes
<1>2. CASE StorageStart
  BY <1>2, StartTypes
<1>3. CASE Submit
  BY <1>3 DEF Submit, StorageTypeOK
<1>4. CASE Tick
  BY <1>4, BoundAssumption DEF Tick, StorageTypeOK
<1>5. CASE Execute
  <2>1. moving' = moving \/ moving' = TRUE
    BY <1>5 DEF Execute
  <2>2. moving' \in BOOLEAN /\ queued' \in BOOLEAN
    BY <1>5, <2>1, Zenon DEF Execute, StorageTypeOK
  <2> QED BY <1>5, <2>2 DEF Execute, StorageTypeOK
<1>6. CASE Move
  <2>1. moving' \in BOOLEAN
    BY <1>6, Zenon DEF Move
  <2>2. rested' \in SUBSET Positions
    BY <1>6 DEF Move, StorageTypeOK
  <2> QED BY <1>6, <2>1, <2>2 DEF Move, StorageTypeOK
<1>7. CASE UpdateMode
  BY <1>7 DEF UpdateMode, StorageTypeOK
<1>8. CASE PollSample
  BY <1>8, SampleTypes
<1>9. CASE PollWriteMachine
  BY <1>9, WriteMachineTypes
<1>10. CASE PollMachineSaved
  <2>1. machine_dirty' = FALSE \/ machine_dirty' = machine_dirty
    BY <1>10 DEF PollMachineSaved
  <2>2. machine_dirty \in BOOLEAN
    BY DEF StorageTypeOK
  <2>3. machine_dirty' \in BOOLEAN
    BY <2>1, <2>2, Zenon
  <2>4. pc' = "copy" /\ UNCHANGED <<flash, ready, machine, machine_valid, machine_changed_at,
                                    machine_generation, panel, polling, motion, now>>
    BY <1>10 DEF PollMachineSaved
  <2> QED BY <2>3, <2>4 DEF StorageTypeOK
<1>11. CASE PollCopy
  BY <1>11 DEF PollCopy, StorageTypeOK
<1>12. CASE PollWritePreferences
  BY <1>12, WritePreferencesTypes
<1>13. CASE PollPreferencesSaved
  <2>1. dirty' = FALSE \/ dirty' = dirty
    BY <1>13 DEF PollPreferencesSaved
  <2>2. dirty \in BOOLEAN
    BY DEF StorageTypeOK
  <2>3. dirty' \in BOOLEAN
    BY <2>1, <2>2, Zenon
  <2>4. pc' = "rest" /\ UNCHANGED <<flash, ready, machinery, preferences, valid, changed_at,
                                    polling, motion, now>>
    BY <1>13 DEF PollPreferencesSaved
  <2> QED BY <2>3, <2>4 DEF StorageTypeOK
<1>14. CASE \E limits \in Limits, p \in Preferences : PanelSaves(limits, p)
  BY <1>14, PanelTypes
<1>15. CASE \E mask \in Masks : AxisSaves(mask)
  BY <1>15, AxisTypes
<1>16. CASE UNCHANGED storage_vars
  BY <1>16 DEF storage_vars, StorageTypeOK
<1> QED
  BY <1>1, <1>2, <1>3, <1>4, <1>5, <1>6, <1>7, <1>8, <1>9, <1>10, <1>11, <1>12, <1>13,
     <1>14, <1>15, <1>16 DEF StorageNext, StorageStep

\* Storage keeps its types, through power cuts and failed writes (storage.c).
THEOREM StorageTypes == StorageSpec => []StorageTypeOK
BY InitTypes, NextTypes, PTL DEF StorageSpec

----------------------------------------------------------------------------
(* Positions at rest. *)

\* A position is written, restored or sampled only where the axes rested.
RestInv ==
  /\ Origin \in rested
  /\ flash.machine # None => flash.machine.position \in rested
  /\ machine_valid => machine.position \in rested
  /\ pc = "machine" => snapshot.machine.position \in rested
  /\ ~moving => sys_position \in rested

LEMMA InitRest == StorageInit => RestInv
<1> SUFFICES ASSUME StorageInit PROVE RestInv
    OBVIOUS
<1>1. rested = {Origin} \cup (IF flash.machine = None THEN {} ELSE {flash.machine.position})
      /\ pc = "init" /\ machine_valid = FALSE /\ sys_position = Origin
  BY DEF StorageInit
<1> QED BY <1>1 DEF RestInv

LEMMA StartRest == RestInv /\ StorageStart => RestInv'
<1> SUFFICES ASSUME RestInv, StorageStart PROVE RestInv'
    OBVIOUS
<1>1. PICK opens \in BOOLEAN :
        /\ machine_valid' = (opens /\ flash.machine # None)
        /\ machine' = Restored(opens)
        /\ sys_position' = IF machine_valid' THEN machine'.position ELSE Origin
  BY DEF StorageStart
<1>2. machine_valid' => machine' = flash.machine /\ flash.machine # None
  BY <1>1 DEF Restored
<1>3. machine_valid' => machine'.position \in rested
  BY <1>2 DEF RestInv
<1>4. sys_position' \in rested
  <2>1. CASE machine_valid'
    BY <1>1, <1>3, <2>1
  <2>2. CASE ~machine_valid'
    BY <1>1, <2>2 DEF RestInv
  <2> QED BY <2>1, <2>2
<1> QED BY <1>3, <1>4 DEF RestInv, StorageStart

\* The panel changes nothing of the position.
LEMMA PanelRest ==
  ASSUME StorageTypeOK, RestInv, NEW limits \in Limits, NEW p \in Preferences,
         PanelSaves(limits, p)
  PROVE  RestInv'
<1>1. machine'.position = machine.position /\ machine_valid' = machine_valid
  <2>1. CASE limits = machine.limits
    BY <2>1 DEF PanelSaves, SavedLimits
  <2>2. CASE limits # machine.limits
    BY <2>2 DEF PanelSaves, SavedLimits, StorageTypeOK, Machine
  <2> QED BY <2>1, <2>2
<1> QED BY <1>1 DEF PanelSaves, RestInv

LEMMA AxisRest ==
  ASSUME StorageTypeOK, RestInv, NEW mask \in Masks, AxisSaves(mask)
  PROVE  RestInv'
<1>1. machine'.position = machine.position /\ machine_valid' = machine_valid
  <2>1. CASE mask = machine.disabled
    BY <2>1 DEF AxisSaves, SavedDisabled
  <2>2. CASE mask # machine.disabled
    BY <2>2 DEF AxisSaves, SavedDisabled, StorageTypeOK, Machine
  <2> QED BY <2>1, <2>2
<1> QED BY <1>1 DEF AxisSaves, RestInv

\* The sample is taken at rest.
LEMMA SampleRest == StorageTypeOK /\ RestInv /\ PollSample => RestInv'
<1> SUFFICES ASSUME StorageTypeOK, RestInv, PollSample PROVE RestInv'
    OBVIOUS
<1>1. sys_position \in rested
  BY DEF PollSample, FlashIdle, RestInv
<1>2. machine'.position \in rested
  <2>1. CASE machine_valid /\ machine.position = sys_position
    BY <1>1, <2>1 DEF PollSample, Sampled
  <2>2. CASE ~(machine_valid /\ machine.position = sys_position)
    BY <1>1, <2>2 DEF PollSample, Sampled, StorageTypeOK, Machine
  <2> QED BY <2>1, <2>2
<1>3. snapshot'.machine = machine'
  BY DEF PollSample
<1> QED BY <1>1, <1>2, <1>3 DEF PollSample, RestInv

LEMMA WriteMachineRest == StorageTypeOK /\ RestInv /\ PollWriteMachine => RestInv'
<1> SUFFICES ASSUME StorageTypeOK, RestInv, PollWriteMachine PROVE RestInv'
    OBVIOUS
<1>1. flash'.machine = snapshot.machine \/ flash' = flash
  BY DEF PollWriteMachine, StorageTypeOK
<1>2. snapshot.machine.position \in rested
  BY DEF PollWriteMachine, RestInv
<1>3. pc' # "machine"
  BY DEF PollWriteMachine
<1> QED BY <1>1, <1>2, <1>3 DEF PollWriteMachine, RestInv

LEMMA NextRest == StorageTypeOK /\ RestInv /\ [StorageNext]_storage_vars => RestInv'
<1> SUFFICES ASSUME StorageTypeOK, RestInv, [StorageNext]_storage_vars PROVE RestInv'
    OBVIOUS
<1>1. CASE PowerCut
  BY <1>1 DEF PowerCut, RestInv
<1>2. CASE StorageStart
  BY <1>2, StartRest
<1>3. CASE Submit
  BY <1>3 DEF Submit, RestInv
<1>4. CASE Tick
  BY <1>4 DEF Tick, RestInv
<1>5. CASE Execute
  <2>1. moving' = moving \/ moving' = TRUE
    BY <1>5 DEF Execute
  <2> QED BY <1>5, <2>1 DEF Execute, RestInv
<1>6. CASE Move
  <2>1. CASE moving' = TRUE /\ UNCHANGED rested
    BY <1>6, <2>1 DEF Move, RestInv
  <2>2. CASE moving' = FALSE /\ rested' = rested \cup {sys_position'}
    BY <1>6, <2>2 DEF Move, RestInv
  <2> QED BY <1>6, <2>1, <2>2 DEF Move
<1>7. CASE UpdateMode
  BY <1>7 DEF UpdateMode, RestInv
<1>8. CASE PollSample
  BY <1>8, SampleRest
<1>9. CASE PollWriteMachine
  BY <1>9, WriteMachineRest
<1>10. CASE PollMachineSaved
  BY <1>10 DEF PollMachineSaved, RestInv
<1>11. CASE PollCopy
  BY <1>11 DEF PollCopy, RestInv
<1>12. CASE PollWritePreferences
  <2>1. flash'.machine = flash.machine /\ pc' # "machine"
    BY <1>12 DEF PollWritePreferences, StorageTypeOK
  <2> QED BY <1>12, <2>1 DEF PollWritePreferences, RestInv
<1>13. CASE PollPreferencesSaved
  BY <1>13 DEF PollPreferencesSaved, RestInv
<1>14. CASE \E limits \in Limits, p \in Preferences : PanelSaves(limits, p)
  BY <1>14, PanelRest
<1>15. CASE \E mask \in Masks : AxisSaves(mask)
  BY <1>15, AxisRest
<1>16. CASE UNCHANGED storage_vars
  BY <1>16 DEF storage_vars, RestInv
<1> QED
  BY <1>1, <1>2, <1>3, <1>4, <1>5, <1>6, <1>7, <1>8, <1>9, <1>10, <1>11, <1>12, <1>13,
     <1>14, <1>15, <1>16 DEF StorageNext, StorageStep

\* The position a start restores is one at which the axes came to rest, for any
\* interleaving of moves, polls and power cuts (storage.c:205-222).
THEOREM RestedPosition == StorageSpec => []SavedPositionRested
<1>1. RestInv => SavedPositionRested
  BY DEF RestInv, SavedPositionRested
<1> QED BY <1>1, InitRest, NextRest, StorageTypes, PTL DEF StorageSpec

----------------------------------------------------------------------------
(* Clean means saved. *)

\* A copy on its way to flash is of the newest state unless something changed
\* since, and then the counter, or the stamp, tells.
MachineCopy ==
  pc \in {"machine", "machine_saved"} =>
    /\ machine_valid /\ machine_dirty
    /\ snapshot.generation <= machine_generation
    /\ snapshot.generation = machine_generation => snapshot.machine = machine
PreferencesCopy ==
  pc \in {"preferences", "preferences_saved"} =>
    /\ dirty
    /\ saving.stamp < now
    /\ changed_at = saving.stamp => preferences = saving.preferences
CleanInv ==
  /\ MachineCopy
  /\ pc = "machine_saved" => flash.machine = snapshot.machine
  /\ PreferencesCopy
  /\ pc = "preferences_saved" => flash.ui = saving.preferences
  /\ SavedWhenClean

LEMMA InitClean == StorageInit => CleanInv
BY DEF StorageInit, CleanInv, MachineCopy, PreferencesCopy, SavedWhenClean, Started

LEMMA StartClean == StorageStart => CleanInv'
<1> SUFFICES ASSUME StorageStart PROVE CleanInv'
    OBVIOUS
<1>1. PICK opens \in BOOLEAN :
        /\ valid' = (opens /\ flash.ui # None)
        /\ preferences' = IF opens THEN flash.ui ELSE None
        /\ machine_valid' = (opens /\ flash.machine # None)
        /\ machine' = Restored(opens)
  BY DEF StorageStart
<1>2. machine_valid' => flash.machine = machine'
  BY <1>1 DEF Restored
<1>3. valid' => flash.ui = preferences'
  BY <1>1
<1> QED
  BY <1>2, <1>3
  DEF StorageStart, CleanInv, MachineCopy, PreferencesCopy, SavedWhenClean, Started

\* A change of the machine state, seen by the copy: the counter has moved on.
LEMMA ChangedClean ==
  ASSUME StorageTypeOK, CleanInv, MachineChanged, machine_valid' = machine_valid,
         UNCHANGED <<pc, snapshot>>
  PROVE  MachineCopy'
<1>1. pc \in {"machine", "machine_saved"} => snapshot.generation <= machine_generation
  BY DEF CleanInv, MachineCopy
<1>2. snapshot.generation \in Int /\ machine_generation \in Int
  BY BoundAssumption DEF StorageTypeOK
<1>3. machine_generation' = machine_generation + 1 /\ machine_dirty' = TRUE
  BY DEF MachineChanged
<1>4. pc \in {"machine", "machine_saved"} => snapshot.generation < machine_generation'
  BY <1>1, <1>2, <1>3
<1> QED BY <1>2, <1>3, <1>4 DEF MachineCopy, CleanInv

LEMMA PanelClean ==
  ASSUME StorageTypeOK, CleanInv, NEW limits \in Limits, NEW p \in Preferences,
         PanelSaves(limits, p)
  PROVE  CleanInv'
<1> USE DEF PanelSaves
<1>1. MachineCopy' /\ (machine_valid' /\ ~machine_dirty' => machine' = machine /\ machine_valid
                                                             /\ ~machine_dirty)
  <2>1. CASE limits = machine.limits
    BY <2>1 DEF SavedLimits, CleanInv, MachineCopy
  <2>2. CASE limits # machine.limits
    <3>1. MachineChanged /\ machine_valid' = machine_valid
      BY <2>2 DEF SavedLimits
    <3>2. MachineCopy'
      BY <3>1, ChangedClean
    <3> QED BY <3>1, <3>2 DEF MachineChanged
  <2> QED BY <2>1, <2>2
<1>2. PreferencesCopy' /\ (valid' /\ ~dirty' => preferences' = preferences /\ valid /\ ~dirty)
  <2>1. CASE valid /\ p = preferences
    BY <2>1 DEF PreferencesSet, CleanInv, PreferencesCopy
  <2>2. CASE ~(valid /\ p = preferences)
    <3>1. dirty' = TRUE /\ changed_at' = now /\ valid' = TRUE
      BY <2>2 DEF PreferencesSet
    <3>2. now \in Int /\ saving.stamp \in Int
      BY BoundAssumption DEF StorageTypeOK
    <3> QED BY <3>1, <3>2 DEF CleanInv, PreferencesCopy
  <2> QED BY <2>1, <2>2
<1> QED BY <1>1, <1>2 DEF CleanInv, SavedWhenClean, Started

LEMMA AxisClean ==
  ASSUME StorageTypeOK, CleanInv, NEW mask \in Masks, AxisSaves(mask)
  PROVE  CleanInv'
<1> USE DEF AxisSaves
<1>1. MachineCopy' /\ (machine_valid' /\ ~machine_dirty' => machine' = machine /\ machine_valid
                                                             /\ ~machine_dirty)
  <2>1. CASE mask = machine.disabled
    BY <2>1 DEF SavedDisabled, CleanInv, MachineCopy
  <2>2. CASE mask # machine.disabled
    <3>1. MachineChanged /\ machine_valid' = machine_valid
      BY <2>2 DEF SavedDisabled
    <3>2. MachineCopy'
      BY <3>1, ChangedClean
    <3> QED BY <3>1, <3>2 DEF MachineChanged
  <2> QED BY <2>1, <2>2
<1> QED BY <1>1 DEF CleanInv, SavedWhenClean, Started, PreferencesCopy

LEMMA TickClean == StorageTypeOK /\ CleanInv /\ Tick => CleanInv'
<1> SUFFICES ASSUME StorageTypeOK, CleanInv, Tick PROVE CleanInv'
    OBVIOUS
<1>1. now' = now + 1 /\ now \in Int /\ saving.stamp \in Int
  BY BoundAssumption DEF Tick, StorageTypeOK
<1>2. PreferencesCopy'
  BY <1>1 DEF Tick, CleanInv, PreferencesCopy
<1> QED BY <1>2 DEF Tick, CleanInv, MachineCopy, SavedWhenClean, Started

LEMMA SampleClean == StorageTypeOK /\ CleanInv /\ PollSample => CleanInv'
<1> SUFFICES ASSUME StorageTypeOK, CleanInv, PollSample PROVE CleanInv'
    OBVIOUS
<1>1. machine_valid' /\ (~machine_dirty' => machine' = machine /\ machine_valid
                                            /\ ~machine_dirty)
  <2>1. CASE machine_valid /\ machine.position = sys_position
    BY <2>1 DEF PollSample, Sampled
  <2>2. CASE ~(machine_valid /\ machine.position = sys_position)
    BY <2>2 DEF PollSample, Sampled, MachineChanged
  <2> QED BY <2>1, <2>2
<1>2. machine_generation' \in Int
  BY SampleTypes, BoundAssumption DEF StorageTypeOK
<1>3. snapshot'.machine = machine' /\ snapshot'.generation = machine_generation'
  BY DEF PollSample
<1>4. (pc' = "machine" /\ machine_dirty') \/ pc' = "copy"
  BY DEF PollSample
<1>5. MachineCopy'
  BY <1>1, <1>2, <1>3, <1>4 DEF MachineCopy
<1> QED
  BY <1>1, <1>4, <1>5
  DEF PollSample, CleanInv, PreferencesCopy, SavedWhenClean, Started

LEMMA WriteMachineClean == StorageTypeOK /\ CleanInv /\ PollWriteMachine => CleanInv'
<1> SUFFICES ASSUME StorageTypeOK, CleanInv, PollWriteMachine PROVE CleanInv'
    OBVIOUS
<1>1. \/ flash'.machine = snapshot.machine /\ pc' = "machine_saved"
      \/ pc' = "copy"
  BY DEF PollWriteMachine, StorageTypeOK
<1>2. flash'.ui = flash.ui
  BY DEF PollWriteMachine, StorageTypeOK
<1>3. pc = "machine" /\ machine_dirty
  BY DEF PollWriteMachine, CleanInv, MachineCopy
<1> QED
  BY <1>1, <1>2, <1>3
  DEF PollWriteMachine, CleanInv, MachineCopy, PreferencesCopy, SavedWhenClean, Started

LEMMA MachineSavedClean == StorageTypeOK /\ CleanInv /\ PollMachineSaved => CleanInv'
<1> SUFFICES ASSUME StorageTypeOK, CleanInv, PollMachineSaved PROVE CleanInv'
    OBVIOUS
<1>1. flash.machine = snapshot.machine /\ machine_dirty
  BY DEF PollMachineSaved, CleanInv, MachineCopy
<1>2. SameMachine => snapshot.machine = machine
  BY DEF PollMachineSaved, CleanInv, MachineCopy, SameMachine
<1>3. ~machine_dirty' => flash.machine = machine
  BY <1>1, <1>2 DEF PollMachineSaved
<1> QED
  BY <1>3
  DEF PollMachineSaved, CleanInv, MachineCopy, PreferencesCopy, SavedWhenClean, Started

\* A copy is sent when the newest change is old: its stamp has passed.
LEMMA CopyClean == StorageTypeOK /\ CleanInv /\ PollCopy => CleanInv'
<1> SUFFICES ASSUME StorageTypeOK, CleanInv, PollCopy PROVE CleanInv'
    OBVIOUS
<1>1. saving'.preferences = preferences /\ saving'.stamp = changed_at
  BY DEF PollCopy
<1>2. now \in Int /\ changed_at \in Int /\ PreferencesDelay \in Nat
  BY BoundAssumption, DelayAssumption DEF StorageTypeOK
<1>3. (pc' = "preferences" /\ dirty /\ now - changed_at > PreferencesDelay) \/ pc' = "rest"
  BY DEF PollCopy
<1>4. PreferencesCopy'
  BY <1>1, <1>2, <1>3 DEF PollCopy, PreferencesCopy
<1> QED BY <1>3, <1>4 DEF PollCopy, CleanInv, MachineCopy, SavedWhenClean, Started

LEMMA WritePreferencesClean == StorageTypeOK /\ CleanInv /\ PollWritePreferences => CleanInv'
<1> SUFFICES ASSUME StorageTypeOK, CleanInv, PollWritePreferences PROVE CleanInv'
    OBVIOUS
<1>1. \/ flash'.ui = saving.preferences /\ pc' = "preferences_saved"
      \/ pc' = "rest"
  BY DEF PollWritePreferences, StorageTypeOK
<1>2. flash'.machine = flash.machine
  BY DEF PollWritePreferences, StorageTypeOK
<1>3. pc = "preferences" /\ dirty
  BY DEF PollWritePreferences, CleanInv, PreferencesCopy
<1> QED
  BY <1>1, <1>2, <1>3
  DEF PollWritePreferences, CleanInv, MachineCopy, PreferencesCopy, SavedWhenClean, Started

LEMMA PreferencesSavedClean == StorageTypeOK /\ CleanInv /\ PollPreferencesSaved => CleanInv'
<1> SUFFICES ASSUME StorageTypeOK, CleanInv, PollPreferencesSaved PROVE CleanInv'
    OBVIOUS
<1>1. flash.ui = saving.preferences /\ dirty
  BY DEF PollPreferencesSaved, CleanInv, PreferencesCopy
<1>2. changed_at = saving.stamp => preferences = saving.preferences
  BY DEF PollPreferencesSaved, CleanInv, PreferencesCopy
<1>3. ~dirty' => flash.ui = preferences
  BY <1>1, <1>2 DEF PollPreferencesSaved
<1> QED
  BY <1>3
  DEF PollPreferencesSaved, CleanInv, MachineCopy, PreferencesCopy, SavedWhenClean, Started

LEMMA NextClean == StorageTypeOK /\ CleanInv /\ [StorageNext]_storage_vars => CleanInv'
<1> SUFFICES ASSUME StorageTypeOK, CleanInv, [StorageNext]_storage_vars PROVE CleanInv'
    OBVIOUS
<1> USE DEF CleanInv, MachineCopy, PreferencesCopy, SavedWhenClean, Started
<1>1. CASE PowerCut
  BY <1>1 DEF PowerCut
<1>2. CASE StorageStart
  BY <1>2, StartClean
<1>3. CASE Submit
  BY <1>3 DEF Submit
<1>4. CASE Tick
  BY <1>4, TickClean
<1>5. CASE Execute
  BY <1>5 DEF Execute
<1>6. CASE Move
  BY <1>6 DEF Move
<1>7. CASE UpdateMode
  BY <1>7 DEF UpdateMode
<1>8. CASE PollSample
  BY <1>8, SampleClean
<1>9. CASE PollWriteMachine
  BY <1>9, WriteMachineClean
<1>10. CASE PollMachineSaved
  BY <1>10, MachineSavedClean
<1>11. CASE PollCopy
  BY <1>11, CopyClean
<1>12. CASE PollWritePreferences
  BY <1>12, WritePreferencesClean
<1>13. CASE PollPreferencesSaved
  BY <1>13, PreferencesSavedClean
<1>14. CASE \E limits \in Limits, p \in Preferences : PanelSaves(limits, p)
  BY <1>14, PanelClean
<1>15. CASE \E mask \in Masks : AxisSaves(mask)
  BY <1>15, AxisClean
<1>16. CASE UNCHANGED storage_vars
  BY <1>16 DEF storage_vars
<1> QED
  BY <1>1, <1>2, <1>3, <1>4, <1>5, <1>6, <1>7, <1>8, <1>9, <1>10, <1>11, <1>12, <1>13,
     <1>14, <1>15, <1>16 DEF StorageNext, StorageStep

\* Whatever is not marked as unsaved is in flash, although the writes happen
\* outside the lock and the panel writes meanwhile (storage.c:205-241).
THEOREM CleanIsSaved == StorageSpec => []SavedWhenClean
<1>1. CleanInv => SavedWhenClean
  BY DEF CleanInv
<1> QED BY <1>1, InitClean, NextClean, StorageTypes, PTL DEF StorageSpec

----------------------------------------------------------------------------
(* The upgrade of retired settings: module MotionUpgrade. *)

\* The keys the upgrade has dealt with when it is at p.
Done(p) == IF p \in {"sync", "mark"} THEN Keys
           ELSE IF p = "x_acceleration" THEN {"z_acceleration", "x_rate"}
           ELSE IF p = "x_rate" THEN {"z_acceleration"} ELSE {}

Upgrading == place \in {"sync", "mark"} \cup Keys

UpgradeInv ==
  /\ TypeOK
  \* A value of an earlier release is there only if its revision has not retired it, in the
  \* blob and in RAM.
  /\ \A key \in Keys : core[key] = "retired" => motion_rev < Retires[key]
  /\ place # "off" => \A key \in Keys : settings[key] = "retired" => motion_rev < Retires[key]
  \* While the upgrade runs, the revision is the one it read and what it has dealt with is
  \* not retired; without a change RAM is the blob, and so it is when the revision is written.
  /\ Upgrading =>
       /\ revision = motion_rev
       /\ \A key \in Done(place) : settings[key] # "retired"
       /\ ~changed \/ place = "mark" => core = settings

LEMMA InitUpgrade == Init => UpgradeInv
<1> SUFFICES ASSUME Init PROVE UpgradeInv
  OBVIOUS
<1>1. place = "off" /\ revision = 0 /\ revision \in 0 .. Current
  BY SMT DEF Init, Current
<1>2. changed \in BOOLEAN /\ written \in BOOLEAN
  BY Zenon DEF Init
<1>3. ~Upgrading
  BY <1>1 DEF Upgrading, Keys
<1> QED
  BY <1>1, <1>2, <1>3 DEF Init, UpgradeInv, TypeOK

LEMMA NextUpgrade == UpgradeInv /\ [Next]_vars => UpgradeInv'
<1> SUFFICES ASSUME UpgradeInv, [Next]_vars PROVE UpgradeInv'
  OBVIOUS
<1> USE DEF UpgradeInv
<1>1. CASE PowerLost
  BY <1>1 DEF PowerLost, TypeOK, Upgrading, Keys
<1>2. CASE Start
  <2>1. place' \in {"z_acceleration", "run"}
    BY <1>2 DEF Start
  <2>2. changed' \in BOOLEAN /\ written' \in BOOLEAN
    BY <1>2, Zenon DEF Start
  <2>3. TypeOK'
    BY <1>2, <2>1, <2>2 DEF Start, TypeOK, Keys
  <2>4. Done(place') = {}
    BY <2>1 DEF Done
  <2> QED
    BY <1>2, <2>3, <2>4 DEF Start, Upgrading
<1>3. CASE Sync
  <2>1. place' \in {"mark", "run"} /\ written' \in BOOLEAN
    BY <1>3, Zenon DEF Sync, TypeOK
  <2>2. core' \in {core, settings} /\ settings' = settings /\ motion_rev' = motion_rev
        /\ revision' = revision /\ changed' = changed
    BY <1>3, Zenon DEF Sync
  <2>3. TypeOK'
    BY <2>1, <2>2 DEF TypeOK
  <2>4. place' = "mark" => core' = settings'
    <3> SUFFICES ASSUME place' = "mark" PROVE core' = settings
      BY <2>2
    <3>1. changed => written'
      BY <1>3 DEF Sync
    <3>2. CASE ~changed
      <4>1. core' = core
        BY <1>3, <3>2, Zenon DEF Sync
      <4>2. Upgrading
        BY <1>3 DEF Sync, Upgrading
      <4> QED
        BY <3>2, <4>1, <4>2
    <3>3. CASE changed
      BY <1>3, <3>1, <3>3, Zenon DEF Sync
    <3> QED
      BY <3>2, <3>3
  <2>5. Upgrading /\ Done(place) = Keys /\ Done("mark") = Keys /\ place # "off"
    BY <1>3, Zenon DEF Sync, Upgrading, Done
  <2> QED
    BY <2>1, <2>2, <2>3, <2>4, <2>5 DEF Upgrading, Keys
<1>4. CASE Mark
  <2>1. /\ place' = "run" /\ motion_rev' \in {Current, motion_rev} /\ core' = core
        /\ settings' = settings /\ revision' = revision
        /\ changed' = changed /\ written' = written
    BY <1>4, Zenon DEF Mark
  <2>2. TypeOK'
    BY <2>1, SMT DEF TypeOK, Current
  <2>3. \A key \in Keys : settings[key] # "retired" /\ core[key] # "retired"
    BY <1>4, Zenon DEF Mark, Upgrading, Done
  <2> QED
    BY <2>1, <2>2, <2>3 DEF Upgrading, Keys
<1>5. CASE Save
  BY <1>5 DEF Save, TypeOK, Upgrading, Keys
<1>6. ASSUME NEW key \in Keys, Replace(key)
      PROVE  UpgradeInv'
  <2>1. /\ place = key /\ Upgrading /\ place # "off" /\ place' \in {Next3[key], "run"}
        /\ core' = core /\ motion_rev' = motion_rev /\ revision' = revision
        /\ written' = written
    BY <1>6 DEF Replace, Upgrading, Keys
  <2>2. settings' \in [Keys -> Values] /\ changed' \in BOOLEAN
    BY <1>6, Zenon DEF Replace, TypeOK, Values
  <2>3. \A k \in Keys : settings'[k] = "retired" => settings[k] = "retired"
    BY <1>6 DEF Replace, TypeOK
  <2>4. TypeOK'
    BY <2>1, <2>2 DEF TypeOK, Next3, Keys
  <2>5. ASSUME place' # "run"
        PROVE  /\ settings'[key] # "retired"
               /\ place' = Next3[key]
               /\ ~changed' => settings' = settings /\ ~changed
    <3>1. place' = Next3[key]
      BY <2>1, <2>5
    <3>2. ~changed' => settings' = settings /\ ~changed
      BY <1>6, <2>5, Zenon DEF Replace
    <3>3. ~Due(key) => settings[key] # "retired"
      BY <2>1, Zenon DEF Due
    <3>4. settings'[key] # "retired"
      <4>1. CASE ~Due(key)
        BY <1>6, <4>1, <3>3, Zenon DEF Replace
      <4>2. CASE Due(key)
        BY <1>6, <2>5, <4>2 DEF Replace, TypeOK
      <4> QED
        BY <4>1, <4>2
    <3> QED
      BY <3>1, <3>2, <3>4
  <2>6. Next3[key] # "mark" /\ \A k \in Done(Next3[key]) : k \in Done(key) \cup {key}
    BY DEF Next3, Done, Keys
  <2>7. Upgrading' => /\ \A k \in Done(place') : settings'[k] # "retired"
                      /\ ~changed' \/ place' = "mark" => core' = settings'
    <3>1. Done(key) \in SUBSET Keys
      BY DEF Done, Keys
    <3> SUFFICES ASSUME Upgrading'
                 PROVE  /\ \A k \in Done(place') : settings'[k] # "retired"
                        /\ ~changed' \/ place' = "mark" => core' = settings'
      OBVIOUS
    <3>2. place' # "run"
      BY DEF Upgrading, Keys
    <3> QED
      BY <2>1, <2>3, <2>5, <2>6, <3>1, <3>2, Zenon
  <2> QED
    BY <2>1, <2>3, <2>4, <2>7
<1>7. ASSUME NEW key \in Keys, NEW value \in Values \ {"retired"}, Enter(key, value)
      PROVE  UpgradeInv'
  BY <1>7 DEF Enter, TypeOK, Upgrading, Keys
<1>8. CASE UNCHANGED vars
  BY <1>8 DEF vars, TypeOK, Upgrading, Done
<1> QED
  BY <1>1, <1>2, <1>3, <1>4, <1>5, <1>6, <1>7, <1>8 DEF Next

\* Once the current revision is in flash the upgrade is in flash too, over every power cut
\* and failed write (storage.c:163-195).
THEOREM RevisionIsPromise == Spec => []RevisionMarksUpgrade
<1>1. UpgradeInv => RevisionMarksUpgrade
  BY SMT DEF UpgradeInv, RevisionMarksUpgrade, Retires, Current, Keys
<1> QED
  BY <1>1, InitUpgrade, NextUpgrade, PTL DEF Spec
=============================================================================
