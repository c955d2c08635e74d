------------------------------ MODULE Storage ------------------------------
(* storage.c: what survives a power cut.

   The touchscreen task writes the machining limits, the disabled axes and the
   preferences into RAM copies guarded by a lock.  The grblHAL task, from the
   poll of its realtime hook, adds the position at rest and writes a copy to
   flash once nothing has changed for a while: the copy is taken under the lock,
   the slow flash write happens outside it, and the copy counts as saved only if
   nothing changed meanwhile.  At start the copies are read back.  (The upgrade
   of retired axis settings, also in storage.c, is module MotionUpgrade.)

   A power cut may come between any two steps.  The flash library keeps or
   replaces a blob as a whole; a write may fail, or report a failure although
   the new blob stays (nvs_set_blob succeeded, nvs_commit did not).            *)
EXTENDS Integers

CONSTANTS
  Limits, Unlimited,     \* values of machine.limits; the value at first start
  Preferences,           \* values of lathe_preferences_t that are valid
  Positions, Origin,     \* values of sys.position; where the core starts counting
  Masks, NoAxis,         \* values of machine.disabled; no axis disabled
  None,                  \* a blob that is missing or that the checks refuse
  MachineDelay, PreferencesDelay,  \* pdMS_TO_TICKS(500) and (2000), in model ticks
  MaxTime, MaxChanges    \* bounds: ticks of one power-up, changes of machine state

ASSUME UnlimitedAssumption == Unlimited \in Limits
ASSUME OriginAssumption == Origin \in Positions
ASSUME NoAxisAssumption == NoAxis \in Masks
ASSUME NoneAssumption == None \notin Preferences
ASSUME DelayAssumption == MachineDelay \in Nat /\ PreferencesDelay \in Nat
ASSUME BoundAssumption == MaxTime \in Nat /\ MaxChanges \in Nat

\* machine_state_t.
Machine == [position : Positions, limits : Limits, disabled : Masks]
ASSUME NoneIsNoMachine == None \notin Machine

VARIABLES
  flash,              \* what the partition holds: machine_v1 and ui_v1
  pc,                 \* where the grblHAL task is
  ready,              \* the partition opened
  machine, machine_valid, machine_dirty, machine_changed_at, machine_generation,
  snapshot,           \* lathe_storage_poll's copy of machine, and its generation
  preferences, valid, dirty, changed_at,
  saving,             \* lathe_storage_poll's copy of preferences, and its stamp
  sys_position, moving, queued, updating,
  now,                \* xTaskGetTickCount()
  rested              \* history: positions at which the axes have rested

machinery == <<machine, machine_valid, machine_dirty, machine_changed_at, machine_generation>>
panel == <<preferences, valid, dirty, changed_at>>
polling == <<snapshot, saving>>
motion == <<sys_position, moving, queued, updating, rested>>
storage_vars == <<flash, pc, ready, machinery, panel, polling, motion, now>>

----------------------------------------------------------------------------
(* Start. *)

\* machine before storage_init, and copies not taken yet.
NewMachine == [position |-> Origin, limits |-> Unlimited, disabled |-> NoAxis]
NoSnapshot == [machine |-> None, generation |-> 0]
NothingSaving == [preferences |-> None, stamp |-> 0]

\* Whatever an earlier power-up left in the partition: a position at rest.
StorageInit ==
  /\ flash \in [machine : {None} \cup Machine, ui : {None} \cup Preferences]
  /\ pc = "init" /\ ready = FALSE
  /\ machine = NewMachine /\ machine_valid = FALSE /\ machine_dirty = FALSE
  /\ machine_changed_at = 0 /\ machine_generation = 0
  /\ snapshot = NoSnapshot /\ saving = NothingSaving
  /\ preferences = None /\ valid = FALSE /\ dirty = FALSE /\ changed_at = 0
  /\ sys_position = Origin /\ moving = FALSE /\ queued = FALSE /\ updating = FALSE
  /\ now = 0
  /\ rested = {Origin} \cup (IF flash.machine = None THEN {} ELSE {flash.machine.position})

\* A power cut or a reset, in any step: only the flash stays.
PowerCut ==
  /\ pc' = "init" /\ ready' = FALSE
  /\ machine' = NewMachine /\ machine_valid' = FALSE /\ machine_dirty' = FALSE
  /\ machine_changed_at' = 0 /\ machine_generation' = 0
  /\ snapshot' = NoSnapshot /\ saving' = NothingSaving
  /\ preferences' = None /\ valid' = FALSE /\ dirty' = FALSE /\ changed_at' = 0
  /\ sys_position' = Origin /\ moving' = FALSE /\ queued' = FALSE /\ updating' = FALSE
  /\ now' = 0
  /\ UNCHANGED <<flash, rested>>

\* Mutant: the size and the version of the blob are not checked.
RestoredUnchecked(opens) == IF opens THEN flash.machine ELSE machine

\* The machine state to go on with: what flash holds, if it passes the checks.
Restored(opens) == IF opens /\ flash.machine # None THEN flash.machine ELSE machine

\* lathe_storage_init, then the core's get_position and the read of its blob.  A
\* partition that does not open leaves RAM-only operation.
StorageStart ==
  /\ pc = "init"
  /\ \E opens \in BOOLEAN :
       /\ ready' = opens
       /\ valid' = (opens /\ flash.ui # None)
       /\ preferences' = IF opens THEN flash.ui ELSE None
       /\ machine_valid' = (opens /\ flash.machine # None)
       /\ machine' = Restored(opens)
       /\ sys_position' = IF machine_valid' THEN machine'.position ELSE Origin
  /\ pc' = "rest"
  /\ UNCHANGED <<flash, machine_dirty, machine_changed_at, machine_generation, dirty,
                 changed_at, polling, moving, queued, updating, rested, now>>

----------------------------------------------------------------------------
(* The touchscreen task.  Each body is one critical section. *)

Started == pc # "init"

\* The stamp and the counter of machine_changed().
MachineChanged ==
  /\ machine_generation < MaxChanges
  /\ machine_dirty' = TRUE
  /\ machine_changed_at' = now
  /\ machine_generation' = machine_generation + 1

\* lathe_saved_limits_set.
SavedLimits(limits) ==
  IF limits = machine.limits THEN UNCHANGED machinery
  ELSE /\ MachineChanged
       /\ machine' = [machine EXCEPT !.limits = limits]
       /\ UNCHANGED machine_valid

\* lathe_saved_disabled_set.
SavedDisabled(mask) ==
  IF mask = machine.disabled THEN UNCHANGED machinery
  ELSE /\ MachineChanged
       /\ machine' = [machine EXCEPT !.disabled = mask]
       /\ UNCHANGED machine_valid

\* lathe_preferences_set.
PreferencesSet(p) ==
  IF valid /\ p = preferences THEN UNCHANGED panel
  ELSE /\ preferences' = p
       /\ valid' = TRUE /\ dirty' = TRUE
       /\ changed_at' = now

\* lathe_ui_sync: the limits and the preferences of the panel.  The two critical
\* sections touch different state, as do the steps of the poll between them.
PanelSaves(limits, p) ==
  /\ Started
  /\ SavedLimits(limits)
  /\ PreferencesSet(p)
  /\ UNCHANGED <<flash, pc, ready, polling, motion, now>>

AxisSaves(mask) ==
  /\ Started
  /\ SavedDisabled(mask)
  /\ UNCHANGED <<flash, pc, ready, panel, polling, motion, now>>

Submit ==
  /\ Started
  /\ queued' = TRUE
  /\ UNCHANGED <<flash, pc, ready, machinery, panel, polling, sys_position, moving,
                 updating, rested, now>>

Tick ==
  /\ now < MaxTime
  /\ now' = now + 1
  /\ UNCHANGED <<flash, pc, ready, machinery, panel, polling, motion>>

----------------------------------------------------------------------------
(* The grblHAL task outside the poll: it takes a line and moves. *)

Execute ==
  /\ pc = "rest" /\ queued /\ ~updating
  /\ queued' = FALSE
  /\ moving' \in {moving, TRUE}
  /\ UNCHANGED <<flash, pc, ready, machinery, panel, polling, sys_position, updating, rested, now>>

Move ==
  /\ pc = "rest" /\ moving
  /\ sys_position' \in Positions
  /\ \/ moving' = TRUE /\ UNCHANGED rested
     \/ moving' = FALSE /\ rested' = rested \cup {sys_position'}
  /\ UNCHANGED <<flash, pc, ready, machinery, panel, polling, queued, updating, now>>

UpdateMode ==
  /\ pc = "rest" /\ ~moving
  /\ updating' = ~updating
  /\ UNCHANGED <<flash, pc, ready, machinery, panel, polling, sys_position, moving, queued,
                 rested, now>>

----------------------------------------------------------------------------
(* lathe_storage_poll. *)

\* Mutant: an axis may be moving.
AnyTime == ~updating

\* flash_idle().
FlashIdle == ~updating /\ ~moving

\* The settled position, sampled under the lock.
Sampled ==
  IF machine_valid /\ machine.position = sys_position THEN UNCHANGED machinery
  ELSE /\ MachineChanged
       /\ machine' = [machine EXCEPT !.position = sys_position]
       /\ machine_valid' = TRUE

PollSample ==
  /\ pc = "rest"
  /\ ready /\ FlashIdle /\ ~queued
  /\ Sampled
  /\ snapshot' = [machine |-> machine', generation |-> machine_generation']
  /\ pc' = IF machine_dirty' /\ now - machine_changed_at' >= MachineDelay
           THEN "machine" ELSE "copy"
  /\ UNCHANGED <<flash, ready, panel, saving, motion, now>>

\* The write, outside the lock: done, failed, or failed although it took place.
PollWriteMachine ==
  /\ pc = "machine"
  /\ \/ flash' = [flash EXCEPT !.machine = snapshot.machine] /\ pc' = "machine_saved"
     \/ flash' = [flash EXCEPT !.machine = snapshot.machine] /\ pc' = "copy"
     \/ UNCHANGED flash /\ pc' = "copy"
  /\ UNCHANGED <<ready, machinery, panel, polling, motion, now>>

\* Mutant: a change during the write is not noticed.
MachineUnchanged == TRUE

\* The copy counts only if the state is still the one that was copied.
SameMachine == snapshot.generation = machine_generation

PollMachineSaved ==
  /\ pc = "machine_saved"
  /\ machine_dirty' = IF SameMachine THEN FALSE ELSE machine_dirty
  /\ pc' = "copy"
  /\ UNCHANGED <<flash, ready, machine, machine_valid, machine_changed_at, machine_generation,
                 panel, polling, motion, now>>

PollCopy ==
  /\ pc = "copy"
  /\ saving' = [preferences |-> preferences, stamp |-> changed_at]
  /\ pc' = IF dirty /\ now - changed_at > PreferencesDelay THEN "preferences" ELSE "rest"
  /\ UNCHANGED <<flash, ready, machinery, panel, snapshot, motion, now>>

PollWritePreferences ==
  /\ pc = "preferences"
  /\ \/ flash' = [flash EXCEPT !.ui = saving.preferences] /\ pc' = "preferences_saved"
     \/ flash' = [flash EXCEPT !.ui = saving.preferences] /\ pc' = "rest"
     \/ UNCHANGED flash /\ pc' = "rest"
  /\ UNCHANGED <<ready, machinery, panel, polling, motion, now>>

PollPreferencesSaved ==
  /\ pc = "preferences_saved"
  /\ dirty' = IF changed_at = saving.stamp THEN FALSE ELSE dirty
  /\ pc' = "rest"
  /\ UNCHANGED <<flash, ready, machinery, preferences, valid, changed_at, polling,
                 motion, now>>

----------------------------------------------------------------------------
\* Everything but the panel's own writes.
StorageStep ==
  \/ PowerCut \/ StorageStart
  \/ Submit \/ Tick \/ Execute \/ Move \/ UpdateMode
  \/ PollSample \/ PollWriteMachine \/ PollMachineSaved
  \/ PollCopy \/ PollWritePreferences \/ PollPreferencesSaved

StorageNext ==
  \/ StorageStep
  \/ \E limits \in Limits, p \in Preferences : PanelSaves(limits, p)
  \/ \E mask \in Masks : AxisSaves(mask)

StorageSpec == StorageInit /\ [][StorageNext]_storage_vars

----------------------------------------------------------------------------
(* Properties. *)

\* Every variable holds a value of its type.
StorageTypeOK ==
  /\ flash \in [machine : {None} \cup Machine, ui : {None} \cup Preferences]
  /\ pc \in {"init", "rest", "machine",
             "machine_saved", "copy", "preferences", "preferences_saved"}
  /\ ready \in BOOLEAN
  /\ machine \in Machine /\ machine_valid \in BOOLEAN /\ machine_dirty \in BOOLEAN
  /\ machine_changed_at \in 0..MaxTime /\ machine_generation \in 0..MaxChanges
  /\ snapshot \in [machine : {None} \cup Machine, generation : 0..MaxChanges]
  /\ preferences \in {None} \cup Preferences /\ valid \in BOOLEAN /\ dirty \in BOOLEAN
  /\ changed_at \in 0..MaxTime
  /\ saving \in [preferences : {None} \cup Preferences, stamp : 0..MaxTime]
  /\ sys_position \in Positions
  /\ moving \in BOOLEAN /\ queued \in BOOLEAN /\ updating \in BOOLEAN
  /\ now \in 0..MaxTime
  /\ rested \in SUBSET Positions

\* State that is not marked as unsaved is in flash, whatever the panel changed
\* while a write was under way: the machine state and the preferences the
\* display goes on showing are those a power cut would bring back.
SavedWhenClean ==
  Started /\ ready =>
    /\ machine_valid /\ ~machine_dirty => flash.machine = machine
    /\ valid /\ ~dirty => flash.ui = preferences

\* The position in flash, the one a start restores, is one at which the axes
\* have come to rest: never a position an axis was passing through.
SavedPositionRested == flash.machine # None => flash.machine.position \in rested
=============================================================================
