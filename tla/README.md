# A verification model of the lathe controller

The firmware turns an ESP32-P4 with a touch screen into a lathe controller on
top of grblHAL. This directory holds TLA+ models of its control logic, the TLC
runs that check them on small instances, and TLAPS proofs of what holds for
every instance. Source paths below are relative to the repository.

## The system

Four activities run concurrently:

- the **grblHAL task** (core 1): parser, planner and every motion decision. Its
  realtime hook `realtime()` (`main/controller.c:79`) polls, in this order, the
  axis policy, the USB stream, the spindle, the command bridge, the cycles (the
  assisted feed first), the update mode and the storage;
- the **UI task** (core 0, LVGL): operator requests, through short critical
  sections and one FreeRTOS queue;
- the **network task** (core 0): firmware upload and diagnostics;
- the **step interrupt**: STEP pulses, the index of the spindle and `entry_cutting`.

A write to a full UART runs the realtime hook again from inside the write
(`main/serial.c:41`), which makes the single-task part re-entrant as well.

| component | state it keeps | operations | what makes it correct |
|---|---|---|---|
| profile cycle, `main/cycle.c` | published/pending/stopping flags shared with the UI; stage, pass, start, chord and recovery flags of the grblHAL task | request, cancel, advance, poll, reset | a cut is completed before the tool retracts, whatever interrupts it; rapids run clear; STOP is final and ends; nothing else ends an operation |
| cycle plan, `components/lathe_ui/cycle_plan.c` | none (pure) | plan, depth, point, segment_at | depths and chords stay in the plan |
| thread entry, `main/thread_entry.c` | none | queue the plunge and the thread pass | both blocks or none; only for the cycle that asked |
| spindle, `main/spindle.c` | encoder accumulator, speed, modes, index wait | data for the planner, index wait, stall fault | counts and turns are exact over both signs; no fault under a cycle |
| command bridge, `main/bridge.c` | queue, epoch, ids, completion, owner | submit, discard, flush, read, report | a status belongs to the command it names; nothing discarded is executed |
| USB stream, `main/serial.c` | ring, line being read or dropped | poll, read, flush | no truncated or foreign line is executed |
| assisted feed, `main/follow.c` | stage, manual override, parameters, owner | request, cancel, update, jog, release, poll, reset | it rests when stopped; an override never outlives its key |
| ownership and update mode, `main/network.c`, `main/bridge.c:19` | owner, enabled/requested/uploading, validation | claim, release, enter, expire, upload, confirm, roll back | one owner; an upload keeps the machine until it has ended; a new image is confirmed or rolled back |
| axis policy, `main/controller.c` | requested and applied disabled axes | set, apply at rest | applied only at rest; the last request wins |
| storage, `main/storage.c` | preferences, machine state, dirty flags, generations, revision | set, poll, restore, upgrade | a restored position is one of rest; no change is lost; the upgrade is complete before it is marked |
| operator interface, `components/lathe_ui/ui.cpp`, `NormalOperationMode.cpp`, `LimitEditor.cpp` | stops, jog in progress, last ids, draft of the limits | jog, limits, preview, start/stop, sync | a jog stays within the stops; Hold needs the finger; an edit stops what was requested before it; limits mean what was typed |
| settings widgets, `Numpad.cpp`, `PitchPicker.cpp`, `SettingsScreen.cpp`, `CompactTabSelector.cpp` | settings, cached labels, keypad | enter, pick, select, frame | settings stay in range; what is shown is what is set and saved |
| diagnostics, `main/diagnostics.c` | end of the session, sample | start, stop, check, serve | nothing is reported outside a session; no session is cut short or revived |
| locks, board support, bench scripts | | | not motion logic |

How they meet: the UI requests an operation by claiming `operation_owner` and
setting `pending`; the cycle's poll plans it, submits one command at a time
through the bridge, and waits for the status of that command and for the axes
to rest. The spindle is external: the operator may stop or reverse it at any
time, and a cut then pauses: the cycle cancels the motion, resets the core
(`CMD_RESET`, or `EXEC_STOP` in the index wait), and `lathe_cycle_reset()`, which
runs inside that reset, keeps the operation for recovery. Hard are therefore:
the order of poll, acknowledgement, rest and reset; a step interrupt between
two reads; re-entrant writes; two tasks submitting; crashes between a motion
and its commit. `PROJECT.json` lists each hazard at its line.

## What is modelled

    CyclePlan -- LatheCore -- Cycle -- CycleRefinement -- CycleContract (INSTANCE)
                                |  \-- MC_CycleLiveness
                                \----- CycleProofs

    Stream -- StreamProofs     Ownership -- OwnershipProofs
    Follow -- FollowProofs     Storage -- StorageProofs -- MotionUpgrade
    Panel -- PanelProofs       Operator -- OperatorProofs -- LimitEditor
    Words -- SpindleCount -- WordProofs -- Diagnostics

`Cycle`, `Stream`, `Ownership`, `Follow`, `Storage` and `Operator` are checked by
TLC and proved; `Panel`, `LimitEditor`, `MotionUpgrade`, `SpindleCount` and
`Diagnostics` are proved only. A proof module may serve two components.

The modules of the second group meet at interfaces rather than in one state
space: `Stream` and `Operator` see an operation only as busy or not, `Ownership`
sees the operations only as active, stopping and moving, and `Cycle` sees the
spindle that `SpindleCount` computes by its sign.

### The profile cycle

**CyclePlan** is the geometry of a cycle, on an integer grid in the cycle's own
frame: `cut` grows in the direction of the cut, `depth` into the work. Turning
direction, the choice of axis (facing is turning in this frame) and units are
absorbed by the frame. A thread approaches from a take-up station; an ellipse is
a polyline taken along its linear parameter, which keeps the order of stations
and chords that `lathe_cycle_segment_at()` decides on. Its curvature is left out.

**LatheCore** is what executes the commands: the parser (one command of the
cycle at a time), the planner (`queue`, at most `PlannerSize` look-ahead
blocks), the stepper and its state (`exec`), pending requests (`req`), `abort`
and `alarm`, and the spindle by its sign. The core and its P4 driver are
submodules that the repository does not contain. Their actions are taken from
what `src/` and the host tests rely on (`tests/cancel_completion_test.py`,
`tests/cycle_lifecycle_test.py`, `tests/spindle_wait_test.py`) and are marked
external. The parts of it that are in the repository are `main/thread_entry.c`
and the spindle callbacks. Three facts decide most of the behaviour:

- a rapid or a feed move is acknowledged when the planner takes it, a
  synchronized move only after it has come to rest;
- `CMD_RESET` runs `mc_reset()` at once, which alarms when anything moves, while
  the reset proper (and `lathe_cycle_reset()`) follows in the main loop;
- the index wait answers only to `EXEC_STOP`.

One simplification: a chord that the parser is still holding, waiting for room
in a full planner, is dropped with the cancellation. In grblHAL the realtime hook
runs in the same call that keeps the parser waiting, so the reset that follows the
cancellation comes before anything more of that chord is planned or started.

**Cycle** is `main/cycle.c`. Shared flags are variables of their own; the record
`c` holds the statics that only the grblHAL task touches, with their source
names. One action is one call:

| action | code |
|---|---|
| `Request`, `Cancel`, `Advance` | `lathe_cycle_request/cancel/advance()` on the UI task |
| `UserReset`, `Unlock` | `CMD_RESET` over USB; `$X` |
| `PollAlarm` ... `PollBegin` | the branches of `poll_cycle()`, each to its return |
| `Emit`, `PrepareCut`, `Submit` | `emit()`, `prepare_cut()`, the submission at the end of `emit()` |
| `CoreReset` | `lathe_cycle_reset()` within the core's reset |
| `ParseStep`, `StepPulseCuts`, `CoreStep` | the core |

`poll_cycle()` reads the shared flags once under its lock, so a request that
arrives during a poll commutes to just after it, and one poll is one step. What
does not commute is kept apart: the second read of the spindle speed in `emit()`
may find that the value aged to zero (only to zero: `measured_rpm` changes in
`lathe_spindle_poll()` alone, the ageing of `lathe_spindle_profile_rpm()` is by
time), and `entry_cutting` comes from the step interrupt. `ack` stands for
`completed_id == command_id` and the status; `cmd` for the line from submission
to its completion. `cutTo` is a history variable: how far the current start of
the current pass is cut, without a gap, and zero while nothing is being worked on. Mutated operators stand next to the
ones they replace and are marked as mutants.

**CycleContract** is the abstract promise: an operation is off, asked for, or
working on one start of one depth, which may be whole; starts and depths advance
in order, by one or by one skipped depth but never past the last, and only when
the cut is whole; only a new operation begins again at the first depth. **CycleRefinement** states that `Cycle` implements it (`KeepsContract`).

### The stream

**Stream** is `main/bridge.c` and `main/serial.c`: the one stream of characters
the parser reads. A character is a record of its source, its line and its place
in the line, so "the parser ran a whole line" can be said without any text.

| action | code |
|---|---|
| `UiSubmit`, `UiSend`; `CycleSubmit` | `lathe_bridge_submit()` on the UI task, split where it unlocks (`bridge.c:34-48`), and by an operation |
| `UiCancel`, `CycleDiscard`; `CancelBuffer`, `CoreReset` | moving the epoch; `cancel()` and `flush()` of `serial.c` |
| `SerialPoll`, `UartError` | `lathe_serial_poll()`: one character, or a UART event |
| `ReadBridge` ... `ReadNothing`, `ReadRing` | `read_char()` and `lathe_bridge_read()`, split between its copy of the epoch (85-87) and its use |
| `Begin`, `Executed` | the parser running the collected line, and `lathe_bridge_report_status()` with its outcome |
| `Operations` | a cycle that asks for, takes and gives back the stream; the update mode; a reset asked for |

The realtime hook runs between any two of these on the grblHAL task, and the UI
task anywhere. History variables remember which USB lines lost a character or
were rejected (`rejected`), which were cut by a flush while arriving (`headless`)
and which queued lines were cancelled before the parser had them (`discarded`).

### Who may move the lathe

**Ownership** models `operation_owner` with its three claimants, the update mode
with its upload session, five-minute expiry and boot validation, and the policy
that disables an axis. One action is one critical section or one atomic access;
what a task does between two of them is in `request` (a request of the UI task or
of the grblHAL task: claimed, not yet published), `step` (an operation that ends:
published, not yet released; a reset between its two halves) and `session` (the
connection that `transfer()` serves). Times are classes: up to 5 s, up to 30 s,
more; the expiry is a flag.

### The assisted feed

**Follow** is `main/follow.c` with its Z axis on a grid where one step is one
encoder count at the pitches +1 and -1. `poll()` copies the shared requests under
its lock (`Snapshot`) and acts on the copy (`Poll`), so a request that comes in
between is a different step; the branches of `Poll` follow the source in order.
Executing a line, a synchronized move that waits for its index, braking, reset
and fault are the external core. The anchor of the gear is one number, `gear`.
X and the cone's slope are left out, and so are the 20 ms between two targets of
the position feed.

### What survives a power cut

**Storage** is `main/storage.c` without its upgrade: RAM copies with their dirty
flags, generations and stamps; the delayed save that copies under the lock,
writes outside it, and counts as saved only if nothing changed; the restore.
A power cut may fall before any step, a write may fail or be reported as failed
after it was kept. **MotionUpgrade** is the upgrade of retired axis settings,
with the core's blob and the revision as the two things in flash.

### The touch screen

**Operator** is the moving half: keys of the D-pad, SHIFT moves, stops, previews,
START and STOP, `lathe_ui_sync()`, on top of the bridge's queue and of a status
that is published with delay. One axis is enough, as both share the key that is
held and the last ids. How fast the operator taps is assumed, not enforced by the
code: at most one tap between two publications after other motion, and START only
once the bridge's queue is empty. **Panel** is the settings half: tabs, number pad, pitch
picker and sound, with the cached copies that decide whether a button is redrawn,
and the record handed to storage by each frame. **LimitEditor** is the editor of
the machining limits, with units, work zero and steps per millimetre changing
while it is open; its conversion is modelled with its rounding and its bounds.

### Spindle arithmetic and diagnostics

**SpindleCount** is the arithmetic of `main/spindle.c` on integers of any size,
with the 32-bit wraps written out: the fold of the hardware counter, whose restart
at 30000 may be read before its interrupt has credited it; the origin of a
synchronized block; the anchor of a cut after a coupled plunge; the reversal and
stall faults; and the speed handed to the planner. **Diagnostics** is the session
of `main/diagnostics.c`, one 32-bit word that three tasks read, judge and clear.
**Words** holds the one thing they share: the cast to `int32_t`.

## Runs

Every run explores all interleavings within its bounds; deadlock is checked
unless stated.

| run | instance | shows |
|---|---|---|
| `thread_cycle` | 2 passes, 2 starts, 3 steps of cut | types, the paths of rapids and infeeds, thread entry, completeness of cuts, alarms, STOP, ends, contract |
| `turn_cycle` | 3 passes, 2 steps | completeness, supervision of a planned cut, contract with skipped depths |
| `ellipse_cycle` | 2 passes, 2 chords | infeeds and completeness with look-ahead and resumed chords |
| `cycle_liveness` | thread, 1 pass, 2 steps | STOP ends; with the spindle forward for good every operation ends |
| `stream` | 2 USB and 2 queued lines of 3 characters, ring of 3, queue of 2, 2 epochs | only whole lines run; nothing discarded runs; a refusal is acknowledged before the next line; a status belongs to its line; no USB line waits behind an operation |
| `ownership` | all claimants, one axis, 2 update sessions | one owner; an upload keeps the machine; a disabled axis rests; with fairness every axis change is applied and every new image decided |
| `follow` | lead of 3 counts, bounds 3 steps apart, counts up to 4, speeds 20, 32 and 40, 3 inputs | bounds, phase of the gear, newest parameters, a stop that lasts, a start in gear |
| `storage` | 2 values of everything, 3 ticks, 2 changes | types of what is restored; clean means saved; a saved position is one of rest |
| `operator` | slide of 2 places, stops at one end, 2 lines, 1 flush | jogs end inside the stops; Hold needs the finger; edits stop what was requested before |
| `ellipse_spindle_stop` | ellipse, 1 pass, 2 chords | violation: planned chords without the spindle watch |
| `thread_endpoint` | thread, 1 pass, 2 steps | violation: a complete thread is paused instead of retracted |
| `operator_hold` | as `operator`, slide of 3 places | violation: a Hold jog that its release does not stop |

Bounds of the cycle runs. Two starts show their order, three passes are the least
where a skip may and may not be taken. A cut of two or three steps has a first,
an inner and a last station, which is where a pause, a retrace or a resume can
differ. Two planner blocks hold the executing chord and one look-ahead, the least
that makes acknowledged and finished differ; more chords in the planner repeat
that case. The number of pauses, reversals and resets is not bounded.

Bounds of the others. A line of three characters has a first, an inner and a last
one; a ring of three holds two and overflows within a line; two lines of either
source are the least that can be mixed, reordered or confused; two epochs give one
discard while another is noticed. Two update generations are a session and one
that replaces it. In `follow` the speeds are one below 30 rpm, one just above and
one well above, so both ways of feeding, the hand-over and the refusal to take a
fast spindle occur; three inputs cover a start, one disturbance and one answer to
it, and the count passes a whole turn. Two values of a stored item tell old from
new. One flush and two lines give the operator a press before, between and after. On a
slide of two places a stop at its end is one the axis stands inside of and must
not pass (a left stop) or stands outside of (a right one); the ends mirror each
other. A slide of three places with a stop in the middle (5.2 million states)
gives the same results.

Deadlock is not checked in `follow` (inputs are bounded), `storage` (time is
bounded) and `operator` (lines and flushes are bounded): their bounds end every
behaviour.

Fairness (`Fairness` of `Cycle`): the realtime hook is called again and again,
the main loop performs a reset it was asked for, the parser and the stepper go
on with what they began. The code relies on exactly that: the hook is called
from every wait loop of the core. Nothing is assumed of the operator, the UI, the
spindle or faults; `ForwardCompletes` names its assumption on the spindle. The
liveness run never skips a depth (`MC_CycleLiveness`): it has one pass, for which
a skip changes nothing.
In `Ownership`, `FairSpec` assumes weak fairness of the steps of the grblHAL task
(a claim goes on to its publication, an end to its release, a reset to its second
half, an operation that was told to stop to its end, motion to rest, the two polls
of the axis policy) and of time, because its hook polls them without end; and
strong fairness of the roll-back, since its condition may come and go while the
poll that tests it goes on for ever. Nothing is assumed of operator, panel or
client. `AxisChangeApplied` excludes an operator who asks again and again, endless
restarts, and the race at `cycle.c:141`; `BootDecides` excludes nothing.

## Findings

- `ellipse_spindle_stop`: `emit()` reads the spindle speed a second time. If it
  aged to zero since `poll_cycle()` read it, the ellipse goes back to waiting for
  the spindle while earlier chords are still in the planner, and those are no
  longer watched, against `OPERATIONS.md:30`.
- `thread_endpoint`: the status of a thread pass comes after its motion, so the
  test at `cycle.c:359` does not recognise a finished thread during the polls in
  between, and a spindle that stops just then pauses it, against the comment at
  `cycle.c:357`.
- `operator_hold`: a Hold key pressed after the core has flushed its input (a
  reset, or the jog cancel of an earlier key) and before `lathe_ui_sync()` has
  noticed starts a jog that the sync then forgets (`ui.cpp:357-361`); the release
  finds no held key (`ui.cpp:141`) and the jog runs to its bound, against
  `ui.cpp:143` and `OPERATIONS.md:47`. `HoldNeedsFinger` is the property with
  exactly this case left out, and it holds.

Further observations, each visible in a model as an exception that a property
names, or noted while translating:

- *Stream.* A flush forgets that the rest of a rejected USB line has to be dropped
  (`serial.c:36`), so its tail may be parsed, against `serial.c:83-84` and 123
  (`headless` in `WholeOrHeadless`). A submission that falls between the busy test
  and the queue (`bridge.c:47`) can leave a cycle waiting for a completion that an
  unrelated line has overwritten (`cycle.c:390` compares for equality).
  `lathe_bridge_read()` drops a fresh line when a cancel and a submission fall
  between 85-87 and 100. A USB line that the parser has already collected runs
  although a cycle has begun.
- *Ownership.* A reset that hits a request of the UI task between its claim and its
  publication releases the machine under it (`cycle.c:141`; `raced`). `network.c:363`
  never resets `validation_at`, so the five seconds count from the first time the
  machine was ready.
- *Follow.* A key released between `poll()`'s copy of the requests (272) and its
  copy of the jog (383-388) is not seen, against the comment at 147-149. A key held
  at a bound keeps an armed feed from starting (`idled` in `StartsInGear`). A
  parameter update while the first word of a G33 feed waits for its acknowledgement
  ends the feed. A feed armed outside its bounds moves to the bound.
- *Operator.* `lathe_ui_jog()` refreshes the status but not the position it
  computes with (`ui.cpp:159-162`; `stale` in `StartsInside`). SHIFT moves do not
  wait for one another and may add up beyond a stop. A preview overwrites its
  configuration before the plan is checked. A Hold jog during which USB starts a
  cycle is released into a cancel of the cycle alone.
- *Panel.* The number pad takes a cone ratio above 10000
  (`NormalOperationMode.cpp:864`) that `valid_preferences()` refuses
  (`storage.c:85`): from then on no preference is saved, without a message. Picking a
  pitch drops its left-hand sign. The operation in force is not restored at start
  (`NormalOperationMode.cpp:75`), against `OPERATIONS.md:105`.
- *LimitEditor.* It compares unit and work zero on applying, but not the steps per
  millimetre. The end-stop buttons do not keep X- below X+, and their typed form
  uses the nominal scale.
- *MotionUpgrade.* If the revision cannot be written, a value that the operator
  sets back to the retired number is replaced once more at the next start, against
  "once" in `OPERATIONS.md:81`. While a new image awaits validation the upgrade
  waits for a later start.
- *SpindleCount.* A restart of the counter not yet credited when counting begins
  shifts the count by 25 whole turns, so the angle stays exact (`start`).
- *Diagnostics.* One end in 2^32 is 0, which means no session; a check that races
  an extension may answer no once; a new session serves the sample of the one
  before until the next sample; a start that overlaps a stop of the other task may win.

Hazards that a property covers only in part: `StopTakesHold` is about a feed that
brakes, not about the release lost above. No property compares ids across submitters,
so that lines are queued against the order of their ids (`bridge.c:39`), which `>=` at
`ui.cpp:76` would misread, is left open. `DisabledAxisRests` and the motion lock in
`UpdateHoldsMachine` take a line from its validation to its motion as one step.

## Proofs

### The profile cycle

`CycleProofs` proves, for every operation, number of passes, starts, chords and
steps, and every planner size, from `PlanAssumption` (at least one of each, and
a thread of more than one step) and `CoreAssumption` (a planner of at least two blocks):

| theorem | property | argument |
|---|---|---|
| `TypeSafety` | `TypeOK` | needs `TypeInv`: the closing stages belong to the pass after the last (`PassStages`), only a cut is paused and only a pause survives its reset (`PausedCut`) |
| `StopSafety` | `StopIsFinal` | action by action; with `stopping` set every branch of the poll that submits is disabled |
| `EndSafety` | `EndsForAReason` | needs `ResetInv`: a requested reset belongs to an operation that is stopping or will survive it (`ResetIsOwned`), and after a reset nothing moves (`StoppedByReset`) |
| `AlarmSafety` | `NoOwnAlarm` | needs `ProfileInv`: synchronized commands and blocks exist only for a running operation, and that runs in profile mode |
| `ClearSafety` | `RapidsAreClear` | needs `PathInv`: `BlocksFit` ties each planned block to the stage that submitted it |
| `InfeedSafety` | `InfeedsAtApproach` | a rapid deeper is the infeed's or the closing one, a plunge is a thread's entry from its home (`RapidFits`, `PlungeFits`) |
| `EntrySafety` | `EntryWaitsClear` | `EntryHome`: until its plunge runs, an entry keeps the tool where the approach ended |
| `CompleteSafety` | `CutComplete` | `Front`: the front of the cut stays between approach and endpoint, and a stage beyond the cut finds it at the endpoint |
| `SupervisedSafety` | `CutSupervised`, for every operation but the ellipse | a cut that is one block is planned only while its command waits; for the ellipse the property is false (see Findings) |
| `ContractKept` | `KeepsContract` | step by step: everything but the branches of the poll, the step pulse and the reset stutters (`Stutters`); an operation ends as the contract allows (`Ends`), goes on (`ProceedImplements`), or cuts |

`TypeOK` alone is not inductive: a recovery sets stage 0 and would leave the pass
beyond the plan if a closing move could be paused; `PausedCut` excludes that.
`EndsForAReason` and `NoOwnAlarm` are about who asked for a reset, hence the
layers above. The invariant is `IInv == TypeInv /\ ResetInv /\ ProfileInv`; each
layer is shown inductive from the ones before it, with a lemma for every helper
of `poll_cycle()`. The path of the tool needs a fourth layer, `PathInv`, written
as an operator of the cycle's record (`PathAt(c0)`) so that it can be carried
through a poll that changes the record several times: motion and commands belong
to a working operation (`Outside`), a cancellation is under way or none is
(`Requests`), command and blocks are those of the stage and start where the stage
expects the tool (`CommandFits`, `BlocksFit`, `At`), an undisturbed motion ends
where the next stage begins (`Progress`, `Reached`), and the front of the cut
follows the tool (`Front`). TLC checked it on the instances of the cycle runs
before it was proved. The refinement uses only that layer, and that nothing is cut
while nothing is worked on (`NothingCut`). One consequence is that `SpindleFault`, which the model allows
whenever `profile_mode` is off, never happens under a cycle.

### The stream

`StreamProofs` proves, for any number and length of lines, any ring and queue and
any number of epochs, from `StreamAssumption` (a line has a second character, the
ring a second slot):

| theorem | property | argument |
|---|---|---|
| `TypeCorrect` | `TypeOK` | a request still in the queue has no character taken yet (`RequestInv`), so an offset never passes the line |
| `WholeLines` | `WholeOrHeadless` | `CompleteLine`: a line about to run is the acknowledgement, one queued line from its first character, or consecutive characters of one accepted USB line |
| `CleanStream` | `OwnedStreamIsClean` | `RingInv`: whoever drops characters found the ring empty, or a flush emptied it |
| `AcknowledgedErrors` | `ErrorAcknowledged` | `RefusedInv`: the error of a refused line leaves an acknowledgement, a `CAN` or a reset behind, and each of them comes before the next line |
| `DiscardedNeverRuns` | `NothingDiscardedRuns` | `DeliveryInv`: the epoch is compared before every character but the first, and that is never the last |
| `OwnStatus` | `StatusOfOwnLine` | `TurnInv`: while a line is complete, `reporting` is its own id, none, or that of an acknowledgement |

What is hard is that a flush leaves half a line in the parser, under a bridge that
has already forgotten it. So the invariant speaks of the line only when nothing
waits to clear it: `Settled` means that no `CAN` stands at the head of the ring and
no reset is asked for. `TurnInv` shows that neither source may be read in the wrong
turn, `RequestInv` that an id is in one place only, and `RingInv` that the
characters which the parser has yet to read follow one another up to the one the
host sends next. TLC checked the invariant on the bounds of run `stream` before it
was proved.

### Who may move the lathe

`OwnershipProofs` proves, for any number of update sessions:

| theorem | property | argument |
|---|---|---|
| `TypeCorrect` | `TypeOK` | an upload is marked exactly while it is served |
| `MutualExclusion` | `Exclusive` | `Granted` (the holder owns, an owner holds) is inductive only with `Alone`: the same actor never holds in two ways, by a claim of each task, or by an operation that is active while its end is still to be released |
| `UploadKeepsMachine` | `UpdateHoldsMachine`, with motion locked | needs `UpdateApart`: update mode and a new image that waits for validation exclude each other |
| `AxisRests` | `DisabledAxisRests` | by itself: a change is applied at rest, and motion starts only on an axis that is not applied as disabled |

`Granted` and `Alone` are claimed only while no reset has fallen into a request
(`raced`), which is the exception that the property names.

### Storage

From the assumptions of `Storage` on its constants, for every set of values and
every delay and bound:

| theorem | property | argument |
|---|---|---|
| `StorageTypes` | `StorageTypeOK` | a blob that the checks refuse is `None`, and what is written is a snapshot or a copy of a typed state |
| `RestedPosition` | `SavedPositionRested` | the position is sampled only at rest with an empty planner, so each copy of it on the way to flash is of a rested one |
| `CleanIsSaved` | `SavedWhenClean` | between copying and clearing the flag the copy equals the state unless the generation or the stamp moved, and then the flag stays |

Each layer adds to the invariant what the next needs about the copy in flight, by
the place of the grblHAL task (`pc`). `RevisionIsPromise`, about `MotionUpgrade`, is in
the same module; there that place is called `place`.

### The assisted feed

`FollowProofs` proves, for every lead of more than two counts, every slide and
count, and every set of speeds and directions (`FollowAssumption`):

| theorem | property | argument |
|---|---|---|
| `FollowTypeCorrect` | `TypeOK` | the axis stays between its bounds, whatever turns, brakes or is reset |
| `PhaseIsKept` | `PhaseKept` | `PhaseInv`: a G33 block waits at the phase (`Aligning`) that was computed from where the axis still stands, so that the index puts it in gear (`IndexIsGear`); the gear itself moves by whole turns only |
| `ParametersNewest` | `NewestParameters` | `CopyInv`: the copy of a poll is the newest request, or an update says that it is not |
| `StopsTakeHold` | `StopTakesHold` | `BrakeInv`: a feed that brakes has no line that could start, and its planner is empty or being emptied, or a reset is asked for |
| `FeedsStartInGear` | `StartsInGear` | `GearInv`: a reference that is still registered at stage 0 was armed in this very poll; otherwise the feed is ending, stopping or in a manual move |

All rests on `LineInv`: a line is submitted to an empty queue and waited for, so a
poll that goes on finds nothing on its way to the core (`EmptyQueue`). From it a
G33 block is alone in the planner and its line unacknowledged (`PlanInv`), and
between computing a phase and waiting at it neither the axis nor the gear moves.
What moves the gear is the excess over the bounds (`DiscardedTurns`) and a new reference
(`RegisteredIsGear`). Both are multiples of a symbolic number of counts, which the
provers do not know how to divide: `WholeTurns` gives them that a whole number of
turns does not change the phase (`TurnsKeepPhase`). TLC checked the invariant
`FollowInv` on the bounds of run `follow` before it was proved.

### The operator at the panel

`OperatorProofs` proves, for every slide, any stops on it, and any number of lines
and resets:

| theorem | property | argument |
|---|---|---|
| `PanelTypeCorrect` | `TypeOK` | no number the panel keeps is beyond the last line it submitted |
| `HoldsNeedFinger` | `HoldNeedsFinger` | `Tracked`: a Hold line waits only while the finger holds its key, in the generation it was submitted in; `HoldTracked`: one that runs has its finger, or its cancel is on the way |
| `JogsStayInside` | `StartsInside` | `Ready`: a line that the panel vouches for (`Vouched`) is the next one, and the lathe stands where its distance was computed |
| `EditsStop` | `EditStops` | by itself, action by action |

The panel decides on a position and a status that may be old. `Tracked` says for
each line that waits which number the panel keeps of it: the key that is held, the
newest single step, or the newest line it does not wait for. `Apart` says that an
operation and the panel's lines exclude each other, and `AtRest` that a status of the
last line and without motion shows the true position. So a key that passes with a
status newer than the lines nobody waits for finds the queue empty and the lathe
where its distance is computed from (`VouchedAlone`). The exceptions are those of
the findings above: a SHIFT move that nobody waits for (`behind`), a position older
than the status (`stale`), a flush not noticed yet (`blind`). TLC checked the
invariant on the instance of run `operator` before it was proved.

### Spindle

`WordProofs` proves, for counts of any size and every speed, under
`UnitIsOne` (a unit in which speeds are natural numbers):

| theorem | states |
|---|---|
| `NearIndexIsNear` | the busy wait covers the counts within the guard of an index and no others, for counts of either sign |
| `CountTypes`, `CountsAreExact` | `TypeOK`, `CountExact`: the fold is what the spindle has turned |
| `OriginsAtPhase`, `EntriesAnchored` | `OriginAtPhase`, `EntryAnchored`: every pass starts at the same angle, plunge or not |
| `ReversalsAreReal` | `ReversedIsReal`: a counter restart is no reversal |
| `PlanningSpeeds` | `PlanningSpeed`: never a zero speed while the planner depends on it |

The invariant says that two reads a poll apart differ by less than 15000 counts
and by at most one uncredited restart (restarts in the same window are never
opposite), so that the 32-bit difference is the motion (`DeltaExact`). The bound
of 15000 counts between polls is the source's own (the comment on
`count_delta()`): it is a guard of `Count` once counting has begun. Before that the
spindle may have turned up to `EARLY` counts, restarts included, within the 32 bits
of the total.

### Settings, limits, upgrade and diagnostics

| theorem | states | under |
|---|---|---|
| `PanelTypes`, `AlwaysAcceptable`, `StepsOfUnit`, `SelectorAndSwitch`, `FramesSettle` | ranges of the settings; storage accepts them; step and unit agree; selector and switch are true; a frame leaves screen and storage current | `Numbers`: typed numbers are natural |
| `EditsApplyAsAsked`, `TypedEndpointsAreSet`, `EditsApplyInOrder` | an edit applies what was asked, in the unit and zero on the screen; a typed end is never "unset"; two ends typed out of order are not applied | `Integral`: coordinates, zeros, scales and positions are integers; for the last, no scale is negative |
| `RevisionIsPromise` | the revision is in flash only after the settings it retires were replaced there | none |
| `SessionsLast`, `GrantsAreExpected`, `ReportsAreGranted` | no session is cleared by a check of an earlier one; a check answers yes only within half an hour of a start that no stop came after; a report needs a session seen open after the request | none |

`PanelProofs`: every cache equals what is drawn and no two buttons of an operation
share a row, for all tabs. The edits (in `OperatorProofs`): while the editor is
open, a typed row of the draft is the conversion of what was typed in the unit and
zero recorded on opening; as the conversion is monotone (`StepsGrow`), drafts that are
in order were typed in order, and as none reads as unset the comparison was not
skipped. Two ends typed under different steps per millimetre are excepted, and so is
an end taken from the axis or kept. `RevisionIsPromise` (in `StorageProofs`): a retired
value exists only where the revision does not retire it yet, and RAM equals the blob
when the revision is written.

The sessions (in `WordProofs`): the ends that a check may meet lie less than 2^32
apart, so equal words are equal ends and the compare-and-swap clears only what was
judged. What the operator did is in histories that no store of the word touches:
when a start was last called (`asked`), and whether a stop came after every start
(`quiet`); `GrantsAreExpected` is about these. A start that is under way when another
task stops the session may store last and open it again; `quiet` does not hold then.
All of it rests on the module's two bounds (no task rests a minute inside a call; the
grblHAL task completes a check begun less than a minute ago), both far above what the
code's loops allow. That an ended session leaves the word before the clock comes round
to it is derived from the second: `PollInv` says that a check of the grblHAL task leaves
no end that was over when it began.

`MotionUpgrade`, `Panel`, `LimitEditor`, `SpindleCount` and `Diagnostics` have no
run, for their interesting values are out of TLC's range (a 32-bit clock, counts of
30000, products of many settings); scaled versions were explored while writing
them. Their theorems hold for all values instead.

### What is only model-checked

Every safety property of the passing runs is a theorem, but for the one that is not
true of the code: `CutSupervised` of an ellipse. Liveness under fairness
(`StopEnds`, `ForwardCompletes`, `AxisChangeApplied`, `BootDecides`) is out of the
prover's reach.

## Not modelled

- Real arithmetic: feeds, accelerations, leads, the coupled plunge, the curvature
  of an ellipse, X and the cone of the assisted feed.
- The write to a full UART that re-enters the realtime hook (`serial.c:41-49`). It
  would split every handler at each of its messages; cycles guard against it
  (`cycle.c:459`), the assisted feed's reset and arming do not (`follow.c:164`,
  323), which `PROJECT.json` lists as a hazard without a property.
- That the assisted feed comes to rest in the end, once it brakes: `Follow` states
  no fairness, and `StopTakesHold` only that it does not start again.
- The bench simulator, the trace of index edges, message texts, and the bench
  commands that `serial.c` answers while an operation runs.
- Display, touch, sound, TMC registers, HTTP, hashing, flash partitions, Wi-Fi,
  locks and task pinning, the board support package and the bench scripts are I/O
  without motion logic. A critical section is one atomic step in the models.

## Plan

1. `Stream` as a refinement: an abstract queue of lines of which each is run once,
   refused or discarded, and never run after that.
2. The interfaces between the modules: that the claims of a cycle in `Cycle` and of
   the feed in `Follow` are steps that `Ownership` allows.
3. The re-entrant write of a full UART, as a step of its own in `Follow` at the two
   messages of reset and arming, and the rest of a feed that brakes, with fairness.
