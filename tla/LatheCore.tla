----------------------------- MODULE LatheCore -----------------------------
(***************************************************************************)
(* The motion owner a profile cycle drives: the grblHAL parser, planner    *)
(* and step interrupt, and the external spindle.  The core is a submodule  *)
(* outside the repository, so its actions say what main/cycle.c,           *)
(* main/thread_entry.c, main/spindle.c and the host tests rely on.         *)
(***************************************************************************)
EXTENDS CyclePlan, Sequences

CONSTANTS
    PlannerSize   \* look-ahead blocks the planner holds

ASSUME CoreAssumption == PlannerSize \in Nat \ {0, 1}

VARIABLES
    pos,          \* sys.position in the cycle frame
    queue,        \* planner blocks, the executing one first
    exec,         \* what the stepper and the state machine are doing
    cmd,          \* the cycle's command: not submitted, queued or executing
    ack,          \* published completion of the cycle's current command_id
    req,          \* pending EXEC_MOTION_CANCEL, EXEC_STOP, CMD_RESET
    abort,        \* sys.abort
    alarm,        \* sys.alarm and its cause
    rpm,          \* lathe_spindle_profile_rpm(), by sign; 2 is too fast for G33
    entryCutting, \* entry_cutting of main/spindle.c
    profile,      \* profile_mode
    braking       \* follow_braking

core == <<pos, queue, exec, cmd, ack, req, abort, alarm>>
spindle == <<rpm, entryCutting, profile, braking>>

Rpm == {-1, 0, 1, 2}
Sign(r) == IF r < 0 THEN -1 ELSE IF r = 0 THEN 0 ELSE 1

(***************************************************************************)
(* "idle"   STATE_IDLE, the step timer is off                              *)
(* "wait"   the index wait of a synchronized block, before any STEP pulse  *)
(* "run"    STATE_CYCLE, stepping                                          *)
(* "decel"  stepping with execute_hold, on the way to a motion cancel      *)
(* "coast"  the timer ran out of blocks, cycle-complete is not handled yet *)
(* "halted" the timer stopped on a motion cancel, likewise not handled     *)
(* "hold"   STATE_HOLD                                                     *)
(***************************************************************************)
Moving == {"wait", "run", "decel", "coast", "halted", "hold"}
ExecStates == Moving \cup {"idle"}

BlockKinds == {"rapid", "feed", "sync", "plunge", "thread"}
Point == [cut : Nat, depth : Nat]
Block == [kind : BlockKinds, to : Point]

\* Blocks that the spindle feeds, and those that start on its index
SpindleFed == {"feed", "sync", "thread"}
OnIndex    == {"sync", "plunge"}

CmdKinds == {"none", "word", "rapid", "feed", "sync", "entry"}
Command == [kind : CmdKinds, to : Point, executing : BOOLEAN]
NoCommand == [kind |-> "none", to |-> [cut |-> 0, depth |-> 0], executing |-> FALSE]

\* state_get() == STATE_IDLE && !st_is_stepping() && !plan_get_current_block()
Idle == exec = "idle" /\ alarm = "none" /\ queue = <<>>

CoreInit ==
    /\ pos \in [cut : {CutStart, CutEnd}, depth : {Clearance, DepthStart}]
    /\ queue = <<>> /\ exec = "idle" /\ cmd = NoCommand /\ ack = "none"
    /\ req = {} /\ abort = FALSE /\ alarm = "none"
    /\ rpm \in Rpm
    /\ entryCutting = FALSE /\ profile = FALSE /\ braking = FALSE

---------------------------------------------------------------------------
(* The parser takes the queued command                                     *)

Parsed(status) ==
    /\ cmd' = NoCommand
    /\ ack' = status

\* A command without motion completes as it is executed.
ParseWord ==
    /\ cmd.kind = "word"
    /\ Parsed("ok")
    /\ UNCHANGED queue

\* Where the planned motion ends; the planner drops a block of no length.
PlannedEnd == IF queue = <<>> THEN pos ELSE queue[Len(queue)].to
Planned(kind) ==
    IF cmd.to = PlannedEnd THEN queue ELSE Append(queue, [kind |-> kind, to |-> cmd.to])

\* G0 and G1 complete when the planner has taken them, before they move.
ParseMove ==
    /\ cmd.kind \in {"rapid", "feed"}
    /\ Len(queue) < PlannerSize
    /\ queue' = Planned(cmd.kind)
    /\ Parsed("ok")

\* G33 is not acknowledged until the planner has drained.
ParseSync ==
    /\ cmd.kind = "sync" /\ ~cmd.executing
    /\ queue = <<>>
    /\ queue' = Planned("sync")
    /\ cmd' = [cmd EXCEPT !.executing = TRUE]
    /\ UNCHANGED ack

\* queue_entry(): the plunge and the threading pass are queued together or
\* not at all, and protocol_buffer_synchronize() holds back the status.
QueueEntry(allowed) ==
    /\ cmd.kind = "entry" /\ ~cmd.executing
    /\ allowed /\ Idle /\ rpm \in {-1, 1}
    /\ cmd.to.depth # pos.depth /\ cmd.to.cut # pos.cut
    /\ queue' = << [kind |-> "plunge", to |-> [pos EXCEPT !.depth = cmd.to.depth]],
                   [kind |-> "thread", to |-> cmd.to] >>
    /\ cmd' = [cmd EXCEPT !.executing = TRUE]
    /\ UNCHANGED ack

RefuseEntry(allowed) ==
    /\ cmd.kind = "entry" /\ ~cmd.executing
    /\ \/ allowed /\ Idle /\ rpm \in {0, 2} /\ Parsed("speed")
       \/ ~(allowed /\ Idle /\ cmd.to.depth # pos.depth /\ cmd.to.cut # pos.cut)
             /\ Parsed("reject")
    /\ UNCHANGED queue

\* Refusals of the parser: a spindle-fed move without rotation or above the
\* axis rate, and anything once the axis policy or an update refuses motion.
Refuse ==
    /\ cmd.kind # "none" /\ ~cmd.executing
    /\ \/ cmd.kind \in {"feed", "sync"} /\ rpm \in {0, 2} /\ Parsed("speed")
       \/ Parsed("reject")
    /\ UNCHANGED queue

Parse(entryAllowed) ==
    /\ ~abort /\ alarm = "none" /\ exec \in {"idle", "run", "coast"}
    /\ \/ ParseWord
       \/ ParseMove
       \/ ParseSync
       \/ QueueEntry(entryAllowed)
       \/ RefuseEntry(entryAllowed)
       \/ Refuse
    /\ entryCutting' = IF cmd'.kind = "entry" THEN FALSE ELSE entryCutting
    /\ UNCHANGED <<pos, exec, req, abort, alarm, rpm, profile, braking>>

\* The status of a command that waited for its motion is reported only on
\* the way out of protocol_buffer_synchronize().
ReportSynchronized ==
    /\ cmd.executing /\ ~abort /\ Idle
    /\ Parsed("ok")
    /\ UNCHANGED <<pos, queue, exec, req, abort, alarm, spindle>>

---------------------------------------------------------------------------
(* Motion                                                                  *)

CycleStart ==
    /\ exec = "idle" /\ queue # <<>> /\ ~abort /\ alarm = "none" /\ "reset" \notin req
    /\ exec' = IF Head(queue).kind \in OnIndex THEN "wait" ELSE "run"
    /\ UNCHANGED <<pos, queue, cmd, ack, req, abort, alarm, spindle>>

\* The index-wait loop serves EXEC_STOP before it looks at the encoder.
IndexFound ==
    /\ exec = "wait" /\ rpm # 0 /\ "stop" \notin req /\ ~abort /\ alarm = "none"
    /\ exec' = "run"
    /\ UNCHANGED <<pos, queue, cmd, ack, req, abort, alarm, spindle>>

Towards(from, to) == IF from < to THEN from + 1 ELSE IF from > to THEN from - 1 ELSE from
Stepped(p, to) == [cut |-> Towards(p.cut, to.cut), depth |-> Towards(p.depth, to.depth)]

\* A spindle-fed block needs rotation, or the braking rate of get_data().
Fed == Head(queue).kind \in SpindleFed => rpm # 0 \/ braking

StepPulse ==
    /\ exec \in {"run", "decel"} /\ queue # <<>>
    /\ pos # Head(queue).to
    /\ Fed
    /\ pos' = Stepped(pos, Head(queue).to)
    /\ UNCHANGED <<queue, exec, cmd, ack, req, abort, alarm, spindle>>

\* lathe_spindle_block(): a preloaded block latches entry_cutting.
BlockDone ==
    /\ exec \in {"run", "decel"} /\ queue # <<>>
    /\ pos = Head(queue).to
    /\ queue' = Tail(queue)
    /\ exec' = IF Tail(queue) # <<>> THEN exec ELSE IF exec = "run" THEN "coast" ELSE "halted"
    /\ entryCutting' = (entryCutting \/ (Tail(queue) # <<>> /\ Head(Tail(queue)).kind = "thread"))
    /\ UNCHANGED <<pos, cmd, ack, req, abort, alarm, rpm, profile, braking>>

\* A cancellation that meets the completion goes idle with it, and only a
\* cancelled motion takes its look-ahead along (cancel_completion_test.py).
CycleComplete ==
    /\ exec \in {"coast", "halted"}
    /\ exec' = "idle"
    /\ queue' = IF exec = "halted" THEN <<>> ELSE queue
    /\ req' = req \ {"cancel"}
    /\ UNCHANGED <<pos, cmd, ack, abort, alarm, spindle>>

MotionCancel ==
    /\ "cancel" \in req
    /\ \/ exec = "run" /\ exec' = "decel" /\ req' = req /\ UNCHANGED queue
       \/ exec = "idle" /\ req' = req \ {"cancel"} /\ UNCHANGED <<exec, queue>>
       \/ exec = "hold" /\ exec' = "idle" /\ req' = req \ {"cancel"} /\ queue' = <<>>
    /\ UNCHANGED <<pos, cmd, ack, abort, alarm, spindle>>

Stopped ==
    /\ exec = "decel" /\ Fed
    /\ exec' = "halted"
    /\ UNCHANGED <<pos, queue, cmd, ack, req, abort, alarm, spindle>>

\* A feed hold the cycle did not ask for; threading disables it.
FeedHold ==
    /\ exec = "run" /\ Head(queue).kind \in {"rapid", "feed"}
    /\ exec' = "hold"
    /\ UNCHANGED <<pos, queue, cmd, ack, req, abort, alarm, spindle>>

---------------------------------------------------------------------------
(* Reset and faults                                                        *)

\* CMD_RESET runs mc_reset() at once, which alarms if anything still moves;
\* the reset itself follows in the main loop, before a next cycle start.
ResetAlarm(asked, cause) ==
    IF "reset" \in asked /\ exec \in Moving /\ alarm = "none" THEN cause ELSE alarm

\* EXEC_STOP in the index wait resets before the first pulse.
ExecuteReset ==
    /\ ~abort
    /\ "reset" \in req \/ ("stop" \in req /\ exec = "wait")
    /\ abort' = TRUE
    /\ exec' = "idle" /\ queue' = <<>>
    /\ UNCHANGED <<pos, cmd, ack, req, alarm, spindle>>

\* p4_motion_fault(): a fault from outside the cycle.
Fault ==
    /\ alarm = "none"
    /\ alarm' = "fault" /\ abort' = TRUE
    /\ exec' = "idle" /\ queue' = <<>>
    /\ UNCHANGED <<pos, cmd, ack, req, spindle>>

\* lathe_spindle_poll(): a spindle that stalls, or turns against the commanded
\* direction, faults a synchronized block unless profile_mode leaves the
\* reaction to the cycle.
SpindleFault ==
    /\ exec \in {"run", "decel"} /\ queue # <<>> /\ alarm = "none" /\ ~profile
    /\ Head(queue).kind \in {"sync", "thread"}
    /\ alarm' = "stall" /\ abort' = TRUE
    /\ exec' = "idle" /\ queue' = <<>>
    /\ UNCHANGED <<pos, cmd, ack, req, spindle>>

\* The operator turns the external spindle switch.
SpindleTurns ==
    /\ rpm' \in Rpm \ {rpm}
    /\ UNCHANGED <<core, entryCutting, profile, braking>>

CoreCleared ==
    /\ queue' = <<>> /\ exec' = "idle"
    /\ cmd' = NoCommand /\ ack' = "none"
    /\ req' = {} /\ abort' = FALSE
============================================================================
