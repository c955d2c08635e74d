------------------------------- MODULE Cycle -------------------------------
(***************************************************************************)
(* main/cycle.c: the profile cycle (turn, thread, face, part off, ellipse) *)
(* as the state machine that lathe_cycle_poll() advances in the realtime   *)
(* hook of the grblHAL task, against the UI task, the external spindle and *)
(* the core that executes its commands (LatheCore).                        *)
(*                                                                         *)
(* One action is one call: the hook reads the shared flags once, under the *)
(* lock, so a request of the UI task during a poll has the effect of one   *)
(* just after it.                                                          *)
(***************************************************************************)
EXTENDS LatheCore

VARIABLES
    active,     \* published.active
    pending,    \* a request that poll_cycle has not picked up
    stopping,   \* an explicit or fault-driven cancellation
    advance,    \* advance_requested
    owns,       \* owns_stream
    c,          \* the statics only the grblHAL task touches
    cutTo       \* history: how far the current start is cut; 0 out of work

shared == <<active, pending, stopping, advance, owns>>
vars == <<core, spindle, shared, c, cutTo>>

(* The stages of names[]                                                   *)
Setup == 0      RetractFirst == 1   ToTakeup == 2   ToApproach == 3
InfeedStage == 4  Register == 5     SpindleOn == 6  Cut == 7
Retract == 8    Return == 9         TakeUpAgain == 10
ToStart == 11   FinishInfeed == 12  RestorePhase == 13  LastStage == 14
Stage == 0 .. 14

Fresh ==
    [pass |-> 0, start |-> 0, stage |-> Setup, segment |-> 0,
     waitingAck |-> FALSE, cancelRequested |-> FALSE, pausing |-> FALSE,
     internalReset |-> FALSE, recovering |-> FALSE, reverseCut |-> FALSE,
     threadEntry |-> FALSE, restartEntry |-> FALSE,
     cutDir |-> 1, planDir |-> 1]

Init ==
    /\ CoreInit
    /\ active = FALSE /\ pending = FALSE /\ stopping = FALSE
    /\ advance = FALSE /\ owns = FALSE
    /\ c = Fresh
    /\ cutTo = 0

---------------------------------------------------------------------------
(* The UI task, and lines or characters from USB                           *)

\* lathe_cycle_request(); the claim of operation_owner is in Ownership.
Request ==
    /\ ~active
    /\ active' = TRUE /\ pending' = TRUE
    /\ stopping' = FALSE /\ advance' = FALSE
    /\ UNCHANGED <<core, spindle, owns, c, cutTo>>

\* lathe_cycle_cancel(): STOP, a hold or jog-cancel character, an axis change
Cancel ==
    /\ active
    /\ stopping' = TRUE
    /\ UNCHANGED <<core, spindle, active, pending, advance, owns, c, cutTo>>

\* lathe_cycle_advance()
Advance ==
    /\ active
    /\ advance' = TRUE
    /\ UNCHANGED <<core, spindle, active, pending, stopping, owns, c, cutTo>>

\* lathe_serial_poll() cancels the cycle before it passes CMD_RESET on.
UserReset ==
    /\ ~abort
    /\ stopping' = (stopping \/ active)
    /\ abort' = TRUE
    /\ alarm' = ResetAlarm({"reset"}, "fault")
    /\ exec' = "idle" /\ queue' = <<>>
    /\ UNCHANGED <<pos, cmd, ack, req, spindle, active, pending, advance, owns, c, cutTo>>

\* $X, once the reset is over and no cycle is left
Unlock ==
    /\ alarm # "none" /\ ~abort /\ ~active
    /\ alarm' = "none"
    /\ UNCHANGED <<pos, queue, exec, cmd, ack, req, abort, spindle, shared, c, cutTo>>

---------------------------------------------------------------------------
(* message(text, false): the end of an operation                           *)

Finish(c0) ==
    /\ active' = FALSE /\ owns' = FALSE
    /\ profile' = FALSE /\ braking' = FALSE
    /\ c' = c0

---------------------------------------------------------------------------
(* emit(): submit the command of the current stage                         *)

\* Mutant: the take-up of a thread never ends at its approach.
TargetStaysAtTakeup(c0) ==
    CASE c0.stage \in {RetractFirst, Retract} -> [pos EXCEPT !.depth = Clearance]
      [] c0.stage \in {ToTakeup, Return, ToApproach, TakeUpAgain} -> [pos EXCEPT !.cut = Takeup]
      [] c0.stage = Cut -> [cut |-> Endpoint(c0.pass), depth |-> Depth(c0.pass)]
      [] c0.stage = ToStart -> [pos EXCEPT !.cut = CutStart]
      [] c0.stage = FinishInfeed -> [pos EXCEPT !.depth = DepthStart]
      [] OTHER -> pos

Target(c0) ==
    LET p == c0.pass
        chord == IF c0.reverseCut THEN c0.segment ELSE c0.segment + 1
    IN CASE c0.stage \in {RetractFirst, Retract} -> [pos EXCEPT !.depth = Clearance]
         [] c0.stage \in {ToTakeup, Return} ->
                [pos EXCEPT !.cut = IF Indexed THEN Takeup ELSE Approach(p)]
         [] c0.stage \in {ToApproach, TakeUpAgain} -> [pos EXCEPT !.cut = Approach(p)]
         [] c0.stage = InfeedStage -> [pos EXCEPT !.depth = Infeed(p)]
         [] c0.stage = Cut /\ Ellipse -> [cut |-> PointCut(p, chord), depth |-> PointDepth(p, chord)]
         [] c0.stage = Cut /\ Indexed /\ c0.threadEntry -> [cut |-> Endpoint(p), depth |-> Depth(p)]
         [] c0.stage = Cut /\ ~Ellipse /\ ~(Indexed /\ c0.threadEntry) ->
                [pos EXCEPT !.cut = IF c0.reverseCut THEN Approach(p) ELSE Endpoint(p)]
         [] c0.stage = ToStart -> [pos EXCEPT !.cut = CutStart]
         [] c0.stage = FinishInfeed -> [pos EXCEPT !.depth = DepthStart]
         [] OTHER -> pos

CommandKind(c0) ==
    CASE c0.stage \in {Setup, Register, SpindleOn, RestorePhase, LastStage} -> "word"
      [] c0.stage = Cut /\ Indexed -> IF c0.threadEntry THEN "entry" ELSE "sync"
      [] c0.stage = Cut /\ ~Indexed -> "feed"
      [] OTHER -> "rapid"

\* lathe_bridge_cycle_submit(); it refuses during an update or an axis change
\* and when the queue is full, and then the cycle cancels itself.
Submit(c0) ==
    \/ /\ cmd' = [kind |-> CommandKind(c0), to |-> Target(c0), executing |-> FALSE]
       /\ ack' = "none"
       /\ c' = [c0 EXCEPT !.waitingAck = TRUE]
       /\ UNCHANGED stopping
    \/ /\ stopping' = TRUE
       /\ c' = c0
       /\ UNCHANGED <<cmd, ack>>

\* prepare_cut() with the spindle speed it reads
AtStart(p) == pos.cut = Approach(p) /\ (Ellipse => pos.depth = PointDepth(p, 0))
Aimed(c0, r) ==
    [c0 EXCEPT !.cutDir = Sign(r),
               !.reverseCut = Sign(r) # c0.planDir,
               !.segment = IF Ellipse THEN SegmentAt(c0.pass, pos) ELSE c0.segment]
MayCut(c1, r) == ~(c1.reverseCut /\ AtStart(c1.pass)) /\ ~(Indexed /\ r = 2)

PrepareCut(c0, r) ==
    \/ r = 0 /\ c' = c0 /\ UNCHANGED <<cmd, ack, stopping>>
    \/ /\ r # 0
       /\ LET c1 == Aimed(c0, r)
          IN IF MayCut(c1, r)
             THEN Submit(c1)
             ELSE c' = c1 /\ UNCHANGED <<cmd, ack, stopping>>

\* A thread keeps its tool clear through acquisition: no separate infeed.
Staged(c0) ==
    IF c0.stage = InfeedStage /\ Indexed
    THEN [c0 EXCEPT !.threadEntry = TRUE, !.stage = Register]
    ELSE c0

\* emit() reads the speed again: a slow spindle's last count may have aged
\* out of lathe_spindle_profile_rpm() since poll_cycle() looked at it.
Emit(c0) ==
    LET c1 == Staged(c0) IN
    /\ rpm' \in {rpm, 0}
    /\ entryCutting' = (entryCutting /\ ~(c0.stage = InfeedStage /\ Indexed))
    /\ \/ c1.stage = Register /\ PrepareCut(c1, rpm')
       \/ /\ c1.stage = Cut /\ Sign(rpm') * c1.cutDir <= 0
          /\ c' = [c1 EXCEPT !.stage = Register]
          /\ UNCHANGED <<cmd, ack, stopping>>
       \/ /\ c1.stage # Register
          /\ ~(c1.stage = Cut /\ Sign(rpm') * c1.cutDir <= 0)
          /\ Submit(c1)

---------------------------------------------------------------------------
(* poll_cycle()                                                            *)

\* Mutant: a stop that arrives between two motions is not seen.
StopSeenWhileMoving == (stopping /\ exec # "idle") \/ exec = "hold"

\* HOLD cancels like STOP, within the same poll.
StopSeen == stopping \/ exec = "hold"

\* Threading has begun: from here a pause resumes the cut without a plunge.
EntryNoted(c0) ==
    IF c0.threadEntry /\ c0.stage = Cut /\ c0.waitingAck /\ entryCutting
    THEN [c0 EXCEPT !.threadEntry = FALSE] ELSE c0

\* The spindle stopped or reversed under a cut that is not complete yet; an
\* index wait outside the entry simply lasts while the spindle stands.
CutInterrupted(c0) ==
    /\ c0.stage = Cut /\ c0.waitingAck
    /\ \/ Sign(rpm) * c0.cutDir < 0
       \/ rpm = 0 /\ (c0.threadEntry \/ exec # "wait")
    /\ ~(Idle /\ ack = "ok")

\* Mutants: reset without waiting for the axes; no way out of the index wait.
ResetAtOnce(first) == (IF first THEN {"cancel"} ELSE {}) \cup {"reset"}
WaitForIndex(first) ==
    (IF first THEN {"cancel"} ELSE {}) \cup (IF exec = "idle" THEN {"reset"} ELSE {})

\* The index wait has no motion to cancel and ends by EXEC_STOP; the reset
\* has to wait until the core has handled the end of the motion.
AskedToStop(first) ==
    (IF first THEN {"cancel"} ELSE {})
      \cup (IF exec = "wait" THEN {"stop"} ELSE IF exec = "idle" THEN {"reset"} ELSE {})

\* Stop or pause: discard the queued command and let the core decelerate
\* once, then reset it by the way that fits what it is doing.
CancelMotion(c0) ==
    LET first == ~c0.cancelRequested
        asked == AskedToStop(first)
    IN
    /\ c' = [c0 EXCEPT !.cancelRequested = TRUE,
                       !.restartEntry = IF first THEN c0.threadEntry ELSE @,
                       !.internalReset = IF exec \in {"wait", "idle"} THEN ~StopSeen ELSE @]
    /\ cmd' = IF first /\ ~cmd.executing THEN NoCommand ELSE cmd
    /\ braking' = (braking \/ first)
    /\ req' = req \cup asked
    /\ alarm' = ResetAlarm(asked, "inmotion")
    /\ stopping' = StopSeen
    /\ UNCHANGED <<pos, queue, exec, ack, abort, rpm, entryCutting, profile,
                   active, advance, owns, cutTo>>

\* Mutant: the skip may pass the last depth.
SkipPastEnd(c0) == IF advance THEN c0.pass + 2 ELSE c0.pass + 1

\* lathe_cycle_advance() drops one depth, but never the last.
NextPass(c0) == IF advance /\ c0.pass + 2 < Passes THEN c0.pass + 2 ELSE c0.pass + 1

\* Mutants: a skip that drops the starts of a depth that are still to be
\* cut; an ellipse that does not go to the approach of its next pass.
NextStartSkipping(c0) ==
    IF advance \/ c0.start + 1 = PlanStarts
    THEN LET pass == NextPass(c0)
         IN  [c0 EXCEPT !.start = 0, !.pass = pass, !.segment = 0,
                        !.stage = IF pass = Passes THEN ToStart ELSE InfeedStage]
    ELSE [c0 EXCEPT !.start = @ + 1, !.stage = InfeedStage]
NextStartInPlace(c0) ==
    LET pass == NextPass(c0)
    IN  [c0 EXCEPT !.pass = pass, !.segment = 0,
                   !.stage = IF pass = Passes THEN ToStart ELSE InfeedStage]

NextStart(c0) ==
    LET lastStart == c0.start + 1 = PlanStarts
        pass == IF lastStart THEN NextPass(c0) ELSE c0.pass
    IN  [c0 EXCEPT !.start = IF lastStart THEN 0 ELSE @ + 1,
                   !.pass = pass,
                   !.stage = IF pass = Passes THEN ToStart
                             ELSE IF Ellipse THEN ToTakeup ELSE InfeedStage,
                   !.segment = 0]

\* Mutants: an interrupted entry is repeated where the tool is, or without
\* retracting it first; a retraced cut counts as a finished one.
EntryInPlace(c0) == Register
EntryUnretracted(c0) == IF c0.restartEntry THEN ToTakeup ELSE Register
RetraceCounts(c0) == Retract

\* A recovered cut waits for the spindle where it stopped; an entry that had
\* not begun to cut is taken back to its approach and armed again.
AfterRecovery(c0) == IF c0.restartEntry THEN RetractFirst ELSE Register

\* Retracing a cut leads back to waiting at the start of the same pass.
AfterCut(c0) == IF c0.reverseCut THEN Register ELSE Retract

\* The stage that follows a command that is complete and has come to rest.
AfterStage(c0) ==
    CASE c0.stage = Setup /\ c0.recovering ->
           [c0 EXCEPT !.recovering = FALSE, !.restartEntry = FALSE, !.stage = AfterRecovery(c0)]
      [] c0.stage = Cut -> [c0 EXCEPT !.stage = AfterCut(c0)]
      [] c0.stage = TakeUpAgain -> NextStart(c0)
      [] OTHER -> [c0 EXCEPT !.stage = @ + 1]

\* Mutant: the last chord is taken for done with the one before it.
ChordsButLast(c0) ==
    /\ Ellipse /\ c0.stage = Cut
    /\ IF c0.reverseCut THEN c0.segment > 0 ELSE c0.segment + 2 < Segments

ChordsLeft(c0) ==
    /\ Ellipse /\ c0.stage = Cut
    /\ IF c0.reverseCut THEN c0.segment > 0 ELSE c0.segment + 1 < Segments
NextChord(c0) == [c0 EXCEPT !.segment = IF c0.reverseCut THEN @ - 1 ELSE @ + 1]

Rejected(c0) ==
    /\ UNCHANGED <<cmd, ack, entryCutting, rpm, profile, braking, active, advance, owns>>
    /\ IF c0.stage = Cut /\ ack = "speed"
       THEN c' = [c0 EXCEPT !.pausing = TRUE] /\ UNCHANGED stopping
       ELSE c' = c0 /\ stopping' = TRUE

\* Mutant: the acknowledgement is consumed before the motion has ended.
AckConsumed(c0) == [c0 EXCEPT !.waitingAck = FALSE]

\* Acknowledged, but the axes still move: keep waiting.
StillMoving(c0) == c0

Completed(c0) ==
    LET c1 == [c0 EXCEPT !.waitingAck = FALSE] IN
    CASE ChordsLeft(c0) ->
           Emit(NextChord(c1)) /\ UNCHANGED <<profile, braking, active, advance, owns>>
      [] ~ChordsLeft(c0) /\ ~Idle ->
           /\ c' = StillMoving(c0)
           /\ UNCHANGED <<cmd, ack, stopping, spindle, active, advance, owns>>
      [] ~ChordsLeft(c0) /\ Idle /\ c0.stage = LastStage ->
           Finish(c1) /\ UNCHANGED <<cmd, ack, stopping, advance, rpm, entryCutting>>
      [] OTHER ->
           /\ Emit(AfterStage(c1))
           /\ advance' = (advance /\ ~(c0.stage = TakeUpAgain /\ c0.start + 1 = PlanStarts))
           /\ UNCHANGED <<profile, braking, active, owns>>

Proceed(c0) ==
    /\ UNCHANGED <<pos, queue, exec, req, abort, alarm>>
    /\ CASE c0.waitingAck /\ ack = "none" ->
              c' = c0 /\ UNCHANGED <<cmd, ack, stopping, spindle, active, advance, owns>>
         [] c0.waitingAck /\ ack \in {"speed", "reject"} -> Rejected(c0)
         [] c0.waitingAck /\ ack = "ok" -> Completed(c0)
         [] ~c0.waitingAck /\ Idle ->
              Emit(c0) /\ UNCHANGED <<profile, braking, active, advance, owns>>
         [] OTHER -> c' = c0 /\ UNCHANGED <<cmd, ack, stopping, spindle, active, advance, owns>>

\* History: a new start of a pass begins uncut at its approach.
Retold(from) ==
    cutTo' = IF ~active' THEN 0
             ELSE IF <<c'.pass, c'.start>> # <<from.pass, from.start>> /\ c'.pass < Passes
             THEN Approach(c'.pass) ELSE cutTo

PollAlarm ==
    /\ active /\ ~pending /\ alarm # "none"
    /\ Finish(c)
    /\ cutTo' = 0
    /\ UNCHANGED <<core, rpm, entryCutting, pending, stopping, advance>>

\* Mutant: every reset ends the operation.
ResetForeign == TRUE

\* A reset the cycle asked for keeps the operation until the core is back.
ResetEndsCycle == ~(c.internalReset /\ ~stopping)

PollAborted ==
    /\ active /\ ~pending /\ alarm = "none" /\ abort
    /\ ResetEndsCycle
    /\ Finish(c)
    /\ cutTo' = 0
    /\ UNCHANGED <<core, rpm, entryCutting, pending, stopping, advance>>

PollCancel ==
    /\ active /\ ~pending /\ alarm = "none" /\ ~abort
    /\ LET noted == EntryNoted(c)
           paused == noted.pausing \/ (~StopSeen /\ CutInterrupted(noted))
       IN  /\ StopSeen \/ paused
           /\ CancelMotion([noted EXCEPT !.pausing = paused])
    /\ UNCHANGED pending

PollProceed ==
    /\ active /\ ~pending /\ alarm = "none" /\ ~abort
    /\ LET noted == EntryNoted(c)
       IN  /\ ~StopSeen /\ ~noted.pausing /\ ~CutInterrupted(noted)
           /\ Proceed(noted)
    /\ Retold(c)
    /\ UNCHANGED pending

\* The first poll of an operation plans it, or refuses it: something moves,
\* the bridge or the USB line is busy, or the plan does not fit.
PollRefuse ==
    /\ active /\ pending
    /\ pending' = FALSE
    /\ Finish(Fresh)
    /\ cutTo' = 0
    /\ UNCHANGED <<core, rpm, entryCutting, stopping, advance>>

\* The plan takes its direction from measured_rpm, which is 0, hence forward,
\* while the count interval still tells a slow reverse spindle.
PlanDirections == IF rpm < 0 THEN {-1, 1} ELSE {1}

PollBegin ==
    /\ active /\ pending /\ Idle /\ cmd = NoCommand
    /\ pending' = FALSE
    /\ \E dir \in PlanDirections :
       LET c0 == [Fresh EXCEPT !.planDir = dir] IN
       CASE abort ->
              Finish(c0) /\ UNCHANGED <<core, rpm, entryCutting, stopping, advance>>
         [] ~abort /\ stopping ->
              /\ c' = [c0 EXCEPT !.cancelRequested = TRUE]
              /\ req' = req \cup {"cancel", "reset"}
              /\ owns' = TRUE /\ profile' = TRUE /\ braking' = TRUE
              /\ UNCHANGED <<pos, queue, exec, cmd, ack, abort, alarm, rpm, entryCutting,
                             active, stopping, advance>>
         [] OTHER ->
              /\ Emit(c0)
              /\ owns' = TRUE /\ profile' = TRUE /\ braking' = FALSE
              /\ UNCHANGED <<pos, queue, exec, req, abort, alarm, active, advance>>
    /\ cutTo' = IF abort THEN 0 ELSE Approach(0)

Poll ==
    \/ PollAlarm \/ PollAborted \/ PollCancel \/ PollProceed
    \/ PollRefuse \/ PollBegin

---------------------------------------------------------------------------
(* lathe_cycle_reset(), inside the core's reset                            *)

Recovers == c.internalReset /\ active /\ ~stopping /\ alarm = "none"

\* Mutant: the interruption survives the recovery.
RecoveredPausing ==
    [c EXCEPT !.internalReset = FALSE, !.cancelRequested = FALSE, !.waitingAck = FALSE,
              !.recovering = TRUE, !.stage = Setup]

Recovered ==
    [c EXCEPT !.internalReset = FALSE, !.pausing = FALSE, !.cancelRequested = FALSE,
              !.waitingAck = FALSE, !.recovering = TRUE, !.stage = Setup]

CoreReset ==
    /\ abort
    /\ CoreCleared
    /\ braking' = FALSE
    /\ IF Recovers
       THEN /\ c' = Recovered
            /\ profile' = TRUE
            /\ UNCHANGED shared
       ELSE /\ c' = [c EXCEPT !.internalReset = FALSE, !.pausing = FALSE,
                              !.recovering = FALSE, !.threadEntry = FALSE,
                              !.restartEntry = FALSE, !.waitingAck = FALSE,
                              !.cancelRequested = FALSE]
            /\ profile' = FALSE
            /\ active' = FALSE /\ pending' = FALSE /\ stopping' = FALSE /\ owns' = FALSE
            /\ UNCHANGED advance
    /\ cutTo' = IF Recovers THEN cutTo ELSE 0
    /\ UNCHANGED <<pos, alarm, rpm, entryCutting>>

---------------------------------------------------------------------------
(* The core, seen from the cycle                                           *)

\* $P4THREADENTRY is refused unless it is the entry the cycle is waiting for.
EntryAllowed ==
    active /\ ~stopping /\ Indexed /\ c.stage = Cut /\ c.threadEntry

ParseStep == Parse(EntryAllowed) /\ UNCHANGED <<shared, c, cutTo>>

\* History: the cut grows where the tool, at depth, passes its own front.
CutsAt(at) ==
    /\ Head(queue).kind \in {"feed", "sync", "thread"}
    /\ active /\ ~pending /\ c.pass < Passes
    /\ Ellipse \/ at.depth = Depth(c.pass)
StepPulseCuts ==
    /\ StepPulse
    /\ cutTo' = IF CutsAt(pos) /\ pos.cut <= cutTo /\ pos'.cut > cutTo THEN pos'.cut ELSE cutTo
    /\ UNCHANGED <<shared, c>>

CoreStep ==
    \/ ReportSynchronized \/ CycleStart \/ IndexFound \/ BlockDone \/ CycleComplete
    \/ MotionCancel \/ Stopped \/ FeedHold \/ ExecuteReset
    \/ Fault \/ SpindleFault \/ SpindleTurns

Next ==
    \/ Request \/ Cancel \/ Advance \/ UserReset \/ Unlock
    \/ Poll \/ CoreReset
    \/ ParseStep \/ StepPulseCuts
    \/ CoreStep /\ UNCHANGED <<shared, c, cutTo>>

Spec == Init /\ [][Next]_vars

---------------------------------------------------------------------------
(* Types                                                                   *)

CycleState ==
    [pass : 0 .. Passes, start : 0 .. PlanStarts - 1, stage : Stage, segment : 0 .. Segments - 1,
     waitingAck : BOOLEAN, cancelRequested : BOOLEAN, pausing : BOOLEAN,
     internalReset : BOOLEAN, recovering : BOOLEAN, reverseCut : BOOLEAN,
     threadEntry : BOOLEAN, restartEntry : BOOLEAN,
     cutDir : {-1, 1}, planDir : {-1, 1}]

\* Every variable keeps its type through cycles, cancellations and resets; in
\* particular a recovered cut never works on a pass, start or chord outside
\* the plan.
TypeOK ==
    /\ pos \in Point
    /\ queue \in Seq(Block)
    /\ exec \in ExecStates
    /\ cmd \in Command
    /\ ack \in {"none", "ok", "speed", "reject"}
    /\ req \subseteq {"cancel", "stop", "reset"}
    /\ abort \in BOOLEAN
    /\ alarm \in {"none", "fault", "inmotion", "stall"}
    /\ rpm \in Rpm
    /\ entryCutting \in BOOLEAN /\ profile \in BOOLEAN /\ braking \in BOOLEAN
    /\ active \in BOOLEAN /\ pending \in BOOLEAN /\ stopping \in BOOLEAN
    /\ advance \in BOOLEAN /\ owns \in BOOLEAN
    /\ c \in CycleState
    /\ cutTo \in Nat

---------------------------------------------------------------------------
(* Safety                                                                  *)

\* A rapid along the cutting axis runs only with the tool retracted to its
\* clearance, through every interruption, recovery and restart of a pass
\* (the order retract, return, infeed of emit(), and restart_entry).
RapidsAreClear ==
    \A i \in DOMAIN queue :
        queue[i].kind = "rapid" /\ queue[i].to.cut # pos.cut => pos.depth = Clearance

\* The tool goes deeper only at the starting station of the pass it works
\* on, or in the cut itself; the last infeed returns it to depth_start.
InfeedsAtApproach ==
    queue # <<>> /\ Head(queue).kind \in {"rapid", "plunge"} /\ Head(queue).to.depth > pos.depth
        => \/ c.pass < Passes /\ pos.cut = Approach(c.pass)
           \/ c.stage = FinishInfeed

\* THREADING.md: a thread waits for its phase with the tool clear and at the
\* approach; it never waits at depth for an entry.
EntryWaitsClear ==
    /\ exec = "wait" /\ Head(queue).kind = "plunge"
           => pos.depth = Clearance /\ pos.cut = Approach(c.pass)
    /\ active /\ c.threadEntry /\ c.stage \in {Register, SpindleOn}
           => pos.depth = Clearance /\ pos.cut = Approach(c.pass)

\* No retract, return or advance before the cut of this start has been made
\* over its whole length, however often it was paused, retraced and resumed;
\* the closing moves come only after the last depth.
CutComplete ==
    /\ active /\ ~pending /\ c.stage \in Retract .. TakeUpAgain => cutTo = Endpoint(c.pass)
    /\ c.stage >= ToStart <=> c.pass = Passes

\* The cycle's own reset never meets a moving axis, and the spindle may stop
\* under a cycle without the synchronization fault: an interrupted cut
\* never ends in an alarm.
NoOwnAlarm == alarm \notin {"inmotion", "stall"}

\* While a spindle-fed move is planned the poll watches the spindle for it, or
\* is already cancelling it.
CutSupervised ==
    active /\ (\E i \in DOMAIN queue : queue[i].kind # "rapid")
        => (c.stage = Cut /\ c.waitingAck) \/ c.cancelRequested \/ stopping

\* STOP is final: it is not withdrawn while the operation lasts, and no
\* further command is submitted for it.
StopIsFinal ==
    [][active /\ stopping =>
          /\ stopping' \/ ~active'
          /\ cmd' \in {cmd, NoCommand, [cmd EXCEPT !.executing = TRUE]}]_vars

\* An operation ends when it is refused, complete or stopped, or by a fault.
\* Pausing a cut, resetting the core under it and recovering never end it,
\* whatever the resets and the spindle do meanwhile.
EndsForAReason ==
    [][active /\ ~active' =>
          pending \/ c.pass = Passes \/ stopping \/ alarm # "none"]_vars

\* The comment in poll_cycle(): "A cut that has already reached its endpoint
\* must still retract, even if the spindle stops in the same foreground
\* iteration."
EndpointStillRetracts ==
    [][c'.pausing /\ ~c.pausing /\ c.stage = Cut /\ ~c.reverseCut /\ Idle /\ rpm = 0 =>
          pos.cut # Endpoint(c.pass)]_vars

---------------------------------------------------------------------------
(* The inductive invariant under the theorems of CycleProofs               *)

\* The closing moves belong to the pass after the last.
PassStages == c.stage >= ToStart <=> c.pass = Passes

\* Only a cut is paused, and only a pause asks for a reset that it survives.
PausedCut == (c.internalReset => c.pausing) /\ (c.pausing => c.stage = Cut)

\* A reset or an alarm leaves nothing planned and nothing moving; an alarm
\* stands without a reset only after one, with no command left.
StoppedByReset ==
    /\ abort \/ alarm # "none" => exec = "idle" /\ queue = <<>>
    /\ alarm # "none" => abort \/ (cmd = NoCommand /\ req = {})

\* A reset that has been asked for belongs to the running operation, which is
\* stopping or will survive it.
ResetIsOwned ==
    /\ ~abort /\ req \cap {"reset", "stop"} # {} => active /\ ~pending /\ (stopping \/ c.internalReset)
    /\ active /\ abort /\ alarm = "none" => pending \/ stopping \/ c.internalReset

\* Synchronized commands and blocks exist only for an operation that runs in
\* profile mode, where a stalled spindle is left to the cycle.
Synchronized ==
    cmd.kind \in {"sync", "entry"} \/ \E i \in DOMAIN queue : queue[i].kind \in {"sync", "thread"}
SynchronizedInProfile ==
    /\ ack # "none" => cmd = NoCommand
    /\ active /\ ~pending => profile
    /\ Synchronized /\ ~abort => active /\ ~pending

TypeInv == TypeOK /\ PassStages /\ PausedCut
ResetInv == StoppedByReset /\ ResetIsOwned
ProfileInv == SynchronizedInProfile /\ NoOwnAlarm
IInv == TypeInv /\ ResetInv /\ ProfileInv

---------------------------------------------------------------------------
(* Liveness                                                                *)

\* The hook keeps being called, and the core finishes what it has begun.
\* Nothing is assumed of the operator, the UI or the spindle.
Fairness ==
    /\ WF_vars(PollAlarm \/ PollAborted \/ PollCancel \/ PollProceed \/ PollRefuse \/ PollBegin)
    /\ WF_vars(CoreReset)
    /\ WF_vars(ParseStep)
    /\ WF_vars(StepPulseCuts)
    /\ WF_vars((ReportSynchronized \/ CycleStart \/ IndexFound \/ BlockDone \/ CycleComplete
                 \/ MotionCancel \/ Stopped \/ ExecuteReset) /\ UNCHANGED <<shared, c, cutTo>>)

FairSpec == Spec /\ Fairness

\* STOP always ends the operation, also while the spindle stands still in the
\* index wait or under a cut.
StopEnds == stopping /\ active ~> ~active

\* With the spindle turning forward for good, an operation ends: no
\* interruption leaves it armed for ever.
ForwardCompletes == <>[](rpm = c.planDir) => []<>(~active)
============================================================================
