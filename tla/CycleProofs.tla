---------------------------- MODULE CycleProofs ----------------------------
(***************************************************************************)
(* What the profile cycle keeps for every number of passes, starts, chords *)
(* and stations of the cut, and every size of the planner, in four parts:  *)
(*                                                                         *)
(*   - the types of the cycle and of the core (TypeInv);                   *)
(*   - what a stop, a reset and an alarm leave (ResetInv, ProfileInv);     *)
(*   - the path of the tool (PathInv): which command and which blocks go   *)
(*     with a stage, and where the tool then is;                           *)
(*   - the contract of CycleContract, implemented step by step.            *)
(***************************************************************************)
EXTENDS CycleRefinement, SequenceTheorems, TLAPS

(* The plan stays within the naturals of the cycle frame, so that every    *)
(* command emit() derives from it is well formed.                          *)
LEMMA PlanPoints ==
    /\ Clearance \in Nat /\ DepthStart \in Nat /\ CutStart \in Nat /\ CutEnd \in Nat
    /\ Takeup \in Nat /\ PlanStarts \in Nat \ {0}
    /\ \A p \in PassIndex :
         /\ Approach(p) \in Nat /\ Endpoint(p) \in Nat
         /\ Infeed(p) \in Nat /\ Depth(p) \in Nat
         /\ \A s \in 0 .. Segments : PointCut(p, s) \in Nat /\ PointDepth(p, s) \in Nat
<1>. USE PlanAssumption DEF Clearance, DepthStart, CutStart, Takeup, PlanStarts
<1>1. \A a, b \in Nat : a * b \in Nat
  OBVIOUS
<1>2. ASSUME NEW p \in PassIndex, NEW s \in 0 .. Segments
      PROVE  PointCut(p, s) \in Nat /\ PointDepth(p, s) \in Nat
  <2>1. p + 1 \in Nat /\ Passes - (p + 1) \in Nat /\ s \in Nat /\ Segments \in Nat
    BY DEF PassIndex
  <2>2. s * (p + 1) \in Nat /\ (Passes - (p + 1)) * Segments \in Nat
    BY <2>1, <1>1
  <2>. QED
    BY <2>2 DEF PointCut, PointDepth
<1>3. DepthStep \in Nat
  BY DEF DepthStep
<1>4. ASSUME NEW p \in PassIndex
      PROVE  /\ Approach(p) \in Nat /\ Endpoint(p) \in Nat
             /\ Infeed(p) \in Nat /\ Depth(p) \in Nat
  <2>1. p + 1 \in Nat
    BY DEF PassIndex
  <2>2. /\ DepthStep * (p + 1) \in Nat /\ (p + 1) * CutSteps \in Nat
        /\ Passes * Segments \in Nat /\ Passes * CutSteps \in Nat
    BY <2>1, <1>1, <1>3
  <2>3. PointCut(p, 0) \in Nat /\ PointDepth(p, 0) \in Nat
    BY <1>2
  <2>. QED
    BY <2>2, <2>3 DEF Approach, Endpoint, CutEnd, Infeed, Depth
<1>5. CutEnd \in Nat
  BY <1>1 DEF CutEnd
<1>. QED
  BY <1>2, <1>4, <1>5

(* A resumed ellipse goes on with a chord of its plan.                     *)
LEMMA SegmentInPlan ==
    ASSUME NEW p, NEW at
    PROVE  SegmentAt(p, at) \in 0 .. Segments - 1
<1>. DEFINE along == at.cut - PointCut(p, 0)
            nearest == {i \in 0 .. Segments - 1 :
                          /\ i = 0 \/ i * (p + 1) < along
                          /\ i = Segments - 1 \/ along <= (i + 1) * (p + 1)}
<1>1. SegmentAt(p, at) = IF nearest = {} THEN 0 ELSE CHOOSE i \in nearest : TRUE
  BY DEF SegmentAt
<1>2. nearest \subseteq 0 .. Segments - 1
  OBVIOUS
<1>3. 0 \in 0 .. Segments - 1
  BY PlanAssumption
<1>. HIDE DEF nearest
<1>4. nearest # {} => (CHOOSE i \in nearest : TRUE) \in nearest
  OBVIOUS
<1>. QED
  BY <1>1, <1>2, <1>3, <1>4

---------------------------------------------------------------------------
(* The state machine of emit()                                             *)

Placed(c0) == c0.stage >= ToStart <=> c0.pass = Passes

LEMMA TargetType ==
    ASSUME TypeOK, NEW c0 \in CycleState, Placed(c0)
    PROVE  Target(c0) \in Point
<1>. USE DEF Setup, RetractFirst, ToTakeup, ToApproach, InfeedStage, Register, SpindleOn,
             Cut, Retract, Return, TakeUpAgain, ToStart, FinishInfeed, RestorePhase, LastStage, Stage
<1>1. pos \in Point /\ pos.cut \in Nat /\ pos.depth \in Nat
  BY DEF TypeOK, Point
<1>2. ASSUME NEW a \in Nat
      PROVE  [pos EXCEPT !.depth = a] \in Point /\ [pos EXCEPT !.cut = a] \in Point
  BY <1>1 DEF Point
<1>3. CASE c0.stage \in ToStart .. LastStage
  <2>1. Target(c0) \in {[pos EXCEPT !.cut = CutStart], [pos EXCEPT !.depth = DepthStart], pos}
    BY <1>3 DEF Target
  <2>. QED
    BY <2>1, <1>1, <1>2, PlanPoints
<1>4. CASE c0.stage \in Setup .. TakeUpAgain
  <2>1. c0.pass \in PassIndex /\ c0.stage \in Stage /\ c0.segment \in 0 .. Segments - 1
    BY <1>4, PlanAssumption DEF CycleState, PassIndex, Placed
  <2>2. /\ Approach(c0.pass) \in Nat /\ Endpoint(c0.pass) \in Nat /\ Takeup \in Nat
        /\ Infeed(c0.pass) \in Nat /\ Depth(c0.pass) \in Nat /\ Clearance \in Nat
    BY <2>1, PlanPoints
  <2>3. ASSUME NEW s \in {c0.segment, c0.segment + 1}
        PROVE  [cut |-> PointCut(c0.pass, s), depth |-> PointDepth(c0.pass, s)] \in Point
    <3>1. s \in 0 .. Segments
      BY <2>1, PlanAssumption
    <3>. QED
      BY <3>1, <2>1, PlanPoints DEF Point
  <2>4. [cut |-> Endpoint(c0.pass), depth |-> Depth(c0.pass)] \in Point
    BY <2>2 DEF Point
  <2>5. CASE c0.stage # Cut
    <3>1. Target(c0) \in {[pos EXCEPT !.depth = Clearance], [pos EXCEPT !.cut = Takeup],
                           [pos EXCEPT !.cut = Approach(c0.pass)],
                           [pos EXCEPT !.depth = Infeed(c0.pass)], pos}
      BY <1>4, <2>5 DEF Target
    <3>. QED
      BY <3>1, <2>2, <1>1, <1>2
  <2>6. CASE c0.stage = Cut /\ Ellipse
    <3>. DEFINE s == IF c0.reverseCut THEN c0.segment ELSE c0.segment + 1
    <3>1. Target(c0) = [cut |-> PointCut(c0.pass, s), depth |-> PointDepth(c0.pass, s)]
      BY <2>6 DEF Target, Ellipse, Indexed
    <3>2. s \in {c0.segment, c0.segment + 1}
      OBVIOUS
    <3>. QED
      BY <3>1, <3>2, <2>3
  <2>7. CASE c0.stage = Cut /\ ~Ellipse
    <3>1. Target(c0) \in {[cut |-> Endpoint(c0.pass), depth |-> Depth(c0.pass)],
                           [pos EXCEPT !.cut = Approach(c0.pass)],
                           [pos EXCEPT !.cut = Endpoint(c0.pass)]}
      BY <2>7 DEF Target
    <3>. QED
      BY <3>1, <2>2, <2>4, <1>2
  <2>. QED
    BY <2>5, <2>6, <2>7
<1>. QED
  BY <1>3, <1>4 DEF CycleState

(* A command is well formed and its completion is still to come; or the    *)
(* bridge refuses it and the cycle stops.                                  *)
LEMMA SubmitType ==
    ASSUME TypeOK, NEW c0 \in CycleState, Placed(c0), Submit(c0)
    PROVE  /\ cmd' \in Command /\ ack' \in {"none", "ok", "speed", "reject"}
           /\ stopping' \in BOOLEAN /\ (stopping => stopping')
           /\ c' \in {c0, [c0 EXCEPT !.waitingAck = TRUE]}
           /\ (cmd' = cmd /\ ack' = ack) \/ ack' = "none"
<1>1. Target(c0) \in Point
  BY TargetType
<1>2. CommandKind(c0) \in CmdKinds
  BY DEF CommandKind, CmdKinds
<1>3. [kind |-> CommandKind(c0), to |-> Target(c0), executing |-> FALSE] \in Command
  BY <1>1, <1>2 DEF Command
<1>. QED
  BY <1>3 DEF Submit, TypeOK

(* Which fields of c0 emit() leaves alone; it may only step back to        *)
(* Register, or forward to it from a thread's infeed.                      *)
Same(c1, c0) ==
    /\ c1.pass = c0.pass /\ c1.pausing = c0.pausing /\ c1.internalReset = c0.internalReset
    /\ c1.stage = c0.stage \/ (c0.stage \in {InfeedStage, Cut} /\ c1.stage = Register)

LEMMA StageChange ==
    ASSUME NEW c0 \in CycleState, NEW s \in Stage, NEW b \in BOOLEAN
    PROVE  /\ [c0 EXCEPT !.stage = s] \in CycleState
           /\ [c0 EXCEPT !.threadEntry = b, !.stage = s] \in CycleState
<1>1. [c0 EXCEPT !.stage = s] \in CycleState
  BY DEF CycleState
<1>2. [c0 EXCEPT !.threadEntry = b, !.stage = s] \in CycleState
  BY DEF CycleState
<1>. QED
  BY <1>1, <1>2

LEMMA AckChange ==
    ASSUME NEW c0 \in CycleState, NEW b \in BOOLEAN
    PROVE  [c0 EXCEPT !.waitingAck = b] \in CycleState /\ Same([c0 EXCEPT !.waitingAck = b], c0)
<1>1. [c0 EXCEPT !.waitingAck = b] \in CycleState
  BY DEF CycleState
<1>2. Same([c0 EXCEPT !.waitingAck = b], c0)
  BY DEF CycleState, Same
<1>. QED
  BY <1>1, <1>2

LEMMA AimedType ==
    ASSUME NEW c0 \in CycleState, NEW r \in Rpm \ {0}
    PROVE  Aimed(c0, r) \in CycleState /\ Same(Aimed(c0, r), c0)
<1>1. Sign(r) \in {-1, 1}
  BY DEF Sign, Rpm
<1>2. (IF Ellipse THEN SegmentAt(c0.pass, pos) ELSE c0.segment) \in 0 .. Segments - 1
  BY SegmentInPlan DEF CycleState
<1>. QED
  BY <1>1, <1>2 DEF Aimed, CycleState, Same

LEMMA EmitType ==
    ASSUME TypeOK, NEW c0 \in CycleState, Placed(c0), Emit(c0)
    PROVE  /\ rpm' \in Rpm /\ entryCutting' \in BOOLEAN
           /\ cmd' \in Command /\ ack' \in {"none", "ok", "speed", "reject"}
           /\ stopping' \in BOOLEAN /\ (stopping => stopping')
           /\ (cmd' = cmd /\ ack' = ack) \/ ack' = "none"
           /\ c' \in CycleState /\ Placed(c') /\ Same(c', c0)
<1>. USE DEF InfeedStage, Register, Cut, ToStart
<1>. DEFINE c1 == Staged(c0)
<1>1. c1 \in CycleState /\ Same(c1, c0)
  <2>1. Register \in Stage
    BY DEF Stage
  <2>2. CASE c0.stage = InfeedStage /\ Indexed
    <3>1. c1 = [c0 EXCEPT !.threadEntry = TRUE, !.stage = Register]
      BY <2>2 DEF Staged
    <3>2. c1 \in CycleState
      BY <2>1, <3>1, StageChange
    <3>. HIDE DEF c1
    <3>. QED
      BY <2>2, <3>1, <3>2 DEF CycleState, Same
  <2>3. CASE ~(c0.stage = InfeedStage /\ Indexed)
    BY <2>3 DEF Staged, Same
  <2>. QED
    BY <2>2, <2>3
<1>2. rpm' \in Rpm /\ entryCutting' \in BOOLEAN
  BY DEF Emit, TypeOK, Rpm
<1>3. Placed(c1)
  BY <1>1 DEF Same, Placed, CycleState, Stage
<1>. HIDE DEF c1
<1>4. CASE c1.stage = Register /\ PrepareCut(c1, rpm')
  <2>1. CASE rpm' = 0 \/ ~MayCut(Aimed(c1, rpm'), rpm')
    <3>1. UNCHANGED <<cmd, ack, stopping>> /\ c' \in {c1, Aimed(c1, rpm')} /\ (rpm' = 0 => c' = c1)
      BY <1>4, <2>1 DEF PrepareCut
    <3>2. c' \in CycleState /\ Same(c', c1)
      BY <3>1, <1>1, <1>2, AimedType DEF Same
    <3>. QED
      BY <1>1, <1>2, <1>3, <3>1, <3>2 DEF Same, Placed, TypeOK, CycleState, Stage
  <2>2. CASE rpm' # 0 /\ MayCut(Aimed(c1, rpm'), rpm')
    <3>. DEFINE c2 == Aimed(c1, rpm')
    <3>1. Submit(c2)
      BY <1>4, <2>2 DEF PrepareCut
    <3>2. c2 \in CycleState /\ Same(c2, c1)
      BY <1>1, <1>2, <2>2, AimedType
    <3>. HIDE DEF c2
    <3>3. Placed(c2)
      BY <1>1, <1>3, <3>2 DEF Same, Placed, CycleState, Stage
    <3>4. c' \in CycleState /\ Same(c', c2)
      BY <3>1, <3>2, <3>3, SubmitType, AckChange DEF Same
    <3>. QED
      BY <1>1, <1>2, <1>3, <3>1, <3>2, <3>3, <3>4, SubmitType DEF Same, Placed, CycleState, Stage
  <2>. QED
    BY <2>1, <2>2
<1>5. CASE c1.stage = Cut /\ c' = [c1 EXCEPT !.stage = Register] /\ UNCHANGED <<cmd, ack, stopping>>
  <2>1. c' \in CycleState /\ Same(c', c1)
    BY <1>1, <1>5 DEF CycleState, Same, Stage
  <2>. QED
    BY <1>1, <1>2, <1>3, <1>5, <2>1 DEF Same, Placed, TypeOK, CycleState, Stage
<1>6. CASE Submit(c1)
  <2>1. c' \in CycleState /\ Same(c', c1)
    BY <1>1, <1>3, <1>6, SubmitType, AckChange DEF Same
  <2>. QED
    BY <1>1, <1>2, <1>3, <1>6, <2>1, SubmitType DEF Same, Placed, CycleState, Stage
<1>. QED
  BY <1>4, <1>5, <1>6 DEF Emit, c1

---------------------------------------------------------------------------
(* Steps that leave the cycle's own state alone                            *)

LEMMA BlocksAndPoints ==
    /\ NoCommand \in Command
    /\ \A p \in Point, q \in Point : Stepped(p, q) \in Point
    /\ \A p \in Point, k \in BlockKinds : [kind |-> k, to |-> p] \in Block
<1>1. NoCommand \in Command
  BY DEF NoCommand, Command, CmdKinds, Point
<1>2. \A p \in Point, q \in Point : Stepped(p, q) \in Point
  BY DEF Point, Stepped, Towards
<1>3. \A p \in Point, k \in BlockKinds : [kind |-> k, to |-> p] \in Block
  BY DEF Block
<1>. QED
  BY <1>1, <1>2, <1>3

LEMMA ParseType ==
    ASSUME TypeOK, Parse(EntryAllowed), UNCHANGED <<shared, c, cutTo>>
    PROVE  TypeOK'
<1>. USE DEF TypeOK
<1>1. /\ cmd.to \in Point /\ cmd.kind \in CmdKinds
      /\ [cmd EXCEPT !.executing = TRUE] \in Command
  BY DEF Command
<1>2. ASSUME NEW k \in BlockKinds
      PROVE  Planned(k) \in Seq(Block)
  <2>1. [kind |-> k, to |-> cmd.to] \in Block
    BY <1>1, BlocksAndPoints
  <2>. QED
    BY <2>1 DEF Planned
<1>3. ASSUME QueueEntry(EntryAllowed)
      PROVE  queue' \in Seq(Block)
  <2>1. [pos EXCEPT !.depth = cmd.to.depth] \in Point
    BY <1>1 DEF Point
  <2>2. /\ [kind |-> "plunge", to |-> [pos EXCEPT !.depth = cmd.to.depth]] \in Block
        /\ [kind |-> "thread", to |-> cmd.to] \in Block
    BY <1>1, <2>1, BlocksAndPoints DEF BlockKinds
  <2>. QED
    BY <2>2, <1>3 DEF QueueEntry
<1>4. queue' \in Seq(Block)
  <2>1. CASE ParseMove
    BY <1>2, <2>1 DEF ParseMove, BlockKinds
  <2>2. CASE ParseSync
    BY <1>2, <2>2 DEF ParseSync, BlockKinds
  <2>. QED
    BY <1>3, <2>1, <2>2 DEF Parse, ParseWord, RefuseEntry, Refuse
<1>5. cmd' \in Command /\ ack' \in {"none", "ok", "speed", "reject"}
  BY <1>1, BlocksAndPoints
     DEF Parse, ParseWord, ParseMove, ParseSync, QueueEntry, RefuseEntry, Refuse, Parsed
<1>6. entryCutting' \in BOOLEAN
  BY DEF Parse
<1>7. UNCHANGED <<pos, exec, req, abort, alarm, rpm, profile, braking, shared, c, cutTo>>
  BY DEF Parse
<1>. QED
  BY <1>4, <1>5, <1>6, <1>7 DEF shared

LEMMA StepPulseType ==
    ASSUME TypeOK, StepPulseCuts
    PROVE  TypeOK'
<1>. USE DEF TypeOK
<1>1. Head(queue) \in Block /\ Head(queue).to \in Point
  <2>1. queue # <<>> /\ queue \in Seq(Block)
    BY DEF StepPulseCuts, StepPulse
  <2>2. Head(queue) \in Block
    BY <2>1
  <2>. QED
    BY <2>2 DEF Block
<1>2. pos' \in Point
  BY <1>1, BlocksAndPoints DEF StepPulseCuts, StepPulse
<1>3. cutTo' \in Nat
  BY <1>2 DEF StepPulseCuts, Point
<1>. QED
  BY <1>2, <1>3 DEF StepPulseCuts, StepPulse, shared, spindle

LEMMA CoreStepType ==
    ASSUME TypeOK, CoreStep, UNCHANGED <<shared, c, cutTo>>
    PROVE  TypeOK'
<1>. USE DEF TypeOK, shared, core, spindle, ExecStates, Moving
<1>1. CASE ReportSynchronized
  BY <1>1, BlocksAndPoints DEF ReportSynchronized, Parsed
<1>2. CASE CycleStart
  BY <1>2 DEF CycleStart
<1>3. CASE IndexFound
  BY <1>3 DEF IndexFound
<1>4. CASE BlockDone
  BY <1>4 DEF BlockDone
<1>5. CASE CycleComplete
  BY <1>5 DEF CycleComplete
<1>6. CASE MotionCancel
  <2>1. exec' \in ExecStates
    BY <1>6 DEF MotionCancel
  <2>2. req' \subseteq req
    BY <1>6 DEF MotionCancel
  <2>3. req' \subseteq {"cancel", "stop", "reset"}
    BY <2>2
  <2>4. queue' \in Seq(Block)
    <3>1. queue' = queue \/ queue' = <<>>
      BY <1>6 DEF MotionCancel
    <3>2. <<>> \in Seq(Block)
      OBVIOUS
    <3>. QED
      BY <3>1, <3>2, Zenon
  <2>5. UNCHANGED <<pos, cmd, ack, abort, alarm, rpm, entryCutting, profile, braking>>
    BY <1>6 DEF MotionCancel
  <2>. QED
    BY <2>1, <2>3, <2>4, <2>5
<1>7. CASE Stopped
  BY <1>7 DEF Stopped
<1>8. CASE FeedHold
  <2>1. exec' = "hold" /\ UNCHANGED <<pos, queue, cmd, ack, req, abort, alarm, spindle>>
    BY <1>8 DEF FeedHold
  <2>. QED
    BY <2>1
<1>9. CASE ExecuteReset
  BY <1>9 DEF ExecuteReset
<1>10. CASE Fault
  BY <1>10 DEF Fault
<1>11. CASE SpindleFault
  <2>1. /\ exec' = "idle" /\ queue' = <<>> /\ alarm' = "stall" /\ abort' = TRUE
        /\ UNCHANGED <<pos, cmd, ack, req, spindle>>
    BY <1>11 DEF SpindleFault
  <2>. QED
    BY <2>1
<1>12. CASE SpindleTurns
  BY <1>12 DEF SpindleTurns
<1>. QED
  BY <1>1, <1>2, <1>3, <1>4, <1>5, <1>6, <1>7, <1>8, <1>9, <1>10, <1>11, <1>12 DEF CoreStep

---------------------------------------------------------------------------
(* Steps of poll_cycle()                                                   *)

LEMMA EntryNotedType ==
    ASSUME NEW c0 \in CycleState
    PROVE  /\ EntryNoted(c0) \in CycleState
           /\ EntryNoted(c0).pass = c0.pass /\ EntryNoted(c0).stage = c0.stage
           /\ EntryNoted(c0).pausing = c0.pausing
           /\ EntryNoted(c0).internalReset = c0.internalReset
           /\ EntryNoted(c0).waitingAck = c0.waitingAck
<1>1. [c0 EXCEPT !.threadEntry = FALSE] \in CycleState
  BY DEF CycleState
<1>. QED
  BY <1>1 DEF EntryNoted, CycleState

(* A pass is followed by a pass of the plan, or by the closing moves.      *)
LEMMA NextStartType ==
    ASSUME NEW c0 \in CycleState, c0.pass \in PassIndex, advance \in BOOLEAN
    PROVE  /\ NextStart(c0) \in CycleState /\ Placed(NextStart(c0))
           /\ NextStart(c0).pausing = c0.pausing
           /\ NextStart(c0).internalReset = c0.internalReset
<1>. DEFINE lastStart == c0.start + 1 = PlanStarts
            pass == IF lastStart THEN NextPass(c0) ELSE c0.pass
            start == IF lastStart THEN 0 ELSE c0.start + 1
            stage == IF pass = Passes THEN ToStart ELSE IF Ellipse THEN ToTakeup ELSE InfeedStage
<1>1. NextStart(c0) = [c0 EXCEPT !.start = start, !.pass = pass, !.stage = stage, !.segment = 0]
  BY DEF NextStart, CycleState
<1>2. pass \in 0 .. Passes
  BY PlanAssumption DEF NextPass, PassIndex
<1>3. start \in 0 .. PlanStarts - 1
  BY PlanPoints DEF CycleState
<1>4. stage \in Stage /\ (stage >= ToStart <=> pass = Passes)
  BY DEF Stage, ToStart, ToTakeup, InfeedStage
<1>5. 0 \in 0 .. Segments - 1
  BY PlanAssumption
<1>. HIDE DEF pass, start, stage
<1>6. NextStart(c0) \in CycleState
  BY <1>1, <1>2, <1>3, <1>4, <1>5 DEF CycleState
<1>7. /\ NextStart(c0).pass = pass /\ NextStart(c0).stage = stage
      /\ NextStart(c0).pausing = c0.pausing /\ NextStart(c0).internalReset = c0.internalReset
  BY <1>1 DEF CycleState
<1>. QED
  BY <1>4, <1>6, <1>7 DEF Placed

LEMMA AfterStageType ==
    ASSUME NEW c0 \in CycleState, Placed(c0), c0.stage # LastStage, advance \in BOOLEAN
    PROVE  /\ AfterStage(c0) \in CycleState /\ Placed(AfterStage(c0))
           /\ AfterStage(c0).pausing = c0.pausing
           /\ AfterStage(c0).internalReset = c0.internalReset
<1>. USE DEF Setup, RetractFirst, Register, Cut, Retract, TakeUpAgain, ToStart, LastStage
<1>1. c0.stage \in Stage /\ c0.pass \in 0 .. Passes
  BY DEF CycleState
<1>2. ASSUME NEW s \in Stage, s >= ToStart <=> c0.pass = Passes
      PROVE  /\ [c0 EXCEPT !.stage = s] \in CycleState /\ Placed([c0 EXCEPT !.stage = s])
             /\ [c0 EXCEPT !.stage = s].pausing = c0.pausing
             /\ [c0 EXCEPT !.stage = s].internalReset = c0.internalReset
  BY <1>2, StageChange DEF CycleState, Placed
<1>3. CASE c0.stage = Setup /\ c0.recovering
  <2>1. AfterRecovery(c0) \in Stage /\ AfterRecovery(c0) < ToStart
    BY DEF AfterRecovery, Stage
  <2>2. AfterStage(c0) = [c0 EXCEPT !.recovering = FALSE, !.restartEntry = FALSE,
                                    !.stage = AfterRecovery(c0)]
    BY <1>3 DEF AfterStage
  <2>3. AfterStage(c0) \in CycleState
    BY <2>1, <2>2 DEF CycleState
  <2>4. /\ AfterStage(c0).stage = AfterRecovery(c0) /\ AfterStage(c0).pass = c0.pass
        /\ AfterStage(c0).pausing = c0.pausing
        /\ AfterStage(c0).internalReset = c0.internalReset
    BY <2>2 DEF CycleState
  <2>5. AfterRecovery(c0) >= ToStart <=> c0.stage >= ToStart
    BY <1>3, <2>1 DEF Stage
  <2>. QED
    BY <2>3, <2>4, <2>5 DEF Placed
<1>4. CASE c0.stage = Cut
  <2>1. AfterStage(c0) = [c0 EXCEPT !.stage = AfterCut(c0)]
    BY <1>4 DEF AfterStage
  <2>2. AfterCut(c0) \in Stage /\ (AfterCut(c0) >= ToStart <=> c0.pass = Passes)
    BY <1>4 DEF AfterCut, Stage, Placed
  <2>. QED
    BY <1>2, <2>1, <2>2
<1>5. CASE c0.stage = TakeUpAgain
  <2>1. c0.pass \in PassIndex
    BY <1>1, <1>5, PlanAssumption DEF Placed, PassIndex
  <2>. QED
    BY <1>5, <2>1, NextStartType DEF AfterStage
<1>6. CASE ~(c0.stage = Setup /\ c0.recovering) /\ c0.stage \notin {Cut, TakeUpAgain}
  <2>1. AfterStage(c0) = [c0 EXCEPT !.stage = c0.stage + 1]
    BY <1>6 DEF AfterStage, CycleState
  <2>2. c0.stage + 1 \in Stage /\ (c0.stage + 1 >= ToStart <=> c0.pass = Passes)
    BY <1>1, <1>6 DEF Stage, Placed
  <2>. QED
    BY <1>2, <2>1, <2>2
<1>. QED
  BY <1>3, <1>4, <1>5, <1>6

(* What a poll may leave behind, whatever it did.                          *)
PolledOK ==
    /\ cmd' \in Command /\ ack' \in {"none", "ok", "speed", "reject"}
    /\ rpm' \in Rpm /\ entryCutting' \in BOOLEAN
    /\ profile' \in BOOLEAN /\ braking' \in BOOLEAN
    /\ active' \in BOOLEAN /\ stopping' \in BOOLEAN /\ advance' \in BOOLEAN /\ owns' \in BOOLEAN
    /\ c' \in CycleState /\ Placed(c') /\ PausedCut'

LEMMA NextChordType ==
    ASSUME NEW c0 \in CycleState, ChordsLeft(c0)
    PROVE  LET c1 == NextChord([c0 EXCEPT !.waitingAck = FALSE])
           IN  c1 \in CycleState /\ Same(c1, c0)
<1>. DEFINE c2 == [c0 EXCEPT !.waitingAck = FALSE]
            s == IF c0.reverseCut THEN c0.segment - 1 ELSE c0.segment + 1
<1>1. c2 \in CycleState /\ Same(c2, c0) /\ c2.segment = c0.segment
      /\ c2.reverseCut = c0.reverseCut
  BY AckChange DEF CycleState
<1>2. s \in 0 .. Segments - 1
  BY PlanAssumption DEF ChordsLeft, CycleState
<1>. HIDE DEF c2, s
<1>3. NextChord(c2) = [c2 EXCEPT !.segment = s]
  BY <1>1 DEF NextChord, CycleState, s
<1>4. NextChord(c2) \in CycleState
  BY <1>1, <1>2, <1>3 DEF CycleState
<1>5. Same(NextChord(c2), c2)
  BY <1>1, <1>3 DEF CycleState, Same
<1>. QED
  BY <1>1, <1>4, <1>5 DEF Same, c2

LEMMA CompletedType ==
    ASSUME TypeOK, NEW c0 \in CycleState, Placed(c0), ~c0.pausing, ~c0.internalReset,
           Completed(c0)
    PROVE  PolledOK
<1>. DEFINE c1 == [c0 EXCEPT !.waitingAck = FALSE]
<1>1. c1 \in CycleState /\ Same(c1, c0) /\ c1.stage = c0.stage /\ Placed(c1)
  BY AckChange DEF CycleState, Same, Placed
<1>2. ASSUME NEW c2 \in CycleState, Placed(c2), ~c2.pausing, ~c2.internalReset, Emit(c2),
             UNCHANGED <<profile, braking, active, owns>>, advance' \in BOOLEAN
      PROVE  PolledOK
  <2>1. Same(c', c2) /\ ~c'.pausing /\ ~c'.internalReset
    BY <1>2, EmitType DEF Same
  <2>. QED
    BY <1>2, <2>1, EmitType DEF PolledOK, PausedCut, TypeOK
<1>. HIDE DEF c1
<1>3. CASE ChordsLeft(c0)
  <2>. DEFINE c2 == NextChord(c1)
  <2>1. c2 \in CycleState /\ Same(c2, c0)
    BY <1>3, NextChordType DEF c1
  <2>2. Emit(c2) /\ UNCHANGED <<profile, braking, active, advance, owns>>
    BY <1>3 DEF Completed, c1
  <2>. HIDE DEF c2
  <2>3. Placed(c2) /\ ~c2.pausing /\ ~c2.internalReset
    BY <1>3, <2>1 DEF Same, Placed, ChordsLeft, Cut, InfeedStage, Register, ToStart
  <2>. QED
    BY <1>2, <2>1, <2>2, <2>3 DEF TypeOK
<1>4. CASE ~ChordsLeft(c0) /\ ~Idle
  <2>1. c' = c0 /\ UNCHANGED <<cmd, ack, stopping, spindle, active, advance, owns>>
    BY <1>4 DEF Completed, StillMoving
  <2>. QED
    BY <2>1 DEF PolledOK, PausedCut, TypeOK, spindle
<1>5. CASE ~ChordsLeft(c0) /\ Idle /\ c0.stage = LastStage
  <2>1. Finish(c1) /\ UNCHANGED <<cmd, ack, stopping, advance, rpm, entryCutting>>
    BY <1>5 DEF Completed, c1
  <2>2. ~c1.pausing /\ ~c1.internalReset
    BY <1>1 DEF Same
  <2>. QED
    BY <1>1, <2>1, <2>2 DEF Finish, PolledOK, PausedCut, TypeOK
<1>6. CASE ~ChordsLeft(c0) /\ Idle /\ c0.stage # LastStage
  <2>. DEFINE c2 == AfterStage(c1)
  <2>1. /\ Emit(c2) /\ UNCHANGED <<profile, braking, active, owns>>
        /\ advance' \in BOOLEAN
    BY <1>6 DEF Completed, c1
  <2>2. c2 \in CycleState /\ Placed(c2) /\ ~c2.pausing /\ ~c2.internalReset
    BY <1>1, <1>6, AfterStageType DEF Same, TypeOK
  <2>. HIDE DEF c2
  <2>. QED
    BY <1>2, <2>1, <2>2
<1>. QED
  BY <1>3, <1>4, <1>5, <1>6

LEMMA ProceedType ==
    ASSUME TypeOK, NEW c0 \in CycleState, Placed(c0), ~c0.pausing, ~c0.internalReset,
           Proceed(c0)
    PROVE  PolledOK
<1>1. CASE UNCHANGED <<cmd, ack, stopping, spindle, active, advance, owns>> /\ c' = c0
  BY <1>1 DEF PolledOK, PausedCut, TypeOK, spindle
<1>2. CASE Rejected(c0)
  <2>1. /\ UNCHANGED <<cmd, ack, entryCutting, rpm, profile, braking, active, advance, owns>>
        /\ stopping' \in BOOLEAN
    BY <1>2 DEF Rejected, TypeOK
  <2>2. c' = c0 \/ (c0.stage = Cut /\ c' = [c0 EXCEPT !.pausing = TRUE])
    BY <1>2 DEF Rejected
  <2>3. [c0 EXCEPT !.pausing = TRUE] \in CycleState
    BY DEF CycleState
  <2>4. /\ [c0 EXCEPT !.pausing = TRUE].pass = c0.pass /\ [c0 EXCEPT !.pausing = TRUE].stage = c0.stage
        /\ [c0 EXCEPT !.pausing = TRUE].internalReset = c0.internalReset
    BY DEF CycleState
  <2>5. c' \in CycleState /\ Placed(c') /\ PausedCut'
    BY <2>2, <2>3, <2>4 DEF Placed, PausedCut
  <2>. QED
    BY <2>1, <2>5 DEF PolledOK, TypeOK
<1>3. CASE Completed(c0)
  BY <1>3, CompletedType
<1>4. CASE Emit(c0) /\ UNCHANGED <<profile, braking, active, advance, owns>>
  <2>1. Same(c', c0) /\ ~c'.pausing /\ ~c'.internalReset
    BY <1>4, EmitType DEF Same
  <2>. QED
    BY <1>4, <2>1, EmitType DEF PolledOK, PausedCut, TypeOK
<1>5. \/ UNCHANGED <<cmd, ack, stopping, spindle, active, advance, owns>> /\ c' = c0
      \/ Rejected(c0) \/ Completed(c0)
      \/ Emit(c0) /\ UNCHANGED <<profile, braking, active, advance, owns>>
  BY DEF Proceed, TypeOK
<1>. QED
  BY <1>1, <1>2, <1>3, <1>4, <1>5

LEMMA CancelType ==
    ASSUME TypeOK, NEW c0 \in CycleState, Placed(c0),
           c0.internalReset => c0.pausing, c0.pausing => c0.stage = Cut,
           StopSeen \/ c0.pausing, CancelMotion(c0)
    PROVE  /\ PolledOK
           /\ req' \subseteq {"cancel", "stop", "reset"}
           /\ alarm' \in {"none", "fault", "inmotion", "stall"}
<1>. DEFINE first == ~c0.cancelRequested
            re == IF first THEN c0.threadEntry ELSE c0.restartEntry
            ir == IF exec \in {"wait", "idle"} THEN ~StopSeen ELSE c0.internalReset
<1>1. c' = [c0 EXCEPT !.cancelRequested = TRUE, !.restartEntry = re, !.internalReset = ir]
  BY DEF CancelMotion, CycleState
<1>2. re \in BOOLEAN /\ ir \in BOOLEAN
  BY DEF CycleState, StopSeen
<1>3. ir => c0.pausing
  OBVIOUS
<1>. HIDE DEF re, ir
<1>4. c' \in CycleState
  BY <1>1, <1>2 DEF CycleState
<1>5. c'.pass = c0.pass /\ c'.stage = c0.stage /\ c'.pausing = c0.pausing /\ c'.internalReset = ir
  BY <1>1 DEF CycleState
<1>6. Placed(c') /\ PausedCut'
  BY <1>3, <1>5 DEF Placed, PausedCut
<1>7. cmd' \in Command
  BY BlocksAndPoints DEF CancelMotion, TypeOK
<1>8. /\ braking' \in BOOLEAN /\ stopping' \in BOOLEAN
      /\ UNCHANGED <<ack, rpm, entryCutting, profile, active, advance, owns>>
  BY DEF CancelMotion, TypeOK, StopSeen
<1>9. PolledOK
  BY <1>4, <1>6, <1>7, <1>8 DEF PolledOK, TypeOK
<1>10. AskedToStop(first) \subseteq {"cancel", "stop", "reset"}
  BY DEF AskedToStop
<1>11. req' = req \cup AskedToStop(first)
  BY DEF CancelMotion
<1>12. alarm' \in {alarm, "inmotion"}
  BY DEF CancelMotion, ResetAlarm
<1>. QED
  BY <1>9, <1>10, <1>11, <1>12 DEF TypeOK

LEMMA FreshType ==
    ASSUME NEW d \in {-1, 1}
    PROVE  /\ [Fresh EXCEPT !.planDir = d] \in CycleState
           /\ [Fresh EXCEPT !.planDir = d, !.cancelRequested = TRUE] \in CycleState
           /\ Fresh \in CycleState /\ Placed([Fresh EXCEPT !.planDir = d])
           /\ ~[Fresh EXCEPT !.planDir = d].pausing /\ ~[Fresh EXCEPT !.planDir = d].internalReset
<1>1. 0 \in 0 .. Passes /\ 0 \in 0 .. PlanStarts - 1 /\ 0 \in Stage /\ 0 \in 0 .. Segments - 1
  BY PlanPoints, PlanAssumption DEF Stage
<1>2. Fresh \in CycleState
  BY <1>1 DEF Fresh, CycleState, Setup
<1>3. [Fresh EXCEPT !.planDir = d] \in CycleState
  BY <1>2 DEF CycleState
<1>4. [Fresh EXCEPT !.planDir = d, !.cancelRequested = TRUE] \in CycleState
  BY <1>2 DEF CycleState
<1>5. /\ [Fresh EXCEPT !.planDir = d].pass = 0 /\ [Fresh EXCEPT !.planDir = d].stage = 0
      /\ ~[Fresh EXCEPT !.planDir = d].pausing /\ ~[Fresh EXCEPT !.planDir = d].internalReset
  BY DEF Fresh, Setup
<1>. QED
  BY <1>2, <1>3, <1>4, <1>5, PlanAssumption DEF Placed, ToStart

(* What the first poll does, once the direction of the plan is known.      *)
Begins(c0) ==
    /\ abort => Finish(c0) /\ UNCHANGED <<core, rpm, entryCutting, stopping, advance>>
    /\ ~abort /\ stopping =>
         /\ c' = [c0 EXCEPT !.cancelRequested = TRUE]
         /\ req' = req \cup {"cancel", "reset"}
         /\ owns' = TRUE /\ profile' = TRUE /\ braking' = TRUE
         /\ UNCHANGED <<pos, queue, exec, cmd, ack, abort, alarm, rpm, entryCutting,
                        active, stopping, advance>>
    /\ ~abort /\ ~stopping =>
         /\ Emit(c0)
         /\ owns' = TRUE /\ profile' = TRUE /\ braking' = FALSE
         /\ UNCHANGED <<pos, queue, exec, req, abort, alarm, active, advance>>

LEMMA BeginsSomeWay == PollBegin => \E d \in {-1, 1} : Begins([Fresh EXCEPT !.planDir = d])
  BY DEF PollBegin, PlanDirections, Begins

LEMMA PollType ==
    ASSUME TypeInv, Poll
    PROVE  TypeInv'
<1>. USE DEF TypeInv
<1>1. Placed(c) /\ c \in CycleState
  BY DEF PassStages, Placed, TypeOK
<1>2. Placed(c') => PassStages'
  BY DEF PassStages, Placed
<1>3. EntryNoted(c) \in CycleState /\ Placed(EntryNoted(c))
  BY <1>1, EntryNotedType DEF Placed
<1>4. ASSUME PolledOK, pending' \in BOOLEAN, cutTo' \in Nat,
             UNCHANGED <<pos, queue, exec, abort>>,
             req' \subseteq {"cancel", "stop", "reset"},
             alarm' \in {"none", "fault", "inmotion", "stall"}
      PROVE  TypeInv'
  BY <1>2, <1>4 DEF PolledOK, TypeOK
<1>5. CASE PollAlarm \/ PollAborted
  <2>1. /\ Finish(c) /\ cutTo' = 0
        /\ UNCHANGED <<core, rpm, entryCutting, pending, stopping, advance>>
    BY <1>5 DEF PollAlarm, PollAborted
  <2>2. PolledOK
    BY <1>1, <2>1 DEF Finish, PolledOK, TypeOK, PausedCut, core
  <2>. QED
    BY <1>4, <2>1, <2>2 DEF TypeOK, core
<1>6. CASE PollCancel
  <2>. DEFINE noted == EntryNoted(c)
              paused == noted.pausing \/ (~StopSeen /\ CutInterrupted(noted))
              c0 == [noted EXCEPT !.pausing = paused]
  <2>1. StopSeen \/ paused
    BY <1>6 DEF PollCancel
  <2>2. CancelMotion(c0) /\ UNCHANGED pending
    BY <1>6 DEF PollCancel
  <2>3. paused \in BOOLEAN
    BY <1>3 DEF CycleState
  <2>4. noted.internalReset => paused
    BY <1>1, EntryNotedType DEF PausedCut
  <2>5. paused => noted.stage = Cut
    BY <1>1, EntryNotedType DEF PausedCut, CutInterrupted
  <2>. HIDE DEF paused
  <2>6. c0 \in CycleState
    BY <1>3, <2>3 DEF CycleState
  <2>7. /\ c0.pass = noted.pass /\ c0.stage = noted.stage /\ c0.pausing = paused
        /\ c0.internalReset = noted.internalReset
    BY <1>3 DEF CycleState
  <2>. HIDE DEF c0, noted
  <2>8. Placed(c0)
    BY <1>3, <2>7 DEF Placed, noted
  <2>9. /\ PolledOK /\ req' \subseteq {"cancel", "stop", "reset"}
        /\ alarm' \in {"none", "fault", "inmotion", "stall"}
    BY <2>1, <2>2, <2>4, <2>5, <2>6, <2>7, <2>8, CancelType
  <2>10. UNCHANGED <<pos, queue, exec, abort, cutTo>>
    BY <2>2 DEF CancelMotion
  <2>. QED
    BY <1>4, <2>2, <2>9, <2>10 DEF TypeOK
<1>7. CASE PollProceed
  <2>1. Proceed(EntryNoted(c)) /\ ~EntryNoted(c).pausing /\ ~EntryNoted(c).internalReset
    BY <1>1, <1>7, EntryNotedType DEF PollProceed, PausedCut
  <2>2. PolledOK
    BY <1>3, <2>1, ProceedType
  <2>3. cutTo' \in Nat
    <3>1. c'.pass < Passes => c'.pass \in PassIndex
      BY <2>2, PlanAssumption DEF PolledOK, CycleState, PassIndex
    <3>. QED
      BY <1>7, <3>1, PlanPoints DEF PollProceed, Retold, TypeOK
  <2>4. UNCHANGED <<pos, queue, exec, req, abort, alarm, pending>>
    BY <1>7 DEF PollProceed, Proceed
  <2>. QED
    BY <1>4, <2>2, <2>3, <2>4 DEF TypeOK
<1>8. 0 \in PassIndex /\ Approach(0) \in Nat
  BY PlanPoints, PlanAssumption DEF PassIndex
<1>9. CASE PollRefuse
  <2>1. Fresh.pass = 0 /\ Fresh.stage = 0 /\ ~Fresh.pausing /\ ~Fresh.internalReset
    BY DEF Fresh, Setup
  <2>2. Placed(Fresh) /\ Fresh \in CycleState
    BY <2>1, FreshType, PlanAssumption DEF Placed, ToStart
  <2>3. Finish(Fresh) /\ UNCHANGED <<core, rpm, entryCutting, stopping, advance>>
    BY <1>9 DEF PollRefuse
  <2>4. PolledOK
    BY <2>1, <2>2, <2>3 DEF Finish, PolledOK, TypeOK, PausedCut, core
  <2>. QED
    BY <1>4, <1>8, <1>9, <2>3, <2>4 DEF TypeOK, core, PollRefuse
<1>10. CASE PollBegin
  <2>0. PICK d \in {-1, 1} : Begins([Fresh EXCEPT !.planDir = d])
    BY <1>10, BeginsSomeWay
  <2>. DEFINE c0 == [Fresh EXCEPT !.planDir = d]
  <2>1. /\ c0 \in CycleState /\ Placed(c0) /\ ~c0.pausing /\ ~c0.internalReset
        /\ [Fresh EXCEPT !.planDir = d, !.cancelRequested = TRUE] \in CycleState
    BY FreshType
  <2>2. [c0 EXCEPT !.cancelRequested = TRUE] = [Fresh EXCEPT !.planDir = d, !.cancelRequested = TRUE]
    BY DEF Fresh
  <2>3. pending' = FALSE /\ cutTo' \in Nat
    BY <1>8, <1>10 DEF PollBegin
  <2>4. CASE abort
    <3>1. Finish(c0) /\ UNCHANGED <<core, rpm, entryCutting, stopping, advance>>
      BY <2>0, <2>4 DEF Begins
    <3>. HIDE DEF c0
    <3>2. PolledOK
      BY <2>1, <3>1 DEF Finish, PolledOK, TypeOK, PausedCut, core
    <3>. QED
      BY <1>4, <2>3, <3>1, <3>2 DEF TypeOK, core
  <2>5. CASE ~abort /\ stopping
    <3>1. /\ c' = [c0 EXCEPT !.cancelRequested = TRUE]
          /\ req' = req \cup {"cancel", "reset"}
          /\ owns' = TRUE /\ profile' = TRUE /\ braking' = TRUE
          /\ UNCHANGED <<pos, queue, exec, cmd, ack, abort, alarm, rpm, entryCutting,
                         active, stopping, advance>>
      BY <2>0, <2>5 DEF Begins
    <3>2. c'.pass = c0.pass /\ c'.stage = c0.stage /\ ~c'.pausing /\ ~c'.internalReset
      BY <2>1, <3>1 DEF Fresh
    <3>3. c' \in CycleState
      BY <2>1, <2>2, <3>1
    <3>. HIDE DEF c0
    <3>4. Placed(c') /\ PausedCut'
      BY <2>1, <3>2 DEF Placed, PausedCut
    <3>5. PolledOK
      BY <3>1, <3>3, <3>4 DEF PolledOK, TypeOK
    <3>. QED
      BY <1>4, <2>3, <3>1, <3>5 DEF TypeOK
  <2>6. CASE ~abort /\ ~stopping
    <3>1. /\ Emit(c0)
          /\ owns' = TRUE /\ profile' = TRUE /\ braking' = FALSE
          /\ UNCHANGED <<pos, queue, exec, req, abort, alarm, active, advance>>
      BY <2>0, <2>6 DEF Begins
    <3>. HIDE DEF c0
    <3>2. Same(c', c0) /\ ~c'.pausing /\ ~c'.internalReset
      BY <2>1, <3>1, EmitType DEF Same
    <3>3. PolledOK
      BY <2>1, <3>1, <3>2, EmitType DEF PolledOK, PausedCut, TypeOK
    <3>. QED
      BY <1>4, <2>3, <3>1, <3>3 DEF TypeOK
  <2>. QED
    BY <2>4, <2>5, <2>6
<1>. QED
  BY <1>5, <1>6, <1>7, <1>9, <1>10 DEF Poll

---------------------------------------------------------------------------
(* Types, and the order of the stages, are kept                            *)

LEMMA CoreResetType ==
    ASSUME TypeInv, CoreReset
    PROVE  TypeInv'
<1>. USE DEF TypeInv
<1>1. /\ CoreCleared /\ UNCHANGED <<pos, alarm, rpm, entryCutting>> /\ braking' = FALSE
      /\ cutTo' \in {cutTo, 0}
  BY DEF CoreReset
<1>2. <<>> \in Seq(Block) /\ "idle" \in ExecStates
  BY DEF ExecStates
<1>3. /\ queue' \in Seq(Block) /\ exec' \in ExecStates /\ cmd' \in Command /\ ack' = "none"
      /\ req' = {} /\ abort' = FALSE
  BY <1>1, <1>2, BlocksAndPoints DEF CoreCleared
<1>4. /\ profile' \in BOOLEAN /\ active' \in BOOLEAN /\ pending' \in BOOLEAN
      /\ stopping' \in BOOLEAN /\ owns' \in BOOLEAN /\ advance' \in BOOLEAN
  BY DEF CoreReset, TypeOK, shared
<1>5. c \in CycleState /\ Setup \in Stage
  BY DEF TypeOK, Setup, Stage
<1>6. c' \in CycleState /\ Placed(c') /\ PausedCut'
  <2>1. CASE Recovers
    <3>1. c' = Recovered
      BY <2>1 DEF CoreReset
    <3>2. c' \in CycleState
      BY <1>5, <3>1 DEF Recovered, CycleState
    <3>3. c'.stage = Setup /\ c'.pass = c.pass /\ ~c'.pausing /\ ~c'.internalReset
      BY <1>5, <3>1 DEF Recovered, CycleState
    <3>4. c.stage = Cut /\ c.pass # Passes
      BY <2>1 DEF Recovers, PausedCut, PassStages, Cut, ToStart
    <3>. QED
      BY <3>2, <3>3, <3>4 DEF Placed, PausedCut, Setup, ToStart
  <2>2. CASE ~Recovers
    <3>1. c' = [c EXCEPT !.internalReset = FALSE, !.pausing = FALSE,
                         !.recovering = FALSE, !.threadEntry = FALSE,
                         !.restartEntry = FALSE, !.waitingAck = FALSE,
                         !.cancelRequested = FALSE]
      BY <2>2 DEF CoreReset
    <3>2. c' \in CycleState
      BY <1>5, <3>1 DEF CycleState
    <3>3. c'.stage = c.stage /\ c'.pass = c.pass /\ ~c'.pausing /\ ~c'.internalReset
      BY <1>5, <3>1 DEF CycleState
    <3>. QED
      BY <3>2, <3>3 DEF Placed, PausedCut, PassStages
  <2>. QED
    BY <2>1, <2>2
<1>7. cutTo' \in Nat
  <2>1. cutTo \in Nat /\ 0 \in Nat
    BY DEF TypeOK
  <2>2. cutTo' = cutTo \/ cutTo' = 0
    BY <1>1
  <2>. QED
    BY <2>1, <2>2
<1>. QED
  BY <1>1, <1>3, <1>4, <1>6, <1>7 DEF TypeOK, PassStages, Placed

LEMMA TypeInit == Init => TypeInv
<1>. SUFFICES ASSUME Init PROVE TypeInv
  OBVIOUS
<1>. USE DEF Init, CoreInit
<1>1. Fresh.pass = 0 /\ Fresh.stage = 0 /\ ~Fresh.pausing /\ ~Fresh.internalReset
  BY DEF Fresh, Setup
<1>2. PassStages /\ PausedCut
  BY <1>1, PlanAssumption DEF PassStages, PausedCut, ToStart
<1>3. pos \in Point
  BY PlanPoints DEF Point
<1>4. c \in CycleState /\ cmd \in Command
  BY FreshType, BlocksAndPoints
<1>5. queue \in Seq(Block) /\ exec \in ExecStates /\ req \subseteq {"cancel", "stop", "reset"}
  BY DEF ExecStates
<1>6. cutTo \in Nat /\ rpm \in Rpm /\ ack = "none" /\ alarm = "none"
  OBVIOUS
<1>7. /\ abort = FALSE /\ entryCutting = FALSE /\ profile = FALSE /\ braking = FALSE
      /\ active = FALSE /\ pending = FALSE /\ stopping = FALSE /\ advance = FALSE /\ owns = FALSE
  OBVIOUS
<1>8. TypeOK
  BY <1>3, <1>4, <1>5, <1>6, <1>7 DEF TypeOK
<1>. QED
  BY <1>2, <1>8 DEF TypeInv

LEMMA TypeStep == TypeInv /\ [Next]_vars => TypeInv'
<1>. SUFFICES ASSUME TypeInv, [Next]_vars PROVE TypeInv'
  OBVIOUS
<1>1. ASSUME TypeOK', UNCHANGED c PROVE TypeInv'
  BY <1>1 DEF TypeInv, PassStages, PausedCut
<1>2. CASE Request
  BY <1>1, <1>2 DEF Request, TypeInv, TypeOK, core, spindle
<1>3. CASE Cancel
  BY <1>1, <1>3 DEF Cancel, TypeInv, TypeOK, core, spindle
<1>4. CASE Advance
  BY <1>1, <1>4 DEF Advance, TypeInv, TypeOK, core, spindle
<1>5. CASE UserReset
  <2>1. <<>> \in Seq(Block) /\ "idle" \in ExecStates
    BY DEF ExecStates
  <2>2. alarm' \in {alarm, "fault"} /\ stopping' \in BOOLEAN
    BY <1>5 DEF UserReset, ResetAlarm, TypeInv, TypeOK
  <2>. QED
    BY <1>1, <1>5, <2>1, <2>2 DEF UserReset, TypeInv, TypeOK, spindle
<1>6. CASE Unlock
  BY <1>1, <1>6 DEF Unlock, TypeInv, TypeOK, shared, spindle
<1>7. CASE ParseStep
  BY <1>1, <1>7, ParseType DEF ParseStep, TypeInv
<1>8. CASE StepPulseCuts
  BY <1>1, <1>8, StepPulseType DEF StepPulseCuts, TypeInv
<1>9. CASE CoreStep /\ UNCHANGED <<shared, c, cutTo>>
  BY <1>1, <1>9, CoreStepType DEF TypeInv
<1>10. CASE UNCHANGED vars
  BY <1>1, <1>10 DEF vars, core, spindle, shared, TypeInv, TypeOK
<1>. QED
  BY <1>2, <1>3, <1>4, <1>5, <1>6, <1>7, <1>8, <1>9, <1>10, PollType, CoreResetType DEF Next

(* Every variable keeps its type: the poll, the resets and the recovery    *)
(* never put the cycle on a pass, start, chord or stage outside its plan.  *)
THEOREM TypeSafety == Spec => []TypeOK
<1>1. TypeInv => TypeOK
  BY DEF TypeInv
<1>. QED
  BY TypeInit, TypeStep, <1>1, PTL DEF Spec

---------------------------------------------------------------------------
(* STOP is final                                                           *)

LEMMA StopStep ==
    ASSUME TypeOK, [Next]_vars, active, stopping
    PROVE  /\ stopping' \/ ~active'
           /\ cmd' \in {cmd, NoCommand, [cmd EXCEPT !.executing = TRUE]}
<1>1. CASE Request \/ Cancel \/ Advance \/ UserReset \/ Unlock
  BY <1>1 DEF Request, Cancel, Advance, UserReset, Unlock, core, shared
<1>2. CASE Poll
  <2>1. CASE PollAlarm \/ PollAborted \/ PollRefuse
    BY <2>1 DEF PollAlarm, PollAborted, PollRefuse, Finish, core
  <2>2. CASE PollCancel
    BY <2>2 DEF PollCancel, CancelMotion, StopSeen
  <2>3. CASE PollProceed
    BY <2>3 DEF PollProceed, StopSeen
  <2>4. CASE PollBegin
    BY <2>4 DEF PollBegin, Finish, core
  <2>. QED
    BY <1>2, <2>1, <2>2, <2>3, <2>4 DEF Poll
<1>3. CASE CoreReset
  BY <1>3 DEF CoreReset, Recovers, CoreCleared
<1>4. CASE ParseStep
  BY <1>4 DEF ParseStep, Parse, ParseWord, ParseMove, ParseSync, QueueEntry, RefuseEntry,
              Refuse, Parsed, shared
<1>5. CASE StepPulseCuts
  BY <1>5 DEF StepPulseCuts, StepPulse, shared
<1>6. CASE CoreStep /\ UNCHANGED <<shared, c, cutTo>>
  BY <1>6 DEF CoreStep, shared, core, ReportSynchronized, Parsed, CycleStart, IndexFound, BlockDone,
              CycleComplete, MotionCancel, Stopped, FeedHold, ExecuteReset, Fault,
              SpindleFault, SpindleTurns
<1>7. CASE UNCHANGED vars
  BY <1>7 DEF vars, shared, core
<1>. QED
  BY <1>1, <1>2, <1>3, <1>4, <1>5, <1>6, <1>7 DEF Next

(* STOP is final: from lathe_cycle_cancel() on, no step withdraws it and   *)
(* none submits a further command until the operation is over.             *)
THEOREM StopSafety == Spec => StopIsFinal
<1>1. TypeOK /\ [Next]_vars =>
        [active /\ stopping =>
          /\ stopping' \/ ~active'
          /\ cmd' \in {cmd, NoCommand, [cmd EXCEPT !.executing = TRUE]}]_vars
  BY StopStep
<1>. QED
  BY TypeSafety, <1>1, PTL DEF Spec, StopIsFinal

---------------------------------------------------------------------------
(* Who asked for a reset                                                   *)

LEMMA ResetPoll ==
    ASSUME TypeInv, ResetInv, Poll
    PROVE  ResetInv' /\ (active /\ ~active' => pending \/ c.pass = Passes \/ stopping \/ alarm # "none")
<1>. USE DEF TypeInv, ResetInv
<1>1. CASE PollAlarm
  BY <1>1 DEF PollAlarm, Finish, core, StoppedByReset, ResetIsOwned
<1>2. CASE PollAborted
  BY <1>2 DEF PollAborted, ResetEndsCycle, Finish, core, StoppedByReset, ResetIsOwned
<1>3. CASE PollCancel
  <2>. DEFINE noted == EntryNoted(c)
              paused == noted.pausing \/ (~StopSeen /\ CutInterrupted(noted))
              c0 == [noted EXCEPT !.pausing = paused]
              first == ~c0.cancelRequested
              asked == AskedToStop(first)
  <2>1. /\ active /\ ~pending /\ ~abort /\ alarm = "none"
        /\ CancelMotion(c0) /\ UNCHANGED pending
    BY <1>3 DEF PollCancel
  <2>2. /\ "reset" \in asked => exec = "idle"
        /\ asked \cap {"reset", "stop"} # {} => exec \in {"wait", "idle"}
    BY DEF AskedToStop
  <2>3. UNCHANGED <<active, pending, abort, alarm>>
    BY <2>1, <2>2 DEF CancelMotion, ResetAlarm, Moving
  <2>4. req' = req \cup asked /\ stopping' = StopSeen
    BY <2>1 DEF CancelMotion
  <2>5. noted \in CycleState /\ noted.internalReset = c.internalReset
    BY EntryNotedType DEF TypeOK
  <2>. HIDE DEF noted, asked
  <2>6. c'.internalReset = IF exec \in {"wait", "idle"} THEN ~StopSeen ELSE c.internalReset
    BY <2>1, <2>5 DEF CancelMotion, CycleState
  <2>7. stopping => StopSeen
    BY DEF StopSeen
  <2>8. req' \cap {"reset", "stop"} # {} => stopping' \/ c'.internalReset
    BY <2>1, <2>2, <2>4, <2>6, <2>7 DEF ResetIsOwned
  <2>. QED
    BY <2>1, <2>3, <2>8 DEF StoppedByReset, ResetIsOwned
<1>4. CASE PollProceed
  <2>1. /\ active /\ ~pending /\ ~abort /\ alarm = "none" /\ ~stopping
        /\ ~EntryNoted(c).pausing /\ Proceed(EntryNoted(c)) /\ UNCHANGED pending
    BY <1>4 DEF PollProceed, StopSeen
  <2>2. UNCHANGED <<req, abort, alarm>>
    BY <2>1 DEF Proceed
  <2>3. ~c.internalReset
    BY <2>1, EntryNotedType DEF TypeOK, PausedCut
  <2>4. req \cap {"reset", "stop"} = {}
    BY <2>1, <2>3 DEF ResetIsOwned
  <2>5. ~active' => c.pass = Passes
    <3>1. EntryNoted(c).stage = c.stage /\ c.stage \in Stage
      BY EntryNotedType DEF TypeOK, CycleState
    <3>2. ~active' => c.stage = LastStage
      BY <2>1, <3>1 DEF Proceed, Rejected, Completed
    <3>. QED
      BY <3>1, <3>2 DEF PassStages, LastStage, ToStart
  <2>. QED
    BY <2>1, <2>2, <2>4, <2>5 DEF StoppedByReset, ResetIsOwned
<1>5. CASE PollRefuse
  BY <1>5 DEF PollRefuse, Finish, core, StoppedByReset, ResetIsOwned
<1>6. CASE PollBegin
  <2>1. active /\ pending /\ ~pending' /\ alarm = "none" /\ UNCHANGED <<abort, alarm>>
    BY <1>6 DEF PollBegin, Idle, core
  <2>2. CASE abort
    BY <1>6, <2>1, <2>2 DEF PollBegin, Finish, core, StoppedByReset, ResetIsOwned
  <2>3. CASE ~abort
    BY <1>6, <2>1, <2>3 DEF PollBegin, StoppedByReset, ResetIsOwned
  <2>. QED
    BY <2>2, <2>3
<1>. QED
  BY <1>1, <1>2, <1>3, <1>4, <1>5, <1>6 DEF Poll

LEMMA ResetStep ==
    ASSUME TypeInv, ResetInv, [Next]_vars
    PROVE  ResetInv' /\ (active /\ ~active' => pending \/ c.pass = Passes \/ stopping \/ alarm # "none")
<1>. USE DEF ResetInv, StoppedByReset, ResetIsOwned
<1>1. CASE Request \/ Cancel \/ Advance
  BY <1>1 DEF Request, Cancel, Advance, core
<1>2. CASE UserReset
  BY <1>2 DEF UserReset
<1>3. CASE Unlock
  BY <1>3 DEF Unlock, shared
<1>4. CASE CoreReset
  BY <1>4 DEF CoreReset, CoreCleared, Recovers, shared
<1>5. CASE ParseStep
  BY <1>5 DEF ParseStep, Parse, shared
<1>6. CASE StepPulseCuts
  BY <1>6 DEF StepPulseCuts, StepPulse, shared
<1>7. CASE CoreStep /\ UNCHANGED <<shared, c, cutTo>>
  <2>1. CASE ReportSynchronized \/ CycleStart \/ IndexFound \/ BlockDone \/ Stopped \/ FeedHold
    BY <1>7, <2>1 DEF shared, Idle, ReportSynchronized, CycleStart, IndexFound, BlockDone, Stopped, FeedHold
  <2>2. CASE CycleComplete
    BY <1>7, <2>2 DEF shared, CycleComplete
  <2>3. CASE MotionCancel
    BY <1>7, <2>3 DEF shared, MotionCancel
  <2>4. CASE ExecuteReset \/ Fault \/ SpindleFault
    BY <1>7, <2>4 DEF shared, ExecuteReset, Fault, SpindleFault
  <2>5. CASE SpindleTurns
    BY <1>7, <2>5 DEF shared, core, SpindleTurns
  <2>. QED
    BY <1>7, <2>1, <2>2, <2>3, <2>4, <2>5 DEF CoreStep
<1>8. CASE UNCHANGED vars
  BY <1>8 DEF vars, core, shared
<1>. QED
  BY <1>1, <1>2, <1>3, <1>4, <1>5, <1>6, <1>7, <1>8, ResetPoll DEF Next

LEMMA ResetInit == Init => ResetInv
  BY DEF Init, CoreInit, ResetInv, StoppedByReset, ResetIsOwned

LEMMA ResetSafety == Spec => [](TypeInv /\ ResetInv)
  BY TypeInit, TypeStep, ResetInit, ResetStep, PTL DEF Spec

(* An operation ends when it is refused, complete or stopped, or by a      *)
(* fault: no reset of its own, no recovery and no stop of the spindle ends *)
(* it, because a reset that finds no stop and no alarm is always its own.  *)
THEOREM EndSafety == Spec => EndsForAReason
<1>1. TypeInv /\ ResetInv /\ [Next]_vars =>
        [active /\ ~active' => pending \/ c.pass = Passes \/ stopping \/ alarm # "none"]_vars
  BY ResetStep
<1>. QED
  BY ResetSafety, <1>1, PTL DEF Spec, EndsForAReason

---------------------------------------------------------------------------
(* Synchronized motion belongs to a running operation                      *)

LEMMA NotSynchronized ==
    ASSUME cmd' = NoCommand, queue' = <<>>
    PROVE  ~Synchronized'
  BY DEF Synchronized, NoCommand

LEMMA ProfilePoll ==
    ASSUME TypeInv, ResetInv, ProfileInv, Poll
    PROVE  ProfileInv'
<1>. USE DEF ProfileInv, SynchronizedInProfile, NoOwnAlarm
<1>1. CASE PollAlarm
  <2>1. /\ active' = FALSE /\ UNCHANGED <<core, pending>>
        /\ ~abort => cmd = NoCommand /\ queue = <<>>
    BY <1>1 DEF PollAlarm, Finish, ResetInv, StoppedByReset
  <2>2. UNCHANGED <<cmd, queue, abort, ack, alarm>>
    BY <2>1 DEF core
  <2>. QED
    BY <2>1, <2>2, NotSynchronized
<1>2. CASE PollAborted
  BY <1>2 DEF PollAborted, Finish, core
<1>3. CASE PollCancel
  <2>1. /\ active /\ ~pending /\ ~abort /\ profile
        /\ UNCHANGED <<pending, active, profile, ack, queue>>
        /\ cmd' \in {cmd, NoCommand}
    BY <1>3 DEF PollCancel, CancelMotion
  <2>2. alarm' = alarm
    BY <1>3 DEF PollCancel, CancelMotion, ResetAlarm, AskedToStop, Moving
  <2>. QED
    BY <2>1, <2>2
<1>4. CASE PollProceed
  <2>. DEFINE c0 == EntryNoted(c)
  <2>1. /\ active /\ ~pending /\ ~abort /\ profile
        /\ Proceed(c0) /\ UNCHANGED <<pending, queue, abort, alarm>>
    BY <1>4 DEF PollProceed, Proceed
  <2>2. c0 \in CycleState /\ Placed(c0)
    BY EntryNotedType DEF TypeInv, TypeOK, PassStages, Placed
  <2>. HIDE DEF c0
  <2>3. ack' # "none" => cmd' = NoCommand
    <3>1. ASSUME NEW c1 \in CycleState, Placed(c1), Emit(c1)
          PROVE  (cmd' = cmd /\ ack' = ack) \/ ack' = "none"
      BY <3>1, EmitType DEF TypeInv
    <3>2. CASE Completed(c0)
      <4>1. CASE ChordsLeft(c0)
        <5>1. Emit(NextChord([c0 EXCEPT !.waitingAck = FALSE]))
          BY <3>2, <4>1 DEF Completed
        <5>2. Placed(NextChord([c0 EXCEPT !.waitingAck = FALSE]))
          BY <2>2, <4>1, NextChordType
             DEF Same, Placed, ChordsLeft, Cut, InfeedStage, Register, ToStart
        <5>. QED
          BY <2>2, <3>1, <4>1, <5>1, <5>2, NextChordType
      <4>2. CASE ~ChordsLeft(c0) /\ (~Idle \/ c0.stage = LastStage)
        BY <3>2, <4>2 DEF Completed
      <4>3. CASE ~ChordsLeft(c0) /\ Idle /\ c0.stage # LastStage
        <5>. DEFINE c1 == [c0 EXCEPT !.waitingAck = FALSE]
        <5>1. Emit(AfterStage(c1))
          BY <3>2, <4>3 DEF Completed
        <5>2. c1 \in CycleState /\ c1.stage = c0.stage /\ Placed(c1)
          BY <2>2, AckChange DEF CycleState, Same, Placed
        <5>. HIDE DEF c1
        <5>3. AfterStage(c1) \in CycleState /\ Placed(AfterStage(c1))
          BY <4>3, <5>2, AfterStageType DEF TypeInv, TypeOK
        <5>. QED
          BY <3>1, <5>1, <5>3
      <4>. QED
        BY <4>1, <4>2, <4>3
    <3>3. CASE Rejected(c0)
      BY <3>3 DEF Rejected
    <3>4. CASE Emit(c0)
      BY <2>2, <3>1, <3>4
    <3>. QED
      BY <2>1, <3>2, <3>3, <3>4 DEF Proceed, TypeInv, TypeOK
  <2>4. CASE active'
    <3>1. profile'
      BY <2>1, <2>4 DEF Proceed, Rejected, Completed, Finish, spindle
    <3>. QED
      BY <2>1, <2>3, <2>4, <3>1
  <2>5. CASE ~active'
    <3>1. Completed(c0) /\ Idle /\ c0.waitingAck /\ ack = "ok" /\ c0.stage = LastStage
          /\ ~ChordsLeft(c0)
      BY <2>1, <2>5 DEF Proceed, Rejected, Completed
    <3>2. cmd' = NoCommand /\ queue' = <<>>
      BY <2>1, <3>1 DEF Completed, Idle
    <3>. QED
      BY <2>1, <2>3, <2>5, <3>2, NotSynchronized
  <2>. QED
    BY <2>4, <2>5
<1>5. CASE PollRefuse
  BY <1>5 DEF PollRefuse, Finish, core, Synchronized
<1>6. CASE PollBegin
  <2>1. /\ active /\ pending /\ ~pending' /\ cmd = NoCommand
        /\ UNCHANGED <<abort, alarm, queue>>
    BY <1>6 DEF PollBegin, core
  <2>2. CASE abort
    BY <1>6, <2>1, <2>2 DEF PollBegin, Finish, core
  <2>3. CASE ~abort /\ stopping
    BY <1>6, <2>1, <2>3 DEF PollBegin
  <2>4. CASE ~abort /\ ~stopping
    <3>0. PICK d \in {-1, 1} : Begins([Fresh EXCEPT !.planDir = d])
      BY <1>6, BeginsSomeWay
    <3>. DEFINE c0 == [Fresh EXCEPT !.planDir = d]
    <3>1. Emit(c0) /\ profile' /\ active'
      BY <2>1, <2>4, <3>0 DEF Begins
    <3>2. c0 \in CycleState /\ Placed(c0)
      BY FreshType
    <3>. HIDE DEF c0
    <3>3. (cmd' = cmd /\ ack' = ack) \/ ack' = "none"
      BY <3>1, <3>2, EmitType DEF TypeInv
    <3>. QED
      BY <2>1, <3>1, <3>3
  <2>. QED
    BY <2>2, <2>3, <2>4
<1>. QED
  BY <1>1, <1>2, <1>3, <1>4, <1>5, <1>6 DEF Poll

(* The parser makes synchronized blocks only from synchronized commands.   *)
LEMMA ProfileParse ==
    ASSUME TypeInv, ProfileInv, ParseStep
    PROVE  ProfileInv'
<1>. USE DEF ProfileInv, SynchronizedInProfile, NoOwnAlarm
<1>1. UNCHANGED <<active, pending, profile, abort, alarm>>
  BY DEF ParseStep, Parse, shared
<1>2. ack' # "none" => cmd' = NoCommand
  BY DEF ParseStep, Parse, ParseWord, ParseMove, ParseSync, QueueEntry, RefuseEntry,
         Refuse, Parsed, NoCommand
<1>3. ASSUME NEW kind \in {"rapid", "feed"}, queue' = Planned(kind), cmd' = NoCommand, Synchronized'
      PROVE  Synchronized
  <2>1. queue \in Seq(Block)
    BY DEF TypeInv, TypeOK
  <2>2. PICK i \in DOMAIN queue' : queue'[i].kind \in {"sync", "thread"}
    BY <1>3 DEF Synchronized, NoCommand
  <2>3. CASE queue' = queue
    BY <2>2, <2>3 DEF Synchronized
  <2>4. CASE queue' = Append(queue, [kind |-> kind, to |-> cmd.to])
    <3>1. i \in DOMAIN queue /\ queue'[i] = queue[i]
      BY <2>1, <2>2, <2>4
    <3>. QED
      BY <2>2, <3>1 DEF Synchronized
  <2>. QED
    BY <1>3, <2>3, <2>4 DEF Planned
<1>4. Synchronized' => Synchronized
  <2>1. CASE ParseWord \/ RefuseEntry(EntryAllowed) \/ Refuse
    BY <2>1 DEF ParseWord, RefuseEntry, Refuse, Parsed, Synchronized, NoCommand
  <2>2. CASE ParseMove
    <3>1. cmd' = NoCommand /\ (queue' = Planned("rapid") \/ queue' = Planned("feed"))
      BY <2>2 DEF ParseMove, Parsed
    <3>. QED
      BY <1>3, <3>1
  <2>3. CASE ParseSync \/ QueueEntry(EntryAllowed)
    BY <2>3 DEF ParseSync, QueueEntry, Synchronized
  <2>. QED
    BY <2>1, <2>2, <2>3 DEF ParseStep, Parse
<1>. QED
  BY <1>1, <1>2, <1>4

LEMMA ProfileStep ==
    ASSUME TypeInv, ResetInv, ProfileInv, [Next]_vars
    PROVE  ProfileInv'
<1>. USE DEF ProfileInv, SynchronizedInProfile, NoOwnAlarm
<1>1. CASE Request
  BY <1>1 DEF Request, core, spindle, Synchronized
<1>2. CASE Cancel \/ Advance
  BY <1>2 DEF Cancel, Advance, core, spindle, Synchronized
<1>3. CASE UserReset
  BY <1>3 DEF UserReset, ResetAlarm, spindle
<1>4. CASE Unlock
  BY <1>4 DEF Unlock, shared, spindle, Synchronized
<1>5. CASE CoreReset
  <2>1. /\ cmd' = NoCommand /\ queue' = <<>> /\ ack' = "none" /\ UNCHANGED alarm
        /\ active' /\ ~pending' => profile'
    BY <1>5 DEF CoreReset, CoreCleared
  <2>. QED
    BY <2>1, NotSynchronized
<1>6. CASE StepPulseCuts
  BY <1>6 DEF StepPulseCuts, StepPulse, shared, spindle, Synchronized
<1>7. CASE CoreStep /\ UNCHANGED <<shared, c, cutTo>>
  <2>1. UNCHANGED <<active, pending>>
    BY <1>7 DEF shared
  <2>2. CASE ReportSynchronized
    BY <2>1, <2>2, NotSynchronized DEF ReportSynchronized, Parsed, Idle, spindle
  <2>3. CASE CycleStart \/ IndexFound \/ Stopped \/ FeedHold
    BY <2>1, <2>3 DEF CycleStart, IndexFound, Stopped, FeedHold, spindle, Synchronized
  <2>4. CASE BlockDone
    <3>1. /\ queue' = Tail(queue) /\ queue # <<>>
          /\ UNCHANGED <<cmd, ack, abort, alarm, profile>>
      BY <2>4 DEF BlockDone
    <3>2. queue \in Seq(Block)
      BY DEF TypeInv, TypeOK
    <3>3. \A i \in DOMAIN queue' : i + 1 \in DOMAIN queue /\ queue'[i] = queue[i + 1]
      BY <3>1, <3>2
    <3>. QED
      BY <2>1, <3>1, <3>3 DEF Synchronized
  <2>5. CASE CycleComplete \/ MotionCancel
    <3>1. /\ queue' = queue \/ queue' = <<>>
          /\ UNCHANGED <<cmd, ack, abort, alarm, profile>>
      BY <2>5 DEF CycleComplete, MotionCancel, spindle
    <3>. QED
      BY <2>1, <3>1 DEF Synchronized
  <2>6. CASE ExecuteReset \/ Fault
    BY <2>1, <2>6 DEF ExecuteReset, Fault, spindle
  <2>7. CASE SpindleFault
    <3>1. exec # "idle" /\ ~profile /\ queue # <<>> /\ Head(queue).kind \in {"sync", "thread"}
      BY <2>7 DEF SpindleFault
    <3>2. ~abort /\ queue \in Seq(Block)
      BY <3>1 DEF ResetInv, StoppedByReset, TypeInv, TypeOK
    <3>3. 1 \in DOMAIN queue /\ queue[1] = Head(queue)
      BY <3>1, <3>2
    <3>4. Synchronized
      BY <3>1, <3>3 DEF Synchronized
    <3>. QED
      BY <3>1, <3>2, <3>4
  <2>8. CASE SpindleTurns
    BY <2>1, <2>8 DEF SpindleTurns, core, Synchronized
  <2>. QED
    BY <1>7, <2>2, <2>3, <2>4, <2>5, <2>6, <2>7, <2>8 DEF CoreStep
<1>8. CASE UNCHANGED vars
  BY <1>8 DEF vars, core, spindle, shared, Synchronized
<1>. QED
  BY <1>1, <1>2, <1>3, <1>4, <1>5, <1>6, <1>7, <1>8, ProfilePoll, ProfileParse DEF Next

(* An interrupted cut never ends in an alarm of the cycle's own making:    *)
(* its reset never meets a moving axis, and under a running operation the  *)
(* synchronization fault of lathe_spindle_poll() stays off.                *)
THEOREM AlarmSafety == Spec => []NoOwnAlarm
<1>1. Init => ProfileInv
  BY DEF Init, CoreInit, ProfileInv, SynchronizedInProfile, NoOwnAlarm, Synchronized, NoCommand
<1>2. ProfileInv => NoOwnAlarm
  BY DEF ProfileInv
<1>. QED
  BY ResetSafety, ProfileStep, <1>1, <1>2, PTL DEF Spec

-----------------------------------------------------------------------------
(* The path of the tool.  Every formula is stated for the statics c0 of    *)
(* the cycle, so that a poll can be followed from c through EntryNoted(c)  *)
(* to the c' it leaves.                                                    *)

Work == active /\ ~pending
Queued == cmd.kind # "none" /\ ~cmd.executing

\* The starting station of a pass, clear of the work.
Home(p) == [cut |-> Approach(p), depth |-> Clearance]

RapidStages == {RetractFirst, ToTakeup, ToApproach, InfeedStage, Retract, Return, TakeUpAgain,
                ToStart, FinishInfeed}
CutStages == {Register, SpindleOn, Cut}

\* Commands and motion belong to a working operation, and so do the requests
\* of a cancellation, which does not end before a reset.
Outside ==
    /\ ~abort /\ (queue # <<>> \/ cmd # NoCommand) => Work
    /\ exec = "wait" => queue # <<>>
    /\ exec # "idle" => Work
Requests(c0) ==
    /\ ~abort /\ req # {} => Work /\ c0.cancelRequested
    /\ exec \in {"decel", "halted"} => c0.cancelRequested
    /\ Work /\ c0.cancelRequested => stopping \/ c0.pausing

\* How the flags of a thread's entry and of a recovery go together.
Flags(c0) ==
    /\ c0.threadEntry => Indexed
    /\ Work /\ c0.recovering => c0.stage = Setup
    /\ Work /\ (c0.cancelRequested \/ c0.recovering) /\ c0.threadEntry => c0.restartEntry
    /\ c0.internalReset => c0.cancelRequested
    /\ c0.threadEntry /\ (c0.stage \in {SpindleOn, Cut} \/ (c0.stage = Register /\ c0.waitingAck))
           => ~c0.reverseCut
    /\ c0.waitingAck /\ c0.stage = InfeedStage => ~Indexed

\* Where the tool has to be when the command of a stage is submitted, and
\* where that command takes it.
At(c0, p) ==
    /\ c0.stage \in {ToTakeup, ToApproach, Return, TakeUpAgain, ToStart} => p.depth = Clearance
    /\ c0.stage = InfeedStage => p = Home(c0.pass)
    /\ c0.stage \in CutStages /\ c0.threadEntry => p = Home(c0.pass)
Reached(c0, p) ==
    /\ c0.stage \in {RetractFirst, ToTakeup, Retract, Return} => p.depth = Clearance
    /\ c0.stage \in {ToApproach, TakeUpAgain} => p = Home(c0.pass)
    /\ c0.stage = InfeedStage => p = [cut |-> Approach(c0.pass), depth |-> Infeed(c0.pass)]
    /\ c0.stage = Cut /\ ~c0.reverseCut /\ ~ChordsLeft(c0) => p.cut = Endpoint(c0.pass)

\* The command is the one of the stage; only a chord of an ellipse is
\* submitted while the tool still moves.
CommandFits(c0) ==
    /\ cmd # NoCommand /\ ~abort => c0.waitingAck /\ ack = "none"
    /\ cmd.executing /\ ~abort => Indexed /\ c0.stage = Cut /\ cmd.kind \in {"sync", "entry"}
    /\ Queued /\ ~abort =>
         /\ cmd.kind = CommandKind(c0) /\ cmd.to = Target(c0)
         /\ ~c0.cancelRequested
         /\ queue = <<>> \/ (Ellipse /\ c0.stage = Cut)
         /\ At(c0, pos)

\* So are the blocks of the planner.
RapidFits(c0, to) ==
    /\ c0.stage \in RapidStages /\ c0.waitingAck
    /\ c0.stage \in {RetractFirst, Retract} => to.cut = pos.cut /\ to.depth = Clearance
    /\ c0.stage \in {ToTakeup, ToApproach, Return, TakeUpAgain, ToStart} =>
           to.depth = Clearance /\ pos.depth = Clearance
    /\ c0.stage = InfeedStage => to.cut = pos.cut /\ pos.cut = Approach(c0.pass)
    /\ c0.stage = FinishInfeed => to.cut = pos.cut
PlungeFits(c0, to) ==
    /\ c0.stage = Cut /\ c0.threadEntry /\ ~entryCutting
    /\ pos.cut = Approach(c0.pass) /\ to = [cut |-> Approach(c0.pass), depth |-> Depth(c0.pass)]
    /\ exec \in {"idle", "wait", "coast"} => pos.depth = Clearance
CutFits(c0, to) ==
    /\ c0.stage = Cut \/ (Ellipse /\ c0.stage = Register)
    /\ to.cut <= Endpoint(c0.pass)
    /\ ~Ellipse => to.depth = Depth(c0.pass)
BlocksFit(c0) ==
    /\ queue # <<>> /\ ~Ellipse => c0.waitingAck
    /\ \A i \in DOMAIN queue :
        /\ queue[i].kind = "rapid" => Len(queue) = 1 /\ RapidFits(c0, queue[i].to)
        /\ queue[i].kind = "plunge" => i = 1 /\ PlungeFits(c0, queue[i].to)
        /\ queue[i].kind \in SpindleFed =>
             /\ CutFits(c0, queue[i].to)
             /\ i = 1 /\ ~Ellipse => pos.depth = Depth(c0.pass)

\* The front of the cut lies between the ends of the pass, and the tool behind
\* it at depth; after the cut it has reached the end.
OnCut(c0) == pos.cut <= cutTo /\ (~Ellipse /\ ~c0.threadEntry => pos.depth = Depth(c0.pass))
Front(c0) ==
    /\ c0.pass < Passes => Approach(c0.pass) <= cutTo /\ cutTo <= Endpoint(c0.pass)
    /\ c0.stage \in CutStages => OnCut(c0)
    /\ c0.stage = Setup /\ c0.recovering => OnCut(c0)
    /\ c0.stage \in Retract .. TakeUpAgain => cutTo = Endpoint(c0.pass)

\* An entry waits at its home until its plunge runs, and cuts at depth.
EntryHome(c0) ==
    /\ c0.threadEntry /\ c0.stage \in {Register, SpindleOn} => pos = Home(c0.pass) /\ ~entryCutting
    /\ Work /\ c0.threadEntry /\ c0.stage = Cut /\ entryCutting => pos.depth = Depth(c0.pass)

\* Undisturbed, the planned motion ends where the stage leads.
Quiet(c0) == Work /\ ~abort /\ alarm = "none" /\ ~stopping /\ ~c0.pausing /\ exec # "hold"
Progress(c0) ==
    Quiet(c0) =>
        /\ c0.waitingAck /\ ack \in {"none", "ok"} /\ ~Queued => Reached(c0, PlannedEnd)
        /\ ~c0.waitingAck => At(c0, pos)

PathAt(c0) ==
    /\ Outside /\ Requests(c0) /\ Flags(c0) /\ CommandFits(c0) /\ BlocksFit(c0)
    /\ Work => Front(c0)
    /\ EntryHome(c0) /\ Progress(c0)
PathInv == PathAt(c)

-----------------------------------------------------------------------------
(* The plan's stations.                                                    *)

LEMMA Products ==
    ASSUME NEW a \in Nat, NEW b \in Nat, NEW k \in Nat, k <= b
    PROVE  /\ (b - k) * a + a * k = b * a
           /\ \A s \in 0 .. a : s * k <= a * k
<1>1. (b - k) * a + a * k = b * a
  OBVIOUS
<1>2. ASSUME NEW s \in 0 .. a PROVE s * k <= a * k
  <2>1. a - s \in Nat /\ (a - s) * k \in Nat
    OBVIOUS
  <2>2. (a - s) * k = a * k - s * k
    OBVIOUS
  <2>3. s * k \in Int /\ a * k \in Int
    OBVIOUS
  <2> QED
    BY <2>1, <2>2, <2>3
<1> QED
  BY <1>1, <1>2

LEMMA Stations ==
    ASSUME NEW p \in PassIndex
    PROVE  /\ Approach(p) \in Nat /\ Endpoint(p) \in Nat /\ Depth(p) \in Nat /\ Infeed(p) \in Nat
           /\ Approach(p) <= Endpoint(p)
           /\ Ellipse => \A s \in 0 .. Segments :
                  PointCut(p, s) \in Nat /\ PointCut(p, s) <= Endpoint(p)
           /\ Ellipse => PointCut(p, Segments) = Endpoint(p)
           /\ ~Ellipse => Infeed(p) = Depth(p) /\ \A q : Approach(q) = Approach(p)
           /\ Indexed => Depth(p) > Clearance /\ Approach(p) < Endpoint(p)
<1>1. /\ Approach(p) \in Nat /\ Endpoint(p) \in Nat /\ Depth(p) \in Nat /\ Infeed(p) \in Nat
      /\ \A s \in 0 .. Segments : PointCut(p, s) \in Nat
  BY PlanPoints
<1>2. p + 1 \in Nat /\ p + 1 <= Passes /\ Passes \in Nat /\ Segments \in Nat
  BY PlanAssumption DEF PassIndex
<1>3. CASE Ellipse
  <2>1. Endpoint(p) = Passes * Segments
    BY <1>3 DEF Endpoint, CutEnd, Ellipse, Parting
  <2>2. /\ (Passes - (p + 1)) * Segments + Segments * (p + 1) = Passes * Segments
        /\ \A s \in 0 .. Segments : s * (p + 1) <= Segments * (p + 1)
    BY <1>2, Products
  <2>3. PointCut(p, Segments) = Endpoint(p)
    BY <2>1, <2>2 DEF PointCut
  <2>4. ASSUME NEW s \in 0 .. Segments PROVE PointCut(p, s) <= Endpoint(p)
    <3>1. s * (p + 1) \in Int /\ (Passes - (p + 1)) * Segments \in Int /\ Segments * (p + 1) \in Int
      BY <1>2
    <3>2. s * (p + 1) <= Segments * (p + 1)
      BY <2>2
    <3> QED
      BY <2>1, <2>2, <3>1, <3>2 DEF PointCut
  <2>5. 0 \in 0 .. Segments
    BY <1>2
  <2>6. Approach(p) <= Endpoint(p)
    BY <1>3, <2>4, <2>5 DEF Approach
  <2> QED
    BY <1>1, <1>3, <2>3, <2>4, <2>6 DEF Indexed, Ellipse
<1>4. CASE ~Ellipse
  <2>1. \A q : Approach(q) = IF Indexed THEN 1 ELSE 0
    BY <1>4 DEF Approach, CutStart
  <2>2. CASE Parting
    <3>1. Endpoint(p) = (p + 1) * CutSteps
      BY <2>2 DEF Endpoint
    <3>2. ~Indexed
      BY <2>2 DEF Parting, Indexed
    <3> QED
      BY <1>1, <1>4, <2>1, <3>1, <3>2 DEF Infeed
  <2>3. CASE ~Parting
    <3>1. Endpoint(p) = CutSteps /\ Depth(p) = 1 + 1 * (p + 1)
      BY <1>4, <2>3 DEF Endpoint, CutEnd, Depth, DepthStart, DepthStep
    <3> QED
      BY <1>1, <1>2, <1>4, <2>1, <3>1, PlanAssumption DEF Infeed, Clearance
  <2> QED
    BY <2>2, <2>3
<1> QED
  BY <1>3, <1>4
-----------------------------------------------------------------------------
(* Steps of the core.                                                      *)

\* A reset or a fault leaves nothing planned: what is said of commands and
\* blocks is void, and the tool stays where it is.
LEMMA PathAborted ==
    ASSUME PathInv, abort', queue' = <<>>, exec' = "idle", UNCHANGED <<pos, c, cutTo>>,
           active' = active, pending' = pending, stopping => stopping',
           entryCutting' = entryCutting
    PROVE  PathInv'
<1>1. Outside' /\ Requests(c)' /\ Flags(c)'
  BY DEF PathInv, PathAt, Outside, Requests, Flags, Work
<1>2. CommandFits(c)' /\ BlocksFit(c)' /\ Progress(c)'
  BY DEF CommandFits, BlocksFit, Progress, Quiet, Queued
<1>3. (Work' => Front(c)') /\ EntryHome(c)'
  BY DEF PathInv, PathAt, Work, Front, OnCut, EntryHome
<1> QED
  BY <1>1, <1>2, <1>3 DEF PathInv, PathAt

\* The queue is a sequence, and so are its ends.
LEMMA QueueEnds ==
    ASSUME TypeOK, queue # <<>>
    PROVE  /\ 1 \in DOMAIN queue /\ Head(queue) = queue[1] /\ Len(queue) \in Nat \ {0}
           /\ queue[1] \in Block /\ queue[1].to \in Point
           /\ Tail(queue) \in Seq(Block) /\ Len(Tail(queue)) = Len(queue) - 1
           /\ DOMAIN queue = 1 .. Len(queue)
           /\ \A i \in DOMAIN Tail(queue) :
                  i + 1 \in DOMAIN queue /\ Tail(queue)[i] = queue[i + 1] /\ i \in Nat \ {0}
           /\ (Tail(queue) = <<>>) <=> (Len(queue) = 1)
<1>1. queue \in Seq(Block)
  BY DEF TypeOK
<1>2. Len(queue) \in Nat \ {0} /\ DOMAIN queue = 1 .. Len(queue) /\ Head(queue) = queue[1]
  BY <1>1
<1>3. queue[1] \in Block /\ queue[1].to \in Point
  <2>1. queue[1] \in Block
    BY <1>1, <1>2
  <2> QED
    BY <2>1 DEF Block
<1>4. Tail(queue) \in Seq(Block) /\ Len(Tail(queue)) = Len(queue) - 1
  BY <1>1
<1>5. \A i \in DOMAIN Tail(queue) :
         i + 1 \in DOMAIN queue /\ Tail(queue)[i] = queue[i + 1] /\ i \in Nat \ {0}
  BY <1>1, <1>2
<1>6. Tail(queue) = <<>> <=> Len(Tail(queue)) = 0
  BY <1>4, EmptySeq
<1>7. Tail(queue) = <<>> <=> Len(queue) = 1
  BY <1>2, <1>4, <1>6
<1> QED
  BY <1>2, <1>3, <1>4, <1>5, <1>7

\* A block is done: the next one starts where it ended.
LEMMA PathBlockDone ==
    ASSUME TypeOK, StoppedByReset, PathInv, BlockDone, UNCHANGED <<shared, c, cutTo>>
    PROVE  PathInv'
<1>0. queue # <<>> /\ (Tail(queue) # <<>> => Head(Tail(queue)) = Tail(queue)[1])
  <2>1. queue # <<>>
    BY DEF BlockDone
  <2>2. Tail(queue) \in Seq(Block)
    BY <2>1, QueueEnds
  <2> QED
    BY <2>1, <2>2
<1>1. /\ exec \in {"run", "decel"} /\ queue # <<>> /\ pos = queue[1].to /\ queue' = Tail(queue)
      /\ exec' = IF Tail(queue) # <<>> THEN exec ELSE IF exec = "run" THEN "coast" ELSE "halted"
      /\ entryCutting' = (entryCutting \/ (Tail(queue) # <<>> /\ Tail(queue)[1].kind = "thread"))
      /\ UNCHANGED <<pos, cmd, ack, req, abort, alarm>>
  BY <1>0, QueueEnds DEF BlockDone
<1>2. UNCHANGED <<active, pending, stopping, c, cutTo>>
  BY DEF shared
<1>3. Outside' /\ Requests(c)' /\ Flags(c)'
  BY <1>1, <1>2 DEF PathInv, PathAt, Outside, Requests, Flags, Work
<1>4. CommandFits(c)'
  BY <1>1, <1>2, QueueEnds DEF PathInv, PathAt, CommandFits, Queued, At, Target
<1>5. Tail(queue) # <<>> => Tail(queue)[1] = queue[2] /\ 2 \in DOMAIN queue /\ Len(queue) # 1
  BY <1>1, QueueEnds
<1>6. BlocksFit(c)'
  <2>1. BlocksFit(c)
    BY DEF PathInv, PathAt
  <2>2. queue' # <<>> /\ ~Ellipse => c.waitingAck
    BY <1>1, <2>1 DEF BlocksFit
  <2>3. ASSUME NEW i \in DOMAIN queue'
        PROVE  /\ queue'[i].kind \notin {"rapid", "plunge"}
               /\ queue'[i].kind \in SpindleFed =>
                    /\ CutFits(c, queue'[i].to)
                    /\ i = 1 /\ ~Ellipse => pos.depth = Depth(c.pass)
    <3>1. /\ i + 1 \in DOMAIN queue /\ queue'[i] = queue[i + 1] /\ Len(queue) # 1
          /\ i + 1 # 1
      BY <1>1, <1>5, QueueEnds
    <3>2. queue'[i].kind \notin {"rapid", "plunge"}
      BY <2>1, <3>1 DEF BlocksFit
    <3>3. queue'[i].kind \in SpindleFed => CutFits(c, queue'[i].to)
      BY <2>1, <3>1 DEF BlocksFit
    <3>4. ~Ellipse => pos.depth = Depth(c.pass)
      <4>1. queue[1].kind \in BlockKinds
        BY <1>1, QueueEnds DEF Block
      <4>2. queue[1].kind # "rapid"
        BY <1>1, <2>1, <3>1, QueueEnds DEF BlocksFit
      <4>3. queue[1].kind \in SpindleFed /\ ~Ellipse => queue[1].to.depth = Depth(c.pass)
        BY <1>1, <2>1, QueueEnds DEF BlocksFit, CutFits
      <4>4. queue[1].kind = "plunge" => queue[1].to.depth = Depth(c.pass)
        <5>1. queue[1].kind = "plunge" => PlungeFits(c, queue[1].to)
          BY <1>1, <2>1, QueueEnds DEF BlocksFit
        <5> QED
          BY <5>1 DEF PlungeFits
      <4>5. queue[1].kind \in SpindleFed \/ queue[1].kind = "plunge"
        BY <4>1, <4>2 DEF BlockKinds, SpindleFed
      <4> QED
        BY <1>1, <4>3, <4>4, <4>5
    <3> QED
      BY <3>2, <3>3, <3>4
  <2> QED
    BY <1>1, <1>2, <2>2, <2>3 DEF BlocksFit, CutFits
<1>7. Work' => Front(c)'
  BY <1>1, <1>2 DEF PathInv, PathAt, Work, Front, OnCut
<1>8. EntryHome(c)'
  <2>1. BlocksFit(c) /\ EntryHome(c) /\ Flags(c)
    BY DEF PathInv, PathAt
  <2>2. CASE entryCutting' = entryCutting
    BY <1>1, <1>2, <2>1, <2>2 DEF EntryHome, Work
  <2>3. CASE Tail(queue) # <<>> /\ queue[2].kind = "thread"
    <3>1. CutFits(c, queue[2].to) /\ (c.stage = Cut \/ (Ellipse /\ c.stage = Register))
      BY <1>5, <2>1, <2>3 DEF BlocksFit, SpindleFed, CutFits
    <3>2. Indexed /\ c.threadEntry => c.stage = Cut /\ ~Ellipse
      BY <3>1 DEF Indexed, Ellipse
    <3>3. ~Ellipse => pos.depth = Depth(c.pass)
      <4>1. Tail(queue)[1] = queue[2] /\ 1 \in DOMAIN Tail(queue)
        BY <1>0, <1>5, <2>3, QueueEnds, EmptySeq
      <4>2. BlocksFit(c)' /\ queue' = Tail(queue) /\ UNCHANGED <<pos, c>>
        BY <1>1, <1>2, <1>6
      <4> QED
        BY <2>3, <4>1, <4>2 DEF BlocksFit, SpindleFed
    <3> QED
      BY <1>1, <1>2, <2>1, <3>2, <3>3 DEF EntryHome, Flags, Register, SpindleOn, Cut
  <2> QED
    BY <1>1, <1>5, <2>2, <2>3 DEF TypeOK
<1>9. Progress(c)'
  <2>1. Quiet(c)' => Quiet(c)
    BY <1>1, <1>2 DEF Quiet, Work
  <2>2. PlannedEnd' = PlannedEnd
    BY <1>1, QueueEnds DEF PlannedEnd
  <2> QED
    BY <1>1, <1>2, <2>1, <2>2 DEF PathInv, PathAt, Progress, Queued, Reached, At
<1> QED
  BY <1>3, <1>4, <1>6, <1>7, <1>8, <1>9 DEF PathInv, PathAt

\* Starting, ending and cancelling motion moves nothing and submits nothing;
\* only a cancelled operation loses blocks that are planned.
LEMMA PathExec ==
    ASSUME TypeOK, PathInv, UNCHANGED <<pos, cmd, ack, abort, alarm, entryCutting, shared, c, cutTo>>,
           queue' = queue \/ (queue' = <<>> /\ (~abort => Work /\ c.cancelRequested)),
           req' \subseteq req,
           exec' \in {"decel", "halted"} => exec \in {"decel", "halted"} \/ (~abort => Work /\ c.cancelRequested),
           exec' \in {"decel", "halted"} /\ abort => c.cancelRequested,
           exec' = "wait" => queue' # <<>>,
           exec' # "idle" => exec # "idle" \/ Work,
           exec' \in {"idle", "wait", "coast"} /\ queue' # <<>> => exec \in {"idle", "wait", "coast"},
           exec = "hold" => exec' = "hold" \/ (~abort => Work /\ c.cancelRequested)
    PROVE  PathInv'
<1>1. UNCHANGED <<active, pending, stopping>>
  BY DEF shared
<1>2. Outside' /\ Requests(c)' /\ Flags(c)'
  BY <1>1 DEF PathInv, PathAt, Outside, Requests, Flags, Work
<1>3. CommandFits(c)'
  BY <1>1 DEF PathInv, PathAt, CommandFits, Queued, At, Target
<1>4. BlocksFit(c)'
  BY <1>1 DEF PathInv, PathAt, BlocksFit, RapidFits, PlungeFits, CutFits
<1>5. (Work' => Front(c)') /\ EntryHome(c)'
  BY <1>1 DEF PathInv, PathAt, Work, Front, OnCut, EntryHome
<1>6. Quiet(c)' => Quiet(c) /\ ~c.cancelRequested
  BY <1>1 DEF PathInv, PathAt, Requests, Quiet, Work
<1>7. Progress(c)'
  <2>1. Quiet(c)' => PlannedEnd' = PlannedEnd
    BY <1>6 DEF PlannedEnd, Quiet, Work
  <2> QED
    BY <1>1, <1>6, <2>1 DEF PathInv, PathAt, Progress, Queued, Reached, At
<1> QED
  BY <1>2, <1>3, <1>4, <1>5, <1>7 DEF PathInv, PathAt

LEMMA PathCore ==
    ASSUME TypeOK, StoppedByReset, PathInv, CoreStep, UNCHANGED <<shared, c, cutTo>>
    PROVE  PathInv'
<1>0. /\ "cancel" \in req => (~abort => Work /\ c.cancelRequested)
      /\ exec \in {"decel", "halted"} => c.cancelRequested
      /\ exec # "idle" => ~abort
      /\ queue # <<>> => (~abort => Work)
      /\ exec = "wait" => queue # <<>>
  BY DEF PathInv, PathAt, Outside, Requests, StoppedByReset
<1>1. CASE ReportSynchronized
  <2>1. /\ cmd.executing /\ ~abort /\ queue = <<>> /\ cmd' = NoCommand /\ ack' = "ok"
        /\ UNCHANGED <<pos, queue, exec, req, abort, alarm, entryCutting>>
        /\ UNCHANGED <<active, pending, stopping>>
    BY <1>1 DEF ReportSynchronized, Parsed, Idle, spindle, shared
  <2>2. c.waitingAck /\ ack = "none" /\ ~Queued /\ ~NoCommand.executing /\ cmd # NoCommand
    BY <2>1 DEF PathInv, PathAt, CommandFits, Queued, NoCommand
  <2>3. Outside' /\ Requests(c)' /\ Flags(c)'
    BY <2>1 DEF PathInv, PathAt, Outside, Requests, Flags, Work
  <2>4. CommandFits(c)' /\ BlocksFit(c)'
    BY <2>1, <2>2 DEF CommandFits, BlocksFit, Queued, NoCommand
  <2>5. (Work' => Front(c)') /\ EntryHome(c)'
    BY <2>1 DEF PathInv, PathAt, Work, Front, OnCut, EntryHome
  <2>6. Progress(c)'
    BY <2>1, <2>2 DEF PathInv, PathAt, Progress, Quiet, Work, Reached, PlannedEnd
  <2> QED
    BY <2>3, <2>4, <2>5, <2>6 DEF PathInv, PathAt
<1>2. CASE CycleStart
  BY <1>0, <1>2, PathExec DEF CycleStart, spindle
<1>3. CASE IndexFound
  BY <1>0, <1>3, PathExec DEF IndexFound, spindle
<1>4. CASE BlockDone
  BY <1>4, PathBlockDone
<1>5. CASE CycleComplete
  <2>1. /\ UNCHANGED <<pos, cmd, ack, abort, alarm, entryCutting>> /\ exec' = "idle" /\ req' \subseteq req
        /\ (queue' = queue /\ exec = "coast") \/ (queue' = <<>> /\ exec = "halted")
    BY <1>5 DEF CycleComplete, spindle
  <2>2. exec = "halted" /\ queue # <<>> => (~abort => Work /\ c.cancelRequested)
    BY <1>0
  <2> QED
    BY <1>0, <2>1, <2>2, PathExec
<1>6. CASE MotionCancel
  <2>1. /\ UNCHANGED <<pos, cmd, ack, abort, alarm, entryCutting>> /\ req' \subseteq req
        /\ queue' = queue \/ queue' = <<>>
        /\ "cancel" \in req
        /\ \/ exec' = "decel" /\ exec = "run"
           \/ exec' = "idle" /\ exec \in {"idle", "hold"} /\ (exec = "hold" => queue' = <<>>)
    BY <1>6 DEF MotionCancel, spindle
  <2> QED
    BY <1>0, <2>1, PathExec
<1>7. CASE Stopped
  BY <1>0, <1>7, PathExec DEF Stopped, spindle
<1>8. CASE FeedHold
  BY <1>0, <1>8, PathExec DEF FeedHold, spindle
<1>9. CASE ExecuteReset \/ Fault \/ SpindleFault
  <2>1. abort' /\ queue' = <<>> /\ exec' = "idle" /\ UNCHANGED <<pos, c, cutTo, spindle, shared>>
    BY <1>9 DEF ExecuteReset, Fault, SpindleFault
  <2> QED
    BY <2>1, PathAborted DEF spindle, shared
<1>10. CASE SpindleTurns
  BY <1>0, <1>10, PathExec DEF SpindleTurns, core
<1> QED
  BY <1>1, <1>2, <1>3, <1>4, <1>5, <1>6, <1>7, <1>8, <1>9, <1>10 DEF CoreStep
-----------------------------------------------------------------------------
(* The parser plans the command of the stage.                              *)

\* From where a stage starts, its command leads to where the stage ends.
LEMMA TargetReached ==
    ASSUME TypeOK, NEW c0 \in CycleState, Placed(c0), At(c0, pos)
    PROVE  Reached(c0, Target(c0))
<1> USE DEF RetractFirst, ToTakeup, ToApproach, InfeedStage, Cut, Retract, Return,
            TakeUpAgain, ToStart, FinishInfeed
<1>1. pos \in Point /\ c0.stage \in Stage /\ c0.segment \in 0 .. Segments - 1
  BY DEF TypeOK, CycleState
<1>2. c0.stage < ToStart => c0.pass \in PassIndex
  BY <1>1, PlanAssumption DEF Placed, CycleState, PassIndex, Stage
<1>3. CASE c0.stage \in {RetractFirst, Retract, ToTakeup, Return}
  BY <1>1, <1>3 DEF Target, Reached, At, Point
<1>4. CASE c0.stage \in {ToApproach, TakeUpAgain}
  <2>1. Target(c0) = [pos EXCEPT !.cut = Approach(c0.pass)] /\ pos.depth = Clearance
    BY <1>4 DEF Target, At
  <2>2. Target(c0) = Home(c0.pass)
    BY <1>1, <2>1 DEF Home, Point
  <2> QED
    BY <1>4, <2>2 DEF Reached
<1>5. CASE c0.stage = InfeedStage
  <2>1. Target(c0) = [pos EXCEPT !.depth = Infeed(c0.pass)] /\ pos = Home(c0.pass)
    BY <1>5 DEF Target, At
  <2>2. Target(c0) = [cut |-> Approach(c0.pass), depth |-> Infeed(c0.pass)]
    BY <1>1, <2>1 DEF Home, Point
  <2> QED
    BY <1>5, <2>2 DEF Reached
<1>6. CASE c0.stage = Cut /\ ~c0.reverseCut /\ ~ChordsLeft(c0)
  <2>1. CASE Ellipse
    <3>1. c0.segment + 1 = Segments
      BY <1>1, <1>6, <2>1, PlanAssumption DEF ChordsLeft
    <3>2. Target(c0).cut = PointCut(c0.pass, Segments)
      BY <1>6, <2>1, <3>1 DEF Target, Indexed, Ellipse
    <3> QED
      BY <1>2, <1>6, <2>1, <3>2, Stations DEF Reached
  <2>2. CASE ~Ellipse
    <3>1. Target(c0).cut = Endpoint(c0.pass)
      BY <1>1, <1>6, <2>2 DEF Target, Point
    <3> QED
      BY <1>6, <3>1 DEF Reached
  <2> QED
    BY <2>1, <2>2
<1> QED
  BY <1>3, <1>4, <1>5, <1>6 DEF Reached

\* The command of a cut stays within its pass.
LEMMA TargetCuts ==
    ASSUME TypeOK, NEW c0 \in CycleState, Placed(c0), c0.stage = Cut, OnCut(c0), Flags(c0)
    PROVE  CutFits(c0, Target(c0))
<1> USE DEF RetractFirst, ToTakeup, ToApproach, InfeedStage, Cut, Retract, Return,
            TakeUpAgain, ToStart, FinishInfeed
<1>1. /\ c0.pass \in PassIndex /\ c0.segment \in 0 .. Segments - 1 /\ pos \in Point
      /\ c0.pass # Passes
  BY PlanAssumption DEF Placed, CycleState, PassIndex, Cut, ToStart, TypeOK
<1>2. /\ Approach(c0.pass) \in Nat /\ Endpoint(c0.pass) \in Nat
      /\ Approach(c0.pass) <= Endpoint(c0.pass)
  BY <1>1, Stations
<1>3. CASE Ellipse
  <2> DEFINE s == IF c0.reverseCut THEN c0.segment ELSE c0.segment + 1
  <2>1. Target(c0).cut = PointCut(c0.pass, s)
    BY <1>3 DEF Target, Indexed, Ellipse
  <2>2. s \in 0 .. Segments
    BY <1>1, PlanAssumption
  <2> QED
    BY <1>1, <1>3, <2>1, <2>2, Stations DEF CutFits
<1>4. CASE ~Ellipse
  <2>1. \/ Target(c0) = [cut |-> Endpoint(c0.pass), depth |-> Depth(c0.pass)]
        \/ /\ ~c0.threadEntry
           /\ Target(c0) \in {[pos EXCEPT !.cut = Approach(c0.pass)],
                              [pos EXCEPT !.cut = Endpoint(c0.pass)]}
    BY <1>4 DEF Flags, Target
  <2>2. ~c0.threadEntry => pos.depth = Depth(c0.pass)
    BY <1>4 DEF OnCut
  <2>3. Target(c0).cut \in {Approach(c0.pass), Endpoint(c0.pass)} /\ Target(c0).depth = Depth(c0.pass)
    BY <1>1, <2>1, <2>2 DEF Point
  <2> QED
    BY <1>2, <2>3 DEF CutFits
<1> QED
  BY <1>3, <1>4

\* The command of a rapid stage moves one axis, and the cutting axis only in
\* the clear.
LEMMA TargetRapid ==
    ASSUME TypeOK, NEW c0 \in CycleState, c0.stage \in RapidStages, c0.waitingAck, At(c0, pos)
    PROVE  RapidFits(c0, Target(c0))
<1> USE DEF RapidStages, RetractFirst, ToTakeup, ToApproach, InfeedStage, Cut, Retract, Return,
            TakeUpAgain, ToStart, FinishInfeed
<1>1. pos \in Point
  BY DEF TypeOK
<1>2. CASE c0.stage \in {RetractFirst, Retract}
  BY <1>1, <1>2 DEF Target, RapidFits, Point
<1>3. CASE c0.stage \in {ToTakeup, ToApproach, Return, TakeUpAgain, ToStart}
  <2>1. Target(c0).depth = pos.depth /\ pos.depth = Clearance
    BY <1>1, <1>3 DEF Target, At, Point
  <2> QED
    BY <1>3, <2>1 DEF RapidFits
<1>4. CASE c0.stage \in {InfeedStage, FinishInfeed}
  BY <1>1, <1>4 DEF Target, RapidFits, At, Point, Home
<1> QED
  BY <1>2, <1>3, <1>4

\* A command that is accepted, with what it plans appended to the queue.
LEMMA PathAppend ==
    ASSUME TypeInv, PathInv, Queued, ~abort, NEW kind \in {"rapid", "feed", "sync"},
           kind = cmd.kind, queue' = Planned(kind), kind = "sync" => queue = <<>>,
           \/ cmd' = NoCommand /\ ack' = "ok"
           \/ cmd' = [cmd EXCEPT !.executing = TRUE] /\ ack' = ack /\ kind = "sync",
           UNCHANGED <<pos, exec, req, abort, alarm, entryCutting, shared, c, cutTo>>
    PROVE  PathInv'
<1>1. UNCHANGED <<active, pending, stopping>>
  BY DEF shared
<1>2. /\ TypeOK /\ c \in CycleState /\ Placed(c) /\ cmd \in Command /\ cmd.to \in Point
      /\ queue \in Seq(Block)
  BY DEF TypeInv, TypeOK, PassStages, Placed, Command
<1>3. /\ cmd # NoCommand /\ c.waitingAck /\ ack = "none" /\ Work
      /\ cmd.kind = CommandKind(c) /\ cmd.to = Target(c) /\ At(c, pos)
      /\ queue = <<>> \/ (Ellipse /\ c.stage = Cut)
      /\ ~c.cancelRequested
  BY DEF PathInv, PathAt, CommandFits, Queued, NoCommand, Outside
<1>4. kind = "rapid" => c.stage \in RapidStages
  BY <1>2, <1>3 DEF CommandKind, RapidStages, CycleState, Stage, Setup, RetractFirst, ToTakeup, ToApproach,
     InfeedStage, Register, SpindleOn, Cut, Retract, Return, TakeUpAgain, ToStart, FinishInfeed,
     RestorePhase, LastStage
<1>5. kind # "rapid" => c.stage = Cut /\ (Indexed => kind = "sync" /\ ~c.threadEntry)
  BY <1>3 DEF CommandKind
<1>6. Flags(c) /\ Front(c) /\ BlocksFit(c) /\ EntryHome(c)
  BY <1>3 DEF PathInv, PathAt
<1>7. Reached(c, cmd.to)
  BY <1>2, <1>3, TargetReached
<1>8. kind = "rapid" => RapidFits(c, cmd.to) /\ queue = <<>>
  BY <1>2, <1>3, <1>4, TargetRapid DEF RapidStages, RetractFirst, ToTakeup, ToApproach,
     InfeedStage, Cut, Retract, Return, TakeUpAgain, ToStart, FinishInfeed
<1>9. kind # "rapid" => CutFits(c, cmd.to) /\ (~Ellipse => pos.depth = Depth(c.pass))
  <2>1. kind # "rapid" => OnCut(c) /\ ~c.threadEntry
    BY <1>5, <1>6 DEF Front, CutStages, Flags
  <2> QED
    BY <1>2, <1>3, <1>5, <1>6, <2>1, TargetCuts DEF OnCut
<1>10. /\ PlannedEnd' = cmd.to
       /\ \A i \in DOMAIN queue' : \/ queue' = queue /\ i \in DOMAIN queue
                                   \/ /\ queue' = Append(queue, [kind |-> kind, to |-> cmd.to])
                                      /\ (i \in DOMAIN queue /\ queue'[i] = queue[i])
                                           \/ (i = Len(queue) + 1 /\ queue'[i] = [kind |-> kind, to |-> cmd.to])
  <2>1. CASE cmd.to = PlannedEnd
    BY <2>1, <1>1 DEF Planned, PlannedEnd
  <2>2. CASE cmd.to # PlannedEnd
    <3>1. queue' = Append(queue, [kind |-> kind, to |-> cmd.to])
      BY <2>2 DEF Planned
    <3>2. /\ Len(queue') = Len(queue) + 1 /\ queue' # <<>> /\ Len(queue) \in Nat
          /\ queue'[Len(queue) + 1] = [kind |-> kind, to |-> cmd.to]
          /\ \A i \in DOMAIN queue' : \/ i \in DOMAIN queue /\ queue'[i] = queue[i]
                                      \/ i = Len(queue) + 1
      BY <1>2, <3>1
    <3> QED
      BY <3>1, <3>2 DEF PlannedEnd
  <2> QED
    BY <2>1, <2>2
<1>11. Outside' /\ Requests(c)' /\ Flags(c)'
  <2>1. exec = "wait" => queue' # <<>>
    <3>1. exec = "wait" => queue # <<>>
      BY DEF PathInv, PathAt, Outside
    <3>2. queue # <<>> => Planned(kind) # <<>>
      BY <1>2 DEF Planned
    <3> QED
      BY <3>1, <3>2
  <2> QED
    BY <1>1, <1>3, <2>1 DEF PathInv, PathAt, Outside, Requests, Flags, Work
<1>12. CommandFits(c)'
  <2>1. CASE cmd' = NoCommand
    BY <2>1 DEF CommandFits, NoCommand, Queued
  <2>2. CASE cmd' = [cmd EXCEPT !.executing = TRUE] /\ ack' = ack /\ kind = "sync"
    <3>1. cmd'.executing /\ cmd'.kind = "sync" /\ Indexed
      BY <1>2, <1>3, <2>2 DEF Command, CommandKind
    <3> QED
      BY <1>3, <1>5, <2>2, <3>1 DEF CommandFits, Queued
  <2> QED
    BY <2>1, <2>2
<1>13. BlocksFit(c)'
  <2>1. ASSUME NEW i \in DOMAIN queue'
        PROVE  /\ queue'[i].kind = "rapid" => Len(queue') = 1 /\ RapidFits(c, queue'[i].to)
               /\ queue'[i].kind = "plunge" => i = 1 /\ PlungeFits(c, queue'[i].to)
               /\ queue'[i].kind \in SpindleFed =>
                    /\ CutFits(c, queue'[i].to)
                    /\ i = 1 /\ ~Ellipse => pos.depth = Depth(c.pass)
    <3>1. CASE queue' = queue
      BY <1>6, <2>1, <3>1 DEF BlocksFit
    <3>2. CASE /\ queue' = Append(queue, [kind |-> kind, to |-> cmd.to])
               /\ i \in DOMAIN queue /\ queue'[i] = queue[i]
      <4>1. queue # <<>>
        BY <3>2
      <4>2. queue[i].kind # "rapid"
        BY <1>3, <1>6, <3>2, <4>1 DEF BlocksFit, RapidFits, RapidStages, RetractFirst, ToTakeup, ToApproach,
           InfeedStage, Cut, Retract, Return, TakeUpAgain, ToStart, FinishInfeed
      <4> QED
        BY <1>6, <3>2, <4>2 DEF BlocksFit
    <3>3. CASE i = Len(queue) + 1 /\ queue'[i] = [kind |-> kind, to |-> cmd.to]
               /\ queue' = Append(queue, [kind |-> kind, to |-> cmd.to])
      <4>1. queue'[i].kind = kind /\ queue'[i].to = cmd.to
        BY <3>3
      <4>2. kind = "rapid" => Len(queue') = 1
        BY <1>2, <1>8, <3>3
      <4> QED
        BY <1>8, <1>9, <4>1, <4>2 DEF SpindleFed
    <3> QED
      BY <1>10, <3>1, <3>2, <3>3
  <2> QED
    BY <1>1, <1>3, <2>1 DEF BlocksFit, RapidFits, PlungeFits, CutFits
<1>14. (Work' => Front(c)') /\ EntryHome(c)'
  BY <1>1 DEF PathInv, PathAt, Work, Front, OnCut, EntryHome
<1>15. Progress(c)'
  BY <1>1, <1>3, <1>7, <1>10 DEF Progress, Reached
<1> QED
  BY <1>11, <1>12, <1>13, <1>14, <1>15 DEF PathInv, PathAt

LEMMA PathParse ==
    ASSUME TypeInv, PathInv, ParseStep
    PROVE  PathInv'
<1>0. /\ UNCHANGED <<active, pending, stopping>> /\ UNCHANGED <<shared, c, cutTo>> /\ ~abort
      /\ UNCHANGED <<pos, exec, req, abort, alarm>>
      /\ entryCutting' = IF cmd'.kind = "entry" THEN FALSE ELSE entryCutting
  BY DEF ParseStep, Parse, shared
<1>1. cmd.executing => cmd.kind \in {"sync", "entry"}
  BY <1>0 DEF PathInv, PathAt, CommandFits
<1>2. CASE cmd' = NoCommand /\ queue' = queue /\ ((ack' = "ok" /\ cmd.kind = "word") \/ ack' \in {"speed", "reject"})
  <2>1. NoCommand.kind = "none" /\ ~NoCommand.executing
    BY DEF NoCommand
  <2>2. Outside' /\ Requests(c)' /\ Flags(c)'
    BY <1>0, <1>2 DEF PathInv, PathAt, Outside, Requests, Flags, Work
  <2>3. CommandFits(c)' /\ entryCutting' = entryCutting
    BY <1>0, <1>2, <2>1 DEF CommandFits, Queued
  <2>4. BlocksFit(c)' /\ (Work' => Front(c)') /\ EntryHome(c)'
    BY <1>0, <1>2, <2>3
       DEF PathInv, PathAt, BlocksFit, RapidFits, PlungeFits, CutFits, Work, Front, OnCut, EntryHome
  <2>5. Progress(c)'
    <3>1. CASE ack' = "ok" /\ cmd.kind = "word"
      <4>1. c.waitingAck /\ CommandKind(c) = "word" /\ c.stage \in Stage
        BY <1>0, <1>1, <2>1, <3>1 DEF PathInv, PathAt, CommandFits, Queued, TypeInv, TypeOK, CycleState
      <4>2. c.stage \in {Setup, Register, SpindleOn, RestorePhase, LastStage}
        BY <4>1 DEF CommandKind
      <4>3. \A p : Reached(c, p)
        BY <4>2 DEF Reached, Setup, RetractFirst, ToTakeup, ToApproach, InfeedStage, Register, SpindleOn,
           Cut, Retract, Return, TakeUpAgain, RestorePhase, LastStage
      <4> QED
        <5>1. Reached(c', PlannedEnd') /\ c' = c
          BY <1>0, <4>3
        <5> QED
          BY <4>1, <5>1 DEF Progress, Reached
    <3>2. CASE ack' \in {"speed", "reject"}
      <4>1. c.waitingAck \/ cmd = NoCommand
        BY <1>0 DEF PathInv, PathAt, CommandFits
      <4>2. cmd # NoCommand
        BY <1>2, <3>2, <2>1
           DEF ParseStep, Parse, ParseWord, ParseMove, ParseSync, QueueEntry, RefuseEntry, Refuse, Parsed
      <4> QED
        BY <1>0, <3>2, <4>1, <4>2 DEF Progress
    <3> QED
      BY <1>2, <3>1, <3>2
  <2> QED
    BY <2>2, <2>3, <2>4, <2>5 DEF PathInv, PathAt
<1>3. CASE ParseMove
  BY <1>0, <1>1, <1>3, PathAppend DEF ParseMove, Parsed, Queued, NoCommand
<1>4. CASE ParseSync
  <2>1. cmd'.kind = "sync"
    BY <1>4 DEF ParseSync, TypeInv, TypeOK, Command
  <2> QED
    BY <1>0, <1>4, <2>1, PathAppend DEF ParseSync, Queued
<1>5. CASE QueueEntry(EntryAllowed)
  <2>1. /\ cmd.kind = "entry" /\ ~cmd.executing /\ queue = <<>> /\ exec = "idle"
        /\ Indexed /\ c.stage = Cut /\ c.threadEntry
        /\ queue' = << [kind |-> "plunge", to |-> [pos EXCEPT !.depth = cmd.to.depth]],
                       [kind |-> "thread", to |-> cmd.to] >>
        /\ cmd' = [cmd EXCEPT !.executing = TRUE] /\ ack' = ack
    BY <1>5 DEF QueueEntry, EntryAllowed, Idle
  <2>2. /\ cmd'.kind = "entry" /\ cmd'.executing /\ ~entryCutting'
        /\ pos \in Point /\ c \in CycleState /\ Placed(c) /\ TypeOK
    BY <1>0, <2>1 DEF TypeInv, TypeOK, Command, PassStages, Placed
  <2>3. /\ c.waitingAck /\ ack = "none" /\ Work /\ ~c.cancelRequested
        /\ cmd.to = Target(c) /\ At(c, pos)
    BY <1>0, <2>1 DEF PathInv, PathAt, CommandFits, Queued, Outside, NoCommand
  <2>4. pos = Home(c.pass)
    BY <2>1, <2>3 DEF At, CutStages
  <2>5. cmd.to = [cut |-> Endpoint(c.pass), depth |-> Depth(c.pass)]
    BY <2>1, <2>3 DEF Target, Indexed, Ellipse, Cut, RetractFirst, Retract, ToTakeup, Return,
       ToApproach, TakeUpAgain, InfeedStage, ToStart, FinishInfeed
  <2>6. [pos EXCEPT !.depth = cmd.to.depth] = [cut |-> Approach(c.pass), depth |-> Depth(c.pass)]
    BY <2>2, <2>4, <2>5 DEF Home, Point
  <2>7. c.pass \in PassIndex /\ Endpoint(c.pass) \in Nat
    BY <2>1, <2>2, PlanAssumption, Stations DEF Placed, CycleState, PassIndex, Cut, ToStart
  <2>8. Outside' /\ Requests(c)' /\ Flags(c)'
    BY <1>0, <2>1, <2>3 DEF PathInv, PathAt, Outside, Requests, Flags, Work
  <2>9. CommandFits(c)'
    BY <1>0, <2>1, <2>2, <2>3 DEF CommandFits, Queued
  <2>10. BlocksFit(c)'
    <3>1. DOMAIN queue' = {1, 2} /\ queue'[1].kind = "plunge" /\ queue'[2].kind = "thread"
          /\ queue'[1].to = [cut |-> Approach(c.pass), depth |-> Depth(c.pass)] /\ queue'[2].to = cmd.to
      BY <2>1, <2>6
    <3>2. /\ pos'.cut = Approach(c.pass) /\ pos'.depth = Clearance /\ c' = c
          /\ cmd.to.cut <= Endpoint(c.pass) /\ cmd.to.depth = Depth(c.pass)
      BY <1>0, <2>4, <2>5, <2>7 DEF Home
    <3> QED
      BY <2>1, <2>2, <2>3, <3>1, <3>2 DEF BlocksFit, PlungeFits, CutFits, SpindleFed
  <2>11. (Work' => Front(c)') /\ EntryHome(c)'
    BY <1>0, <2>1, <2>2 DEF PathInv, PathAt, Work, Front, OnCut, EntryHome, Register, SpindleOn, Cut
  <2>12. Progress(c)'
    <3>1. PlannedEnd' = cmd.to
      BY <2>1 DEF PlannedEnd
    <3>2. Reached(c, cmd.to)
      BY <2>2, <2>3, TargetReached
    <3> QED
      BY <1>0, <2>3, <3>1, <3>2 DEF Progress, Reached
  <2> QED
    BY <2>8, <2>9, <2>10, <2>11, <2>12 DEF PathInv, PathAt
<1>6. CASE ParseWord \/ RefuseEntry(EntryAllowed) \/ Refuse
  BY <1>2, <1>6 DEF ParseWord, RefuseEntry, Refuse, Parsed
<1> QED
  BY <1>3, <1>4, <1>5, <1>6 DEF ParseStep, Parse
-----------------------------------------------------------------------------
(* The tool moves.                                                         *)

LEMMA Steps ==
    ASSUME NEW p \in Point, NEW q \in Point
    PROVE  /\ Stepped(p, q) \in Point
           /\ p.cut = q.cut => Stepped(p, q).cut = p.cut
           /\ p.depth = q.depth => Stepped(p, q).depth = p.depth
           /\ Stepped(p, q).cut > p.cut => Stepped(p, q).cut = p.cut + 1 /\ p.cut + 1 <= q.cut
  BY DEF Point, Stepped, Towards

\* The front follows the tool, and no pulse carries the tool past it, off its
\* depth in a cut, or along the cutting axis outside the clear.
LEMMA PathPulse ==
    ASSUME TypeInv, StoppedByReset, PathInv, StepPulseCuts
    PROVE  PathInv'
<1> USE DEF RetractFirst, ToTakeup, ToApproach, InfeedStage, Register, SpindleOn, Cut, Retract,
            Return, TakeUpAgain, ToStart, FinishInfeed, Setup
<1> DEFINE h == queue[1]
<1>1. /\ exec \in {"run", "decel"} /\ queue # <<>> /\ Head(queue) = h
      /\ UNCHANGED <<queue, exec, cmd, ack, req, abort, alarm, entryCutting>>
      /\ UNCHANGED <<active, pending, stopping, c>>
  BY QueueEnds DEF StepPulseCuts, StepPulse, shared, spindle, TypeInv
<1>2. /\ h \in Block /\ h.to \in Point /\ pos \in Point /\ pos' = Stepped(pos, h.to)
      /\ 1 \in DOMAIN queue /\ DOMAIN queue = 1 .. Len(queue) /\ Len(queue) \in Nat \ {0}
  BY <1>1, QueueEnds DEF StepPulseCuts, StepPulse, TypeInv, TypeOK
<1>3. ~abort /\ alarm = "none" /\ Work /\ c \in CycleState /\ Placed(c) /\ cutTo \in Nat
  BY <1>1 DEF StoppedByReset, PathInv, PathAt, Outside, TypeInv, TypeOK, PassStages, Placed
<1>4. /\ BlocksFit(c) /\ Front(c) /\ EntryHome(c) /\ Flags(c) /\ CommandFits(c) /\ Progress(c)
  BY <1>3 DEF PathInv, PathAt
<1>5. /\ pos' \in Point /\ pos.cut \in Nat /\ pos'.cut \in Nat /\ h.to.cut \in Nat
      /\ pos.cut = h.to.cut => pos'.cut = pos.cut
      /\ pos.depth = h.to.depth => pos'.depth = pos.depth
      /\ pos'.cut > pos.cut => pos'.cut = pos.cut + 1 /\ pos'.cut <= h.to.cut
  BY <1>2, Steps DEF Point
<1>6. cutTo' = IF /\ h.kind \in SpindleFed /\ c.pass < Passes
                  /\ Ellipse \/ pos.depth = Depth(c.pass)
                  /\ pos.cut <= cutTo /\ pos'.cut > cutTo
               THEN pos'.cut ELSE cutTo
  BY <1>1, <1>3 DEF StepPulseCuts, CutsAt, Work, SpindleFed
<1> HIDE DEF h
<1>7. \/ h.kind = "rapid" /\ Len(queue) = 1 /\ RapidFits(c, h.to)
      \/ h.kind = "plunge" /\ PlungeFits(c, h.to) /\ Indexed
      \/ /\ h.kind \in SpindleFed /\ CutFits(c, h.to)
         /\ ~Ellipse => pos.depth = Depth(c.pass) /\ h.to.depth = pos.depth
  <2>1. h.kind = "rapid" \/ h.kind = "plunge" \/ h.kind \in SpindleFed
    BY <1>2 DEF Block, BlockKinds, SpindleFed
  <2>2. h.kind = "plunge" => PlungeFits(c, h.to)
    BY <1>2, <1>4 DEF BlocksFit, h
  <2>3. h.kind \in SpindleFed => CutFits(c, h.to) /\ (~Ellipse => pos.depth = Depth(c.pass))
    BY <1>2, <1>4 DEF BlocksFit, h
  <2>4. h.kind = "rapid" => Len(queue) = 1 /\ RapidFits(c, h.to)
    BY <1>2, <1>4 DEF BlocksFit, h
  <2> QED
    BY <1>4, <2>1, <2>2, <2>3, <2>4 DEF CutFits, PlungeFits, Flags
<1>8. Indexed => ~Ellipse
  BY DEF Indexed, Ellipse
<1>9. c.pass < Passes /\ h.kind \in SpindleFed => cutTo' >= cutTo /\ cutTo' <= Endpoint(c.pass) /\ pos'.cut <= cutTo'
  <2> SUFFICES ASSUME c.pass < Passes, h.kind \in SpindleFed
               PROVE  cutTo' >= cutTo /\ cutTo' <= Endpoint(c.pass) /\ pos'.cut <= cutTo'
    OBVIOUS
  <2>1. CutFits(c, h.to) /\ (~Ellipse => pos.depth = Depth(c.pass))
    BY <1>7 DEF SpindleFed
  <2>2. c.stage \in CutStages /\ c.pass \in PassIndex
    BY <1>3, <2>1, PlanAssumption DEF CutFits, CutStages, CycleState, PassIndex
  <2>3. pos.cut <= cutTo /\ cutTo <= Endpoint(c.pass) /\ h.to.cut <= Endpoint(c.pass)
    BY <1>4, <2>1, <2>2 DEF Front, OnCut, CutFits
  <2>4. Endpoint(c.pass) \in Nat
    BY <2>2, Stations
  <2> QED
    BY <1>3, <1>5, <1>6, <2>1, <2>3, <2>4
<1>10. h.kind \notin SpindleFed => cutTo' = cutTo
  BY <1>6
<1>11. Outside' /\ Requests(c)' /\ Flags(c)'
  BY <1>1 DEF PathInv, PathAt, Outside, Requests, Flags, Work
<1>12. CommandFits(c)'
  <2>1. Queued => Ellipse /\ c.stage = Cut
    BY <1>1, <1>3, <1>4 DEF CommandFits
  <2>2. Ellipse /\ c.stage = Cut => Target(c)' = Target(c) /\ At(c', pos')
    BY <1>1, <1>4, <1>8 DEF Target, At, Flags
  <2> QED
    BY <1>1, <1>3, <1>4, <2>1, <2>2 DEF CommandFits, Queued, At
<1>13. BlocksFit(c)'
  <2>1. h.kind = "rapid" => RapidFits(c, h.to)'
    BY <1>1, <1>5, <1>7 DEF RapidFits, SpindleFed, h
  <2>2. h.kind = "plunge" => PlungeFits(c, h.to)'
    BY <1>1, <1>5, <1>7 DEF PlungeFits, SpindleFed, h
  <2>3. h.kind \in SpindleFed /\ ~Ellipse => pos'.depth = Depth(c.pass)
    BY <1>5, <1>7 DEF SpindleFed
  <2>4. ASSUME NEW i \in DOMAIN queue
        PROVE  /\ queue[i].kind = "rapid" => Len(queue) = 1 /\ RapidFits(c, queue[i].to)'
               /\ queue[i].kind = "plunge" => i = 1 /\ PlungeFits(c, queue[i].to)'
               /\ queue[i].kind \in SpindleFed =>
                    /\ CutFits(c, queue[i].to)
                    /\ i = 1 /\ ~Ellipse => pos'.depth = Depth(c.pass)
    <3>1. queue[i].kind = "rapid" => i = 1 /\ Len(queue) = 1
      BY <1>2, <1>4 DEF BlocksFit
    <3>2. queue[i].kind = "plunge" => i = 1
      BY <1>4 DEF BlocksFit
    <3>3. queue[i].kind \in SpindleFed => CutFits(c, queue[i].to)
      BY <1>4 DEF BlocksFit
    <3> QED
      BY <2>1, <2>2, <2>3, <3>1, <3>2, <3>3 DEF h
  <2> QED
    BY <1>1, <1>4, <2>4 DEF BlocksFit, CutFits, RapidFits, PlungeFits
<1>14. Work' => Front(c)'
  <2>1. c.stage \in CutStages => OnCut(c)'
    <3>1. CASE h.kind = "rapid"
      BY <1>7, <3>1 DEF RapidFits, RapidStages, CutStages, SpindleFed
    <3>2. CASE h.kind = "plunge"
      BY <1>1, <1>4, <1>5, <1>7, <1>10, <3>2 DEF PlungeFits, CutStages, SpindleFed, Front, OnCut
    <3>3. CASE h.kind \in SpindleFed
      <4>1. c.stage \in CutStages => c.pass < Passes
        BY <1>3, PlanAssumption DEF CutStages, CycleState, Placed
      <4> QED
        BY <1>1, <1>5, <1>7, <1>9, <3>3, <4>1 DEF OnCut, SpindleFed
    <3> QED
      BY <1>7, <3>1, <3>2, <3>3
  <2>2. c.stage # Setup
    BY <1>7 DEF RapidFits, RapidStages, PlungeFits, CutFits
  <2>3. c.stage \in Retract .. TakeUpAgain => cutTo' = cutTo
    BY <1>7, <1>10 DEF CutFits, PlungeFits, SpindleFed
  <2>4. c.pass < Passes => Approach(c.pass) <= cutTo' /\ cutTo' <= Endpoint(c.pass)
    <3>1. c.pass < Passes => c.pass \in PassIndex
      BY <1>3, PlanAssumption DEF CycleState, PassIndex
    <3>2. cutTo' \in Nat
      BY <1>3, <1>5, <1>6
    <3>3. c.pass < Passes => Approach(c.pass) <= cutTo /\ cutTo <= Endpoint(c.pass)
      BY <1>4 DEF Front
    <3>4. c.pass < Passes => Approach(c.pass) \in Nat /\ Endpoint(c.pass) \in Nat
      BY <3>1, Stations
    <3> QED
      BY <1>3, <1>9, <1>10, <3>2, <3>3, <3>4
  <2> QED
    BY <1>1, <1>4, <2>1, <2>2, <2>3, <2>4 DEF Front, OnCut
<1>15. EntryHome(c)'
  <2>1. c.stage \in {Register, SpindleOn} => ~c.threadEntry
    BY <1>4, <1>7, <1>8 DEF RapidFits, RapidStages, PlungeFits, CutFits, Flags
  <2>2. c.stage = Cut /\ c.threadEntry /\ entryCutting => pos'.depth = Depth(c.pass)
    BY <1>4, <1>5, <1>7, <1>8 DEF RapidFits, RapidStages, PlungeFits, Flags
  <2> QED
    BY <1>1, <2>1, <2>2 DEF EntryHome
<1>16. Progress(c)'
  <2>1. PlannedEnd' = PlannedEnd
    BY <1>1 DEF PlannedEnd
  <2>2. ~c.waitingAck => At(c', pos')
    BY <1>1, <1>4, <1>7, <1>8 DEF At, RapidFits, PlungeFits, CutFits, Flags, CutStages, BlocksFit
  <2> QED
    BY <1>1, <1>4, <2>1, <2>2 DEF Progress, Quiet, Work, Queued, Reached, At
<1> QED
  BY <1>11, <1>12, <1>13, <1>14, <1>15, <1>16 DEF PathInv, PathAt
-----------------------------------------------------------------------------
(* The operator, and the core's reset.                                     *)

LEMMA PathOperator ==
    ASSUME TypeInv, PathInv, Request \/ Cancel \/ Advance \/ Unlock
    PROVE  PathInv'
<1>1. /\ UNCHANGED <<pos, queue, exec, cmd, ack, req, abort, entryCutting, c, cutTo>>
      /\ Work' => Work
      /\ Work /\ stopping => stopping'
      /\ Quiet(c)' => Quiet(c)
  BY DEF Request, Cancel, Advance, Unlock, core, spindle, shared, Work, Quiet, TypeInv, TypeOK
<1>2. ~Work \/ Work'
  BY DEF Request, Cancel, Advance, Unlock, shared, Work
<1>3. Outside' /\ Requests(c)' /\ Flags(c)'
  BY <1>1, <1>2 DEF PathInv, PathAt, Outside, Requests, Flags
<1>4. CommandFits(c)' /\ BlocksFit(c)'
  BY <1>1 DEF PathInv, PathAt, CommandFits, Queued, At, Target, BlocksFit, RapidFits, PlungeFits, CutFits
<1>5. (Work' => Front(c)') /\ EntryHome(c)'
  BY <1>1 DEF PathInv, PathAt, Front, OnCut, EntryHome
<1>6. Progress(c)'
  BY <1>1 DEF PathInv, PathAt, Progress, Queued, Reached, At, PlannedEnd
<1> QED
  BY <1>3, <1>4, <1>5, <1>6 DEF PathInv, PathAt

\* A recovered cut resumes where it stopped: behind its front, and at depth
\* unless its entry has still to be made again.
LEMMA PathReset ==
    ASSUME TypeInv, PathInv, CoreReset
    PROVE  PathInv'
<1>1. /\ queue' = <<>> /\ exec' = "idle" /\ cmd' = NoCommand /\ req' = {} /\ ~abort'
      /\ UNCHANGED <<pos, entryCutting>> /\ c \in CycleState
  BY DEF CoreReset, CoreCleared, TypeInv, TypeOK
<1>2. CommandFits(c)' /\ BlocksFit(c)'
  BY <1>1 DEF CommandFits, BlocksFit, Queued, NoCommand
<1>3. CASE Recovers
  <2>1. UNCHANGED <<active, pending, stopping, cutTo>> /\ c' = Recovered
    BY <1>3 DEF CoreReset, shared
  <2>2. /\ c'.stage = Setup /\ c'.recovering /\ ~c'.waitingAck /\ ~c'.cancelRequested /\ ~c'.internalReset
        /\ c'.pass = c.pass /\ c'.threadEntry = c.threadEntry /\ c'.restartEntry = c.restartEntry
    BY <1>1, <2>1 DEF Recovered, CycleState
  <2>3. c.stage = Cut /\ c.cancelRequested
    BY <1>3 DEF Recovers, TypeInv, PausedCut, PathInv, PathAt, Flags
  <2> USE DEF Setup, RetractFirst, ToTakeup, ToApproach, InfeedStage, Register, SpindleOn, Cut, Retract,
            Return, TakeUpAgain, ToStart, FinishInfeed
  <2>4. Outside' /\ Requests(c)' /\ Flags(c)'
    BY <1>1, <2>1, <2>2, <2>3 DEF PathInv, PathAt, Outside, Requests, Flags, Work
  <2>5. Work' => Front(c)'
    BY <1>1, <2>1, <2>2, <2>3 DEF PathInv, PathAt, Front, OnCut, CutStages, Work
  <2>6. EntryHome(c)' /\ Progress(c)'
    BY <1>1, <2>2 DEF EntryHome, Progress, At, CutStages
  <2> QED
    BY <1>2, <2>4, <2>5, <2>6 DEF PathInv, PathAt
<1>4. CASE ~Recovers
  <2>1. ~active' /\ ~c'.threadEntry /\ ~c'.internalReset /\ ~c'.waitingAck
    BY <1>1, <1>4 DEF CoreReset, CycleState
  <2>2. Outside' /\ Requests(c)' /\ Flags(c)' /\ EntryHome(c)' /\ Progress(c)' /\ ~Work'
    BY <1>1, <2>1 DEF Outside, Requests, Flags, Work, EntryHome, Progress, Quiet
  <2> QED
    BY <1>2, <2>2 DEF PathInv, PathAt
<1> QED
  BY <1>3, <1>4

LEMMA PathUserReset ==
    ASSUME PathInv, UserReset
    PROVE  PathInv'
  BY PathAborted DEF UserReset, spindle
-----------------------------------------------------------------------------
(* Polls that end, refuse or cancel the operation.                         *)

LEMMA PathPollEnds ==
    ASSUME TypeInv, StoppedByReset, PathInv, PollAlarm \/ PollAborted \/ PollRefuse
    PROVE  PathInv'
<1>1. /\ ~active' /\ UNCHANGED <<pos, queue, exec, cmd, ack, req, abort, alarm, entryCutting>>
      /\ c' = c \/ (c' = Fresh /\ ~Work)
  BY DEF PollAlarm, PollAborted, PollRefuse, Finish, core, Work
<1>2. /\ queue = <<>> /\ exec = "idle"
      /\ abort \/ (cmd = NoCommand /\ req = {})
  BY DEF PollAlarm, PollAborted, PollRefuse, StoppedByReset, PathInv, PathAt, Outside, Requests, Work
<1>3. Outside' /\ Requests(c)' /\ ~Work'
  BY <1>1, <1>2 DEF Outside, Requests, Work
<1>4. CommandFits(c)' /\ BlocksFit(c)' /\ Progress(c)'
  BY <1>1, <1>2, <1>3 DEF CommandFits, BlocksFit, Progress, Quiet, Queued, NoCommand
<1>5. Flags(c)' /\ EntryHome(c)'
  <2>1. CASE c' = c
    BY <1>1, <1>3, <2>1 DEF PathInv, PathAt, Flags, EntryHome
  <2>2. CASE c' = Fresh
    BY <1>3, <2>2 DEF Flags, EntryHome, Fresh
  <2> QED
    BY <1>1, <2>1, <2>2
<1> QED
  BY <1>3, <1>4, <1>5 DEF PathInv, PathAt

\* Once the thread is being cut, the entry is behind the tool: nothing waits
\* at the approach any more and the tool is at depth.
LEMMA NotedPath ==
    ASSUME TypeInv, PathInv, Work, ~abort
    PROVE  PathAt(EntryNoted(c))
<1> DEFINE n == EntryNoted(c)
<1>1. CASE n = c
  BY <1>1 DEF PathInv
<1>2. CASE n # c
  <2>1. /\ c.threadEntry /\ c.stage = Cut /\ c.waitingAck /\ entryCutting
        /\ n = [c EXCEPT !.threadEntry = FALSE]
    BY <1>2 DEF EntryNoted
  <2>0. c \in CycleState /\ c.pass \in PassIndex
    BY <2>1, PlanAssumption DEF TypeInv, TypeOK, CycleState, PassStages, PassIndex, Cut, ToStart
  <2>2. /\ ~n.threadEntry /\ n.stage = c.stage /\ n.pass = c.pass /\ n.waitingAck = c.waitingAck
        /\ n.cancelRequested = c.cancelRequested /\ n.pausing = c.pausing
        /\ n.recovering = c.recovering /\ n.internalReset = c.internalReset
        /\ n.reverseCut = c.reverseCut /\ n.segment = c.segment
    BY <2>0, <2>1 DEF CycleState
  <2> HIDE DEF n
  <2>3. /\ Outside /\ Requests(c) /\ Flags(c) /\ CommandFits(c) /\ BlocksFit(c)
        /\ Front(c) /\ EntryHome(c) /\ Progress(c)
    BY DEF PathInv, PathAt
  <2>4. pos.depth = Depth(c.pass) /\ Indexed /\ ~Ellipse
    BY <2>1, <2>3 DEF EntryHome, Flags, Indexed, Ellipse
  <2>5. ~Queued
    <3>1. Queued => pos.depth = Clearance
      BY <2>1, <2>3 DEF CommandFits, At, CutStages, Home
    <3> QED
      BY <2>0, <2>4, <3>1, Stations DEF Clearance
  <2>6. Requests(n) /\ Flags(n) /\ CommandFits(n)
    BY <2>1, <2>2, <2>3, <2>5 DEF Requests, Flags, CommandFits, InfeedStage, Cut, Setup
  <2>7. BlocksFit(n)
    BY <2>1, <2>2, <2>3 DEF BlocksFit, RapidFits, PlungeFits, CutFits
  <2>8. Front(n) /\ EntryHome(n)
    BY <2>1, <2>2, <2>3, <2>4 DEF Front, OnCut, EntryHome
  <2>9. Progress(n)
    BY <2>1, <2>2, <2>3, <2>4 DEF Progress, Quiet, Reached, ChordsLeft
  <2> QED
    BY <2>3, <2>6, <2>7, <2>8, <2>9 DEF PathAt, n
<1> QED
  BY <1>1, <1>2

LEMMA PathPollCancel ==
    ASSUME TypeInv, StoppedByReset, PathInv, PollCancel
    PROVE  PathInv'
<1> DEFINE n == EntryNoted(c)
           paused == n.pausing \/ (~StopSeen /\ CutInterrupted(n))
           first == ~n.cancelRequested
           re == IF first THEN n.threadEntry ELSE n.restartEntry
           ir == IF exec \in {"wait", "idle"} THEN ~StopSeen ELSE n.internalReset
<1>1. /\ Work /\ ~abort /\ (StopSeen \/ paused)
      /\ CancelMotion([n EXCEPT !.pausing = paused]) /\ UNCHANGED pending
  BY DEF PollCancel, Work
<1>2. PathAt(n) /\ n \in CycleState
  BY <1>1, NotedPath, EntryNotedType DEF TypeInv, TypeOK
<1>3. /\ Outside /\ Requests(n) /\ Flags(n) /\ CommandFits(n) /\ BlocksFit(n)
      /\ Front(n) /\ EntryHome(n)
  BY <1>1, <1>2 DEF PathAt
<1> HIDE DEF n, paused
<1>4. /\ c' = [n EXCEPT !.pausing = paused, !.cancelRequested = TRUE, !.restartEntry = re, !.internalReset = ir]
      /\ UNCHANGED <<pos, queue, exec, ack, abort, entryCutting, active, pending, cutTo>>
      /\ cmd' = IF first /\ ~cmd.executing THEN NoCommand ELSE cmd
      /\ stopping' = StopSeen
  BY <1>1, <1>2 DEF CancelMotion, CycleState
<1> HIDE DEF re, ir
<1>5. /\ c'.cancelRequested /\ c'.pausing = paused /\ c'.restartEntry = re
      /\ c'.stage = n.stage /\ c'.pass = n.pass /\ c'.waitingAck = n.waitingAck
      /\ c'.threadEntry = n.threadEntry /\ c'.reverseCut = n.reverseCut /\ c'.segment = n.segment
      /\ c'.recovering = n.recovering
  BY <1>2, <1>4 DEF CycleState
<1>6. Work'
  BY <1>1, <1>4 DEF Work
<1>7. ~NoCommand.executing /\ NoCommand.kind = "none"
  BY DEF NoCommand
<1>8. Outside' /\ Requests(c)'
  BY <1>1, <1>3, <1>4, <1>5, <1>6, <1>7 DEF Outside, Requests
<1>9. Flags(c)'
  BY <1>1, <1>3, <1>5, <1>6 DEF Flags, re
<1>10. CommandFits(c)'
  <2>1. ~Queued'
    BY <1>1, <1>3, <1>4, <1>7 DEF CommandFits, Queued
  <2> QED
    BY <1>1, <1>3, <1>4, <1>5, <1>7, <2>1 DEF CommandFits
<1>11. BlocksFit(c)'
  BY <1>3, <1>4, <1>5 DEF BlocksFit, RapidFits, PlungeFits, CutFits
<1>12. Front(c)' /\ EntryHome(c)'
  BY <1>1, <1>3, <1>4, <1>5, <1>6 DEF Front, OnCut, EntryHome
<1>13. Progress(c)'
  BY <1>1, <1>4, <1>5 DEF Progress, Quiet
<1> QED
  BY <1>8, <1>9, <1>10, <1>11, <1>12, <1>13 DEF PathInv, PathAt
-----------------------------------------------------------------------------
(* emit()                                                                  *)

\* What the statics must be for the command of their stage to be submitted.
Ready(c0) ==
    /\ c0 \in CycleState /\ Placed(c0)
    /\ ~c0.waitingAck /\ ~c0.cancelRequested /\ ~c0.pausing /\ ~c0.internalReset
    /\ Flags(c0) /\ At(c0, pos) /\ Front(c0)
    /\ c0.threadEntry /\ c0.stage \in CutStages => ~entryCutting

\* What a poll finds when it calls emit(): no command, and at most the chords
\* of an ellipse ahead of the one to be submitted.
Free(c0) ==
    /\ TypeInv /\ Outside /\ ~abort /\ cmd = NoCommand /\ req = {} /\ exec \notin {"decel", "halted"}
    /\ \A i \in DOMAIN queue :
           Ellipse /\ c0.stage = Cut /\ queue[i].kind \in SpindleFed /\ CutFits(c0, queue[i].to)
Kept ==
    /\ UNCHANGED <<pos, queue, exec, req, abort, alarm>>
    /\ Work'

LEMMA RestPath ==
    ASSUME NEW c0, Free(c0), Kept, NEW c1, Ready(c1)', c' = c1, cmd' = cmd,
           c1.pass = c0.pass, c1.stage = c0.stage \/ (c1.stage = Register /\ c0.stage = Cut) \/ queue = <<>>
    PROVE  PathInv'
<1>1. Outside' /\ Requests(c)' /\ Flags(c)' /\ (Work' => Front(c)')
  BY DEF Free, Kept, Ready, Outside, Requests
<1>2. CommandFits(c)'
  BY DEF Free, Kept, CommandFits, Queued, NoCommand
<1>3. BlocksFit(c)'
  <2>1. queue # <<>> => Ellipse /\ c0.stage = Cut
    BY QueueEnds DEF Free, TypeInv
  <2>2. c1.stage = Cut \/ (Ellipse /\ c1.stage = Register) \/ queue = <<>>
    BY <2>1
  <2> QED
    BY <2>1, <2>2 DEF Free, Kept, BlocksFit, CutFits, SpindleFed
<1>4. EntryHome(c)'
  <2>1. c1.threadEntry /\ c1.stage \in CutStages => ~entryCutting' /\ pos' = Home(c1.pass)
    BY DEF Ready, At
  <2> QED
    BY <2>1 DEF EntryHome, CutStages
<1>5. Progress(c)'
  BY DEF Progress, Ready
<1> QED
  BY <1>1, <1>2, <1>3, <1>4, <1>5 DEF PathInv, PathAt

LEMMA SubmitPath ==
    ASSUME NEW c0, Free(c0), Kept, NEW c1, Ready(c1)', Submit(c1),
           c1.pass = c0.pass, c1.stage = c0.stage \/ queue = <<>>,
           c1.stage = InfeedStage => ~Indexed,
           c1.threadEntry /\ c1.stage = Register => ~c1.reverseCut
    PROVE  PathInv'
<1>1. CASE c' = c1 /\ cmd' = cmd
  BY <1>1, RestPath
<1>2. CASE /\ cmd' = [kind |-> CommandKind(c1), to |-> Target(c1), executing |-> FALSE]
           /\ ack' = "none" /\ c' = [c1 EXCEPT !.waitingAck = TRUE]
  <2>1. c1 \in CycleState /\ ~c1.waitingAck
    BY DEF Ready
  <2>2. /\ c'.waitingAck /\ c'.stage = c1.stage /\ c'.pass = c1.pass /\ c'.threadEntry = c1.threadEntry
        /\ c'.cancelRequested = c1.cancelRequested /\ c'.pausing = c1.pausing
        /\ c'.internalReset = c1.internalReset /\ c'.recovering = c1.recovering
        /\ c'.restartEntry = c1.restartEntry /\ c'.reverseCut = c1.reverseCut
        /\ c'.segment = c1.segment
    BY <1>2, <2>1 DEF CycleState
  <2>3. /\ ~c1.cancelRequested /\ ~c1.pausing /\ ~c1.internalReset
        /\ Flags(c1)' /\ At(c1, pos') /\ (Work' => Front(c1)')
        /\ c1.threadEntry /\ c1.stage \in CutStages => ~entryCutting'
    BY DEF Ready, At
  <2>4. queue = <<>> \/ (Ellipse /\ c1.stage = Cut)
    BY QueueEnds DEF Free, TypeInv
  <2>5. Outside' /\ Requests(c)'
    BY <2>2, <2>3 DEF Free, Kept, Outside, Requests
  <2>6. Flags(c)'
    BY <2>2, <2>3 DEF Flags
  <2>7. Front(c)'
    BY <2>2, <2>3 DEF Front, OnCut, Kept
  <2>8. CommandFits(c)'
    <3>1. /\ CommandKind(c') = CommandKind(c1) /\ Target(c)' = Target(c1)
          /\ At(c', pos') /\ CommandKind(c1) # "none"
      BY <2>2, <2>3 DEF CommandKind, Target, At, Kept
    <3>2. cmd'.kind = CommandKind(c1) /\ cmd'.to = Target(c1) /\ ~cmd'.executing /\ ack' = "none"
      BY <1>2
    <3> QED
      BY <2>2, <2>3, <2>4, <3>1, <3>2 DEF CommandFits, Kept, At
  <2>9. BlocksFit(c)'
    BY <2>2, <2>4 DEF Free, Kept, BlocksFit, CutFits, SpindleFed
  <2>10. EntryHome(c)'
    BY <2>2, <2>3 DEF EntryHome, CutStages, At, Kept
  <2>11. Progress(c)'
    <3>1. CommandKind(c1) # "none"
      BY DEF CommandKind
    <3> QED
      BY <1>2, <2>2, <3>1 DEF Progress, Queued
  <2> QED
    BY <2>5, <2>6, <2>7, <2>8, <2>9, <2>10, <2>11 DEF PathInv, PathAt
<1> QED
  BY <1>1, <1>2 DEF Submit

LEMMA EmitPath ==
    ASSUME NEW c0, Free(c0), Kept, Ready(c0)', Emit(c0)
    PROVE  PathInv' /\ c'.pass = c0.pass /\ c'.start = c0.start
<1> USE DEF RetractFirst, ToTakeup, ToApproach, InfeedStage, Register, SpindleOn, Cut, Retract,
            Return, TakeUpAgain, ToStart, FinishInfeed, Setup
<1> DEFINE c1 == Staged(c0)
           r == rpm'
<1>0. /\ c0 \in CycleState /\ Placed(c0) /\ pos \in Point /\ UNCHANGED pos /\ Work'
      /\ queue # <<>> => c0.stage = Cut /\ Ellipse
  BY QueueEnds DEF Ready, Free, Kept, TypeInv, TypeOK
<1>1. /\ Ready(c1)' /\ c1.pass = c0.pass /\ c1.start = c0.start
      /\ c1.stage = c0.stage \/ queue = <<>>
      /\ c1.stage = InfeedStage => ~Indexed
  <2>1. CASE ~(c0.stage = InfeedStage /\ Indexed)
    BY <1>0, <2>1 DEF Staged
  <2>2. CASE c0.stage = InfeedStage /\ Indexed
    <3>1. c1 = [c0 EXCEPT !.threadEntry = TRUE, !.stage = Register] /\ ~entryCutting'
      BY <2>2 DEF Staged, Emit
    <3>2. /\ c1 \in CycleState /\ c1.stage = Register /\ c1.threadEntry
          /\ c1.pass = c0.pass /\ c1.start = c0.start /\ c1.waitingAck = c0.waitingAck
          /\ c1.cancelRequested = c0.cancelRequested /\ c1.pausing = c0.pausing
          /\ c1.internalReset = c0.internalReset /\ c1.recovering = c0.recovering
          /\ c1.restartEntry = c0.restartEntry
      <4>1. Register \in Stage
        BY DEF Stage
      <4>2. c1 \in CycleState
        BY <1>0, <3>1, <4>1, StageChange
      <4> QED
        BY <1>0, <3>1, <4>2 DEF CycleState
    <3> HIDE DEF c1
    <3>3. /\ ~c0.waitingAck /\ ~c0.cancelRequested /\ ~c0.pausing /\ ~c0.internalReset
          /\ Flags(c0)' /\ At(c0, pos') /\ (Work' => Front(c0)')
      BY DEF Ready, At
    <3>4. pos' = Home(c0.pass) /\ ~c0.recovering /\ c0.pass < Passes /\ c0.pass \in PassIndex
      BY <1>0, <2>2, <3>3, PlanAssumption DEF At, Flags, Placed, CycleState, PassIndex
    <3>5. Approach(c0.pass) <= cutTo' /\ cutTo' <= Endpoint(c0.pass)
      BY <1>0, <3>3, <3>4 DEF Front
    <3>6. Placed(c1)
      BY <1>0, <3>2, <3>4 DEF Placed, CycleState
    <3>7. Flags(c1)' /\ At(c1, pos')
      BY <2>2, <3>2, <3>3, <3>4 DEF Flags, At
    <3>8. Front(c1)'
      BY <3>2, <3>4, <3>5 DEF Front, OnCut, Home
    <3> QED
      BY <1>0, <2>2, <3>1, <3>2, <3>3, <3>6, <3>7, <3>8 DEF Ready, At
  <2> QED
    BY <2>1, <2>2
<1> HIDE DEF c1
<1>2. c1 \in CycleState /\ ~c1.waitingAck
  BY <1>1 DEF Ready
<1>3. CASE c1.stage = Register /\ PrepareCut(c1, r)
  <2>0. PICK c2 : c2 = Aimed(c1, r)
    OBVIOUS
  <2>1. queue = <<>>
    BY <1>0, <1>1, <1>3
  <2>2. CASE r = 0 /\ c' = c1 /\ cmd' = cmd
    BY <1>1, <2>1, <2>2, RestPath
  <2>3. CASE r # 0
    <3>1. c2 \in CycleState /\ Same(c2, c1)
      BY <1>2, <2>0, <2>3, AimedType DEF Free, TypeInv, TypeOK, Emit, Rpm
    <3>2. /\ c2.stage = Register /\ c2.pass = c1.pass /\ c2.start = c1.start
          /\ c2.waitingAck = c1.waitingAck /\ c2.cancelRequested = c1.cancelRequested
          /\ c2.pausing = c1.pausing /\ c2.internalReset = c1.internalReset
          /\ c2.threadEntry = c1.threadEntry /\ c2.recovering = c1.recovering
          /\ c2.restartEntry = c1.restartEntry
      BY <1>2, <1>3, <2>0 DEF Aimed, CycleState
    <3>3. MayCut(c2, r) /\ c2.threadEntry => ~c2.reverseCut
      <4>1. c1.threadEntry => Indexed /\ pos = Home(c1.pass)
        BY <1>0, <1>1, <1>3 DEF Ready, Flags, At, CutStages
      <4> QED
        BY <1>0, <3>2, <4>1 DEF MayCut, AtStart, Home, Indexed, Ellipse
    <3>4. \/ MayCut(c2, r) /\ Submit(c2)
          \/ c' = c2 /\ cmd' = cmd
      BY <1>3, <2>0, <2>3 DEF PrepareCut
    <3>5. Ready(c2)'
      <4>1. Flags(c2)' /\ At(c2, pos)' /\ (Work' => Front(c2)') /\ Placed(c2)
        BY <1>0, <1>1, <1>3, <3>2 DEF Ready, Flags, At, Front, OnCut, Placed, CutStages
      <4> QED
        BY <1>0, <1>1, <1>3, <3>1, <3>2, <4>1 DEF Ready
    <3>6. PathInv'
      BY <1>1, <2>1, <3>2, <3>3, <3>4, <3>5, RestPath, SubmitPath
    <3>7. c' = c2 \/ c' = [c2 EXCEPT !.waitingAck = TRUE]
      BY <3>4 DEF Submit
    <3> QED
      BY <1>1, <3>1, <3>2, <3>6, <3>7 DEF CycleState
  <2> QED
    BY <1>1, <1>3, <2>2, <2>3 DEF PrepareCut
<1>4. CASE c1.stage = Cut /\ c' = [c1 EXCEPT !.stage = Register] /\ cmd' = cmd
  <2>1. /\ c'.stage = Register /\ c'.pass = c1.pass /\ c'.start = c1.start
        /\ c'.waitingAck = c1.waitingAck /\ c'.cancelRequested = c1.cancelRequested
        /\ c'.pausing = c1.pausing /\ c'.internalReset = c1.internalReset
        /\ c'.threadEntry = c1.threadEntry /\ c'.recovering = c1.recovering
        /\ c'.restartEntry = c1.restartEntry
    BY <1>2, <1>4 DEF CycleState
  <2>2. c' \in CycleState
    BY <1>2, <1>4 DEF CycleState, Stage
  <2>3. Ready(c)'
    <3>1. Flags(c)' /\ At(c, pos)' /\ (Work' => Front(c)') /\ Placed(c')
      BY <1>0, <1>1, <1>2, <1>4, <2>1 DEF Ready, Flags, At, Front, OnCut, Placed, CutStages
    <3> QED
      BY <1>0, <1>1, <1>4, <2>1, <2>2, <3>1 DEF Ready, Placed, CutStages
  <2>4. PathInv'
    BY <1>1, <1>4, <2>1, <2>3, RestPath DEF Ready
  <2> QED
    BY <1>1, <2>1, <2>4
<1>5. CASE c1.stage # Register /\ Submit(c1)
  <2>1. PathInv'
    BY <1>1, <1>5, SubmitPath
  <2>2. c' = c1 \/ c' = [c1 EXCEPT !.waitingAck = TRUE]
    BY <1>5 DEF Submit
  <2> QED
    BY <1>1, <1>2, <2>1, <2>2 DEF CycleState
<1> QED
  BY <1>3, <1>4, <1>5 DEF Emit, c1

\* A pass or start that is cut leads to the next one, at its approach and in
\* the clear, or to the closing moves.
LEMMA NextStartReady ==
    ASSUME TypeInv, NEW c1 \in CycleState, c1.stage = TakeUpAgain, Placed(c1),
           ~c1.waitingAck, ~c1.cancelRequested, ~c1.pausing, ~c1.internalReset, ~c1.recovering,
           c1.threadEntry => Indexed,
           pos = Home(c1.pass), NEW c2, c2 = NextStart(c1), UNCHANGED pos,
           cutTo' = IF <<c2.pass, c2.start>> # <<c1.pass, c1.start>> /\ c2.pass < Passes
                    THEN Approach(c2.pass) ELSE cutTo
    PROVE  Ready(c2)'
<1> USE DEF RetractFirst, ToTakeup, ToApproach, InfeedStage, Register, SpindleOn, Cut, Retract,
            Return, TakeUpAgain, ToStart, FinishInfeed, Setup
<1>0. c1.pass \in PassIndex /\ c1.start \in 0 .. PlanStarts - 1 /\ PlanStarts \in Nat \ {0}
  BY PlanPoints, PlanAssumption DEF Placed, CycleState, PassIndex
<1>1. c2 \in CycleState /\ Placed(c2) /\ ~c2.pausing /\ ~c2.internalReset
  BY <1>0, NextStartType DEF TypeInv, TypeOK
<1>2. /\ c2.waitingAck = c1.waitingAck /\ c2.cancelRequested = c1.cancelRequested
      /\ c2.threadEntry = c1.threadEntry /\ c2.recovering = c1.recovering
      /\ c2.start = IF c1.start + 1 = PlanStarts THEN 0 ELSE c1.start + 1
      /\ c2.pass = IF c1.start + 1 = PlanStarts THEN NextPass(c1) ELSE c1.pass
      /\ c2.stage = IF c2.pass = Passes THEN ToStart ELSE IF Ellipse THEN ToTakeup ELSE InfeedStage
  BY DEF NextStart, CycleState
<1>3. NextPass(c1) # c1.pass
  BY <1>0 DEF NextPass, PassIndex
<1>4. <<c2.pass, c2.start>> # <<c1.pass, c1.start>>
  BY <1>0, <1>2, <1>3
<1>5. c2.pass < Passes => c2.pass \in PassIndex /\ cutTo' = Approach(c2.pass)
  BY <1>1, <1>4, PlanAssumption DEF CycleState, PassIndex
<1>6. c2.pass < Passes => Approach(c2.pass) \in Nat /\ Approach(c2.pass) <= Endpoint(c2.pass)
  BY <1>5, Stations
<1>7. ~Ellipse => Home(c2.pass) = Home(c1.pass)
  BY <1>0, Stations DEF Home
<1>8. At(c2, pos)
  BY <1>2, <1>7 DEF At, CutStages, Home
<1>9. Front(c2)'
  BY <1>2, <1>5, <1>6 DEF Front, CutStages
<1>10. Flags(c2)'
  BY <1>1, <1>2 DEF Flags
<1> QED
  BY <1>1, <1>2, <1>8, <1>9, <1>10 DEF Ready, CutStages, At

\* Where a stage ends, the next one starts.
LEMMA AfterReady ==
    ASSUME TypeInv, NEW c0 \in CycleState, Placed(c0), PathAt(c0), Quiet(c0),
           c0.waitingAck, ack = "ok", cmd = NoCommand, queue = <<>>, ~ChordsLeft(c0),
           c0.stage # LastStage, ~c0.cancelRequested, ~c0.internalReset,
           NEW c2, c2 = AfterStage([c0 EXCEPT !.waitingAck = FALSE]),
           UNCHANGED pos, Work', entryCutting' => entryCutting,
           cutTo' = IF <<c2.pass, c2.start>> # <<c0.pass, c0.start>> /\ c2.pass < Passes
                    THEN Approach(c2.pass) ELSE cutTo
    PROVE  Ready(c2)'
<1> USE DEF RetractFirst, ToTakeup, ToApproach, InfeedStage, Register, SpindleOn, Cut, Retract,
            Return, TakeUpAgain, ToStart, FinishInfeed, Setup, RestorePhase, LastStage
<1> DEFINE c1 == [c0 EXCEPT !.waitingAck = FALSE]
<1>1. /\ c1 \in CycleState /\ ~c1.waitingAck /\ c1.stage = c0.stage /\ c1.pass = c0.pass
      /\ c1.start = c0.start /\ c1.cancelRequested = c0.cancelRequested /\ c1.pausing = c0.pausing
      /\ c1.internalReset = c0.internalReset /\ c1.recovering = c0.recovering
      /\ c1.reverseCut = c0.reverseCut /\ c1.threadEntry = c0.threadEntry
      /\ c1.restartEntry = c0.restartEntry
  <2>1. c1 \in CycleState
    BY AckChange
  <2> QED
    BY <2>1 DEF CycleState
<1>2. Placed(c1)
  BY <1>1 DEF Placed
<1> HIDE DEF c1
<1>3. c2 = AfterStage(c1) /\ c2 \in CycleState /\ Placed(c2) /\ ~c2.pausing /\ ~c2.internalReset
  <2>1. c2 = AfterStage(c1) /\ advance \in BOOLEAN /\ ~c0.pausing
    BY DEF c1, TypeInv, TypeOK, Quiet
  <2> QED
    BY <1>1, <1>2, <2>1, AfterStageType
<1>4. Flags(c0) /\ Front(c0) /\ EntryHome(c0) /\ Work /\ ~abort
  BY DEF PathAt, Quiet
<1>5. Reached(c0, pos)
  BY DEF PathAt, Progress, Queued, NoCommand, PlannedEnd
<1>6. /\ pos \in Point /\ cutTo \in Nat /\ c0.stage \in Stage
      /\ c0.stage < ToStart => c0.pass \in PassIndex /\ c0.pass < Passes
  <2>1. pos \in Point /\ cutTo \in Nat
    BY DEF TypeInv, TypeOK
  <2>2. c0.stage \in Stage /\ c0.pass \in 0 .. Passes /\ Passes \in Nat
    BY PlanAssumption DEF CycleState
  <2>3. c0.stage < ToStart => c0.pass # Passes
    BY <2>2 DEF Placed, Stage
  <2> QED
    BY <2>1, <2>2, <2>3 DEF PassIndex
<1>7. ASSUME c2.pass = c0.pass, c2.start = c0.start
      PROVE  cutTo' = cutTo
  BY <1>7
<1>8. ASSUME c0.stage # TakeUpAgain
      PROVE  /\ c2.pass = c0.pass /\ c2.start = c0.start /\ ~c2.waitingAck /\ ~c2.cancelRequested
             /\ c2.threadEntry = c0.threadEntry /\ c2.reverseCut = c0.reverseCut
             /\ ~c2.recovering
  <2>1. CASE c0.stage = Setup /\ c0.recovering
    <3>1. PICK s : c2 = [c1 EXCEPT !.recovering = FALSE, !.restartEntry = FALSE, !.stage = s]
      <4>1. c2 = [c1 EXCEPT !.recovering = FALSE, !.restartEntry = FALSE, !.stage = AfterRecovery(c1)]
        BY <1>1, <1>3, <2>1 DEF AfterStage
      <4> QED
        BY <4>1
    <3>2. /\ c2.pass = c1.pass /\ c2.start = c1.start /\ c2.waitingAck = c1.waitingAck
          /\ c2.cancelRequested = c1.cancelRequested /\ c2.threadEntry = c1.threadEntry
          /\ c2.reverseCut = c1.reverseCut /\ c2.recovering = FALSE
      BY <1>1, <3>1 DEF CycleState
    <3> QED
      BY <1>1, <3>2
  <2>2. CASE ~(c0.stage = Setup /\ c0.recovering)
    <3>1. PICK s : c2 = [c1 EXCEPT !.stage = s]
      <4>1. c1.stage = Cut => c2 = [c1 EXCEPT !.stage = AfterCut(c1)]
        <5>1. c1.stage = Cut => c1.stage # Setup
          OBVIOUS
        <5> QED
          BY <1>3, <5>1 DEF AfterStage
      <4>2. c1.stage # Cut => c2 = [c1 EXCEPT !.stage = @ + 1]
        BY <1>1, <1>3, <1>8, <2>2 DEF AfterStage
      <4> QED
        BY <4>1, <4>2
    <3>2. c0.recovering => c0.stage = Setup
      BY <1>4 DEF Flags
    <3> QED
      BY <1>1, <2>2, <3>1, <3>2 DEF CycleState
  <2> QED
    BY <2>1, <2>2
<1>9. ASSUME c0.stage # TakeUpAgain,
             \* what the next stage asks of the tool and of the front
             /\ c2.stage \in {ToTakeup, ToApproach, Return, TakeUpAgain, ToStart} => pos.depth = Clearance
             /\ c2.stage = InfeedStage => pos = Home(c0.pass)
             /\ c2.stage \in CutStages =>
                  /\ c0.threadEntry => pos = Home(c0.pass) /\ ~entryCutting
                  /\ OnCut(c0)
             /\ c2.stage \in {SpindleOn, Cut} /\ c0.threadEntry => ~c0.reverseCut
             /\ c2.stage # Setup /\ (c2.stage \in Retract .. TakeUpAgain => cutTo = Endpoint(c0.pass))
      PROVE  Ready(c2)'
  <2>1. cutTo' = cutTo
    BY <1>7, <1>8, <1>9
  <2>2. ~c2.recovering
    BY <1>8, <1>9
  <2>3. At(c2, pos)
    BY <1>8, <1>9 DEF At
  <2>4. Front(c2)'
    BY <1>4, <1>8, <1>9, <2>1, <2>2 DEF Front, OnCut
  <2>5. Flags(c2)'
    BY <1>3, <1>4, <1>8, <1>9, <2>2 DEF Flags
  <2> QED
    BY <1>3, <1>8, <1>9, <2>3, <2>4, <2>5 DEF Ready, At
<1>10. CASE c0.stage = Setup
  <2>1. c2.stage \in {RetractFirst, Register} /\ (c2.stage = Register => c0.recovering /\ ~c0.restartEntry)
    BY <1>1, <1>3, <1>10 DEF AfterStage, AfterRecovery, CycleState
  <2>2. c2.stage = Register => OnCut(c0) /\ ~c0.threadEntry
    BY <1>4, <1>10, <2>1 DEF Front, Flags
  <2> QED
    BY <1>9, <1>10, <2>1, <2>2 DEF CutStages
<1>11. CASE c0.stage = Cut
  <2>1. c2.stage = IF c0.reverseCut THEN Register ELSE Retract
    BY <1>1, <1>3, <1>11 DEF AfterStage, AfterCut, CycleState
  <2>2. OnCut(c0) /\ (c0.reverseCut => ~c0.threadEntry)
    BY <1>4, <1>11 DEF Front, Flags, CutStages
  <2>3. ~c0.reverseCut => cutTo = Endpoint(c0.pass)
    <3>1. ~c0.reverseCut => pos.cut = Endpoint(c0.pass)
      BY <1>5, <1>11 DEF Reached
    <3>2. pos.cut <= cutTo /\ cutTo <= Endpoint(c0.pass) /\ Endpoint(c0.pass) \in Nat
      BY <1>4, <1>6, <1>11, <2>2, Stations DEF Front, OnCut
    <3> QED
      BY <1>6, <3>1, <3>2
  <2> QED
    BY <1>9, <1>11, <2>1, <2>2, <2>3 DEF CutStages
<1>12. CASE c0.stage = TakeUpAgain
  <2>1. pos = Home(c0.pass) /\ ~c0.recovering /\ c2 = NextStart(c1)
    BY <1>1, <1>3, <1>4, <1>5, <1>12 DEF Reached, Flags, AfterStage
  <2>2. ~c1.pausing
    BY <1>1 DEF Quiet
  <2> QED
    BY <1>1, <1>2, <1>4, <1>12, <2>1, <2>2, NextStartReady DEF Flags
<1>13. CASE c0.stage \notin {Setup, Cut, TakeUpAgain}
  <2>1. c2.stage = c0.stage + 1
    BY <1>1, <1>3, <1>13 DEF AfterStage, CycleState
  <2>2. CASE c0.stage \in {RetractFirst, ToTakeup, ToApproach, Retract, Return}
    <3>1. c2.stage \in Retract .. TakeUpAgain => c0.stage \in Retract .. TakeUpAgain
      BY <2>1, <2>2
    <3> QED
      BY <1>4, <1>5, <1>9, <2>1, <2>2, <3>1 DEF Reached, Front, CutStages, Home
  <2>3. CASE c0.stage = InfeedStage
    <3>1. ~Indexed /\ ~c0.threadEntry /\ pos = [cut |-> Approach(c0.pass), depth |-> Infeed(c0.pass)]
      BY <1>4, <1>5, <2>3 DEF Reached, Flags
    <3>2. OnCut(c0)
      BY <1>4, <1>6, <2>3, <3>1, Stations DEF OnCut, Front
    <3> QED
      BY <1>9, <2>1, <2>3, <3>1, <3>2 DEF CutStages
  <2>4. CASE c0.stage \in {Register, SpindleOn}
    <3>1. OnCut(c0) /\ (c0.threadEntry => pos = Home(c0.pass) /\ ~entryCutting /\ ~c0.reverseCut)
      BY <1>4, <2>4 DEF Front, EntryHome, Flags, CutStages
    <3> QED
      BY <1>9, <2>1, <2>4, <3>1 DEF CutStages
  <2>5. CASE c0.stage \in {ToStart, FinishInfeed, RestorePhase}
    BY <1>9, <2>1, <2>5 DEF CutStages
  <2> QED
    BY <1>6, <1>13, <2>2, <2>3, <2>4, <2>5 DEF Stage
<1> QED
  BY <1>10, <1>11, <1>12, <1>13
-----------------------------------------------------------------------------
(* Polls that let the cycle proceed.                                       *)

\* Waiting, and turning to a pause or a stop, move and submit nothing.
LEMMA PathSame ==
    ASSUME NEW n \in CycleState, PathAt(n), Work, stopping => stopping',
           c' = n \/ c' = [n EXCEPT !.pausing = TRUE],
           UNCHANGED <<pos, queue, exec, cmd, ack, req, abort, alarm, entryCutting, active, pending, cutTo>>
    PROVE  PathInv'
<1>1. /\ c'.stage = n.stage /\ c'.pass = n.pass /\ c'.waitingAck = n.waitingAck
      /\ c'.threadEntry = n.threadEntry /\ c'.reverseCut = n.reverseCut /\ c'.segment = n.segment
      /\ c'.recovering = n.recovering /\ c'.restartEntry = n.restartEntry
      /\ c'.cancelRequested = n.cancelRequested /\ c'.internalReset = n.internalReset
      /\ n.pausing => c'.pausing
  BY DEF CycleState
<1>2. Work' /\ (Quiet(c)' => Quiet(n))
  BY <1>1 DEF Work, Quiet
<1>3. /\ Outside /\ Requests(n) /\ Flags(n) /\ CommandFits(n) /\ BlocksFit(n)
      /\ Front(n) /\ EntryHome(n) /\ Progress(n)
  BY DEF PathAt
<1>4. Outside' /\ Requests(c)' /\ Flags(c)'
  BY <1>1, <1>2, <1>3 DEF Outside, Requests, Flags, Work
<1>5. CommandFits(c)'
  <2>1. CommandKind(c') = CommandKind(n) /\ Target(c)' = Target(n) /\ (At(n, pos) => At(c', pos'))
    BY <1>1 DEF CommandKind, Target, At
  <2> QED
    BY <1>1, <1>3, <2>1 DEF CommandFits, Queued, At
<1>6. BlocksFit(c)'
  BY <1>1, <1>3 DEF BlocksFit, RapidFits, PlungeFits, CutFits
<1>7. Front(c)' /\ EntryHome(c)'
  BY <1>1, <1>2, <1>3 DEF Front, OnCut, EntryHome, Work
<1>8. Progress(c)'
  BY <1>1, <1>2, <1>3 DEF Progress, Queued, Reached, At, PlannedEnd, ChordsLeft
<1> QED
  BY <1>2, <1>4, <1>5, <1>6, <1>7, <1>8 DEF PathInv, PathAt

LEMMA EmitKeeps ==
    ASSUME NEW c0 \in CycleState, Emit(c0)
    PROVE  c'.pass = c0.pass /\ c'.start = c0.start
<1>1. PICK c1 : c1 = Staged(c0)
  OBVIOUS
<1>2. c1 \in CycleState /\ c1.pass = c0.pass /\ c1.start = c0.start
  <2>1. Register \in Stage
    BY DEF Register, Stage
  <2>2. c1 \in CycleState
    BY <1>1, <2>1, StageChange DEF Staged
  <2> QED
    BY <1>1, <2>2 DEF Staged, CycleState
<1>3. PICK c2 : c2 = Aimed(c1, rpm')
  OBVIOUS
<1>4. c2.pass = c1.pass /\ c2.start = c1.start /\ DOMAIN c2 = DOMAIN c1
  BY <1>2, <1>3 DEF Aimed, CycleState
<1>5. c' \in {c1, c2, [c1 EXCEPT !.waitingAck = TRUE], [c2 EXCEPT !.waitingAck = TRUE],
             [c1 EXCEPT !.stage = Register]}
  BY <1>1, <1>3 DEF Emit, PrepareCut, Submit
<1>6. /\ [c1 EXCEPT !.waitingAck = TRUE].pass = c1.pass /\ [c1 EXCEPT !.waitingAck = TRUE].start = c1.start
      /\ [c1 EXCEPT !.stage = Register].pass = c1.pass /\ [c1 EXCEPT !.stage = Register].start = c1.start
  BY <1>2 DEF CycleState
<1>7. [c2 EXCEPT !.waitingAck = TRUE].pass = c2.pass /\ [c2 EXCEPT !.waitingAck = TRUE].start = c2.start
  BY <1>2, <1>4 DEF CycleState
<1> QED
  BY <1>2, <1>4, <1>5, <1>6, <1>7

LEMMA PathPollProceed ==
    ASSUME TypeInv, SynchronizedInProfile, PathInv, PollProceed
    PROVE  PathInv'
<1> USE DEF InfeedStage, Register, Cut, SpindleOn, ToStart, Setup, Retract, TakeUpAgain, LastStage
<1>0. PICK n : n = EntryNoted(c)
  OBVIOUS
<1>1. /\ Work /\ ~abort /\ alarm = "none" /\ ~stopping /\ exec # "hold" /\ ~n.pausing
      /\ Proceed(n) /\ UNCHANGED pending /\ Retold(c)
      /\ UNCHANGED <<pos, queue, exec, req, abort, alarm>>
  BY <1>0 DEF PollProceed, Work, StopSeen, Proceed
<1>2. /\ PathAt(n) /\ n \in CycleState /\ Placed(n) /\ n.pass = c.pass /\ n.start = c.start
  <2>1. n \in CycleState /\ n.pass = c.pass /\ n.stage = c.stage
    BY <1>0, EntryNotedType DEF TypeInv, TypeOK
  <2>2. n.start = c.start
    BY <1>0 DEF EntryNoted, TypeInv, TypeOK, CycleState
  <2>3. Placed(n)
    BY <2>1 DEF Placed, TypeInv, PassStages
  <2> QED
    BY <1>0, <1>1, <2>1, <2>2, <2>3, NotedPath
<1>3. /\ Quiet(n) /\ ~n.cancelRequested /\ ~n.internalReset /\ req = {} /\ exec \notin {"decel", "halted"}
      /\ Outside /\ Requests(n) /\ Flags(n) /\ CommandFits(n) /\ BlocksFit(n)
      /\ Front(n) /\ EntryHome(n) /\ Progress(n)
  BY <1>1, <1>2 DEF Quiet, PathAt, Requests, Flags
<1>4. active' => cutTo' = IF <<c'.pass, c'.start>> # <<n.pass, n.start>> /\ c'.pass < Passes
                          THEN Approach(c'.pass) ELSE cutTo
  BY <1>1, <1>2 DEF Retold
<1>5. CASE /\ UNCHANGED <<cmd, ack, entryCutting, active>> /\ (stopping => stopping')
           /\ c' = n \/ c' = [n EXCEPT !.pausing = TRUE]
  <2>1. c'.pass = n.pass /\ c'.start = n.start
    BY <1>2, <1>5 DEF CycleState
  <2>2. cutTo' = cutTo
    BY <1>1, <1>4, <1>5, <2>1 DEF Work
  <2> QED
    BY <1>1, <1>2, <1>5, <2>2, PathSame
\* emit() from a stage that is ready
<1>6. ASSUME NEW c2, Emit(c2), cmd = NoCommand, active' = active,
             \A i \in DOMAIN queue :
                Ellipse /\ c2.stage = Cut /\ queue[i].kind \in SpindleFed /\ CutFits(c2, queue[i].to),
             (cutTo' = IF <<c2.pass, c2.start>> # <<n.pass, n.start>> /\ c2.pass < Passes
                       THEN Approach(c2.pass) ELSE cutTo)
                => Ready(c2)',
             c2 \in CycleState
      PROVE  PathInv'
  <2>1. Kept /\ Free(c2)
    BY <1>1, <1>3, <1>6 DEF Kept, Free, Work
  <2>2. c'.pass = c2.pass /\ c'.start = c2.start
    BY <1>6, EmitKeeps
  <2>3. Ready(c2)'
    <3>1. active'
      BY <1>1, <1>6 DEF Work
    <3> QED
      BY <1>4, <1>6, <2>2, <3>1
  <2> QED
    BY <1>6, <2>1, <2>3, EmitPath
<1>7. CASE n.waitingAck /\ ack = "ok" /\ Completed(n)
  <2> DEFINE c1 == [n EXCEPT !.waitingAck = FALSE]
  <2>1. cmd = NoCommand /\ ~Queued
    BY <1>7 DEF SynchronizedInProfile, Queued, NoCommand
  <2>2. c1 \in CycleState /\ Same(c1, n) /\ c1.stage = n.stage
    BY <1>2, AckChange DEF CycleState, Same
  <2>3. CASE ChordsLeft(n)
    <3>1. PICK c2 : c2 = NextChord(c1)
      OBVIOUS
    <3>2. Emit(c2) /\ active' = active /\ Ellipse /\ n.stage = Cut /\ ~Indexed
      BY <1>7, <2>3, <3>1 DEF Completed, ChordsLeft, Indexed, Ellipse
    <3>3. c2 \in CycleState
      BY <1>2, <2>3, <3>1, NextChordType
    <3>4. /\ c2.pass = n.pass /\ c2.start = n.start /\ c2.stage = n.stage /\ ~c2.waitingAck
          /\ c2.cancelRequested = n.cancelRequested /\ c2.pausing = n.pausing
          /\ c2.internalReset = n.internalReset /\ c2.recovering = n.recovering
          /\ c2.threadEntry = n.threadEntry
      BY <1>2, <3>1 DEF NextChord, CycleState
    <3>5. ~n.threadEntry /\ ~n.recovering
      BY <1>1, <1>3, <3>2 DEF Flags
    <3>6. \A i \in DOMAIN queue :
             Ellipse /\ c2.stage = Cut /\ queue[i].kind \in SpindleFed /\ CutFits(c2, queue[i].to)
      <4> SUFFICES ASSUME NEW i \in DOMAIN queue
                   PROVE  queue[i].kind \in SpindleFed /\ CutFits(c2, queue[i].to)
        BY <3>2, <3>4
      <4>1. queue[i].kind \in BlockKinds
        <5>1. queue \in Seq(Block)
          BY DEF TypeInv, TypeOK
        <5>2. queue[i] \in Block
          BY <5>1
        <5> QED
          BY <5>2 DEF Block
      <4>2. queue[i].kind # "rapid"
        BY <1>3, <3>2 DEF BlocksFit, RapidFits, RapidStages, RetractFirst, ToTakeup, ToApproach, Return, FinishInfeed
      <4>3. queue[i].kind # "plunge"
        BY <1>3, <3>5 DEF BlocksFit, PlungeFits
      <4>4. queue[i].kind \in SpindleFed
        BY <4>1, <4>2, <4>3 DEF BlockKinds, SpindleFed
      <4>5. CutFits(n, queue[i].to)
        BY <1>3, <4>4 DEF BlocksFit
      <4> QED
        BY <3>4, <4>4, <4>5 DEF CutFits
    <3>7. ASSUME cutTo' = cutTo PROVE Ready(c2)'
      <4>1. Placed(c2) /\ Flags(c2)' /\ At(c2, pos)
        BY <1>1, <1>2, <1>3, <3>2, <3>4, <3>5
           DEF Placed, Flags, At, ToTakeup, ToApproach, Return
      <4>2. Front(c2)'
        BY <1>1, <1>3, <3>2, <3>4, <3>5, <3>7 DEF Front, OnCut, CutStages
      <4> QED
        BY <1>1, <1>3, <3>3, <3>4, <3>5, <4>1, <4>2 DEF Ready, At
    <3> QED
      BY <1>6, <2>1, <3>2, <3>3, <3>4, <3>6, <3>7
  <2>4. CASE ~ChordsLeft(n) /\ ~Idle
    BY <1>5, <1>7, <2>4 DEF Completed, StillMoving, spindle
  <2>5. CASE ~ChordsLeft(n) /\ Idle /\ n.stage = LastStage
    <3>1. /\ ~active' /\ c' = c1 /\ UNCHANGED <<cmd, ack>> /\ queue = <<>> /\ exec = "idle"
      BY <1>7, <2>5 DEF Completed, Finish, Idle
    <3>2. c'.stage = n.stage /\ c'.threadEntry = n.threadEntry /\ c'.internalReset = n.internalReset
          /\ c'.cancelRequested = n.cancelRequested /\ ~c'.waitingAck
      BY <1>2, <3>1 DEF CycleState
    <3>3. Outside' /\ Requests(c)' /\ Flags(c)' /\ ~Work'
      BY <1>1, <1>3, <2>1, <2>5, <3>1, <3>2 DEF Outside, Requests, Flags, Work
    <3>4. CommandFits(c)' /\ BlocksFit(c)' /\ EntryHome(c)' /\ Progress(c)'
      BY <1>1, <2>1, <2>5, <3>1, <3>2, <3>3
         DEF CommandFits, BlocksFit, EntryHome, Progress, Quiet, Queued, NoCommand
    <3> QED
      BY <3>3, <3>4 DEF PathInv, PathAt
  <2>6. CASE ~ChordsLeft(n) /\ Idle /\ n.stage # LastStage
    <3>1. PICK c2 : c2 = AfterStage(c1)
      OBVIOUS
    <3>2. Emit(c2) /\ active' = active /\ queue = <<>>
      BY <1>7, <2>6, <3>1 DEF Completed, Idle
    <3>3. (entryCutting' => entryCutting) /\ Work'
      BY <1>1, <3>2 DEF Emit, Work
    <3>4. ASSUME cutTo' = IF <<c2.pass, c2.start>> # <<n.pass, n.start>> /\ c2.pass < Passes
                          THEN Approach(c2.pass) ELSE cutTo
          PROVE Ready(c2)'
      BY <1>1, <1>2, <1>3, <1>7, <2>1, <2>6, <3>1, <3>2, <3>3, <3>4, AfterReady
    <3>5. c2 \in CycleState
      <4>1. Placed(c1) /\ c1.stage # LastStage /\ advance \in BOOLEAN
        BY <1>2, <2>2, <2>6 DEF Same, Placed, TypeInv, TypeOK
      <4> QED
        BY <2>2, <3>1, <4>1, AfterStageType
    <3>6. \A i \in DOMAIN queue : FALSE
      BY <3>2
    <3> QED
      BY <1>6, <2>1, <3>2, <3>4, <3>5, <3>6
  <2> QED
    BY <2>3, <2>4, <2>5, <2>6
<1>8. CASE ~n.waitingAck /\ Idle /\ Emit(n) /\ active' = active
  <2>1. cmd = NoCommand /\ queue = <<>>
    BY <1>1, <1>3, <1>8 DEF CommandFits, Idle
  <2>2. At(n, pos)
    BY <1>3, <1>8 DEF Progress
  <2>3. n.threadEntry /\ n.stage \in CutStages => ~entryCutting
    <3>1. n.threadEntry /\ n.stage = Cut /\ entryCutting =>
             pos.depth = Depth(n.pass) /\ pos.depth = Clearance /\ Indexed /\ n.pass \in PassIndex
      BY <1>1, <1>2, <1>3, <2>2, PlanAssumption DEF EntryHome, At, Flags, CutStages, Home, Placed, CycleState, PassIndex
    <3>2. n.threadEntry /\ n.stage = Cut => ~entryCutting
      BY <3>1, Stations DEF Clearance
    <3> QED
      BY <1>3, <3>2 DEF EntryHome, CutStages
  <2>4. ASSUME cutTo' = cutTo PROVE Ready(n)'
    <3>1. Flags(n)' /\ Front(n)'
      BY <1>1, <1>3, <1>8, <2>4 DEF Flags, Front, OnCut, Work
    <3>2. entryCutting' => entryCutting
      BY <1>8 DEF Emit
    <3> QED
      BY <1>1, <1>2, <1>3, <1>8, <2>2, <2>3, <3>1, <3>2 DEF Ready, At
  <2>5. \A i \in DOMAIN queue : FALSE
    BY <2>1
  <2> QED
    BY <1>2, <1>6, <1>8, <2>1, <2>4, <2>5
<1>9. \/ UNCHANGED <<cmd, ack, entryCutting, active>> /\ (stopping => stopping') /\ (c' = n \/ c' = [n EXCEPT !.pausing = TRUE])
      \/ n.waitingAck /\ ack = "ok" /\ Completed(n)
      \/ ~n.waitingAck /\ Idle /\ Emit(n) /\ active' = active
  BY <1>1 DEF Proceed, Rejected, spindle
<1> QED
  BY <1>5, <1>7, <1>8, <1>9

\* A planned operation begins with nothing cut and nothing planned.
LEMMA PathPollBegin ==
    ASSUME TypeInv, StoppedByReset, PathInv, PollBegin
    PROVE  PathInv'
<1>1. PICK d \in {-1, 1} : Begins([Fresh EXCEPT !.planDir = d])
  BY BeginsSomeWay
<1>2. PICK c0 : c0 = [Fresh EXCEPT !.planDir = d]
  OBVIOUS
<1>3. /\ active /\ ~Work /\ pending' = FALSE /\ cmd = NoCommand /\ queue = <<>> /\ exec = "idle"
      /\ ~abort => req = {} /\ cutTo' = Approach(0)
  BY DEF PollBegin, Idle, Work, PathInv, PathAt, Requests
<1>4. /\ c0 \in CycleState /\ Placed(c0) /\ c0.pass = 0 /\ c0.stage = Setup
      /\ ~c0.waitingAck /\ ~c0.cancelRequested /\ ~c0.pausing /\ ~c0.internalReset
      /\ ~c0.threadEntry /\ ~c0.recovering
  BY <1>2, FreshType DEF Fresh
<1>5. 0 \in PassIndex /\ 0 < Passes /\ Approach(0) \in Nat /\ Approach(0) <= Endpoint(0)
  BY Stations, PlanAssumption DEF PassIndex
<1> USE DEF RetractFirst, ToTakeup, ToApproach, InfeedStage, Register, SpindleOn, Cut, Retract,
            Return, TakeUpAgain, ToStart, FinishInfeed, Setup
<1>6. CASE abort
  <2>1. Finish(c0) /\ UNCHANGED <<core, rpm, entryCutting, stopping, advance>>
    BY <1>1, <1>2, <1>6 DEF Begins
  <2>2. /\ ~active' /\ c' = c0 /\ UNCHANGED <<cmd, queue, exec, abort>>
    BY <2>1 DEF Finish, core
  <2> QED
    BY <1>3, <1>4, <1>6, <2>2
       DEF PathInv, PathAt, Outside, Requests, Flags, CommandFits, BlocksFit, EntryHome, Progress, Quiet, Work
<1>7. CASE ~abort /\ stopping
  <2>1. /\ c' = [c0 EXCEPT !.cancelRequested = TRUE]
        /\ UNCHANGED <<pos, queue, exec, cmd, ack, abort, alarm, entryCutting, active, stopping>>
    BY <1>1, <1>2, <1>7 DEF Begins
  <2>2. /\ c'.cancelRequested /\ c'.pass = 0 /\ c'.stage = Setup
        /\ ~c'.waitingAck /\ ~c'.internalReset /\ ~c'.threadEntry /\ ~c'.recovering
    BY <1>4, <2>1 DEF CycleState
  <2>3. Outside' /\ Requests(c)' /\ Flags(c)'
    BY <1>3, <1>7, <2>1, <2>2 DEF Outside, Requests, Flags, Work
  <2>4. CommandFits(c)' /\ BlocksFit(c)' /\ EntryHome(c)' /\ Progress(c)'
    BY <1>3, <1>7, <2>1, <2>2 DEF CommandFits, BlocksFit, EntryHome, Progress, Quiet, Queued, NoCommand
  <2>5. Front(c)'
    BY <1>3, <1>5, <1>7, <2>2 DEF Front, CutStages
  <2> QED
    BY <2>3, <2>4, <2>5 DEF PathInv, PathAt
<1>8. CASE ~abort /\ ~stopping
  <2>1. Emit(c0) /\ UNCHANGED <<pos, queue, exec, req, abort, alarm, active>>
    BY <1>1, <1>2, <1>8 DEF Begins
  <2>2. Kept
    BY <1>3, <2>1 DEF Kept, Work
  <2>3. Free(c0)
    BY <1>3, <1>8 DEF Free, PathInv, PathAt
  <2>4. Flags(c0)' /\ At(c0, pos)' /\ Front(c0)'
    BY <1>3, <1>4, <1>5, <1>8 DEF Flags, At, Front, CutStages
  <2>5. Ready(c0)'
    BY <1>4, <2>4 DEF Ready
  <2> QED
    BY <2>1, <2>2, <2>3, <2>5, EmitPath
<1> QED
  BY <1>6, <1>7, <1>8

LEMMA PathStep ==
    ASSUME IInv, PathInv, [Next]_vars
    PROVE  PathInv'
<1>1. TypeInv /\ StoppedByReset /\ SynchronizedInProfile /\ TypeOK
  BY DEF IInv, TypeInv, ResetInv, ProfileInv
<1>2. CASE Request \/ Cancel \/ Advance \/ Unlock
  BY <1>1, <1>2, PathOperator
<1>3. CASE UserReset
  BY <1>3, PathUserReset
<1>4. CASE Poll
  BY <1>1, <1>4, PathPollEnds, PathPollCancel, PathPollProceed, PathPollBegin DEF Poll
<1>5. CASE CoreReset
  BY <1>1, <1>5, PathReset
<1>6. CASE ParseStep
  BY <1>1, <1>6, PathParse
<1>7. CASE StepPulseCuts
  BY <1>1, <1>7, PathPulse
<1>8. CASE CoreStep /\ UNCHANGED <<shared, c, cutTo>>
  BY <1>1, <1>8, PathCore
<1>9. CASE UNCHANGED vars
  <2>1. PathAt(c)
    BY DEF PathInv
  <2> QED
    BY <1>9, <2>1 DEF vars, core, spindle, shared, PathInv, PathAt, Outside, Requests, Flags, CommandFits,
       BlocksFit, Front, EntryHome, Progress, Quiet, Work, Queued, At, Target, RapidFits,
       PlungeFits, CutFits, OnCut, Reached, PlannedEnd
<1> QED
  BY <1>2, <1>3, <1>4, <1>5, <1>6, <1>7, <1>8, <1>9 DEF Next

LEMMA PathInit == Init => PathInv
<1> SUFFICES ASSUME Init PROVE PathInv
  OBVIOUS
<1>1. /\ queue = <<>> /\ exec = "idle" /\ cmd = NoCommand /\ req = {} /\ ~Work /\ c = Fresh
  BY DEF Init, CoreInit, Work
<1>2. ~Fresh.threadEntry /\ ~Fresh.internalReset /\ ~Fresh.waitingAck
  BY DEF Fresh
<1>3. Outside /\ Requests(c) /\ Flags(c)
  BY <1>1, <1>2 DEF Outside, Requests, Flags
<1>4. CommandFits(c) /\ BlocksFit(c) /\ EntryHome(c) /\ Progress(c)
  BY <1>1, <1>2 DEF CommandFits, BlocksFit, EntryHome, Progress, Quiet, Queued, NoCommand
<1> QED
  BY <1>1, <1>3, <1>4 DEF PathInv, PathAt

\* The invariants of the cycle together.
LEMMA PathSafety == Spec => [](IInv /\ PathInv)
<1>1. Init => IInv /\ PathInv
  <2>1. Init => ProfileInv
    BY DEF Init, CoreInit, ProfileInv, SynchronizedInProfile, NoOwnAlarm, Synchronized, NoCommand
  <2> QED
    BY <2>1, TypeInit, ResetInit, PathInit DEF IInv
<1>2. IInv /\ PathInv /\ [Next]_vars => IInv' /\ PathInv'
  BY TypeStep, ResetStep, ProfileStep, PathStep DEF IInv
<1> QED
  BY <1>1, <1>2, PTL DEF Spec

-----------------------------------------------------------------------------
(* What the path of the tool promises.                                     *)

(* A rapid along the cutting axis runs only in the clear, through every    *)
(* interruption, recovery and restart: RapidFits holds of a planned rapid  *)
(* at every position it passes through.                                    *)
THEOREM ClearSafety == Spec => []RapidsAreClear
<1>1. IInv /\ PathInv => RapidsAreClear
  <2> SUFFICES ASSUME PathInv, NEW i \in DOMAIN queue,
                      queue[i].kind = "rapid", queue[i].to.cut # pos.cut
               PROVE  pos.depth = Clearance
    BY DEF RapidsAreClear
  <2> QED
    BY DEF PathInv, PathAt, BlocksFit, RapidFits, RapidStages
<1> QED
  BY PathSafety, <1>1, PTL

(* The tool goes deeper only at the starting station of its pass, or in    *)
(* the closing infeed back to depth_start.                                 *)
THEOREM InfeedSafety == Spec => []InfeedsAtApproach
<1>1. IInv /\ PathInv => InfeedsAtApproach
  <2> SUFFICES ASSUME IInv, PathInv, queue # <<>>, queue[1].kind \in {"rapid", "plunge"},
                      queue[1].to.depth > pos.depth, c.stage # FinishInfeed
               PROVE  c.pass < Passes /\ pos.cut = Approach(c.pass)
    BY QueueEnds DEF InfeedsAtApproach, IInv, TypeInv
  <2> USE DEF RetractFirst, ToTakeup, ToApproach, InfeedStage, Cut, Retract, Return, TakeUpAgain,
              ToStart, FinishInfeed
  <2>1. /\ 1 \in DOMAIN queue /\ BlocksFit(c) /\ pos.depth \in Nat
        /\ c \in CycleState /\ Placed(c)
    BY QueueEnds DEF PathInv, PathAt, IInv, TypeInv, TypeOK, Point, PassStages, Placed
  <2>2. c.stage \in {InfeedStage, Cut} /\ pos.cut = Approach(c.pass)
    <3>1. CASE queue[1].kind = "plunge"
      BY <2>1, <3>1 DEF BlocksFit, PlungeFits
    <3>2. CASE queue[1].kind = "rapid"
      BY <2>1, <3>2 DEF BlocksFit, RapidFits, RapidStages, Clearance
    <3> QED
      BY <3>1, <3>2
  <2> QED
    BY <2>1, <2>2, PlanAssumption DEF Placed, CycleState
<1> QED
  BY PathSafety, <1>1, PTL

(* THREADING.md: a thread waits for its phase with the tool clear, at the  *)
(* approach of its pass.                                                   *)
THEOREM EntrySafety == Spec => []EntryWaitsClear
<1>1. IInv /\ PathInv => EntryWaitsClear
  <2> SUFFICES ASSUME IInv, PathInv PROVE EntryWaitsClear
    OBVIOUS
  <2>1. exec = "wait" /\ Head(queue).kind = "plunge"
           => pos.depth = Clearance /\ pos.cut = Approach(c.pass)
    <3> SUFFICES ASSUME exec = "wait", Head(queue).kind = "plunge"
                 PROVE  pos.depth = Clearance /\ pos.cut = Approach(c.pass)
      OBVIOUS
    <3>1. queue # <<>> /\ TypeOK /\ BlocksFit(c)
      BY DEF PathInv, PathAt, Outside, IInv, TypeInv
    <3> QED
      BY <3>1, QueueEnds DEF BlocksFit, PlungeFits
  <2>2. active /\ c.threadEntry /\ c.stage \in {Register, SpindleOn}
           => pos.depth = Clearance /\ pos.cut = Approach(c.pass)
    BY DEF PathInv, PathAt, EntryHome, Home
  <2> QED
    BY <2>1, <2>2 DEF EntryWaitsClear
<1> QED
  BY PathSafety, <1>1, PTL

(* Every start is cut to its end before the tool leaves it, however often  *)
(* the cut was paused, retraced and resumed.                               *)
THEOREM CompleteSafety == Spec => []CutComplete
<1>1. IInv /\ PathInv => CutComplete
  BY DEF CutComplete, IInv, TypeInv, PassStages, PathInv, PathAt, Front, Work
<1> QED
  BY PathSafety, <1>1, PTL

(* While a spindle-fed move of one command is planned the poll watches the *)
(* spindle for it.  The chords of an ellipse are planned ahead, and emit() *)
(* goes back to waiting for the spindle with chords still in the planner:  *)
(* the theorem is about every operation but the ellipse.                   *)
THEOREM SupervisedSafety == ~Ellipse => (Spec => []CutSupervised)
<1> SUFFICES ASSUME ~Ellipse PROVE Spec => []CutSupervised
  OBVIOUS
<1>1. IInv /\ PathInv => CutSupervised
  <2> SUFFICES ASSUME IInv, PathInv, NEW i \in DOMAIN queue, queue[i].kind # "rapid"
               PROVE  c.stage = Cut /\ c.waitingAck
    BY DEF CutSupervised
  <2>1. BlocksFit(c) /\ queue[i].kind \in BlockKinds /\ queue # <<>>
    <3>1. queue \in Seq(Block)
      BY DEF IInv, TypeInv, TypeOK
    <3>2. queue[i] \in Block /\ queue # <<>>
      BY <3>1
    <3> QED
      BY <3>2 DEF PathInv, PathAt, Block
  <2> QED
    BY <2>1 DEF BlocksFit, PlungeFits, CutFits, BlockKinds, SpindleFed
<1> QED
  BY PathSafety, <1>1, PTL

-----------------------------------------------------------------------------
(* The cycle implements its contract.                                      *)

\* Out of work nothing is cut.
NothingCut == ~Work => cutTo = 0

LEMMA NothingCutStep ==
    ASSUME NothingCut, [Next]_vars
    PROVE  NothingCut'
<1> USE DEF NothingCut, Work
<1>1. CASE Request \/ Cancel \/ Advance \/ Unlock \/ UserReset
  BY <1>1 DEF Request, Cancel, Advance, Unlock, UserReset, shared
<1>2. CASE PollAlarm \/ PollAborted \/ PollRefuse
  BY <1>2 DEF PollAlarm, PollAborted, PollRefuse
<1>3. CASE PollCancel
  BY <1>3 DEF PollCancel, CancelMotion
<1>4. CASE PollProceed
  BY <1>4 DEF PollProceed, Retold
<1>5. CASE PollBegin
  <2>1. PICK d \in {-1, 1} : Begins([Fresh EXCEPT !.planDir = d])
    BY <1>5, BeginsSomeWay
  <2>2. pending' = FALSE /\ active /\ (abort => cutTo' = 0)
    BY <1>5 DEF PollBegin
  <2>3. ~abort => active' = active
    BY <2>1 DEF Begins
  <2> QED
    BY <2>2, <2>3
<1>6. CASE CoreReset
  BY <1>6 DEF CoreReset, Recovers, shared
<1>7. CASE ParseStep \/ (CoreStep /\ UNCHANGED <<shared, c, cutTo>>) \/ UNCHANGED vars
  BY <1>7 DEF ParseStep, shared, vars
<1>8. CASE StepPulseCuts
  BY <1>8 DEF StepPulseCuts, CutsAt, shared
<1> QED
  BY <1>1, <1>2, <1>3, <1>4, <1>5, <1>6, <1>7, <1>8 DEF Next, Poll

\* A cut has a length on every pass.
LEMMA CutHasLength ==
    ASSUME NEW p \in PassIndex
    PROVE  /\ Approach(p) \in Nat /\ Endpoint(p) \in Nat
           /\ Approach(p) < Endpoint(p)
<1>1. /\ p + 1 \in Nat \ {0} /\ p + 1 <= Passes /\ Passes \in Nat \ {0}
      /\ Segments \in Nat \ {0} /\ CutSteps \in Nat \ {0}
  BY PlanAssumption DEF PassIndex
<1>2. CASE Ellipse
  <2>1. (Passes - (p + 1)) * Segments + Segments * (p + 1) = Passes * Segments
    BY <1>1, Products
  <2>2. Segments * (p + 1) \in Nat \ {0} /\ (Passes - (p + 1)) * Segments \in Nat
    BY <1>1
  <2>3. /\ Endpoint(p) = Passes * Segments
        /\ Approach(p) = (Passes - (p + 1)) * Segments + 0 * (p + 1)
    BY <1>2 DEF Endpoint, Approach, PointCut, CutEnd, Ellipse, Parting
  <2> QED
    BY <1>1, <2>1, <2>2, <2>3
<1>3. CASE ~Ellipse
  <2>1. Approach(p) = IF Indexed THEN 1 ELSE 0
    BY <1>3 DEF Approach, CutStart
  <2>2. CASE Parting
    <3>1. Endpoint(p) = (p + 1) * CutSteps /\ (p + 1) * CutSteps \in Nat \ {0} /\ ~Indexed
      BY <1>1, <2>2 DEF Endpoint, Indexed, Parting
    <3> QED
      BY <2>1, <3>1
  <2>3. CASE ~Parting
    <3>1. Endpoint(p) = CutSteps
      BY <1>3, <2>3 DEF Endpoint, CutEnd
    <3> QED
      BY <1>1, <2>1, <3>1, PlanAssumption
  <2> QED
    BY <2>2, <2>3
<1> QED
  BY <1>2, <1>3

\* What the abstract state is made of.
Seen == <<active, pending, c.pass, c.start, cutTo>>

LEMMA Stutters ==
    ASSUME UNCHANGED Seen
    PROVE  UNCHANGED Contract!vars
BY DEF Seen, Contract!vars, Phase, Whole

LEMMA Ends ==
    ASSUME active, ~active', cutTo' = 0, c'.pass = c.pass, c'.start = c.start,
           c \in CycleState
    PROVE  Contract!End
<1>1. ~Whole'
  <2>1. c.pass \in PassIndex => Endpoint(c.pass) # 0
    BY CutHasLength
  <2> QED
    BY <2>1, PlanAssumption DEF Whole, PassIndex, CycleState
<1> QED
  BY <1>1 DEF Contract!End, Phase

\* A poll that goes on cuts the next start, or the next pass, of a pass that
\* is cut to its end.
LEMMA ProceedImplements ==
    ASSUME IInv, PathInv, PollProceed
    PROVE  [Contract!Next]_(Contract!vars)
<1> USE DEF InfeedStage, Register, Cut, SpindleOn, ToStart, Setup, Retract, TakeUpAgain, LastStage
<1>0. PICK n : n = EntryNoted(c)
  OBVIOUS
<1>1. /\ active /\ ~pending /\ pending' = pending /\ Proceed(n) /\ Retold(c)
  BY <1>0 DEF PollProceed
<1>2. /\ n \in CycleState /\ n.pass = c.pass /\ n.start = c.start /\ n.stage = c.stage
      /\ c \in CycleState /\ Placed(n)
  <2>1. c \in CycleState /\ PassStages
    BY DEF IInv, TypeInv, TypeOK
  <2>2. n \in CycleState /\ n.pass = c.pass /\ n.stage = c.stage
    BY <1>0, <2>1, EntryNotedType
  <2>3. n.start = c.start
    BY <1>0, <2>1 DEF EntryNoted, CycleState
  <2> QED
    BY <2>1, <2>2, <2>3 DEF Placed, PassStages
<1>3. CASE active' /\ c'.pass = n.pass /\ c'.start = n.start
  <2>1. UNCHANGED Seen
    BY <1>1, <1>2, <1>3 DEF Seen, Retold
  <2> QED
    BY <2>1, Stutters
<1>4. CASE ~active' /\ c'.pass = n.pass /\ c'.start = n.start
  BY <1>1, <1>2, <1>4, Ends DEF Retold, Contract!Next
<1>5. PICK c1 : c1 = [n EXCEPT !.waitingAck = FALSE]
  OBVIOUS
<1>6. /\ c1 \in CycleState /\ c1.pass = n.pass /\ c1.start = n.start /\ c1.stage = n.stage
  BY <1>2, <1>5 DEF CycleState
<1>7. CASE ~ChordsLeft(n) /\ n.stage # LastStage /\ Emit(AfterStage(c1)) /\ active'
  <2>1. PICK c2 : c2 = AfterStage(c1)
    OBVIOUS
  <2>2. c2 \in CycleState
    BY <1>2, <1>6, <1>7, <2>1, AfterStageType DEF Placed, IInv, TypeInv, TypeOK
  <2>3. c'.pass = c2.pass /\ c'.start = c2.start
    BY <1>7, <2>1, <2>2, EmitKeeps
  <2>4. CASE c1.stage # TakeUpAgain
    <3>1. c2.pass = c1.pass /\ c2.start = c1.start
      BY <1>6, <2>1, <2>4 DEF AfterStage, CycleState
    <3> QED
      BY <1>3, <1>6, <1>7, <2>3, <3>1
  <2>5. CASE c1.stage = TakeUpAgain
    <3>1. c.pass \in PassIndex /\ c.start \in 0 .. PlanStarts - 1 /\ PlanStarts \in Nat \ {0}
      BY <1>2, <1>6, <2>5, PlanPoints, PlanAssumption DEF Placed, CycleState, PassIndex
    <3>2. cutTo = Endpoint(c.pass)
      BY <1>1, <1>2, <1>6, <2>5 DEF PathInv, PathAt, Front, Work
    <3>3. /\ c2.start = IF c1.start + 1 = PlanStarts THEN 0 ELSE c1.start + 1
          /\ c2.pass = IF c1.start + 1 = PlanStarts THEN NextPass(c1) ELSE c1.pass
      <4>1. c2 = NextStart(c1)
        BY <2>1, <2>5 DEF AfterStage
      <4> QED
        BY <1>6, <4>1 DEF NextStart, CycleState
    <3>4. /\ NextPass(c1) = c.pass + 1 \/ (NextPass(c1) = c.pass + 2 /\ NextPass(c1) < Passes)
          /\ NextPass(c1) # c.pass
      BY <1>2, <1>6, <3>1 DEF NextPass, PassIndex
    <3>5. <<c'.pass, c'.start>> # <<c.pass, c.start>>
      BY <1>2, <1>6, <2>3, <3>1, <3>3, <3>4
    <3>6. c'.pass < Passes => c'.pass \in PassIndex /\ cutTo' = Approach(c'.pass)
      BY <1>1, <1>7, <2>2, <2>3, <3>5, PlanAssumption DEF Retold, CycleState, PassIndex
    <3>7. ~Whole'
      BY <3>6, CutHasLength DEF Whole
    <3>8. Phase = "working" /\ Phase' = "working" /\ Whole
      BY <1>1, <1>7, <3>1, <3>2, PlanAssumption DEF Phase, Whole, PassIndex
    <3>9. CASE c.start + 1 = PlanStarts
      BY <1>2, <1>6, <2>3, <3>3, <3>4, <3>7, <3>8, <3>9 DEF Contract!NextPass, Contract!Next
    <3>10. CASE c.start + 1 # PlanStarts
      BY <1>2, <1>6, <2>3, <3>1, <3>3, <3>7, <3>8, <3>10 DEF Contract!NextStart, Contract!Next
    <3> QED
      BY <3>9, <3>10
  <2> QED
    BY <2>4, <2>5
<1>8. CASE n.waitingAck /\ ack = "ok" /\ Completed(n)
  <2>1. CASE ChordsLeft(n)
    <3>1. PICK c2 : c2 = NextChord(c1)
      OBVIOUS
    <3>2. Emit(c2) /\ active' = active
      BY <1>5, <1>8, <2>1, <3>1 DEF Completed
    <3>3. c2 \in CycleState /\ c2.pass = c1.pass /\ c2.start = c1.start
      <4>1. ChordsLeft(c1)
        BY <1>2, <1>5, <1>6, <2>1 DEF ChordsLeft, CycleState
      <4> QED
        BY <1>6, <3>1, <4>1, NextChordType DEF NextChord, CycleState
    <3> QED
      BY <1>1, <1>3, <1>6, <3>2, <3>3, EmitKeeps
  <2>2. CASE ~ChordsLeft(n) /\ ~Idle
    BY <1>1, <1>3, <1>8, <2>2 DEF Completed, StillMoving
  <2>3. CASE ~ChordsLeft(n) /\ Idle /\ n.stage = LastStage
    BY <1>4, <1>5, <1>6, <1>8, <2>3 DEF Completed, Finish
  <2>4. CASE ~ChordsLeft(n) /\ Idle /\ n.stage # LastStage
    BY <1>1, <1>5, <1>7, <1>8, <2>4 DEF Completed
  <2> QED
    BY <2>1, <2>2, <2>3, <2>4
<1>9. CASE ~n.waitingAck /\ Idle /\ Emit(n) /\ active' = active
  BY <1>1, <1>2, <1>3, <1>9, EmitKeeps
<1>10. CASE c' = n \/ c' = [n EXCEPT !.pausing = TRUE]
  <2>1. c'.pass = n.pass /\ c'.start = n.start
    BY <1>2, <1>10 DEF CycleState
  <2> QED
    BY <1>3, <1>4, <2>1
<1>11. \/ n.waitingAck /\ ack = "ok" /\ Completed(n)
       \/ ~n.waitingAck /\ Idle /\ Emit(n) /\ active' = active
       \/ c' = n
       \/ c' = [n EXCEPT !.pausing = TRUE]
  BY <1>1 DEF Proceed, Rejected
<1> QED
  BY <1>8, <1>9, <1>10, <1>11

\* Every step of the cycle is a step of its contract, or none.
LEMMA StepImplements ==
    ASSUME IInv, PathInv, NothingCut, PathInv', [Next]_vars
    PROVE  [Contract!Next]_(Contract!vars)
<1>0. c \in CycleState /\ (c.pass < Passes <=> c.pass \in PassIndex)
  BY PlanAssumption DEF IInv, TypeInv, TypeOK, CycleState, PassIndex
<1>1. CASE Request
  <2>1. /\ ~active /\ active' /\ pending' /\ UNCHANGED <<c, cutTo>>
    BY <1>1 DEF Request
  <2> QED
    BY <2>1 DEF Contract!Ask, Contract!Next, Phase, Whole
<1>2. CASE Cancel \/ Advance \/ UserReset \/ Unlock
  BY <1>2, Stutters DEF Cancel, Advance, UserReset, Unlock, Seen, shared
<1>3. CASE PollAlarm \/ PollAborted
  BY <1>0, <1>3, Ends DEF PollAlarm, PollAborted, Finish, Contract!Next
<1>4. CASE PollCancel
  <2>1. PICK n : n = EntryNoted(c)
    OBVIOUS
  <2>2. n \in CycleState /\ n.pass = c.pass /\ n.start = c.start
    BY <1>0, <2>1, EntryNotedType DEF EntryNoted, CycleState
  <2>3. c'.pass = n.pass /\ c'.start = n.start /\ UNCHANGED <<active, pending, cutTo>>
    BY <1>4, <2>1, <2>2 DEF PollCancel, CancelMotion, CycleState
  <2> QED
    BY <2>2, <2>3, Stutters DEF Seen
<1>5. CASE PollProceed
  BY <1>5, ProceedImplements
<1>6. CASE PollRefuse \/ PollBegin
  <2>1. /\ active /\ pending /\ pending' = FALSE /\ c'.pass = 0 /\ c'.start = 0
        /\ cutTo' = 0 \/ cutTo' = Approach(0)
    <3>1. CASE PollRefuse
      BY <3>1 DEF PollRefuse, Finish, Fresh
    <3>2. CASE PollBegin
      <4>1. PICK d \in {-1, 1} : Begins([Fresh EXCEPT !.planDir = d])
        BY <3>2, BeginsSomeWay
      <4>2. PICK c0 : c0 = [Fresh EXCEPT !.planDir = d]
        OBVIOUS
      <4>3. c0 \in CycleState /\ c0.pass = 0 /\ c0.start = 0
        BY <4>2, FreshType DEF Fresh
      <4>4. c'.pass = 0 /\ c'.start = 0
        BY <4>1, <4>2, <4>3, EmitKeeps DEF Begins, Finish, CycleState
      <4> QED
        BY <3>2, <4>4 DEF PollBegin
    <3> QED
      BY <1>6, <3>1, <3>2
  <2>2. ~Whole'
    <3>1. 0 \in PassIndex
      BY PlanAssumption DEF PassIndex
    <3> QED
      BY <2>1, <3>1, CutHasLength DEF Whole
  <2> QED
    BY <2>1, <2>2 DEF Contract!Begin, Contract!Uncut, Contract!Next, Phase
<1>7. CASE CoreReset
  <2>1. c'.pass = c.pass /\ c'.start = c.start
    BY <1>0, <1>7 DEF CoreReset, Recovered, CycleState
  <2>2. CASE Recovers
    BY <1>7, <2>1, <2>2, Stutters DEF CoreReset, Seen, shared
  <2>3. CASE ~Recovers /\ active
    BY <1>0, <1>7, <2>1, <2>3, Ends DEF CoreReset, Contract!Next
  <2>4. CASE ~Recovers /\ ~active
    <3>1. ~active' /\ cutTo = 0 /\ cutTo' = 0
      BY <1>7, <2>4 DEF CoreReset, NothingCut, Work
    <3> QED
      BY <2>1, <2>4, <3>1 DEF Contract!vars, Phase, Whole
  <2> QED
    BY <2>2, <2>3, <2>4
<1>8. CASE ParseStep \/ (CoreStep /\ UNCHANGED <<shared, c, cutTo>>) \/ UNCHANGED vars
  BY <1>8, Stutters DEF ParseStep, shared, vars, Seen
<1>9. CASE StepPulseCuts
  <2>1. UNCHANGED <<active, pending, c>>
    BY <1>9 DEF StepPulseCuts, shared
  <2>2. cutTo' = cutTo \/ (cutTo' > cutTo /\ Work /\ c.pass < Passes /\ cutTo \in Nat)
    BY <1>9 DEF StepPulseCuts, CutsAt, Work, IInv, TypeInv, TypeOK
  <2>3. CASE cutTo' = cutTo
    BY <2>1, <2>3, Stutters DEF Seen
  <2>4. CASE cutTo' > cutTo /\ Work /\ c.pass < Passes /\ cutTo \in Nat
    <3>1. cutTo' <= Endpoint(c.pass) /\ Endpoint(c.pass) \in Nat /\ cutTo' \in Nat
      BY <1>0, <2>1, <2>4, CutHasLength, TypeStep DEF PathInv, PathAt, Front, Work, IInv, TypeInv, TypeOK
    <3>2. ~Whole
      BY <2>4, <3>1 DEF Whole
    <3>3. CASE cutTo' = Endpoint(c.pass)
      BY <2>1, <2>4, <3>2, <3>3 DEF Contract!CutToEnd, Contract!Next, Phase, Whole, Work
    <3>4. CASE cutTo' # Endpoint(c.pass)
      BY <2>1, <3>2, <3>4 DEF Contract!vars, Phase, Whole
    <3> QED
      BY <3>3, <3>4
  <2> QED
    BY <2>2, <2>3, <2>4
<1> QED
  BY <1>1, <1>2, <1>3, <1>4, <1>5, <1>6, <1>7, <1>8, <1>9 DEF Next, Poll

(* The cycle implements its contract, for every plan: depths and starts    *)
(* are cut in order and each to its end, through every interruption and    *)
(* recovery, a skip never drops the last depth.                            *)
THEOREM ContractKept == Spec => KeepsContract
<1>1. Init => Contract!Init
  <2> SUFFICES ASSUME Init PROVE Contract!Init
    OBVIOUS
  <2>1. ~active /\ c.pass = 0 /\ c.start = 0 /\ cutTo = 0
    BY DEF Init, Fresh
  <2>2. 0 \in PassIndex
    BY PlanAssumption DEF PassIndex
  <2>3. ~Whole
    BY <2>1, <2>2, CutHasLength DEF Whole
  <2> QED
    BY <2>1, <2>3 DEF Contract!Init, Phase
<1>2. Init => NothingCut
  BY DEF Init, NothingCut
<1>3. NothingCut /\ [Next]_vars => NothingCut'
  BY NothingCutStep
<1>4. Spec => []NothingCut
  BY <1>2, <1>3, PTL DEF Spec
<1>5. /\ IInv /\ PathInv /\ NothingCut /\ PathInv' /\ [Next]_vars
      => [Contract!Next]_(Contract!vars)
  BY StepImplements
<1> QED
  BY <1>1, <1>4, <1>5, PathSafety, PTL DEF Spec, KeepsContract, Contract!Spec
=============================================================================
