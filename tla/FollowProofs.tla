----------------------------- MODULE FollowProofs -----------------------------
(* Proofs about the assisted feed, for every lead, every bound of the axis and of
   the count, and every set of speeds and directions.

   A line is submitted to an empty queue and waited for (LineInv), so a poll that
   goes on finds nothing on its way to the core.  Hence a G33 block is alone in the
   planner (PlanInv), and the phase it starts at is the one that was computed from
   where the axis still stands (PhaseInv).  What the gear is moved by is a whole
   number of turns (RegisteredIsGear, DiscardedTurns).                            *)
EXTENDS Follow, TLAPS

----------------------------------------------------------------------------
(* The invariant. *)

Copies == [on : {TRUE}, begin : BOOLEAN, stop : BOOLEAN, jog : BOOLEAN, held : BOOLEAN,
           release : BOOLEAN, update : BOOLEAN, config : Config, current : BOOLEAN]
Jogs == [pending : BOOLEAN, sign : {1, -1}, whole : BOOLEAN]
Commands == [kind : {"none", "word", "phase", "sync", "busy", "feed", "jog"}, to : Int]
Blocks == [kind : {"feed", "sync"}, to : 0..ZMax, base : Int]

\* The types, with the shapes of the records that TypeOK leaves open.
Asked ==
  /\ active \in BOOLEAN /\ pending \in BOOLEAN /\ stop \in BOOLEAN /\ held \in BOOLEAN
  /\ release \in BOOLEAN /\ update \in BOOLEAN
Doing ==
  /\ stopping \in BOOLEAN /\ internalReset \in BOOLEAN /\ waiting \in BOOLEAN
  /\ manual \in BOOLEAN /\ following \in BOOLEAN
Noted ==
  /\ registered \in BOOLEAN /\ idled \in BOOLEAN /\ cancel \in BOOLEAN
  /\ reset \in BOOLEAN /\ alarm \in BOOLEAN
Flags == Asked /\ Doing /\ Noted
Records ==
  /\ request \in Config /\ config \in Config
  /\ seen \in Copies \cup {NotPolling} /\ jog \in Jogs
Positions ==
  /\ stage \in 0..5 /\ direction \in {1, -1}
  /\ z \in 0..ZMax /\ submitted \in 0..ZMax
  /\ phase \in 0..Turn - 1 /\ armed \in 0..Turn - 1
  /\ gear \in Int /\ counts \in Int /\ previous \in Int /\ rpm \in Int
Queues ==
  /\ line \in Commands /\ ack \in {"none", "ok", "error"}
  /\ plan \in Seq(Blocks) /\ exec \in {"idle", "wait", "run", "decel"}
Typed == Flags /\ Records /\ Positions /\ Queues

\* A line is submitted to an empty queue, and waited for.
LineInv ==
  /\ line.kind = "none" => line = NoLine
  /\ line # NoLine => waiting /\ ack = "none"
  /\ line.kind \in {"sync", "feed", "jog"} => line.to \in 0..ZMax
  /\ line.kind \in {"feed", "jog"} => Len(plan) <= 1
  /\ line.kind = "phase" => stage = 1
  /\ line.kind \in {"sync", "busy"} => stage = 2

\* A block of G33 is alone in the planner, and its line is not acknowledged.
PlanInv ==
  /\ Len(plan) <= 2
  /\ exec # "idle" => plan # <<>>
  /\ \A i \in 1..Len(plan) : plan[i].kind = "sync" => Len(plan) = 1 /\ line.kind = "busy"

\* The copy is the newest request, or an update says that it is not.
CopyInv ==
  /\ seen.on => active /\ ~pending
  /\ seen.on => IF seen.current THEN seen.config = request ELSE update
  /\ active /\ ~pending /\ ~update => config = request \/ (seen.on /\ seen.begin)

\* A feed that brakes keeps nothing that could start again.
BrakeInv ==
  stopping =>
    /\ line.kind \in {"none", "busy"}
    /\ exec = "run" => cancel
    /\ reset \/ (exec # "wait" /\ (exec = "idle" => plan = <<>>))

\* The phase that puts the axis in gear where it stands.
Aligning == (direction * (gear + config.pitch * z)) % Turn
PhaseInv ==
  /\ gear % Turn = armed
  /\ stage = 1 => exec = "idle" /\ plan = <<>>
  /\ stage = 1 /\ waiting =>
       IF line = NoLine THEN ack = "ok" => phase = Aligning
                        ELSE line.kind = "phase" /\ line.to = Aligning
  /\ stage = 2 /\ ~waiting => exec = "idle" /\ plan = <<>> /\ phase = Aligning
  /\ line.kind = "sync" => exec = "idle" /\ plan = <<>> /\ phase = Aligning
  /\ plan # <<>> /\ plan[1].kind = "sync" =>
       /\ exec \in {"idle", "wait"} => phase = Aligning
       /\ exec = "run" => plan[1].base % Turn = armed

\* Why a feed that is registered with the spindle does not start out of gear.
GearInv ==
  /\ config.mode # 2 /\ (stage \in 1..3 \/ (stage = 0 /\ waiting /\ ~manual)) => ~registered
  /\ config.mode # 2 /\ stage = 0 /\ registered /\ ~idled =>
       \/ ~active \/ pending \/ (seen.on /\ seen.begin)
       \/ stopping
       \/ stop /\ (seen.on => seen.stop)
       \/ manual /\ waiting
       \/ seen.on /\ ~seen.begin /\ ~seen.update /\ ~waiting /\ Lag(counts) = 0

FollowInv ==
  Typed /\ LineInv /\ PlanInv /\ CopyInv /\ BrakeInv /\ PhaseInv /\ GearInv

----------------------------------------------------------------------------
(* Division by the lead. *)

LEMMA Multiples ==
  ASSUME NEW n \in Int, NEW k \in Int, n > 0
  PROVE  /\ k >= 1 => n * k >= n
         /\ k <= -1 => n * k <= -n
  <1>1. ASSUME k >= 1 PROVE n * k >= n
    BY <1>1, SMT
  <1>2. ASSUME k <= -1 PROVE n * k <= -n
    BY <1>2, SMT
  <1> QED BY <1>1, <1>2

LEMMA Division ==
  ASSUME NEW a \in Int, NEW n \in Nat \ {0}
  PROVE  /\ a \div n \in Int /\ a % n \in 0..n-1
         /\ a = n * (a \div n) + (a % n)
  OBVIOUS

LEMMA DivisionUnique ==
  ASSUME NEW a \in Int, NEW n \in Nat \ {0}, NEW q \in Int, NEW r \in 0..n-1, a = n * q + r
  PROVE  a % n = r /\ a \div n = q
  <1> DEFINE p == a \div n
             s == a % n
  <1>1. p \in Int /\ s \in 0..n-1 /\ a = n * p + s BY Division
  <1> HIDE DEF p, s
  <1>2. n * (p - q) = r - s BY <1>1
  <1>3. p - q = 0 BY <1>1, <1>2, Multiples
  <1> QED BY <1>1, <1>3 DEF p, s

LEMMA WholeTurns ==
  ASSUME NEW a \in Int, NEW n \in Nat \ {0}, NEW k \in Int
  PROVE  (a + n * k) % n = a % n
  <1> DEFINE q == a \div n
             r == a % n
  <1>1. q \in Int /\ r \in 0..n-1 /\ a = n * q + r BY Division
  <1> HIDE DEF q, r
  <1>2. n * q + n * k = n * (q + k) BY <1>1
  <1>3. q + k \in Int BY <1>1
  <1>4. a + n * k \in Int BY <1>1
  <1>5. a + n * k = n * (q + k) + r BY <1>1, <1>2
  <1>6. (a + n * k) % n = r BY <1>1, <1>3, <1>4, <1>5, DivisionUnique
  <1> QED BY <1>6 DEF r

----------------------------------------------------------------------------
(* The operators of the gear and of the bounds. *)

LEMMA Lead == Turn \in Nat \ {0} /\ ZMax \in Nat /\ ZMax >= 1 /\ Speeds \subseteq Nat
  BY FollowAssumption DEF FollowAssumption

LEMMA ConfigTypes == \A c \in Config : c.mode \in {0, 2} /\ c.pitch \in {1, -1}
  BY DEF Config, Mode

LEMMA SeenTypes ==
  ASSUME seen \in Copies \cup {NotPolling}
  PROVE  /\ seen.on \in BOOLEAN
         /\ seen.on => /\ seen \in Copies /\ seen.config \in Config
                       /\ seen.begin \in BOOLEAN /\ seen.stop \in BOOLEAN /\ seen.jog \in BOOLEAN
                       /\ seen.held \in BOOLEAN /\ seen.release \in BOOLEAN
                       /\ seen.update \in BOOLEAN /\ seen.current \in BOOLEAN
  <1>1. CASE seen = NotPolling BY <1>1 DEF NotPolling
  <1>2. CASE seen \in Copies BY <1>2 DEF Copies
  <1> QED BY <1>1, <1>2

LEMMA NotPollingIsOff == NotPolling.on = FALSE
  BY DEF NotPolling

LEMMA JogTypes == \A j \in Jogs : j.pending \in BOOLEAN /\ j.sign \in {1, -1} /\ j.whole \in BOOLEAN
  BY DEF Jogs

LEMMA JogTakenType == jog \in Jogs => JogTaken \in Jogs
  BY DEF Jogs, JogTaken

LEMMA CommandTypes ==
  \A l \in Commands : /\ l.kind \in {"none", "word", "phase", "sync", "busy", "feed", "jog"}
                      /\ l.to \in Int
  BY DEF Commands

LEMMA NoLineFacts == NoLine \in Commands /\ NoLine.kind = "none"
  BY DEF NoLine, Commands

LEMMA BlockTypes ==
  \A b \in Blocks : b.kind \in {"feed", "sync"} /\ b.to \in 0..ZMax /\ b.base \in Int
  BY DEF Blocks

LEMMA BoundedIsInside == \A n \in Int : Bounded(n) \in 0..ZMax
  BY Lead DEF Bounded

LEMMA PitchTimes ==
  ASSUME NEW s \in {1, -1}, NEW n \in Int
  PROVE  s * n \in Int /\ s * n = IF s = 1 THEN n ELSE -n
  OBVIOUS

LEMMA LimitedMove ==
  ASSUME z \in 0..ZMax, NEW s \in {1, -1}, NEW d \in Nat
  PROVE  /\ Limited(s, d) \in Nat
         /\ z + s * Limited(s, d) \in 0..ZMax
  <1>1. CASE s = 1 BY <1>1, Lead DEF Limited
  <1>2. CASE s = -1 BY <1>2, Lead DEF Limited
  <1> QED BY <1>1, <1>2

LEMMA TowardsIsBetween ==
  ASSUME z \in 0..ZMax, NEW e \in 0..ZMax
  PROVE  Towards(z, e) \in 0..ZMax
  BY Lead DEF Towards

LEMMA LagType ==
  ASSUME config \in Config, gear \in Int, z \in 0..ZMax, NEW c \in Int
  PROVE  Lag(c) \in Int
  <1>1. config.pitch * z \in Int BY ConfigTypes, PitchTimes
  <1> QED BY <1>1 DEF Lag

\* A discard at a bound is a number of whole turns (follow.c:248-252).
LEMMA DiscardedTurns ==
  ASSUME NEW n \in Int
  PROVE  \E k \in Int : Discarded(n) = Turn * k
  <1>1. CASE n < 0
    <2>1. (-n) \div Turn \in Int BY Division, Lead
    <2> DEFINE k == (-n) \div Turn
    <2> HIDE DEF k
    <2>2. -(k * Turn) = Turn * (-k) /\ -k \in Int BY <2>1, Lead DEF k
    <2> QED BY <1>1, <2>2 DEF Discarded, k
  <1>2. CASE ~(n < 0)
    <2>1. n \div Turn \in Int BY Division, Lead
    <2> DEFINE k == n \div Turn
    <2>2. k \in Int BY <2>1
    <2> HIDE DEF k
    <2>3. k * Turn = Turn * k BY <2>2, Lead
    <2> QED BY <1>2, <2>2, <2>3 DEF Discarded, k
  <1> QED BY <1>1, <1>2

\* Registering moves the gear by whole turns, whichever way the phase was crossed
\* (follow.c:197-219).
LEMMA RegisteredIsGear ==
  ASSUME Positions, config \in Config
  PROVE  \E k \in Int : Registered = gear + Turn * k
  <1> DEFINE t == Lag(counts) \div Turn
             k == IF counts > previous \/ Lag(counts) % Turn = 0 THEN t ELSE t + 1
  <1>1. t \in Int BY LagType, Division, Lead DEF Positions
  <1>2. k \in Int BY <1>1
  <1>3. Registered = gear + Turn * k BY DEF Registered
  <1> QED BY <1>2, <1>3

LEMMA TurnsKeepPhase ==
  ASSUME NEW g \in Int, NEW k \in Int
  PROVE  (g + Turn * k) % Turn = g % Turn
  BY WholeTurns, Lead

----------------------------------------------------------------------------
(* Who changes what. *)

UiStep ==
  \/ Request \/ Cancel \/ Update \/ Release
  \/ \E forward \in Forward, continuous \in BOOLEAN : Jog(IF forward THEN 1 ELSE -1, continuous)

CoreStep ==
  \/ Execute \/ CycleStart \/ IndexFound \/ Step \/ BlockDone \/ MotionCancel \/ Fault
  \/ \E d \in {1, -1} : Spin(d)
  \/ SpeedChanges

\* Polls that end before they act, and polls that brake.
PollLeaves == PollFault \/ PollRefuses \/ PollAwaits \/ PollRejected
PollStops == PollUpdateBrakes \/ PollOverspeed \/ PollBrakes

\* Polls that go on from an acknowledgement, or that wait for none.
PollWaits == PollWaitsForPhase \/ \E next \in 0..4 : PollHeld(next)
PollActs ==
  \/ PollFollows \/ PollStartsPosition \/ PollEngages
  \/ \E next \in 0..4 : PollManual(next) \/ PollSends(next)

LEMMA NextCases ==
  Next => UiStep \/ Snapshot \/ PollLeaves \/ PollStops \/ PollArms \/ PollManualDone
            \/ PollAtBound \/ PollWaits \/ PollActs \/ CoreStep \/ CoreReset
  BY DEF Next, Poll, UiStep, CoreStep, PollLeaves, PollStops, PollWaits, PollActs

LEMMA UiFrame ==
  ASSUME UiStep
  PROVE  UNCHANGED <<gearing, task, core, counts, rpm>>
  <1>1. CASE Request BY <1>1 DEF Request, drive
  <1>2. CASE Cancel BY <1>2 DEF Cancel, drive
  <1>3. CASE Update BY <1>3 DEF Update, drive
  <1>4. CASE Release BY <1>4 DEF Release, drive
  <1>5. ASSUME NEW s, NEW b, Jog(s, b) PROVE UNCHANGED <<gearing, task, core, counts, rpm>>
    BY <1>5 DEF Jog, drive
  <1> QED BY <1>1, <1>2, <1>3, <1>4, <1>5 DEF UiStep

LEMMA SnapshotFrame ==
  ASSUME Snapshot
  PROVE  UNCHANGED <<active, stop, jog, held, release, update, request, gearing, task, core, counts, rpm>>
  BY DEF Snapshot, spindle

LEMMA CoreFrame ==
  ASSUME CoreStep
  PROVE  ~seen.on /\ UNCHANGED <<shared, seen, gearing, task>>
  <1>1. CASE Execute BY <1>1 DEF Execute
  <1>2. CASE CycleStart BY <1>2 DEF CycleStart
  <1>3. CASE IndexFound BY <1>3 DEF IndexFound
  <1>4. CASE Step BY <1>4 DEF Step
  <1>5. CASE BlockDone BY <1>5 DEF BlockDone
  <1>6. CASE MotionCancel BY <1>6 DEF MotionCancel
  <1>7. CASE Fault BY <1>7 DEF Fault
  <1>8. ASSUME NEW d \in {1, -1}, Spin(d) PROVE ~seen.on /\ UNCHANGED <<shared, seen, gearing, task>>
    BY <1>8 DEF Spin
  <1>9. CASE SpeedChanges BY <1>9 DEF SpeedChanges
  <1> QED BY <1>1, <1>2, <1>3, <1>4, <1>5, <1>6, <1>7, <1>8, <1>9 DEF CoreStep

LEMMA LeavesFrame ==
  ASSUME PollLeaves
  PROVE  /\ seen.on /\ seen' = NotPolling
         /\ UNCHANGED <<pending, release, update, request, registered, gear, submitted, idled, armed>>
         /\ UNCHANGED <<task, core, counts, rpm>>
  <1> USE DEF entered, gearing, engaged, spindle, PollEnds, Finished
  <1>1. CASE PollFault BY <1>1 DEF PollFault
  <1>2. CASE PollRefuses BY <1>2 DEF PollRefuses, Arming, Polling
  <1>3. CASE PollAwaits BY <1>3 DEF PollAwaits, Steady, Running, Polling, shared
  <1>4. CASE PollRejected BY <1>4 DEF PollRejected, Steady, Running, Polling
  <1> QED BY <1>1, <1>2, <1>3, <1>4 DEF PollLeaves

\* What a braking poll may change beside the position of the spindle.
LEMMA StopsFrame ==
  ASSUME PollStops
  PROVE  /\ seen.on /\ StopMotion /\ ~seen.begin
         /\ stop' \in {stop, TRUE} /\ held' \in {held, FALSE} /\ jog' \in {jog, JogTaken}
         /\ previous' \in {previous, counts}
         /\ UNCHANGED <<entered, engaged, config, stage, direction, waiting, manual, following>>
         /\ UNCHANGED <<ack, plan, exec, phase, alarm, z, counts, rpm>>
  <1> USE DEF entered, engaged
  <1>1. CASE PollUpdateBrakes BY <1>1 DEF PollUpdateBrakes, Polling, shared, gearing, spindle
  <1>2. CASE PollOverspeed
    BY <1>2 DEF PollOverspeed, Running, Polling, Cancelled, drive
  <1>3. CASE PollBrakes BY <1>3 DEF PollBrakes, Running, Polling, shared, spindle
  <1> QED BY <1>1, <1>2, <1>3 DEF PollStops

LEMMA WaitsFrame ==
  ASSUME PollWaits
  PROVE  /\ seen.on /\ seen' = NotPolling /\ waiting' = FALSE /\ previous' = counts
         /\ \E next \in 0..5 : Proceeds(next) /\ stage' = next
         /\ UNCHANGED <<shared, registered, gear, submitted, armed, config, direction, braking, manual,
                        following>>
         /\ UNCHANGED <<core, counts, rpm>>
  <1> USE DEF engaged, spindle, PollEnds, Steady, Running, Polling
  <1>1. CASE PollWaitsForPhase
    <2>1. Proceeds(5) /\ stage' = 5 BY <1>1 DEF PollWaitsForPhase
    <2>2. \E next \in 0..5 : Proceeds(next) /\ stage' = next BY <2>1
    <2> QED BY <1>1, <2>2 DEF PollWaitsForPhase, Proceeds
  <1>2. CASE \E next \in 0..4 : PollHeld(next)
    <2>1. PICK next \in 0..4 : PollHeld(next) BY <1>2
    <2>2. Proceeds(next) /\ stage' = next BY <2>1 DEF PollHeld, Resting
    <2>3. \E n \in 0..5 : Proceeds(n) /\ stage' = n BY <2>2
    <2> QED BY <2>1, <2>2, <2>3 DEF PollHeld, Proceeds
  <1> QED BY <1>1, <1>2 DEF PollWaits

\* What a poll that acts does to the queue: nothing, or a line of a stage.
Silent == UNCHANGED <<line, ack>> /\ waiting' = FALSE
Sent(kind, to) == line' = [kind |-> kind, to |-> to] /\ ack' = "none" /\ waiting' = TRUE
Outcome ==
  \/ Silent
  \/ Sent("word", 0) /\ stage' \in {0, 3, 4}
  \/ Sent("phase", Aligning) /\ stage' = 1
  \/ \E to \in 0..ZMax : Sent("sync", to) /\ stage' = 2 /\ Idle
  \/ \E to \in 0..ZMax : Sent("feed", to) /\ Len(plan) <= 1 /\ stage' \in {2, 5}
  \/ \E to \in 0..ZMax : Sent("jog", to) /\ Idle /\ stage' = 0

\* To which stage it goes on, and what it may turn on the way.
Proceeding ==
  \E next \in 0..5 :
    /\ Proceeds(next)
    /\ \/ next = 5 /\ stage' = 5 /\ direction' = direction /\ \E k \in Int : gear' = gear + Turn * k
       \/ /\ next # 5 /\ Idle /\ gear' = gear
          /\ stage' \in {0, 4} \/ (stage' = next /\ direction' = direction)

ActsKeep ==
  /\ seen.on /\ seen' = NotPolling /\ previous' = counts
  /\ UNCHANGED <<active, pending, update, request, armed, config, braking, motion, counts, rpm>>
  /\ release' \in {release, FALSE} /\ stop' \in {stop, TRUE}
  /\ held' \in {held, FALSE} /\ jog' \in {jog, JogTaken}

LEMMA ActsFrame == PollActs => ActsKeep
  <1> USE DEF ActsKeep, entered, drive, Steady, Running, Polling, Proceeds, PollEnds, Cancelled
  <1>1. CASE PollFollows BY <1>1 DEF PollFollows, Send
  <1>2. CASE PollStartsPosition BY <1>2 DEF PollStartsPosition, Send, Unheld, Resting
  <1>3. CASE PollEngages BY <1>3 DEF PollEngages, Send, Unheld, Resting
  <1>4. ASSUME NEW next \in 0..4, PollManual(next) PROVE ActsKeep
    BY <1>4 DEF PollManual, Send, Resting
  <1>5. ASSUME NEW next \in 0..4, PollSends(next) PROVE ActsKeep
    <2>1. /\ Unheld(next) /\ next \in 1..3
          /\ UNCHANGED <<entered, armed, config, braking, motion, drive>>
      BY <1>5 DEF PollSends, engaged
    <2> DEFINE bound == IF config.pitch * direction > 0 THEN ZMax ELSE 0
    <2>2. CASE next = 1
      <3>1. Send("phase", Aligning, jog) BY <1>5, <2>2 DEF PollSends, Aligning
      <3> QED BY <2>1, <3>1 DEF Send, Unheld, Resting
    <2>3. CASE next = 2
      <3>1. Send(IF config.mode = 2 THEN "feed" ELSE "sync", bound, jog)
        BY <1>5, <2>3 DEF PollSends
      <3> HIDE DEF bound
      <3> QED BY <2>1, <3>1 DEF Send, Unheld, Resting
    <2>4. CASE next = 3
      <3>1. Send("word", 0, jog) BY <1>5, <2>4 DEF PollSends
      <3> QED BY <2>1, <3>1 DEF Send, Unheld, Resting
    <2>5. next = 1 \/ next = 2 \/ next = 3 BY <2>1
    <2> QED BY <2>2, <2>3, <2>4, <2>5, Zenon
  <1> QED BY <1>1, <1>2, <1>3, <1>4, <1>5 DEF PollActs

LEMMA ActsOutcome == Typed /\ PollActs => Outcome
  <1> SUFFICES ASSUME Typed, PollActs PROVE Outcome
    OBVIOUS
  <1>1. CASE PollFollows
    <2>1. CASE UNCHANGED <<line, ack>> /\ waiting' = FALSE BY <2>1 DEF Outcome, Silent
    <2>2. CASE ~(UNCHANGED <<line, ack>> /\ waiting' = FALSE)
      <3> DEFINE geared == IF registered THEN gear ELSE Registered
                 wanted == config.pitch * (counts - geared)
      <3>1. /\ Len(plan) < 2
            /\ Send("feed", Bounded(wanted), jog)
        BY <1>1, <2>2 DEF PollFollows
      <3>2. wanted \in Int
        <4>1. geared \in Int
          <5>1. PICK k \in Int : Registered = gear + Turn * k
            BY RegisteredIsGear DEF Typed, Records
          <5> QED BY <5>1, Lead DEF Typed, Positions
        <4> HIDE DEF geared
        <4>2. counts - geared \in Int BY <4>1 DEF Typed, Positions
        <4> QED BY <4>2, ConfigTypes, PitchTimes DEF Typed, Records
      <3> HIDE DEF wanted
      <3>3. Bounded(wanted) \in 0..ZMax BY <3>2, BoundedIsInside
      <3>4. Sent("feed", Bounded(wanted)) BY <3>1, <2>2 DEF Send, Sent
      <3>5. Len(plan) <= 1
        BY <3>1 DEF Typed, Queues
      <3>6. stage' = 5 BY <1>1 DEF PollFollows
      <3> QED BY <3>3, <3>4, <3>5, <3>6 DEF Outcome
    <2> QED BY <2>1, <2>2
  <1>2. CASE PollStartsPosition
    BY <1>2 DEF PollStartsPosition, Send, Outcome, Silent, Sent
  <1>3. CASE PollEngages
    BY <1>3 DEF PollEngages, Send, Outcome, Silent, Sent
  <1>4. ASSUME NEW next \in 0..4, PollManual(next) PROVE Outcome
    <2> DEFINE step == IF config.mode = 2 THEN 1 ELSE Turn
               distance == Limited(jog.sign, IF jog.whole THEN ZMax + Turn ELSE step)
    <2>1. CASE distance <= 0
      BY <1>4, <2>1 DEF PollManual, Outcome, Silent
    <2>2. CASE ~(distance <= 0)
      <3>1. Send("jog", z + jog.sign * distance, JogTaken) /\ Idle /\ stage' = 0
        BY <1>4, <2>2 DEF PollManual, Resting
      <3>2. z + jog.sign * distance \in 0..ZMax
        <4>1. (IF jog.whole THEN ZMax + Turn ELSE step) \in Nat BY Lead
        <4> QED BY <4>1, LimitedMove, JogTypes DEF Typed, Records, Positions
      <3> HIDE DEF distance
      <3> QED BY <3>1, <3>2 DEF Send, Outcome, Silent, Sent
    <2> QED BY <2>1, <2>2
  <1>5. ASSUME NEW next \in 0..4, PollSends(next) PROVE Outcome
    <2> DEFINE bound == IF config.pitch * direction > 0 THEN ZMax ELSE 0
    <2>1. bound \in 0..ZMax BY Lead
    <2>2. next \in 1..3 /\ stage' = next /\ Idle /\ Len(plan) <= 1
      <3>1. next \in 1..3 /\ stage' = next /\ Idle BY <1>5 DEF PollSends, Unheld, Resting
      <3> QED BY <3>1 DEF Idle
    <2>3. CASE next = 1
      <3>1. Send("phase", Aligning, jog) BY <1>5, <2>3 DEF PollSends, Aligning
      <3> QED BY <2>2, <2>3, <3>1 DEF Send, Outcome, Silent, Sent
    <2>4. CASE next = 2
      <3>1. Send(IF config.mode = 2 THEN "feed" ELSE "sync", bound, jog)
        BY <1>5, <2>4 DEF PollSends
      <3> HIDE DEF bound
      <3> QED BY <2>1, <2>2, <2>4, <3>1 DEF Send, Outcome, Silent, Sent
    <2>5. CASE next = 3
      <3>1. Send("word", 0, jog) BY <1>5, <2>5 DEF PollSends
      <3> QED BY <2>2, <2>5, <3>1 DEF Send, Outcome, Silent, Sent
    <2> QED BY <2>2, <2>3, <2>4, <2>5
  <1> QED BY <1>1, <1>2, <1>3, <1>4, <1>5 DEF PollActs

LEMMA ActsProceed == Typed /\ PollActs => Proceeding
  <1> SUFFICES ASSUME Typed, PollActs PROVE Proceeding
    OBVIOUS
  <1>1. CASE PollFollows
    <2>1. Proceeds(5) /\ stage' = 5 /\ direction' = direction BY <1>1 DEF PollFollows
    <2>2. PICK k \in Int : (IF registered THEN gear ELSE Registered) = gear + Turn * k
      <3>1. CASE registered
        <4>1. gear + Turn * 0 = gear BY Lead DEF Typed, Positions
        <4> QED BY <3>1, <4>1
      <3>2. CASE ~registered BY <3>2, RegisteredIsGear DEF Typed, Records
      <3> QED BY <3>1, <3>2
    <2> DEFINE geared == IF registered THEN gear ELSE Registered
               wanted == config.pitch * (counts - geared)
               bounded == Bounded(wanted)
    <2>3. PICK j \in Int : (IF Idle /\ z = bounded
                            THEN Discarded(config.pitch * (wanted - bounded)) ELSE 0) = Turn * j
      <3>1. CASE Idle /\ z = bounded
        <4>1. geared \in Int
          <5>1. geared = gear + Turn * k BY <2>2
          <5> HIDE DEF geared
          <5>2. Turn * k \in Int BY Lead
          <5> QED BY <5>1, <5>2 DEF Typed, Positions
        <4> HIDE DEF geared
        <4>2. counts - geared \in Int BY <4>1 DEF Typed, Positions
        <4>3. wanted \in Int BY <4>2, ConfigTypes, PitchTimes DEF Typed, Records
        <4> HIDE DEF wanted
        <4>4. bounded \in Int BY <4>3, BoundedIsInside
        <4> HIDE DEF bounded
        <4>5. wanted - bounded \in Int BY <4>3, <4>4
        <4>6. config.pitch * (wanted - bounded) \in Int
          BY <4>5, ConfigTypes, PitchTimes DEF Typed, Records
        <4> QED BY <3>1, <4>6, DiscardedTurns
      <3>2. CASE ~(Idle /\ z = bounded)
        <4>1. Turn * 0 = 0 BY Lead
        <4> QED BY <3>2, <4>1
      <3> QED BY <3>1, <3>2
    <2>4. gear' = geared \/ gear' = geared + Turn * j
      BY <1>1, <2>3 DEF PollFollows
    <2>5. geared = gear + Turn * k BY <2>2
    <2> HIDE DEF geared
    <2>6. Turn * (k + j) = Turn * k + Turn * j BY Lead
    <2>7. gear' = gear + Turn * k \/ gear' = gear + Turn * (k + j)
      <3>1. Turn * k \in Int /\ Turn * j \in Int BY Lead
      <3> QED BY <2>4, <2>5, <2>6, <3>1 DEF Typed, Positions
    <2>8. \E n \in Int : gear' = gear + Turn * n
      <3>1. k + j \in Int OBVIOUS
      <3> QED BY <2>7, <3>1
    <2> QED BY <2>1, <2>8 DEF Proceeding
  <1>2. CASE PollStartsPosition
    <2>1. Proceeds(0) /\ Idle /\ gear' = gear /\ stage' = 4
      BY <1>2 DEF PollStartsPosition, Unheld, Resting
    <2> QED BY <2>1 DEF Proceeding
  <1>3. CASE PollEngages
    <2>1. Proceeds(0) /\ Idle /\ gear' = gear /\ stage' = 0
      BY <1>3 DEF PollEngages, Unheld, Resting
    <2> QED BY <2>1 DEF Proceeding
  <1>4. ASSUME NEW next \in 0..4, PollManual(next) PROVE Proceeding
    <2>1. Proceeds(next) /\ Idle /\ gear' = gear /\ stage' \in {0, next} /\ direction' = direction
      BY <1>4 DEF PollManual, Resting
    <2> QED BY <2>1 DEF Proceeding
  <1>5. ASSUME NEW next \in 0..4, PollSends(next) PROVE Proceeding
    <2>1. Proceeds(next) /\ Idle /\ gear' = gear /\ stage' = next /\ direction' = direction
      BY <1>5 DEF PollSends, Unheld, Resting, engaged
    <2> QED BY <2>1 DEF Proceeding
  <1> QED BY <1>1, <1>2, <1>3, <1>4, <1>5 DEF PollActs

----------------------------------------------------------------------------
(* Types. *)

LEMMA UiTypes == Typed /\ UiStep => Typed'
  <1> SUFFICES ASSUME Typed, UiStep PROVE Typed'
    OBVIOUS
  <1> USE DEF Typed
  <1>1. Positions' /\ Queues'
    BY UiFrame DEF Positions, Queues, gearing, task, core
  <1>2. UNCHANGED <<config, stopping, internalReset, waiting, manual, following, registered, idled,
                    cancel, reset, alarm>>
    BY UiFrame DEF gearing, task, core
  <1>0. Doing' /\ Noted' BY <1>2 DEF Flags, Doing, Noted
  <1> USE DEF Flags, Records
  <1>3. CASE Request
    <2>1. \A m \in Mode : [mode |-> m, pitch |-> 1] \in Config BY DEF Config
    <2>2. request' \in Config BY <1>3, <2>1 DEF Request
    <2>3. Records' BY <1>2, <1>3, <2>2, JogTakenType DEF Request
    <2>4. Asked' BY <1>3 DEF Request, Asked
    <2> QED BY <1>0, <1>1, <2>3, <2>4
  <1>4. CASE Cancel
    <2>1. Records' BY <1>2, <1>4, JogTakenType DEF Cancel, Cancelled, entered
    <2>2. Asked' BY <1>4 DEF Cancel, Cancelled, entered, Asked
    <2> QED BY <1>0, <1>1, <2>1, <2>2
  <1>5. CASE Update
    <2>1. \A p \in {1, -1} : [request EXCEPT !.pitch = p] \in Config BY DEF Config
    <2>2. seen' \in Copies \cup {NotPolling}
      <3>1. CASE seen.on
        <4>1. seen \in Copies BY <3>1, NotPollingIsOff
        <4>2. [seen EXCEPT !.current = FALSE] \in Copies BY <4>1 DEF Copies
        <4> QED BY <1>5, <3>1, <4>2 DEF Update
      <3> QED BY <1>5, <3>1 DEF Update
    <2>3. request' \in Config BY <1>5, <2>1 DEF Update
    <2>4. Records' BY <1>2, <1>5, <2>2, <2>3 DEF Update
    <2>5. Asked' BY <1>5 DEF Update, Asked
    <2> QED BY <1>0, <1>1, <2>4, <2>5
  <1>6. CASE Release
    <2>1. Records' BY <1>2, <1>6, JogTakenType DEF Release
    <2>2. Asked' BY <1>6 DEF Release, Asked
    <2> QED BY <1>0, <1>1, <2>1, <2>2
  <1>7. ASSUME NEW forward \in Forward, NEW continuous \in BOOLEAN,
               Jog(IF forward THEN 1 ELSE -1, continuous)
        PROVE  Typed'
    <2>1. jog' \in Jogs BY <1>7 DEF Jog, Jogs
    <2>2. Records' BY <1>2, <1>7, <2>1 DEF Jog
    <2>3. Asked' BY <1>7 DEF Jog, Asked
    <2> QED BY <1>0, <1>1, <2>2, <2>3
  <1> QED BY <1>3, <1>4, <1>5, <1>6, <1>7 DEF UiStep

LEMMA SnapshotTypes == Typed /\ Snapshot => Typed'
  <1> SUFFICES ASSUME Typed, Snapshot PROVE Typed'
    OBVIOUS
  <1>1. Positions' /\ Queues'
    BY SnapshotFrame DEF Typed, Positions, Queues, gearing, task, core
  <1>2. Flags'
    <2>1. pending' = FALSE BY DEF Snapshot
    <2>2. Asked' BY <2>1, SnapshotFrame DEF Typed, Flags, Asked
    <2>3. Doing' BY SnapshotFrame DEF Typed, Flags, Doing, task
    <2>4. Noted' BY SnapshotFrame DEF Typed, Flags, Noted, gearing, core
    <2> QED BY <2>2, <2>3, <2>4 DEF Flags
  <1>3. seen' \in Copies
    BY JogTypes DEF Snapshot, Typed, Flags, Asked, Records, Copies
  <1>4. Records' BY <1>3, SnapshotFrame DEF Typed, Records, task
  <1> QED BY <1>1, <1>2, <1>4 DEF Typed

LEMMA LeavesTypes == Typed /\ PollLeaves => Typed'
  <1> SUFFICES ASSUME Typed, PollLeaves PROVE Typed'
    OBVIOUS
  <1>1. Queues' BY LeavesFrame DEF Typed, Queues, core
  <1>2. previous' \in {previous, counts} /\ active' \in BOOLEAN /\ stop' \in BOOLEAN
        /\ held' \in BOOLEAN /\ jog' \in Jogs
    <2> USE DEF Typed, Flags, Asked, Records
    <2>1. CASE PollFault BY <2>1 DEF PollFault, Finished, gearing
    <2>2. CASE PollRefuses BY <2>2 DEF PollRefuses, Finished, gearing
    <2>3. CASE PollAwaits BY <2>3 DEF PollAwaits, Steady, shared
    <2>4. CASE PollRejected BY <2>4, JogTakenType DEF PollRejected, Steady, Cancelled, entered
    <2> QED BY <2>1, <2>2, <2>3, <2>4 DEF PollLeaves
  <1>3. Positions' BY <1>2, LeavesFrame DEF Typed, Positions, task, core
  <1>4. Records' BY <1>2, LeavesFrame DEF Typed, Records, task
  <1>5. Flags'
    <2>1. Asked' BY <1>2, LeavesFrame DEF Typed, Flags, Asked
    <2>2. Doing' BY LeavesFrame DEF Typed, Flags, Doing, task
    <2>3. Noted' BY LeavesFrame DEF Typed, Flags, Noted, core
    <2> QED BY <2>1, <2>2, <2>3 DEF Flags
  <1> QED BY <1>1, <1>3, <1>4, <1>5 DEF Typed

LEMMA StopsTypes == Typed /\ PollStops => Typed'
  <1> SUFFICES ASSUME Typed, PollStops PROVE Typed'
    OBVIOUS
  <1>1. line' \in Commands
    BY StopsFrame, NoLineFacts DEF StopMotion, Discard, Typed, Queues
  <1>2. Queues' BY <1>1, StopsFrame DEF Typed, Queues
  <1>3. Positions' BY StopsFrame DEF Typed, Positions, engaged
  <1>4. Records'
    <2>1. seen' = NotPolling BY StopsFrame DEF StopMotion, PollEnds
    <2>2. jog' \in Jogs BY StopsFrame, JogTakenType DEF Typed, Records
    <2>3. UNCHANGED <<request, config>> BY StopsFrame DEF entered
    <2> QED BY <2>1, <2>2, <2>3 DEF Typed, Records
  <1>5. stop' \in BOOLEAN /\ held' \in BOOLEAN BY StopsFrame DEF Typed, Flags, Asked
  <1>6. stopping' \in BOOLEAN /\ internalReset' \in BOOLEAN /\ reset' \in BOOLEAN
        /\ cancel' \in BOOLEAN
    BY <1>5, StopsFrame DEF StopMotion, Typed, Flags, Doing, Noted
  <1>7. Flags'
    <2>1. Asked' BY <1>5, StopsFrame DEF Typed, Flags, Asked, entered
    <2>2. Doing' BY <1>6, StopsFrame DEF Typed, Flags, Doing
    <2>3. Noted' BY <1>6, StopsFrame DEF Typed, Flags, Noted, engaged
    <2> QED BY <2>1, <2>2, <2>3 DEF Flags
  <1> QED BY <1>2, <1>3, <1>4, <1>7 DEF Typed

LEMMA ArmsTypes == Typed /\ PollArms => Typed'
  <1> SUFFICES ASSUME Typed, PollArms PROVE Typed'
    OBVIOUS
  <1> USE DEF Typed
  <1>1. seen.on /\ seen \in Copies /\ seen.config \in Config /\ seen.current \in BOOLEAN
    BY SeenTypes, NotPollingIsOff DEF PollArms, Arming, Polling, Records
  <1>2. Queues' BY DEF PollArms, Queues, core
  <1>3. gear' \in Int
    <2>1. seen.config.pitch * z \in Int BY <1>1, ConfigTypes, PitchTimes DEF Positions
    <2> QED BY <2>1 DEF PollArms, Positions
  <1>4. armed' \in 0..Turn - 1 BY <1>3, Division, Lead DEF PollArms
  <1>5. Positions' BY <1>3, <1>4 DEF PollArms, Positions, core, spindle
  <1>6. seen' \in Copies BY <1>1 DEF PollArms, Copies
  <1>7. Records' BY <1>1, <1>6 DEF PollArms, Records
  <1>8. following' \in BOOLEAN BY DEF PollArms
  <1>9. update' \in BOOLEAN BY <1>1 DEF PollArms, UpdateLeft, Flags, Asked
  <1>10. Flags'
    <2>1. Asked' BY <1>9 DEF PollArms, Flags, Asked
    <2>2. Doing' BY <1>8 DEF PollArms, Doing
    <2>3. Noted' BY DEF PollArms, Flags, Noted, core
    <2> QED BY <2>1, <2>2, <2>3 DEF Flags
  <1> QED BY <1>2, <1>5, <1>7, <1>10

LEMMA DoneTypes == Typed /\ (PollManualDone \/ PollAtBound \/ PollWaits) => Typed'
  <1> SUFFICES ASSUME Typed, PollManualDone \/ PollAtBound \/ PollWaits PROVE Typed'
    OBVIOUS
  <1> USE DEF Typed
  <1>1. CASE PollManualDone
    <2> USE <1>1 DEF PollManualDone, Steady, PollEnds, shared, core, braking, spindle
    <2>1. Queues' BY DEF Queues
    <2>2. Positions' BY DEF Positions
    <2>3. Records' BY DEF Records
    <2>4. Asked' BY DEF Flags, Asked
    <2>5. Doing' BY DEF Flags, Doing
    <2>6. Noted' BY DEF Flags, Noted
    <2> QED BY <2>1, <2>2, <2>3, <2>4, <2>5, <2>6 DEF Flags
  <1>2. CASE PollAtBound
    <2> USE <1>2 DEF PollAtBound, Steady, PollEnds, shared, core, braking, spindle, engaged
    <2>1. Queues' BY DEF Queues
    <2>2. Positions' BY DEF Positions
    <2>3. Records' BY DEF Records
    <2>4. Asked' BY DEF Flags, Asked
    <2>5. Doing' BY DEF Flags, Doing
    <2>6. Noted' BY DEF Flags, Noted
    <2> QED BY <2>1, <2>2, <2>3, <2>4, <2>5, <2>6 DEF Flags
  <1>3. CASE PollWaits
    <2> USE <1>3, WaitsFrame DEF shared, core, braking
    <2>1. Queues' BY DEF Queues
    <2>2. Positions' BY DEF Positions
    <2>3. Records' BY DEF Records
    <2>4. idled' \in BOOLEAN
      <3>1. CASE PollWaitsForPhase BY <3>1 DEF PollWaitsForPhase, engaged, Flags, Noted
      <3>2. ASSUME NEW next \in 0..4, PollHeld(next) PROVE idled' \in BOOLEAN
        BY <3>2 DEF PollHeld, Flags, Noted
      <3> QED BY <1>3, <3>1, <3>2 DEF PollWaits
    <2>5. Asked' BY DEF Flags, Asked
    <2>6. Doing' BY DEF Flags, Doing
    <2>7. Noted' BY <2>4 DEF Flags, Noted
    <2> QED BY <2>1, <2>2, <2>3, <2>5, <2>6, <2>7 DEF Flags
  <1> QED BY <1>1, <1>2, <1>3

LEMMA ActsTypes == Typed /\ PollActs => Typed'
  <1> SUFFICES ASSUME Typed, PollActs PROVE Typed'
    OBVIOUS
  <1> USE DEF Typed
  <1>1. ActsKeep /\ Outcome /\ Proceeding BY ActsFrame, ActsOutcome, ActsProceed
  <1>2. Records'
    <2>1. jog' \in Jogs BY <1>1, JogTakenType DEF ActsKeep, Records
    <2>2. UNCHANGED <<request, config>> /\ seen' = NotPolling BY <1>1 DEF ActsKeep
    <2> QED BY <2>1, <2>2 DEF Records
  <1>3. line' \in Commands /\ ack' \in {"none", "ok", "error"} /\ waiting' \in BOOLEAN
    <2>1. CASE Silent BY <2>1 DEF Silent, Queues
    <2>2. ASSUME NEW kind \in {"word", "phase", "sync", "feed", "jog"}, NEW to \in Int,
                 Sent(kind, to)
          PROVE  line' \in Commands /\ ack' \in {"none", "ok", "error"} /\ waiting' \in BOOLEAN
      BY <2>2 DEF Sent, Commands
    <2>3. Aligning \in Int
      <3>1. config.pitch * z \in Int BY ConfigTypes, PitchTimes DEF Records, Positions
      <3>2. gear + config.pitch * z \in Int BY <3>1 DEF Positions
      <3>3. direction * (gear + config.pitch * z) \in Int BY <3>2, PitchTimes DEF Positions
      <3> QED BY <3>3, Division, Lead DEF Aligning
    <2> QED BY <1>1, <2>1, <2>2, <2>3, Lead DEF Outcome
  <1>4. Queues' BY <1>1, <1>3 DEF ActsKeep, motion, Queues
  <1>5. stage' \in 0..5 /\ gear' \in Int
    <2>1. PICK next \in 0..5 :
            \/ next = 5 /\ stage' = 5 /\ \E k \in Int : gear' = gear + Turn * k
            \/ gear' = gear /\ (stage' \in {0, 4} \/ stage' = next)
      BY <1>1 DEF Proceeding
    <2>2. \A k \in Int : Turn * k \in Int BY Lead
    <2> QED BY <2>1, <2>2 DEF Positions
  <1>6. /\ direction' \in {1, -1} /\ submitted' \in 0..ZMax
        /\ registered' \in BOOLEAN /\ idled' \in BOOLEAN
        /\ manual' \in BOOLEAN /\ following' \in BOOLEAN
    <2> USE DEF Flags, Doing, Noted, Positions
    <2>1. CASE PollFollows
      <3>1. submitted' \in 0..ZMax
        <4> DEFINE geared == IF registered THEN gear ELSE Registered
                   wanted == config.pitch * (counts - geared)
        <4>1. submitted' \in {submitted, Bounded(wanted)} BY <2>1 DEF PollFollows
        <4>2. wanted \in Int
          <5>1. PICK k \in Int : Registered = gear + Turn * k BY RegisteredIsGear DEF Records
          <5>2. Turn * k \in Int BY Lead
          <5>3. geared \in Int BY <5>1, <5>2
          <5> HIDE DEF geared
          <5>4. counts - geared \in Int BY <5>3
          <5> QED BY <5>4, ConfigTypes, PitchTimes DEF Records
        <4> HIDE DEF wanted
        <4> QED BY <4>1, <4>2, BoundedIsInside
      <3> QED BY <2>1, <3>1 DEF PollFollows
    <2>2. CASE PollStartsPosition BY <2>2 DEF PollStartsPosition
    <2>3. CASE PollEngages BY <2>3 DEF PollEngages
    <2>4. ASSUME NEW next \in 0..4, PollManual(next) PROVE <1>6!:
      <3>1. idled' \in BOOLEAN /\ manual' \in BOOLEAN BY <2>4 DEF PollManual
      <3> QED BY <2>4, <3>1 DEF PollManual
    <2>5. ASSUME NEW next \in 0..4, PollSends(next) PROVE <1>6!:
      BY <2>5 DEF PollSends, engaged
    <2> QED BY <2>1, <2>2, <2>3, <2>4, <2>5 DEF PollActs
  <1>7. Positions' BY <1>1, <1>5, <1>6 DEF ActsKeep, motion, Positions
  <1>8. Asked' BY <1>1 DEF ActsKeep, Flags, Asked
  <1>9. Doing' BY <1>1, <1>3, <1>6 DEF ActsKeep, braking, Flags, Doing
  <1>10. Noted' BY <1>1, <1>6 DEF ActsKeep, motion, Flags, Noted
  <1> QED BY <1>2, <1>4, <1>7, <1>8, <1>9, <1>10 DEF Flags

----------------------------------------------------------------------------
(* Blocks and the phase of a line. *)

LEMMA SynchronizedCases ==
  ASSUME NEW c
  PROVE  \/ Synchronized(c) = z
         \/ Synchronized(c) = Bounded(config.pitch * (c - Head(plan).base))
  BY DEF Synchronized

LEMMA HeadTypes ==
  ASSUME plan \in Seq(Blocks), plan # <<>>
  PROVE  /\ Len(plan) \in Nat /\ Len(plan) >= 1
         /\ plan[1] \in Blocks /\ Head(plan) = plan[1]
         /\ Tail(plan) \in Seq(Blocks) /\ Len(Tail(plan)) = Len(plan) - 1
  OBVIOUS

LEMMA RebasedPlan ==
  ASSUME plan \in Seq(Blocks), plan # <<>>, NEW b \in Int
  PROVE  LET q == [plan EXCEPT ![1].base = b]
         IN  /\ q \in Seq(Blocks) /\ q # <<>> /\ Len(q) = Len(plan)
             /\ q[1].base = b /\ q[1].kind = plan[1].kind /\ q[1].to = plan[1].to
             /\ \A i \in 2..Len(plan) : q[i] = plan[i]
  <1> DEFINE q == [plan EXCEPT ![1].base = b]
             c == [plan[1] EXCEPT !.base = b]
  <1>1. plan[1] \in Blocks BY HeadTypes
  <1>2. c \in Blocks /\ c.base = b /\ c.kind = plan[1].kind /\ c.to = plan[1].to
    BY <1>1 DEF Blocks
  <1>3. q = [plan EXCEPT ![1] = c] OBVIOUS
  <1> HIDE DEF q, c
  <1>4. q \in Seq(Blocks) /\ Len(q) = Len(plan) BY <1>2, <1>3
  <1>5. q[1] = c /\ \A i \in 2..Len(plan) : q[i] = plan[i]
    BY <1>3, HeadTypes
  <1>6. q # <<>> BY <1>4, HeadTypes
  <1> QED BY <1>2, <1>4, <1>5, <1>6 DEF q

LEMMA AddedBlock ==
  ASSUME plan \in Seq(Blocks), line.to \in 0..ZMax, NEW kind \in {"feed", "sync"}
  PROVE  /\ Planned(kind) \in Seq(Blocks)
         /\ \/ Planned(kind) = plan
            \/ /\ Planned(kind) = Append(plan, [kind |-> kind, to |-> line.to, base |-> 0])
               /\ Len(Planned(kind)) = Len(plan) + 1
               /\ \A i \in 1..Len(plan) : Planned(kind)[i] = plan[i]
               /\ Planned(kind)[Len(plan) + 1] = [kind |-> kind, to |-> line.to, base |-> 0]
  <1> DEFINE b == [kind |-> kind, to |-> line.to, base |-> 0]
  <1>1. b \in Blocks BY DEF Blocks
  <1>2. Planned(kind) \in {plan, Append(plan, b)} BY DEF Planned
  <1> HIDE DEF b
  <1>3. /\ Append(plan, b) \in Seq(Blocks) /\ Len(Append(plan, b)) = Len(plan) + 1
        /\ \A i \in 1..Len(plan) : Append(plan, b)[i] = plan[i]
        /\ Append(plan, b)[Len(plan) + 1] = b
    BY <1>1
  <1> QED BY <1>2, <1>3 DEF b

LEMMA AligningType == Typed => Aligning \in 0..Turn - 1
  <1> SUFFICES ASSUME Typed PROVE Aligning \in 0..Turn - 1
    OBVIOUS
  <1>1. config.pitch * z \in Int BY ConfigTypes, PitchTimes DEF Typed, Records, Positions
  <1>2. gear + config.pitch * z \in Int BY <1>1 DEF Typed, Positions
  <1>3. direction * (gear + config.pitch * z) \in Int BY <1>2, PitchTimes DEF Typed, Positions
  <1> QED BY <1>3, Division, Lead DEF Aligning

LEMMA PhaseOfLine == Typed /\ LineInv /\ PhaseInv /\ line.kind = "phase" => line.to = Aligning
  BY NoLineFacts DEF LineInv, PhaseInv

\* What the core does with a line.
LEMMA ExecuteFrame ==
  ASSUME Execute
  PROVE  /\ ~seen.on /\ exec \in {"idle", "run"}
         /\ UNCHANGED <<shared, seen, gearing, task, exec, cancel, reset, alarm, z, counts, rpm>>
         /\ \/ /\ line.kind \in {"word", "phase"} /\ Idle /\ line' = NoLine /\ ack' = "ok"
               /\ phase' = (IF line.kind = "phase" THEN line.to ELSE phase) /\ plan' = plan
            \/ /\ line.kind \in {"feed", "jog"} /\ line' = NoLine /\ ack' = "ok"
               /\ plan' = Planned("feed") /\ phase' = phase
            \/ /\ line.kind = "sync" /\ Idle /\ line' = [line EXCEPT !.kind = "busy"] /\ ack' = ack
               /\ plan' = Planned("sync") /\ phase' = phase
            \/ /\ line.kind \notin {"none", "busy"} /\ line' = NoLine /\ ack' = "error"
               /\ plan' = plan /\ phase' = phase
            \/ /\ line.kind = "busy" /\ Idle /\ line' = NoLine /\ ack' = "ok"
               /\ plan' = plan /\ phase' = phase
  BY DEF Execute, drive

LEMMA CoreTypes == Typed /\ LineInv /\ PlanInv /\ PhaseInv /\ CoreStep => Typed'
  <1> SUFFICES ASSUME Typed, LineInv, PlanInv, PhaseInv, CoreStep PROVE Typed'
    OBVIOUS
  <1> USE DEF Typed
  <1>1. Asked' /\ Doing' BY CoreFrame DEF Flags, Asked, Doing, shared, task
  <1>2. Records' BY CoreFrame DEF Records, shared, task
  <1>3. UNCHANGED <<registered, idled, stage, direction, submitted, armed, gear, previous>>
    BY CoreFrame DEF gearing, task
  <1>4. CASE Execute
    <2>1. Noted' BY <1>3, <1>4, ExecuteFrame DEF Flags, Noted
    <2>2. phase' \in 0..Turn - 1
      BY <1>4, ExecuteFrame, PhaseOfLine, AligningType DEF Positions
    <2>3. Positions' BY <1>3, <1>4, <2>2, ExecuteFrame DEF Positions
    <2>4. line' \in Commands /\ ack' \in {"none", "ok", "error"}
      <3>1. line.kind = "sync" => [line EXCEPT !.kind = "busy"] \in Commands
        BY DEF Queues, Commands
      <3> QED BY <1>4, <3>1, ExecuteFrame, NoLineFacts DEF Queues
    <2>5. plan' \in Seq(Blocks)
      BY <1>4, ExecuteFrame, AddedBlock DEF Queues, LineInv
    <2>6. Queues' BY <1>4, <2>4, <2>5, ExecuteFrame DEF Queues
    <2> QED BY <1>1, <1>2, <2>1, <2>3, <2>6 DEF Flags
  <1>5. ASSUME UNCHANGED <<line, ack, phase, counts, rpm>>, z' \in 0..ZMax,
               plan' \in Seq(Blocks), exec' \in {"idle", "wait", "run", "decel"},
               cancel' \in BOOLEAN, reset' \in BOOLEAN, alarm' \in BOOLEAN
        PROVE  Typed'
    <2>1. Noted' BY <1>3, <1>5 DEF Flags, Noted
    <2>2. Positions' BY <1>3, <1>5 DEF Positions
    <2>3. Queues' BY <1>5 DEF Queues
    <2> QED BY <1>1, <1>2, <2>1, <2>2, <2>3 DEF Flags
  <1> USE DEF Flags, Noted, Positions, Queues, spindle
  <1>6. CASE CycleStart BY <1>5, <1>6 DEF CycleStart
  <1>7. CASE IndexFound
    <2>1. counts - config.pitch * z \in Int
      <3>1. config.pitch * z \in Int BY ConfigTypes, PitchTimes DEF Records
      <3> QED BY <3>1
    <2>2. plan' \in Seq(Blocks) BY <1>7, <2>1, RebasedPlan DEF IndexFound, PlanInv
    <2> QED BY <1>5, <1>7, <2>2 DEF IndexFound
  <1>8. CASE Step
    <2>1. plan # <<>> BY <1>8 DEF Step, PlanInv
    <2>2. Head(plan).to \in 0..ZMax BY <2>1, HeadTypes, BlockTypes
    <2>3. z' \in 0..ZMax BY <1>8, <2>2, TowardsIsBetween DEF Step
    <2> QED BY <1>5, <1>8, <2>3 DEF Step
  <1>9. CASE BlockDone
    <2>1. plan # <<>> BY <1>9 DEF BlockDone, PlanInv
    <2>2. plan' \in Seq(Blocks) BY <1>9, <2>1, HeadTypes DEF BlockDone
    <2>3. exec' \in {"idle", "wait", "run", "decel"} /\ cancel' \in BOOLEAN
      BY <1>9 DEF BlockDone
    <2> QED BY <1>5, <1>9, <2>2, <2>3 DEF BlockDone
  <1>10. CASE MotionCancel
    <2>1. (plan' = plan \/ plan' = <<>>) /\ exec' \in {"idle", "decel"} /\ cancel' \in {cancel, FALSE}
      BY <1>10 DEF MotionCancel
    <2>2. UNCHANGED <<line, ack, phase, counts, rpm, z, reset, alarm>> BY <1>10 DEF MotionCancel
    <2>3. plan' \in Seq(Blocks)
      <3>1. <<>> \in Seq(Blocks) /\ plan \in Seq(Blocks) OBVIOUS
      <3> QED BY <2>1, <3>1, Zenon
    <2> QED BY <1>5, <2>1, <2>2, <2>3
  <1>11. CASE Fault
    <2>1. plan' = <<>> /\ exec' = "idle" /\ cancel' = FALSE
          /\ alarm' \in {alarm, TRUE} /\ reset' \in {reset, TRUE}
      BY <1>11 DEF Fault
    <2>2. UNCHANGED <<line, ack, phase, counts, rpm, z>> BY <1>11 DEF Fault, drive
    <2>3. plan' \in Seq(Blocks) BY <2>1
    <2> QED BY <1>5, <2>1, <2>2, <2>3
  <1>12. ASSUME NEW d \in {1, -1}, Spin(d) PROVE Typed'
    <2>1. z' \in 0..ZMax
      <3>1. CASE exec = "run" /\ Head(plan).kind = "sync"
        <4>1. plan # <<>> BY <3>1 DEF PlanInv
        <4>2. Head(plan).base \in Int BY <4>1, HeadTypes, BlockTypes
        <4>3. PICK c \in Int : c = counts + d OBVIOUS
        <4>4. config.pitch * (c - Head(plan).base) \in Int
          <5>1. c - Head(plan).base \in Int BY <4>2
          <5> QED BY <5>1, ConfigTypes, PitchTimes DEF Records
        <4>5. Bounded(config.pitch * (c - Head(plan).base)) \in 0..ZMax BY <4>4, BoundedIsInside
        <4>6. z' = Synchronized(c) BY <1>12, <4>3 DEF Spin
        <4>7. Synchronized(c) \in 0..ZMax BY <4>5, SynchronizedCases
        <4> QED BY <4>6, <4>7
      <3>2. CASE ~(exec = "run" /\ Head(plan).kind = "sync")
        BY <1>12, <3>2 DEF Spin, Synchronized
      <3> QED BY <3>1, <3>2
    <2>2. Noted' BY <1>3, <1>12 DEF Spin
    <2>3. counts' \in Int BY <1>12 DEF Spin
    <2>4. Positions' BY <1>3, <1>12, <2>1, <2>3 DEF Spin
    <2>5. Queues' BY <1>12 DEF Spin
    <2> QED BY <1>1, <1>2, <2>2, <2>4, <2>5
  <1>13. CASE SpeedChanges
    <2>1. rpm' \in Int
      <3> HIDE DEF Typed
      <3>1. \A r \in Rpm : r \in Int BY Lead DEF Rpm
      <3> QED BY <1>13, <3>1 DEF SpeedChanges
    <2>2. UNCHANGED <<line, ack, plan, exec, phase, cancel, reset, alarm, z, counts>>
      BY <1>13 DEF SpeedChanges, core
    <2>3. Noted' BY <1>3, <2>2
    <2>4. Positions' BY <1>3, <2>1, <2>2
    <2>5. Queues' BY <2>2
    <2> QED BY <1>1, <1>2, <2>3, <2>4, <2>5
  <1> QED BY <1>4, <1>6, <1>7, <1>8, <1>9, <1>10, <1>11, <1>12, <1>13 DEF CoreStep

LEMMA ResetTypes == Typed /\ CoreReset => Typed'
  <1> SUFFICES ASSUME Typed, CoreReset PROVE Typed'
    OBVIOUS
  <1> USE DEF Typed, CoreReset, FollowReset, RegisteredAfterReset
  <1>1. Asked' BY DEF Flags, Asked
  <1>2. Doing' BY DEF Flags, Doing, braking
  <1>3. Noted' BY DEF Flags, Noted
  <1>4. Records' BY DEF Records
  <1>5. Positions' BY DEF Positions, spindle
  <1>6. Queues' BY NoLineFacts DEF Queues
  <1> QED BY <1>1, <1>2, <1>3, <1>4, <1>5, <1>6 DEF Flags

LEMMA StepTypes ==
  Typed /\ LineInv /\ PlanInv /\ PhaseInv /\ Next => Typed'
  BY NextCases, UiTypes, SnapshotTypes, LeavesTypes, StopsTypes, ArmsTypes, DoneTypes, ActsTypes,
     CoreTypes, ResetTypes

----------------------------------------------------------------------------
(* The line and the planner. *)

LEMMA EmptyQueue == LineInv /\ (\E next \in 0..5 : Proceeds(next)) => line = NoLine
  BY DEF LineInv, Proceeds, Acknowledged

LEMMA LineUnchanged ==
  ASSUME LineInv, UNCHANGED <<line, ack, plan>>, line = NoLine \/ UNCHANGED <<waiting, stage>>
  PROVE  LineInv'
  BY NoLineFacts DEF LineInv

LEMMA NoLineKept ==
  ASSUME line' = NoLine
  PROVE  LineInv'
  BY NoLineFacts DEF LineInv

LEMMA ActsLine == Typed /\ LineInv /\ PollActs => LineInv'
  <1> SUFFICES ASSUME Typed, LineInv, PollActs PROVE LineInv'
    OBVIOUS
  <1>1. line = NoLine /\ plan' = plan /\ Len(plan) \in Nat
    BY ActsProceed, ActsFrame, EmptyQueue DEF Proceeding, ActsKeep, motion, Typed, Queues
  <1>2. CASE Silent BY <1>1, <1>2, NoLineKept DEF Silent
  <1>3. CASE Sent("word", 0) BY <1>3 DEF Sent, LineInv
  <1>4. CASE Sent("phase", Aligning) /\ stage' = 1 BY <1>4 DEF Sent, LineInv
  <1>5. ASSUME NEW to \in 0..ZMax, Sent("sync", to), stage' = 2 PROVE LineInv'
    BY <1>5 DEF Sent, LineInv
  <1>6. ASSUME NEW to \in 0..ZMax, Sent("feed", to), Len(plan) <= 1 PROVE LineInv'
    BY <1>1, <1>6 DEF Sent, LineInv
  <1>7. ASSUME NEW to \in 0..ZMax, Sent("jog", to), Idle PROVE LineInv'
    BY <1>1, <1>7 DEF Sent, LineInv, Idle
  <1> QED BY <1>2, <1>3, <1>4, <1>5, <1>6, <1>7, ActsOutcome DEF Outcome

LEMMA CoreLine == Typed /\ LineInv /\ PlanInv /\ CoreStep => LineInv'
  <1> SUFFICES ASSUME Typed, LineInv, PlanInv, CoreStep PROVE LineInv'
    OBVIOUS
  <1>1. UNCHANGED <<waiting, stage>> BY CoreFrame DEF task
  <1>2. CASE Execute
    <2>1. CASE line' = NoLine BY <2>1, NoLineKept
    <2>2. CASE line.kind = "sync" /\ line' = [line EXCEPT !.kind = "busy"] /\ ack' = ack
      <3>1. line'.kind = "busy" /\ line'.to = line.to
        BY <2>2, CommandTypes DEF Typed, Queues, Commands
      <3>2. line # NoLine BY <2>2, NoLineFacts
      <3> QED BY <1>1, <2>2, <3>1, <3>2, NoLineFacts DEF LineInv
    <2> QED BY <1>2, <2>1, <2>2, ExecuteFrame
  <1>3. ASSUME UNCHANGED <<line, ack>>, Len(plan) <= 1 => Len(plan') <= 1
        PROVE  LineInv'
    BY <1>1, <1>3 DEF LineInv
  <1>4. CASE CycleStart BY <1>3, <1>4 DEF CycleStart
  <1>5. CASE IndexFound
    <2>1. Len(plan') = Len(plan) BY <1>5 DEF IndexFound, Typed, Queues
    <2> QED BY <1>3, <1>5, <2>1 DEF IndexFound
  <1>6. CASE Step BY <1>3, <1>6 DEF Step
  <1>7. CASE BlockDone
    <2>1. plan # <<>> BY <1>7 DEF BlockDone, PlanInv
    <2>2. plan' = Tail(plan) \/ plan' = <<>> BY <1>7 DEF BlockDone
    <2>3. Len(plan) <= 1 => Len(plan') <= 1 BY <2>1, <2>2, HeadTypes DEF Typed, Queues
    <2> QED BY <1>3, <1>7, <2>3 DEF BlockDone
  <1>8. CASE MotionCancel
    <2>1. plan' = plan \/ plan' = <<>> BY <1>8 DEF MotionCancel
    <2>2. Len(plan) <= 1 => Len(plan') <= 1 BY <2>1
    <2> QED BY <1>3, <1>8, <2>2 DEF MotionCancel
  <1>9. CASE Fault
    <2>1. Len(plan') <= 1 BY <1>9 DEF Fault
    <2> QED BY <1>3, <1>9, <2>1 DEF Fault
  <1>10. ASSUME NEW d \in {1, -1}, Spin(d) PROVE LineInv' BY <1>3, <1>10 DEF Spin
  <1>11. CASE SpeedChanges BY <1>3, <1>11 DEF SpeedChanges, core
  <1> QED BY <1>2, <1>4, <1>5, <1>6, <1>7, <1>8, <1>9, <1>10, <1>11 DEF CoreStep

LEMMA StepLine == Typed /\ LineInv /\ PlanInv /\ Next => LineInv'
  <1> SUFFICES ASSUME Typed, LineInv, PlanInv, Next PROVE LineInv'
    OBVIOUS
  <1>1. CASE UiStep BY <1>1, UiFrame, LineUnchanged DEF task, core
  <1>2. CASE Snapshot BY <1>2, SnapshotFrame, LineUnchanged DEF task, core
  <1>3. CASE PollLeaves BY <1>3, LeavesFrame, LineUnchanged DEF task, core
  <1>4. CASE PollStops
    <2>1. line' \in {line, NoLine} BY <1>4, StopsFrame DEF StopMotion, Discard
    <2>2. UNCHANGED <<waiting, stage, ack, plan>> BY <1>4, StopsFrame
    <2> QED BY <2>1, <2>2, LineUnchanged, NoLineKept
  <1>5. CASE PollArms BY <1>5, NoLineKept DEF PollArms, core
  <1>6. CASE PollManualDone
    <2>1. line = NoLine BY <1>6 DEF PollManualDone, Acknowledged, LineInv
    <2> QED BY <1>6, <2>1, NoLineKept DEF PollManualDone, core
  <1>7. CASE PollAtBound
    <2>1. line = NoLine BY <1>7 DEF PollAtBound, Acknowledged, LineInv
    <2> QED BY <1>7, <2>1, NoLineKept DEF PollAtBound, core
  <1>8. CASE PollWaits BY <1>8, WaitsFrame, EmptyQueue, NoLineKept DEF core
  <1>9. CASE CoreReset BY <1>9, NoLineKept DEF CoreReset
  <1> QED BY <1>1, <1>2, <1>3, <1>4, <1>5, <1>6, <1>7, <1>8, <1>9, NextCases, ActsLine, CoreLine

\* A block of G33 needs its line, which nothing but its end takes away.
LEMMA PlanUnchanged ==
  ASSUME PlanInv, UNCHANGED <<plan, exec>>, line.kind = "busy" => line'.kind = "busy"
  PROVE  PlanInv'
  BY DEF PlanInv

LEMMA EmptyPlan ==
  ASSUME plan' = <<>>, exec' = "idle"
  PROVE  PlanInv'
  BY DEF PlanInv

LEMMA CorePlan == Typed /\ LineInv /\ PlanInv /\ CoreStep => PlanInv'
  <1> SUFFICES ASSUME Typed, LineInv, PlanInv, CoreStep PROVE PlanInv'
    OBVIOUS
  <1>1. CASE Execute
    <2>0. exec' = exec BY <1>1, ExecuteFrame
    <2>1. CASE plan' = plan /\ (line.kind # "busy" \/ Idle)
      <3>1. \A i \in 1..Len(plan) : plan[i].kind # "sync"
        <4>1. CASE Idle BY <4>1 DEF Idle
        <4>2. CASE line.kind # "busy" BY <4>2 DEF PlanInv
        <4> QED BY <2>1, <4>1, <4>2
      <3> QED BY <2>0, <2>1, <3>1 DEF PlanInv
    <2>2. CASE line.kind \in {"feed", "jog"} /\ plan' = Planned("feed")
      <3>1. Len(plan) <= 1 /\ line.to \in 0..ZMax BY <2>2 DEF LineInv
      <3>2. \A i \in 1..Len(plan) : plan[i].kind # "sync" BY <2>2 DEF PlanInv
      <3>3. Len(plan) \in Nat BY DEF Typed, Queues
      <3>4. \/ plan' = plan
            \/ /\ Len(plan') = Len(plan) + 1 /\ \A i \in 1..Len(plan) : plan'[i] = plan[i]
               /\ plan'[Len(plan) + 1].kind = "feed"
        BY <2>2, <3>1, AddedBlock DEF Typed, Queues
      <3>5. CASE plan' = plan BY <2>0, <3>2, <3>5 DEF PlanInv
      <3>6. CASE /\ Len(plan') = Len(plan) + 1 /\ \A i \in 1..Len(plan) : plan'[i] = plan[i]
                 /\ plan'[Len(plan) + 1].kind = "feed"
        <4>1. Len(plan') <= 2 /\ plan' # <<>> BY <3>1, <3>3, <3>6
        <4>2. \A i \in 1..Len(plan') : plan'[i].kind # "sync"
          <5> SUFFICES ASSUME NEW i \in 1..Len(plan') PROVE plan'[i].kind # "sync"
            OBVIOUS
          <5>1. i \in 1..Len(plan) \/ i = Len(plan) + 1 BY <3>3, <3>6
          <5> QED BY <3>2, <3>6, <5>1
        <4> QED BY <4>1, <4>2 DEF PlanInv
      <3> QED BY <3>4, <3>5, <3>6
    <2>3. CASE line.kind = "sync" /\ Idle /\ line' = [line EXCEPT !.kind = "busy"]
               /\ plan' = Planned("sync")
      <3>1. line'.kind = "busy" BY <2>3 DEF Typed, Queues, Commands
      <3>2. plan = <<>> /\ exec = "idle" /\ line.to \in 0..ZMax BY <2>3 DEF Idle, LineInv
      <3>3. plan' \in Seq(Blocks) /\ (plan' = plan \/ Len(plan') = Len(plan) + 1)
        BY <2>3, <3>2, AddedBlock DEF Typed, Queues
      <3>4. Len(plan) = 0 BY <3>2
      <3>5. Len(plan') = 0 \/ Len(plan') = 1 BY <3>3, <3>4
      <3>6. exec' = "idle" BY <2>0, <3>2
      <3>7. Len(plan') <= 2 BY <3>3, <3>5
      <3>8. \A i \in 1..Len(plan') : Len(plan') = 1 BY <3>5
      <3> QED BY <3>1, <3>6, <3>7, <3>8 DEF PlanInv
    <2> QED BY <1>1, <2>1, <2>2, <2>3, ExecuteFrame
  <1>2. ASSUME line' = line, Len(plan') = Len(plan), plan # <<>>, plan' # <<>>,
               \A i \in 1..Len(plan) : plan'[i].kind = plan[i].kind
        PROVE  PlanInv'
    BY <1>2 DEF PlanInv
  <1>3. CASE CycleStart BY <1>2, <1>3 DEF CycleStart
  <1>4. CASE IndexFound
    <2>1. plan # <<>> BY <1>4 DEF IndexFound, PlanInv
    <2>2. counts - config.pitch * z \in Int
      <3>1. config.pitch * z \in Int BY ConfigTypes, PitchTimes DEF Typed, Records, Positions
      <3> QED BY <3>1 DEF Typed, Positions
    <2>3. /\ Len(plan') = Len(plan) /\ plan' # <<>> /\ plan'[1].kind = plan[1].kind
          /\ \A i \in 2..Len(plan) : plan'[i] = plan[i]
      BY <1>4, <2>1, <2>2, RebasedPlan DEF IndexFound, Typed, Queues
    <2>4. \A i \in 1..Len(plan) : i = 1 \/ i \in 2..Len(plan)
      BY <2>1, HeadTypes DEF Typed, Queues
    <2>5. \A i \in 1..Len(plan) : plan'[i].kind = plan[i].kind BY <2>3, <2>4
    <2>6. line' = line BY <1>4 DEF IndexFound
    <2> QED BY <1>2, <2>1, <2>3, <2>5, <2>6
  <1>5. CASE Step BY <1>5, PlanUnchanged DEF Step
  <1>6. CASE BlockDone
    <2>1. plan # <<>> BY <1>6 DEF BlockDone, PlanInv
    <2>2. plan' = Tail(plan) \/ plan' = <<>> BY <1>6 DEF BlockDone
    <2>3. plan' = <<>> => exec' = "idle" BY <1>6 DEF BlockDone
    <2>4. CASE plan' = <<>> BY <2>3, <2>4, EmptyPlan
    <2>5. CASE plan' # <<>> /\ plan' = Tail(plan)
      <3>1. Len(plan') = Len(plan) - 1 /\ Len(plan) \in Nat /\ Len(plan) <= 2
            /\ \A i \in 1..Len(plan') : i + 1 \in 1..Len(plan) /\ plan'[i] = plan[i + 1]
        BY <2>1, <2>5, HeadTypes DEF Typed, Queues, PlanInv
      <3>2. Len(plan) # 1 BY <2>5, <3>1, HeadTypes, <2>1 DEF Typed, Queues
      <3>3. \A i \in 1..Len(plan) : plan[i].kind # "sync" BY <3>2 DEF PlanInv
      <3>4. \A i \in 1..Len(plan') : plan'[i].kind # "sync" BY <3>1, <3>3
      <3>5. Len(plan') <= 2 BY <3>1
      <3> QED BY <2>5, <3>4, <3>5 DEF PlanInv
    <2> QED BY <2>2, <2>4, <2>5
  <1>7. CASE MotionCancel
    <2>1. \/ plan' = plan /\ plan # <<>>
          \/ plan' = <<>> /\ exec' = "idle"
          \/ UNCHANGED <<plan, exec>>
      <3>1. exec = "run" => plan # <<>> BY DEF PlanInv
      <3>2. \/ exec = "run" /\ plan' = plan
            \/ plan' = <<>> /\ exec' = "idle"
            \/ plan' = plan /\ exec' = exec
        BY <1>7 DEF MotionCancel
      <3> QED BY <3>1, <3>2
    <2>2. line' = line BY <1>7 DEF MotionCancel
    <2>3. CASE plan' = plan /\ plan # <<>> BY <1>2, <2>2, <2>3
    <2>4. CASE plan' = <<>> /\ exec' = "idle" BY <2>4, EmptyPlan
    <2>5. CASE UNCHANGED <<plan, exec>> BY <2>2, <2>5, PlanUnchanged
    <2> QED BY <2>1, <2>3, <2>4, <2>5
  <1>8. CASE Fault BY <1>8, EmptyPlan DEF Fault
  <1>9. ASSUME NEW d \in {1, -1}, Spin(d) PROVE PlanInv' BY <1>9, PlanUnchanged DEF Spin
  <1>10. CASE SpeedChanges BY <1>10, PlanUnchanged DEF SpeedChanges, core
  <1> QED BY <1>1, <1>3, <1>4, <1>5, <1>6, <1>7, <1>8, <1>9, <1>10 DEF CoreStep

LEMMA StepPlan == Typed /\ LineInv /\ PlanInv /\ Next => PlanInv'
  <1> SUFFICES ASSUME Typed, LineInv, PlanInv, Next PROVE PlanInv'
    OBVIOUS
  <1>1. CASE UiStep BY <1>1, UiFrame, PlanUnchanged DEF core
  <1>2. CASE Snapshot BY <1>2, SnapshotFrame, PlanUnchanged DEF core
  <1>3. CASE PollLeaves BY <1>3, LeavesFrame, PlanUnchanged DEF core
  <1>4. CASE PollStops
    <2>1. line.kind = "busy" => line' = line BY <1>4, StopsFrame DEF StopMotion, Discard
    <2> QED BY <1>4, <2>1, StopsFrame, PlanUnchanged
  <1>5. CASE PollArms BY <1>5, PlanUnchanged DEF PollArms, core
  <1>6. CASE PollManualDone BY <1>6, PlanUnchanged DEF PollManualDone, core
  <1>7. CASE PollAtBound BY <1>7, PlanUnchanged DEF PollAtBound, core
  <1>8. CASE PollWaits BY <1>8, WaitsFrame, PlanUnchanged DEF core
  <1>9. CASE PollActs
    <2>1. line = NoLine BY <1>9, ActsProceed, EmptyQueue DEF Proceeding
    <2> QED BY <1>9, <2>1, ActsFrame, NoLineFacts, PlanUnchanged DEF ActsKeep, motion
  <1>10. CASE CoreReset BY <1>10, EmptyPlan DEF CoreReset
  <1> QED BY <1>1, <1>2, <1>3, <1>4, <1>5, <1>6, <1>7, <1>8, <1>9, <1>10, NextCases, CorePlan

----------------------------------------------------------------------------
(* The copy of the requests, and braking. *)

LEMMA StepCopy == Typed /\ CopyInv /\ Next => CopyInv'
  <1> SUFFICES ASSUME Typed, CopyInv, Next PROVE CopyInv'
    OBVIOUS
  <1> USE DEF CopyInv
  <1>1. ASSUME seen' = NotPolling, UNCHANGED <<active, pending, update, request, config>>,
               ~(seen.on /\ seen.begin)
        PROVE  CopyInv'
    BY <1>1, NotPollingIsOff
  <1>2. CASE UiStep
    <2>1. config' = config BY <1>2, UiFrame DEF task
    <2>2. CASE Request BY <2>2 DEF Request
    <2>3. CASE Cancel BY <2>1, <2>3 DEF Cancel, entered
    <2>4. CASE Update
      <3>1. /\ seen'.on = seen.on /\ (seen.on => seen'.current = FALSE)
            /\ update' = TRUE /\ UNCHANGED <<active, pending>>
        <4>1. CASE seen.on
          <5>1. seen \in Copies BY <4>1, NotPollingIsOff DEF Typed, Records
          <5> QED BY <2>4, <4>1, <5>1 DEF Update, Copies
        <4>2. CASE ~seen.on BY <2>4, <4>2 DEF Update
        <4> QED BY <4>1, <4>2
      <3> QED BY <3>1
    <2>5. CASE Release BY <2>1, <2>5 DEF Release
    <2>6. ASSUME NEW s, NEW b, Jog(s, b) PROVE CopyInv' BY <2>1, <2>6 DEF Jog
    <2> QED BY <1>2, <2>2, <2>3, <2>4, <2>5, <2>6 DEF UiStep
  <1>3. CASE Snapshot
    <2>1. UNCHANGED <<active, update, request, config>> BY <1>3, SnapshotFrame DEF task
    <2>2. seen'.on /\ seen'.begin = pending /\ seen'.config = request /\ seen'.current = TRUE
      BY <1>3 DEF Snapshot
    <2>3. active /\ ~seen.on /\ pending' = FALSE BY <1>3 DEF Snapshot
    <2> QED BY <2>1, <2>2, <2>3
  <1>4. CASE PollLeaves
    <2>1. seen' = NotPolling /\ UNCHANGED <<pending, update, request, config>>
      BY <1>4, LeavesFrame DEF task
    <2>2. CASE active' = FALSE BY <2>1, <2>2, NotPollingIsOff
    <2>3. CASE PollAwaits \/ PollRejected
      <3>1. active' = active /\ ~seen.begin
        BY <2>3 DEF PollAwaits, PollRejected, Steady, Running, shared, entered
      <3> QED BY <1>1, <2>1, <3>1
    <2>4. PollFault \/ PollRefuses => active' = FALSE BY DEF PollFault, PollRefuses, Finished
    <2> QED BY <1>4, <2>2, <2>3, <2>4 DEF PollLeaves
  <1>5. CASE PollStops BY <1>1, <1>5, StopsFrame DEF StopMotion, PollEnds, entered
  <1>6. CASE PollArms
    <2>1. seen.on /\ seen \in Copies
      BY <1>6, NotPollingIsOff DEF PollArms, Arming, Polling, Typed, Records
    <2>2. /\ seen'.on /\ ~seen'.begin /\ seen'.config = seen.config
          /\ seen'.current = seen.current
      BY <1>6, <2>1 DEF PollArms, Copies
    <2>3. config' = seen.config /\ UNCHANGED <<active, pending, request>>
          /\ (update' <=> update /\ ~seen.current)
      BY <1>6 DEF PollArms, UpdateLeft
    <2> QED BY <2>1, <2>2, <2>3
  <1>7. CASE PollManualDone
    BY <1>1, <1>7 DEF PollManualDone, Steady, Running, PollEnds, shared
  <1>8. CASE PollAtBound
    BY <1>1, <1>8 DEF PollAtBound, Steady, Running, PollEnds, shared
  <1>9. CASE PollWaits BY <1>1, <1>9, WaitsFrame DEF Proceeds, Steady, Running, shared
  <1>10. CASE PollActs
    BY <1>1, <1>10, ActsFrame, ActsProceed DEF ActsKeep, Proceeding, Proceeds, Steady, Running
  <1>11. CASE CoreStep BY <1>11, CoreFrame DEF shared, task
  <1>12. CASE CoreReset
    BY <1>12 DEF CoreReset, FollowReset
  <1> QED BY <1>2, <1>3, <1>4, <1>5, <1>6, <1>7, <1>8, <1>9, <1>10, <1>11, <1>12, NextCases

LEMMA BrakeUnchanged ==
  ASSUME BrakeInv, UNCHANGED <<stopping, line, exec, cancel, reset, plan>>
  PROVE  BrakeInv'
  BY DEF BrakeInv

\* Only a poll that does not brake goes on.
LEMMA NotStopping == (\E next \in 0..5 : Proceeds(next)) => ~stopping /\ ~seen.stop
  BY DEF Proceeds, Steady, Brakes

LEMMA StepBrake == Typed /\ BrakeInv /\ Next => BrakeInv'
  <1> SUFFICES ASSUME Typed, BrakeInv, Next PROVE BrakeInv'
    OBVIOUS
  <1>0. ASSUME ~stopping' PROVE BrakeInv' BY <1>0 DEF BrakeInv
  <1>1. CASE UiStep BY <1>1, UiFrame, BrakeUnchanged DEF task, core
  <1>2. CASE Snapshot BY <1>2, SnapshotFrame, BrakeUnchanged DEF task, core
  <1>3. CASE PollLeaves BY <1>3, LeavesFrame, BrakeUnchanged DEF task, core
  <1>4. CASE PollStops
    <2>1. StopMotion /\ UNCHANGED <<plan, exec>> BY <1>4, StopsFrame
    <2>2. CASE stopping
      <3>1. UNCHANGED <<cancel, line>> /\ reset' \in {TRUE, reset} BY <2>1, <2>2 DEF StopMotion
      <3> QED BY <2>1, <2>2, <3>1 DEF BrakeInv
    <2>3. CASE ~stopping
      <3>1. cancel' = TRUE /\ line' = Discard BY <2>1, <2>3 DEF StopMotion
      <3>2. line'.kind \in {"none", "busy"} BY <3>1, NoLineFacts DEF Discard
      <3>3. exec \in {"wait", "idle"} => reset' = TRUE BY <2>1, <2>3 DEF StopMotion
      <3>4. exec # "wait" /\ exec # "idle" => reset' \/ (exec' # "wait" /\ exec' # "idle")
        BY <2>1
      <3> QED BY <3>1, <3>2, <3>3, <3>4 DEF BrakeInv
    <2> QED BY <2>2, <2>3
  <1>5. CASE PollArms BY <1>0, <1>5 DEF PollArms
  <1>6. CASE PollManualDone
    BY <1>0, <1>6 DEF PollManualDone, Steady, Brakes, braking
  <1>7. CASE PollAtBound BY <1>0, <1>7 DEF PollAtBound, Steady, Brakes, braking
  <1>8. CASE PollWaits BY <1>0, <1>8, WaitsFrame, NotStopping DEF braking
  <1>9. CASE PollActs
    BY <1>0, <1>9, ActsFrame, ActsProceed, NotStopping DEF ActsKeep, Proceeding, braking
  <1>10. CASE CoreStep
    <2>1. stopping' = stopping BY <1>10, CoreFrame DEF task
    <2>2. CASE ~stopping BY <1>0, <2>1, <2>2
    <2>3. CASE stopping
      <3> USE <2>3 DEF BrakeInv
      <3>1. CASE Execute BY <2>1, <3>1, ExecuteFrame, NoLineFacts
      <3>2. CASE CycleStart BY <3>2 DEF CycleStart
      <3>3. CASE IndexFound BY <3>3 DEF IndexFound
      <3>4. CASE Step BY <2>1, <3>4 DEF Step
      <3>5. CASE BlockDone
        <4>1. line' = line /\ reset' = reset BY <3>5 DEF BlockDone
        <4>2. (plan' = <<>> /\ exec' = "idle") \/ (exec' = exec /\ exec # "idle" /\ exec # "wait")
          BY <3>5 DEF BlockDone
        <4>3. exec' = "run" => exec = "run" /\ cancel' = cancel
          BY <3>5 DEF BlockDone, Typed, Flags, Noted
        <4> QED BY <2>1, <4>1, <4>2, <4>3
      <3>6. CASE MotionCancel BY <2>1, <3>6 DEF MotionCancel
      <3>7. CASE Fault BY <2>1, <3>7 DEF Fault
      <3>8. ASSUME NEW d \in {1, -1}, Spin(d) PROVE BrakeInv' BY <2>1, <3>8 DEF Spin
      <3>9. CASE SpeedChanges BY <2>1, <3>9 DEF SpeedChanges, core
      <3> QED BY <1>10, <3>1, <3>2, <3>3, <3>4, <3>5, <3>6, <3>7, <3>8, <3>9 DEF CoreStep
    <2> QED BY <2>2, <2>3
  <1>11. CASE CoreReset BY <1>11, NoLineFacts DEF CoreReset, BrakeInv
  <1> QED BY <1>1, <1>2, <1>3, <1>4, <1>5, <1>6, <1>7, <1>8, <1>9, <1>10, <1>11, NextCases

----------------------------------------------------------------------------
(* The phase. *)

\* The index that a G33 block waits for is where the reference put it.
LEMMA IndexIsGear ==
  ASSUME NEW d \in {1, -1}, NEW c \in Int, NEW g \in Int, NEW w \in Int,
         (d * c - ((d * (g + w)) % Turn)) % Turn = 0
  PROVE  (c - w) % Turn = g % Turn
  <1> DEFINE a == d * (g + w)
             p == a % Turn
             b == d * c - p
             q == a \div Turn
             k == b \div Turn
  <1>1. a \in Int
    <2>1. g + w \in Int OBVIOUS
    <2> QED BY <2>1, PitchTimes
  <1>2. p \in Int /\ q \in Int /\ a = Turn * q + p BY <1>1, Division, Lead
  <1>3. b \in Int
    <2>1. d * c \in Int BY PitchTimes
    <2> HIDE DEF p
    <2> QED BY <1>2, <2>1
  <1>4. b % Turn = 0 OBVIOUS
  <1>5. k \in Int /\ b = Turn * k + 0
    <2> HIDE DEF b
    <2> QED BY <1>3, <1>4, Division, Lead
  <1>6. \E n \in Int : c - w = g + Turn * n
    <2>1. b = d * c - p OBVIOUS
    <2>2. a = d * (g + w) OBVIOUS
    <2> HIDE DEF a, b, p, q, k
    <2>3. Turn * q \in Int /\ Turn * k \in Int BY <1>2, <1>5, Lead
    <2>4. Turn * (k - q) = Turn * k - Turn * q /\ Turn * (q - k) = Turn * q - Turn * k
      BY <1>2, <1>5, Lead
    <2>5. k - q \in Int /\ q - k \in Int BY <1>2, <1>5
    <2>6. CASE d = 1
      <3>1. b = c - p /\ a = g + w BY <2>1, <2>2, <2>6
      <3>2. c - w = g + Turn * (k - q) BY <1>2, <1>5, <2>3, <2>4, <3>1
      <3> QED BY <2>5, <3>2
    <2>7. CASE d = -1
      <3>1. b = -c - p /\ a = -(g + w) BY <2>1, <2>2, <2>7
      <3>2. ASSUME NEW x \in Int, NEW y \in Int, x + p = -(g + w), y = -c - p
            PROVE  c - w = g + (x - y)
        BY <1>2, <3>2
      <3>3. Turn * q + p = -(g + w) /\ Turn * k = -c - p BY <1>2, <1>5, <2>3, <3>1
      <3>4. c - w = g + (Turn * q - Turn * k) BY <2>3, <3>2, <3>3, Zenon
      <3>5. c - w = g + Turn * (q - k) BY <2>4, <3>4
      <3> QED BY <2>5, <3>5
    <2> QED BY <2>6, <2>7
  <1>7. PICK n \in Int : c - w = g + Turn * n BY <1>6
  <1> HIDE DEF a, b, p, q, k
  <1>8. (g + Turn * n) % Turn = g % Turn BY TurnsKeepPhase
  <1> QED BY <1>7, <1>8

\* What a stage of G33 relies on, apart from the blocks.
LEMMA PhaseUnchanged ==
  ASSUME PhaseInv,
         UNCHANGED <<gear, armed, stage, waiting, line, ack, phase, direction, config, z, exec, plan>>
  PROVE  PhaseInv'
  BY DEF PhaseInv, Aligning

\* The second stage begins at the phase that was set in the first.
LEMMA PhaseReady == Typed /\ LineInv /\ PhaseInv /\ Proceeds(2) => phase = Aligning
  <1> SUFFICES ASSUME Typed, LineInv, PhaseInv, Proceeds(2) PROVE phase = Aligning
    OBVIOUS
  <1>1. CASE ~waiting /\ stage = 2 BY <1>1 DEF PhaseInv
  <1>2. CASE waiting /\ ack = "ok" /\ stage = 1 BY <1>2 DEF PhaseInv, LineInv
  <1> QED BY <1>1, <1>2 DEF Proceeds, Acknowledged, Typed, Positions

LEMMA NoSyncBlock == PlanInv /\ line = NoLine /\ plan # <<>> /\ Typed => plan[1].kind # "sync"
  BY HeadTypes, NoLineFacts DEF PlanInv, Typed, Queues

LEMMA GearKept ==
  ASSUME PollActs, Typed
  PROVE  \E k \in Int : gear' = gear + Turn * k
  <1>1. gear + Turn * 0 = gear BY Lead DEF Typed, Positions
  <1> QED BY <1>1, ActsProceed DEF Proceeding

LEMMA ActsPhase == Typed /\ LineInv /\ PlanInv /\ PhaseInv /\ PollActs => PhaseInv'
  <1> SUFFICES ASSUME Typed, LineInv, PlanInv, PhaseInv, PollActs PROVE PhaseInv'
    OBVIOUS
  <1>1. UNCHANGED <<plan, exec, phase, z, config, armed>>
    BY ActsFrame DEF ActsKeep, motion
  <1>2. line = NoLine BY ActsProceed, EmptyQueue DEF Proceeding
  <1>3. gear' % Turn = armed'
    <2>1. PICK k \in Int : gear' = gear + Turn * k BY GearKept
    <2> QED BY <1>1, <2>1, TurnsKeepPhase DEF PhaseInv, Typed, Positions
  <1>4. plan # <<>> => plan[1].kind # "sync" BY <1>2, NoSyncBlock
  <1>5. PICK next \in 0..5 :
          /\ Proceeds(next)
          /\ \/ next = 5 /\ stage' = 5
             \/ /\ next # 5 /\ Idle /\ gear' = gear
                /\ stage' \in {0, 4} \/ (stage' = next /\ direction' = direction)
    BY ActsProceed DEF Proceeding
  <1>6. stage' \in {1, 2} => Idle /\ Aligning' = Aligning
    BY <1>1, <1>5 DEF Aligning
  <1>7. stage' = 2 => phase = Aligning BY <1>5, PhaseReady
  <1>8. CASE Silent BY <1>1, <1>2, <1>3, <1>4, <1>6, <1>7, <1>8, NoLineFacts DEF Silent, PhaseInv, Idle
  <1>9. CASE Sent("word", 0) /\ stage' \in {0, 3, 4}
    BY <1>1, <1>3, <1>4, <1>9 DEF Sent, PhaseInv
  <1>10. CASE Sent("phase", Aligning) /\ stage' = 1
    <2>1. line' # NoLine /\ line'.kind = "phase" /\ line'.to = Aligning'
      BY <1>6, <1>10, NoLineFacts DEF Sent
    <2> QED BY <1>1, <1>3, <1>4, <1>6, <1>10, <2>1 DEF PhaseInv, Idle
  <1>11. ASSUME NEW to \in 0..ZMax, Sent("sync", to), stage' = 2 PROVE PhaseInv'
    BY <1>1, <1>3, <1>4, <1>6, <1>7, <1>11 DEF Sent, PhaseInv, Idle
  <1>12. ASSUME NEW to \in 0..ZMax, Sent("feed", to), stage' \in {2, 5} PROVE PhaseInv'
    BY <1>1, <1>3, <1>4, <1>12 DEF Sent, PhaseInv
  <1>13. ASSUME NEW to \in 0..ZMax, Sent("jog", to), stage' = 0 PROVE PhaseInv'
    BY <1>1, <1>3, <1>4, <1>13 DEF Sent, PhaseInv
  <1> QED BY <1>8, <1>9, <1>10, <1>11, <1>12, <1>13, ActsOutcome DEF Outcome

\* While something moves or waits in the planner, no stage relies on it being empty.
LEMMA BusyPlanner ==
  ASSUME Typed, LineInv, PhaseInv, exec # "idle" \/ plan # <<>>
  PROVE  stage # 1 /\ ~(stage = 2 /\ ~waiting) /\ line.kind # "sync"
  BY DEF PhaseInv

LEMMA CorePhase == Typed /\ LineInv /\ PlanInv /\ PhaseInv /\ CoreStep => PhaseInv'
  <1> SUFFICES ASSUME Typed, LineInv, PlanInv, PhaseInv, CoreStep PROVE PhaseInv'
    OBVIOUS
  <1>1. UNCHANGED <<gear, armed, stage, waiting, direction, config>>
    BY CoreFrame DEF gearing, task
  <1>2. gear' % Turn = armed' BY <1>1 DEF PhaseInv
  <1>3. CASE Execute
    <2>0. z' = z /\ exec' = exec /\ Aligning' = Aligning
      BY <1>1, <1>3, ExecuteFrame DEF Aligning
    <2>1. line # NoLine => waiting /\ ack = "none" BY DEF LineInv
    <2>2. stage = 1 /\ line # NoLine => line.kind = "phase" /\ line.to = Aligning
      BY <2>1 DEF PhaseInv
    <2>3. CASE /\ line.kind \in {"word", "phase"} /\ Idle /\ line' = NoLine /\ ack' = "ok"
               /\ phase' = (IF line.kind = "phase" THEN line.to ELSE phase) /\ plan' = plan
      <3>1. plan = <<>> /\ exec = "idle" /\ line # NoLine BY <2>3, NoLineFacts DEF Idle
      <3>2. stage = 1 => phase' = Aligning BY <2>2, <2>3, <3>1
      <3> QED BY <1>1, <1>2, <2>0, <2>1, <2>3, <3>1, <3>2, NoLineFacts DEF PhaseInv
    <2>4. CASE /\ line.kind \in {"feed", "jog"} /\ line' = NoLine /\ ack' = "ok"
               /\ plan' = Planned("feed") /\ phase' = phase
      <3>1. line # NoLine /\ stage # 1 /\ waiting BY <2>1, <2>2, <2>4, NoLineFacts
      <3>2. plan' # <<>> => plan'[1].kind # "sync"
        <4>1. plan # <<>> => plan[1].kind # "sync"
          BY <2>4, HeadTypes DEF PlanInv, Typed, Queues
        <4>2. line.to \in 0..ZMax BY <2>4 DEF LineInv
        <4>3. CASE plan' = plan BY <4>1, <4>3
        <4>4. CASE /\ \A i \in 1..Len(plan) : plan'[i] = plan[i]
                   /\ plan'[Len(plan) + 1] = [kind |-> "feed", to |-> line.to, base |-> 0]
          <5>1. CASE plan = <<>> BY <4>4, <5>1
          <5>2. CASE plan # <<>>
            <6>1. plan'[1] = plan[1] BY <4>4, <5>2, HeadTypes DEF Typed, Queues
            <6> QED BY <4>1, <5>2, <6>1
          <5> QED BY <5>1, <5>2
        <4> QED BY <2>4, <4>2, <4>3, <4>4, AddedBlock DEF Typed, Queues
      <3> QED BY <1>1, <1>2, <2>4, <3>1, <3>2, NoLineFacts DEF PhaseInv
    <2>5. CASE /\ line.kind = "sync" /\ Idle /\ line' = [line EXCEPT !.kind = "busy"]
               /\ phase' = phase
      <3>1. line # NoLine /\ stage = 2 /\ waiting /\ phase = Aligning /\ exec = "idle"
        BY <2>1, <2>5, NoLineFacts DEF LineInv, PhaseInv
      <3>2. line'.kind = "busy" BY <2>5 DEF Typed, Queues, Commands
      <3> QED BY <1>1, <1>2, <2>0, <2>5, <3>1, <3>2 DEF PhaseInv
    <2>6. CASE /\ line.kind \notin {"none", "busy"} /\ line' = NoLine /\ ack' = "error"
               /\ plan' = plan /\ phase' = phase
      <3>1. line # NoLine BY <2>6, NoLineFacts
      <3> QED BY <1>1, <1>2, <2>0, <2>1, <2>6, <3>1, NoLineFacts DEF PhaseInv
    <2>7. CASE /\ line.kind = "busy" /\ Idle /\ line' = NoLine
               /\ plan' = plan /\ phase' = phase
      <3>1. stage = 2 /\ waiting /\ plan = <<>> /\ exec = "idle"
        BY <2>1, <2>7, NoLineFacts DEF LineInv, Idle
      <3> QED BY <1>1, <1>2, <2>0, <2>7, <3>1, NoLineFacts DEF PhaseInv
    <2> QED BY <1>3, <2>3, <2>4, <2>5, <2>6, <2>7, ExecuteFrame
  <1>4. CASE CycleStart
    <2>1. UNCHANGED <<line, phase, plan, z>> /\ exec = "idle" /\ plan # <<>>
          /\ exec' = (IF Head(plan).kind = "sync" THEN "wait" ELSE "run")
      BY <1>4 DEF CycleStart
    <2>2. Head(plan) = plan[1] BY <2>1, HeadTypes DEF Typed, Queues
    <2>3. Aligning' = Aligning BY <1>1, <2>1 DEF Aligning
    <2> QED BY <1>1, <1>2, <2>1, <2>2, <2>3, BusyPlanner DEF PhaseInv
  <1>5. CASE IndexFound
    <2>1. /\ UNCHANGED <<line, phase, z>> /\ exec = "wait" /\ exec' = "run"
          /\ plan' = [plan EXCEPT ![1].base = counts - config.pitch * z]
          /\ (direction * counts - phase) % Turn = 0
      BY <1>5 DEF IndexFound
    <2>2. config.pitch * z \in Int BY ConfigTypes, PitchTimes DEF Typed, Records, Positions
    <2>3. plan # <<>> BY <2>1 DEF PlanInv
    <2>4. plan'[1].base = counts - config.pitch * z /\ plan'[1].kind = plan[1].kind
      <3>1. counts - config.pitch * z \in Int BY <2>2 DEF Typed, Positions
      <3> QED BY <2>1, <2>3, <3>1, RebasedPlan DEF Typed, Queues
    <2>5. plan[1].kind = "sync" => plan'[1].base % Turn = armed
      <3> SUFFICES ASSUME plan[1].kind = "sync" PROVE plan'[1].base % Turn = armed
        OBVIOUS
      <3>1. phase = (direction * (gear + config.pitch * z)) % Turn
        BY <2>1, <2>3 DEF PhaseInv, Aligning
      <3>2. (counts - config.pitch * z) % Turn = gear % Turn
        BY <2>1, <2>2, <3>1, IndexIsGear DEF Typed, Positions
      <3> QED BY <2>4, <3>2 DEF PhaseInv
    <2> QED BY <1>1, <1>2, <2>1, <2>3, <2>4, <2>5, BusyPlanner DEF PhaseInv
  <1>6. CASE Step
    <2>1. UNCHANGED <<line, plan, exec>> /\ exec \in {"run", "decel"} /\ Head(plan).kind = "feed"
      BY <1>6 DEF Step
    <2>2. plan # <<>> BY <2>1 DEF PlanInv
    <2>3. Head(plan) = plan[1] BY <2>2, HeadTypes DEF Typed, Queues
    <2> QED BY <1>1, <1>2, <2>1, <2>2, <2>3, BusyPlanner DEF PhaseInv
  <1>7. CASE BlockDone
    <2>1. /\ UNCHANGED <<line, z, phase>> /\ exec \in {"run", "decel"}
          /\ plan' = Tail(plan) \/ plan' = <<>>
      BY <1>7 DEF BlockDone
    <2>2. plan # <<>> BY <2>1 DEF PlanInv
    <2>3. plan' # <<>> => plan'[1].kind # "sync"
      <3> SUFFICES ASSUME plan' # <<>> PROVE plan'[1].kind # "sync"
        OBVIOUS
      <3>1. plan' = Tail(plan) BY <2>1
      <3>2. Len(plan) \in Nat /\ Len(plan') = Len(plan) - 1 /\ plan' \in Seq(Blocks)
        BY <2>2, <3>1, HeadTypes DEF Typed, Queues
      <3>3. Len(plan') >= 1 BY <3>2
      <3>4. Len(plan) >= 2 /\ plan'[1] = plan[2] BY <2>2, <3>1, <3>2, <3>3 DEF Typed, Queues
      <3> QED BY <3>2, <3>4 DEF PlanInv
    <2> QED BY <1>1, <1>2, <2>1, <2>2, <2>3, BusyPlanner DEF PhaseInv
  <1>8. CASE MotionCancel
    <2>1. UNCHANGED <<line, ack, phase, z>> BY <1>8 DEF MotionCancel
    <2>2. Aligning' = Aligning BY <1>1, <2>1 DEF Aligning
    <2>3. CASE exec = "run" /\ exec' = "decel" /\ plan' = plan
      <3>1. plan # <<>> BY <2>3 DEF PlanInv
      <3> QED BY <1>1, <1>2, <2>1, <2>3, BusyPlanner DEF PhaseInv
    <2>4. CASE exec' = "idle" /\ plan' = <<>>
      BY <1>1, <1>2, <2>1, <2>2, <2>4 DEF PhaseInv
    <2>5. CASE UNCHANGED <<exec, plan>> BY <1>1, <2>1, <2>5, PhaseUnchanged
    <2> QED BY <1>8, <2>3, <2>4, <2>5 DEF MotionCancel
  <1>9. CASE Fault
    <2>1. UNCHANGED <<line, ack, phase, z>> /\ exec' = "idle" /\ plan' = <<>>
      BY <1>9 DEF Fault
    <2>2. Aligning' = Aligning BY <1>1, <2>1 DEF Aligning
    <2> QED BY <1>1, <1>2, <2>1, <2>2 DEF PhaseInv
  <1>10. ASSUME NEW d \in {1, -1}, Spin(d) PROVE PhaseInv'
    <2>1. UNCHANGED <<line, ack, phase, exec, plan>> BY <1>10 DEF Spin
    <2>2. CASE exec = "run" /\ Head(plan).kind = "sync"
      <3>1. plan # <<>> BY <2>2 DEF PlanInv
      <3> QED BY <1>1, <1>2, <2>1, <2>2, <3>1, BusyPlanner DEF PhaseInv
    <2>3. CASE ~(exec = "run" /\ Head(plan).kind = "sync")
      <3>1. z' = z BY <1>10, <2>3 DEF Spin, Synchronized
      <3> QED BY <1>1, <2>1, <3>1, PhaseUnchanged
    <2> QED BY <2>2, <2>3
  <1>11. CASE SpeedChanges
    BY <1>1, <1>11, PhaseUnchanged DEF SpeedChanges, core
  <1> QED BY <1>3, <1>4, <1>5, <1>6, <1>7, <1>8, <1>9, <1>10, <1>11 DEF CoreStep

LEMMA StepPhase == Typed /\ LineInv /\ PlanInv /\ PhaseInv /\ Next => PhaseInv'
  <1> SUFFICES ASSUME Typed, LineInv, PlanInv, PhaseInv, Next PROVE PhaseInv'
    OBVIOUS
  <1>1. CASE UiStep BY <1>1, UiFrame, PhaseUnchanged DEF gearing, task, core
  <1>2. CASE Snapshot BY <1>2, SnapshotFrame, PhaseUnchanged DEF gearing, task, core
  <1>3. CASE PollLeaves BY <1>3, LeavesFrame, PhaseUnchanged DEF task, core
  <1>4. CASE PollStops
    <2>1. UNCHANGED <<gear, armed, stage, waiting, ack, phase, direction, config, z, exec, plan>>
      BY <1>4, StopsFrame DEF engaged
    <2>2. line' = line \/ line' = NoLine BY <1>4, StopsFrame DEF StopMotion, Discard
    <2>3. Aligning' = Aligning BY <2>1 DEF Aligning
    <2>4. CASE line' = line BY <2>1, <2>4, PhaseUnchanged
    <2>5. CASE line' = NoLine
      <3>1. line # NoLine => ack = "none" BY DEF LineInv
      <3> QED BY <2>1, <2>3, <2>5, <3>1, NoLineFacts DEF PhaseInv
    <2> QED BY <2>2, <2>4, <2>5
  <1>5. CASE PollArms
    <2>1. /\ plan' = <<>> /\ exec' = "idle" /\ line' = NoLine /\ stage' = 0
          /\ gear' % Turn = armed'
      BY <1>5 DEF PollArms, Idle, core
    <2> QED BY <2>1, NoLineFacts DEF PhaseInv
  <1>6. ASSUME stage' = 0, UNCHANGED <<gear, armed, config, direction, core>> PROVE PhaseInv'
    <2>1. Aligning' = Aligning BY <1>6 DEF Aligning, core
    <2> QED BY <1>6, <2>1 DEF PhaseInv, core
  <1>7. CASE PollManualDone BY <1>6, <1>7 DEF PollManualDone
  <1>8. CASE PollAtBound BY <1>6, <1>8 DEF PollAtBound, engaged
  <1>9. CASE PollWaits
    <2>1. line = NoLine BY <1>9, WaitsFrame, EmptyQueue
    <2>2. UNCHANGED <<gear, armed, config, direction, core>> /\ waiting' = FALSE
      BY <1>9, WaitsFrame
    <2>3. Aligning' = Aligning BY <2>2 DEF Aligning, core
    <2>4. CASE PollWaitsForPhase
      <3>1. stage' = 5 BY <2>4 DEF PollWaitsForPhase
      <3> QED BY <2>2, <2>3, <3>1 DEF PhaseInv, core
    <2>5. ASSUME NEW next \in 0..4, PollHeld(next) PROVE PhaseInv'
      <3>1. Proceeds(next) /\ stage' = next /\ exec = "idle" /\ plan = <<>>
        BY <2>5 DEF PollHeld, Resting, Idle
      <3>2. next = 2 => phase = Aligning BY <3>1, PhaseReady
      <3> QED BY <2>1, <2>2, <2>3, <3>1, <3>2, NoLineFacts DEF PhaseInv, core
    <2> QED BY <1>9, <2>4, <2>5 DEF PollWaits
  <1>10. CASE CoreReset
    <2>1. /\ line' = NoLine /\ ack' = "none" /\ plan' = <<>> /\ exec' = "idle"
          /\ UNCHANGED <<gear, armed, config, direction, phase, z>>
      BY <1>10 DEF CoreReset, spindle
    <2>2. Aligning' = Aligning BY <2>1 DEF Aligning
    <2>3. stage' = 0 \/ UNCHANGED <<stage, waiting>> BY <1>10 DEF CoreReset, FollowReset
    <2> QED BY <2>1, <2>2, <2>3, NoLineFacts DEF PhaseInv
  <1> QED BY <1>1, <1>2, <1>3, <1>4, <1>5, <1>7, <1>8, <1>9, <1>10, NextCases, ActsPhase, CorePhase

----------------------------------------------------------------------------
(* The start of a feed by position. *)

LEMMA PoweredFeed ==
  ASSUME Typed, GearInv, NEW next \in 1..3, Proceeds(next), config.mode # 2
  PROVE  ~registered
  BY DEF GearInv, Proceeds, Acknowledged, Typed, Positions

LEMMA UiGear == Typed /\ GearInv /\ UiStep => GearInv'
  <1> SUFFICES ASSUME Typed, GearInv, UiStep PROVE GearInv'
    OBVIOUS
  <1>1. UNCHANGED <<config, stage, waiting, manual, registered, idled, stopping, counts, gear, z>>
    BY UiFrame DEF gearing, task, core
  <1>2. Lag(counts)' = Lag(counts) BY <1>1 DEF Lag
  <1> USE DEF GearInv
  <1>3. CASE Request BY <1>1, <1>3 DEF Request
  <1>4. CASE Cancel BY <1>1, <1>2, <1>4 DEF Cancel, Cancelled, entered
  <1>5. CASE Update
    <2>1. /\ seen'.on = seen.on
          /\ seen.on => seen'.begin = seen.begin /\ seen'.update = seen.update /\ seen'.stop = seen.stop
      <3>1. CASE seen.on
        <4>1. seen \in Copies BY <3>1, NotPollingIsOff DEF Typed, Records
        <4> QED BY <1>5, <3>1, <4>1 DEF Update, Copies
      <3>2. CASE ~seen.on BY <1>5, <3>2 DEF Update
      <3> QED BY <3>1, <3>2
    <2>2. UNCHANGED <<active, pending, stop>> BY <1>5 DEF Update
    <2> QED BY <1>1, <1>2, <2>1, <2>2
  <1>6. CASE Release BY <1>1, <1>2, <1>6 DEF Release
  <1>7. ASSUME NEW s, NEW b, Jog(s, b) PROVE GearInv' BY <1>1, <1>2, <1>7 DEF Jog
  <1> QED BY <1>3, <1>4, <1>5, <1>6, <1>7 DEF UiStep

LEMMA ActsGear == Typed /\ GearInv /\ PollActs => GearInv'
  <1> SUFFICES ASSUME Typed, GearInv, PollActs PROVE GearInv'
    OBVIOUS
  <1>1. UNCHANGED config /\ seen' = NotPolling BY ActsFrame DEF ActsKeep
  <1>2. ~seen'.on BY <1>1, NotPollingIsOff
  <1>3. CASE PollFollows
    <2>1. stage' = 5 BY <1>3 DEF PollFollows
    <2> QED BY <2>1 DEF GearInv
  <1>4. CASE PollStartsPosition
    <2>1. stage' = 4 BY <1>4 DEF PollStartsPosition
    <2> QED BY <2>1 DEF GearInv
  <1>5. CASE PollEngages
    <2>1. config'.mode # 2 => ~registered' BY <1>1, <1>5 DEF PollEngages
    <2> QED BY <2>1 DEF GearInv
  <1>6. ASSUME NEW next \in 0..4, Proceeds(next), stage' = next, waiting' = FALSE,
               registered' = registered, registered => idled'
        PROVE  GearInv'
    <2>1. stage' \in 1..3 /\ config.mode # 2 => ~registered BY <1>6, PoweredFeed
    <2> QED BY <1>1, <1>6, <2>1 DEF GearInv
  <1>7. ASSUME NEW next \in 0..4, PollManual(next) PROVE GearInv'
    <2> DEFINE step == IF config.mode = 2 THEN 1 ELSE Turn
               distance == Limited(jog.sign, IF jog.whole THEN ZMax + Turn ELSE step)
    <2>1. Proceeds(next) /\ registered' = registered BY <1>7 DEF PollManual, Resting
    <2>2. CASE distance <= 0
      <3>1. stage' = next /\ waiting' = FALSE /\ idled' = (idled \/ registered)
        BY <1>7, <2>2 DEF PollManual
      <3> QED BY <1>6, <2>1, <3>1
    <2>3. CASE ~(distance <= 0)
      <3>1. manual' = TRUE /\ stage' = 0 /\ Send("jog", z + jog.sign * distance, JogTaken)
        BY <1>7, <2>3 DEF PollManual
      <3>2. waiting' = TRUE \/ (waiting' = FALSE /\ stop' = TRUE)
        BY <3>1 DEF Send, Cancelled
      <3> QED BY <1>2, <3>1, <3>2 DEF GearInv
    <2> QED BY <2>2, <2>3
  <1>8. ASSUME NEW next \in 0..4, PollSends(next) PROVE GearInv'
    <2>1. next \in 1..3 /\ Proceeds(next) /\ stage' = next /\ registered' = registered
      BY <1>8 DEF PollSends, Unheld, Resting, engaged
    <2>2. config.mode # 2 => ~registered BY <2>1, PoweredFeed
    <2> QED BY <1>1, <2>1, <2>2 DEF GearInv
  <1> QED BY <1>3, <1>4, <1>5, <1>7, <1>8 DEF PollActs

LEMMA StepGear == Typed /\ GearInv /\ Next => GearInv'
  <1> SUFFICES ASSUME Typed, GearInv, Next PROVE GearInv'
    OBVIOUS
  <1>1. CASE Snapshot
    <2>1. UNCHANGED <<active, stop, config, stage, waiting, manual, registered, idled, stopping>>
      BY <1>1, SnapshotFrame DEF gearing, task
    <2>2. /\ active /\ ~seen.on
          /\ seen'.on /\ seen'.begin = pending /\ seen'.stop = stop
      BY <1>1 DEF Snapshot
    <2> QED BY <2>1, <2>2 DEF GearInv
  <1>2. CASE PollLeaves
    <2>1. UNCHANGED <<pending, config, stage, waiting, manual, registered, idled, stopping>>
          /\ seen' = NotPolling
      BY <1>2, LeavesFrame DEF task
    <2>2. ~seen'.on BY <2>1, NotPollingIsOff
    <2>3. CASE PollFault \/ PollRefuses
      <3>1. active' = FALSE BY <2>3 DEF PollFault, PollRefuses, Finished
      <3> QED BY <2>1, <3>1 DEF GearInv
    <2>4. CASE PollAwaits
      <3>1. waiting /\ ~seen.begin /\ UNCHANGED <<active, stop>>
        BY <2>4 DEF PollAwaits, Steady, Running, shared
      <3> QED BY <2>1, <2>2, <3>1 DEF GearInv
    <2>5. CASE PollRejected
      <3>1. stop' = TRUE BY <2>5 DEF PollRejected, Cancelled
      <3> QED BY <2>1, <2>2, <3>1 DEF GearInv
    <2> QED BY <1>2, <2>3, <2>4, <2>5 DEF PollLeaves
  <1>3. CASE PollStops
    <2>1. stopping' = TRUE /\ UNCHANGED <<config, stage, waiting, manual, registered>>
      BY <1>3, StopsFrame DEF StopMotion, engaged
    <2> QED BY <2>1 DEF GearInv
  <1>4. CASE PollArms
    <2>1. seen.on /\ seen \in Copies /\ seen.config \in Config
      BY <1>4, NotPollingIsOff, SeenTypes DEF PollArms, Arming, Polling, Typed, Records
    <2>2. seen'.on /\ ~seen'.begin /\ ~seen'.update BY <1>4, <2>1 DEF PollArms, Copies
    <2>3. waiting' = FALSE /\ stage' = 0 BY <1>4 DEF PollArms
    <2>4. Lag(counts)' = 0
      <3>1. /\ config' = seen.config /\ UNCHANGED <<counts, z>>
            /\ gear' = counts - seen.config.pitch * z
        BY <1>4 DEF PollArms, spindle, core
      <3>2. seen.config.pitch * z \in Int
        BY <2>1, ConfigTypes, PitchTimes DEF Typed, Positions
      <3> DEFINE w == seen.config.pitch * z
      <3>3. Lag(counts)' = counts - (counts - w) - w BY <3>1 DEF Lag
      <3>4. w \in Int BY <3>2
      <3> HIDE DEF w
      <3> QED BY <3>3, <3>4 DEF Typed, Positions
    <2> QED BY <2>2, <2>3, <2>4 DEF GearInv
  <1>5. CASE PollManualDone
    <2>1. registered' = FALSE BY <1>5 DEF PollManualDone
    <2> QED BY <2>1 DEF GearInv
  <1>6. CASE PollAtBound
    <2>1. stage = 3 /\ stage' = 0 /\ waiting' = FALSE /\ UNCHANGED <<registered, config>>
      BY <1>6 DEF PollAtBound, engaged
    <2> QED BY <2>1 DEF GearInv
  <1>7. CASE PollWaits
    <2>1. waiting' = FALSE /\ UNCHANGED <<registered, config>> BY <1>7, WaitsFrame
    <2>2. CASE PollWaitsForPhase
      <3>1. stage' = 5 BY <2>2 DEF PollWaitsForPhase
      <3> QED BY <3>1 DEF GearInv
    <2>3. ASSUME NEW next \in 0..4, PollHeld(next) PROVE GearInv'
      <3>1. Proceeds(next) /\ stage' = next /\ idled' = (idled \/ registered)
        BY <2>3 DEF PollHeld, Resting
      <3>2. stage' \in 1..3 /\ config.mode # 2 => ~registered BY <3>1, PoweredFeed
      <3> QED BY <2>1, <3>1, <3>2 DEF GearInv
    <2> QED BY <1>7, <2>2, <2>3 DEF PollWaits
  <1>8. CASE CoreStep
    <2>1. ~seen.on /\ UNCHANGED <<shared, seen, gearing, task>> BY <1>8, CoreFrame
    <2> QED BY <2>1 DEF GearInv, shared, gearing, task
  <1>9. CASE CoreReset
    <2>1. UNCHANGED <<config, idled>> BY <1>9 DEF CoreReset
    <2>2. CASE active
      <3>1. registered' = FALSE BY <1>9, <2>2 DEF CoreReset, FollowReset, RegisteredAfterReset
      <3> QED BY <3>1 DEF GearInv
    <2>3. CASE ~active
      <3>1. UNCHANGED <<active, waiting, manual, stage, registered>>
        BY <1>9, <2>3 DEF CoreReset, FollowReset
      <3> QED BY <2>1, <2>3, <3>1 DEF GearInv
    <2> QED BY <2>2, <2>3
  <1> QED BY <1>1, <1>2, <1>3, <1>4, <1>5, <1>6, <1>7, <1>8, <1>9, NextCases, UiGear, ActsGear

----------------------------------------------------------------------------
(* Theorems. *)

LEMMA FollowInit == Init => FollowInv
  <1> SUFFICES ASSUME Init PROVE FollowInv
    OBVIOUS
  <1> USE DEF Init
  <1>1. Flags BY DEF Flags, Asked, Doing, Noted
  <1>2. Records
    <2>1. request \in Config BY DEF Config, Mode
    <2>2. jog \in Jogs BY DEF Jogs
    <2> QED BY <2>1, <2>2 DEF Records
  <1>3. Positions BY Lead DEF Positions
  <1>4. Queues BY NoLineFacts DEF Queues
  <1>5. LineInv BY NoLineFacts DEF LineInv
  <1>6. PlanInv BY DEF PlanInv
  <1>7. CopyInv BY NotPollingIsOff DEF CopyInv
  <1>8. BrakeInv BY DEF BrakeInv
  <1>9. PhaseInv
    <2>1. gear % Turn = armed
      <3>1. 0 = Turn * 0 + 0 /\ 0 \in 0..Turn - 1 BY Lead
      <3>2. 0 % Turn = 0 BY <3>1, DivisionUnique, Lead
      <3> QED BY <3>2
    <2> QED BY <2>1, NoLineFacts DEF PhaseInv
  <1>10. GearInv BY DEF GearInv
  <1> QED BY <1>1, <1>2, <1>3, <1>4, <1>5, <1>6, <1>7, <1>8, <1>9, <1>10 DEF FollowInv, Typed

LEMMA FollowStutter == FollowInv /\ UNCHANGED vars => FollowInv'
  <1> SUFFICES ASSUME FollowInv, UNCHANGED vars PROVE FollowInv'
    OBVIOUS
  <1> USE DEF FollowInv, vars, shared, gearing, task, core, spindle
  <1>1. Flags' BY DEF Typed, Flags, Asked, Doing, Noted
  <1>2. Records' BY DEF Typed, Records
  <1>3. Positions' BY DEF Typed, Positions
  <1>4. Queues' BY DEF Typed, Queues
  <1>5. LineInv' BY DEF LineInv
  <1>6. PlanInv' BY DEF PlanInv
  <1>7. CopyInv' BY DEF CopyInv
  <1>8. BrakeInv' BY DEF BrakeInv
  <1>9. PhaseInv' BY DEF PhaseInv, Aligning
  <1>10. GearInv' BY DEF GearInv, Lag
  <1> QED BY <1>1, <1>2, <1>3, <1>4, <1>5, <1>6, <1>7, <1>8, <1>9, <1>10 DEF Typed

\* All of it, from the first state on: the invariant is inductive.
THEOREM FollowInductive == Spec => []FollowInv
  <1>1. FollowInv /\ [Next]_vars => FollowInv'
    <2> SUFFICES ASSUME FollowInv, Next PROVE FollowInv'
      BY FollowStutter
    <2> USE DEF FollowInv
    <2>1. Typed' BY StepTypes
    <2>2. LineInv' /\ PlanInv' BY StepLine, StepPlan
    <2>3. CopyInv' /\ BrakeInv' BY StepCopy, StepBrake
    <2>4. PhaseInv' /\ GearInv' BY StepPhase, StepGear
    <2> QED BY <2>1, <2>2, <2>3, <2>4
  <1> QED BY <1>1, FollowInit, PTL DEF Spec

\* The types, and the bounds of the feed: whatever follows, jogs, brakes or is
\* reset, the axis stays between config.z_min and config.z_max (follow.c:244, 394).
THEOREM FollowTypeCorrect == Spec => []TypeOK
  <1>1. FollowInv => TypeOK
    <2> SUFFICES ASSUME FollowInv PROVE TypeOK
      OBVIOUS
    <2> USE DEF FollowInv, Typed
    <2>1. \A b \in {active, pending, stop, held, release, update} : b \in BOOLEAN
      BY DEF Flags, Asked
    <2>2. \A b \in {stopping, internalReset, waiting, manual, following} : b \in BOOLEAN
      BY DEF Flags, Doing
    <2>3. \A b \in {registered, idled, cancel, reset, alarm} : b \in BOOLEAN
      BY DEF Flags, Noted
    <2>4. \A b \in {active, pending, stop, held, release, update, stopping, internalReset, waiting,
                    manual, following, registered, idled, cancel, reset, alarm} : b \in BOOLEAN
      <3> HIDE DEF FollowInv, Typed
      <3> QED BY <2>1, <2>2, <2>3, Zenon
    <2>5. line.kind \in {"none", "word", "phase", "sync", "busy", "feed", "jog"}
      BY CommandTypes DEF Queues
    <2>6. Len(plan) <= 3
      <3>1. Len(plan) \in Nat /\ Len(plan) <= 2 BY DEF Queues, PlanInv
      <3> QED BY <3>1
    <2>7. \A i \in DOMAIN plan : plan[i].to \in 0 .. ZMax
      <3> SUFFICES ASSUME NEW i \in DOMAIN plan PROVE plan[i].to \in 0..ZMax
        OBVIOUS
      <3>1. plan[i] \in Blocks BY DEF Queues
      <3> QED BY <3>1, BlockTypes
    <2>8. request \in Config /\ config \in Config BY DEF Records
    <2>9. /\ z \in 0..ZMax /\ stage \in 0..5 /\ direction \in {1, -1}
          /\ submitted \in 0..ZMax /\ phase \in 0..Turn - 1 /\ armed \in 0..Turn - 1
      BY DEF Positions
    <2>10. ack \in {"none", "ok", "error"} /\ exec \in {"idle", "wait", "run", "decel"}
      BY DEF Queues
    <2> HIDE DEF FollowInv, Typed
    <2> QED BY <2>4, <2>5, <2>6, <2>7, <2>8, <2>9, <2>10 DEF TypeOK
  <1> QED BY <1>1, FollowInductive, PTL

\* The axis keeps the phase of the reference it was armed at, over manual moves,
\* braking, turns lost at a bound and the change between position feed and G33
\* (follow.c:199, 439): only whole turns are lost.
THEOREM PhaseIsKept == Spec => []PhaseKept
  <1>1. FollowInv => PhaseKept
    <2> SUFFICES ASSUME FollowInv PROVE PhaseKept
      OBVIOUS
    <2>1. gear % Turn = armed BY DEF FollowInv, PhaseInv
    <2>2. exec = "run" => plan # <<>> BY DEF FollowInv, PlanInv
    <2>3. plan # <<>> => Head(plan) = plan[1]
      BY HeadTypes DEF FollowInv, Typed, Queues
    <2>4. exec = "run" /\ Head(plan).kind = "sync" => Head(plan).base % Turn = armed
      BY <2>2, <2>3 DEF FollowInv, PhaseInv
    <2> QED BY <2>1, <2>4 DEF PhaseKept
  <1> QED BY <1>1, FollowInductive, PTL

\* A parameter that the operator set is in use or still pending, also when the update
\* falls between the copy of a poll and its use (follow.c:306).
THEOREM ParametersNewest == Spec => []NewestParameters
  <1>1. FollowInv => NewestParameters
    BY DEF FollowInv, CopyInv, NewestParameters
  <1> QED BY <1>1, FollowInductive, PTL

\* A feed that brakes has no line left that could start, and moves only on while the
\* cancel is on its way (follow.c:171-185).
THEOREM StopsTakeHold == Spec => []StopTakesHold
  <1>1. FollowInv => StopTakesHold
    BY DEF FollowInv, BrakeInv, StopTakesHold
  <1> QED BY <1>1, FollowInductive, PTL

\* A feed by position takes up the gear where it was armed: it does not run after
\* turns the spindle made in between (follow.c:410-416).
THEOREM FeedsStartInGear == Spec => StartsInGear
  <1> DEFINE Starts == stage # 4 /\ stage' = 4 /\ registered' /\ ~idled => Abs(Lag(counts)) < Turn
  <1>1. FollowInv /\ [Next]_vars => [Starts]_vars
    <2> SUFFICES ASSUME FollowInv, Next, stage # 4, stage' = 4, registered', ~idled
                 PROVE  Abs(Lag(counts)) < Turn
      BY DEF Starts
    <2> USE DEF FollowInv
    <2>1. PollStartsPosition
      <3>1. CASE UiStep BY <3>1, UiFrame DEF task
      <3>2. CASE Snapshot BY <3>2, SnapshotFrame DEF task
      <3>3. CASE PollLeaves BY <3>3, LeavesFrame DEF task
      <3>4. CASE PollStops BY <3>4, StopsFrame
      <3>5. CASE PollArms BY <3>5 DEF PollArms
      <3>6. CASE PollManualDone BY <3>6 DEF PollManualDone
      <3>7. CASE PollAtBound BY <3>7 DEF PollAtBound
      <3>8. ASSUME NEW next \in 0..5, Proceeds(next), stage' = next PROVE FALSE
        BY <3>8 DEF Proceeds, Typed, Positions
      <3>9. CASE PollWaits BY <3>8, <3>9, WaitsFrame
      <3>10. CASE PollFollows BY <3>10 DEF PollFollows
      <3>11. CASE PollEngages BY <3>11 DEF PollEngages
      <3>12. ASSUME NEW next \in 0..4, PollManual(next) PROVE FALSE
        <4>1. Proceeds(next) /\ stage' \in {next, 0} BY <3>12 DEF PollManual, Resting
        <4> QED BY <3>8, <4>1
      <3>13. ASSUME NEW next \in 0..4, PollSends(next) PROVE FALSE
        <4>1. Proceeds(next) /\ stage' = next BY <3>13 DEF PollSends, Unheld, Resting
        <4> QED BY <3>8, <4>1
      <3>14. CASE CoreStep BY <3>14, CoreFrame DEF task
      <3>15. CASE CoreReset
        <4>1. stage' = 0 \/ stage' = stage BY <3>15 DEF CoreReset, FollowReset
        <4> QED BY <4>1
      <3> QED BY <3>1, <3>2, <3>3, <3>4, <3>5, <3>6, <3>7, <3>9, <3>10, <3>11, <3>12, <3>13,
                 <3>14, <3>15, NextCases DEF PollActs
    <2>2. /\ Proceeds(0) /\ registered /\ config.mode # 2
      BY <2>1 DEF PollStartsPosition, Unheld, Resting, ByPosition
    <2>3. stage = 0 /\ ~waiting
      BY <2>2 DEF Proceeds, Acknowledged, Typed, Positions
    <2>4. ~stopping /\ ~seen.stop /\ seen.on /\ ~seen.begin
      BY <2>2 DEF Proceeds, Steady, Running, Polling, Brakes
    <2>5. active /\ ~pending BY <2>4 DEF CopyInv
    <2>6. Lag(counts) = 0 BY <2>2, <2>3, <2>4, <2>5 DEF GearInv
    <2> QED BY <2>6, Lead DEF Abs
  <1>2. Spec => [][Starts]_vars BY <1>1, FollowInductive, PTL DEF Spec
  <1> QED BY <1>2 DEF StartsInGear

===============================================================================
