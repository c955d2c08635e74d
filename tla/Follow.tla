------------------------------- MODULE Follow -------------------------------
(***************************************************************************)
(* The assisted feed of main/follow.c: a gearbox between the spindle and   *)
(* the Z axis.  Below 30 rpm it feeds measured spindle positions into the  *)
(* planner (stages 4 and 5), above that it runs G33 blocks (stages 0..3);  *)
(* in between the operator may move the axis, change the pitch or stop.    *)
(*                                                                         *)
(* The UI task writes the shared requests under a lock.  poll() runs on    *)
(* the grblHAL task: it copies them (Snapshot) and then acts on its copy,  *)
(* so the UI task gets in between.  The step interrupt and the spindle,    *)
(* which do not touch the requests, move between two polls.                *)
(*                                                                         *)
(* One Z step is one encoder count at the pitches +1 and -1; X and the     *)
(* slope of a cone are left out.  anchor_z and anchor_counts are the one   *)
(* number `gear`: the axis is in gear when z = pitch * (counts - gear).    *)
(***************************************************************************)
EXTENDS Integers, Sequences

CONSTANTS
    Turn,      \* encoder counts of a revolution, and Z steps of a lead
    ZMax,      \* config.z_min is 0, config.z_max is ZMax
    MaxCount,  \* bound on the spindle position
    Forward,   \* directions of a jog, TRUE is towards ZMax
    Speeds,    \* of the spindle, rpm in either direction
    MaxInputs  \* bound on what the operator and the spindle drive do

ASSUME FollowAssumption ==
    /\ Speeds \subseteq Nat /\ Forward \subseteq BOOLEAN /\ MaxInputs \in Nat
    /\ Turn \in Nat \ {0, 1, 2} /\ ZMax \in Nat \ {0}
    /\ MaxCount \in Nat

VARIABLES
    \* shared with the UI task
    active,        \* published.active
    pending, stop, \* pending, stop_requested
    jog,           \* manual_pending with its direction and distance
    held,          \* manual_held
    release,       \* release_requested
    update,        \* parameters_pending
    request,
    \* of the grblHAL task
    seen,          \* what poll() copied, and whether `request` is still that
    config, stage, direction,
    stopping, internalReset, waiting, manual, following, registered,
    gear, previous, submitted,
    idled,         \* history: a key kept a feed in gear from starting
    armed,         \* history: the gear of the reference that was armed last
    \* grblHAL and the spindle
    line,          \* the submitted command
    ack,           \* its published completion
    plan, exec,    \* planner blocks; "idle", "wait", "run" or "decel"
    phase,         \* $P4PHASE
    cancel, reset, alarm,
    z, counts, rpm,
    inputs         \* how many of MaxInputs were made

shared  == <<active, pending, stop, jog, held, release, update, request>>
gearing == <<registered, gear, previous, submitted, idled, armed>>
task    == <<config, stage, direction, stopping, internalReset, waiting, manual, following>>
core    == <<line, ack, plan, exec, phase, cancel, reset, alarm, z>>
spindle == <<counts, rpm, inputs>>
\* Parts of them that most actions leave alone
entered == <<active, pending, release, update, request>>
motion  == <<plan, exec, phase, cancel, reset, alarm, z>>
drive   == <<counts, rpm>>
engaged == <<registered, gear, submitted, idled, armed>>
braking == <<stopping, internalReset>>
vars == <<shared, seen, gearing, task, core, spindle>>

Rpm == Speeds \cup {-s : s \in Speeds}
Mode == {0, 2}                   \* gearbox, and feed per minute
Config == [mode : Mode, pitch : {1, -1}]
NoLine == [kind |-> "none", to |-> 0]
NotPolling == [on |-> FALSE]

JogTaken == [jog EXCEPT !.pending = FALSE]
Abs(n) == IF n < 0 THEN -n ELSE n
Input == inputs < MaxInputs /\ inputs' = inputs + 1
Idle == exec = "idle" /\ plan = <<>> /\ ~alarm

Init ==
    /\ active = FALSE /\ pending = FALSE /\ stop = FALSE
    /\ jog = [pending |-> FALSE, sign |-> 1, whole |-> FALSE]
    /\ held = FALSE /\ release = FALSE /\ update = FALSE
    /\ request = [mode |-> 0, pitch |-> 1] /\ config = request
    /\ seen = NotPolling /\ stage = 0 /\ direction = 1
    /\ stopping = FALSE /\ internalReset = FALSE /\ waiting = FALSE /\ manual = FALSE
    /\ following = FALSE /\ registered = FALSE
    /\ gear = 0 /\ previous = 0 /\ submitted = 0 /\ idled = FALSE /\ armed = 0
    /\ line = NoLine /\ ack = "none" /\ plan = <<>> /\ exec = "idle" /\ phase = 0
    /\ cancel = FALSE /\ reset = FALSE /\ alarm = FALSE
    /\ z \in {0, ZMax} /\ rpm \in Speeds /\ counts = 0 /\ inputs = 0

---------------------------------------------------------------------------
(* The UI task, or a $P4 command                                           *)

Request ==
    /\ Input
    /\ ~active
    /\ \E m \in Mode : request' = [mode |-> m, pitch |-> 1]
    /\ active' = TRUE /\ pending' = TRUE
    /\ stop' = FALSE /\ jog' = JogTaken /\ held' = FALSE /\ release' = FALSE /\ update' = FALSE
    /\ UNCHANGED <<seen, gearing, task, core, drive>>

Cancelled == stop' = TRUE /\ held' = FALSE /\ jog' = JogTaken
Cancel ==
    /\ Input
    /\ active /\ ~stop
    /\ Cancelled
    /\ UNCHANGED <<entered, seen, gearing, task, core, drive>>

\* lathe_follow_update(); the generation tells poll() that its copy is old.
Update ==
    /\ Input
    /\ active /\ ~stop
    /\ request' \in {[request EXCEPT !.pitch = p] : p \in {1, -1}}
    /\ update' = TRUE
    /\ seen' = IF seen.on THEN [seen EXCEPT !.current = FALSE] ELSE seen
    /\ UNCHANGED <<active, pending, stop, jog, held, release, gearing, task, core, drive>>

\* A continuous jog goes to the bound, a step goes one step or one lead.
Jog(sign, continuous) ==
    /\ Input
    /\ active
    /\ jog' = [pending |-> TRUE, sign |-> sign, whole |-> continuous]
    /\ held' = continuous
    /\ release' = FALSE
    /\ UNCHANGED <<active, pending, stop, update, request, seen, gearing, task, core, drive>>

Release ==
    /\ Input
    /\ active /\ held
    /\ held' = FALSE /\ jog' = JogTaken /\ release' = TRUE
    /\ UNCHANGED <<active, pending, stop, update, request, seen, gearing, task, core, drive>>

---------------------------------------------------------------------------
(* poll(): the copy, and the four ways to leave it                         *)

Snapshot ==
    /\ active /\ ~seen.on /\ ~reset
    /\ seen' = [on |-> TRUE, begin |-> pending, stop |-> stop, jog |-> jog.pending,
                held |-> held, release |-> release, update |-> update,
                config |-> request, current |-> TRUE]
    /\ pending' = FALSE
    /\ UNCHANGED <<active, stop, jog, held, release, update, request, gearing, task, core, spindle>>

PollEnds == seen' = NotPolling

\* say(.., false)
Finished == active' = FALSE /\ PollEnds

\* Mutant: a line that is not executed yet is left in the queue.
LeftInQueue == line

\* lathe_bridge_discard_cycle_commands()
Discard == IF line.kind = "busy" THEN line ELSE NoLine

\* stop_motion(): brake once, and reset what is at rest.
StopMotion ==
    /\ PollEnds
    /\ stopping' = TRUE
    /\ IF stopping THEN UNCHANGED <<cancel, line>>
                   ELSE cancel' = TRUE /\ line' = Discard
    /\ IF exec = "wait" \/ (exec = "idle" /\ (stopping => ~cancel))
       THEN internalReset' = ~stop' /\ reset' = TRUE
       ELSE UNCHANGED <<internalReset, reset>>

\* send(): a full queue cancels the feed; otherwise a jog is still `left`.
Send(kind, to, left) ==
    /\ PollEnds
    /\ \/ /\ line' = [kind |-> kind, to |-> to]
          /\ ack' = "none" /\ waiting' = TRUE /\ jog' = left
          /\ UNCHANGED <<stop, held, inputs>>
       \/ /\ Input
          /\ waiting' = FALSE
          /\ Cancelled
          /\ UNCHANGED <<line, ack>>

---------------------------------------------------------------------------
(* poll(): faults and new parameters                                       *)

PollFault ==
    /\ seen.on /\ alarm
    /\ Finished
    /\ UNCHANGED <<pending, stop, jog, held, release, update, request, gearing, task, core,
                   spindle>>

Polling == seen.on /\ ~alarm

PollUpdateBrakes ==
    /\ Polling /\ seen.update /\ ~seen.begin
    /\ stage # 0 \/ stopping \/ ~Idle
    /\ UNCHANGED shared
    /\ StopMotion
    /\ UNCHANGED <<gearing, config, stage, direction, waiting, manual, following, ack, plan, exec,
                   phase, alarm, z, spindle>>

Arming == Polling /\ (seen.begin \/ (seen.update /\ stage = 0 /\ ~stopping /\ Idle))

\* Other motion, a line that is not acknowledged, or a setting out of range
PollRefuses ==
    /\ Arming
    /\ Finished
    /\ UNCHANGED <<pending, stop, jog, held, release, update, request, gearing, task, core,
                   spindle>>

\* Mutant: every update is marked as applied, also one that came since.
UpdateForgotten == FALSE

\* A change since the copy stays pending.
UpdateLeft == update /\ ~seen.current

\* The reference is taken here; the same poll goes on with the new settings.
PollArms ==
    /\ Arming /\ Idle /\ line = NoLine
    /\ config' = seen.config
    /\ update' = UpdateLeft
    /\ gear' = counts - seen.config.pitch * z
    /\ armed' = gear' % Turn
    /\ previous' = counts /\ registered' = TRUE /\ idled' = FALSE
    /\ following' = (seen.config.mode # 2 /\ Abs(rpm) < 30)
    /\ stage' = 0
    /\ stopping' = FALSE /\ internalReset' = FALSE /\ waiting' = FALSE /\ manual' = FALSE
    /\ seen' = [seen EXCEPT !.begin = FALSE, !.update = FALSE]
    /\ UNCHANGED <<active, pending, stop, jog, held, release, request, direction, submitted, core,
                   spindle>>

---------------------------------------------------------------------------
(* poll(): braking                                                         *)

Running == Polling /\ ~seen.begin /\ ~seen.update

Reversing ==
    /\ stage \in 1 .. 3 /\ config.mode # 2
    /\ rpm * direction < 30 \/ (counts - previous) * direction < -2

Brakes ==
    \/ stage >= 4 /\ Abs(rpm) >= 35
    \/ seen.stop \/ stopping \/ Reversing
    \/ seen.jog /\ ~manual /\ stage # 0
    \/ manual /\ seen.release

\* The axis rate of the configuration decides on the speed that is too high.
PollOverspeed ==
    /\ Running /\ Input /\ (config.mode = 2 \/ rpm # 0)
    /\ previous' = counts
    /\ Cancelled /\ StopMotion
    /\ UNCHANGED <<entered, engaged, config, stage, direction, waiting, manual, following, ack,
                   plan, exec, phase, alarm, z, drive>>

PollBrakes ==
    /\ Running /\ Brakes
    /\ previous' = counts
    /\ UNCHANGED shared
    /\ StopMotion
    /\ UNCHANGED <<engaged, config, stage, direction, waiting, manual, following, ack, plan, exec,
                   phase, alarm, z, spindle>>

---------------------------------------------------------------------------
(* poll(): acknowledgments                                                 *)

Steady == Running /\ ~Brakes /\ previous' = counts
Acknowledged == waiting /\ ack = "ok" /\ (stage = 5 \/ Idle)

PollAwaits ==
    /\ Steady /\ waiting
    /\ ack = "none" \/ (ack = "ok" /\ stage # 5 /\ ~Idle)
    /\ PollEnds
    /\ UNCHANGED <<shared, engaged, task, core, spindle>>

PollRejected ==
    /\ Steady /\ waiting /\ ack = "error"
    /\ Cancelled /\ PollEnds
    /\ UNCHANGED <<entered, engaged, task, core, spindle>>

PollManualDone ==
    /\ Steady /\ Acknowledged /\ stage \notin {4, 5} /\ manual
    /\ manual' = FALSE /\ waiting' = FALSE /\ stage' = 0 /\ registered' = FALSE
    /\ PollEnds
    /\ UNCHANGED <<shared, gear, submitted, idled, armed, config, direction, braking, following,
                   core, spindle>>

PollAtBound ==
    /\ Steady /\ Acknowledged /\ stage = 3 /\ ~manual
    /\ waiting' = FALSE /\ stage' = 0
    /\ PollEnds
    /\ UNCHANGED <<shared, engaged, config, direction, braking, manual, following, core, spindle>>

\* The stage an acknowledgment leads to; the same poll goes on with it.
Proceeds(next) ==
    /\ Steady
    /\ \/ ~waiting /\ next = stage
       \/ /\ Acknowledged
          /\ \/ stage \in {4, 5} /\ next = 5
             \/ stage < 3 /\ ~manual /\ next = stage + 1

---------------------------------------------------------------------------
(* register_position() and follow_position()                               *)

\* Counts the spindle is ahead of the axis, when it is at c
Lag(c) == c - gear - config.pitch * z

Discarded(n) == IF n < 0 THEN -(((-n) \div Turn) * Turn) ELSE (n \div Turn) * Turn

\* Mutant: registers where the spindle is, whatever its phase.
RegistersAnywhere == gear + Lag(counts)

\* Whole turns up to the phase that the spindle crossed since the last poll
CrossedPhase ==
    \/ Lag(counts) % Turn = 0
    \/ Lag(previous) \div Turn # Lag(counts) \div Turn
Registered ==
    LET turns == Lag(counts) \div Turn
    IN gear + Turn * (IF counts > previous \/ Lag(counts) % Turn = 0 THEN turns ELSE turns + 1)

Bounded(n) == IF n < 0 THEN 0 ELSE IF n > ZMax THEN ZMax ELSE n

PollWaitsForPhase ==
    /\ Proceeds(5) /\ ~registered /\ ~CrossedPhase
    /\ stage' = 5 /\ waiting' = FALSE
    /\ PollEnds
    /\ UNCHANGED <<shared, engaged, config, direction, braking, manual, following, core, spindle>>

\* At most every 20 ms, and at most two blocks; at the stop whole turns that
\* led beyond it are discarded.
PollFollows ==
    /\ Proceeds(5) /\ (registered \/ CrossedPhase)
    /\ stage' = 5 /\ registered' = TRUE
    /\ LET geared  == IF registered THEN gear ELSE Registered
           wanted  == config.pitch * (counts - geared)
           bounded == Bounded(wanted)
       IN \/ /\ gear' = geared /\ waiting' = FALSE /\ PollEnds
             /\ UNCHANGED <<submitted, stop, held, jog, line, ack, inputs>>
          \/ /\ Len(plan) < 2
             /\ gear' = geared + (IF Idle /\ z = bounded
                                  THEN Discarded(config.pitch * (wanted - bounded)) ELSE 0)
             /\ IF bounded = submitted
                THEN waiting' = FALSE /\ PollEnds /\ UNCHANGED <<submitted, stop, held, jog, line,
                                                                 ack, inputs>>
                ELSE submitted' = bounded /\ Send("feed", bounded, jog)
    /\ UNCHANGED <<entered, idled, armed, config, direction, braking, manual, following, motion,
                   drive>>

---------------------------------------------------------------------------
(* poll(): the next step of an axis at rest                                *)

Resting(next) == Proceeds(next) /\ next # 5 /\ Idle

\* Mutant: a manual move that is not limited to the bounds
UnboundedMove(sign, distance) == distance

Limited(sign, distance) ==
    LET room == IF sign > 0 THEN ZMax - z ELSE z
    IN IF distance < room THEN distance ELSE room

\* The request is read again, and with it what the operator did since the
\* copy.  With a gear the axis moves by whole leads.
PollManual(next) ==
    /\ Resting(next) /\ seen.jog
    /\ LET step     == IF config.mode = 2 THEN 1 ELSE Turn
           distance == Limited(jog.sign, IF jog.whole THEN ZMax + Turn ELSE step)
       IN IF distance <= 0
          THEN /\ stage' = next /\ waiting' = FALSE /\ PollEnds
               /\ idled' = (idled \/ registered)
               /\ jog' = JogTaken
               /\ UNCHANGED <<manual, stop, held, line, ack, inputs>>
          ELSE /\ manual' = TRUE /\ stage' = 0 /\ UNCHANGED idled
               /\ Send("jog", z + jog.sign * distance, JogTaken)
    /\ release' = FALSE
    /\ UNCHANGED <<active, pending, update, request, registered, gear, submitted, armed, config,
                   direction, braking, following, motion, drive>>

PollHeld(next) ==
    /\ Resting(next) /\ ~seen.jog /\ seen.held
    /\ stage' = next /\ waiting' = FALSE
    /\ idled' = (idled \/ registered)
    /\ PollEnds
    /\ UNCHANGED <<shared, registered, gear, submitted, armed, config, direction, braking, manual,
                   following, core, spindle>>

Unheld(next) == Resting(next) /\ ~seen.jog /\ ~seen.held

ByPosition == config.mode # 2 /\ Abs(rpm) < (IF following THEN 35 ELSE 30)

PollStartsPosition ==
    /\ Unheld(0) /\ ByPosition
    /\ following' = TRUE /\ submitted' = z /\ stage' = 4
    /\ Send("word", 0, jog)
    /\ UNCHANGED <<entered, registered, gear, idled, armed, config, direction, braking, manual,
                   motion, drive>>

\* The spindle word of a powered feed, if there is room in its direction
PollEngages ==
    /\ Unheld(0) /\ ~ByPosition
    /\ following' = FALSE
    /\ registered' = (registered /\ config.mode = 2)
    /\ direction' = IF config.mode = 2 \/ rpm > 0 THEN 1 ELSE -1
    /\ stage' = 0
    /\ IF (IF config.pitch * direction' > 0 THEN ZMax - z ELSE z) <= 1
       THEN waiting' = FALSE /\ PollEnds /\ UNCHANGED <<stop, held, jog, line, ack, inputs>>
       ELSE Send("word", 0, jog)
    /\ UNCHANGED <<entered, gear, submitted, idled, armed, config, braking, manual, motion, drive>>

\* Stages 1 to 3: the phase of the reference, the feed to the bound, M5
PollSends(next) ==
    /\ Unheld(next) /\ next \in 1 .. 3
    /\ stage' = next
    /\ LET bound == IF config.pitch * direction > 0 THEN ZMax ELSE 0
       IN CASE next = 1 -> Send("phase", (direction * (gear + config.pitch * z)) % Turn, jog)
            [] next = 2 -> Send(IF config.mode = 2 THEN "feed" ELSE "sync", bound, jog)
            [] next = 3 -> Send("word", 0, jog)
    /\ UNCHANGED <<entered, engaged, config, direction, braking, manual, following, motion, drive>>

Poll ==
    \/ PollFault \/ PollUpdateBrakes \/ PollRefuses \/ PollArms
    \/ PollOverspeed \/ PollBrakes
    \/ PollAwaits \/ PollRejected \/ PollManualDone \/ PollAtBound
    \/ PollWaitsForPhase \/ PollFollows
    \/ \E next \in 0 .. 4 :
         PollManual(next) \/ PollHeld(next) \/ PollSends(next)
    \/ PollStartsPosition \/ PollEngages

---------------------------------------------------------------------------
(* grblHAL                                                                 *)

PlannedEnd == IF plan = <<>> THEN z ELSE plan[Len(plan)].to
Planned(kind) ==
    IF line.to = PlannedEnd THEN plan
    ELSE Append(plan, [kind |-> kind, to |-> line.to, base |-> 0])

\* The parser; G33 is acknowledged when its motion has ended.
Execute ==
    /\ ~seen.on /\ ~reset /\ ~alarm /\ exec \in {"idle", "run"}
    /\ \/ /\ line.kind \in {"word", "phase"} /\ Idle
          /\ phase' = IF line.kind = "phase" THEN line.to ELSE phase
          /\ line' = NoLine /\ ack' = "ok" /\ UNCHANGED <<plan, inputs>>
       \/ /\ line.kind \in {"feed", "jog"}
          /\ plan' = Planned("feed")
          /\ line' = NoLine /\ ack' = "ok" /\ UNCHANGED <<phase, inputs>>
       \/ /\ line.kind = "sync" /\ Idle
          /\ plan' = Planned("sync")
          /\ line' = [line EXCEPT !.kind = "busy"] /\ UNCHANGED <<ack, phase, inputs>>
       \/ /\ line.kind \notin {"none", "busy"}
          /\ Input /\ line' = NoLine /\ ack' = "error" /\ UNCHANGED <<plan, phase>>
       \/ /\ line.kind = "busy" /\ Idle
          /\ line' = NoLine /\ ack' = "ok" /\ UNCHANGED <<plan, phase, inputs>>
    /\ UNCHANGED <<shared, seen, gearing, task, exec, cancel, reset, alarm, z, drive>>

CycleStart ==
    /\ ~seen.on /\ exec = "idle" /\ plan # <<>> /\ ~reset /\ ~alarm
    /\ exec' = IF Head(plan).kind = "sync" THEN "wait" ELSE "run"
    /\ UNCHANGED <<shared, seen, gearing, task, line, ack, plan, phase, cancel, reset, alarm, z,
                   spindle>>

\* The encoder meets the phase, in the programmed direction.
IndexFound ==
    /\ ~seen.on /\ exec = "wait" /\ ~reset
    /\ rpm * direction > 0 /\ (direction * counts - phase) % Turn = 0
    /\ exec' = "run"
    /\ plan' = [plan EXCEPT ![1].base = counts - config.pitch * z]
    /\ UNCHANGED <<shared, seen, gearing, task, line, ack, phase, cancel, reset, alarm, z, spindle>>

Towards(from, to) == IF from < to THEN from + 1 ELSE IF from > to THEN from - 1 ELSE from

Step ==
    /\ ~seen.on /\ exec \in {"run", "decel"} /\ Head(plan).kind = "feed" /\ z # Head(plan).to
    /\ z' = Towards(z, Head(plan).to)
    /\ UNCHANGED <<shared, seen, gearing, task, line, ack, plan, exec, phase, cancel, reset, alarm,
                   spindle>>

BlockDone ==
    /\ ~seen.on /\ exec \in {"run", "decel"} /\ z = Head(plan).to
    /\ plan' = IF exec = "run" THEN Tail(plan) ELSE <<>>
    /\ exec' = IF plan' = <<>> THEN "idle" ELSE exec
    /\ cancel' = (cancel /\ exec' # "idle")
    /\ UNCHANGED <<shared, seen, gearing, task, line, ack, phase, reset, alarm, z, spindle>>

MotionCancel ==
    /\ ~seen.on /\ cancel
    /\ \/ exec = "run" /\ exec' = "decel" /\ UNCHANGED <<plan, cancel>>
       \/ exec = "decel" /\ exec' = "idle" /\ plan' = <<>> /\ cancel' = FALSE
       \/ exec = "idle" /\ cancel' = FALSE /\ UNCHANGED <<exec, plan>>
    /\ UNCHANGED <<shared, seen, gearing, task, line, ack, phase, reset, alarm, z, spindle>>

---------------------------------------------------------------------------
(* Reset                                                                   *)

\* Mutant: a reset keeps the axis registered with the spindle.
StaysRegistered == registered

\* The axis came to rest anywhere: it must meet its phase again.
RegisteredAfterReset == FALSE

\* lathe_follow_reset(), within the flush of a reset
FollowReset ==
    IF ~active THEN UNCHANGED <<active, pending, waiting, braking, manual, stage, registered>>
    ELSE /\ waiting' = FALSE /\ stopping' = FALSE /\ manual' = FALSE
         /\ stage' = 0 /\ registered' = RegisteredAfterReset
         /\ internalReset' = FALSE
         /\ IF internalReset /\ ~stop /\ ~alarm
            THEN UNCHANGED <<active, pending>>
            ELSE active' = FALSE /\ pending' = FALSE

CoreReset ==
    /\ ~seen.on
    /\ reset \/ alarm
    /\ line' = NoLine /\ ack' = "none" /\ plan' = <<>> /\ exec' = "idle"
    /\ cancel' = FALSE /\ reset' = FALSE /\ alarm' = FALSE
    /\ FollowReset
    /\ UNCHANGED <<stop, jog, held, release, update, request, seen, gear, previous, submitted,
                   idled, armed, config, direction, following, phase, z, spindle>>

\* An alarm, or the reset key: grblHAL stops where it is.
Fault ==
    /\ Input
    /\ active /\ ~alarm /\ ~seen.on
    /\ \/ alarm' = TRUE /\ reset' = reset
       \/ reset' = TRUE /\ ~reset /\ alarm' = alarm
    /\ exec' = "idle" /\ plan' = <<>> /\ cancel' = FALSE
    /\ UNCHANGED <<shared, seen, gearing, task, line, ack, phase, z, drive>>

---------------------------------------------------------------------------
(* The spindle: turned by its drive, or by hand.  What it does matters to  *)
(* a gearbox that is active; hands and drive change speed and direction    *)
(* within MaxInputs.                                                       *)

\* A G33 block follows the furthest count in its direction.
Synchronized(c) ==
    IF exec = "run" /\ Head(plan).kind = "sync"
    THEN LET at == Bounded(config.pitch * (c - Head(plan).base))
         IN IF (Head(plan).to > z /\ at > z) \/ (Head(plan).to < z /\ at < z) THEN at ELSE z
    ELSE z

Geared == active /\ config.mode # 2

Spin(d) ==
    /\ Geared /\ ~seen.on
    /\ rpm * d >= 0 /\ Abs(counts + d - previous) < Turn
    /\ counts + d \in 0 .. MaxCount
    /\ counts' = counts + d
    /\ z' = Synchronized(counts + d)
    /\ UNCHANGED <<shared, seen, gearing, task, line, ack, plan, exec, phase, cancel, reset, alarm,
                   rpm, inputs>>

SpeedChanges ==
    /\ Geared /\ ~seen.on /\ Input
    /\ rpm' \in Rpm \ {rpm}
    /\ UNCHANGED <<shared, seen, gearing, task, core, counts>>

---------------------------------------------------------------------------
Next ==
    \/ Request \/ Cancel \/ Update \/ Release
    \/ \E forward \in Forward, continuous \in BOOLEAN :
         Jog(IF forward THEN 1 ELSE -1, continuous)
    \/ Snapshot \/ Poll
    \/ Execute \/ CycleStart \/ IndexFound \/ Step \/ BlockDone \/ MotionCancel
    \/ CoreReset \/ Fault
    \/ \E d \in {1, -1} : Spin(d)
    \/ SpeedChanges

Spec == Init /\ [][Next]_vars

---------------------------------------------------------------------------
(* Properties                                                              *)

\* Types; the axis never leaves the bounds of the feed (follow.c:244, 394).
TypeOK ==
    /\ z \in 0 .. ZMax
    /\ \A b \in {active, pending, stop, held, release, update, stopping, internalReset, waiting,
                 manual, following, registered, idled, cancel, reset, alarm} : b \in BOOLEAN
    /\ request \in Config /\ config \in Config
    /\ stage \in 0 .. 5 /\ direction \in {1, -1}
    /\ line.kind \in {"none", "word", "phase", "sync", "busy", "feed", "jog"}
    /\ ack \in {"none", "ok", "error"} /\ exec \in {"idle", "wait", "run", "decel"}
    /\ Len(plan) <= 3 /\ \A i \in DOMAIN plan : plan[i].to \in 0 .. ZMax
    /\ submitted \in 0 .. ZMax /\ phase \in 0 .. Turn - 1 /\ armed \in 0 .. Turn - 1

\* Whatever happened since the reference was taken (manual moves, braking,
\* turns beyond a bound, hand-over to G33 and back), the axis is in gear at
\* the phase of that reference: only whole turns are lost (follow.c:197).
PhaseKept ==
    active /\ config.mode # 2 /\ ~pending =>
        /\ gear % Turn = armed
        /\ exec = "run" /\ Head(plan).kind = "sync" => Head(plan).base % Turn = armed

\* A feed that starts by position does not catch up whole turns that the
\* spindle made before, unless a key at a bound kept it from starting.
StartsInGear ==
    [][stage # 4 /\ stage' = 4 /\ registered' /\ ~idled => Abs(Lag(counts)) < Turn]_vars

\* A parameter that the operator set is in use or still pending, however the
\* update and the poll interleave (follow.c:306).
NewestParameters == active /\ ~pending /\ ~update /\ ~seen.on => config = request

\* A feed that brakes (to stop, for a new parameter, a key or a speed it
\* cannot follow) keeps braking until it is reset: no line it submitted before
\* runs any more, and no motion goes on without the cancel (follow.c:171).
StopTakesHold ==
    active /\ stopping =>
        /\ line.kind \in {"none", "busy"}
        /\ exec = "run" => cancel
=============================================================================
