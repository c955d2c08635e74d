---------------------------- MODULE SpindleCount ----------------------------
(***************************************************************************)
(* The spindle encoder of spindle.c: the count folded out of a hardware    *)
(* counter, the phase reference derived from it, the anchor of an entry    *)
(* block, the speed handed to the planner and the spindle faults.  Module  *)
(* LatheCore sees the spindle in pulses; this is the arithmetic below it.  *)
(*                                                                         *)
(* The counter (the driver, external) restarts at +-30000; its ISR credits *)
(* the restart to a 32-bit total.  The step interrupt may read the total   *)
(* before that ISR has run, and the poll in the grblHAL task folds reads   *)
(* of either kind into a 64-bit count.  Two bounds come from the source's  *)
(* comment on count_delta(): once counting has begun the poll, and at all  *)
(* times the ISR, runs more often than every 15000 counts.  Before that    *)
(* the spindle may have been turned by hand any number of times (EARLY).   *)
(* Speeds are unsigned; a length is abstracted to the encoder counts       *)
(* computed from it.                                                       *)
(***************************************************************************)
EXTENDS Words

CONSTANT Unit            \* 1 RPM, in a unit that makes every speed a natural number

CPR == 1200              \* P4_ENCODER_CPR, counts in a turn
PCNT_RESET == 30000      \* where the hardware counter restarts
FOLD == 15000
EARLY == 2000000000      \* bound: the counts turned before counting begins, short of 32 bits

VARIABLES
  turned,       \* history: the counts the spindle has turned since power-on, signed
  counter,      \* the hardware counter
  due,          \* the restart its ISR has not credited yet: 0, 30000 or -30000
  ready,
  accumulated, last_raw,
  read,         \* history: turned, counter and due at the last poll (or at power-on)
  start,        \* history: position() less turned, fixed by lathe_spindle_ready()
  ccw,          \* commanded.ccw
  phase, index_phase, origin, waiting,
  entry,        \* entry_armed, entry_advance, and the cut_advance behind index_phase (history)
  tracking, furthest,
  peak,         \* history: the furthest the spindle has turned in this block, in its direction
  sync_fault,
  still,        \* milliseconds since last_change
  mode,         \* profile_mode, follow_mode, follow_braking
  rpm           \* measured_rpm, last_edge_rpm, edge_interval_ms and the two last speeds

counting == <<turned, counter, due>>
folding == <<ready, accumulated, last_raw, read, start>>
syncing == <<ccw, phase, index_phase, origin, waiting, entry>>
supervising == <<tracking, furthest, peak, sync_fault, still>>
speeds == <<mode, rpm>>
vars == <<counting, folding, syncing, supervising, speeds>>

-----------------------------------------------------------------------------
(* Counting.                                                               *)

Raw == Wrap(turned - due)

\* count_delta(): the 32-bit difference of two reads, less the restart between them.
CountDelta(current, previous) ==
  LET delta == Wrap(current - previous)
  IN  IF delta > FOLD THEN delta - PCNT_RESET
      ELSE IF delta < -FOLD THEN delta + PCNT_RESET ELSE delta

Position == IF ready THEN accumulated + CountDelta(Raw, last_raw) ELSE 0
Oriented == IF ccw THEN -Position ELSE Position

\* floor_turn(), with the division of C, which truncates.
FloorTurn(counts) == IF counts >= 0 THEN counts \div CPR ELSE -((-counts + CPR - 1) \div CPR)

\* The index lathe_spindle_near_index() polls for without sleeping.
NearIndex(counts, guard) ==
  LET remainder == counts - FloorTurn(counts) * CPR
  IN  remainder <= guard \/ remainder >= CPR - guard

\* get_data(): the speed the planner is given.
ProfileRpm ==
  IF rpm.measured = 0 /\ rpm.interval # 0 /\ still < 3 * rpm.interval /\ rpm.edge < 30 * Unit
    THEN rpm.edge ELSE rpm.measured
Rpm == IF mode.profile THEN ProfileRpm ELSE rpm.measured
PlanningRpm ==
  IF mode.profile /\ (mode.braking \/ (waiting /\ Rpm = 0)) THEN rpm.profile_last
  ELSE IF mode.follow /\ (mode.braking \/ Rpm < 30 * Unit) THEN rpm.follow_last
  ELSE Rpm

Init ==
  /\ turned = 0 /\ counter = 0 /\ due = 0
  /\ ready = FALSE /\ accumulated = 0 /\ last_raw = 0 /\ start = 0
  /\ read = [turned |-> 0, counter |-> 0, due |-> 0]
  /\ ccw = FALSE /\ phase = 0 /\ index_phase = 0 /\ origin = 0 /\ waiting = FALSE
  /\ entry = [armed |-> FALSE, advance |-> 0, cut |-> 0]
  /\ tracking = FALSE /\ furthest = 0 /\ peak = 0 /\ sync_fault = "NONE" /\ still = 0
  /\ mode = [profile |-> FALSE, follow |-> FALSE, braking |-> FALSE]
  /\ rpm = [measured |-> 0, edge |-> 0, interval |-> 0,
             profile_last |-> Unit, follow_last |-> 30 * Unit]

Max2(a, b) == IF a >= b THEN a ELSE b
Abs(n) == IF n < 0 THEN -n ELSE n

\* The spindle turns one count d; the counter restarts at +-30000.
Count(d) ==
  LET n == counter + d
  IN  /\ IF ready THEN Abs(turned + d - read.turned) < FOLD ELSE Abs(turned + d) < EARLY
      /\ due # 0 => Abs(n) < FOLD
      /\ turned' = turned + d
      /\ IF Abs(n) = PCNT_RESET THEN counter' = 0 /\ due' = n ELSE counter' = n /\ due' = due
      /\ peak' = Max2(peak, IF ccw THEN -turned' ELSE turned')
      /\ UNCHANGED <<folding, syncing, speeds, tracking, furthest, sync_fault, still>>

\* The ISR of the counter.
Credit == due' = 0 /\ UNCHANGED <<turned, counter, folding, syncing, supervising, speeds>>

\* lathe_spindle_ready().
Ready ==
  /\ ~ready
  /\ ready' = TRUE /\ last_raw' = Raw /\ accumulated' = Raw
  /\ read' = [turned |-> turned, counter |-> counter, due |-> due]
  /\ start' = -due
  /\ UNCHANGED <<counting, syncing, supervising, speeds>>

-----------------------------------------------------------------------------
(* The poll.                                                               *)

\* A millisecond.
Tick == still' = still + 1 /\ UNCHANGED <<counting, folding, syncing, speeds, tracking, furthest,
                                          peak, sync_fault>>

\* A count leaves the interval it came after, and its speed unless the interval rounds to
\* zero; every 50 ms the measured speed is computed anew.
Measured(delta) ==
  \E measured \in Nat, slow \in Nat \ {0}, sampled \in BOOLEAN :
    LET interval == still \div Abs(delta)
        kept == sampled /\ ~mode.braking /\ measured # 0
    IN  rpm' = [measured |-> IF sampled THEN measured ELSE rpm.measured,
                interval |-> IF delta = 0 THEN rpm.interval ELSE interval,
                edge |-> IF delta # 0 /\ interval # 0 THEN slow ELSE rpm.edge,
                profile_last |-> IF kept /\ mode.profile THEN measured ELSE rpm.profile_last,
                follow_last |-> IF kept /\ mode.follow /\ measured >= 30 * Unit THEN measured
                                ELSE rpm.follow_last]

\* lathe_spindle_poll(); a cycle and a feed supervise the spindle themselves.
Supervised == tracking /\ ~mode.follow /\ ~mode.profile
Poll ==
  LET delta == CountDelta(Raw, last_raw)
      counts == accumulated + delta
      oriented == IF ccw THEN -counts ELSE counts
      ahead == Max2(furthest, oriented)
  IN  /\ ready
      /\ accumulated' = counts /\ last_raw' = Raw
      /\ read' = [turned |-> turned, counter |-> counter, due |-> due]
      /\ still' = IF delta # 0 THEN 0 ELSE still
      /\ Measured(delta)
      /\ furthest' = IF Supervised THEN ahead ELSE furthest
      /\ sync_fault' = IF Supervised /\ still' > 100 THEN "STALL"
                       ELSE IF Supervised /\ ahead - oriented > 3 THEN "REVERSED"
                       ELSE sync_fault
      /\ UNCHANGED <<counting, ready, start, syncing, tracking, peak, mode>>

\* lathe_spindle_profile(), lathe_spindle_follow(), lathe_spindle_follow_braking().
Profile(enabled) ==
  /\ mode' = [mode EXCEPT !.profile = enabled, !.braking = FALSE]
  /\ rpm' = [rpm EXCEPT !.profile_last = IF rpm.measured # 0 THEN rpm.measured ELSE @]
  /\ entry' = IF enabled THEN entry ELSE [entry EXCEPT !.armed = FALSE]
  /\ UNCHANGED <<counting, folding, ccw, phase, index_phase, origin, waiting, supervising>>
Follow(enabled) ==
  /\ mode' = [mode EXCEPT !.follow = enabled, !.braking = FALSE]
  /\ rpm' = [rpm EXCEPT !.follow_last = 30 * Unit]
  /\ UNCHANGED <<counting, folding, syncing, supervising>>
Brake == mode' = [mode EXCEPT !.braking = TRUE]
         /\ UNCHANGED <<counting, folding, syncing, supervising, rpm>>

-----------------------------------------------------------------------------
(* The index.                                                              *)

\* M3, M4 and M5 wait for the end of a synchronized block (a reset, which ends the block,
\* excepted); $P4PHASE= is refused but in the idle core.
SetState(direction) ==
  /\ ~tracking
  /\ ccw' = direction
  /\ UNCHANGED <<counting, folding, phase, index_phase, origin, waiting, entry, supervising,
                 speeds>>
SetPhase(value) ==
  /\ ~waiting /\ ~tracking
  /\ phase' = value
  /\ UNCHANGED <<counting, folding, ccw, index_phase, origin, waiting, entry, supervising,
                 speeds>>

\* lathe_spindle_entry_arm(), by a queue_entry() that found the core idle, and
\* lathe_spindle_entry_prepare().
Arm(armed) ==
  /\ armed => ~waiting /\ ~tracking
  /\ entry' = [entry EXCEPT !.armed = armed]
  /\ UNCHANGED <<counting, folding, ccw, phase, index_phase, origin, waiting, supervising,
                 speeds>>

\* The last time the spindle passed the index.
LastIndex(counts, index) == FloorTurn(counts - index) * CPR + index
Advanced(shift) == (phase + CPR - (shift % CPR)) % CPR

\* reset_data(): an armed entry starts its plunge and the cut's acceleration ramp, both in
\* counts, before the phase; another synchronized block its ramp; a move without one nothing.
ResetData(plunge, ramp) ==
  LET index == Advanced(IF entry.armed THEN ramp + plunge ELSE ramp)
  IN  /\ ready
      /\ index_phase' = index
      /\ entry' = IF entry.armed THEN [entry EXCEPT !.advance = plunge, !.cut = ramp] ELSE entry
      /\ origin' = LastIndex(Oriented, index)
      /\ waiting' = TRUE
      /\ UNCHANGED <<counting, folding, ccw, phase, supervising, speeds>>

\* lathe_spindle_block() on the first step of a block: the plunge hands its origin on to the
\* cut; any other block only starts or stops the supervision.
Block(synchronized) ==
  /\ ready
  /\ waiting' = FALSE
  /\ tracking' = synchronized
  /\ furthest' = IF synchronized THEN Oriented ELSE furthest
  /\ peak' = IF synchronized THEN (IF ccw THEN -turned ELSE turned) ELSE peak
  /\ UNCHANGED <<counting, folding, ccw, phase, index_phase, sync_fault, still, speeds>>
OtherBlock(synchronized) == Block(synchronized) /\ UNCHANGED <<origin, entry>>
HandOff ==
  /\ entry.armed /\ waiting
  /\ Block(FALSE)
  /\ origin' = LastIndex(Oriented, index_phase) + entry.advance
  /\ entry' = [entry EXCEPT !.armed = FALSE]

\* lathe_spindle_idle().
Idle ==
  /\ tracking' = FALSE /\ waiting' = FALSE
  /\ UNCHANGED <<counting, folding, ccw, phase, index_phase, origin, entry, furthest, peak,
                 sync_fault, still, speeds>>

Next ==
  \/ \E d \in {-1, 1} : Count(d)
  \/ Credit \/ Ready \/ Tick \/ Poll
  \/ \E enabled \in BOOLEAN : Profile(enabled) \/ Follow(enabled) \/ Arm(enabled)
  \/ Brake \/ Idle \/ HandOff
  \/ \E on \in BOOLEAN : SetState(on) \/ OtherBlock(on)
  \/ \E value \in 0 .. CPR - 1 : SetPhase(value)
  \/ \E plunge, ramp \in Nat : ResetData(plunge, ramp)

Spec == Init /\ [][Next]_vars

-----------------------------------------------------------------------------
(* Properties.                                                             *)

Restarts == {0, PCNT_RESET, -PCNT_RESET}

\* Every variable has its type.
TypeOK ==
  /\ turned \in Int /\ counter \in Int /\ due \in Restarts
  /\ ready \in BOOLEAN /\ accumulated \in Int /\ start \in Restarts
  /\ read \in [turned : Int, counter : Int, due : Restarts]
  /\ ccw \in BOOLEAN /\ phase \in 0 .. CPR - 1 /\ index_phase \in 0 .. CPR - 1
  /\ origin \in Int /\ waiting \in BOOLEAN
  /\ entry \in [armed : BOOLEAN, advance : Nat, cut : Nat]
  /\ tracking \in BOOLEAN /\ furthest \in Int /\ peak \in Int /\ still \in Nat
  /\ sync_fault \in {"NONE", "STALL", "REVERSED"}
  /\ mode \in [profile : BOOLEAN, follow : BOOLEAN, braking : BOOLEAN]
  /\ rpm \in [measured : Nat, edge : Nat, interval : Int, profile_last : Nat, follow_last : Nat]

\* position() is what the spindle has turned, but for the restart that was uncredited when
\* counting began - 25 whole turns, so the angle is exact - whether the counter's restarts
\* have been credited or not, now or at the last poll, and over any wrap of the 32-bit total
\* (spindle.c:78-97).
CountExact == ready => start \in Restarts /\ Position = turned + start

\* When a synchronized block starts waiting, its origin is the last passage of an angle that
\* lies its ramp (and the plunge of an entry) before the phase: every pass, at whatever
\* speed and ramp, is aligned with the same angle of the spindle.
Aligned(plunge, ramp) ==
  /\ origin' <= Oriented /\ Oriented < origin' + CPR
  /\ \E k \in Int : origin' = k * CPR + phase - ramp - (IF entry.armed THEN plunge ELSE 0)
AlignedBlock == \A plunge, ramp \in Nat : ResetData(plunge, ramp) => Aligned(plunge, ramp)
OriginAtPhase == [][AlignedBlock]_vars

\* The cut after a plunge is anchored a ramp before the phase, as one without a plunge is:
\* the plunge and the wait for its index shift no thread, and the plunge began in the turn
\* before it.
AnchoredCut ==
  HandOff => /\ \E k \in Int : origin' = k * CPR + phase - entry.cut
             /\ origin' - entry.advance <= Oriented
             /\ Oriented < origin' - entry.advance + CPR
EntryAnchored == [][AnchoredCut]_vars

\* A REVERSED fault is raised only when the spindle really stands more than 3 counts behind
\* the furthest it has turned in the block: a restart of the counter is no reversal.
RealReversal ==
  sync_fault' = "REVERSED" /\ sync_fault # "REVERSED" =>
    peak - (IF ccw THEN -turned ELSE turned) > 3
ReversedIsReal == [][RealReversal]_vars

\* The planner is never given a zero speed while a feed runs or stops, or a cycle waits for
\* the index or stops: a replan on zero would never end (spindle.c:127-132).
PlanningSpeed ==
  mode.follow \/ (mode.profile /\ (mode.braking \/ waiting)) => PlanningRpm > 0
=============================================================================
