----------------------------- MODULE WordProofs -----------------------------
(***************************************************************************)
(* Proofs about the two components that live on 32-bit words.              *)
(*                                                                         *)
(* SpindleCount: the 32-bit difference of two reads of the counter is the  *)
(* motion between them, the phase arithmetic is exact, and the invariant   *)
(* that carries both from poll to poll.  Speeds are natural numbers of a   *)
(* unit that is one (UnitIsOne).                                           *)
(*                                                                         *)
(* Diagnostics: the ends that a check may find in the word lie so close    *)
(* together that the 32-bit word names one of them.                        *)
(***************************************************************************)
EXTENDS SpindleCount, Diagnostics, TLAPS

UnitIsOne == Unit \in Nat \ {0}

-----------------------------------------------------------------------------
(* Arithmetic.                                                             *)

\* The difference of two wrapped counts that are close is the difference of the counts.
LEMMA WrappedDifference ==
  ASSUME NEW a \in Int, NEW b \in Int, -100000 <= a - b, a - b <= 100000
  PROVE  Wrap(Wrap(a) - Wrap(b)) = a - b
  BY SMT DEF Wrap, Word

\* A count of 32 bits is its own wrapping.
LEMMA WrapSmall ==
  ASSUME NEW a \in Int, -2147483648 <= a, a < 2147483648
  PROVE  Wrap(a) = a
  BY SMT DEF Wrap, Word

\* count_delta() recovers the motion between two reads whichever of them saw a restart of
\* the counter before its credit.
LEMMA DeltaExact ==
  ASSUME NEW now \in Int, NEW before \in Int, -FOLD < now - before, now - before < FOLD,
         NEW a \in Restarts, NEW b \in Restarts, a - b \in Restarts
  PROVE  CountDelta(Wrap(now - a), Wrap(before - b)) = now - before
<1>1. now - a \in Int /\ before - b \in Int
  BY SMT DEF Restarts, PCNT_RESET
<1>2. (now - a) - (before - b) = now - before - (a - b)
  BY SMT DEF Restarts, PCNT_RESET
<1>3. -100000 <= (now - a) - (before - b) /\ (now - a) - (before - b) <= 100000
  BY <1>2, SMT DEF Restarts, PCNT_RESET, FOLD
<1>4. Wrap(Wrap(now - a) - Wrap(before - b)) = now - before - (a - b)
  BY <1>1, <1>2, <1>3, WrappedDifference
<1> QED
  BY <1>4, SMT DEF CountDelta, Restarts, PCNT_RESET, FOLD

\* floor_turn() rounds towards minus infinity.
LEMMA FloorTurnIsFloor ==
  \A c \in Int : /\ FloorTurn(c) \in Int
                 /\ FloorTurn(c) * CPR <= c
                 /\ c < FloorTurn(c) * CPR + CPR
  BY SMT DEF FloorTurn, CPR

LEMMA BoundGrows ==
  \A a, b, c, k \in Int : a <= b + k /\ b <= c => a <= c + k
  BY SMT

LEMMA MaxOfTwo ==
  \A a, b \in Int : Max2(a, b) \in Int /\ a <= Max2(a, b) /\ Max2(a, b) \in {a, b}
  BY SMT DEF Max2

\* The last index is the last passage of its angle.
LEMMA LastIndexIsLast ==
  ASSUME NEW counts \in Int, NEW index \in Int
  PROVE  /\ LastIndex(counts, index) \in Int
         /\ LastIndex(counts, index) <= counts
         /\ counts < LastIndex(counts, index) + CPR
         /\ \E k \in Int : LastIndex(counts, index) = k * CPR + index
<1>1. counts - index \in Int
  BY SMT
<1>2. PICK k \in Int : /\ k = FloorTurn(counts - index)
                       /\ k * CPR <= counts - index
                       /\ counts - index < k * CPR + CPR
  BY <1>1, FloorTurnIsFloor
<1>3. LastIndex(counts, index) = k * CPR + index
  BY <1>2 DEF LastIndex
<1> QED
  BY <1>2, <1>3, SMT DEF CPR

\* The index phase of a ramp is an angle of the turn, that many counts before the phase.
LEMMA AdvancedBefore ==
  ASSUME NEW shift \in Nat, phase \in 0 .. CPR - 1
  PROVE  /\ Advanced(shift) \in 0 .. CPR - 1
         /\ \E k \in Int : Advanced(shift) = k * CPR + phase - shift
<1>1. PICK q \in Int : shift % CPR = shift - q * CPR /\ shift % CPR \in 0 .. CPR - 1
  <2>1. shift = CPR * (shift \div CPR) + (shift % CPR) /\ shift % CPR \in 0 .. CPR - 1
    BY SMT DEF CPR
  <2>2. shift \div CPR \in Int
    BY SMT DEF CPR
  <2> QED
    BY <2>1, <2>2, SMT DEF CPR
<1>2. PICK r \in Int : r = phase + CPR - (shift % CPR) /\ 0 <= r
  BY <1>1, SMT DEF CPR
<1>3. r % CPR \in 0 .. CPR - 1 /\ \E j \in Int : r % CPR = r - j * CPR
  <2>1. r = CPR * (r \div CPR) + (r % CPR) /\ r % CPR \in 0 .. CPR - 1 /\ r \div CPR \in Int
    BY <1>2, SMT DEF CPR
  <2>2. r % CPR = r - (r \div CPR) * CPR
    BY <2>1, <1>2, SMT DEF CPR
  <2> QED
    BY <2>1, <2>2
<1>4. PICK j \in Int : r % CPR = r - j * CPR
  BY <1>3
<1>5. Advanced(shift) = r % CPR
  BY <1>2 DEF Advanced
<1>6. Advanced(shift) = (1 + q - j) * CPR + phase - shift
  BY <1>1, <1>2, <1>4, <1>5, SMT DEF CPR
<1>7. 1 + q - j \in Int
  BY SMT
<1> QED
  BY <1>3, <1>5, <1>6, <1>7

\* The busy wait of lathe_spindle_near_index() covers the counts within the guard of an
\* index, on both sides and for either sign of the count, and no others (spindle.c:104-116).
THEOREM NearIndexIsNear ==
  ASSUME NEW counts \in Int, NEW guard \in 0 .. CPR \div 4
  PROVE  NearIndex(counts, guard) <=>
           \E k \in Int : -guard <= counts - k * CPR /\ counts - k * CPR <= guard
<1>1. PICK t \in Int : /\ t = FloorTurn(counts)
                       /\ t * CPR <= counts /\ counts < t * CPR + CPR
  BY FloorTurnIsFloor
<1>2. guard \in Int /\ 0 <= guard /\ guard <= 300
  BY SMT DEF CPR
<1>3. NearIndex(counts, guard) <=> counts - t * CPR <= guard \/ counts - t * CPR >= CPR - guard
  BY <1>1, Zenon DEF NearIndex
<1>4. ASSUME counts - t * CPR <= guard
      PROVE  \E k \in Int : -guard <= counts - k * CPR /\ counts - k * CPR <= guard
  <2>1. -guard <= counts - t * CPR
    BY <1>1, <1>2, SMT DEF CPR
  <2> QED
    BY <1>4, <2>1
<1>5. ASSUME counts - t * CPR >= CPR - guard
      PROVE  \E k \in Int : -guard <= counts - k * CPR /\ counts - k * CPR <= guard
  <2>1. /\ t + 1 \in Int
        /\ -guard <= counts - (t + 1) * CPR /\ counts - (t + 1) * CPR <= guard
    BY <1>1, <1>2, <1>5, SMT DEF CPR
  <2> QED
    BY <2>1
<1>6. ASSUME NEW k \in Int, -guard <= counts - k * CPR, counts - k * CPR <= guard
      PROVE  counts - t * CPR <= guard \/ counts - t * CPR >= CPR - guard
  BY <1>1, <1>2, <1>6, SMT DEF CPR
<1> QED
  BY <1>3, <1>4, <1>5, <1>6

-----------------------------------------------------------------------------
(* The invariant.                                                          *)

\* Where the counter stands: a restart still uncredited at the last poll excludes another.
CounterInv ==
  /\ ready => -FOLD < turned - read.turned /\ turned - read.turned < FOLD
  /\ ~ready => read.due = 0 /\ -EARLY < turned /\ turned < EARLY
  /\ -PCNT_RESET < counter /\ counter < PCNT_RESET
  /\ due # 0 => -FOLD < counter /\ counter < FOLD
  /\ read.due # 0 => /\ counter = read.counter + (turned - read.turned)
                     /\ -FOLD < read.counter /\ read.counter < FOLD
                     /\ due \in {0, read.due}

\* What the last poll left; nothing runs before counting begins.
FoldInv ==
  /\ ready => last_raw = Wrap(read.turned - read.due) /\ accumulated = read.turned + start
  /\ ~ready => ~waiting /\ ~tracking

\* An armed entry that waits has its index phase from its own ramp and plunge.
EntryInv == entry.armed /\ waiting => index_phase = Advanced(entry.cut + entry.advance)

\* The furthest count of the block was reached.
PeakInv == tracking => /\ furthest <= peak + (IF ccw THEN -start ELSE start)
                       /\ (IF ccw THEN -turned ELSE turned) <= peak

\* The speeds kept for a stop are not zero.
SpeedInv == /\ rpm.profile_last > 0 /\ rpm.follow_last >= 30 * Unit
            /\ rpm.interval # 0 => rpm.edge > 0

CountInv == TypeOK /\ CounterInv /\ FoldInv /\ EntryInv /\ PeakInv /\ SpeedInv

\* The restarts pending now and at the last poll are never opposite ones.
LEMMA RestartsClose ==
  ASSUME TypeOK, CounterInv
  PROVE  due - read.due \in Restarts
  BY SMT DEF TypeOK, CounterInv, Restarts, PCNT_RESET

\* The count of a poll, or of a read between two polls.
LEMMA CountOfRead ==
  ASSUME TypeOK, CounterInv, FoldInv, ready
  PROVE  /\ CountDelta(Raw, last_raw) = turned - read.turned
         /\ accumulated + CountDelta(Raw, last_raw) = turned + start
         /\ Position = turned + start
<1>1. CountDelta(Wrap(turned - due), Wrap(read.turned - read.due)) = turned - read.turned
  BY RestartsClose, DeltaExact DEF TypeOK, CounterInv
<1>2. CountDelta(Raw, last_raw) = turned - read.turned
  BY <1>1 DEF Raw, FoldInv
<1>3. accumulated + CountDelta(Raw, last_raw) = turned + start
  BY <1>2, SMT DEF FoldInv, TypeOK, Restarts, PCNT_RESET
<1> QED
  BY <1>2, <1>3 DEF Position

LEMMA OrientedIsTurned ==
  ASSUME TypeOK, CounterInv, FoldInv, ready
  PROVE  /\ Oriented \in Int
         /\ Oriented = (IF ccw THEN -turned ELSE turned) + (IF ccw THEN -start ELSE start)
<1>1. Position = turned + start
  BY CountOfRead
<1>2. turned \in Int /\ start \in Int /\ ccw \in BOOLEAN
  BY SMT DEF TypeOK, Restarts, PCNT_RESET
<1>3. CASE ccw
  BY <1>1, <1>2, <1>3, SMT DEF Oriented
<1>4. CASE ~ccw
  BY <1>1, <1>2, <1>4, SMT DEF Oriented
<1> QED
  BY <1>3, <1>4

LEMMA InitInv == ASSUME UnitIsOne, Init PROVE CountInv
<1>1. TypeOK
  <2>1. rpm \in [measured : Nat, edge : Nat, interval : Int, profile_last : Nat,
                 follow_last : Nat]
    BY SMT DEF Init, UnitIsOne
  <2>2. /\ entry \in [armed : BOOLEAN, advance : Nat, cut : Nat]
        /\ mode \in [profile : BOOLEAN, follow : BOOLEAN, braking : BOOLEAN]
    BY Zenon, 0 \in Nat DEF Init
  <2>3. /\ phase \in 0 .. CPR - 1 /\ index_phase \in 0 .. CPR - 1 /\ still \in Nat
        /\ turned \in Int /\ counter \in Int /\ accumulated \in Int /\ origin \in Int
        /\ furthest \in Int /\ peak \in Int /\ start \in Restarts /\ due \in Restarts
    BY SMT DEF Init, CPR, Restarts
  <2>4. read \in [turned : Int, counter : Int, due : Restarts]
    BY SMT DEF Init, Restarts
  <2>5. /\ ready \in BOOLEAN /\ ccw \in BOOLEAN /\ waiting \in BOOLEAN /\ tracking \in BOOLEAN
        /\ sync_fault \in {"NONE", "STALL", "REVERSED"}
    BY Zenon DEF Init
  <2> QED
    BY <2>1, <2>2, <2>3, <2>4, <2>5 DEF TypeOK
<1>2. CounterInv
  BY SMT DEF Init, CounterInv, FOLD, EARLY, PCNT_RESET
<1>3. FoldInv /\ EntryInv /\ PeakInv
  BY DEF Init, FoldInv, EntryInv, PeakInv
<1>4. SpeedInv
  BY SMT DEF Init, SpeedInv, UnitIsOne
<1> QED
  BY <1>1, <1>2, <1>3, <1>4 DEF CountInv
-----------------------------------------------------------------------------
(* The steps.                                                              *)

LEMMA CountKeeps ==
  ASSUME CountInv, NEW d \in {-1, 1}, Count(d)
  PROVE  CountInv'
<1> USE DEF CountInv
<1>1. turned' \in Int /\ counter' \in Int /\ due' \in Restarts /\ peak' \in Int
  <2>1. turned' \in Int /\ counter' \in Int /\ due' \in Restarts
    BY SMT DEF Count, TypeOK, Restarts, PCNT_RESET, Abs
  <2>2. peak' \in Int
    BY <2>1, SMT DEF Count, TypeOK, Max2
  <2> QED
    BY <2>1, <2>2
<1>2. TypeOK'
  BY <1>1 DEF Count, TypeOK, folding, syncing, speeds
<1>3. CounterInv'
  BY SMT DEF Count, TypeOK, CounterInv, folding, Restarts, PCNT_RESET, FOLD, EARLY, Abs
<1>4. FoldInv' /\ EntryInv' /\ SpeedInv'
  BY DEF Count, FoldInv, EntryInv, SpeedInv, folding, syncing, speeds, Advanced
<1>5. PeakInv'
  <2>1. peak <= peak'
    BY <1>1, SMT DEF Count, Max2, TypeOK
  <2>2. /\ furthest' = furthest /\ tracking' = tracking /\ ccw' = ccw /\ start' = start
        /\ furthest \in Int /\ start \in Int /\ peak \in Int
    BY SMT DEF Count, folding, syncing, TypeOK, Restarts, PCNT_RESET
  <2>3. (IF ccw THEN -start ELSE start) \in Int
    BY <2>2, SMT
  <2>4. (IF ccw THEN -turned' ELSE turned') <= peak'
    BY <1>1, <2>2, SMT DEF Count, Max2
  <2>5. ASSUME tracking
        PROVE  furthest <= peak' + (IF ccw THEN -start ELSE start)
    <3>1. PICK begun \in Int : begun = IF ccw THEN -start ELSE start
      BY <2>3
    <3>2. furthest <= peak + begun
      BY <2>5, <3>1, Zenon DEF PeakInv
    <3>3. furthest \in Int /\ peak \in Int /\ peak' \in Int
      BY <1>1, <2>2
    <3>4. furthest <= peak' + begun
      BY <2>1, <3>2, <3>3, BoundGrows, Zenon
    <3> QED
      BY <3>1, <3>4, Zenon
  <2> QED
    BY <2>2, <2>4, <2>5, Zenon DEF PeakInv
<1> QED
  BY <1>2, <1>3, <1>4, <1>5

LEMMA CreditKeeps == ASSUME CountInv, Credit PROVE CountInv'
<1> USE DEF CountInv
<1>1. due' \in Restarts
  BY SMT DEF Credit, Restarts
<1>2. TypeOK'
  BY <1>1 DEF Credit, TypeOK, folding, syncing, supervising, speeds
<1>3. CounterInv'
  BY DEF Credit, CounterInv, folding
<1>4. FoldInv' /\ EntryInv' /\ PeakInv' /\ SpeedInv'
  BY DEF Credit, FoldInv, EntryInv, PeakInv, SpeedInv, folding, syncing, supervising, speeds,
         Advanced
<1> QED
  BY <1>2, <1>3, <1>4

LEMMA ReadyKeeps == ASSUME CountInv, Ready PROVE CountInv'
<1> USE DEF CountInv
<1>1. turned \in Int /\ counter \in Int /\ due \in Restarts /\ -due \in Restarts /\ due \in Int
  BY SMT DEF TypeOK, Restarts, PCNT_RESET
<1>2. /\ -2147483648 <= turned - due /\ turned - due < 2147483648
      /\ turned - due \in Int
  BY <1>1, SMT DEF Ready, CounterInv, EARLY, Restarts, PCNT_RESET
<1>3. Raw = turned - due
  BY <1>2, WrapSmall DEF Raw
<1>4. read' = [turned |-> turned, counter |-> counter, due |-> due]
  BY DEF Ready
<1>5. TypeOK'
  <2>1. accumulated' \in Int /\ start' \in Restarts
    BY <1>1, <1>2, <1>3 DEF Ready
  <2>2. read' \in [turned : Int, counter : Int, due : Restarts]
    BY <1>1, <1>4
  <2>3. ready' \in BOOLEAN
    BY Zenon DEF Ready
  <2> QED
    BY <2>1, <2>2, <2>3 DEF Ready, TypeOK, counting, syncing, supervising, speeds
<1>6. CounterInv'
  BY <1>1, <1>4, SMT DEF Ready, CounterInv, counting, FOLD
<1>7. FoldInv'
  <2>1. last_raw' = Wrap(turned - due) /\ accumulated' = turned + start'
    BY <1>1, <1>3, SMT DEF Ready, Raw
  <2>2. ready'
    BY DEF Ready
  <2> QED
    BY <1>4, <2>1, <2>2 DEF FoldInv
<1>8. EntryInv' /\ PeakInv' /\ SpeedInv'
  BY DEF Ready, FoldInv, EntryInv, PeakInv, SpeedInv, syncing, supervising, speeds, Advanced
<1> QED
  BY <1>5, <1>6, <1>7, <1>8

LEMMA PollKeeps == ASSUME UnitIsOne, CountInv, Poll PROVE CountInv'
<1> USE DEF CountInv
<1> DEFINE delta == CountDelta(Raw, last_raw)
           sign == IF ccw THEN -start ELSE start
           oriented == IF ccw THEN -accumulated' ELSE accumulated'
<1>1. ready /\ ready' = ready /\ start' = start /\ turned' = turned /\ due' = due
      /\ counter' = counter /\ ccw' = ccw /\ peak' = peak /\ tracking' = tracking
  BY DEF Poll, counting, syncing
<1>2. accumulated' = turned + start /\ delta = turned - read.turned
  BY <1>1, CountOfRead DEF Poll
<1>3. turned \in Int /\ start \in Int /\ sign \in Int /\ peak \in Int /\ furthest \in Int
      /\ delta \in Int /\ accumulated' \in Int /\ ccw \in BOOLEAN
  BY <1>2, SMT DEF TypeOK, Restarts, PCNT_RESET
<1>4. oriented = (IF ccw THEN -turned ELSE turned) + sign
  BY <1>2, <1>3, SMT
<1>5. furthest' \in Int /\ furthest' = IF Supervised THEN Max2(furthest, oriented) ELSE furthest
  <2>1. furthest' = IF Supervised THEN Max2(furthest, oriented) ELSE furthest
    BY DEF Poll
  <2>2. oriented \in Int
    BY <1>3, SMT
  <2>3. Max2(furthest, oriented) \in Int
    BY <1>3, <2>2, MaxOfTwo, Zenon
  <2> QED
    BY <1>3, <2>1, <2>3, Zenon
<1>6. read' = [turned |-> turned, counter |-> counter, due |-> due]
  BY DEF Poll
<1>7. PICK measured \in Nat, slow \in Nat \ {0}, sampled \in BOOLEAN :
        LET interval == still \div Abs(delta)
            kept == sampled /\ ~mode.braking /\ measured # 0
        IN  rpm' = [measured |-> IF sampled THEN measured ELSE rpm.measured,
                    interval |-> IF delta = 0 THEN rpm.interval ELSE interval,
                    edge |-> IF delta # 0 /\ interval # 0 THEN slow ELSE rpm.edge,
                    profile_last |-> IF kept /\ mode.profile THEN measured
                                     ELSE rpm.profile_last,
                    follow_last |-> IF kept /\ mode.follow /\ measured >= 30 * Unit
                                    THEN measured ELSE rpm.follow_last]
  BY Zenon DEF Poll, Measured
<1>8. /\ rpm' \in [measured : Nat, edge : Nat, interval : Int, profile_last : Nat,
                   follow_last : Nat]
      /\ SpeedInv'
  <2>1. delta # 0 => still \div Abs(delta) \in Int
    <3>1. delta # 0 => Abs(delta) \in Int /\ Abs(delta) > 0
      BY <1>3, SMT DEF Abs
    <3> QED
      BY <3>1, SMT DEF TypeOK
  <2>2. rpm \in [measured : Nat, edge : Nat, interval : Int, profile_last : Nat,
                 follow_last : Nat]
    BY DEF TypeOK
  <2>3. PICK kept \in BOOLEAN : kept = (sampled /\ ~mode.braking /\ measured # 0)
    BY Zenon
  <2>4. /\ rpm'.measured = IF sampled THEN measured ELSE rpm.measured
        /\ rpm'.interval = IF delta = 0 THEN rpm.interval ELSE still \div Abs(delta)
        /\ rpm'.edge = IF delta # 0 /\ still \div Abs(delta) # 0 THEN slow ELSE rpm.edge
        /\ rpm'.profile_last = IF kept /\ mode.profile THEN measured ELSE rpm.profile_last
        /\ rpm'.follow_last = IF kept /\ mode.follow /\ measured >= 30 * Unit
                              THEN measured ELSE rpm.follow_last
    BY <1>7, <2>3, Zenon
  <2>5. rpm' = [measured |-> rpm'.measured, interval |-> rpm'.interval, edge |-> rpm'.edge,
                profile_last |-> rpm'.profile_last, follow_last |-> rpm'.follow_last]
    BY <1>7, <2>4, Zenon
  <2>6. /\ rpm'.measured \in Nat /\ rpm'.edge \in Nat /\ rpm'.interval \in Int
        /\ rpm'.profile_last \in Nat /\ rpm'.follow_last \in Nat
    BY <2>1, <2>2, <2>4, SMT
  <2>7. kept => measured > 0
    <3>1. measured # 0 => measured > 0
      BY SMT
    <3> QED
      BY <2>3, <3>1, Zenon
  <2>8. rpm'.profile_last > 0
    BY <2>4, <2>7, SMT DEF SpeedInv
  <2>9. rpm'.follow_last >= 30 * Unit
    BY <2>4, SMT DEF SpeedInv
  <2>10. rpm'.interval # 0 => rpm'.edge > 0
    BY <2>1, <2>4, SMT DEF SpeedInv
  <2> QED
    BY <2>5, <2>6, <2>8, <2>9, <2>10 DEF SpeedInv
<1>9. TypeOK'
  <2>1. sync_fault' \in {"NONE", "STALL", "REVERSED"}
    BY Zenon DEF Poll, TypeOK
  <2>2. still' \in Nat
    BY SMT DEF Poll, TypeOK
  <2>3. read' \in [turned : Int, counter : Int, due : Restarts]
    BY <1>6 DEF TypeOK
  <2> QED
    BY <1>3, <1>5, <1>8, <2>1, <2>2, <2>3 DEF Poll, TypeOK, counting, syncing
<1>10. CounterInv'
  BY <1>1, <1>6, SMT DEF CounterInv, TypeOK, FOLD, PCNT_RESET
<1>11. FoldInv'
  <2>1. last_raw' = Wrap(turned - due)
    BY DEF Poll, Raw
  <2> QED
    BY <1>1, <1>2, <1>6, <2>1 DEF FoldInv
<1>12. EntryInv'
  BY DEF Poll, EntryInv, syncing, Advanced
<1>13. PeakInv'
  <2>1. ASSUME tracking
        PROVE  furthest' <= peak + sign
    <3>1. furthest <= peak + sign /\ (IF ccw THEN -turned ELSE turned) <= peak
      BY <2>1, Zenon DEF PeakInv
    <3>2. (IF ccw THEN -turned ELSE turned) \in Int /\ oriented \in Int
      BY <1>3, SMT
    <3>3. PICK at \in Int, begun \in Int, reached \in Int :
            /\ at = IF ccw THEN -turned ELSE turned
            /\ begun = sign /\ reached = oriented
      BY <1>3, <3>2, Zenon
    <3>4. reached = at + begun /\ at <= peak
      BY <1>4, <3>1, <3>3, Zenon
    <3>5. peak \in Int
      BY <1>3
    <3>6. reached <= peak + begun
      BY <3>4, <3>5, SMT
    <3>7. Max2(furthest, oriented) <= peak + sign
      BY <3>1, <3>3, <3>6, Zenon DEF Max2
    <3> QED
      BY <1>5, <3>1, <3>7, Zenon
  <2> QED
    BY <1>1, <2>1, Zenon DEF PeakInv
<1> QED
  BY <1>8, <1>9, <1>10, <1>11, <1>12, <1>13

\* A stop begins with the last measured speed, a feed with the slowest it plans on.
LEMMA KeptSpeeds ==
  ASSUME UnitIsOne, SpeedInv,
         rpm \in [measured : Nat, edge : Nat, interval : Int, profile_last : Nat,
                  follow_last : Nat],
         \/ rpm' = [rpm EXCEPT !.profile_last = IF rpm.measured # 0 THEN rpm.measured ELSE @]
         \/ rpm' = [rpm EXCEPT !.follow_last = 30 * Unit]
  PROVE  /\ rpm' \in [measured : Nat, edge : Nat, interval : Int, profile_last : Nat,
                      follow_last : Nat]
         /\ SpeedInv'
<1>1. CASE rpm' = [rpm EXCEPT !.profile_last = IF rpm.measured # 0 THEN rpm.measured ELSE @]
  BY <1>1, SMT DEF SpeedInv
<1>2. CASE rpm' = [rpm EXCEPT !.follow_last = 30 * Unit]
  <2>1. 30 * Unit \in Nat
    BY SMT DEF UnitIsOne
  <2>2. 30 * Unit >= 30 * Unit
    BY <2>1, SMT
  <2> QED
    BY <1>2, <2>1, <2>2 DEF SpeedInv
<1> QED
  BY <1>1, <1>2

LEMMA SpeedsKeep ==
  ASSUME UnitIsOne, CountInv,
         Tick \/ Brake \/ \E enabled \in BOOLEAN : Profile(enabled) \/ Follow(enabled)
  PROVE  CountInv'
<1> USE DEF CountInv
<1>1. CASE Tick
  <2>1. still' \in Nat
    BY <1>1, SMT DEF Tick, TypeOK
  <2> QED
    BY <1>1, <2>1 DEF Tick, TypeOK, CounterInv, FoldInv, EntryInv, PeakInv, SpeedInv, counting,
      folding, syncing, speeds, Advanced
<1>2. CASE Brake
  <2>1. mode' \in [profile : BOOLEAN, follow : BOOLEAN, braking : BOOLEAN]
    BY <1>2, Zenon DEF Brake, TypeOK
  <2> QED
    BY <1>2, <2>1 DEF Brake, TypeOK, CounterInv, FoldInv, EntryInv, PeakInv, SpeedInv, counting,
      folding, syncing, supervising, Advanced
<1>3. ASSUME NEW enabled \in BOOLEAN, Profile(enabled)
      PROVE  CountInv'
  <2>1. mode' \in [profile : BOOLEAN, follow : BOOLEAN, braking : BOOLEAN]
    BY <1>3, Zenon DEF Profile, TypeOK
  <2>2. entry' \in [armed : BOOLEAN, advance : Nat, cut : Nat]
    BY <1>3, Zenon DEF Profile, TypeOK
  <2>3. /\ rpm' \in [measured : Nat, edge : Nat, interval : Int, profile_last : Nat,
                     follow_last : Nat]
        /\ SpeedInv'
    <3>1. /\ rpm \in [measured : Nat, edge : Nat, interval : Int, profile_last : Nat,
                       follow_last : Nat]
          /\ SpeedInv
      BY Zenon DEF TypeOK
    <3>2. rpm' = [rpm EXCEPT !.profile_last = IF rpm.measured # 0 THEN rpm.measured ELSE @]
      BY <1>3, Zenon DEF Profile
    <3> QED
      BY <3>1, <3>2, KeptSpeeds
  <2>4. TypeOK' /\ CounterInv' /\ FoldInv' /\ PeakInv'
    BY <1>3, <2>1, <2>2, <2>3 DEF Profile, TypeOK, CounterInv, FoldInv, PeakInv, counting,
      folding, supervising
  <2>5. EntryInv'
    <3>1. entry'.armed /\ waiting' => entry' = entry /\ waiting
      BY <1>3, Zenon DEF Profile, TypeOK
    <3> QED
      BY <1>3, <3>1 DEF Profile, EntryInv, Advanced
  <2> QED
    BY <2>3, <2>4, <2>5
<1>4. ASSUME NEW enabled \in BOOLEAN, Follow(enabled)
      PROVE  CountInv'
  <2>1. mode' \in [profile : BOOLEAN, follow : BOOLEAN, braking : BOOLEAN]
    BY <1>4, Zenon DEF Follow, TypeOK
  <2>2. /\ rpm' \in [measured : Nat, edge : Nat, interval : Int, profile_last : Nat,
                     follow_last : Nat]
        /\ SpeedInv'
    <3>1. /\ rpm \in [measured : Nat, edge : Nat, interval : Int, profile_last : Nat,
                       follow_last : Nat]
          /\ SpeedInv
      BY Zenon DEF TypeOK
    <3>2. rpm' = [rpm EXCEPT !.follow_last = 30 * Unit]
      BY <1>4, Zenon DEF Follow
    <3> QED
      BY <3>1, <3>2, KeptSpeeds
  <2> QED
    BY <1>4, <2>1, <2>2 DEF Follow, TypeOK, CounterInv, FoldInv, EntryInv, PeakInv, counting,
      folding, syncing, supervising, Advanced
<1> QED
  BY <1>1, <1>2, <1>3, <1>4

LEMMA SettingsKeep ==
  ASSUME CountInv,
         \/ \E on \in BOOLEAN : SetState(on) \/ Arm(on)
         \/ \E value \in 0 .. CPR - 1 : SetPhase(value)
         \/ Idle
  PROVE  CountInv'
<1> USE DEF CountInv
<1>1. ASSUME NEW on \in BOOLEAN, SetState(on)
      PROVE  CountInv'
  BY <1>1 DEF SetState, TypeOK, CounterInv, FoldInv, EntryInv, PeakInv, SpeedInv, counting,
    folding, supervising, speeds, Advanced
<1>2. ASSUME NEW on \in BOOLEAN, Arm(on)
      PROVE  CountInv'
  <2>1. entry' \in [armed : BOOLEAN, advance : Nat, cut : Nat]
    BY <1>2, Zenon DEF Arm, TypeOK
  <2>2. EntryInv'
    <3>1. ~(entry'.armed /\ waiting')
      BY <1>2, Zenon DEF Arm, TypeOK
    <3> QED
      BY <3>1 DEF EntryInv
  <2> QED
    BY <1>2, <2>1, <2>2 DEF Arm, TypeOK, CounterInv, FoldInv, PeakInv, SpeedInv, counting,
      folding, supervising, speeds
<1>3. ASSUME NEW value \in 0 .. CPR - 1, SetPhase(value)
      PROVE  CountInv'
  BY <1>3 DEF SetPhase, TypeOK, CounterInv, FoldInv, EntryInv, PeakInv, SpeedInv, counting,
    folding, supervising, speeds
<1>4. CASE Idle
  <2>1. waiting' \in BOOLEAN /\ tracking' \in BOOLEAN /\ ~waiting' /\ ~tracking'
    BY <1>4, Zenon DEF Idle
  <2> QED
    BY <1>4, <2>1 DEF Idle, TypeOK, CounterInv, FoldInv, EntryInv, PeakInv, SpeedInv, counting,
      folding, speeds
<1> QED
  BY <1>1, <1>2, <1>3, <1>4

LEMMA ResetKeeps ==
  ASSUME CountInv, NEW plunge \in Nat, NEW ramp \in Nat, ResetData(plunge, ramp)
  PROVE  CountInv'
<1> USE DEF CountInv
<1> DEFINE shift == IF entry.armed THEN ramp + plunge ELSE ramp
           index == Advanced(shift)
<1>1. shift \in Nat
  <2>1. ramp + plunge \in Nat
    BY SMT
  <2> QED
    BY <2>1, Zenon
<1>2. index \in 0 .. CPR - 1 /\ index \in Int
  <2>1. index \in 0 .. CPR - 1
    BY <1>1, AdvancedBefore DEF TypeOK
  <2> QED
    BY <2>1, SMT DEF CPR
<1>3. origin' = LastIndex(Oriented, index) /\ origin' \in Int
  BY <1>2, OrientedIsTurned, LastIndexIsLast DEF ResetData
<1>4. entry' \in [armed : BOOLEAN, advance : Nat, cut : Nat]
  BY Zenon DEF ResetData, TypeOK
<1>5. waiting' = TRUE /\ waiting' \in BOOLEAN
  BY Zenon DEF ResetData
<1>6. index_phase' = index
  BY DEF ResetData
<1>7. TypeOK' /\ CounterInv' /\ FoldInv' /\ PeakInv' /\ SpeedInv'
  BY <1>2, <1>3, <1>4, <1>5, <1>6 DEF ResetData, TypeOK, CounterInv, FoldInv, PeakInv, SpeedInv,
    counting, folding, supervising, speeds
<1>8. EntryInv'
  <2>1. CASE entry.armed
    <3>1. entry' = [entry EXCEPT !.advance = plunge, !.cut = ramp]
      BY <2>1, Zenon DEF ResetData
    <3>2. entry'.cut + entry'.advance = ramp + plunge
      BY <3>1, Zenon DEF TypeOK
    <3>3. index_phase' = Advanced(ramp + plunge) /\ phase' = phase
      BY <1>6, <2>1 DEF ResetData
    <3> QED
      BY <3>2, <3>3 DEF EntryInv, Advanced
  <2>2. CASE ~entry.armed
    <3>1. ~entry'.armed
      BY <2>2, Zenon DEF ResetData
    <3> QED
      BY <3>1 DEF EntryInv
  <2> QED
    BY <2>1, <2>2
<1> QED
  BY <1>7, <1>8

LEMMA BlockKeeps ==
  ASSUME CountInv, HandOff \/ \E on \in BOOLEAN : OtherBlock(on)
  PROVE  CountInv'
<1> USE DEF CountInv
<1>1. PICK on \in BOOLEAN : Block(on)
  BY Zenon DEF HandOff, OtherBlock
<1>2. origin' \in Int /\ entry' \in [armed : BOOLEAN, advance : Nat, cut : Nat]
  <2>1. CASE HandOff
    <3>1. Oriented \in Int /\ index_phase \in Int /\ entry.advance \in Int
      <4>1. Oriented \in Int
        BY <1>1, OrientedIsTurned DEF Block
      <4> QED
        BY <4>1, SMT DEF TypeOK, CPR
    <3>2. PICK last \in Int : last = LastIndex(Oriented, index_phase)
      BY <3>1, LastIndexIsLast
    <3>3. last + entry.advance \in Int
      BY <3>1, SMT
    <3>4. entry' \in [armed : BOOLEAN, advance : Nat, cut : Nat]
      BY <2>1, Zenon DEF HandOff, TypeOK
    <3> QED
      BY <2>1, <3>2, <3>3, <3>4, Zenon DEF HandOff
  <2>2. CASE \E b \in BOOLEAN : OtherBlock(b)
    BY <2>2 DEF OtherBlock, TypeOK
  <2> QED
    BY <2>1, <2>2
<1>3. waiting' \in BOOLEAN /\ ~waiting' /\ tracking' \in BOOLEAN /\ tracking' = on
  BY <1>1, Zenon DEF Block
<1>4. PICK at \in Int, begun \in Int :
        /\ at = IF ccw THEN -turned ELSE turned
        /\ begun = IF ccw THEN -start ELSE start
        /\ Oriented = at + begun
  <2>1. turned \in Int /\ start \in Int /\ -turned \in Int /\ -start \in Int
    BY SMT DEF TypeOK, Restarts, PCNT_RESET
  <2>2. Oriented = (IF ccw THEN -turned ELSE turned) + (IF ccw THEN -start ELSE start)
    BY <1>1, OrientedIsTurned DEF Block
  <2> QED
    BY <2>1, <2>2, Zenon
<1>5. at + begun \in Int /\ at <= at /\ at + begun <= at + begun
  BY SMT
<1>6. furthest' \in Int /\ peak' \in Int
  BY <1>1, <1>4, <1>5, Zenon DEF Block, TypeOK
<1>7. PeakInv'
  <2>1. ASSUME on
        PROVE  furthest' = at + begun /\ peak' = at
    BY <1>1, <1>4, <2>1, Zenon DEF Block
  <2>2. turned' = turned /\ start' = start /\ ccw' = ccw
    BY <1>1 DEF Block, counting, folding
  <2> QED
    BY <1>3, <1>4, <1>5, <2>1, <2>2, Zenon DEF PeakInv
<1>8. TypeOK' /\ CounterInv' /\ FoldInv' /\ SpeedInv' /\ EntryInv'
  BY <1>1, <1>2, <1>3, <1>6 DEF Block, TypeOK, CounterInv, FoldInv, EntryInv, SpeedInv,
    counting, folding, speeds
<1> QED
  BY <1>7, <1>8

LEMMA NextKeeps == ASSUME UnitIsOne, CountInv, [Next]_vars PROVE CountInv'
<1>1. CASE Next
  BY <1>1, CountKeeps, CreditKeeps, ReadyKeeps, PollKeeps, SpeedsKeep, SettingsKeep, ResetKeeps,
     BlockKeeps, Zenon DEF Next
<1>2. CASE UNCHANGED vars
  BY <1>2 DEF CountInv, TypeOK, CounterInv, FoldInv, EntryInv, PeakInv, SpeedInv, Advanced, vars,
     counting, folding, syncing, supervising, speeds
<1> QED
  BY <1>1, <1>2

LEMMA CountInvariant == ASSUME UnitIsOne PROVE Spec => []CountInv
<1>1. Init => CountInv
  BY InitInv
<1>2. CountInv /\ [Next]_vars => CountInv'
  BY NextKeeps
<1> QED
  BY <1>1, <1>2, PTL DEF Spec

-----------------------------------------------------------------------------
(* The theorems.                                                           *)

\* Every variable keeps its type.
THEOREM CountTypes == ASSUME UnitIsOne PROVE Spec => []TypeOK
<1>1. CountInv => TypeOK
  BY DEF CountInv
<1> QED
  BY <1>1, CountInvariant, PTL

\* The folded count is what the spindle turned, over any number of restarts of the counter
\* and wraps of its 32-bit total, whichever of them the driver has credited
\* (spindle.c:78-97).
THEOREM CountsAreExact == ASSUME UnitIsOne PROVE Spec => []CountExact
<1>1. CountInv => CountExact
  BY CountOfRead DEF CountInv, CountExact, TypeOK
<1> QED
  BY <1>1, CountInvariant, PTL

\* No feed and no waiting or stopping cycle is planned on a zero speed (spindle.c:117-137).
THEOREM PlanningSpeeds == ASSUME UnitIsOne PROVE Spec => []PlanningSpeed
<1>1. ASSUME UnitIsOne, CountInv
      PROVE  PlanningSpeed
  <2>1. PICK rotation \in Int : rotation = Rpm /\ 0 <= rotation
    <3>1. rpm.measured \in Nat /\ rpm.edge \in Nat
      BY <1>1 DEF CountInv, TypeOK
    <3>2. Rpm \in {rpm.measured, rpm.edge}
      BY Zenon DEF Rpm, ProfileRpm
    <3>3. Rpm \in Nat
      BY <3>1, <3>2
    <3> QED
      BY <3>3, SMT
  <2>2. /\ rpm.profile_last \in Int /\ rpm.profile_last > 0
        /\ rpm.follow_last \in Int /\ rpm.follow_last > 0
        /\ 30 * Unit > 0 /\ 30 * Unit \in Int
    <3>1. Unit \in Nat /\ Unit > 0
      BY <1>1, SMT DEF UnitIsOne
    <3>2. 30 * Unit > 0 /\ 30 * Unit \in Int
      BY <3>1, SMT
    <3>3. rpm.profile_last \in Nat /\ rpm.follow_last \in Nat
      BY <1>1 DEF CountInv, TypeOK
    <3> QED
      BY <1>1, <3>2, <3>3, SMT DEF CountInv, SpeedInv
  <2>3. PICK floor \in Int : floor = 30 * Unit /\ floor > 0
    BY <2>2
  <2>4. rotation # 0 => rotation > 0
    BY <2>1, SMT
  <2>5. ~(rotation < floor) => rotation > 0
    BY <2>1, <2>3, SMT
  <2> QED
    BY <2>1, <2>2, <2>3, <2>4, <2>5, Zenon DEF PlanningSpeed, PlanningRpm
<1> QED
  BY <1>1, CountInvariant, PTL

\* Every synchronized block waits for the same angle of the spindle, a ramp before the phase
\* (spindle.c:138-165).
THEOREM OriginsAtPhase == ASSUME UnitIsOne PROVE Spec => OriginAtPhase
<1>1. ASSUME CountInv, NEW plunge \in Nat, NEW ramp \in Nat, ResetData(plunge, ramp)
      PROVE  Aligned(plunge, ramp)
  <2>1. PICK before \in Nat : /\ before = IF entry.armed THEN plunge ELSE 0
                              /\ (IF entry.armed THEN ramp + plunge ELSE ramp) = ramp + before
    <3>1. ramp + plunge \in Nat /\ ramp + 0 = ramp
      BY SMT
    <3>2. CASE entry.armed
      BY <3>2, Zenon
    <3>3. CASE ~entry.armed
      BY <3>1, <3>3, 0 \in Nat, Zenon
    <3> QED
      BY <3>2, <3>3
  <2>2. ramp + before \in Nat
    BY SMT
  <2>3. phase \in 0 .. CPR - 1 /\ Oriented \in Int
    BY <1>1, OrientedIsTurned DEF CountInv, TypeOK, ResetData
  <2>4. PICK index \in 0 .. CPR - 1, k \in Int :
          index = Advanced(ramp + before) /\ index = k * CPR + phase - (ramp + before)
    BY <2>2, <2>3, AdvancedBefore
  <2>5. index \in Int
    BY SMT DEF CPR
  <2>6. origin' = LastIndex(Oriented, index)
    BY <1>1, <2>1, <2>4 DEF ResetData
  <2>7. /\ origin' \in Int /\ origin' <= Oriented /\ Oriented < origin' + CPR
        /\ \E j \in Int : origin' = j * CPR + index
    BY <2>3, <2>5, <2>6, LastIndexIsLast
  <2>8. PICK j \in Int : origin' = j * CPR + index
    BY <2>7
  <2>9. j + k \in Int /\ origin' = (j + k) * CPR + phase - ramp - before
    BY <2>3, <2>4, <2>5, <2>8, SMT DEF CPR
  <2> QED
    BY <2>1, <2>7, <2>9, Zenon DEF Aligned
<1>2. CountInv => AlignedBlock
  BY <1>1 DEF AlignedBlock
<1> QED
  BY <1>2, CountInvariant, PTL DEF OriginAtPhase

\* The cut of an entry is anchored where a cut without a plunge is (spindle.c:190-211).
THEOREM EntriesAnchored == ASSUME UnitIsOne PROVE Spec => EntryAnchored
<1>1. ASSUME CountInv, HandOff
      PROVE  /\ \E k \in Int : origin' = k * CPR + phase - entry.cut
             /\ origin' - entry.advance <= Oriented
             /\ Oriented < origin' - entry.advance + CPR
  <2>1. /\ phase \in 0 .. CPR - 1 /\ Oriented \in Int
        /\ entry.cut \in Nat /\ entry.advance \in Nat
    BY <1>1, OrientedIsTurned DEF CountInv, TypeOK, HandOff, Block
  <2>2. entry.cut + entry.advance \in Nat
    BY <2>1, SMT
  <2>3. index_phase = Advanced(entry.cut + entry.advance)
    BY <1>1, Zenon DEF CountInv, EntryInv, HandOff
  <2>4. PICK index \in 0 .. CPR - 1, k \in Int :
          /\ index = index_phase
          /\ index = k * CPR + phase - (entry.cut + entry.advance)
    BY <2>1, <2>2, <2>3, AdvancedBefore
  <2>5. index \in Int
    BY SMT DEF CPR
  <2>6. PICK last \in Int, j \in Int :
          /\ last = LastIndex(Oriented, index)
          /\ last <= Oriented /\ Oriented < last + CPR
          /\ last = j * CPR + index
    BY <2>1, <2>5, LastIndexIsLast
  <2>7. origin' = last + entry.advance
    BY <1>1, <2>4, <2>6, Zenon DEF HandOff
  <2>8. j + k \in Int /\ origin' = (j + k) * CPR + phase - entry.cut
    BY <2>1, <2>4, <2>5, <2>6, <2>7, SMT DEF CPR
  <2>9. origin' - entry.advance = last
    BY <2>1, <2>6, <2>7, SMT
  <2> QED
    BY <2>6, <2>8, <2>9
<1>2. CountInv => AnchoredCut
  BY <1>1 DEF AnchoredCut
<1> QED
  BY <1>2, CountInvariant, PTL DEF EntryAnchored

\* A reversal is reported only of a spindle that stands behind where it was
\* (spindle.c:320-326).
THEOREM ReversalsAreReal == ASSUME UnitIsOne PROVE Spec => ReversedIsReal
<1>1. ASSUME CountInv, Poll, sync_fault' = "REVERSED", sync_fault # "REVERSED"
      PROVE  peak - (IF ccw THEN -turned ELSE turned) > 3
  <2> DEFINE counts == accumulated + CountDelta(Raw, last_raw)
             oriented == IF ccw THEN -counts ELSE counts
             ahead == Max2(furthest, oriented)
  <2>1. counts = turned + start
    BY <1>1, CountOfRead DEF CountInv, Poll
  <2>2. PICK at \in Int, begun \in Int :
          /\ at = IF ccw THEN -turned ELSE turned
          /\ begun = IF ccw THEN -start ELSE start
          /\ oriented = at + begun
    <3>1. /\ turned \in Int /\ start \in Int /\ -turned \in Int /\ -start \in Int
          /\ turned + start \in Int
          /\ -(turned + start) = -turned + -start
      BY <1>1, SMT DEF CountInv, TypeOK, Restarts, PCNT_RESET
    <3> QED
      BY <2>1, <3>1, Zenon
  <2>3. tracking /\ ahead - oriented > 3
    BY <1>1, Zenon DEF Poll, Supervised
  <2>4. furthest \in Int /\ peak \in Int
    BY <1>1 DEF CountInv, TypeOK
  <2>5. at <= peak /\ furthest <= peak + begun
    BY <1>1, <2>2, <2>3, Zenon DEF CountInv, PeakInv
  <2>6. PICK most \in Int : most = ahead /\ most \in {furthest, at + begun}
    <3>1. at + begun \in Int
      BY SMT
    <3> QED
      BY <2>2, <2>4, <3>1, MaxOfTwo
  <2>7. most - (at + begun) > 3
    BY <2>2, <2>3, <2>6, Zenon
  <2>8. peak - at > 3
    BY <2>4, <2>5, <2>6, <2>7, SMT
  <2> QED
    BY <2>2, <2>8, Zenon
<1>2. ASSUME [Next]_vars, ~Poll
      PROVE  sync_fault' = sync_fault
  BY <1>2 DEF Next, Count, Credit, Ready, Tick, Profile, Follow, Arm, Brake, Idle, HandOff,
     SetState, OtherBlock, Block, SetPhase, ResetData, vars, counting, folding, syncing,
     supervising, speeds
<1>3. CountInv /\ [Next]_vars => RealReversal
  BY <1>1, <1>2, Zenon DEF RealReversal
<1> QED
  BY <1>3, CountInvariant, PTL DEF ReversedIsReal, Spec

-----------------------------------------------------------------------------
(* The 32-bit clock.                                                       *)

\* Close points of the clock that look the same in 32 bits are the same.
LEMMA SameWord ==
  ASSUME NEW a \in Nat, NEW b \in Nat, a % Word = b % Word, a - b < Word, b - a < Word
  PROVE  a = b
  BY SMT DEF Word

\* The signed 32-bit difference of close points of the clock is their distance.
LEMMA WordDifference ==
  ASSUME NEW a \in Nat, NEW b \in Nat, a - b < 2147483648, b - a < 2147483648
  PROVE  Wrap((a % Word) - (b % Word)) = a - b
  BY SMT DEF Word, Wrap

LEMMA WordIsNat == \A a \in Nat : a % Word \in Nat
  BY SMT DEF Word

-----------------------------------------------------------------------------
(* The invariant.                                                          *)

Calls == [at : {"rest", "start", "judge", "clear", "yes", "no"},
          until : Nat, ends : Nat, began : Nat, expected : BOOLEAN]

\* The word of an ended session is cleared by the next check of the grblHAL task.
SessionInv ==
  /\ expires # 0 => open /\ expires = ends % Word /\ polled <= ends
  /\ ends <= clock + Session
  /\ SessionKept

\* The grblHAL task checks often; only a start called later undoes a stop.
WillInv ==
  /\ polled <= clock /\ clock <= polled + Pause
  /\ asked <= clock /\ ends <= asked + Session
  /\ quiet => expires = 0 /\ \A c \in Starters : call[c].at # "start"

\* The check of the grblHAL task leaves no end in the word that was over when it began.
PollInv ==
  /\ call["hook"].at \in {"judge", "clear", "yes", "no"} => polled <= call["hook"].began
  /\ call["hook"].at \in {"judge", "clear"} /\ expires # 0 =>
       ends = call["hook"].ends \/ call["hook"].began <= ends
  /\ call["hook"].at \in {"yes", "no"} /\ expires # 0 => call["hook"].began <= ends

\* A call is recent, and so is the end it found.
CallInv(c) ==
  /\ call[c].at # "rest" => call[c].began <= clock
  /\ call[c].at \in Between => clock <= call[c].began + Pause
  /\ call[c].at = "start" => call[c].began <= asked
  /\ call[c].at \in {"judge", "clear"} =>
       /\ call[c].until # 0 /\ call[c].until = call[c].ends % Word
       /\ call[c].began <= call[c].ends + Pause
       /\ call[c].ends <= ends + Pause
       /\ call[c].ends <= clock + Session
       /\ call[c].began < call[c].ends => call[c].expected
  /\ call[c].at = "clear" => call[c].ends <= clock
  /\ call[c].at = "yes" => call[c].expected

\* The second check begins after the request.
ServeInv ==
  /\ requested <= clock
  /\ serve \in {"closed", "reading", "report"} => call["network"].at = "rest"
  /\ (serve = "second" /\ call["network"].at = "yes") \/ serve = "report" =>
       requested <= granted.at /\ granted.at < granted.ends
  /\ call["network"].at # "start"

SessionIInv == /\ SessionTypes /\ SessionInv /\ WillInv /\ PollInv /\ ServeInv
               /\ \A c \in Callers : CallInv(c)

LEMMA SessionInitInv == SessionInit => SessionIInv
<1> SUFFICES ASSUME SessionInit PROVE SessionIInv
  OBVIOUS
<1>1. \A c \in Callers : call[c] = AtRest
  BY DEF SessionInit
<1>2. /\ AtRest.at = "rest"
      /\ AtRest \in Calls
  BY SMT DEF AtRest, Calls
<1>3. clock \in Nat /\ expires \in Nat /\ ends \in Nat /\ requested \in Nat /\ published \in Nat
      /\ expires = 0 /\ ends <= clock + Session /\ requested <= clock
      /\ granted \in [at : Nat, ends : Nat]
      /\ asked \in Nat /\ polled \in Nat /\ asked <= clock /\ ends <= asked + Session
      /\ polled <= clock /\ clock <= polled + Pause
  BY SMT DEF SessionInit, Session, Pause
<1>4. open \in BOOLEAN /\ ~open /\ quiet \in BOOLEAN
  BY Zenon DEF SessionInit
<1>5. SessionTypes
  BY <1>1, <1>2, <1>3, <1>4 DEF SessionInit, SessionTypes, Calls
<1>6. SessionInv
  BY <1>3, <1>4 DEF SessionInv, SessionKept
<1>9. WillInv /\ PollInv
  BY <1>1, <1>2, <1>3 DEF WillInv, PollInv, Callers, Starters
<1>7. ServeInv
  BY <1>1, <1>2, <1>3 DEF SessionInit, ServeInv, Callers
<1>8. \A c \in Callers : CallInv(c)
  BY <1>1, <1>2 DEF CallInv, Between
<1> QED
  BY <1>5, <1>6, <1>7, <1>8, <1>9 DEF SessionIInv

LEMMA TickKeeps == ASSUME SessionIInv, ClockTicks PROVE SessionIInv'
<1> USE DEF SessionIInv
<1>1. clock' = clock + 1 /\ clock \in Nat /\ clock' \in Nat /\ ends \in Nat
  BY SMT DEF ClockTicks, SessionTypes
<1>2. SessionTypes'
  BY <1>1 DEF ClockTicks, SessionTypes, session, will, serving
<1>3. SessionInv'
  <2>2. ends <= clock' + Session
    BY <1>1, SMT DEF SessionInv, Session
  <2>3. clock' < ends => clock < ends
    BY <1>1, SMT
  <2> QED
    BY <2>2, <2>3 DEF ClockTicks, SessionInv, SessionKept, session
<1>6. WillInv' /\ PollInv'
  <2>1. polled \in Nat /\ asked \in Nat
    BY DEF SessionTypes
  <2>2. polled <= clock' /\ clock' <= polled + Pause /\ asked <= clock'
    BY <1>1, <2>1, SMT DEF ClockTicks, WillInv, Pause
  <2> QED
    BY <2>2 DEF ClockTicks, WillInv, PollInv, session, will
<1>4. ServeInv'
  <2>1. requested \in Nat
    BY DEF SessionTypes
  <2>2. requested <= clock'
    BY <1>1, <2>1, SMT DEF ServeInv
  <2> QED
    BY <2>2 DEF ClockTicks, ServeInv, serving
<1>5. ASSUME NEW c \in Callers
      PROVE  CallInv(c)'
  <2>1. call[c].began \in Nat /\ call[c].ends \in Nat
    BY DEF SessionTypes
  <2>2. /\ call[c].at # "rest" => call[c].began <= clock'
        /\ call[c].at \in Between => clock' <= call[c].began + Pause
    BY <1>1, <2>1, SMT DEF ClockTicks, CallInv, Pause
  <2>3. /\ call[c].ends <= clock + Session => call[c].ends <= clock' + Session
        /\ call[c].ends <= clock => call[c].ends <= clock'
    BY <1>1, <2>1, SMT DEF Session
  <2> QED
    BY <2>2, <2>3 DEF ClockTicks, CallInv, session, will
<1> QED
  BY <1>2, <1>3, <1>4, <1>5, <1>6

\* What a step of one task leaves alone.
LEMMA OthersKeep ==
  ASSUME SessionIInv, NEW c \in Callers, clock' = clock, ends' = ends, asked' = asked,
         \E r : call' = [call EXCEPT ![c] = r]
  PROVE  \A d \in Callers \ {c} : CallInv(d)' /\ call'[d] = call[d]
  BY DEF SessionIInv, SessionTypes, CallInv

LEMMA StartKeeps == ASSUME SessionIInv, NEW c \in Starters, Start(c) PROVE SessionIInv'
<1> USE DEF SessionIInv
<1>1. c \in Callers /\ c # "network"
  BY DEF Starters, Callers
<1>2. call' = [call EXCEPT ![c] = [call[c] EXCEPT !.at = "start", !.began = clock]]
  BY <1>1 DEF Start, SessionTypes
<1>3. /\ clock \in Nat /\ clock <= clock /\ clock <= clock + Pause
      /\ ends <= clock + Session
  BY SMT DEF SessionTypes, SessionInv, Pause
<1>4. asked' = clock /\ ~quiet' /\ quiet' \in BOOLEAN
  BY Zenon DEF Start
<1>5. SessionTypes'
  BY <1>1, <1>2, <1>3, <1>4 DEF Start, SessionTypes, session, serving
<1>6. SessionInv' /\ ServeInv'
  BY <1>1, <1>2 DEF Start, SessionTypes, SessionInv, SessionKept, ServeInv, session, serving, Callers
<1>7. WillInv'
  BY <1>3, <1>4 DEF Start, WillInv, session
<1>8. PollInv'
  <2>1. call'["hook"].at # "start" => call'["hook"] = call["hook"]
    BY <1>1, <1>2 DEF SessionTypes, Callers
  <2> QED
    BY <2>1 DEF Start, PollInv, session
<1>9. ASSUME NEW d \in Callers
      PROVE  CallInv(d)'
  <2>1. CASE d = c
    <3>1. call'[c].at = "start" /\ call'[c].began = clock
      BY <1>1, <1>2 DEF SessionTypes
    <3> QED
      BY <1>3, <1>4, <2>1, <3>1 DEF Start, CallInv, Between
  <2>2. CASE d # c
    <3>1. call'[d] = call[d]
      BY <1>2, <2>2 DEF SessionTypes
    <3>2. call[d].at = "start" => call[d].began <= clock
      BY DEF CallInv
    <3> QED
      BY <1>4, <3>1, <3>2 DEF Start, CallInv, session
  <2> QED
    BY <2>1, <2>2
<1> QED
  BY <1>5, <1>6, <1>7, <1>8, <1>9

LEMMA StoreKeeps == ASSUME SessionIInv, NEW c \in Starters, Store(c) PROVE SessionIInv'
<1> USE DEF SessionIInv
<1>1. c \in Callers /\ c # "network"
  BY DEF Starters, Callers
<1>2. call' = [call EXCEPT ![c] = [call[c] EXCEPT !.at = "rest"]]
  BY <1>1 DEF Store, SessionTypes
<1>3. PICK began \in Nat : /\ began = call[c].began
                           /\ began <= clock /\ clock <= began + Pause
                           /\ began <= asked
  BY <1>1 DEF Store, SessionTypes, CallInv, Between
<1>4. /\ clock \in Nat /\ ends' = began + Session /\ ends' \in Nat /\ ends' <= clock + Session
      /\ clock <= ends' /\ clock + Session <= ends' + Pause
  BY <1>3, SMT DEF Store, SessionTypes, Session, Pause
<1>11. polled <= ends' /\ ends' <= asked + Session
  BY <1>3, <1>4, SMT DEF SessionTypes, WillInv, Session
<1>5. expires' = ends' % Word /\ expires' \in Nat
  BY <1>4, WordIsNat DEF Store
<1>6. open' /\ open' \in BOOLEAN
  BY Zenon DEF Store
<1>7. SessionTypes'
  BY <1>1, <1>2, <1>4, <1>5, <1>6 DEF Store, SessionTypes, will, serving
<1>8. SessionInv'
  BY <1>4, <1>5, <1>6, <1>11 DEF Store, SessionInv, SessionKept, will
<1>12. WillInv'
  <2>1. ~quiet
    BY DEF Store, WillInv
  <2> QED
    BY <1>11, <2>1 DEF Store, WillInv, will
<1>13. PollInv'
  <2>1. call'["hook"].at # "rest" => call'["hook"] = call["hook"]
    BY <1>1, <1>2 DEF SessionTypes, Callers
  <2>2. "hook" \in Callers /\ call["hook"].began \in Nat
    BY DEF Callers, SessionTypes
  <2>3. call["hook"].at # "rest" => call["hook"].began <= ends'
    BY <1>4, <2>2, SMT DEF CallInv
  <2> QED
    BY <2>1, <2>3 DEF Store, PollInv, will
<1>9. ServeInv'
  BY <1>1, <1>2 DEF Store, SessionTypes, ServeInv, serving, Callers
<1>10. ASSUME NEW d \in Callers
       PROVE  CallInv(d)'
  <2>1. CASE d = c
    BY <1>1, <1>2, <2>1 DEF CallInv, SessionTypes, Between
  <2>2. CASE d # c
    <3>1. call'[d] = call[d] /\ clock' = clock
      BY <1>2, <2>2 DEF Store, SessionTypes
    <3>2. call[d].ends \in Nat
      BY DEF SessionTypes
    <3>3. call[d].ends <= clock + Session => call[d].ends <= ends' + Pause
      BY <1>4, <3>2, SMT DEF Session, Pause
    <3> QED
      BY <3>1, <3>3 DEF Store, CallInv, will
  <2> QED
    BY <2>1, <2>2
<1> QED
  BY <1>7, <1>8, <1>9, <1>10, <1>12, <1>13

LEMMA StopKeeps == ASSUME SessionIInv, NEW c \in Starters, Stop(c) PROVE SessionIInv'
<1> USE DEF SessionIInv
<1>1. open' \in BOOLEAN /\ ~open'
  BY Zenon DEF Stop
<1>2. expires' = 0 /\ expires' \in Nat
  BY SMT DEF Stop
<1>3. quiet' \in BOOLEAN /\ (quiet' => \A d \in Starters : call[d].at # "start")
  BY Zenon DEF Stop
<1> QED
  BY <1>1, <1>2, <1>3 DEF Stop, SessionTypes, SessionInv, SessionKept, WillInv, PollInv, ServeInv,
     CallInv, serving

LEMMA LoadKeeps == ASSUME SessionIInv, NEW c \in Callers, Load(c) PROVE SessionIInv'
<1> USE DEF SessionIInv
<1>1. PICK r : /\ call' = [call EXCEPT ![c] = r]
               /\ r = [at |-> IF expires = 0 THEN "no" ELSE "judge",
                       until |-> expires, ends |-> ends, began |-> clock,
                       expected |-> ~quiet /\ clock < asked + Session]
  BY DEF Load
<1>2. r \in Calls
  <2>1. (~quiet /\ clock < asked + Session) \in BOOLEAN
    BY Zenon
  <2> QED
    BY <1>1, <2>1 DEF SessionTypes, Calls
<1>3. SessionTypes'
  BY <1>1, <1>2 DEF Load, SessionTypes, Calls, session, will, serving
<1>4. SessionInv'
  BY DEF Load, SessionInv, SessionKept, session
<1>9. clock \in Nat /\ ends \in Nat /\ clock <= clock /\ clock <= clock + Pause
      /\ ends <= ends + Pause
  BY SMT DEF SessionTypes, Pause
<1>10. WillInv'
  <2>1. \A d \in Starters : call'[d].at = "start" => call[d].at = "start"
    BY <1>1 DEF SessionTypes, Starters, Callers
  <2> QED
    BY <2>1 DEF Load, WillInv, session, will
<1>5. call'[c] = r /\ r.at \in {"no", "judge"}
  BY <1>1 DEF SessionTypes
<1>6. ServeInv'
  <2>1. CASE c = "network"
    BY <1>5, <2>1 DEF Load, ServeInv, serving
  <2>2. CASE c # "network"
    <3>1. call'["network"] = call["network"]
      BY <1>1, <2>2 DEF SessionTypes, Callers
    <3> QED
      BY <3>1 DEF Load, ServeInv, serving
  <2> QED
    BY <2>1, <2>2
<1>11. PollInv'
  <2>1. CASE c = "hook"
    <3>1. call'["hook"] = r
      BY <1>5, <2>1
    <3>2. r.began = clock /\ r.ends = ends /\ (r.at = "no" => expires = 0)
      BY <1>1
    <3> QED
      BY <1>5, <3>1, <3>2 DEF Load, WillInv, PollInv, session
  <2>2. CASE c # "hook"
    <3>1. call'["hook"] = call["hook"]
      BY <1>1, <2>2 DEF SessionTypes, Callers
    <3> QED
      BY <3>1 DEF Load, PollInv, session
  <2> QED
    BY <2>1, <2>2
<1>7. CallInv(c)'
  <2>1. r.ends = ends /\ r.began = clock /\ ends <= clock + Session
        /\ r.expected = (~quiet /\ clock < asked + Session)
    BY <1>1 DEF SessionInv
  <2>2. ASSUME r.at = "judge"
        PROVE  /\ r.until # 0 /\ r.until = ends % Word /\ clock <= ends + Pause
               /\ clock < ends => r.expected
    <3>1. r.until # 0 /\ r.until = ends % Word /\ expires # 0 /\ ~quiet /\ polled <= ends
      BY <1>1, <2>2 DEF SessionInv, WillInv
    <3>2. clock <= ends + Pause /\ (clock < ends => clock < asked + Session)
      BY <1>9, <3>1, SMT DEF WillInv, SessionTypes, Pause, Session
    <3> QED
      BY <2>1, <3>1, <3>2
  <2> QED
    BY <1>5, <1>9, <2>1, <2>2 DEF Load, CallInv, session
<1>8. \A d \in Callers \ {c} : CallInv(d)'
  BY <1>1, OthersKeep DEF Load, session, will
<1> QED
  BY <1>3, <1>4, <1>6, <1>7, <1>8, <1>10, <1>11

LEMMA JudgeKeeps == ASSUME SessionIInv, NEW c \in Callers, Judge(c) PROVE SessionIInv'
<1> USE DEF SessionIInv
<1>1. PICK until \in Nat, end \in Nat, began \in Nat :
        /\ until = call[c].until /\ end = call[c].ends /\ began = call[c].began
        /\ until = end % Word /\ began <= clock /\ clock <= began + Pause
        /\ began <= end + Pause /\ end <= clock + Session
        /\ began < end => call[c].expected
  BY DEF Judge, SessionTypes, CallInv, Between
<1>2. Wrap(until - (clock % Word)) = end - clock
  <2>1. clock \in Nat /\ end - clock < 2147483648 /\ clock - end < 2147483648
    BY <1>1, SMT DEF SessionTypes, Session, Pause
  <2> QED
    BY <1>1, <2>1, WordDifference
<1>3. PICK at : /\ call' = [call EXCEPT ![c] = [call[c] EXCEPT !.at = at]]
                /\ at = IF end - clock > 0 THEN "yes" ELSE "clear"
  BY <1>1, <1>2 DEF Judge, SessionTypes
<1>4. /\ call'[c] = [call[c] EXCEPT !.at = at] /\ at \in {"yes", "clear"}
      /\ at = "yes" => clock < end /\ began < end
      /\ at = "clear" => end <= clock
  BY <1>1, <1>3, SMT DEF SessionTypes
<1>5. granted' = IF c = "network" /\ at = "yes" THEN [at |-> clock, ends |-> end] ELSE granted
  BY <1>1, <1>4 DEF Judge, SessionTypes
<1>6. granted' \in [at : Nat, ends : Nat]
  BY <1>1, <1>5 DEF SessionTypes
<1>7. SessionTypes'
  BY <1>3, <1>4, <1>6 DEF Judge, SessionTypes, session, will
<1>8. SessionInv'
  BY DEF Judge, SessionInv, SessionKept, session
<1>12. WillInv'
  <2>1. \A d \in Starters : call'[d].at = "start" => call[d].at = "start"
    BY <1>3, <1>4 DEF SessionTypes, Starters, Callers
  <2> QED
    BY <2>1 DEF Judge, WillInv, session, will
<1>13. PollInv'
  <2>1. CASE c = "hook"
    <3>1. /\ call'["hook"].at = at /\ call'["hook"].ends = end /\ call'["hook"].began = began
          /\ call["hook"].at = "judge"
      BY <1>1, <1>4, <2>1 DEF Judge, SessionTypes
    <3>2. at = "yes" /\ ends = end => began <= ends
      BY <1>1, <1>4, SMT
    <3> QED
      BY <1>1, <1>4, <2>1, <3>1, <3>2 DEF Judge, PollInv, session
  <2>2. CASE c # "hook"
    <3>1. call'["hook"] = call["hook"]
      BY <1>3, <2>2 DEF SessionTypes, Callers
    <3> QED
      BY <3>1 DEF Judge, PollInv, session
  <2> QED
    BY <2>1, <2>2
<1>9. ServeInv'
  <2>1. CASE c = "network"
    <3>1. call'["network"].at = at /\ call["network"].at = "judge"
      BY <1>4, <2>1 DEF Judge, SessionTypes
    <3>2. serve \notin {"closed", "reading", "report"}
      BY <3>1 DEF ServeInv
    <3>3. at = "yes" => requested <= granted'.at /\ granted'.at < granted'.ends
      BY <1>4, <1>5, <2>1 DEF ServeInv
    <3> QED
      BY <1>4, <3>1, <3>2, <3>3 DEF Judge, ServeInv
  <2>2. CASE c # "network"
    <3>1. call'["network"] = call["network"] /\ granted' = granted
      BY <1>3, <1>5, <2>2 DEF SessionTypes, Callers
    <3> QED
      BY <3>1 DEF Judge, ServeInv
  <2> QED
    BY <2>1, <2>2
<1>10. CallInv(c)'
  <2>1. /\ call'[c].at = at /\ call'[c].until = call[c].until
        /\ call'[c].ends = end /\ call'[c].began = began
        /\ call'[c].expected = call[c].expected
    BY <1>1, <1>4 DEF SessionTypes
  <2>2. clock' = clock /\ ends' = ends
    BY DEF Judge, session
  <2>3. call[c].at = "judge"
    BY DEF Judge
  <2> QED
    BY <1>1, <1>4, <2>1, <2>2, <2>3 DEF CallInv, Between
<1>11. \A d \in Callers \ {c} : CallInv(d)'
  BY <1>3, OthersKeep DEF Judge, session, will
<1> QED
  BY <1>7, <1>8, <1>9, <1>10, <1>11, <1>12, <1>13

LEMMA ClearKeeps == ASSUME SessionIInv, NEW c \in Callers, Clear(c) PROVE SessionIInv'
<1> USE DEF SessionIInv
<1>1. PICK end \in Nat, began \in Nat :
        /\ end = call[c].ends /\ began = call[c].began
        /\ call[c].until = end % Word /\ call[c].until # 0
        /\ clock <= began + Pause /\ began <= end + Pause /\ end <= clock
        /\ end <= ends + Pause /\ began <= clock
  BY DEF Clear, SessionTypes, CallInv, Between
<1>2. call' = [call EXCEPT ![c] = [call[c] EXCEPT !.at = "no"]]
  BY DEF Clear, SessionTypes
<1>3. call'[c].at = "no"
  BY <1>2 DEF SessionTypes
<1>4. expires' \in {expires, 0} /\ expires' \in Nat
  BY SMT DEF Clear, SessionTypes
<1>5. SessionTypes'
  BY <1>2, <1>4 DEF Clear, SessionTypes, will, serving
<1>6. SessionInv'
  <2>1. CASE expires' = expires
    BY <2>1 DEF Clear, SessionInv, SessionKept
  <2>2. CASE expires' # expires
    <3>1. expires' = 0 /\ expires = end % Word /\ expires # 0
      BY <1>1, <2>2, Zenon DEF Clear
    <3>2. ends % Word = end % Word
      BY <3>1 DEF SessionInv
    <3>3. ends - end < Word /\ end - ends < Word /\ ends \in Nat
      BY <1>1, SMT DEF SessionInv, SessionTypes, Session, Pause, Word
    <3>4. ends = end
      BY <3>2, <3>3, SameWord
    <3>5. ~(clock < ends)
      BY <1>1, <3>4, SMT DEF SessionTypes
    <3> QED
      BY <3>1, <3>5 DEF Clear, SessionInv, SessionKept
  <2> QED
    BY <2>1, <2>2
<1>7. ServeInv'
  <2>1. CASE c = "network"
    <3>1. serve \notin {"closed", "reading", "report"}
      BY <2>1 DEF Clear, ServeInv
    <3> QED
      BY <1>3, <2>1, <3>1 DEF Clear, ServeInv, serving
  <2>2. CASE c # "network"
    <3>1. call'["network"] = call["network"]
      BY <1>2, <2>2 DEF SessionTypes, Callers
    <3> QED
      BY <3>1 DEF Clear, ServeInv, serving
  <2> QED
    BY <2>1, <2>2
<1>8. CallInv(c)'
  <2>1. call'[c].began = call[c].began
    BY <1>2 DEF SessionTypes
  <2> QED
    BY <1>1, <1>3, <2>1 DEF Clear, CallInv, Between
<1>9. \A d \in Callers \ {c} : CallInv(d)'
  BY <1>2, OthersKeep DEF Clear, will
<1>10. WillInv'
  <2>1. \A d \in Starters : call'[d].at = "start" => call[d].at = "start"
    BY <1>2, <1>3 DEF SessionTypes, Starters, Callers
  <2>2. expires = 0 => expires' = 0
    BY <1>4
  <2> QED
    BY <2>1, <2>2 DEF Clear, WillInv, will
<1>11. PollInv'
  <2>1. expires' # 0 => expires' = expires
    BY <1>4
  <2>2. CASE c = "hook"
    <3>1. call'["hook"].at = "no" /\ call'["hook"].began = call["hook"].began
      BY <1>2, <2>2 DEF SessionTypes
    <3>2. ASSUME expires' # 0
          PROVE  ends # call["hook"].ends
      <4>1. expires = ends % Word /\ expires # call["hook"].until
        BY <2>1, <2>2, <3>2 DEF Clear, SessionInv
      <4> QED
        BY <1>1, <2>2, <4>1
    <3> QED
      BY <2>1, <2>2, <3>1, <3>2 DEF Clear, PollInv
  <2>3. CASE c # "hook"
    <3>1. call'["hook"] = call["hook"]
      BY <1>2, <2>3 DEF SessionTypes, Callers
    <3> QED
      BY <2>1, <3>1 DEF Clear, PollInv
  <2> QED
    BY <2>2, <2>3
<1> QED
  BY <1>5, <1>6, <1>7, <1>8, <1>9, <1>10, <1>11

\* An answer is taken; the other variables of the calls and of the session stay.
LEMMA AnswerKeeps ==
  ASSUME SessionIInv, NEW c \in Callers, Answered(c), UNCHANGED <<clock, session, will>>
  PROVE  /\ call' \in [Callers -> Calls]
         /\ call'[c].at = "rest"
         /\ \A d \in Callers \ {c} : call'[d] = call[d]
         /\ \A d \in Callers : CallInv(d)'
         /\ polled' = polled => SessionInv' /\ WillInv' /\ PollInv'
<1>1. call' = [call EXCEPT ![c] = [call[c] EXCEPT !.at = "rest"]]
  BY DEF Answered, SessionIInv, SessionTypes
<1>2. call' \in [Callers -> Calls] /\ call'[c].at = "rest"
  BY <1>1 DEF SessionIInv, SessionTypes, Calls
<1>3. \A d \in Callers \ {c} : CallInv(d)' /\ call'[d] = call[d]
  BY <1>1, OthersKeep DEF session, will
<1>4. CallInv(c)'
  BY <1>2 DEF CallInv, Between
<1>5. ASSUME polled' = polled
      PROVE  SessionInv' /\ WillInv' /\ PollInv'
  <2>1. SessionInv'
    BY <1>5 DEF SessionIInv, SessionInv, SessionKept, session
  <2>2. \A d \in Callers : call'[d].at = "rest" \/ call'[d] = call[d]
    BY <1>2, <1>3
  <2>3. WillInv'
    BY <1>5, <2>2 DEF SessionIInv, WillInv, session, will, Starters, Callers
  <2>4. PollInv'
    BY <1>5, <2>2 DEF SessionIInv, PollInv, session, Callers
  <2> QED
    BY <2>1, <2>3, <2>4
<1> QED
  BY <1>2, <1>3, <1>4, <1>5

LEMMA UseKeeps ==
  ASSUME SessionIInv,
         \/ Sample \/ Shown \/ Accept \/ Request \/ Report
         \/ Checked("first", "reading") \/ Checked("second", "report")
  PROVE  SessionIInv'
<1> USE DEF SessionIInv
<1>1. CASE Sample
  <2>1. published' \in Nat
    BY <1>1 DEF Sample, SessionTypes, Callers
  <2>2. /\ "hook" \in Callers /\ "network" \in Callers \ {"hook"}
    BY DEF Callers
  <2>3. /\ call["hook"].at \in {"yes", "no"} /\ call["hook"].began \in Nat
        /\ polled' = call["hook"].began /\ Answered("hook") /\ UNCHANGED <<clock, session, will>>
    BY <1>1, <2>2 DEF Sample, Answered, SessionTypes
  <2>4. /\ call' \in [Callers -> Calls] /\ call'["hook"].at = "rest"
        /\ \A d \in Callers \ {"hook"} : call'[d] = call[d]
        /\ \A d \in Callers : CallInv(d)'
    BY <2>2, <2>3, AnswerKeeps
  <2>5. SessionTypes' /\ ServeInv'
    BY <1>1, <2>1, <2>2, <2>3, <2>4 DEF Sample, SessionTypes, Calls, ServeInv, session, will, serving
  <2>6. SessionInv'
    BY <2>3 DEF SessionInv, SessionKept, PollInv, session
  <2>7. polled' <= clock /\ clock <= polled' + Pause
    <3>1. polled \in Nat /\ clock \in Nat /\ polled <= polled' /\ polled' <= clock
      BY <2>2, <2>3 DEF SessionTypes, PollInv, CallInv
    <3> QED
      BY <2>3, <3>1, SMT DEF WillInv, Pause
  <2>8. WillInv'
    BY <2>3, <2>4, <2>7 DEF WillInv, session, will, Starters, Callers
  <2>9. PollInv'
    BY <2>4 DEF PollInv
  <2> QED
    BY <2>4, <2>5, <2>6, <2>8, <2>9
<1>2. CASE Shown
  <2>1. /\ "panel" \in Callers /\ "network" \in Callers \ {"panel"}
    BY DEF Callers
  <2> QED
    BY <1>2, <2>1, AnswerKeeps DEF Shown, SessionTypes, Calls, ServeInv, session, will, serving
<1>3. CASE Accept
  BY <1>3 DEF Accept, SessionTypes, SessionInv, SessionKept, WillInv, PollInv, CallInv, ServeInv,
     session, will
<1>4. CASE Request
  <2>1. requested' \in Nat /\ requested' <= clock /\ clock \in Nat
    BY <1>4, SMT DEF Request, SessionTypes, ServeInv
  <2>2. call["network"].at = "rest" /\ serve' \in {"closed", "second"}
        /\ reply' \in {"none", "400", "403", "404", "405", "200"}
    BY <1>4 DEF Request, ServeInv, SessionTypes
  <2> QED
    BY <1>4, <2>1, <2>2 DEF Request, SessionTypes, SessionInv, SessionKept, WillInv, PollInv,
       CallInv, ServeInv, session, will
<1>5. CASE Report
  BY <1>5 DEF Report, SessionTypes, SessionInv, SessionKept, WillInv, PollInv, CallInv, ServeInv,
     session, will
<1>6. ASSUME NEW stage, NEW next, Checked(stage, next),
             <<stage, next>> \in {<<"first", "reading">>, <<"second", "report">>}
      PROVE  SessionIInv'
  <2>1. "network" \in Callers /\ Answered("network")
        /\ UNCHANGED <<clock, session, will, polled>>
    BY <1>6 DEF Checked, Callers
  <2>2. /\ call' \in [Callers -> Calls]
        /\ call'["network"].at = "rest"
        /\ \A d \in Callers : CallInv(d)'
        /\ SessionInv' /\ WillInv' /\ PollInv'
    BY <2>1, AnswerKeeps
  <2>3. serve' \in {"closed", next} /\ reply' \in {"403", reply}
        /\ requested' = requested /\ granted' = granted /\ published' = published
    BY <1>6 DEF Checked
  <2>4. SessionTypes'
    BY <1>6, <2>1, <2>2, <2>3 DEF SessionTypes, Calls, session, will
  <2>5. serve' = "report" => requested <= granted.at /\ granted.at < granted.ends
    BY <1>6 DEF Checked, ServeInv
  <2>6. serve' # "second"
    BY <1>6, <2>3
  <2>7. ServeInv'
    BY <2>1, <2>2, <2>3, <2>5, <2>6 DEF ServeInv
  <2> QED
    BY <2>2, <2>4, <2>7
<1> QED
  BY <1>1, <1>2, <1>3, <1>4, <1>5, <1>6

LEMMA SessionNextInv == SessionIInv /\ [SessionNext]_sessionVars => SessionIInv'
<1>1. ASSUME SessionIInv, SessionNext
      PROVE  SessionIInv'
  BY <1>1, TickKeeps, StartKeeps, StoreKeeps, StopKeeps, LoadKeeps, JudgeKeeps, ClearKeeps,
     UseKeeps, Zenon DEF SessionNext
<1>2. ASSUME SessionIInv, UNCHANGED sessionVars
      PROVE  SessionIInv'
  BY <1>2 DEF SessionIInv, SessionTypes, SessionInv, SessionKept, WillInv, PollInv, CallInv,
     ServeInv, sessionVars, session, will
<1> QED
  BY <1>1, <1>2

LEMMA SessionInvariant == SessionSpec => []SessionIInv
  BY SessionInitInv, SessionNextInv, PTL DEF SessionSpec

-----------------------------------------------------------------------------
(* The theorems.                                                           *)

\* No check ends a session that another task has just opened or extended
\* (diagnostics.c:17-26).
THEOREM SessionsLast == SessionSpec => []SessionKept
<1>1. SessionIInv => SessionKept
  BY DEF SessionIInv, SessionInv
<1> QED
  BY <1>1, SessionInvariant, PTL

\* No check begun after a stop that no start overlapped or followed, or half an hour after the
\* last start was called, answers yes, over any wrap of the 32-bit clock: the checks of the
\* grblHAL task clear an ended word before the clock can come round to it, and neither a
\* check nor a start held up on the way brings it back (diagnostics.c:17-26).
THEOREM GrantsAreExpected == SessionSpec => []YesExpected
<1>1. SessionIInv => YesExpected
  BY DEF SessionIInv, CallInv, YesExpected
<1> QED
  BY <1>1, SessionInvariant, PTL

\* A report leaves the machine only on a session seen open after its request was read
\* (diagnostics.c:69-135).
THEOREM ReportsAreGranted == SessionSpec => []SharedWhileOpen
<1>1. SessionIInv => SharedWhileOpen
  BY DEF SessionIInv, ServeInv, SharedWhileOpen
<1> QED
  BY <1>1, SessionInvariant, PTL
=============================================================================
