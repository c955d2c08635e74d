---------------------------- MODULE StreamProofs ----------------------------
(***************************************************************************)
(* What the character stream keeps for any number of lines, any length of  *)
(* a line, any size of the ring and of the queue.                          *)
(*                                                                         *)
(* The parser may hold characters that no longer belong together: a flush  *)
(* leaves them there and relies on the CAN it puts into the ring, or on    *)
(* the reset it asks for.  What the invariant says of the line is said of  *)
(* a line that neither of them waits to clear.                             *)
(***************************************************************************)
EXTENDS Stream, SequenceTheorems, TLAPS

CanWaits == ring # <<>> /\ ring[1] = CAN
Settled == ~reset /\ ~CanWaits
Complete == parser \in {"line", "run"}

\* Who may be read, and for whom a status is waited for.
TurnInv ==
    /\ CanWaits => ~active /\ ~ackError /\ ~lineActive /\ reporting = 0 /\ parser # "bridge"
    /\ lineActive => ~active /\ ~ackError /\ parser = "read"
    /\ ackError => ~active /\ ~Complete
    /\ active => ~Complete /\ current.offset \in 1 .. LineLen - 1 /\ reporting = current.id
    /\ ~active /\ ~Complete => reporting = 0
    /\ parser = "bridge" => active \/ ackError \/ ring = <<>>
    /\ Complete => \/ reporting = 0
                   \/ reporting = current.id /\ FromBridge
                   \/ reporting = Max32 /\ ~FromBridge
    /\ Complete /\ FromBridge =>
          /\ line[Len(line)].n = current.id
          /\ Settled => reporting = current.id

\* Ids are given once, and a request of an ended epoch is known as discarded.
Numbers == {commands[i].id : i \in DOMAIN commands}
RequestInv ==
    /\ \A i, j \in DOMAIN commands : commands[i].id = commands[j].id => i = j
    /\ \A i \in DOMAIN commands :
         /\ commands[i].id \in 1 .. nextId /\ commands[i].offset = 0
         /\ commands[i].epoch <= epoch
         /\ commands[i].epoch = epoch => commands[i].id \notin discarded
    /\ sending.id \notin Numbers /\ sending.id <= nextId /\ sending.epoch <= epoch
    /\ sending = NoRequest \/ (sending.id # 0 /\ sending.id # current.id /\ sending.offset = 0)
    /\ sending.epoch = epoch => sending.id \notin discarded
    /\ current.id \notin Numbers /\ current.id <= nextId /\ current.epoch <= epoch
    /\ active \/ (Complete /\ FromBridge) => current.id # 0
    /\ discarded \subseteq 1 .. nextId
    /\ generation <= epoch

\* What the parser gets to its end is not discarded: the epoch is compared
\* before every character but the first, and that is never the last.
DeliveryInv ==
    /\ active /\ current.epoch = epoch => current.id \notin discarded
    /\ LastTaken /\ active => current.id \notin discarded
    /\ Complete /\ FromBridge => current.id \notin discarded

\* The USB characters that the parser has yet to read follow one another up to
\* the one the host sends next, and belong to a line that is not rejected.
Host(ch) == IF ch.at = LineLen THEN Char("usb", ch.n + 1, 1) ELSE Char("usb", ch.n, ch.at + 1)
Heard(ch) == ch.from = "usb" /\ ch.at \in 1 .. LineLen /\ ch.n \in 1 .. usb.n
Accepted(n) == n \notin rejected \/ n \in headless
FirstUsb == IF CanWaits THEN 2 ELSE 1
Upcoming == IF FirstUsb \in DOMAIN ring THEN ring[FirstUsb] ELSE UsbChar
Dropping == DropsForOwner \/ dropping
RingInv ==
    /\ \A i \in DOMAIN ring :
         \/ i = 1 /\ ring[i] = CAN
         \/ /\ Heard(ring[i]) /\ Accepted(ring[i].n)
            /\ Host(ring[i]) = IF i = Len(ring) THEN UsbChar ELSE ring[i + 1]
    /\ Dropping => ~lineActive /\ ring \in {<<>>, <<CAN>>}
    /\ lineActive => /\ line # <<>> /\ line[Len(line)].at < LineLen
                     /\ Heard(line[Len(line)]) /\ Accepted(line[Len(line)].n)
                     /\ Host(line[Len(line)]) = Upcoming
    /\ ~lineActive => \/ Upcoming.at = 1 \/ Upcoming.n \in headless
                      \/ cycleDropping \/ dropping
    /\ usb.n \in Nat \ {0}
    /\ rejected \subseteq 1 .. usb.n /\ (usb.at = 1 => usb.n \notin rejected)

\* The line is what one source has sent since the last line.
From(source, n, first) ==
    \A i \in DOMAIN line : line[i] = Char(source, n, first + i - 1)
UiPart == From("ui", current.id, 1)
UsbPart ==
    \E n \in Nat, first \in 1 .. LineLen :
        /\ From("usb", n, first) /\ n <= usb.n /\ Accepted(n)
        /\ first = 1 \/ n \in headless
CompleteLine ==
    \/ line = <<Newline>>
    \/ FromBridge /\ Len(line) = LineLen /\ UiPart
    \/ /\ ~FromBridge /\ UsbPart /\ line[Len(line)].at = LineLen
       /\ line[Len(line)].n < usb.n
LineInv ==
    /\ Settled /\ ~Complete =>
         /\ active => Len(line) = current.offset /\ UiPart
         /\ lineActive => UsbPart
         /\ ~active /\ ~lineActive => line = <<>>
    /\ parser = "run" \/ (parser = "line" /\ ~reset) => CompleteLine

\* The error of a refused line is acknowledged, or cleared with the line.
RefusedInv ==
    /\ refused /\ ~Complete => ackError \/ CanWaits \/ reset
    /\ refused /\ (parser = "run" \/ (parser = "line" /\ ~reset)) => line = <<Newline>>

IInv == TypeOK /\ TurnInv /\ RequestInv /\ DeliveryInv /\ RingInv /\ LineInv /\ RefusedInv

-----------------------------------------------------------------------------
(* Types.                                                                  *)

USE DEF Char

LEMMA CharTypes ==
  ASSUME TypeOK
  PROVE  /\ CAN \in Chars /\ Newline \in Chars /\ CAN # Newline /\ UsbChar \in Chars
         /\ CAN # UsbChar /\ ~EndsLine(CAN) /\ EndsLine(Newline)
         /\ \A n \in Nat, at \in 1 .. LineLen :
              Char("ui", n, at) \in Chars /\ Char("ui", n, at) # CAN
<1>1. LineLen \in Nat /\ LineLen # 0 /\ usb.n \in Nat /\ usb.at \in 1 .. LineLen
  BY StreamAssumption DEF TypeOK
<1> QED
  BY <1>1 DEF CAN, Newline, UsbChar, EndsLine, Chars

LEMMA AfterType ==
  ASSUME NEW next \in [n : Nat, at : 1 .. LineLen]
  PROVE  /\ After(next) \in [n : Nat, at : 1 .. LineLen]
         /\ After(next).n = IF next.at = LineLen THEN next.n + 1 ELSE next.n
         /\ After(next).at = IF next.at = LineLen THEN 1 ELSE next.at + 1
<1>1. LineLen \in Nat /\ LineLen > 1
  BY StreamAssumption
<1>2. CASE next.at = LineLen
  BY <1>1, <1>2 DEF After
<1>3. CASE next.at # LineLen
  <2>1. After(next) = [next EXCEPT !.at = next.at + 1]
    BY <1>3 DEF After
  <2>2. next.at + 1 \in 1 .. LineLen
    BY <1>1, <1>3
  <2> QED
    BY <1>3, <2>1, <2>2
<1> QED
  BY <1>2, <1>3

LEMMA Requests ==
  ASSUME TypeOK
  PROVE  /\ Len(commands) \in Nat /\ DOMAIN commands = 1 .. Len(commands)
         /\ \A i \in DOMAIN commands : commands[i] \in Request
         /\ NoRequest \in Request
<1>1. commands \in Seq(Request)
  BY DEF TypeOK
<1>2. NoRequest \in Request
  BY StreamAssumption DEF NoRequest, Request
<1> QED
  BY <1>1, <1>2

\* The end of an epoch discards what has not been delivered.
LEMMA EpochEnds ==
  ASSUME TypeOK, NextEpoch
  PROVE  /\ epoch' \in 0 .. MaxEpoch /\ epoch' = epoch + 1
         /\ discarded' \subseteq 0 .. Ids
         /\ \A n \in discarded' :
              \/ n \in discarded
              \/ n # 0 /\ n \in Numbers
              \/ n # 0 /\ n = sending.id
              \/ n # 0 /\ n = current.id /\ active /\ ~LastTaken
<1>1. epoch' = epoch + 1 /\ epoch' \in 0 .. MaxEpoch
  BY StreamAssumption DEF NextEpoch, TypeOK
<1>2. \A r \in Undelivered : r \in Request
  <2>1. \A r \in InDelivery : r \in Request
    BY DEF InDelivery, TypeOK
  <2> QED
    BY <2>1, Requests DEF Undelivered, ToSet, TypeOK
<1>3. ASSUME NEW n \in discarded'
      PROVE  \/ n \in discarded
             \/ n # 0 /\ \E r \in Undelivered : n = r.id
  BY <1>3 DEF NextEpoch
<1>4. discarded' \subseteq 0 .. Ids
  <2> SUFFICES ASSUME NEW n \in discarded' PROVE n \in 0 .. Ids
    OBVIOUS
  <2>1. \A r \in Request : r.id \in 0 .. Ids
    BY DEF Request
  <2> QED
    BY <1>2, <1>3, <2>1 DEF TypeOK
<1>5. ASSUME NEW r \in Undelivered
      PROVE  \/ r.id \in Numbers \/ r.id = sending.id \/ r.id = 0
             \/ r.id = current.id /\ active /\ ~LastTaken
  <2>1. CASE r \in ToSet(commands)
    BY <2>1 DEF ToSet, Numbers
  <2>2. CASE r \in {sending, NoRequest}
    BY <2>2 DEF NoRequest
  <2>3. CASE r \in InDelivery
    BY <2>3 DEF InDelivery
  <2> QED
    BY <2>1, <2>2, <2>3 DEF Undelivered
<1> QED
  BY <1>1, <1>3, <1>4, <1>5

\* A request joins the queue, or is lost.
LEMMA QueuedType ==
  ASSUME TypeOK, NEW r \in Request
  PROVE  /\ Queued(r) \in Seq(Request)
         /\ Queued(r) = commands \/
              /\ Len(Queued(r)) = Len(commands) + 1
              /\ \A i \in DOMAIN commands : Queued(r)[i] = commands[i]
              /\ Queued(r)[Len(commands) + 1] = r
<1>1. commands \in Seq(Request)
  BY DEF TypeOK
<1> QED
  BY <1>1, AppendProperties DEF Queued

LEMMA NumberedType ==
  ASSUME TypeOK, nextId < Ids
  PROVE  Numbered \in Request /\ nextId + 1 \in 1 .. Ids
<1>1. nextId \in 0 .. Ids /\ Ids \in Nat /\ LineLen \in Nat /\ epoch \in 0 .. MaxEpoch
  BY StreamAssumption DEF TypeOK
<1> QED
  BY <1>1 DEF Numbered, Request

\* A character reaches the parser.
LEMMA Delivered ==
  ASSUME TypeOK, NEW ch \in Chars, Deliver(ch), line \in Seq(Chars)
  PROVE  /\ line' \in Seq(Chars) /\ parser' \in {"read", "line"} /\ refused' \in BOOLEAN
         /\ ch = CAN => line' = <<>> /\ parser' = "read" /\ ~refused'
         /\ ch # CAN =>
              /\ Len(line') = Len(line) + 1 /\ line' # <<>> /\ line'[Len(line')] = ch
              /\ \A i \in 1 .. Len(line) : line'[i] = line[i]
              /\ parser' = "line" <=> EndsLine(ch)
              /\ refused' = refused
<1>1. CASE ch = CAN
  BY <1>1, EmptySeq DEF Deliver
<1>2. CASE ch # CAN
  <2>1. /\ line' = Append(line, ch) /\ refused' = refused
        /\ parser' = IF EndsLine(ch) THEN "line" ELSE "read"
    BY <1>2 DEF Deliver
  <2>2. /\ line' \in Seq(Chars) /\ Len(line') = Len(line) + 1 /\ line' # <<>>
        /\ line'[Len(line')] = ch /\ \A i \in 1 .. Len(line) : line'[i] = line[i]
    BY <2>1, AppendProperties
  <2> QED
    BY <1>2, <2>1, <2>2 DEF TypeOK
<1> QED
  BY <1>1, <1>2

LEMMA TypeInit == Init => TypeOK
<1> SUFFICES ASSUME Init PROVE TypeOK
  OBVIOUS
<1> USE StreamAssumption DEF Init
<1>1. /\ nextId \in 0 .. Ids /\ epoch \in 0 .. MaxEpoch /\ generation \in 0 .. MaxEpoch
      /\ reporting \in 0 .. Max32 /\ completed \in 0 .. Ids /\ discarded \subseteq 0 .. Ids
  BY DEF Max32
<1>2. sending \in Request /\ current \in Request
  BY DEF NoRequest, Request
<1>3. ring \in Seq(Chars) /\ Len(ring) < RingSize /\ commands \in Seq(Request) /\ line \in Seq(Chars)
  BY EmptySeq
<1>4. usb \in [n : Nat, at : 1 .. LineLen]
  OBVIOUS
<1> QED
  BY <1>1, <1>2, <1>3, <1>4 DEF TypeOK

\* A flush of the bridge.
LEMMA FlushBridgeType ==
  ASSUME TypeOK, FlushBridge
  PROVE  /\ NextEpoch /\ epoch' \in 0 .. MaxEpoch /\ discarded' \subseteq 0 .. Ids
         /\ busy' \in BOOLEAN /\ owns' \in BOOLEAN /\ (owns' => owns)
         /\ active' = FALSE /\ ackError' = FALSE /\ reporting' = 0 /\ 0 \in 0 .. Max32
         /\ UNCHANGED <<commands, nextId, sending, current, completed, generation>>
<1>1. NextEpoch
  BY DEF FlushBridge
<1>2. 0 \in 0 .. Max32
  BY StreamAssumption DEF Max32
<1> QED
  BY <1>1, <1>2, EpochEnds DEF FlushBridge, TypeOK

LEMMA SerialType ==
  ASSUME TypeOK, SerialPoll
  PROVE  TypeOK'
<1>1. usb' \in [n : Nat, at : 1 .. LineLen] /\ rejected' \subseteq Nat
  <2>1. usb' \in [n : Nat, at : 1 .. LineLen]
    BY AfterType DEF SerialPoll, TypeOK
  <2>2. rejected' = rejected \/ rejected' = rejected \cup {usb.n}
    BY DEF SerialPoll, Reject, DropRest, Store, Overflow, Rejected, serialVars
  <2> QED
    BY <2>1, <2>2 DEF TypeOK
<1>2. CASE Reject
  <2>1. cycleDropping' \in BOOLEAN /\ update' \in BOOLEAN
    BY <1>2, Zenon DEF Reject, TypeOK
  <2> QED
    BY <1>1, <1>2, <2>1 DEF SerialPoll, Reject, TypeOK, queueVars, bridgeVars, parserVars
<1>3. CASE DropRest
  <2>1. dropping' \in BOOLEAN
    BY <1>3, Zenon DEF DropRest
  <2> QED
    BY <1>1, <1>3, <2>1 DEF SerialPoll, DropRest, TypeOK, queueVars, bridgeVars, parserVars, otherVars
<1>4. CASE Store
  <2>1. ring \in Seq(Chars) /\ UsbChar \in Chars /\ RingSize \in Nat
    BY CharTypes, StreamAssumption DEF TypeOK
  <2>2. ring' \in Seq(Chars) /\ Len(ring') < RingSize
    BY <1>4, <2>1, AppendProperties DEF Store, Room
  <2> QED
    BY <1>1, <1>4, <2>2 DEF SerialPoll, Store, TypeOK, queueVars, bridgeVars, parserVars, otherVars
<1>5. CASE Overflow
  <2>1. FlushBridge /\ ring' = <<>> /\ UNCHANGED <<headless, update, parserVars>> /\ reset' = TRUE
        /\ dropping' = TRUE /\ lineActive' = FALSE /\ cycleDropping' = FALSE
    BY <1>5 DEF Overflow, Flush, SerialPoll
  <2>2. ring' \in Seq(Chars) /\ Len(ring') < RingSize
    BY <2>1, StreamAssumption, EmptySeq
  <2> QED
    BY <1>1, <2>1, <2>2, FlushBridgeType DEF TypeOK, parserVars
<1> QED
  BY <1>2, <1>3, <1>4, <1>5 DEF SerialPoll

LEMMA FlushType ==
  ASSUME TypeOK, UartError \/ CancelBuffer \/ CoreReset
  PROVE  TypeOK'
<1>1. FlushBridge /\ ring' \in {<<>>, <<CAN>>}
      /\ dropping' = FALSE /\ lineActive' = FALSE /\ cycleDropping' = FALSE
      /\ UNCHANGED <<rejected, update>> /\ reset' \in BOOLEAN
  BY DEF UartError, CancelBuffer, CoreReset, Flush, TypeOK
<1>2. ring' \in Seq(Chars) /\ Len(ring') < RingSize
  <2>1. CAN \in Chars /\ RingSize \in Nat \ {0, 1}
    BY StreamAssumption, CharTypes
  <2>2. <<CAN>> \in Seq(Chars) /\ Len(<<CAN>>) = 1 /\ <<>> \in Seq(Chars) /\ Len(<<>>) = 0
    BY <2>1, EmptySeq
  <2>3. CASE ring' = <<>>
    BY <2>1, <2>2, <2>3
  <2>4. CASE ring' = <<CAN>>
    BY <2>1, <2>2, <2>4
  <2> QED
    BY <1>1, <2>3, <2>4
<1>3. usb' \in [n : Nat, at : 1 .. LineLen]
  <2>1. usb \in [n : Nat, at : 1 .. LineLen]
    BY DEF TypeOK
  <2>2. usb' \in {usb, After(usb), After(After(usb))}
    BY DEF UartError, CancelBuffer, CoreReset
  <2> QED
    BY <2>1, <2>2, AfterType
<1>4. headless' \subseteq Nat
  <2>1. \A next \in [n : Nat, at : 1 .. LineLen] : Arriving(next) \subseteq Nat
    BY DEF Arriving
  <2>2. Arriving(usb) \subseteq Nat /\ Arriving(usb') \subseteq Nat
    BY <1>3, <2>1 DEF TypeOK
  <2> QED
    BY <2>2 DEF UartError, CancelBuffer, CoreReset, TypeOK
<1>5. /\ line' \in Seq(Chars) /\ parser' \in {"read", "bridge", "line", "run"} /\ refused' \in BOOLEAN
      /\ parser' \in {"line", "run"} => line' # <<>>
  BY EmptySeq DEF UartError, CancelBuffer, CoreReset, TypeOK, parserVars
<1> QED
  BY <1>1, <1>2, <1>3, <1>4, <1>5, FlushBridgeType DEF TypeOK

LEMMA ReadType ==
  ASSUME TypeOK, TurnInv, RequestInv,
         ReadBridge \/ ReadStale \/ ReadAcknowledge \/ ReadOn \/ ReadNext \/ ReadNothing \/ ReadRing
  PROVE  TypeOK'
<1>0. LineLen \in Nat /\ LineLen > 1 /\ Ids \in Nat /\ Max32 \in 0 .. Max32 /\ 0 \in 0 .. Max32
  BY StreamAssumption DEF Max32
<1>1. CASE ReadBridge
  BY <1>1 DEF ReadBridge, TypeOK, queueVars, serialVars, otherVars
<1>2. CASE ReadStale
  BY <1>0, <1>2, CharTypes, Delivered DEF ReadStale, TypeOK, queueVars, serialVars, otherVars
<1>3. CASE ReadAcknowledge
  BY <1>0, <1>3, CharTypes, Delivered DEF ReadAcknowledge, TypeOK, queueVars, serialVars, otherVars
<1>4. ASSUME NEW r \in Request, r.offset < LineLen, ReadFrom(r)
      PROVE  /\ current' \in Request /\ active' \in BOOLEAN /\ reporting' \in 0 .. Max32
             /\ line' \in Seq(Chars) /\ parser' \in {"read", "line"} /\ refused' \in BOOLEAN
             /\ parser' = "line" => line' # <<>>
  <2>1. /\ current' = [r EXCEPT !.offset = r.offset + 1] /\ reporting' = r.id
        /\ active' \in BOOLEAN /\ Deliver(Char("ui", r.id, r.offset + 1))
    BY <1>4, Zenon DEF ReadFrom
  <2>2. r.id \in 0 .. Ids /\ r.offset + 1 \in 1 .. LineLen
    BY <1>0, <1>4 DEF Request
  <2>3. current' \in Request /\ r.id \in 0 .. Max32 /\ r.id \in Nat
    BY <1>0, <2>1, <2>2 DEF Request, Max32
  <2>4. Char("ui", r.id, r.offset + 1) \in Chars /\ Char("ui", r.id, r.offset + 1) # CAN
    BY <2>2, <2>3, CharTypes
  <2> QED
    BY <2>1, <2>3, <2>4, Delivered DEF TypeOK
<1>5. CASE ReadOn
  <2>1. current \in Request /\ current.offset < LineLen /\ ReadFrom(current)
    BY <1>0, <1>5 DEF ReadOn, TurnInv, TypeOK
  <2> QED
    BY <1>4, <1>5, <2>1 DEF ReadOn, TypeOK, queueVars, serialVars, otherVars
<1>6. CASE ReadNext
  <2>1. PICK i \in Live : /\ commands' = SubSeq(commands, i + 1, Len(commands))
                          /\ ReadFrom(commands[i])
    BY <1>6 DEF ReadNext
  <2>2. i \in 1 .. Len(commands) /\ Len(commands) \in Nat /\ commands[i] \in Request
    BY Requests DEF Live
  <2>3. commands' \in Seq(Request)
    <3>1. \A j \in i + 1 .. Len(commands) : commands[j] \in Request
      BY <2>2, Requests
    <3> QED
      BY <2>1, <2>2, <3>1, SubSeqProperties
  <2>4. commands[i].offset < LineLen
    BY <1>0, <2>2 DEF RequestInv
  <2>5. /\ current' \in Request /\ active' \in BOOLEAN /\ reporting' \in 0 .. Max32
        /\ line' \in Seq(Chars) /\ parser' \in {"read", "line"} /\ refused' \in BOOLEAN
        /\ parser' = "line" => line' # <<>>
    BY <1>4, <2>1, <2>2, <2>4
  <2>6. UNCHANGED <<ackError, completed, generation, nextId, epoch, sending, discarded,
                    serialVars, otherVars>>
    BY <1>6 DEF ReadNext
  <2> QED
    BY <2>3, <2>5, <2>6 DEF TypeOK, serialVars, otherVars
<1>7. CASE ReadNothing
  BY <1>7, EmptySeq DEF ReadNothing, TypeOK, bridgeVars, serialVars, otherVars
<1>8. CASE ReadRing
  <2>1. /\ Head(ring) \in Chars /\ Tail(ring) \in Seq(Chars) /\ Len(Tail(ring)) < RingSize
        /\ lineActive' \in BOOLEAN
    <3>1. ring \in Seq(Chars) /\ ring # <<>> /\ RingSize \in Nat /\ Len(ring) < RingSize
      BY <1>8, StreamAssumption DEF ReadRing, TypeOK
    <3>2. lineActive' \in BOOLEAN
      BY <1>8, Zenon DEF ReadRing
    <3> QED
      BY <3>1, <3>2, HeadTailProperties
  <2>2. Deliver(Head(ring)) /\ line \in Seq(Chars)
    BY <1>8 DEF ReadRing, TypeOK
  <2>3. /\ line' \in Seq(Chars) /\ parser' \in {"read", "line"} /\ refused' \in BOOLEAN
        /\ parser' = "line" => line' # <<>>
    BY <2>1, <2>2, Delivered
  <2> QED
    BY <1>8, <2>1, <2>3 DEF ReadRing, TypeOK, queueVars, bridgeVars, otherVars
<1> QED
  BY <1>1, <1>2, <1>3, <1>5, <1>6, <1>7, <1>8

LEMMA TypeStep ==
  ASSUME TypeOK, TurnInv, RequestInv, [Next]_vars
  PROVE  TypeOK'
<1>1. CASE UiSubmit
  BY <1>1, NumberedType DEF UiSubmit, TypeOK, bridgeVars, serialVars, parserVars, otherVars
<1>2. CASE UiSend
  <2>1. sending \in Request /\ commands' = Queued(sending) /\ sending' = NoRequest
    BY <1>2 DEF UiSend, TypeOK
  <2>2. commands' \in Seq(Request) /\ sending' \in Request
    BY <2>1, QueuedType, Requests
  <2>3. UNCHANGED <<nextId, epoch, discarded, bridgeVars, serialVars, parserVars, otherVars>>
    BY <1>2 DEF UiSend
  <2> QED
    BY <2>2, <2>3 DEF TypeOK, bridgeVars, serialVars, parserVars, otherVars
<1>3. CASE CycleSubmit
  <2>1. nextId < Ids /\ nextId' = nextId + 1 /\ commands' = Queued(Numbered)
    BY <1>3 DEF CycleSubmit
  <2>2. Numbered \in Request /\ nextId' \in 0 .. Ids
    BY <2>1, NumberedType, StreamAssumption
  <2>3. commands' \in Seq(Request)
    BY <2>1, <2>2, QueuedType
  <2>4. UNCHANGED <<epoch, sending, discarded, bridgeVars, serialVars, parserVars, otherVars>>
    BY <1>3 DEF CycleSubmit
  <2> QED
    BY <2>2, <2>3, <2>4 DEF TypeOK, bridgeVars, serialVars, parserVars, otherVars
<1>4. CASE UiCancel \/ CycleDiscard
  <2>1. /\ NextEpoch
        /\ UNCHANGED <<commands, nextId, sending, bridgeVars, serialVars, parserVars, otherVars>>
    BY <1>4 DEF UiCancel, CycleDiscard
  <2>2. epoch' \in 0 .. MaxEpoch /\ discarded' \subseteq 0 .. Ids
    BY <2>1, EpochEnds
  <2> QED
    BY <2>1, <2>2 DEF TypeOK, bridgeVars, serialVars, parserVars, otherVars
<1>5. CASE SerialPoll
  BY <1>5, SerialType
<1>6. CASE UartError \/ CancelBuffer \/ CoreReset
  BY <1>6, FlushType
<1>7. CASE ReadBridge \/ ReadStale \/ ReadAcknowledge \/ ReadOn \/ ReadNext \/ ReadNothing \/ ReadRing
  BY <1>7, ReadType
<1>8. CASE Begin
  BY <1>8 DEF Begin, TypeOK, queueVars, bridgeVars, serialVars, otherVars
<1>9. CASE Executed
  <2>1. PICK ok \in BOOLEAN : Report(ok) /\ refused' = (FromBridge /\ ~ok)
    BY <1>9 DEF Executed
  <2>2. refused' \in BOOLEAN
    BY <2>1, Zenon
  <2>3. /\ line' \in Seq(Chars) /\ parser' = "read" /\ UNCHANGED <<serialVars, otherVars>>
    BY <1>9, EmptySeq DEF Executed
  <2>4. /\ completed' \in 0 .. Ids /\ reporting' \in 0 .. Max32 /\ ackError' \in BOOLEAN
        /\ epoch' \in 0 .. MaxEpoch /\ discarded' \subseteq 0 .. Ids
    <3>1. reporting' = 0 /\ 0 \in 0 .. Max32 /\ Ids \in Nat
      BY <2>1, StreamAssumption DEF Report, Max32
    <3>2. completed' \in 0 .. Ids
      BY <2>1, <3>1 DEF Report, TypeOK
    <3>3. NextEpoch \/ UNCHANGED <<epoch, discarded>>
      BY <2>1 DEF Report
    <3>4. ackError' \in BOOLEAN
      BY <2>1 DEF Report, TypeOK
    <3> QED
      BY <3>1, <3>2, <3>3, <3>4, EpochEnds DEF TypeOK
  <2>5. UNCHANGED <<commands, nextId, sending, current, active, generation>>
    BY <2>1 DEF Report
  <2> QED
    BY <2>2, <2>3, <2>4, <2>5 DEF TypeOK, serialVars, otherVars
<1>10. CASE Operations
  <2>1. busy' \in BOOLEAN /\ owns' \in BOOLEAN /\ update' \in BOOLEAN /\ reset' \in BOOLEAN
    BY <1>10 DEF Operations, CycleRequest, CycleBegin, CycleEnd, UpdateBegin, UpdateEnd, AskReset, TypeOK
  <2> QED
    BY <1>10, <2>1 DEF Operations, TypeOK, queueVars, bridgeVars, serialVars, parserVars
<1>11. CASE UNCHANGED vars
  BY <1>11 DEF vars, TypeOK, queueVars, bridgeVars, serialVars, parserVars, otherVars
<1> QED
  BY <1>1, <1>2, <1>3, <1>4, <1>5, <1>6, <1>7, <1>8, <1>9, <1>10, <1>11 DEF Next

-----------------------------------------------------------------------------
(* Who may be read.                                                        *)

\* What a poll or a flush leaves alone, and what each of them does.
LEMMA FlushEffect ==
  ASSUME TypeOK, \/ UartError \/ CancelBuffer \/ CoreReset
                 \/ SerialPoll /\ Overflow
  PROVE  /\ FlushBridge /\ parser # "bridge"
         /\ lineActive' = FALSE /\ cycleDropping' = FALSE
         /\ ring' = <<>> \/ (ring' = <<CAN>> /\ CancelBuffer)
         /\ \/ UNCHANGED parserVars /\ (reset' = TRUE \/ (ring' = <<CAN>> /\ reset' = reset))
            \/ line' = <<>> /\ parser' = "read" /\ refused' = FALSE
  BY DEF UartError, CancelBuffer, CoreReset, SerialPoll, Overflow, Flush, InHook

LEMMA Cans ==
  ASSUME TypeOK
  PROVE  /\ ring' = <<>> => ~CanWaits'
         /\ ring' = <<CAN>> => CanWaits'
         /\ ring' = Append(ring, UsbChar) => (CanWaits' <=> CanWaits)
         /\ ring' = ring => (CanWaits' <=> CanWaits)
<1>1. ring \in Seq(Chars) /\ UsbChar \in Chars /\ UsbChar # CAN
  BY CharTypes DEF TypeOK
<1>2. CAN' = CAN
  BY DEF CAN
<1>3. ASSUME ring' = Append(ring, UsbChar)
      PROVE  CanWaits' <=> CanWaits
  <2>1. /\ ring' # <<>> /\ Len(ring') = Len(ring) + 1 /\ ring'[Len(ring) + 1] = UsbChar
        /\ \A i \in 1 .. Len(ring) : ring'[i] = ring[i]
    BY <1>1, <1>3, AppendProperties
  <2>2. CASE ring = <<>>
    <3>1. ring'[1] = UsbChar
      BY <2>1, <2>2
    <3> QED
      BY <1>1, <1>2, <2>2, <3>1 DEF CanWaits
  <2>3. CASE ring # <<>>
    <3>1. 1 \in 1 .. Len(ring)
      BY <1>1, <2>3, EmptySeq
    <3> QED
      BY <1>2, <2>1, <2>3, <3>1 DEF CanWaits
  <2> QED
    BY <2>2, <2>3
<1> QED
  BY <1>2, <1>3 DEF CanWaits

\* The first character that is not the CAN of a flush comes from USB.
LEMMA OneCan ==
  ASSUME TypeOK, RingInv, ring # <<>>
  PROVE  /\ Head(ring) = ring[1] /\ ring[1] \in Chars /\ Len(Tail(ring)) = Len(ring) - 1
         /\ Tail(ring) \in Seq(Chars) /\ Len(ring) \in Nat \ {0}
         /\ \A i \in 1 .. Len(ring) - 1 : Tail(ring)[i] = ring[i + 1] /\ Heard(ring[i + 1])
         /\ ring[1] # CAN => Heard(ring[1])
         /\ Tail(ring) # <<>> => Tail(ring)[1] # CAN
<1>1. ring \in Seq(Chars) /\ DOMAIN ring = 1 .. Len(ring) /\ Len(ring) \in Nat \ {0}
  BY EmptySeq DEF TypeOK
<1>2. /\ Head(ring) = ring[1] /\ ring[1] \in Chars /\ Tail(ring) \in Seq(Chars)
      /\ Len(Tail(ring)) = Len(ring) - 1
      /\ \A i \in 1 .. Len(ring) - 1 : Tail(ring)[i] = ring[i + 1]
  BY <1>1, HeadTailProperties
<1>3. \A i \in 1 .. Len(ring) - 1 : Heard(ring[i + 1])
  BY <1>1 DEF RingInv
<1>4. ring[1] # CAN => Heard(ring[1])
  BY <1>1 DEF RingInv
<1>5. Tail(ring) # <<>> => Tail(ring)[1] # CAN
  <2> SUFFICES ASSUME Tail(ring) # <<>> PROVE Tail(ring)[1] # CAN
    OBVIOUS
  <2>1. 1 \in 1 .. Len(ring) - 1
    BY <1>1, <1>2, EmptySeq
  <2> QED
    BY <1>2, <1>3, <2>1 DEF Heard, CAN
<1> QED
  BY <1>1, <1>2, <1>3, <1>4, <1>5

LEMMA ReadFromEffect ==
  ASSUME TypeOK, NEW r \in Request, r.offset \in 0 .. LineLen - 1, ReadFrom(r)
  PROVE  /\ current' \in Request /\ current'.id = r.id /\ current'.epoch = r.epoch
         /\ current'.offset = r.offset + 1 /\ reporting' = r.id
         /\ refused' = refused
         /\ Len(line') = Len(line) + 1 /\ line'[Len(line')] = Char("ui", r.id, r.offset + 1)
         /\ \A i \in 1 .. Len(line) : line'[i] = line[i]
         /\ \/ /\ r.offset + 1 = LineLen /\ active' = FALSE /\ parser' = "line"
            \/ /\ r.offset + 1 < LineLen /\ active' = TRUE /\ parser' = "read"
<1>1. LineLen \in Nat /\ LineLen > 1 /\ r.id \in Nat /\ r.offset \in Nat /\ r.offset + 1 \in 1 .. LineLen
  BY StreamAssumption DEF Request
<1>2. /\ current' = [r EXCEPT !.offset = r.offset + 1] /\ reporting' = r.id
      /\ active' = ~EndsLine(Char("ui", r.id, r.offset + 1))
      /\ Deliver(Char("ui", r.id, r.offset + 1))
  BY DEF ReadFrom
<1>3. Char("ui", r.id, r.offset + 1) \in Chars /\ Char("ui", r.id, r.offset + 1) # CAN
  BY <1>1, CharTypes
<1>4. /\ refused' = refused
      /\ Len(line') = Len(line) + 1 /\ line'[Len(line')] = Char("ui", r.id, r.offset + 1)
      /\ \A i \in 1 .. Len(line) : line'[i] = line[i]
      /\ parser' \in {"read", "line"}
      /\ parser' = "line" <=> EndsLine(Char("ui", r.id, r.offset + 1))
  BY <1>2, <1>3, Delivered DEF TypeOK
<1>5. EndsLine(Char("ui", r.id, r.offset + 1)) <=> r.offset + 1 = LineLen
  BY DEF EndsLine
<1>6. current' \in Request
  BY <1>1, <1>2 DEF Request
<1>7. CASE r.offset + 1 = LineLen
  <2>1. active' = FALSE
    BY <1>2, <1>5, <1>7, Zenon
  <2> QED
    BY <1>2, <1>4, <1>5, <1>6, <1>7, <2>1 DEF Request
<1>8. CASE r.offset + 1 # LineLen
  <2>1. active' = TRUE
    BY <1>2, <1>5, <1>8, Zenon
  <2>2. r.offset + 1 < LineLen
    BY <1>1, <1>8
  <2> QED
    BY <1>2, <1>4, <1>5, <1>6, <1>8, <2>1, <2>2 DEF Request
<1> QED
  BY <1>7, <1>8

LEMMA TurnRead ==
  ASSUME TypeOK, TurnInv, RequestInv, RingInv, LineInv,
         ReadBridge \/ ReadStale \/ ReadAcknowledge \/ ReadOn \/ ReadNext \/ ReadNothing \/ ReadRing
  PROVE  TurnInv'
<1>0. LineLen \in Nat /\ LineLen > 1 /\ Ids \in Nat /\ Max32 \notin 0 .. Ids
  BY StreamAssumption DEF Max32
<1>1. CASE ReadBridge
  <2>1. /\ parser = "read" /\ parser' = "bridge" /\ BridgesTurn
        /\ UNCHANGED <<line, refused, current, active, ackError, reporting, completed,
                       queueVars, serialVars, otherVars>>
    BY <1>1 DEF ReadBridge
  <2>2. (CanWaits' <=> CanWaits) /\ ring' = ring /\ lineActive' = lineActive
    BY <2>1, Cans DEF serialVars
  <2>3. ~CanWaits /\ ~lineActive
    BY <2>1 DEF TurnInv, BridgesTurn, BridgeActive, CanWaits
  <2> QED
    BY <2>1, <2>2, <2>3 DEF TurnInv, BridgesTurn, BridgeActive, Complete
<1>2. ASSUME parser = "bridge", UNCHANGED serialVars
      PROVE  ~CanWaits' /\ ~CanWaits /\ ~lineActive /\ lineActive' = FALSE /\ ~Complete
  BY <1>2, Cans DEF TurnInv, serialVars, TypeOK, Complete
<1>3. CASE ReadStale
  <2>1. /\ parser = "bridge" /\ UNCHANGED serialVars /\ active /\ active' = FALSE
        /\ reporting' = 0 /\ ackError' = ackError /\ parser' = "read"
    BY <1>3, Delivered, CharTypes DEF ReadStale, Stale, TypeOK
  <2> QED
    BY <1>2, <2>1 DEF TurnInv, Complete
<1>4. CASE ReadAcknowledge
  <2>1. /\ parser = "bridge" /\ UNCHANGED serialVars /\ ackError /\ ackError' = FALSE
        /\ reporting' = Max32 /\ active' = active
        /\ parser' = "line" /\ line'[Len(line')] = Newline
    BY <1>4, Delivered, CharTypes DEF ReadAcknowledge, TypeOK
  <2>2. ~FromBridge'
    BY <2>1 DEF FromBridge, Newline
  <2>3. active' = FALSE
    BY <2>1 DEF TurnInv, TypeOK
  <2> QED
    BY <1>2, <2>1, <2>2, <2>3 DEF TurnInv, Complete
<1>5. ASSUME NEW r \in Request, r.offset \in 0 .. LineLen - 1, ReadFrom(r), parser = "bridge",
             UNCHANGED serialVars, ackError' = FALSE
      PROVE  TurnInv'
  <2>1. /\ current'.id = r.id /\ current'.offset = r.offset + 1 /\ reporting' = r.id
        /\ line'[Len(line')] = Char("ui", r.id, r.offset + 1)
        /\ \/ /\ r.offset + 1 = LineLen /\ active' = FALSE /\ parser' = "line"
           \/ /\ r.offset + 1 < LineLen /\ active' = TRUE /\ parser' = "read"
    BY <1>5, ReadFromEffect
  <2>2. FromBridge' /\ line'[Len(line')].n = current'.id
    BY <2>1 DEF FromBridge
  <2>3. current'.offset \in 1 .. LineLen
    BY <1>0, <1>5, <2>1
  <2> QED
    BY <1>0, <1>2, <1>5, <2>1, <2>2, <2>3 DEF TurnInv, Complete
<1>6. CASE ReadOn
  <2>1. /\ parser = "bridge" /\ UNCHANGED serialVars /\ ~ackError /\ ackError' = ackError
        /\ active /\ ReadFrom(current)
    BY <1>6 DEF ReadOn
  <2>2. current.offset \in 0 .. LineLen - 1 /\ current \in Request /\ ackError' = FALSE
    BY <1>0, <2>1 DEF TurnInv, TypeOK
  <2> QED
    BY <1>5, <2>1, <2>2
<1>7. CASE ReadNext
  <2>1. PICK i \in Live : ReadFrom(commands[i])
    BY <1>7 DEF ReadNext
  <2>2. commands[i] \in Request /\ commands[i].offset \in 0 .. LineLen - 1
    BY <1>0, Requests DEF Live, RequestInv
  <2>3. parser = "bridge" /\ UNCHANGED serialVars /\ ackError' = FALSE
    BY <1>7 DEF ReadNext, TypeOK
  <2> QED
    BY <1>5, <2>1, <2>2, <2>3
<1>8. CASE ReadNothing
  <2>1. /\ parser = "bridge" /\ UNCHANGED <<serialVars, bridgeVars>> /\ parser' = "read"
        /\ ~ackError /\ ~active
    BY <1>8 DEF ReadNothing
  <2>2. ~CanWaits' /\ ~Complete /\ lineActive' = FALSE
    BY <1>2, <2>1
  <2> QED
    BY <2>1, <2>2 DEF TurnInv, Complete, bridgeVars
<1>9. CASE ReadRing
  <2>1. /\ parser = "read" /\ ~active /\ ~ackError /\ ring # <<>> /\ ring' = Tail(ring)
        /\ Deliver(ring[1]) /\ ring[1] \in Chars /\ UNCHANGED bridgeVars
        /\ lineActive' = (ring[1] # CAN /\ ~EndsLine(ring[1]))
    BY <1>9, OneCan DEF ReadRing, BridgesTurn, BridgeActive
  <2>2. ~CanWaits' /\ reporting = 0
    <3>1. CAN' = CAN
      BY DEF CAN
    <3> QED
      BY <2>1, <3>1, OneCan DEF CanWaits, TurnInv, Complete
  <2>3. CASE ring[1] = CAN
    <3>1. parser' = "read" /\ lineActive' = FALSE
      BY <2>1, <2>3, Delivered DEF TypeOK
    <3> QED
      BY <2>1, <2>2, <3>1 DEF TurnInv, Complete, bridgeVars
  <2>4. CASE ring[1] # CAN
    <3>1. /\ line'[Len(line')] = ring[1] /\ ring[1].from = "usb"
          /\ parser' \in {"read", "line"} /\ (parser' = "line" <=> EndsLine(ring[1]))
      BY <2>1, <2>4, Delivered, OneCan DEF Heard, TypeOK
    <3>2. lineActive' => parser' = "read"
      BY <2>1, <3>1
    <3>3. ~FromBridge'
      BY <3>1 DEF FromBridge
    <3> QED
      BY <2>1, <2>2, <3>1, <3>2, <3>3 DEF TurnInv, Complete, bridgeVars
  <2> QED
    BY <2>3, <2>4
<1> QED
  BY <1>1, <1>3, <1>4, <1>6, <1>7, <1>8, <1>9

LEMMA TurnStep ==
  ASSUME TypeOK, TurnInv, RequestInv, RingInv, LineInv, [Next]_vars
  PROVE  TurnInv'
\* Submissions and the ends of epochs leave everything that TurnInv mentions.
<1>1. ASSUME UNCHANGED <<bridgeVars, parserVars, ring, lineActive>>, reset' = TRUE \/ reset' = reset
      PROVE  TurnInv'
  <2>1. CanWaits' <=> CanWaits
    BY <1>1, Cans
  <2>2. Settled' => Settled
    BY <1>1, <2>1 DEF Settled
  <2> QED
    BY <1>1, <2>1, <2>2 DEF TurnInv, Complete, FromBridge, bridgeVars, parserVars
<1>2. CASE UiSubmit \/ UiSend \/ CycleSubmit \/ UiCancel \/ CycleDiscard \/ Operations \/ UNCHANGED vars
  <2>1. UNCHANGED <<bridgeVars, parserVars, serialVars>> /\ (reset' = TRUE \/ reset' = reset)
    BY <1>2 DEF UiSubmit, UiSend, CycleSubmit, UiCancel, CycleDiscard, Operations, CycleRequest,
                CycleBegin, CycleEnd, UpdateBegin, UpdateEnd, AskReset, vars, otherVars
  <2> QED
    BY <1>1, <2>1 DEF serialVars
<1>3. CASE SerialPoll /\ (Reject \/ DropRest)
  <2>1. UNCHANGED <<bridgeVars, parserVars, ring, lineActive, reset>>
    BY <1>3 DEF SerialPoll, Reject, DropRest, otherVars
  <2> QED
    BY <1>1, <2>1
<1>4. CASE SerialPoll /\ Store
  <2>1. /\ UNCHANGED <<bridgeVars, parserVars, lineActive, reset>>
        /\ ring' = Append(ring, UsbChar) /\ parser # "bridge"
    BY <1>4 DEF SerialPoll, Store, otherVars, InHook
  <2>2. (CanWaits' <=> CanWaits) /\ (Settled' => Settled)
    BY <2>1, Cans DEF Settled
  <2> QED
    BY <2>1, <2>2 DEF TurnInv, Complete, FromBridge, bridgeVars, parserVars
<1>5. CASE UartError \/ CancelBuffer \/ CoreReset \/ (SerialPoll /\ Overflow)
  <2>1. /\ active' = FALSE /\ ackError' = FALSE /\ reporting' = 0 /\ current' = current
        /\ parser # "bridge" /\ lineActive' = FALSE
    BY <1>5, FlushEffect, FlushBridgeType
  <2>2. CASE UNCHANGED parserVars /\ (reset' = TRUE \/ (ring' = <<CAN>> /\ reset' = reset))
    <3>1. ~Settled'
      BY <2>2, Cans DEF Settled
    <3> QED
      BY <2>1, <2>2, <3>1 DEF TurnInv, Complete, FromBridge, parserVars
  <2>3. CASE line' = <<>> /\ parser' = "read" /\ refused' = FALSE
    BY <2>1, <2>3 DEF TurnInv, Complete
  <2> QED
    BY <1>5, <2>2, <2>3, FlushEffect
<1>6. CASE Begin
  <2>1. /\ parser = "line" /\ parser' = "run" /\ UNCHANGED <<line, bridgeVars, ring, lineActive, reset>>
    BY <1>6 DEF Begin, serialVars, otherVars
  <2>2. (CanWaits' <=> CanWaits) /\ (Settled' => Settled)
    BY <2>1, Cans DEF Settled
  <2> QED
    BY <2>1, <2>2 DEF TurnInv, Complete, FromBridge, bridgeVars
<1>7. CASE Executed
  <2>1. PICK ok \in BOOLEAN : Report(ok)
    BY <1>7 DEF Executed
  <2>2. parser = "run" /\ parser' = "read" /\ UNCHANGED <<ring, lineActive>>
    BY <1>7 DEF Executed, serialVars
  <2>3. /\ reporting' = 0 /\ active' = active
        /\ ackError' = ackError \/ reporting \in 1 .. Ids
    BY <2>1 DEF Report
  <2>4. (CanWaits' <=> CanWaits) /\ ~active /\ ~ackError /\ ~lineActive
    BY <2>2, Cans DEF TurnInv, Complete
  <2>5. CanWaits => ~ackError'
    BY <2>3, <2>4, StreamAssumption DEF TurnInv
  <2> QED
    BY <2>2, <2>3, <2>4, <2>5 DEF TurnInv, Complete
<1>8. CASE ReadBridge \/ ReadStale \/ ReadAcknowledge \/ ReadOn \/ ReadNext \/ ReadNothing \/ ReadRing
  BY <1>8, TurnRead
<1>9. CASE SerialPoll
  <2>1. Reject \/ DropRest \/ Store \/ Overflow
    BY <1>9 DEF SerialPoll
  <2> QED
    BY <1>3, <1>4, <1>5, <1>9, <2>1
<1> QED
  BY <1>2, <1>5, <1>6, <1>7, <1>8, <1>9 DEF Next

-----------------------------------------------------------------------------
(* Requests.                                                               *)

LEMMA QueueGrows ==
  ASSUME TypeOK, NEW r \in Request, commands' = Queued(r),
         \A i \in DOMAIN commands : commands[i].id # r.id
  PROVE  /\ \A i \in DOMAIN commands' :
              \/ commands'[i] = r
              \/ i \in DOMAIN commands /\ commands'[i] = commands[i]
         /\ \A i, j \in DOMAIN commands' :
              commands'[i].id = commands'[j].id =>
                i = j \/ (i \in DOMAIN commands /\ j \in DOMAIN commands
                            /\ commands[i].id = commands[j].id)
<1>1. Len(commands) \in Nat /\ DOMAIN commands = 1 .. Len(commands)
  BY Requests
<1>2. CASE commands' = commands
  BY <1>1, <1>2
<1>3. CASE /\ Len(commands') = Len(commands) + 1 /\ commands' \in Seq(Request)
           /\ \A i \in DOMAIN commands : commands'[i] = commands[i]
           /\ commands'[Len(commands) + 1] = r
  <2>1. DOMAIN commands' = 1 .. Len(commands) + 1
    BY <1>3
  <2>2. \A i \in DOMAIN commands' : i = Len(commands) + 1 \/ i \in DOMAIN commands
    BY <1>1, <2>1
  <2> QED
    BY <1>3, <2>2
<1> QED
  BY <1>2, <1>3, QueuedType

\* When nothing is submitted or taken, requests can only be discarded.
LEMMA RequestKept ==
  ASSUME TypeOK, RequestInv, NextEpoch \/ UNCHANGED <<epoch, discarded>>,
         UNCHANGED <<commands, nextId, sending>>,
         current'.id = current.id, current'.epoch = current.epoch,
         generation' = generation \/ (generation' = epoch /\ epoch' = epoch),
         active' \/ (Complete' /\ FromBridge') => active \/ (Complete /\ FromBridge)
  PROVE  RequestInv'
<1>0. /\ \A i \in DOMAIN commands : commands[i].id \in Nat /\ commands[i].epoch \in Nat
      /\ sending.id \in Nat /\ sending.epoch \in Nat /\ current.id \in Nat /\ current.epoch \in Nat
      /\ epoch \in Nat /\ generation \in Nat /\ nextId \in Nat
  <2>1. \A r \in Request : r.id \in Nat /\ r.epoch \in Nat
    BY DEF Request
  <2>2. sending \in Request /\ current \in Request /\ epoch \in Nat /\ generation \in Nat /\ nextId \in Nat
    BY StreamAssumption DEF TypeOK
  <2> QED
    BY <2>1, <2>2, Requests
<1>1. Numbers' = Numbers
  BY DEF Numbers
<1>2. CASE NextEpoch
  <2>1. epoch' = epoch + 1
    BY <1>2, EpochEnds
  <2>2. discarded' \subseteq 1 .. nextId
    <3> SUFFICES ASSUME NEW n \in discarded' PROVE n \in 1 .. nextId
      OBVIOUS
    <3>1. \/ n \in discarded
          \/ n # 0 /\ n \in Numbers
          \/ n # 0 /\ n = sending.id
          \/ n # 0 /\ n = current.id
      BY <1>2, EpochEnds
    <3>2. \A m \in Numbers : m \in 1 .. nextId
      BY DEF Numbers, RequestInv
    <3>3. sending.id <= nextId /\ current.id <= nextId /\ discarded \subseteq 1 .. nextId
      BY DEF RequestInv
    <3>4. CASE n \in discarded \/ n \in Numbers
      BY <3>2, <3>3, <3>4
    <3>5. CASE n # 0 /\ (n = sending.id \/ n = current.id)
      <4>1. n \in Nat /\ n <= nextId
        BY <1>0, <3>3, <3>5
      <4> QED
        BY <1>0, <3>5, <4>1
    <3> QED
      BY <3>1, <3>4, <3>5
  <2>3. \A i \in DOMAIN commands : commands[i].epoch <= epoch' /\ commands[i].epoch # epoch'
    BY <1>0, <2>1 DEF RequestInv
  <2>4. sending.epoch <= epoch' /\ sending.epoch # epoch' /\ current.epoch <= epoch' /\ generation' <= epoch'
    BY <1>0, <2>1 DEF RequestInv
  <2>5. /\ \A i, j \in DOMAIN commands' : commands'[i].id = commands'[j].id => i = j
        /\ \A i \in DOMAIN commands' :
              /\ commands'[i].id \in 1 .. nextId' /\ commands'[i].offset = 0
              /\ commands'[i].epoch <= epoch'
              /\ commands'[i].epoch = epoch' => commands'[i].id \notin discarded'
    BY <2>3 DEF RequestInv
  <2>6. /\ sending'.id \notin Numbers' /\ sending'.id <= nextId'
        /\ sending' = NoRequest \/ (sending'.id # 0 /\ sending'.id # current'.id /\ sending'.offset = 0)
        /\ current'.id \notin Numbers' /\ current'.id <= nextId'
        /\ active' \/ (Complete' /\ FromBridge') => current'.id # 0
    BY <1>1 DEF RequestInv
  <2>7. NoRequest' = NoRequest
    BY DEF NoRequest
  <2> QED
    BY <2>2, <2>4, <2>5, <2>6, <2>7 DEF RequestInv
<1>3. CASE UNCHANGED <<epoch, discarded>>
  <2>1. generation' <= epoch'
    BY <1>0, <1>3 DEF RequestInv
  <2>2. NoRequest' = NoRequest
    BY DEF NoRequest
  <2>3. active' \/ (Complete' /\ FromBridge') => current'.id # 0
    BY DEF RequestInv
  <2> QED
    BY <1>1, <1>3, <2>1, <2>2, <2>3 DEF RequestInv
<1> QED
  BY <1>2, <1>3

LEMMA RequestSubmit ==
  ASSUME TypeOK, RequestInv, UiSubmit \/ UiSend \/ CycleSubmit
  PROVE  RequestInv'
<1>0. /\ \A i \in DOMAIN commands : commands[i].id \in Nat /\ commands[i].epoch \in Nat
      /\ sending.id \in Nat /\ sending.epoch \in Nat /\ current.id \in Nat /\ current.epoch \in Nat
      /\ epoch \in Nat /\ generation \in Nat /\ nextId \in Nat /\ NoRequest' = NoRequest
      /\ sending \in Request
  <2>1. \A r \in Request : r.id \in Nat /\ r.epoch \in Nat
    BY DEF Request
  <2> QED
    BY <2>1, Requests DEF TypeOK, NoRequest
<1>1. UNCHANGED <<epoch, discarded, current, generation, active, line, parser>>
  BY DEF UiSubmit, UiSend, CycleSubmit, bridgeVars, parserVars
<1>2. /\ active' \/ (Complete' /\ FromBridge') => current'.id # 0
      /\ generation' <= epoch' /\ current'.epoch <= epoch'
  BY <1>1 DEF RequestInv, Complete, FromBridge
<1>3. \A m \in Numbers : m \in 1 .. nextId
  BY DEF Numbers, RequestInv
<1>4. CASE UiSubmit
  <2>1. /\ nextId' = nextId + 1 /\ sending' = Numbered /\ commands' = commands
    BY <1>4 DEF UiSubmit
  <2>2. sending'.id = nextId + 1 /\ sending'.epoch = epoch /\ sending'.offset = 0
    BY <2>1 DEF Numbered
  <2>3. Numbers' = Numbers
    BY <2>1 DEF Numbers
  <2>4. discarded' \subseteq 1 .. nextId' /\ sending'.id \notin discarded'
    BY <1>0, <1>1, <2>1, <2>2 DEF RequestInv
  <2>5. /\ sending'.id \notin Numbers' /\ sending'.id <= nextId' /\ sending'.id # 0
        /\ sending'.id # current'.id /\ sending'.epoch <= epoch'
        /\ current'.id \notin Numbers' /\ current'.id <= nextId'
    BY <1>0, <1>1, <1>3, <2>1, <2>2, <2>3 DEF RequestInv
  <2>6. \A i \in DOMAIN commands' :
              /\ commands'[i].id \in 1 .. nextId' /\ commands'[i].offset = 0
              /\ commands'[i].epoch <= epoch'
              /\ commands'[i].epoch = epoch' => commands'[i].id \notin discarded'
    BY <1>0, <1>1, <2>1 DEF RequestInv
  <2>7. \A i, j \in DOMAIN commands' : commands'[i].id = commands'[j].id => i = j
    BY <2>1 DEF RequestInv
  <2> QED
    BY <1>2, <2>2, <2>4, <2>5, <2>6, <2>7 DEF RequestInv
<1>5. ASSUME NEW r \in Request, commands' = Queued(r), nextId' \in Nat, nextId' >= nextId,
             r.id \in 1 .. nextId', r.offset = 0, r.epoch <= epoch,
             r.epoch = epoch => r.id \notin discarded,
             r.id \notin Numbers, r.id # current.id
      PROVE  /\ \A i, j \in DOMAIN commands' : commands'[i].id = commands'[j].id => i = j
             /\ \A i \in DOMAIN commands' :
                  /\ commands'[i].id \in 1 .. nextId' /\ commands'[i].offset = 0
                  /\ commands'[i].epoch <= epoch'
                  /\ commands'[i].epoch = epoch' => commands'[i].id \notin discarded'
             /\ current'.id \notin Numbers' /\ current'.id <= nextId'
             /\ Numbers' \subseteq Numbers \cup {r.id}
             /\ discarded' \subseteq 1 .. nextId'
  <2>1. \A i \in DOMAIN commands : commands[i].id # r.id
    BY <1>5 DEF Numbers
  <2>2. /\ \A i \in DOMAIN commands' :
              \/ commands'[i] = r
              \/ i \in DOMAIN commands /\ commands'[i] = commands[i]
        /\ \A i, j \in DOMAIN commands' :
              commands'[i].id = commands'[j].id =>
                i = j \/ (i \in DOMAIN commands /\ j \in DOMAIN commands
                            /\ commands[i].id = commands[j].id)
    BY <1>5, <2>1, QueueGrows
  <2>3. \A i \in DOMAIN commands' :
                  /\ commands'[i].id \in 1 .. nextId' /\ commands'[i].offset = 0
                  /\ commands'[i].epoch <= epoch'
                  /\ commands'[i].epoch = epoch' => commands'[i].id \notin discarded'
    <3> SUFFICES ASSUME NEW i \in DOMAIN commands'
                 PROVE  /\ commands'[i].id \in 1 .. nextId' /\ commands'[i].offset = 0
                        /\ commands'[i].epoch <= epoch'
                        /\ commands'[i].epoch = epoch' => commands'[i].id \notin discarded'
      OBVIOUS
    <3>1. CASE commands'[i] = r
      BY <1>1, <1>5, <3>1
    <3>2. CASE i \in DOMAIN commands /\ commands'[i] = commands[i]
      <4>1. commands[i].id \in 1 .. nextId
        BY <3>2 DEF RequestInv
      <4> QED
        BY <1>0, <1>1, <1>5, <3>2, <4>1 DEF RequestInv
    <3> QED
      BY <2>2, <3>1, <3>2
  <2>4. Numbers' \subseteq Numbers \cup {r.id}
    BY <2>2 DEF Numbers
  <2>5. current'.id \notin Numbers' /\ current'.id <= nextId'
    BY <1>0, <1>1, <1>5, <2>4 DEF RequestInv
  <2>6. discarded' \subseteq 1 .. nextId'
    BY <1>0, <1>1, <1>5 DEF RequestInv
  <2>7. \A i, j \in DOMAIN commands' : commands'[i].id = commands'[j].id => i = j
    BY <2>2 DEF RequestInv
  <2> QED
    BY <2>3, <2>4, <2>5, <2>6, <2>7
<1>6. CASE UiSend
  <2>1. sending # NoRequest /\ commands' = Queued(sending) /\ sending' = NoRequest /\ nextId' = nextId
    BY <1>6 DEF UiSend
  <2>2. /\ sending.id \in 1 .. nextId /\ sending.offset = 0 /\ sending.epoch <= epoch
        /\ sending.epoch = epoch => sending.id \notin discarded
        /\ sending.id \notin Numbers /\ sending.id # current.id
    BY <1>0, <2>1 DEF RequestInv
  <2>3. sending'.id = 0 /\ sending'.epoch = 0
    BY <2>1 DEF NoRequest
  <2>4. /\ \A i, j \in DOMAIN commands' : commands'[i].id = commands'[j].id => i = j
        /\ \A i \in DOMAIN commands' :
             /\ commands'[i].id \in 1 .. nextId' /\ commands'[i].offset = 0
             /\ commands'[i].epoch <= epoch'
             /\ commands'[i].epoch = epoch' => commands'[i].id \notin discarded'
        /\ current'.id \notin Numbers' /\ current'.id <= nextId'
        /\ Numbers' \subseteq Numbers \cup {sending.id}
        /\ discarded' \subseteq 1 .. nextId'
    BY <1>0, <1>5, <2>1, <2>2
  <2>5. sending'.id \notin Numbers' /\ sending'.id \notin discarded'
    BY <1>0, <1>3, <2>2, <2>3, <2>4
  <2>6. sending'.id <= nextId' /\ sending'.epoch <= epoch'
    BY <1>0, <1>1, <2>1, <2>3
  <2> QED
    BY <1>0, <1>2, <2>1, <2>4, <2>5, <2>6 DEF RequestInv
<1>7. CASE CycleSubmit
  <2>1. nextId < Ids /\ commands' = Queued(Numbered) /\ sending' = sending /\ nextId' = nextId + 1
    BY <1>7 DEF CycleSubmit
  <2>2. /\ Numbered.id = nextId + 1 /\ Numbered.offset = 0 /\ Numbered.epoch = epoch
        /\ Numbered \in Request
    BY <2>1, NumberedType DEF Numbered
  <2>3. /\ Numbered.id \in 1 .. nextId' /\ Numbered.epoch <= epoch /\ Numbered.id \notin discarded
        /\ Numbered.id \notin Numbers /\ Numbered.id # current.id
    BY <1>0, <1>3, <2>1, <2>2 DEF RequestInv
  <2>4. /\ \A i, j \in DOMAIN commands' : commands'[i].id = commands'[j].id => i = j
        /\ \A i \in DOMAIN commands' :
             /\ commands'[i].id \in 1 .. nextId' /\ commands'[i].offset = 0
             /\ commands'[i].epoch <= epoch'
             /\ commands'[i].epoch = epoch' => commands'[i].id \notin discarded'
        /\ current'.id \notin Numbers' /\ current'.id <= nextId'
        /\ Numbers' \subseteq Numbers \cup {Numbered.id}
        /\ discarded' \subseteq 1 .. nextId'
    BY <1>0, <1>5, <2>1, <2>2, <2>3
  <2>5. sending'.id \notin Numbers' /\ sending'.id <= nextId'
    BY <1>0, <2>1, <2>2, <2>4 DEF RequestInv
  <2>6. /\ sending'.epoch <= epoch' /\ (sending'.epoch = epoch' => sending'.id \notin discarded')
        /\ sending' = NoRequest' \/ (sending'.id # 0 /\ sending'.id # current'.id /\ sending'.offset = 0)
    BY <1>0, <1>1, <2>1 DEF RequestInv
  <2> QED
    BY <1>2, <2>4, <2>5, <2>6 DEF RequestInv
<1> QED
  BY <1>4, <1>6, <1>7

\* What is left of the queue once its first requests are taken.
LEMMA QueueRest ==
  ASSUME TypeOK, RequestInv, NEW k \in DOMAIN commands,
         commands' = SubSeq(commands, k + 1, Len(commands))
  PROVE  /\ \A i \in DOMAIN commands' : i + k \in DOMAIN commands /\ commands'[i] = commands[i + k]
         /\ Numbers' \subseteq Numbers /\ commands[k].id \in Numbers
         /\ commands[k].id \notin Numbers'
         /\ k \in Int /\ \A i \in DOMAIN commands' : i \in Int
<1>1. commands \in Seq(Request) /\ k \in 1 .. Len(commands) /\ Len(commands) \in Nat
      /\ DOMAIN commands = 1 .. Len(commands)
  BY Requests DEF TypeOK
<1>2. \A i \in k + 1 .. Len(commands) : commands[i] \in Request
  BY <1>1
<1>3. /\ Len(commands') = Len(commands) - k /\ commands' \in Seq(Request)
      /\ \A i \in 1 .. Len(commands) - k : commands'[i] = commands[i + k]
  <2>1. /\ commands' \in Seq(Request)
        /\ Len(commands') = IF k + 1 <= Len(commands) THEN Len(commands) - (k + 1) + 1 ELSE 0
        /\ \A i \in 1 .. Len(commands) - (k + 1) + 1 : commands'[i] = commands[k + 1 + i - 1]
    BY <1>1, <1>2, SubSeqProperties
  <2>2. Len(commands') = Len(commands) - k
    BY <1>1, <2>1
  <2>3. ASSUME NEW i \in 1 .. Len(commands) - k
        PROVE  commands'[i] = commands[i + k]
    <3>1. k + 1 + i - 1 = i + k /\ i \in 1 .. Len(commands) - (k + 1) + 1
      BY <1>1
    <3> QED
      BY <2>1, <3>1
  <2> QED
    BY <2>1, <2>2, <2>3
<1>4. DOMAIN commands' = 1 .. Len(commands) - k
  BY <1>1, <1>3
<1>5. \A i \in DOMAIN commands' : i + k \in DOMAIN commands /\ commands'[i] = commands[i + k] /\ i + k # k
  BY <1>1, <1>3, <1>4
<1>6. Numbers' \subseteq Numbers /\ commands[k].id \in Numbers
  BY <1>5 DEF Numbers
<1>7. commands[k].id \notin Numbers'
  <2> SUFFICES ASSUME NEW i \in DOMAIN commands', commands'[i].id = commands[k].id PROVE FALSE
    BY DEF Numbers
  <2> QED
    BY <1>5 DEF RequestInv
<1> QED
  BY <1>1, <1>4, <1>5, <1>6, <1>7

LEMMA RequestNext ==
  ASSUME TypeOK, RequestInv, ReadNext
  PROVE  RequestInv'
<1>1. PICK k \in Live : /\ commands' = SubSeq(commands, k + 1, Len(commands))
                        /\ ReadFrom(commands[k])
  BY DEF ReadNext
<1>2. k \in DOMAIN commands /\ commands[k].epoch = generation
  BY DEF Live
<1>3. commands[k] \in Request /\ commands[k].offset \in 0 .. LineLen - 1
  BY <1>2, Requests, StreamAssumption DEF RequestInv
<1>4. current'.id = commands[k].id /\ current'.epoch = commands[k].epoch
  BY <1>1, <1>3, ReadFromEffect
<1>5. UNCHANGED <<generation, nextId, epoch, sending, discarded>>
  BY DEF ReadNext
<1>6. /\ \A i \in DOMAIN commands' : i + k \in DOMAIN commands /\ commands'[i] = commands[i + k]
      /\ Numbers' \subseteq Numbers /\ commands[k].id \in Numbers
      /\ commands[k].id \notin Numbers'
  BY <1>1, <1>2, QueueRest
<1>7. \A i, j \in DOMAIN commands' : commands'[i].id = commands'[j].id => i = j
  <2> SUFFICES ASSUME NEW i \in DOMAIN commands', NEW j \in DOMAIN commands',
                      commands'[i].id = commands'[j].id
               PROVE  i = j
    OBVIOUS
  <2>1. i + k = j + k
    BY <1>6 DEF RequestInv
  <2>2. i \in Int /\ j \in Int /\ k \in Int
    BY <1>1, <1>2, QueueRest
  <2>3. \A a, b, c \in Int : a + c = b + c => a = b
    OBVIOUS
  <2> QED
    BY <2>1, <2>2, <2>3, Zenon
<1>8. \A i \in DOMAIN commands' :
         /\ commands'[i].id \in 1 .. nextId' /\ commands'[i].offset = 0
         /\ commands'[i].epoch <= epoch'
         /\ commands'[i].epoch = epoch' => commands'[i].id \notin discarded'
  BY <1>5, <1>6 DEF RequestInv
<1>9. sending'.id \notin Numbers' /\ current'.id \notin Numbers' /\ sending'.id # current'.id
  BY <1>4, <1>5, <1>6 DEF RequestInv
<1>10. current'.id \in 1 .. nextId' /\ current'.epoch <= epoch' /\ nextId' \in Nat
  BY <1>2, <1>4, <1>5, StreamAssumption DEF RequestInv, TypeOK
<1>11. current'.id # 0 /\ current'.id <= nextId'
  BY <1>10
<1>12. sending'.id <= nextId' /\ sending'.epoch <= epoch' /\ discarded' \subseteq 1 .. nextId'
       /\ generation' <= epoch' /\ (sending'.epoch = epoch' => sending'.id \notin discarded')
       /\ (sending' = NoRequest' \/ (sending'.id # 0 /\ sending'.offset = 0))
  BY <1>5 DEF RequestInv, NoRequest
<1> QED
  BY <1>7, <1>8, <1>9, <1>10, <1>11, <1>12 DEF RequestInv

-----------------------------------------------------------------------------
(* Delivery.                                                               *)

\* What the steps that take no request from the queue do to the one in delivery.
DeliveryFrame ==
    /\ NextEpoch \/ UNCHANGED <<epoch, discarded>>
    /\ current'.id = current.id /\ current'.epoch = current.epoch
    /\ generation' = generation \/ (generation' = epoch /\ epoch' = epoch)
    /\ active' => active
    /\ Complete' /\ FromBridge' =>
          \/ Complete /\ FromBridge
          \/ LastTaken /\ active /\ UNCHANGED <<epoch, discarded>>
    /\ LastTaken' /\ active' =>
          \/ LastTaken /\ active
          \/ current.epoch = epoch /\ UNCHANGED <<epoch, discarded>>

LEMMA FrameRead ==
  ASSUME TypeOK, TurnInv, RingInv,
         ReadBridge \/ ReadStale \/ ReadAcknowledge \/ ReadOn \/ ReadNothing \/ ReadRing
  PROVE  DeliveryFrame
<1>1. CASE ReadBridge
  <2>1. /\ parser' = "bridge" /\ generation' = epoch
        /\ UNCHANGED <<epoch, discarded, current, active>>
    BY <1>1 DEF ReadBridge, queueVars
  <2> QED
    BY <2>1 DEF DeliveryFrame, Complete, LastTaken
<1>2. CASE ReadStale
  <2>1. /\ parser' = "read" /\ active' = FALSE /\ UNCHANGED <<epoch, discarded, current, generation>>
    BY <1>2, CharTypes, Delivered DEF ReadStale, TypeOK, queueVars
  <2> QED
    BY <2>1 DEF DeliveryFrame, Complete, LastTaken
<1>3. CASE ReadAcknowledge
  <2>1. /\ parser' = "line" /\ line'[Len(line')] = Newline
        /\ UNCHANGED <<epoch, discarded, current, active, generation>>
    BY <1>3, CharTypes, Delivered DEF ReadAcknowledge, TypeOK, queueVars
  <2> QED
    BY <2>1 DEF DeliveryFrame, Complete, LastTaken, FromBridge, Newline
<1>4. CASE ReadOn
  <2>1. /\ parser = "bridge" /\ ~Stale /\ active /\ ReadFrom(current)
        /\ UNCHANGED <<epoch, discarded, generation>>
    BY <1>4 DEF ReadOn, queueVars
  <2>2. current \in Request /\ current.offset \in 0 .. LineLen - 1
    BY <2>1, StreamAssumption DEF TurnInv, TypeOK
  <2>3. /\ current'.id = current.id /\ current'.epoch = current.epoch
        /\ \/ /\ current.offset + 1 = LineLen /\ active' = FALSE /\ parser' = "line"
           \/ /\ current.offset + 1 < LineLen /\ active' = TRUE /\ parser' = "read"
    BY <2>1, <2>2, ReadFromEffect
  <2>4. parser' = "line" => LastTaken
    BY <2>1, <2>2, <2>3, StreamAssumption DEF LastTaken, Stale
  <2> QED
    BY <2>1, <2>3, <2>4 DEF DeliveryFrame, Complete, LastTaken
<1>5. CASE ReadNothing
  <2>1. parser' = "read" /\ UNCHANGED <<epoch, discarded, bridgeVars>>
    BY <1>5 DEF ReadNothing
  <2> QED
    BY <2>1 DEF DeliveryFrame, Complete, LastTaken, bridgeVars
<1>6. CASE ReadRing
  <2>1. /\ ring # <<>> /\ Deliver(ring[1]) /\ ring[1] \in Chars /\ UNCHANGED <<epoch, discarded, bridgeVars>>
    BY <1>6, OneCan DEF ReadRing, queueVars
  <2>2. parser' \in {"read", "line"} /\ (parser' = "line" => line'[Len(line')].from = "usb")
    <3>1. ring[1] # CAN => ring[1].from = "usb"
      BY <2>1, OneCan DEF Heard
    <3> QED
      BY <2>1, <3>1, Delivered DEF TypeOK
  <2> QED
    BY <2>1, <2>2 DEF DeliveryFrame, Complete, LastTaken, FromBridge, bridgeVars
<1> QED
  BY <1>1, <1>2, <1>3, <1>4, <1>5, <1>6

LEMMA Frame ==
  ASSUME TypeOK, TurnInv, RingInv, [Next]_vars
  PROVE  DeliveryFrame \/ ReadNext
<1>1. ASSUME UNCHANGED <<bridgeVars, parserVars>>, NextEpoch \/ UNCHANGED <<epoch, discarded>>
      PROVE  DeliveryFrame
  BY <1>1 DEF DeliveryFrame, Complete, LastTaken, FromBridge, bridgeVars, parserVars
<1>2. CASE UiSubmit \/ UiSend \/ CycleSubmit \/ Operations \/ UNCHANGED vars
  <2>1. UNCHANGED <<epoch, discarded, bridgeVars, parserVars>>
    BY <1>2 DEF UiSubmit, UiSend, CycleSubmit, Operations, vars, queueVars
  <2> QED
    BY <1>1, <2>1
<1>3. CASE UiCancel \/ CycleDiscard
  <2>1. NextEpoch /\ UNCHANGED <<bridgeVars, parserVars>>
    BY <1>3 DEF UiCancel, CycleDiscard
  <2> QED
    BY <1>1, <2>1
<1>4. CASE SerialPoll /\ (Reject \/ DropRest \/ Store)
  <2>1. UNCHANGED <<epoch, discarded, bridgeVars, parserVars>>
    BY <1>4 DEF SerialPoll, Reject, DropRest, Store, queueVars
  <2> QED
    BY <1>1, <2>1
<1>5. CASE UartError \/ CancelBuffer \/ CoreReset \/ (SerialPoll /\ Overflow)
  <2>1. /\ NextEpoch /\ active' = FALSE /\ UNCHANGED <<current, generation>> /\ parser # "bridge"
        /\ UNCHANGED parserVars \/ parser' = "read"
    BY <1>5, FlushEffect, FlushBridgeType
  <2> QED
    BY <2>1 DEF DeliveryFrame, Complete, LastTaken, FromBridge, parserVars
<1>6. CASE Begin
  <2>1. parser = "line" /\ parser' = "run" /\ UNCHANGED <<line, epoch, discarded, bridgeVars>>
    BY <1>6 DEF Begin, queueVars
  <2> QED
    BY <2>1 DEF DeliveryFrame, Complete, LastTaken, FromBridge, bridgeVars
<1>7. CASE Executed
  <2>1. /\ parser' = "read" /\ UNCHANGED <<current, active, generation>>
        /\ NextEpoch \/ UNCHANGED <<epoch, discarded>>
    BY <1>7 DEF Executed, Report
  <2> QED
    BY <2>1 DEF DeliveryFrame, Complete, LastTaken
<1>8. CASE ReadBridge \/ ReadStale \/ ReadAcknowledge \/ ReadOn \/ ReadNothing \/ ReadRing
  BY <1>8, FrameRead
<1>9. CASE SerialPoll
  BY <1>4, <1>5, <1>9 DEF SerialPoll
<1> QED
  BY <1>2, <1>3, <1>5, <1>6, <1>7, <1>8, <1>9 DEF Next

LEMMA DeliveryStep ==
  ASSUME TypeOK, TurnInv, RequestInv, DeliveryInv, RingInv, [Next]_vars
  PROVE  DeliveryInv'
<1>0. /\ current.id \in Nat /\ current.epoch \in Nat /\ epoch \in Nat
      /\ current.epoch <= epoch /\ current.id \notin Numbers
      /\ sending = NoRequest \/ sending.id # current.id
  BY StreamAssumption DEF TypeOK, Request, RequestInv
<1>1. ASSUME DeliveryFrame, current.id \in discarded'
      PROVE  \/ current.id \in discarded
             \/ NextEpoch /\ active /\ ~LastTaken
  <2>1. CASE NextEpoch
    BY <1>0, <1>1, <2>1, EpochEnds DEF NoRequest
  <2> QED
    BY <1>1, <2>1 DEF DeliveryFrame
<1>2. CASE DeliveryFrame
  <2>1. active' /\ current'.epoch = epoch' => current'.id \notin discarded'
    <3>1. CASE NextEpoch
      BY <1>0, <1>2, <3>1, EpochEnds DEF DeliveryFrame
    <3>2. CASE UNCHANGED <<epoch, discarded>>
      BY <1>2, <3>2 DEF DeliveryFrame, DeliveryInv
    <3> QED
      BY <1>2, <3>1, <3>2 DEF DeliveryFrame
  <2>2. LastTaken' /\ active' => current'.id \notin discarded'
    <3> SUFFICES ASSUME LastTaken', active' PROVE current.id \notin discarded'
      BY <1>2 DEF DeliveryFrame
    <3>1. CASE LastTaken /\ active
      BY <1>1, <1>2, <3>1 DEF DeliveryInv
    <3>2. CASE current.epoch = epoch /\ UNCHANGED <<epoch, discarded>>
      BY <1>2, <3>2 DEF DeliveryInv, DeliveryFrame
    <3> QED
      BY <1>2, <3>1, <3>2 DEF DeliveryFrame
  <2>3. Complete' /\ FromBridge' => current'.id \notin discarded'
    <3> SUFFICES ASSUME Complete', FromBridge' PROVE current.id \notin discarded'
      BY <1>2 DEF DeliveryFrame
    <3>1. CASE Complete /\ FromBridge
      BY <1>1, <1>2, <3>1 DEF DeliveryInv, TurnInv
    <3>2. CASE LastTaken /\ active /\ UNCHANGED <<epoch, discarded>>
      BY <3>2 DEF DeliveryInv
    <3> QED
      BY <1>2, <3>1, <3>2 DEF DeliveryFrame
  <2> QED
    BY <2>1, <2>2, <2>3 DEF DeliveryInv
<1>3. CASE ReadNext
  <2>1. PICK k \in Live : ReadFrom(commands[k])
    BY <1>3 DEF ReadNext
  <2>2. k \in DOMAIN commands /\ commands[k] \in Request /\ commands[k].offset = 0
        /\ 0 \in 0 .. LineLen - 1 /\ LineLen > 1 /\ LineLen \in Nat
    BY Requests, StreamAssumption DEF RequestInv, Live
  <2>3. /\ current'.id = commands[k].id /\ current'.epoch = commands[k].epoch
        /\ \/ /\ commands[k].offset + 1 = LineLen /\ active' = FALSE /\ parser' = "line"
           \/ /\ commands[k].offset + 1 < LineLen /\ active' = TRUE /\ parser' = "read"
    BY <2>1, <2>2, ReadFromEffect
  <2>4. parser' = "read" /\ UNCHANGED <<epoch, discarded>>
    BY <1>3, <2>2, <2>3 DEF ReadNext
  <2>5. current'.epoch = epoch' => current'.id \notin discarded'
    BY <2>2, <2>3, <2>4 DEF RequestInv
  <2> QED
    BY <2>4, <2>5 DEF DeliveryInv, Complete, LastTaken
<1> QED
  BY <1>2, <1>3, Frame

LEMMA RequestStep ==
  ASSUME TypeOK, TurnInv, RequestInv, RingInv, [Next]_vars
  PROVE  RequestInv'
<1>1. CASE UiSubmit \/ UiSend \/ CycleSubmit
  BY <1>1, RequestSubmit
<1>2. CASE ReadNext
  BY <1>2, RequestNext
<1>3. CASE ReadNothing
  <2>1. /\ commands' = <<>> /\ UNCHANGED <<bridgeVars, nextId, epoch, sending, discarded>>
        /\ parser' = "read"
    BY <1>3 DEF ReadNothing
  <2>2. DOMAIN commands' = {} /\ Numbers' = {}
    BY <2>1 DEF Numbers
  <2> QED
    BY <2>1, <2>2 DEF RequestInv, Complete, NoRequest, bridgeVars
<1>4. CASE /\ ~(UiSubmit \/ UiSend \/ CycleSubmit \/ ReadNext \/ ReadNothing)
  <2>1. UNCHANGED <<commands, nextId, sending>>
    BY <1>4, FlushEffect, FlushBridgeType
       DEF Next, vars, queueVars, UiCancel, CycleDiscard, SerialPoll, Reject, DropRest, Store,
           ReadBridge, ReadStale, ReadAcknowledge, ReadOn, ReadRing, Begin, Executed, Report,
           Operations
  <2>2. DeliveryFrame
    BY <1>4, Frame
  <2>3. active' \/ (Complete' /\ FromBridge') => active \/ (Complete /\ FromBridge)
    BY <2>2 DEF DeliveryFrame
  <2> QED
    BY <2>1, <2>2, <2>3, RequestKept DEF DeliveryFrame
<1> QED
  BY <1>1, <1>2, <1>3, <1>4

-----------------------------------------------------------------------------
(* USB characters.                                                         *)

LEMMA AfterUsb ==
  ASSUME NEW next \in [n : Nat, at : 1 .. LineLen]
  PROVE  /\ After(next) \in [n : Nat, at : 1 .. LineLen]
         /\ After(next).n >= next.n
         /\ After(next).at = 1 => After(next).n = next.n + 1
         /\ After(next).n = next.n => After(next).at = next.at + 1
         /\ Host(Char("usb", next.n, next.at)) = Char("usb", After(next).n, After(next).at)
<1>1. LineLen \in Nat /\ LineLen > 1 /\ next.n \in Nat /\ next.at \in 1 .. LineLen
  BY StreamAssumption
<1>2. /\ After(next) \in [n : Nat, at : 1 .. LineLen]
      /\ After(next).n = IF next.at = LineLen THEN next.n + 1 ELSE next.n
      /\ After(next).at = IF next.at = LineLen THEN 1 ELSE next.at + 1
  BY AfterType
<1>3. CASE next.at = LineLen
  BY <1>1, <1>2, <1>3 DEF Host
<1>4. CASE next.at # LineLen
  BY <1>1, <1>2, <1>4 DEF Host
<1> QED
  BY <1>3, <1>4

\* The host goes on, and marks what it marks.
LEMMA UsbGoesOn ==
  ASSUME TypeOK, RingInv, [Next]_vars
  PROVE  /\ usb'.n \in Nat \ {0} /\ usb'.n >= usb.n /\ usb'.at \in 1 .. LineLen
         /\ headless \subseteq headless'
         /\ rejected' = rejected \/ (rejected' = rejected \cup {usb.n} /\ lineActive' = FALSE)
         /\ rejected' \subseteq 1 .. usb'.n
         /\ usb'.at = 1 => usb'.n \notin rejected'
<1>0. /\ usb \in [n : Nat, at : 1 .. LineLen] /\ usb.n \in Nat \ {0} /\ LineLen \in Nat /\ LineLen > 1
      /\ rejected \subseteq 1 .. usb.n /\ (usb.at = 1 => usb.n \notin rejected)
  BY StreamAssumption DEF TypeOK, RingInv
<1>1. CASE UNCHANGED <<usb, headless, rejected>>
  BY <1>0, <1>1
<1>2. CASE SerialPoll
  <2>1. usb' = After(usb)
    BY <1>2 DEF SerialPoll
  <2>2. /\ usb' \in [n : Nat, at : 1 .. LineLen] /\ usb'.n >= usb.n
        /\ (usb'.at = 1 => usb'.n = usb.n + 1)
    BY <1>0, <2>1, AfterUsb
  <2>3. /\ headless' = headless
        /\ rejected' = rejected \/ (rejected' = rejected \cup {usb.n} /\ lineActive' = FALSE)
    <3>1. CASE Reject \/ DropRest
      <4>1. Dropping /\ lineActive' = lineActive /\ rejected' = rejected \cup {usb.n} /\ headless' = headless
        BY <3>1 DEF Reject, DropRest, Dropping, Rejected
      <4> QED
        BY <4>1 DEF RingInv, TypeOK
    <3>2. CASE Store \/ Overflow
      BY <3>2 DEF Store, Overflow, Flush, Rejected
    <3> QED
      BY <1>2, <3>1, <3>2 DEF SerialPoll
  <2>4. usb'.n \in Nat \ {0} /\ usb'.at \in 1 .. LineLen
    BY <1>0, <2>2
  <2>5. rejected' \subseteq 1 .. usb'.n
    <3>1. rejected' \subseteq rejected \cup {usb.n}
      BY <2>3
    <3>2. usb.n \in 1 .. usb'.n /\ \A n \in 1 .. usb.n : n \in 1 .. usb'.n
      BY <1>0, <2>2, <2>4
    <3> QED
      BY <1>0, <3>1, <3>2
  <2>6. usb'.at = 1 => usb'.n \notin rejected'
    <3>1. usb'.at = 1 => usb'.n \notin 1 .. usb.n
      BY <1>0, <2>2
    <3>2. rejected' \subseteq 1 .. usb.n
      <4>1. rejected' \subseteq rejected \cup {usb.n} /\ usb.n \in 1 .. usb.n
        BY <1>0, <2>3
      <4> QED
        BY <1>0, <4>1
    <3> QED
      BY <3>1, <3>2
  <2> QED
    BY <2>2, <2>3, <2>4, <2>5, <2>6
<1>3. CASE UartError
  <2>1. /\ rejected' = rejected /\ headless \subseteq headless'
        /\ usb' \in {After(usb), After(After(usb))}
    BY <1>3 DEF UartError
  <2>2. /\ After(usb) \in [n : Nat, at : 1 .. LineLen] /\ After(usb).n >= usb.n
        /\ (After(usb).at = 1 => After(usb).n = usb.n + 1)
    BY <1>0, AfterUsb
  <2>3. /\ After(After(usb)) \in [n : Nat, at : 1 .. LineLen] /\ After(After(usb)).n >= After(usb).n
        /\ (After(After(usb)).at = 1 => After(After(usb)).n = After(usb).n + 1)
    BY <2>2, AfterUsb
  <2> QED
    BY <1>0, <2>1, <2>2, <2>3
<1>4. CASE CancelBuffer \/ CoreReset
  <2>1. UNCHANGED <<usb, rejected>> /\ headless \subseteq headless'
    BY <1>4 DEF CancelBuffer, CoreReset
  <2> QED
    BY <1>0, <2>1
<1>5. CASE ~(SerialPoll \/ UartError \/ CancelBuffer \/ CoreReset)
  <2>1. UNCHANGED <<usb, headless, rejected>>
    BY <1>5 DEF Next, vars, serialVars, UiSubmit, UiSend, UiCancel, CycleSubmit, CycleDiscard,
                ReadBridge, ReadStale, ReadAcknowledge, ReadOn, ReadNext, ReadNothing, ReadRing,
                Begin, Executed, Operations
  <2> QED
    BY <1>1, <2>1
<1> QED
  BY <1>2, <1>3, <1>4, <1>5

LEMMA RingKept ==
  ASSUME TypeOK, RingInv, UNCHANGED serialVars, line' = line \/ ~lineActive,
         Dropping' => ~lineActive /\ ring \in {<<>>, <<CAN>>}
  PROVE  RingInv'
<1>1. /\ Upcoming' = Upcoming /\ UsbChar' = UsbChar /\ CAN' = CAN
      /\ \A ch : Heard(ch)' <=> Heard(ch)
      /\ \A n : Accepted(n)' <=> Accepted(n)
      /\ UNCHANGED <<usb, ring, lineActive, cycleDropping, dropping, headless, rejected>>
  BY DEF Upcoming, UsbChar, CAN, Heard, Accepted, serialVars, FirstUsb, CanWaits
<1>2. \A i \in DOMAIN ring' :
         \/ i = 1 /\ ring'[i] = CAN'
         \/ /\ Heard(ring[i])' /\ Accepted(ring[i].n)'
            /\ Host(ring'[i]) = IF i = Len(ring') THEN UsbChar' ELSE ring'[i + 1]
  BY <1>1 DEF RingInv, Accepted, Heard
<1>3. lineActive' => /\ line' # <<>> /\ line'[Len(line')].at < LineLen
                     /\ Heard(line[Len(line)])' /\ Accepted(line[Len(line)].n)'
                     /\ Host(line'[Len(line')]) = Upcoming'
  BY <1>1 DEF RingInv, Accepted, Heard
<1>4. ~lineActive' => \/ Upcoming'.at = 1 \/ Upcoming'.n \in headless'
                      \/ cycleDropping' \/ dropping'
  BY <1>1 DEF RingInv
<1> QED
  BY <1>1, <1>2, <1>3, <1>4 DEF RingInv, Accepted, Heard

\* An accepted character joins the ones that wait.
LEMMA RingStore ==
  ASSUME TypeOK, RingInv, SerialPoll, Store
  PROVE  RingInv'
<1>0. /\ ring \in Seq(Chars) /\ Len(ring) \in Nat /\ DOMAIN ring = 1 .. Len(ring)
      /\ LineLen \in Nat /\ LineLen > 1 /\ usb \in [n : Nat, at : 1 .. LineLen]
      /\ usb.n \in Nat \ {0} /\ UsbChar \in Chars /\ UsbChar # CAN
      /\ lineActive \in BOOLEAN
  BY CharTypes, StreamAssumption DEF TypeOK, RingInv
<1>1. /\ ring' = Append(ring, UsbChar) /\ usb' = After(usb) /\ ~Dropping
      /\ UNCHANGED <<line, lineActive, cycleDropping, dropping, headless, rejected, owns, update>>
  BY DEF SerialPoll, Store, Dropping, parserVars, otherVars
<1>2. /\ Len(ring') = Len(ring) + 1 /\ DOMAIN ring' = 1 .. Len(ring) + 1
      /\ ring'[Len(ring) + 1] = UsbChar /\ \A i \in 1 .. Len(ring) : ring'[i] = ring[i]
  BY <1>0, <1>1, AppendProperties
<1>3. /\ usb'.n \in Nat \ {0} /\ usb'.n >= usb.n /\ Host(UsbChar) = UsbChar'
  BY <1>0, <1>1, AfterUsb DEF UsbChar
<1>4. /\ CAN' = CAN /\ (CanWaits' <=> CanWaits) /\ FirstUsb' = FirstUsb /\ FirstUsb \in {1, 2}
  BY <1>1, Cans DEF CAN, FirstUsb
<1>5. Upcoming' = Upcoming
  <2>1. CASE FirstUsb \in DOMAIN ring
    BY <1>0, <1>2, <1>4, <2>1 DEF Upcoming
  <2>2. CASE FirstUsb \notin DOMAIN ring
    <3>1. FirstUsb = Len(ring) + 1
      <4>1. CASE CanWaits
        <5>1. 1 \in DOMAIN ring /\ FirstUsb = 2
          BY <1>0, <4>1, EmptySeq DEF CanWaits, FirstUsb
        <5> QED
          BY <1>0, <2>2, <5>1
      <4>2. CASE ~CanWaits
        BY <1>0, <2>2, <4>2 DEF FirstUsb
      <4> QED
        BY <4>1, <4>2
    <3>2. FirstUsb' \in DOMAIN ring' /\ ring'[FirstUsb'] = UsbChar
      BY <1>0, <1>2, <1>4, <3>1
    <3> QED
      BY <2>2, <3>2 DEF Upcoming
  <2> QED
    BY <2>1, <2>2
\* The character belongs to a line of which no character was rejected.
<1>6. Accepted(usb.n)
  <2>1. CASE usb.at = 1
    BY <2>1 DEF Accepted, RingInv
  <2>2. CASE usb.at # 1 /\ FirstUsb \in DOMAIN ring
    <3>1. Len(ring) \in DOMAIN ring /\ ring[Len(ring)] # CAN
      <4>1. CASE CanWaits
        <5>1. FirstUsb = 2 /\ Len(ring) \in 1 .. Len(ring) /\ Len(ring) # 1
          BY <1>0, <2>2, <4>1 DEF FirstUsb
        <5> QED
          BY <1>0, <5>1 DEF RingInv, Heard, CAN
      <4>2. CASE ~CanWaits
        <5>1. ring # <<>> /\ ring[1] # CAN /\ Len(ring) \in 1 .. Len(ring)
          BY <1>0, <2>2, <4>2, EmptySeq DEF CanWaits, FirstUsb
        <5> QED
          BY <1>0, <5>1 DEF RingInv, Heard, CAN
      <4> QED
        BY <4>1, <4>2
    <3>2. Accepted(ring[Len(ring)].n) /\ Host(ring[Len(ring)]) = UsbChar
      BY <3>1 DEF RingInv
    <3>3. ring[Len(ring)].n = usb.n
      BY <2>2, <3>2 DEF Host, UsbChar
    <3> QED
      BY <3>2, <3>3
  <2>3. CASE usb.at # 1 /\ FirstUsb \notin DOMAIN ring
    <3>1. Upcoming = UsbChar
      BY <2>3 DEF Upcoming
    <3>2. CASE lineActive
      <4>1. Accepted(line[Len(line)].n) /\ Host(line[Len(line)]) = UsbChar
        BY <3>1, <3>2 DEF RingInv
      <4>2. line[Len(line)].n = usb.n
        BY <2>3, <4>1 DEF Host, UsbChar
      <4> QED
        BY <4>1, <4>2
    <3>3. CASE ~lineActive
      <4>1. usb.n \in headless
        BY <1>1, <2>3, <3>1, <3>3 DEF RingInv, Dropping, DropsForOwner, UsbChar
      <4> QED
        BY <4>1 DEF Accepted
    <3> QED
      BY <3>2, <3>3
  <2> QED
    BY <2>1, <2>2, <2>3
<1>7. /\ \A n \in 1 .. usb.n : n \in 1 .. usb'.n
      /\ headless' = headless /\ rejected' = rejected
  BY <1>0, <1>1, <1>3
<1>8. \A i \in DOMAIN ring' :
         \/ i = 1 /\ ring'[i] = CAN'
         \/ /\ Heard(ring[i])' /\ Accepted(ring[i].n)'
            /\ Host(ring'[i]) = IF i = Len(ring') THEN UsbChar' ELSE ring'[i + 1]
  <2> SUFFICES ASSUME NEW i \in 1 .. Len(ring) + 1
               PROVE  \/ i = 1 /\ ring'[i] = CAN'
                      \/ /\ Heard(ring[i])' /\ Accepted(ring[i].n)'
                         /\ Host(ring'[i]) = IF i = Len(ring') THEN UsbChar' ELSE ring'[i + 1]
    BY <1>2
  <2>1. CASE i = Len(ring) + 1
    <3>1. Heard(UsbChar) /\ UsbChar.n = usb.n
      BY <1>0 DEF Heard, UsbChar
    <3>2. ring'[i] = UsbChar /\ i = Len(ring') /\ Host(ring'[i]) = UsbChar'
      BY <1>2, <1>3, <2>1
    <3>3. Heard(ring[i])' /\ Accepted(ring[i].n)'
      BY <1>6, <1>7, <3>1, <3>2 DEF Heard, Accepted
    <3> QED
      BY <3>2, <3>3
  <2>2. CASE i \in 1 .. Len(ring)
    <3>1. ring'[i] = ring[i] /\ ring[i] \in Chars /\ i # Len(ring')
      BY <1>0, <1>2, <2>2
    <3>2. ring'[i + 1] = IF i = Len(ring) THEN UsbChar ELSE ring[i + 1]
      <4>1. CASE i = Len(ring)
        BY <1>2, <4>1
      <4>2. CASE i # Len(ring)
        <5>1. i + 1 \in 1 .. Len(ring)
          <6>1. Len(ring) \in Int /\ i \in Int
            BY <1>0, <2>2
          <6>2. 1 <= i /\ i <= Len(ring)
            BY <2>2, <6>1
          <6> QED
            BY <4>2, <6>1, <6>2
        <5> QED
          BY <1>2, <4>2, <5>1
      <4> QED
        BY <4>1, <4>2
    <3>3. CASE i = 1 /\ ring[i] = CAN
      BY <1>4, <3>1, <3>3
    <3>4. CASE /\ Heard(ring[i]) /\ Accepted(ring[i].n)
               /\ Host(ring[i]) = IF i = Len(ring) THEN UsbChar ELSE ring[i + 1]
      <4>1. Heard(ring[i])' /\ Accepted(ring[i].n)'
        BY <1>7, <3>1, <3>4 DEF Heard, Accepted
      <4> QED
        BY <3>1, <3>2, <3>4, <4>1
    <3> QED
      BY <1>0, <2>2, <3>3, <3>4 DEF RingInv
  <2> QED
    BY <1>0, <2>1, <2>2
<1>9. lineActive' => /\ line' # <<>> /\ line'[Len(line')].at < LineLen
                     /\ Heard(line[Len(line)])' /\ Accepted(line[Len(line)].n)'
                     /\ Host(line'[Len(line')]) = Upcoming'
  BY <1>1, <1>5, <1>7 DEF RingInv, Heard, Accepted
<1>10. ~lineActive' => \/ Upcoming'.at = 1 \/ Upcoming'.n \in headless'
                       \/ cycleDropping' \/ dropping'
  BY <1>1, <1>5 DEF RingInv
<1>11. ~Dropping'
  BY <1>1 DEF Dropping, DropsForOwner
<1>12. rejected' \subseteq 1 .. usb'.n /\ (usb'.at = 1 => usb'.n \notin rejected')
  <2>1. [Next]_vars
    BY DEF Next
  <2> QED
    BY <2>1, UsbGoesOn
<1> QED
  BY <1>3, <1>8, <1>9, <1>10, <1>11, <1>12 DEF RingInv

LEMMA CleanRing ==
  ASSUME ring' \in {<<>>, <<CAN>>}
  PROVE  /\ Upcoming' = UsbChar' /\ CAN' = CAN
         /\ \A i \in DOMAIN ring' : i = 1 /\ ring'[i] = CAN'
<1>1. CAN' = CAN
  BY DEF CAN
<1>2. CASE ring' = <<>>
  <2>1. DOMAIN ring' = {}
    BY <1>2
  <2> QED
    BY <1>1, <2>1 DEF Upcoming
<1>3. CASE ring' = <<CAN>>
  <2>1. DOMAIN ring' = {1} /\ ring'[1] = CAN /\ ring' # <<>>
    BY <1>3
  <2>2. FirstUsb' = 2
    BY <1>1, <2>1 DEF FirstUsb, CanWaits
  <2> QED
    BY <1>1, <2>1, <2>2 DEF Upcoming
<1> QED
  BY <1>2, <1>3

\* A dropped character: nothing waits, and the rest of its line is dropped.
LEMMA RingDrop ==
  ASSUME TypeOK, RingInv, SerialPoll, Reject \/ DropRest
  PROVE  RingInv'
<1>1. Dropping /\ UNCHANGED <<ring, lineActive>> /\ usb' = After(usb)
  BY DEF Reject, DropRest, Dropping, SerialPoll
<1>2. lineActive' = FALSE /\ ring' \in {<<>>, <<CAN>>}
  BY <1>1 DEF RingInv, TypeOK
<1>3. UsbChar'.at = 1 \/ cycleDropping' \/ dropping'
  <2>1. usb \in [n : Nat, at : 1 .. LineLen] /\ UsbChar'.at = usb'.at
    BY DEF TypeOK, UsbChar
  <2>2. EndsLine(UsbChar) => usb'.at = 1
    BY <1>1, <2>1, AfterType DEF EndsLine, UsbChar
  <2> QED
    BY <2>1, <2>2 DEF Reject, DropRest
<1>4. /\ usb'.n \in Nat \ {0} /\ rejected' \subseteq 1 .. usb'.n
      /\ usb'.at = 1 => usb'.n \notin rejected'
  <2>1. [Next]_vars
    BY DEF Next
  <2> QED
    BY <2>1, UsbGoesOn
<1> QED
  BY <1>2, <1>3, <1>4, CleanRing DEF RingInv

\* A flush: the line that arrives goes on without its beginning.
LEMMA RingFlush ==
  ASSUME TypeOK, RingInv,
         UartError \/ CancelBuffer \/ CoreReset \/ (SerialPoll /\ Overflow)
  PROVE  RingInv'
<1>1. lineActive' = FALSE /\ ring' \in {<<>>, <<CAN>>}
  BY FlushEffect
<1>2. UsbChar'.at = 1 \/ UsbChar'.n \in headless' \/ dropping'
  <2>1. usb \in [n : Nat, at : 1 .. LineLen] /\ UsbChar'.at = usb'.at /\ UsbChar'.n = usb'.n
    BY DEF TypeOK, UsbChar
  <2>2. CASE UartError
    <3>1. usb'.at \in 1 .. LineLen
      BY <2>1, <2>2, AfterType DEF UartError
    <3>2. headless' = headless \cup Arriving(usb) \cup Arriving(usb')
      BY <2>2 DEF UartError
    <3> QED
      BY <2>1, <3>1, <3>2, StreamAssumption DEF Arriving
  <2>3. CASE CancelBuffer \/ CoreReset
    <3>1. headless' = headless \cup Arriving(usb) /\ usb' = usb
      BY <2>3 DEF CancelBuffer, CoreReset
    <3> QED
      BY <2>1, <3>1, StreamAssumption DEF Arriving
  <2>4. CASE Overflow
    BY <2>4 DEF Overflow, Flush
  <2> QED
    BY <2>2, <2>3, <2>4
<1>3. /\ usb'.n \in Nat \ {0} /\ rejected' \subseteq 1 .. usb'.n
      /\ usb'.at = 1 => usb'.n \notin rejected'
  <2>1. [Next]_vars
    BY DEF Next
  <2> QED
    BY <2>1, UsbGoesOn
<1> QED
  BY <1>1, <1>2, <1>3, CleanRing DEF RingInv

\* The first character that waits reaches the parser.
LEMMA RingRead ==
  ASSUME TypeOK, RingInv, TurnInv, ReadRing
  PROVE  RingInv'
<1>0. /\ ring \in Seq(Chars) /\ Len(ring) \in Nat /\ DOMAIN ring = 1 .. Len(ring) /\ Len(ring) # 0
      /\ LineLen \in Nat /\ LineLen > 1
  BY StreamAssumption, EmptySeq DEF TypeOK, ReadRing
<1>1. /\ ring # <<>> /\ ring' = Tail(ring) /\ Deliver(ring[1]) /\ ring[1] \in Chars
      /\ lineActive' = (ring[1] # CAN /\ ~EndsLine(ring[1])) /\ line \in Seq(Chars)
      /\ UNCHANGED <<cycleDropping, dropping, usb, headless, rejected, owns, update>>
  BY OneCan DEF ReadRing, otherVars, TypeOK
<1>2. /\ Len(ring') = Len(ring) - 1 /\ DOMAIN ring' = 1 .. Len(ring) - 1
      /\ \A i \in 1 .. Len(ring) - 1 : ring'[i] = ring[i + 1] /\ Heard(ring[i + 1])
      /\ ring' # <<>> => ring'[1] # CAN
  BY <1>0, <1>1, OneCan
<1>3. CAN' = CAN /\ UsbChar' = UsbChar /\ ~CanWaits' /\ FirstUsb' = 1
  BY <1>1, <1>2 DEF CAN, UsbChar, CanWaits, FirstUsb
<1>4. Upcoming' = IF Len(ring) = 1 THEN UsbChar ELSE ring[2]
  BY <1>0, <1>2, <1>3 DEF Upcoming
<1>5. \A i \in DOMAIN ring' :
         /\ Heard(ring[i])' /\ Accepted(ring[i].n)'
         /\ Host(ring'[i]) = IF i = Len(ring') THEN UsbChar' ELSE ring'[i + 1]
  <2> SUFFICES ASSUME NEW i \in 1 .. Len(ring) - 1
               PROVE  /\ Heard(ring[i])' /\ Accepted(ring[i].n)'
                      /\ Host(ring'[i]) = IF i = Len(ring') THEN UsbChar' ELSE ring'[i + 1]
    BY <1>2
  <2>1. i + 1 \in DOMAIN ring /\ i + 1 # 1 /\ ring'[i] = ring[i + 1]
    BY <1>0, <1>2
  <2>2. /\ Heard(ring[i + 1]) /\ Accepted(ring[i + 1].n)
        /\ Host(ring[i + 1]) = IF i + 1 = Len(ring) THEN UsbChar ELSE ring[i + 1 + 1]
    BY <2>1 DEF RingInv
  <2>3. Heard(ring[i])' /\ Accepted(ring[i].n)'
    BY <1>1, <2>1, <2>2 DEF Heard, Accepted
  <2>4. /\ i = Len(ring') <=> i + 1 = Len(ring)
        /\ i # Len(ring') => ring'[i + 1] = ring[i + 1 + 1]
    <3>1. i = Len(ring') <=> i + 1 = Len(ring)
      BY <1>0, <1>2
    <3>2. i # Len(ring') => i + 1 \in 1 .. Len(ring) - 1
      <4>1. Len(ring') = Len(ring) - 1 /\ Len(ring) \in Nat /\ i \in Int
        BY <1>0, <1>2
      <4>2. i <= Len(ring) - 1 /\ 1 <= i
        BY <4>1
      <4> QED
        BY <4>1, <4>2
    <3> QED
      BY <1>2, <3>1, <3>2
  <2> QED
    BY <1>3, <2>1, <2>2, <2>3, <2>4
<1>6. Dropping' => ~lineActive' /\ ring' \in {<<>>, <<CAN>>}
  <2> SUFFICES ASSUME Dropping' PROVE ~lineActive' /\ ring' = <<>>
    OBVIOUS
  <2>1. Dropping
    BY <1>1 DEF Dropping, DropsForOwner
  <2>2. ring = <<CAN>>
    BY <1>1, <2>1 DEF RingInv
  <2>3. Len(ring) = 1 /\ ring[1] = CAN
    BY <2>2
  <2>4. ring' \in Seq(Chars) /\ Len(ring') = 0
    BY <1>1, <1>2, <2>3, OneCan
  <2> QED
    BY <1>1, <2>3, <2>4, EmptySeq
<1>7. CASE ring[1] = CAN
  <2>1. lineActive' = FALSE /\ CanWaits /\ ~lineActive
    BY <1>1, <1>7 DEF CanWaits, TurnInv
  <2>2. Upcoming' = Upcoming
    <3>1. FirstUsb = 2
      BY <2>1 DEF FirstUsb
    <3> QED
      BY <1>0, <1>4, <3>1 DEF Upcoming
  <2>3. \/ Upcoming'.at = 1 \/ Upcoming'.n \in headless'
        \/ cycleDropping' \/ dropping'
    BY <1>1, <2>1, <2>2 DEF RingInv
  <2> QED
    BY <1>1, <1>5, <1>6, <2>1, <2>3 DEF RingInv
<1>8. CASE ring[1] # CAN
  <2>1. /\ Heard(ring[1]) /\ Accepted(ring[1].n)
        /\ Host(ring[1]) = Upcoming'
    <3>1. 1 \in DOMAIN ring
      BY <1>0
    <3>2. /\ Heard(ring[1]) /\ Accepted(ring[1].n)
          /\ Host(ring[1]) = IF 1 = Len(ring) THEN UsbChar ELSE ring[1 + 1]
      BY <1>8, <3>1 DEF RingInv
    <3> QED
      BY <1>4, <3>2
  <2>2. line' # <<>> /\ line'[Len(line')] = ring[1]
    BY <1>1, <1>8, Delivered
  <2>3. lineActive' => /\ line' # <<>> /\ line'[Len(line')].at < LineLen
                       /\ Heard(line[Len(line)])' /\ Accepted(line[Len(line)].n)'
                       /\ Host(line'[Len(line')]) = Upcoming'
    <3>1. lineActive' => ring[1].at < LineLen
      <4>1. lineActive' => ring[1].at # LineLen
        BY <1>1 DEF EndsLine
      <4> QED
        BY <1>0, <2>1, <4>1 DEF Heard
    <3>2. Heard(line[Len(line)])' /\ Accepted(line[Len(line)].n)'
      BY <1>1, <2>1, <2>2 DEF Heard, Accepted
    <3> QED
      BY <2>1, <2>2, <3>1, <3>2
  <2>4. ~lineActive' => Upcoming'.at = 1
    <3>1. ~lineActive' => ring[1].at = LineLen
      BY <1>1, <1>8 DEF EndsLine
    <3> QED
      BY <2>1, <3>1 DEF Host
  <2> QED
    BY <1>1, <1>5, <1>6, <2>3, <2>4 DEF RingInv
<1> QED
  BY <1>7, <1>8

LEMMA RingStep ==
  ASSUME TypeOK, TurnInv, RingInv, [Next]_vars
  PROVE  RingInv'
<1>0. UNCHANGED <<owns, update, cycleDropping, dropping>> => (Dropping' <=> Dropping)
  BY DEF Dropping, DropsForOwner
<1>1. CASE UiSubmit \/ UiSend \/ UiCancel \/ CycleSubmit \/ CycleDiscard \/ Begin \/ UNCHANGED vars
  <2>1. UNCHANGED <<serialVars, otherVars, line>>
    BY <1>1 DEF UiSubmit, UiSend, UiCancel, CycleSubmit, CycleDiscard, Begin, vars, parserVars
  <2> QED
    BY <1>0, <2>1, RingKept DEF RingInv, serialVars, otherVars
<1>2. CASE ReadBridge \/ ReadStale \/ ReadAcknowledge \/ ReadOn \/ ReadNext \/ ReadNothing \/ Executed
  <2>1. UNCHANGED <<serialVars, otherVars>>
    BY <1>2 DEF ReadBridge, ReadStale, ReadAcknowledge, ReadOn, ReadNext, ReadNothing, Executed
  <2>2. line' = line \/ parser \in {"bridge", "run"}
    BY <1>2 DEF ReadBridge, ReadStale, ReadAcknowledge, ReadOn, ReadNext, ReadNothing, Executed
  <2>3. line' = line \/ ~lineActive
    BY <2>2 DEF TurnInv
  <2> QED
    BY <1>0, <2>1, <2>3, RingKept DEF RingInv, serialVars, otherVars
<1>3. CASE Operations
  <2>1. UNCHANGED serialVars /\ line' = line
    BY <1>3 DEF Operations, parserVars
  <2>2. Dropping' => Dropping \/ ~SerialPending
    BY <1>3, <2>1 DEF Operations, CycleRequest, CycleBegin, CycleEnd, UpdateBegin, UpdateEnd,
                      AskReset, Dropping, DropsForOwner, serialVars
  <2>3. Dropping' => ~lineActive /\ ring \in {<<>>, <<CAN>>}
    BY <2>2 DEF SerialPending, RingInv
  <2> QED
    BY <2>1, <2>3, RingKept
<1>4. CASE UartError \/ CancelBuffer \/ CoreReset
  BY <1>4, RingFlush
<1>5. CASE SerialPoll
  <2>1. Reject \/ DropRest \/ Store \/ Overflow
    BY <1>5 DEF SerialPoll
  <2> QED
    BY <1>5, <2>1, RingDrop, RingStore, RingFlush
<1>6. CASE ReadRing
  BY <1>6, RingRead
<1> QED
  BY <1>1, <1>2, <1>3, <1>4, <1>5, <1>6 DEF Next

-----------------------------------------------------------------------------
(* The line.                                                               *)

LEMMA UsbPartKept ==
  ASSUME TypeOK, RingInv, [Next]_vars, line' = line, UsbPart,
         rejected' = rejected \/ (line # <<>> /\ line[Len(line)].n < usb.n)
  PROVE  UsbPart'
<1>1. PICK n \in Nat, first \in 1 .. LineLen :
        /\ From("usb", n, first) /\ n <= usb.n /\ Accepted(n)
        /\ first = 1 \/ n \in headless
  BY DEF UsbPart
<1>2. usb'.n \in Nat /\ usb.n \in Nat /\ usb'.n >= usb.n /\ headless \subseteq headless'
      /\ (rejected' = rejected \/ rejected' = rejected \cup {usb.n})
  BY UsbGoesOn DEF TypeOK
<1>3. n <= usb'.n
  BY <1>1, <1>2
<1>4. Accepted(n)'
  <2>1. CASE rejected' = rejected
    BY <1>1, <1>2, <2>1 DEF Accepted
  <2>2. CASE line # <<>> /\ line[Len(line)].n < usb.n
    <3>1. Len(line) \in DOMAIN line
      BY <2>2, EmptySeq DEF TypeOK
    <3>2. line[Len(line)] = Char("usb", n, first + Len(line) - 1)
      BY <1>1, <3>1 DEF From
    <3>3. n # usb.n
      BY <1>2, <2>2, <3>2
    <3> QED
      BY <1>1, <1>2, <3>3 DEF Accepted
  <2> QED
    BY <2>1, <2>2
<1>5. From("usb", n, first)'
  BY <1>1 DEF From
<1> QED
  BY <1>1, <1>2, <1>3, <1>4, <1>5 DEF UsbPart

LEMMA CompleteKept ==
  ASSUME TypeOK, RingInv, [Next]_vars, line' = line, line # <<>>, current'.id = current.id,
         CompleteLine
  PROVE  CompleteLine'
<1>1. CASE line = <<Newline>>
  BY <1>1 DEF CompleteLine, Newline
<1>2. CASE FromBridge /\ Len(line) = LineLen /\ UiPart
  BY <1>2 DEF CompleteLine, FromBridge, UiPart, From
<1>3. CASE /\ ~FromBridge /\ UsbPart /\ line[Len(line)].at = LineLen
           /\ line[Len(line)].n < usb.n
  <2>1. UsbPart'
    BY <1>3, UsbPartKept
  <2>2. line[Len(line)].n < usb'.n
    <3>1. line[Len(line)] \in Chars
      BY EmptySeq DEF TypeOK
    <3>2. line[Len(line)].n \in Nat
      BY <3>1 DEF Chars
    <3>3. usb.n \in Nat /\ usb'.n \in Nat /\ usb'.n >= usb.n
      BY UsbGoesOn DEF TypeOK
    <3> QED
      BY <1>3, <3>2, <3>3
  <2> QED
    BY <1>3, <2>1, <2>2 DEF CompleteLine, FromBridge
<1> QED
  BY <1>1, <1>2, <1>3 DEF CompleteLine

\* Steps that leave the line alone, and steps that clear it.
LEMMA LineKept ==
  ASSUME TypeOK, RingInv, LineInv, [Next]_vars, line' = line, current'.id = current.id,
         Settled' /\ ~Complete' =>
            Settled /\ ~Complete /\ UNCHANGED <<active, lineActive, current>>,
         parser' = "run" \/ (parser' = "line" /\ ~reset') =>
            parser = "run" \/ (parser = "line" /\ ~reset)
  PROVE  LineInv'
<1>1. ASSUME Settled', ~Complete'
      PROVE  /\ active' => Len(line') = current'.offset /\ UiPart'
             /\ lineActive' => UsbPart'
             /\ ~active' /\ ~lineActive' => line' = <<>>
  <2>1. Settled /\ ~Complete /\ UNCHANGED <<active, lineActive, current>>
    BY <1>1
  <2>2. active' => Len(line') = current'.offset /\ UiPart'
    BY <2>1 DEF LineInv, UiPart, From
  <2>3. lineActive' => UsbPart'
    <3> SUFFICES ASSUME lineActive' PROVE UsbPart'
      OBVIOUS
    <3>1. UsbPart
      BY <2>1 DEF LineInv
    <3>2. rejected' = rejected
      BY UsbGoesOn
    <3> QED
      BY <3>1, <3>2, UsbPartKept
  <2>4. ~active' /\ ~lineActive' => line' = <<>>
    BY <2>1 DEF LineInv
  <2> QED
    BY <2>2, <2>3, <2>4
<1>2. ASSUME parser' = "run" \/ (parser' = "line" /\ ~reset')
      PROVE  CompleteLine'
  <2>1. CompleteLine /\ line # <<>>
    BY <1>2 DEF LineInv, TypeOK
  <2> QED
    BY <2>1, CompleteKept
<1> QED
  BY <1>1, <1>2 DEF LineInv

LEMMA LineCleared ==
  ASSUME line' = <<>>, parser' = "read", ~active', ~lineActive'
  PROVE  LineInv'
BY DEF LineInv

\* A character of a queued line joins what the parser has of it.
LEMMA LineFromBridge ==
  ASSUME TypeOK, NEW r \in Request, r.offset \in 0 .. LineLen - 1, ReadFrom(r),
         lineActive' = FALSE,
         Settled' => Len(line) = r.offset /\ From("ui", r.id, 1),
         ~reset' => Settled'
  PROVE  LineInv'
<1>1. /\ current'.id = r.id /\ current'.offset = r.offset + 1
      /\ Len(line') = Len(line) + 1 /\ line'[Len(line')] = Char("ui", r.id, r.offset + 1)
      /\ \A i \in 1 .. Len(line) : line'[i] = line[i]
      /\ \/ /\ r.offset + 1 = LineLen /\ active' = FALSE /\ parser' = "line"
         \/ /\ r.offset + 1 < LineLen /\ active' = TRUE /\ parser' = "read"
      /\ line' \in Seq(Chars)
  <2>1. line' \in Seq(Chars)
    <3>1. r.id \in Nat /\ r.offset + 1 \in 1 .. LineLen
      BY StreamAssumption DEF Request
    <3>2. Char("ui", r.id, r.offset + 1) \in Chars /\ Deliver(Char("ui", r.id, r.offset + 1))
      BY <3>1, CharTypes DEF ReadFrom
    <3> QED
      BY <3>2, Delivered DEF TypeOK
  <2> QED
    BY <2>1, ReadFromEffect
<1>2. ASSUME Settled'
      PROVE  UiPart' /\ Len(line') = r.offset + 1
  <2>1. Len(line') = r.offset + 1 /\ Len(line) = r.offset /\ r.offset \in Nat
    BY <1>1, <1>2
  <2>2. ASSUME NEW i \in DOMAIN line'
        PROVE  line'[i] = Char("ui", current'.id, 1 + i - 1)
    <3>1. i \in 1 .. r.offset + 1 /\ 1 + i - 1 = i
      BY <1>1, <2>1
    <3>2. CASE i = r.offset + 1
      BY <1>1, <2>1, <3>1, <3>2
    <3>3. CASE i # r.offset + 1
      <4>1. i \in 1 .. Len(line) /\ i \in DOMAIN line
        <5>1. i \in 1 .. r.offset
          BY <2>1, <3>1, <3>3
        <5>2. DOMAIN line = 1 .. Len(line)
          BY DEF TypeOK
        <5> QED
          BY <2>1, <5>1, <5>2
      <4>2. line[i] = Char("ui", r.id, 1 + i - 1)
        BY <1>2, <4>1 DEF From
      <4> QED
        BY <1>1, <4>1, <4>2
    <3> QED
      BY <3>2, <3>3
  <2> QED
    BY <2>1, <2>2 DEF UiPart, From
<1>3. FromBridge'
  BY <1>1 DEF FromBridge
<1>4. ASSUME parser' = "line", ~reset'
      PROVE  CompleteLine'
  BY <1>1, <1>2, <1>3, <1>4 DEF CompleteLine
<1> QED
  BY <1>1, <1>2, <1>4 DEF LineInv, Complete

\* A USB character goes on where the parser is.
LEMMA LineFromRing ==
  ASSUME TypeOK, TurnInv, RingInv, LineInv, ReadRing
  PROVE  LineInv'
<1>0. /\ ring \in Seq(Chars) /\ Len(ring) \in Nat /\ DOMAIN ring = 1 .. Len(ring) /\ Len(ring) # 0
      /\ line \in Seq(Chars) /\ DOMAIN line = 1 .. Len(line) /\ Len(line) \in Nat
      /\ LineLen \in Nat /\ LineLen > 1 /\ usb.n \in Nat
  BY StreamAssumption, EmptySeq DEF TypeOK, ReadRing
<1>1. /\ ring # <<>> /\ Deliver(ring[1]) /\ ring[1] \in Chars /\ parser = "read"
      /\ lineActive' = (ring[1] # CAN /\ ~EndsLine(ring[1])) /\ active' = FALSE /\ active = FALSE
      /\ UNCHANGED <<usb, headless, rejected, reset, current>>
  BY OneCan DEF ReadRing, otherVars, bridgeVars, BridgesTurn, BridgeActive, TypeOK
<1>2. CASE ring[1] = CAN
  <2>1. line' = <<>> /\ parser' = "read" /\ lineActive' = FALSE
    BY <1>0, <1>1, <1>2, Delivered
  <2> QED
    BY <1>1, <2>1, LineCleared
<1>3. CASE ring[1] # CAN
  <2>1. ~CanWaits /\ ring[1] = Upcoming /\ Heard(ring[1]) /\ Accepted(ring[1].n)
    <3>1. ~CanWaits /\ FirstUsb = 1 /\ 1 \in DOMAIN ring
      BY <1>0, <1>3 DEF CanWaits, FirstUsb
    <3> QED
      BY <1>3, <3>1 DEF Upcoming, RingInv
  <2>2. /\ Len(line') = Len(line) + 1 /\ line' \in Seq(Chars) /\ line'[Len(line')] = ring[1]
        /\ \A i \in 1 .. Len(line) : line'[i] = line[i]
        /\ parser' \in {"read", "line"} /\ (parser' = "line" <=> EndsLine(ring[1]))
    BY <1>0, <1>1, <1>3, Delivered
  <2>3. /\ ring[1].n \in Nat /\ ring[1].n <= usb.n /\ ring[1].at \in 1 .. LineLen
        /\ ring[1] = Char("usb", ring[1].n, ring[1].at)
    BY <1>0, <1>1, <2>1 DEF Heard, Chars
  <2>4. ASSUME ~reset
        PROVE  UsbPart'
    <3>1. Settled /\ ~Complete
      BY <1>1, <2>1, <2>4 DEF Settled, Complete
    <3>2. CASE lineActive
      <4>1. PICK n \in Nat, first \in 1 .. LineLen :
              /\ From("usb", n, first) /\ n <= usb.n /\ Accepted(n)
              /\ first = 1 \/ n \in headless
        BY <3>1, <3>2 DEF LineInv, UsbPart
      <4>2. Len(line) \in DOMAIN line /\ line[Len(line)].at < LineLen /\ Host(line[Len(line)]) = ring[1]
        BY <1>0, <2>1, <3>2, EmptySeq DEF RingInv
      <4>3. line[Len(line)] = Char("usb", n, first + Len(line) - 1)
        BY <4>1, <4>2 DEF From
      <4>4. ring[1] = Char("usb", n, first + (Len(line) + 1) - 1)
        <5>1. line[Len(line)].n = n /\ line[Len(line)].at = first + Len(line) - 1
          BY <4>3
        <5>2. ring[1] = Char("usb", n, (first + Len(line) - 1) + 1)
          BY <1>0, <4>2, <5>1 DEF Host
        <5>3. (first + Len(line) - 1) + 1 = first + (Len(line) + 1) - 1
          BY <1>0
        <5> QED
          BY <5>2, <5>3
      <4>5. From("usb", n, first)'
        <5> SUFFICES ASSUME NEW i \in 1 .. Len(line) + 1
                     PROVE  line'[i] = Char("usb", n, first + i - 1)
          BY <2>2 DEF From
        <5>1. CASE i = Len(line) + 1
          BY <2>2, <4>4, <5>1
        <5>2. CASE i # Len(line) + 1
          <6>1. i \in 1 .. Len(line)
            BY <1>0, <5>2
          <6> QED
            BY <1>0, <2>2, <4>1, <6>1 DEF From
        <5> QED
          BY <5>1, <5>2
      <4> QED
        BY <1>1, <4>1, <4>5 DEF UsbPart, Accepted
    <3>3. CASE ~lineActive
      <4>1. line = <<>>
        BY <1>1, <3>1, <3>3 DEF LineInv
      <4>2. Len(line') = 1 /\ line'[1] = ring[1]
        BY <2>2, <4>1
      <4>3. PICK c \in Chars : c = ring[1]
        BY <1>1
      <4>5. /\ c.n \in Nat /\ c.at \in 1 .. LineLen /\ c = Char("usb", c.n, c.at)
            /\ c.n <= usb.n /\ Accepted(c.n)
        BY <2>1, <2>3, <4>3
      <4>6. From("usb", c.n, c.at)'
        <5>1. \A i \in DOMAIN line' : i = 1
          <6>1. line' \in Seq(Chars)
            BY <2>2
          <6>2. DOMAIN line' = 1 .. Len(line')
            BY <6>1
          <6> QED
            BY <4>2, <6>2
        <5>2. line'[1] = c /\ c.at + 1 - 1 = c.at
          BY <1>0, <4>2, <4>3, <4>5
        <5>3. line'[1] = Char("usb", c.n, c.at + 1 - 1)
          BY <4>5, <5>2
        <5> QED
          BY <5>1, <5>3 DEF From
      <4>4. ring[1].at = 1 \/ ring[1].n \in headless
        <5>1. ~Dropping
          <6>1. ring # <<>> /\ ring # <<CAN>>
            BY <1>1, <1>3
          <6> QED
            BY <6>1 DEF RingInv
        <5> QED
          BY <2>1, <3>3, <5>1 DEF RingInv, Dropping, DropsForOwner
      <4> QED
        BY <1>1, <4>3, <4>4, <4>5, <4>6 DEF UsbPart, Accepted
    <3> QED
      BY <3>2, <3>3
  <2>5. ASSUME parser' = "line", ~reset
        PROVE  CompleteLine'
    <3>1. ~FromBridge'
      BY <2>2, <2>3 DEF FromBridge
    <3>2. line'[Len(line')].at = LineLen
      BY <2>2, <2>5 DEF EndsLine
    <3>3. line'[Len(line')].n < usb'.n
      <4>1. 1 \in DOMAIN ring
        BY <1>0
      <4>2. Host(ring[1]) = IF 1 = Len(ring) THEN UsbChar ELSE ring[1 + 1]
        BY <1>3, <4>1 DEF RingInv
      <4>3. Host(ring[1]).n = ring[1].n + 1
        BY <2>2, <3>2 DEF Host
      <4>4. Host(ring[1]).n <= usb.n
        <5>1. CASE 1 = Len(ring)
          BY <1>0, <4>2, <5>1 DEF UsbChar
        <5>2. CASE 1 # Len(ring)
          <6>1. Heard(ring[1 + 1])
            <7>1. 1 \in 1 .. Len(ring) - 1
              BY <1>0, <5>2
            <7> QED
              BY <1>1, <7>1, OneCan
          <6> QED
            BY <1>0, <4>2, <5>2, <6>1 DEF Heard
        <5> QED
          BY <5>1, <5>2
      <4> QED
        BY <1>0, <1>1, <2>2, <2>3, <4>3, <4>4
    <3> QED
      BY <2>4, <2>5, <3>1, <3>2, <3>3 DEF CompleteLine
  <2>6. ~active' /\ (parser' = "read" => lineActive')
    BY <1>1, <1>3, <2>2
  <2>7. reset' = reset
    BY <1>1
  <2> QED
    BY <2>2, <2>4, <2>5, <2>6, <2>7 DEF LineInv, Settled, Complete
<1> QED
  BY <1>2, <1>3

LEMMA LineStep ==
  ASSUME TypeOK, TurnInv, RequestInv, RingInv, LineInv, [Next]_vars
  PROVE  LineInv'
<1>1. CASE UiSubmit \/ UiSend \/ UiCancel \/ CycleSubmit \/ CycleDiscard \/ UNCHANGED vars
  <2>1. UNCHANGED <<bridgeVars, serialVars, parserVars, otherVars>>
    BY <1>1 DEF UiSubmit, UiSend, UiCancel, CycleSubmit, CycleDiscard, vars
  <2> QED
    BY <2>1, Cans, LineKept DEF bridgeVars, serialVars, parserVars, otherVars, Settled, Complete
<1>2. CASE Operations
  <2>1. UNCHANGED <<bridgeVars, serialVars, parserVars>> /\ (reset' = reset \/ reset' = TRUE)
    BY <1>2 DEF Operations, CycleRequest, CycleBegin, CycleEnd, UpdateBegin, UpdateEnd, AskReset
  <2> QED
    BY <2>1, Cans, LineKept DEF bridgeVars, serialVars, parserVars, Settled, Complete
<1>3. CASE SerialPoll /\ (Reject \/ DropRest \/ Store)
  <2>1. /\ UNCHANGED <<bridgeVars, parserVars, lineActive, reset>>
        /\ ring' = ring \/ ring' = Append(ring, UsbChar)
    BY <1>3 DEF SerialPoll, Reject, DropRest, Store, otherVars
  <2> QED
    BY <2>1, Cans, LineKept DEF bridgeVars, parserVars, Settled, Complete
<1>4. CASE UartError \/ CancelBuffer \/ CoreReset \/ (SerialPoll /\ Overflow)
  <2>1. current' = current /\ active' = FALSE /\ lineActive' = FALSE
    BY <1>4, FlushEffect, FlushBridgeType
  <2>2. CASE UNCHANGED parserVars /\ (reset' = TRUE \/ (ring' = <<CAN>> /\ reset' = reset))
    <3>1. ~Settled'
      BY <2>2, Cans DEF Settled
    <3> QED
      BY <2>1, <2>2, <3>1, LineKept DEF parserVars
  <2>3. CASE line' = <<>> /\ parser' = "read"
    BY <2>1, <2>3, LineCleared
  <2> QED
    BY <1>4, <2>2, <2>3, FlushEffect
<1>5. CASE Begin
  <2>1. /\ parser = "line" /\ parser' = "run" /\ ~reset /\ UNCHANGED <<line, bridgeVars>>
    BY <1>5 DEF Begin
  <2> QED
    BY <2>1, LineKept DEF bridgeVars, Complete
<1>6. CASE Executed
  <2>1. line' = <<>> /\ parser' = "read" /\ parser = "run" /\ active' = active /\ lineActive' = lineActive
    BY <1>6 DEF Executed, Report, serialVars
  <2> QED
    BY <2>1, LineCleared DEF TurnInv, Complete
<1>7. CASE ReadBridge \/ ReadNothing
  <2>1. /\ UNCHANGED <<line, active, current, serialVars, otherVars>>
        /\ parser \in {"read", "bridge"} /\ parser' \in {"read", "bridge"}
    BY <1>7 DEF ReadBridge, ReadNothing, bridgeVars
  <2> QED
    BY <2>1, Cans, LineKept DEF serialVars, otherVars, Settled, Complete
<1>8. ASSUME parser = "bridge", UNCHANGED <<serialVars, otherVars>>
      PROVE  /\ ~CanWaits /\ ~CanWaits' /\ ~lineActive /\ lineActive' = FALSE /\ ~Complete
             /\ reset' = reset
  BY <1>8, Cans DEF TurnInv, serialVars, otherVars, TypeOK, Complete
<1>9. CASE ReadStale
  <2>1. parser = "bridge" /\ UNCHANGED <<serialVars, otherVars>> /\ active' = FALSE
    BY <1>9 DEF ReadStale
  <2>2. line' = <<>> /\ parser' = "read"
    BY <1>9, CharTypes, Delivered DEF ReadStale, TypeOK
  <2> QED
    BY <1>8, <2>1, <2>2, LineCleared
<1>10. CASE ReadAcknowledge
  <2>1. /\ parser = "bridge" /\ UNCHANGED <<serialVars, otherVars>> /\ ackError
        /\ line' = Append(line, Newline) /\ parser' = "line"
    BY <1>10, CharTypes DEF ReadAcknowledge, Deliver
  <2>2. ASSUME ~reset'
        PROVE  line' = <<Newline>>
    <3>1. Settled /\ ~Complete /\ ~active /\ ~lineActive
      BY <1>8, <2>1, <2>2 DEF Settled, TurnInv
    <3>2. line = <<>>
      BY <3>1 DEF LineInv
    <3> QED
      BY <2>1, <3>2
  <2>3. ~reset' => CompleteLine'
    BY <2>2 DEF CompleteLine, Newline
  <2> QED
    BY <2>1, <2>3 DEF LineInv, Complete
<1>11. CASE ReadOn
  <2>1. /\ parser = "bridge" /\ UNCHANGED <<serialVars, otherVars>> /\ active /\ ReadFrom(current)
    BY <1>11 DEF ReadOn
  <2>2. current \in Request /\ current.offset \in 0 .. LineLen - 1
    BY <2>1, StreamAssumption DEF TurnInv, TypeOK
  <2>3. ~reset' => Settled' /\ Settled /\ ~Complete
    BY <1>8, <2>1 DEF Settled
  <2>4. Settled' => Len(line) = current.offset /\ From("ui", current.id, 1)
    BY <2>1, <2>3 DEF LineInv, UiPart, Settled
  <2> QED
    BY <1>8, <2>1, <2>2, <2>3, <2>4, LineFromBridge
<1>12. CASE ReadNext
  <2>1. PICK k \in Live : ReadFrom(commands[k])
    BY <1>12 DEF ReadNext
  <2>2. commands[k] \in Request /\ commands[k].offset = 0 /\ 0 \in 0 .. LineLen - 1
    BY Requests, StreamAssumption DEF RequestInv, Live
  <2>3. /\ parser = "bridge" /\ UNCHANGED <<serialVars, otherVars>> /\ ~active
    BY <1>12 DEF ReadNext
  <2>4. ~reset' => Settled' /\ Settled /\ ~Complete
    BY <1>8, <2>3 DEF Settled
  <2>5. Settled' => line = <<>>
    BY <1>8, <2>3, <2>4 DEF LineInv, Settled
  <2>6. Settled' => Len(line) = commands[k].offset /\ From("ui", commands[k].id, 1)
    BY <2>2, <2>5 DEF From
  <2> QED
    BY <1>8, <2>1, <2>2, <2>3, <2>4, <2>6, LineFromBridge
<1>13. CASE ReadRing
  BY <1>13, LineFromRing
<1>14. CASE SerialPoll
  <2>1. Reject \/ DropRest \/ Store \/ Overflow
    BY <1>14 DEF SerialPoll
  <2> QED
    BY <1>3, <1>4, <1>14, <2>1
<1> QED
  BY <1>1, <1>2, <1>4, <1>5, <1>6, <1>7, <1>9, <1>10, <1>11, <1>12, <1>13, <1>14 DEF Next

-----------------------------------------------------------------------------
(* The acknowledgement of a refused line.                                  *)

LEMMA RefusedStep ==
  ASSUME TypeOK, TurnInv, RequestInv, RingInv, LineInv, RefusedInv, [Next]_vars
  PROVE  RefusedInv'
\* An error that is kept is one that the old state accounted for.
<1>0. ASSUME refused' = refused, line' = line,
             Complete' => Complete, ~Complete' => ~Complete,
             ~Complete' => ((ackError \/ CanWaits \/ reset) => (ackError' \/ CanWaits' \/ reset')),
             parser' = "run" \/ (parser' = "line" /\ ~reset') =>
                parser = "run" \/ (parser = "line" /\ ~reset)
      PROVE  RefusedInv'
  BY <1>0 DEF RefusedInv, Newline
<1>1. CASE \/ UiSubmit \/ UiSend \/ UiCancel \/ CycleSubmit \/ CycleDiscard \/ Operations
           \/ ReadBridge \/ ReadNothing \/ UNCHANGED vars
  <2>1. /\ UNCHANGED <<line, refused, ackError, ring>> /\ (reset' = reset \/ reset' = TRUE)
        /\ \/ parser' = parser
           \/ parser \in {"read", "bridge"} /\ parser' \in {"read", "bridge"}
    BY <1>1 DEF UiSubmit, UiSend, UiCancel, CycleSubmit, CycleDiscard, Operations, CycleRequest,
                CycleBegin, CycleEnd, UpdateBegin, UpdateEnd, AskReset, ReadBridge, ReadNothing,
                vars, bridgeVars, serialVars, parserVars, otherVars
  <2> QED
    BY <1>0, <2>1, Cans DEF Complete
<1>2. CASE SerialPoll /\ (Reject \/ DropRest \/ Store)
  <2>1. /\ UNCHANGED <<parserVars, ackError, reset>>
        /\ ring' = ring \/ ring' = Append(ring, UsbChar)
    BY <1>2 DEF SerialPoll, Reject, DropRest, Store, otherVars, bridgeVars
  <2> QED
    BY <1>0, <2>1, Cans DEF Complete, parserVars
<1>3. CASE UartError \/ CancelBuffer \/ CoreReset \/ (SerialPoll /\ Overflow)
  <2>1. CASE UNCHANGED parserVars /\ (reset' = TRUE \/ (ring' = <<CAN>> /\ reset' = reset))
    BY <1>0, <2>1, Cans DEF Complete, parserVars
  <2>2. CASE refused' = FALSE
    BY <2>2 DEF RefusedInv
  <2> QED
    BY <1>3, <2>1, <2>2, FlushEffect
<1>4. CASE Begin
  <2>1. /\ parser = "line" /\ parser' = "run" /\ ~reset /\ UNCHANGED <<line, refused>>
    BY <1>4 DEF Begin
  <2> QED
    BY <1>0, <2>1 DEF Complete
<1>5. CASE Executed
  <2>1. PICK ok \in BOOLEAN : Report(ok) /\ refused' = (FromBridge /\ ~ok)
    BY <1>5 DEF Executed
  <2>2. parser = "run" /\ parser' = "read" /\ UNCHANGED <<ring, reset>>
    BY <1>5 DEF Executed, serialVars, otherVars
  <2>3. ASSUME refused'
        PROVE  ackError' \/ CanWaits' \/ reset'
    <3>1. FromBridge /\ ~ok
      BY <2>1, <2>3
    <3>2. CASE Settled
      <4>1. reporting = current.id /\ current.id # 0 /\ current.id \in 0 .. Ids
        BY <2>2, <3>1, <3>2 DEF TurnInv, RequestInv, Complete, TypeOK, Request
      <4>2. reporting \in 1 .. Ids
        BY <4>1, StreamAssumption
      <4> QED
        BY <2>1, <3>1, <4>2 DEF Report
    <3>3. CASE ~Settled
      BY <2>2, <3>3, Cans DEF Settled
    <3> QED
      BY <3>2, <3>3
  <2> QED
    BY <2>2, <2>3 DEF RefusedInv, Complete
\* While the bridge is read, a refused line leaves the acknowledgement or a reset.
<1>6. ASSUME parser = "bridge", refused
      PROVE  (ackError \/ reset) /\ ~Complete /\ ~CanWaits
  BY <1>6 DEF TurnInv, RefusedInv, Complete
<1>7. CASE ReadStale
  <2>1. refused' = FALSE
    BY <1>7, CharTypes, Delivered DEF ReadStale, TypeOK
  <2> QED
    BY <2>1 DEF RefusedInv
<1>8. CASE ReadAcknowledge
  <2>1. /\ parser = "bridge" /\ ackError /\ UNCHANGED <<serialVars, otherVars>>
        /\ line' = Append(line, Newline) /\ parser' = "line"
    BY <1>8, CharTypes DEF ReadAcknowledge, Deliver
  <2>2. ~reset' => line' = <<Newline>>
    <3> SUFFICES ASSUME ~reset PROVE line' = <<Newline>>
      BY <2>1 DEF otherVars
    <3>1. Settled /\ ~Complete /\ ~active /\ ~lineActive
      BY <2>1 DEF Settled, TurnInv, Complete
    <3>2. line = <<>>
      BY <3>1 DEF LineInv
    <3> QED
      BY <2>1, <3>2
  <2>3. Newline' = Newline
    BY DEF Newline
  <2> QED
    BY <2>1, <2>2, <2>3 DEF RefusedInv, Complete
<1>9. CASE ReadOn \/ ReadNext
  <2>1. PICK r \in Request : r.offset \in 0 .. LineLen - 1 /\ ReadFrom(r)
    <3>1. CASE ReadOn
      <4>1. active /\ ReadFrom(current)
        BY <3>1 DEF ReadOn
      <4>2. current \in Request /\ current.offset \in 0 .. LineLen - 1
        BY <4>1, StreamAssumption DEF TurnInv, TypeOK
      <4> QED
        BY <4>1, <4>2
    <3>2. CASE ReadNext
      <4>1. PICK k \in Live : ReadFrom(commands[k])
        BY <3>2 DEF ReadNext
      <4>2. commands[k] \in Request /\ commands[k].offset \in 0 .. LineLen - 1
        BY Requests, StreamAssumption DEF RequestInv, Live
      <4> QED
        BY <4>1, <4>2
    <3> QED
      BY <1>9, <3>1, <3>2
  <2>2. /\ parser = "bridge" /\ ~ackError /\ reset' = reset
    BY <1>9 DEF ReadOn, ReadNext, otherVars
  <2>3. refused' = refused /\ parser' \in {"read", "line"}
    BY <2>1, ReadFromEffect
  <2>4. refused' => reset'
    BY <1>6, <2>2, <2>3
  <2> QED
    BY <2>3, <2>4 DEF RefusedInv
<1>10. CASE ReadRing
  <2>1. /\ Deliver(ring[1]) /\ ring[1] \in Chars /\ parser = "read" /\ ~ackError /\ reset' = reset
        /\ ring # <<>>
    BY <1>10, OneCan DEF ReadRing, otherVars, BridgesTurn, BridgeActive
  <2>2. CASE ring[1] = CAN
    <3>1. refused' = FALSE
      BY <2>1, <2>2, Delivered DEF TypeOK
    <3> QED
      BY <3>1 DEF RefusedInv
  <2>3. CASE ring[1] # CAN
    <3>1. refused' = refused /\ parser' \in {"read", "line"} /\ ~CanWaits
      BY <2>1, <2>3, Delivered DEF TypeOK, CanWaits
    <3>2. refused' => reset'
      BY <2>1, <3>1 DEF RefusedInv, Complete
    <3> QED
      BY <3>1, <3>2 DEF RefusedInv
  <2> QED
    BY <2>2, <2>3
<1>11. CASE SerialPoll
  <2>1. Reject \/ DropRest \/ Store \/ Overflow
    BY <1>11 DEF SerialPoll
  <2> QED
    BY <1>2, <1>3, <1>11, <2>1
<1> QED
  BY <1>1, <1>3, <1>4, <1>5, <1>7, <1>8, <1>9, <1>10, <1>11 DEF Next

-----------------------------------------------------------------------------
(* The invariant and what follows from it.                                 *)

LEMMA InitInv == Init => IInv
<1> SUFFICES ASSUME Init PROVE IInv
  OBVIOUS
<1>1. TypeOK
  BY TypeInit
<1>2. ~CanWaits /\ ~Complete /\ parser = "read"
  BY DEF Init, CanWaits, Complete
<1>3. TurnInv
  BY <1>2 DEF Init, TurnInv
<1>4. DOMAIN commands = {} /\ DOMAIN ring = {} /\ DOMAIN line = {}
  BY DEF Init
<1>5. RequestInv
  <2>1. Numbers = {}
    BY <1>4 DEF Numbers
  <2> QED
    BY <1>2, <1>4, <2>1, StreamAssumption DEF Init, RequestInv, NoRequest
<1>6. DeliveryInv
  BY <1>2 DEF Init, DeliveryInv
<1>7. RingInv
  <2>1. Upcoming = UsbChar /\ UsbChar.at = 1
    BY <1>4 DEF Init, Upcoming, UsbChar
  <2> QED
    BY <1>4, <2>1 DEF Init, RingInv
<1>8. LineInv
  BY <1>2 DEF Init, LineInv
<1>9. RefusedInv
  BY DEF Init, RefusedInv
<1> QED
  BY <1>1, <1>3, <1>5, <1>6, <1>7, <1>8, <1>9 DEF IInv

\* Every step of the stream keeps the invariant.
THEOREM Inductive == Spec => []IInv
<1>1. IInv /\ [Next]_vars => IInv'
  <2> SUFFICES ASSUME IInv, [Next]_vars PROVE IInv'
    OBVIOUS
  <2> USE DEF IInv
  <2>1. TypeOK'
    BY TypeStep
  <2>2. TurnInv'
    BY TurnStep
  <2>3. RequestInv'
    BY RequestStep
  <2>4. DeliveryInv'
    BY DeliveryStep
  <2>5. RingInv'
    BY RingStep
  <2>6. LineInv'
    BY LineStep
  <2>7. RefusedInv'
    BY RefusedStep
  <2> QED
    BY <2>1, <2>2, <2>3, <2>4, <2>5, <2>6, <2>7
<1> QED
  BY <1>1, InitInv, PTL DEF Spec

\* The ring never overwrites itself, and no counter leaves its type.
THEOREM TypeCorrect == Spec => []TypeOK
<1>1. IInv => TypeOK
  BY DEF IInv
<1> QED
  BY <1>1, Inductive, PTL

\* The parser executes whole lines, in whichever order the sources take turns
\* and whatever is cancelled, dropped or discarded, and none that was rejected
\* (read_char() of serial.c, lathe_bridge_read()).
THEOREM WholeLines == Spec => []WholeOrHeadless
<1>1. IInv => WholeOrHeadless
  <2> SUFFICES ASSUME IInv, parser = "run" PROVE \/ line = <<Newline>>
                                                 \/ Whole(line) /\ ~FromRejected
                                                 \/ Tailed(line) /\ line[1].from = "usb" /\ line[1].n \in headless
    BY DEF WholeOrHeadless
  <2>0. /\ line \in Seq(Chars) /\ line # <<>> /\ DOMAIN line = 1 .. Len(line) /\ Len(line) \in Nat \ {0}
        /\ LineLen \in Nat \ {0}
    BY EmptySeq, StreamAssumption DEF IInv, TypeOK
  <2>1. CompleteLine
    BY DEF IInv, LineInv
  <2>2. CASE Len(line) = LineLen /\ UiPart
    <3>1. \A i \in 1 .. LineLen : line[i] = Char("ui", current.id, i)
      <4> SUFFICES ASSUME NEW i \in 1 .. LineLen PROVE line[i] = Char("ui", current.id, i)
        OBVIOUS
      <4>1. line[i] = Char("ui", current.id, 1 + i - 1) /\ 1 + i - 1 = i
        BY <2>0, <2>2 DEF UiPart, From
      <4> QED
        BY <4>1
    <3> QED
      BY <2>0, <2>2, <3>1 DEF Whole, FromRejected
  <2>3. CASE UsbPart /\ line[Len(line)].at = LineLen
    <3>1. PICK n \in Nat, first \in 1 .. LineLen :
            /\ From("usb", n, first) /\ n <= usb.n /\ Accepted(n)
            /\ first = 1 \/ n \in headless
      BY <2>3 DEF UsbPart
    <3>2. first + Len(line) - 1 = LineLen
      <4>1. line[Len(line)] = Char("usb", n, first + Len(line) - 1)
        BY <2>0, <3>1 DEF From
      <4> QED
        BY <2>3, <4>1
    <3>3. \A i \in 1 .. Len(line) : line[i] = Char("usb", n, LineLen - Len(line) + i)
      <4> SUFFICES ASSUME NEW i \in 1 .. Len(line) PROVE line[i] = Char("usb", n, LineLen - Len(line) + i)
        OBVIOUS
      <4>1. first + i - 1 = LineLen - Len(line) + i
        BY <2>0, <3>2
      <4> QED
        BY <2>0, <3>1, <4>1 DEF From
    <3>4. line[1].from = "usb" /\ line[1].n = n
      BY <2>0, <3>3
    <3>5. CASE n \in headless
      BY <2>0, <3>3, <3>4, <3>5 DEF Tailed
    <3>6. CASE n \notin headless
      <4>1. Len(line) = LineLen /\ n \notin rejected
        <5>1. first = 1 /\ n \notin rejected
          BY <3>1, <3>6 DEF Accepted
        <5>2. 1 + Len(line) - 1 = LineLen
          BY <3>2, <5>1
        <5>3. Len(line) \in Int
          BY <2>0
        <5> QED
          BY <5>1, <5>2, <5>3
      <4>2. \A i \in 1 .. LineLen : line[i] = Char("usb", n, i)
        <5> SUFFICES ASSUME NEW i \in 1 .. LineLen PROVE line[i] = Char("usb", n, i)
          OBVIOUS
        <5>1. LineLen - Len(line) + i = i
          BY <2>0, <4>1
        <5> QED
          BY <3>3, <4>1, <5>1
      <4> QED
        BY <3>4, <4>1, <4>2 DEF Whole, FromRejected
    <3> QED
      BY <3>5, <3>6
  <2> QED
    BY <2>1, <2>2, <2>3 DEF CompleteLine
<1> QED
  BY <1>1, Inductive, PTL

\* Nothing from USB waits in front of the parser while an operation or an update
\* owns the stream (lathe_serial_poll(), poll_cycle()).
THEOREM CleanStream == Spec => []OwnedStreamIsClean
<1>1. IInv => OwnedStreamIsClean
  BY DEF IInv, RingInv, Dropping, DropsForOwner, OwnedStreamIsClean
<1> QED
  BY <1>1, Inductive, PTL

\* No line inherits the error of one that was refused before it (bridge.c:93).
THEOREM AcknowledgedErrors == Spec => []ErrorAcknowledged
<1>1. IInv => ErrorAcknowledged
  BY DEF IInv, RefusedInv, ErrorAcknowledged
<1> QED
  BY <1>1, Inductive, PTL

\* What was cancelled, discarded or flushed before its end is never executed,
\* whichever step of lathe_bridge_read() the end of its epoch overtakes.
THEOREM DiscardedNeverRuns == Spec => []NothingDiscardedRuns
<1>1. IInv => NothingDiscardedRuns
  <2> SUFFICES ASSUME IInv, parser = "run", FromBridge PROVE line[1].n \notin discarded
    BY DEF NothingDiscardedRuns
  <2>0. line # <<>> /\ line \in Seq(Chars) /\ DOMAIN line = 1 .. Len(line) /\ Len(line) \in Nat \ {0}
    BY EmptySeq DEF IInv, TypeOK
  <2>1. CompleteLine
    BY DEF IInv, LineInv
  <2>2. line # <<Newline>>
    BY DEF FromBridge, Newline
  <2>3. line[1] = Char("ui", current.id, 1 + 1 - 1)
    BY <2>0, <2>1, <2>2 DEF CompleteLine, UiPart, From
  <2>4. current.id \notin discarded
    BY DEF IInv, DeliveryInv, Complete
  <2> QED
    BY <2>3, <2>4
<1> QED
  BY <1>1, Inductive, PTL

\* A completion names the line that was executed, and none other, whatever was
\* submitted, discarded or flushed while it ran (bridge.c:114).
THEOREM OwnStatus == Spec => StatusOfOwnLine
<1>1. IInv /\ [Next]_vars =>
        [completed' # completed =>
            parser = "run" /\ FromBridge /\ completed' = line[Len(line)].n]_vars
  <2> SUFFICES ASSUME IInv, Next, completed' # completed
               PROVE  parser = "run" /\ FromBridge /\ completed' = line[Len(line)].n
    BY DEF vars, bridgeVars
  <2>1. Executed
    BY FlushEffect, FlushBridgeType
       DEF Next, UiSubmit, UiSend, UiCancel, CycleSubmit, CycleDiscard, SerialPoll, Reject, DropRest,
           Store, ReadBridge, ReadStale, ReadAcknowledge, ReadOn, ReadNext, ReadNothing, ReadRing,
           Begin, Operations, bridgeVars, IInv
  <2>2. parser = "run" /\ completed' = reporting /\ reporting \in 1 .. Ids
    BY <2>1 DEF Executed, Report
  <2>3. reporting # 0 /\ reporting # Max32
    BY <2>2, StreamAssumption DEF Max32
  <2> QED
    BY <2>2, <2>3 DEF IInv, TurnInv, Complete
<1> QED
  BY <1>1, Inductive, PTL DEF Spec, StatusOfOwnLine
=============================================================================
