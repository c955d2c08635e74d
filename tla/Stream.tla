------------------------------- MODULE Stream -------------------------------
(***************************************************************************)
(* main/bridge.c and main/serial.c: the one character stream the parser    *)
(* reads.  It merges USB characters (through a ring) with whole lines that *)
(* the UI task and the operations queue, discards queued lines by moving   *)
(* an epoch, and returns each status to whoever sent the line.             *)
(*                                                                         *)
(* Concurrent are the UI task and the grblHAL task.  The latter runs the   *)
(* parser, and polls USB and the operations from the realtime hook while   *)
(* it waits for characters, before it executes a line, and within one.     *)
(***************************************************************************)
EXTENDS Integers, SequencesExt

CONSTANTS
    UsbLines,   \* lines the USB host sends
    Ids,        \* bound on next_id: lines submitted by UI and operations
    LineLen,    \* characters of a line, its end included
    RingSize,   \* sizeof(rx)
    QueueSize,  \* depth of the commands queue
    MaxEpoch    \* bound on epoch

ASSUME StreamAssumption ==
    /\ UsbLines \in Nat /\ Ids \in Nat /\ QueueSize \in Nat /\ MaxEpoch \in Nat
    /\ LineLen \in Nat \ {0, 1}
    /\ RingSize \in Nat \ {0, 1}

VARIABLES
    \* bridge.c
    commands,       \* the FreeRTOS queue
    nextId, epoch,
    sending,        \* a request of the UI task with its id, not queued yet
    current,        \* the request being delivered, with its offset
    active, ackError, reporting,
    completed,      \* published.completed_id
    generation,     \* epoch as lathe_bridge_read() copied it
    \* serial.c
    ring, lineActive, cycleDropping, dropping,
    usb,            \* the next character the host sends
    \* the parser
    line,           \* characters collected for a line
    parser,         \* "read", "bridge" (inside lathe_bridge_read), "line", "run"
    refused,        \* gc_state.last_error comes from a queued line
    \* the rest of the controller
    busy, owns,     \* lathe_cycle_busy(), lathe_cycle_owns_stream()
    update,         \* lathe_update_active()
    reset,          \* a requested reset of the core
    \* history
    headless,       \* USB lines cut by a reset or a UART error while arriving
    rejected,       \* USB lines of which a character was dropped
    discarded       \* ids whose epoch ended before they were delivered

queueVars  == <<commands, nextId, epoch, sending, discarded>>
bridgeVars == <<current, active, ackError, reporting, completed, generation>>
serialVars == <<ring, lineActive, cycleDropping, dropping, usb, headless, rejected>>
parserVars == <<line, parser, refused>>
otherVars  == <<busy, owns, update, reset>>
vars == <<queueVars, bridgeVars, serialVars, parserVars, otherVars>>

Max32 == Ids + 1                          \* UINT32_MAX: an acknowledgement
Char(from, n, at) == [from |-> from, n |-> n, at |-> at]
CAN == Char("can", 0, 0)
Newline == Char("ack", 0, LineLen)
EndsLine(ch) == ch.at = LineLen
NoRequest == [id |-> 0, epoch |-> 0, offset |-> 0]

Init ==
    /\ commands = <<>> /\ nextId = 0 /\ epoch = 0 /\ sending = NoRequest
    /\ current = NoRequest /\ active = FALSE /\ ackError = FALSE
    /\ reporting = 0 /\ completed = 0 /\ generation = 0
    /\ ring = <<>> /\ lineActive = FALSE
    /\ cycleDropping = FALSE /\ dropping = FALSE
    /\ usb = [n |-> 1, at |-> 1]
    /\ line = <<>> /\ parser = "read" /\ refused = FALSE
    /\ busy = FALSE /\ owns = FALSE /\ reset = FALSE
    /\ update \in BOOLEAN                 \* a new image waits for validation
    /\ headless = {} /\ rejected = {} /\ discarded = {}

---------------------------------------------------------------------------
(* Submission                                                              *)

\* submit(), under the lock: the id and the epoch of the request
Numbered == [id |-> nextId + 1, epoch |-> epoch, offset |-> 0]

\* A full queue loses the request; its caller is told so.
Queued(request) ==
    IF Len(commands) < QueueSize THEN Append(commands, request) ELSE commands

\* lathe_bridge_submit(), up to the end of the critical section
UiSubmit ==
    /\ sending = NoRequest
    /\ ~busy /\ ~update
    /\ nextId < Ids
    /\ nextId' = nextId + 1
    /\ sending' = Numbered
    /\ UNCHANGED <<commands, epoch, discarded, bridgeVars, serialVars, parserVars, otherVars>>

UiSend ==
    /\ sending # NoRequest
    /\ commands' = Queued(sending)
    /\ sending' = NoRequest
    /\ UNCHANGED <<nextId, epoch, discarded, bridgeVars, serialVars, parserVars, otherVars>>

\* The realtime hook runs anywhere in the grblHAL task but in a bridge read.
InHook == parser # "bridge"

\* lathe_bridge_cycle_submit() by the operation that owns the stream
CycleSubmit ==
    /\ InHook /\ owns /\ ~update
    /\ nextId < Ids
    /\ nextId' = nextId + 1
    /\ commands' = Queued(Numbered)
    /\ UNCHANGED <<epoch, sending, discarded, bridgeVars, serialVars, parserVars, otherVars>>

\* A request whose last character is being read has been delivered.
LastTaken ==
    parser = "bridge" /\ generation = current.epoch /\ current.offset = LineLen - 1
InDelivery == IF active /\ ~LastTaken THEN {current} ELSE {}
Undelivered == ToSet(commands) \cup {sending, NoRequest} \cup InDelivery

\* epoch++
NextEpoch ==
    /\ epoch < MaxEpoch
    /\ epoch' = epoch + 1
    /\ discarded' = discarded \cup ({r.id : r \in Undelivered} \ {0})

\* lathe_bridge_cancel(); the jog-cancel it also asks for acts on the core
UiCancel ==
    /\ ~busy
    /\ NextEpoch
    /\ UNCHANGED <<commands, nextId, sending, bridgeVars, serialVars, parserVars, otherVars>>

\* lathe_bridge_discard_cycle_commands()
CycleDiscard ==
    /\ InHook /\ owns
    /\ NextEpoch
    /\ UNCHANGED <<commands, nextId, sending, bridgeVars, serialVars, parserVars, otherVars>>

---------------------------------------------------------------------------
(* Flushing                                                                *)

\* lathe_cycle_reset() within a flush keeps an operation that only pauses.
FlushBridge ==
    /\ \/ UNCHANGED <<busy, owns>>  /\ owns
       \/ busy' = FALSE /\ owns' = FALSE
    /\ active' = FALSE /\ ackError' = FALSE /\ reporting' = 0
    /\ NextEpoch
    /\ UNCHANGED <<commands, nextId, sending, current, completed, generation>>

\* flush() and the characters it leaves in the ring
Flush(left, isDropping) ==
    /\ ring' = left
    /\ dropping' = isDropping /\ lineActive' = FALSE /\ cycleDropping' = FALSE
    /\ FlushBridge

Arriving(next) == IF next.at > 1 THEN {next.n} ELSE {}

\* The core calls cancel_read_buffer to drop what it was sent.
CancelBuffer ==
    /\ InHook
    /\ Flush(<<CAN>>, FALSE)
    /\ headless' = headless \cup Arriving(usb)
    /\ UNCHANGED <<usb, rejected, parserVars, update, reset>>

\* The reset proper: the main loop bails out of a line it has not begun.
CoreReset ==
    /\ reset /\ parser \in {"read", "line"}
    /\ Flush(<<>>, FALSE)
    /\ headless' = headless \cup Arriving(usb)
    /\ line' = <<>> /\ parser' = "read" /\ refused' = FALSE
    /\ reset' = FALSE
    /\ UNCHANGED <<usb, rejected, update>>

---------------------------------------------------------------------------
(* USB                                                                     *)

UsbChar == Char("usb", usb.n, usb.at)
After(next) ==
    IF next.at = LineLen THEN [n |-> next.n + 1, at |-> 1] ELSE [next EXCEPT !.at = @ + 1]

\* lathe_serial_poll() while an operation or an update owns the stream: the
\* line is answered or rejected at its end, and never stored.
Rejected == rejected' = rejected \cup {usb.n}
DropsForOwner == owns \/ update \/ cycleDropping
Reject ==
    /\ DropsForOwner
    /\ cycleDropping' = ~EndsLine(UsbChar)
    /\ Rejected
    /\ \/ UNCHANGED update
       \/ update /\ EndsLine(UsbChar) /\ update' = FALSE     \* $P4OTA=0
    /\ UNCHANGED <<ring, lineActive, dropping, headless, queueVars, bridgeVars,
                   busy, owns, reset>>

DropRest ==
    /\ ~DropsForOwner /\ dropping
    /\ dropping' = ~EndsLine(UsbChar)
    /\ Rejected
    /\ UNCHANGED <<ring, lineActive, cycleDropping, headless, queueVars, bridgeVars, otherVars>>

\* Mutant: space() without the slot that tells full from empty
RoomOffByOne == Len(ring) < RingSize

Room == Len(ring) < RingSize - 1
Store ==
    /\ ~DropsForOwner /\ ~dropping /\ Room
    /\ ring' = Append(ring, UsbChar)
    /\ UNCHANGED <<lineActive, cycleDropping, dropping, headless, rejected, queueVars, bridgeVars, otherVars>>

\* p4_motion_fault() ends in a reset of the core.
Overflow ==
    /\ ~DropsForOwner /\ ~dropping /\ ~Room
    /\ Flush(<<>>, TRUE)
    /\ Rejected
    /\ reset' = TRUE
    /\ UNCHANGED <<headless, update>>

\* One character of a poll
SerialPoll ==
    /\ InHook
    /\ usb.n <= UsbLines
    /\ usb' = After(usb)
    /\ Reject \/ DropRest \/ Store \/ Overflow
    /\ UNCHANGED parserVars

\* A UART event reports lost characters; the input that waits is lost too.
UartError ==
    /\ InHook
    /\ usb.n <= UsbLines
    /\ usb' \in {After(usb), After(After(usb))}
    /\ Flush(<<>>, FALSE)
    /\ headless' = headless \cup Arriving(usb) \cup Arriving(usb')
    /\ reset' = TRUE
    /\ UNCHANGED <<rejected, parserVars, update>>

---------------------------------------------------------------------------
(* Reading                                                                 *)

\* A character reaches the parser.
Deliver(ch) ==
    IF ch = CAN
    THEN /\ line' = <<>> /\ parser' = "read" /\ refused' = FALSE
    ELSE /\ line' = Append(line, ch)
         /\ parser' = IF EndsLine(ch) THEN "line" ELSE "read"
         /\ UNCHANGED refused

\* Mutant: the acknowledgement does not take precedence
ActiveLineOnly == active

BridgeActive == active \/ ackError
\* Mutant: usb_line_active is not tested
RingEmptyIsEnough == BridgeActive \/ ring = <<>>

BridgesTurn == BridgeActive \/ (~lineActive /\ ring = <<>>)

\* read_char() asks the bridge, which copies the epoch under its lock.
ReadBridge ==
    /\ parser = "read" /\ BridgesTurn
    /\ parser' = "bridge"
    /\ generation' = epoch
    /\ UNCHANGED <<line, refused, current, active, ackError, reporting, completed,
                   queueVars, serialVars, otherVars>>

\* The rest of lathe_bridge_read(), on the copied epoch
\* Mutant: only the epoch of a request that is taken is compared
NeverStale == FALSE

Stale == active /\ current.epoch # generation
\* Mutant: the id of the abandoned line keeps waiting for a status
ReadStaleKeepsId ==
    /\ parser = "bridge" /\ Stale
    /\ active' = FALSE
    /\ Deliver(CAN)
    /\ UNCHANGED <<current, ackError, reporting, completed, generation,
                   queueVars, serialVars, otherVars>>

ReadStale ==
    /\ parser = "bridge" /\ Stale
    /\ active' = FALSE /\ reporting' = 0
    /\ Deliver(CAN)
    /\ UNCHANGED <<current, ackError, completed, generation, queueVars, serialVars, otherVars>>

ReadAcknowledge ==
    /\ parser = "bridge" /\ ~Stale /\ ackError
    /\ ackError' = FALSE /\ reporting' = Max32
    /\ Deliver(Newline)
    /\ UNCHANGED <<current, active, completed, generation, queueVars, serialVars, otherVars>>

\* The next character of request
ReadFrom(request) ==
    LET ch == Char("ui", request.id, request.offset + 1) IN
    /\ current' = [request EXCEPT !.offset = @ + 1]
    /\ active' = ~EndsLine(ch)
    /\ reporting' = request.id
    /\ Deliver(ch)

ReadOn ==
    /\ parser = "bridge" /\ ~Stale /\ ~ackError /\ active
    /\ ReadFrom(current)
    /\ UNCHANGED <<ackError, completed, generation, queueVars, serialVars, otherVars>>

\* Requests of another epoch than the copied one are taken and dropped.
Live == {i \in DOMAIN commands : commands[i].epoch = generation}
ReadNext ==
    /\ parser = "bridge" /\ ~ackError /\ ~active
    /\ \E i \in Live :
         /\ \A j \in Live : i <= j
         /\ commands' = SubSeq(commands, i + 1, Len(commands))
         /\ ReadFrom(commands[i])
    /\ UNCHANGED <<ackError, completed, generation, nextId, epoch, sending, discarded,
                   serialVars, otherVars>>

ReadNothing ==
    /\ parser = "bridge" /\ ~ackError /\ ~active /\ Live = {}
    /\ commands' = <<>>
    /\ parser' = "read"
    /\ UNCHANGED <<line, refused, bridgeVars, nextId, epoch, sending, discarded,
                   serialVars, otherVars>>

ReadRing ==
    /\ parser = "read" /\ ~BridgesTurn /\ ring # <<>>
    /\ ring' = Tail(ring)
    /\ lineActive' = (Head(ring) # CAN /\ ~EndsLine(Head(ring)))
    /\ Deliver(Head(ring))
    /\ UNCHANGED <<cycleDropping, dropping, usb, headless, rejected, queueVars, bridgeVars, otherVars>>

---------------------------------------------------------------------------
(* Execution                                                               *)

\* The realtime check point of the main loop has passed.
Begin ==
    /\ parser = "line" /\ ~reset
    /\ parser' = "run"
    /\ UNCHANGED <<line, refused, queueVars, bridgeVars, serialVars, otherVars>>

FromBridge == line[Len(line)].from = "ui"

\* report_status(); a refusal drops the lines queued behind it
Report(ok) ==
    /\ reporting' = 0
    /\ IF reporting \in 1 .. Ids
       THEN /\ completed' = reporting
            /\ IF ok THEN UNCHANGED <<epoch, discarded, ackError>>
                     ELSE NextEpoch /\ ackError' = TRUE
       ELSE UNCHANGED <<completed, epoch, discarded, ackError>>
    /\ UNCHANGED <<commands, nextId, sending, current, active, generation>>

Executed ==
    /\ parser = "run"
    /\ \E ok \in BOOLEAN :
         /\ Report(ok)
         /\ refused' = (FromBridge /\ ~ok)
    /\ line' = <<>> /\ parser' = "read"
    /\ UNCHANGED <<serialVars, otherVars>>

---------------------------------------------------------------------------
(* Operations, the update mode and resets                                  *)

BridgeEmpty == ~active /\ ~ackError /\ reporting = 0 /\ commands = <<>>
\* Mutant: characters that wait in the ring are forgotten
LineActiveOnly == lineActive

SerialPending == lineActive \/ ring # <<>>

CycleRequest ==
    /\ ~busy /\ ~update
    /\ busy' = TRUE
    /\ UNCHANGED <<owns, update, reset>>

\* poll_cycle(), the start of a planned cycle
CycleBegin ==
    /\ InHook /\ busy /\ ~owns /\ ~reset
    /\ BridgeEmpty /\ ~SerialPending
    /\ owns' = TRUE
    /\ UNCHANGED <<busy, update, reset>>

CycleEnd ==
    /\ InHook /\ busy
    /\ busy' = FALSE /\ owns' = FALSE
    /\ UNCHANGED <<update, reset>>

UpdateBegin ==
    /\ InHook /\ ~busy /\ ~update /\ BridgeEmpty /\ ~SerialPending
    /\ update' = TRUE
    /\ UNCHANGED <<busy, owns, reset>>

UpdateEnd ==
    /\ update /\ update' = FALSE
    /\ UNCHANGED <<busy, owns, reset>>

AskReset ==
    /\ InHook /\ ~reset
    /\ reset' = TRUE
    /\ UNCHANGED <<busy, owns, update>>

Operations ==
    /\ CycleRequest \/ CycleBegin \/ CycleEnd \/ UpdateBegin \/ UpdateEnd \/ AskReset
    /\ UNCHANGED <<queueVars, bridgeVars, serialVars, parserVars>>

Next ==
    \/ UiSubmit \/ UiSend \/ UiCancel
    \/ CycleSubmit \/ CycleDiscard
    \/ SerialPoll \/ UartError \/ CancelBuffer \/ CoreReset
    \/ ReadBridge \/ ReadStale \/ ReadAcknowledge \/ ReadOn \/ ReadNext \/ ReadNothing
    \/ ReadRing
    \/ Begin \/ Executed
    \/ Operations

Spec == Init /\ [][Next]_vars

---------------------------------------------------------------------------
(* Properties                                                              *)

Request == [id : 0 .. Ids, epoch : 0 .. MaxEpoch, offset : 0 .. LineLen]
Chars == [from : {"can", "usb", "ui", "ack"}, n : Nat, at : 0 .. LineLen]

\* Types: a line that is complete or executing has at least its end.
TypeOK ==
    /\ commands \in Seq(Request)
    /\ nextId \in 0 .. Ids /\ epoch \in 0 .. MaxEpoch /\ generation \in 0 .. MaxEpoch
    /\ sending \in Request /\ current \in Request
    /\ active \in BOOLEAN /\ ackError \in BOOLEAN
    /\ reporting \in 0 .. Max32 /\ completed \in 0 .. Ids
    /\ ring \in Seq(Chars) /\ Len(ring) < RingSize
    /\ lineActive \in BOOLEAN /\ cycleDropping \in BOOLEAN /\ dropping \in BOOLEAN
    /\ usb \in [n : Nat, at : 1 .. LineLen]
    /\ line \in Seq(Chars)
    /\ parser \in {"read", "bridge", "line", "run"} /\ refused \in BOOLEAN
    /\ parser \in {"line", "run"} => line # <<>>
    /\ busy \in BOOLEAN /\ owns \in BOOLEAN /\ update \in BOOLEAN /\ reset \in BOOLEAN
    /\ headless \subseteq Nat /\ rejected \subseteq Nat /\ discarded \subseteq 0 .. Ids

\* The characters of one line, from the first to the end
Whole(chars) ==
    /\ Len(chars) = LineLen
    /\ \A i \in 1 .. LineLen :
         chars[i].at = i /\ chars[i].n = chars[1].n /\ chars[i].from = chars[1].from
Tailed(chars) == \* the end of one line
    \A i \in DOMAIN chars :
        /\ chars[i].from = chars[1].from /\ chars[i].n = chars[1].n
        /\ chars[i].at = LineLen - Len(chars) + i

\* The parser executes whole lines, whatever is cancelled, dropped or
\* discarded and in which order the sources take turns, and no USB line that was
\* rejected or that lost a character (serial.c:83, 123).  Only a USB line that a
\* flush caught on its way in may run without its beginning: the flush forgets
\* that the rest of a rejected line has to be dropped (serial.c:36).
FromRejected == line[1].from = "usb" /\ line[1].n \in rejected
WholeOrHeadless ==
    parser = "run" =>
        \/ line = <<Newline>>
        \/ Whole(line) /\ ~FromRejected
        \/ Tailed(line) /\ line[1].from = "usb" /\ line[1].n \in headless

\* While an operation owns the stream nothing from USB waits in front of the
\* parser, so that nothing can be executed once the operation ends
\* (cycle.c:308, serial.c:83).
OwnedStreamIsClean ==
    owns \/ update => ~lineActive /\ ring \in {<<>>, <<CAN>>}

\* A refused line of the UI is acknowledged (bridge.c:93) before the parser
\* executes another line, or that one would inherit its error.
ErrorAcknowledged == parser = "run" /\ refused => line = <<Newline>>

\* A line that was cancelled, discarded or flushed before the parser had all
\* of it is never executed, also when its id or its characters were on the
\* way at that moment.
NothingDiscardedRuns ==
    parser = "run" /\ FromBridge => line[1].n \notin discarded

\* A completion is published for the line that was executed, whatever was
\* submitted, discarded or flushed meanwhile (bridge.c:114).
StatusOfOwnLine ==
    [][completed' # completed =>
          parser = "run" /\ FromBridge /\ completed' = line[Len(line)].n]_vars
=============================================================================
