----------------------------- MODULE Ownership -----------------------------
(***************************************************************************)
(* Who may move the lathe: operation_owner of main/bridge.c, claimed by    *)
(* the profile cycle (main/cycle.c), the assisted feed (main/follow.c) and *)
(* the update mode (main/network.c), and the axes that are switched off    *)
(* (main/controller.c).                                                    *)
(*                                                                         *)
(* Three tasks take part: the UI task, the grblHAL task with its realtime  *)
(* hook, and the network task.  One action is one critical section or one  *)
(* atomic access; what a task does between two of them is kept in          *)
(* `request`, `step` and `session`.                                        *)
(***************************************************************************)
EXTENDS Integers

CONSTANT
    MaxGeneration   \* bound on update_generation between two starts

ASSUME OwnershipAssumption == MaxGeneration \in Nat

VARIABLES
    owner,          \* operation_owner
    \* cycle.c and follow.c
    active,         \* published.active of each operation
    stopping,       \* operations that were told to stop
    request,        \* a request in progress in each task
    step,           \* what the grblHAL task is in the middle of
    moving,         \* the axes move or the planner holds a block
    raced,          \* history: a reset hit a request between its two steps
    \* network.c
    requested, enabled, uploading,
    generation,     \* update_generation
    overdue,        \* five minutes since enabled_at
    session,        \* the connection that transfer() serves
    sessionGen,     \* its copy of update_generation
    \* boot validation
    validation,     \* validation_pending
    reject,         \* reject_validation
    uptime,         \* up to 5 s, up to 30 s, more
    readyFor,       \* time since validation_at: not set, less, more than 5 s
    \* controller.c, for one axis
    disabled,       \* disabled_requested
    applied,        \* disabled_applied
    axisStop,       \* axis_stop_requested
    axisChange      \* axis_change_pending

operation == <<owner, active, stopping, request, step, raced>>
update    == <<requested, enabled, uploading, generation, overdue, session, sessionGen>>
boot      == <<validation, reject, uptime, readyFor>>
axis      == <<disabled, applied, axisStop, axisChange>>
vars == <<operation, moving, update, boot, axis>>

Kind == {"profile", "follow"}
Task == {"ui", "grbl"}
NoRequest == [kind |-> "none", claimed |-> FALSE]

UpdateActive == enabled \/ validation            \* lathe_update_active()
Busy == active # {}                              \* lathe_cycle_busy()

\* lathe_network_start(): a new image holds the machine until it is confirmed.
Booted(newImage) ==
    /\ validation' = newImage
    /\ owner' = IF newImage THEN "update" ELSE "none"
    /\ reject' \in IF newImage THEN BOOLEAN ELSE {FALSE}
    /\ uptime' = 0 /\ readyFor' = "unset"
    /\ active' = {} /\ stopping' = {} /\ moving' = FALSE
    /\ request' = [t \in Task |-> NoRequest] /\ step' = "none" /\ raced' = FALSE
    /\ requested' = FALSE /\ enabled' = FALSE /\ uploading' = FALSE
    /\ generation' = 0 /\ overdue' = FALSE /\ session' = "none" /\ sessionGen' = 0
    /\ applied' = disabled /\ axisStop' = FALSE /\ axisChange' = FALSE
    /\ UNCHANGED disabled

Init ==
    /\ validation = FALSE /\ owner = "none" /\ reject = FALSE
    /\ uptime = 0 /\ readyFor = "unset"
    /\ active = {} /\ stopping = {} /\ moving = FALSE
    /\ request = [t \in Task |-> NoRequest] /\ step = "none" /\ raced = FALSE
    /\ requested = FALSE /\ enabled = FALSE /\ uploading = FALSE
    /\ generation = 0 /\ overdue = FALSE /\ session = "none" /\ sessionGen = 0
    /\ disabled = FALSE /\ applied = FALSE /\ axisStop = FALSE /\ axisChange = FALSE

\* Mutant: a release that does not look who holds the machine
ReleasedByAnyone(who) == "none"

\* lathe_operation_release()
Released(who) == IF owner = who THEN "none" ELSE owner

\* The grblHAL task does one thing after the other.
Grbl == step = "none" /\ request["grbl"] = NoRequest
Free(t) == IF t = "grbl" THEN Grbl ELSE request[t] = NoRequest

---------------------------------------------------------------------------
(* lathe_cycle_request() and lathe_follow_request(), on the UI task or,    *)
(* from a USB line, on the grblHAL task                                    *)

RequestCheck(t, kind) ==
    /\ Free(t)
    /\ ~UpdateActive /\ ~axisChange
    /\ IF kind = "profile" THEN "follow" \notin active ELSE ~Busy
    /\ request' = [request EXCEPT ![t] = [kind |-> kind, claimed |-> FALSE]]
    /\ UNCHANGED <<owner, active, stopping, step, raced, moving, update, boot, axis>>

RequestClaim(t) ==
    /\ request[t].kind # "none" /\ ~request[t].claimed
    /\ IF owner = "none"
       THEN /\ owner' = request[t].kind
            /\ request' = [request EXCEPT ![t].claimed = TRUE]
       ELSE /\ request' = [request EXCEPT ![t] = NoRequest]
            /\ UNCHANGED owner
    /\ UNCHANGED <<active, stopping, step, raced, moving, update, boot, axis>>

\* A cycle that is still published as active refuses; the feed does not look.
RequestPublish(t) ==
    /\ request[t].claimed
    /\ LET kind == request[t].kind IN
       IF kind = "profile" /\ kind \in active
       THEN /\ owner' = Released(kind)
            /\ UNCHANGED <<active, stopping, raced>>
       ELSE /\ active' = active \cup {kind}
            /\ stopping' = stopping \ {kind}
            /\ raced' = (raced \/ (kind = "profile" /\ step = "released"))
            /\ UNCHANGED owner
    /\ request' = [request EXCEPT ![t] = NoRequest]
    /\ UNCHANGED <<step, moving, update, boot, axis>>

---------------------------------------------------------------------------
(* Ends of an operation, on the grblHAL task                               *)

\* Mutant: an axis change does not stop an assisted feed
CancelledProfile == IF "follow" \in active THEN stopping ELSE stopping \cup active

\* lathe_cycle_cancel(), which goes to the assisted feed while that is active
Cancelled == IF "follow" \in active THEN stopping \cup {"follow"} ELSE stopping \cup active
Cancel ==
    /\ Busy /\ stopping' = Cancelled
    /\ UNCHANGED <<owner, active, request, step, raced, moving, update, boot, axis>>

\* message(.., false) and say(.., false): published first, released after
Finish(kind) ==
    /\ Grbl /\ kind \in active
    /\ active' = active \ {kind}
    /\ step' = kind
    /\ UNCHANGED <<owner, stopping, request, raced, moving, update, boot, axis>>

FinishRelease ==
    /\ step \in Kind
    /\ owner' = Released(step)
    /\ step' = "none"
    /\ UNCHANGED <<active, stopping, request, raced, moving, update, boot, axis>>

\* lathe_cycle_reset(), within a flush.  It first ends an assisted feed, then
\* releases the owner of a cycle, and clears the cycle in a critical section
\* of its own.  An operation that only pauses keeps its place.
ResetBegin ==
    /\ Grbl
    /\ active' = active \ {"follow"}
    /\ owner' = IF "follow" \in active THEN Released("follow") ELSE owner
    /\ step' = "reset"
    /\ moving' = FALSE
    /\ UNCHANGED <<stopping, request, raced, update, boot, axis>>

ResetPaused ==
    /\ Grbl /\ active \ stopping # {}
    /\ moving' = FALSE
    /\ UNCHANGED <<operation, update, boot, axis>>

ResetRelease ==
    /\ step = "reset"
    /\ owner' = Released("profile")
    /\ raced' = (raced \/ \E t \in Task : request[t] = [kind |-> "profile", claimed |-> TRUE])
    /\ step' = "released"
    /\ UNCHANGED <<active, stopping, request, moving, update, boot, axis>>

ResetClear ==
    /\ step = "released"
    /\ active' = active \ {"profile"}
    /\ stopping' = stopping \ {"profile"}
    /\ step' = "none"
    /\ UNCHANGED <<owner, request, raced, moving, update, boot, axis>>

---------------------------------------------------------------------------
(* Motion, and axes that are switched off                                  *)

\* validate() passes a block with an axis word to the planner.
BeginMotion ==
    /\ Grbl
    /\ ~UpdateActive /\ ~axisChange /\ ~applied
    /\ moving' = TRUE
    /\ UNCHANGED <<operation, update, boot, axis>>

EndMotion ==
    /\ moving /\ moving' = FALSE
    /\ UNCHANGED <<operation, update, boot, axis>>

\* lathe_axis_set_disabled(), on the UI task
SetDisabled(value) ==
    /\ Free("ui")
    /\ value # disabled
    /\ disabled' = value
    /\ axisStop' = TRUE /\ axisChange' = TRUE
    /\ UNCHANGED <<operation, moving, update, boot, applied>>

\* axis_enable_poll(): first a stop of all that moves
AxisStopPoll ==
    /\ Grbl /\ axisStop
    /\ axisStop' = FALSE
    /\ stopping' = Cancelled
    /\ UNCHANGED <<owner, active, request, step, raced, moving, update, boot,
                   disabled, applied, axisChange>>

\* Mutant: only the operations are asked, not the axes
NoOperation == ~Busy

\* then, at rest, the outputs
AtRest == ~moving /\ ~Busy
AxisApplyPoll ==
    /\ Grbl /\ ~axisStop /\ axisChange /\ AtRest
    /\ applied' = disabled
    /\ axisChange' = FALSE
    /\ UNCHANGED <<operation, moving, update, boot, disabled, axisStop>>

---------------------------------------------------------------------------
(* The update mode                                                         *)

UpdateRequest ==
    /\ requested' = TRUE
    /\ UNCHANGED <<operation, moving, enabled, uploading, generation, overdue, session,
                   sessionGen, boot, axis>>

\* lathe_update_cancel(), on the UI task or from a USB line
UpdateCancel ==
    /\ requested' = FALSE
    /\ IF uploading THEN UNCHANGED <<enabled, owner>>
       ELSE /\ enabled' = FALSE
            /\ owner' = IF validation THEN owner ELSE Released("update")
    /\ UNCHANGED <<active, stopping, request, step, raced, moving, uploading, generation,
                   overdue, session, sessionGen, boot, axis>>

\* lathe_network_poll(): activation, under the lock
MachineIdle == ~moving /\ ~Busy
Activate ==
    /\ Grbl /\ MachineIdle
    /\ requested /\ ~enabled /\ ~uploading
    /\ owner = "none"
    /\ generation < MaxGeneration
    /\ owner' = "update"
    /\ generation' = generation + 1
    /\ enabled' = TRUE /\ requested' = FALSE /\ overdue' = FALSE
    /\ UNCHANGED <<active, stopping, request, step, raced, moving, uploading, session,
                   sessionGen, boot, axis>>

FiveMinutes ==
    /\ enabled /\ ~overdue
    /\ overdue' = TRUE
    /\ UNCHANGED <<operation, moving, requested, enabled, uploading, generation, session,
                   sessionGen, boot, axis>>

Expire ==
    /\ Grbl
    /\ enabled /\ ~uploading /\ overdue
    /\ enabled' = FALSE
    /\ owner' = Released("update")
    /\ UNCHANGED <<active, stopping, request, step, raced, moving, requested, uploading,
                   generation, overdue, session, sessionGen, boot, axis>>

\* transfer(): the copy of the session, then the handshake without the lock
Connect ==
    /\ session = "none" /\ enabled
    /\ session' = "handshake" /\ sessionGen' = generation
    /\ UNCHANGED <<operation, moving, requested, enabled, uploading, generation, overdue,
                   boot, axis>>

\* Mutant: the handshake of a closed session is accepted in the next one.
AcceptEnabled == enabled

\* The second look, under the lock: still the session of the handshake?
AcceptUpload == enabled /\ sessionGen = generation
Accept ==
    /\ session = "handshake"
    /\ IF AcceptUpload THEN uploading' = TRUE /\ session' = "upload"
                       ELSE session' = "none" /\ UNCHANGED uploading
    /\ UNCHANGED <<operation, moving, requested, enabled, generation, overdue, sessionGen,
                   boot, axis>>

\* Mutant: a failed upload leaves the update mode uploading.
DisconnectUploading ==
    /\ session \in {"handshake", "upload"}
    /\ session' = "none"
    /\ UNCHANGED <<operation, moving, requested, enabled, uploading, generation, overdue,
                   sessionGen, boot, axis>>

\* A handshake or an upload that fails at any point
Disconnect ==
    /\ session \in {"handshake", "upload"}
    /\ session' = "none"
    /\ uploading' = (uploading /\ session # "upload")
    /\ UNCHANGED <<operation, moving, requested, enabled, generation, overdue, sessionGen,
                   boot, axis>>

\* The boot slot is selected; the restart follows half a second later.
Verified ==
    /\ session = "upload"
    /\ session' = "verified"
    /\ UNCHANGED <<operation, moving, requested, enabled, uploading, generation, overdue,
                   sessionGen, boot, axis>>

---------------------------------------------------------------------------
(* Starting up                                                             *)

\* esp_restart(), or a loss of power: the boot loader starts a selected image
\* once, and returns to the previous one when it was not confirmed.
Restart == Booted(session = "verified")

\* Mutant: only a rejected image is rolled back.
RollBackRejected == Grbl /\ validation /\ reject /\ uptime >= 5 /\ Booted(FALSE)

\* lathe_network_poll(): too late, or rejected for a test
RollBack ==
    /\ Grbl /\ validation
    /\ uptime = 30 \/ (reject /\ uptime >= 5)
    /\ Booted(FALSE)

Ready ==
    /\ Grbl /\ validation /\ ~reject /\ uptime < 30 /\ MachineIdle
    /\ readyFor = "unset" /\ readyFor' = "less"
    /\ UNCHANGED <<operation, moving, update, validation, reject, uptime, axis>>

Confirm ==
    /\ Grbl /\ validation /\ ~reject /\ uptime < 30 /\ MachineIdle
    /\ readyFor = "more"
    /\ validation' = FALSE
    /\ step' = "confirmed"
    /\ UNCHANGED <<owner, active, stopping, request, raced, moving, update, reject, uptime,
                   readyFor, axis>>

ConfirmRelease ==
    /\ step = "confirmed"
    /\ owner' = Released("update")
    /\ step' = "none"
    /\ UNCHANGED <<active, stopping, request, raced, moving, update, boot, axis>>

Time ==
    /\ validation
    /\ \/ /\ uptime < 30
          /\ uptime' = IF uptime = 0 THEN 5 ELSE 30
          /\ UNCHANGED readyFor
       \/ /\ readyFor = "less" /\ uptime > 0
          /\ readyFor' = "more"
          /\ UNCHANGED uptime
    /\ UNCHANGED <<operation, moving, update, validation, reject, axis>>

---------------------------------------------------------------------------
Next ==
    \/ \E t \in Task :
         \/ \E kind \in Kind : RequestCheck(t, kind)
         \/ RequestClaim(t) \/ RequestPublish(t)
    \/ Cancel \/ \E kind \in Kind : Finish(kind)
    \/ FinishRelease
    \/ ResetBegin \/ ResetPaused \/ ResetRelease \/ ResetClear
    \/ BeginMotion \/ EndMotion
    \/ \E value \in BOOLEAN : SetDisabled(value)
    \/ AxisStopPoll \/ AxisApplyPoll
    \/ UpdateRequest \/ UpdateCancel \/ Activate \/ FiveMinutes \/ Expire
    \/ Connect \/ Accept \/ Disconnect \/ Verified
    \/ Restart \/ RollBack \/ Ready \/ Confirm \/ ConfirmRelease \/ Time

Spec == Init /\ [][Next]_vars

\* Each task goes on with what it began, the hook polls, a motion and an
\* operation that was told to stop end (StopEnds of Cycle), and time passes.
\* The hook also polls between two things the grblHAL task does: what depends
\* on nothing else is found even if the task is busy again and again.
Fairness ==
    /\ \A t \in Task : WF_vars(RequestClaim(t)) /\ WF_vars(RequestPublish(t))
    /\ WF_vars(FinishRelease) /\ WF_vars(ResetRelease) /\ WF_vars(ResetClear)
    /\ WF_vars(ConfirmRelease)
    /\ WF_vars(EndMotion)
    /\ \A kind \in Kind : WF_vars(kind \in stopping /\ Finish(kind))
    /\ WF_vars(AxisStopPoll) /\ WF_vars(AxisApplyPoll)
    /\ SF_vars(RollBack) /\ WF_vars(Time)

FairSpec == Spec /\ Fairness

---------------------------------------------------------------------------
(* Properties                                                              *)

Owner == {"none", "profile", "follow", "update"}

\* Types; an upload is marked as such exactly while transfer() serves it.
TypeOK ==
    /\ uploading <=> session \in {"upload", "verified"}
    /\ owner \in Owner /\ active \subseteq Kind /\ stopping \subseteq Kind
    /\ request \in [Task -> [kind : Kind \cup {"none"}, claimed : BOOLEAN]]
    /\ step \in Kind \cup {"none", "reset", "released", "confirmed"}
    /\ session \in {"none", "handshake", "upload", "verified"}
    /\ generation \in 0 .. MaxGeneration /\ sessionGen \in 0 .. generation
    /\ uptime \in {0, 5, 30} /\ readyFor \in {"unset", "less", "more"}
    /\ \A b \in {moving, raced, requested, enabled, uploading, overdue,
                 validation, reject, disabled, applied, axisStop, axisChange} : b \in BOOLEAN

\* Whoever was granted the machine and still needs it: an operation that is
\* active (until a reset withdraws it), a request that was claimed, an end
\* that has not released yet.
Holds(who) ==
    \/ who \in active /\ ~(who = "profile" /\ step = "released")
    \/ \E t \in Task : request[t] = [kind |-> who, claimed |-> TRUE]
    \/ who \in Kind /\ step = who
    \/ who = "update" /\ UpdateActive

\* Two operations, or an operation and the update mode, never hold the machine
\* together, and nobody keeps it without holding it, except after a request
\* of the UI task that fell between the two steps of a reset (cycle.c:141).
Exclusive ==
    ~raced =>
        /\ \A who \in Owner : Holds(who) => owner = who
        /\ owner # "none" => Holds(owner) \/ step = "confirmed"

\* An upload that was accepted keeps its update mode, its session and the
\* machine until it has ended, whatever the panel, the expiry and the client
\* do; a new image keeps the machine until it is confirmed (network.c:154).  Motion stays
\* locked as long: a line that came first is over before the update mode begins, a later one
\* is refused (network.c:352 and 379, controller.c:187).
UpdateHoldsMachine ==
    /\ session \in {"upload", "verified"} => uploading /\ enabled /\ sessionGen = generation
    /\ UpdateActive => owner = "update" /\ ~moving

\* An axis that was switched off does not move (controller.c:63).
DisabledAxisRests == applied => ~moving

\* A change of the disabled axes is applied, also when it is asked for during
\* an operation or while one is being requested, unless it is changed again
\* and again, the lathe is restarted or reset for ever, or two operations
\* became active by the race of cycle.c:141: then only one of them is stopped.
Disturbed ==
    \/ []<><<\E v \in BOOLEAN : SetDisabled(v)>>_vars
    \/ []<><<Restart \/ RollBack \/ ResetBegin \/ ResetPaused>>_vars
    \/ <>raced
AxisChangeApplied == Disturbed \/ []<>(~axisChange)

\* A new image is confirmed or rolled back, whatever the operator does.
BootDecides == validation ~> ~validation
=============================================================================
