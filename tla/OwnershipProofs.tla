-------------------------- MODULE OwnershipProofs --------------------------
(***************************************************************************)
(* Proofs about module Ownership, for every number of update sessions: who *)
(* holds the lathe, what an upload keeps, and that a switched off axis     *)
(* rests.  The invariant IInv counts the grants: while no reset has fallen *)
(* into a request, at most one actor holds the machine, in one way.        *)
(***************************************************************************)
EXTENDS Ownership, TLAPS

Claim(t) == request[t].claimed

\* What a claimed request stands for.
ClaimsKnown == \A t \in Task : Claim(t) => request[t].kind \in Kind

\* The update mode and a new image never hold the machine together; a
\* confirmation is not released into an update session.
UpdateApart ==
    /\ ~(enabled /\ validation)
    /\ step = "confirmed" => ~enabled /\ ~validation

\* Whoever holds the machine owns it, and an owner holds it, the release of a
\* confirmed image apart, which only concerns the update mode.
Granted ==
    /\ \A who \in Owner : Holds(who) => owner = who
    /\ owner # "none" => Holds(owner) \/ (step = "confirmed" /\ owner = "update")

\* The same actor holds it in one way only: by one claim, or by a published
\* operation, or by an end that has not released yet.
Alone ==
    /\ ~(Claim("ui") /\ Claim("grbl"))
    /\ \A t \in Task : Claim(t) /\ request[t].kind \in active =>
           request[t].kind = "profile" /\ step = "released"
    /\ \A t \in Task : Claim(t) => request[t].kind # step
    /\ step \in Kind => step \notin active

UpdateInv == UpdateApart /\ UpdateHoldsMachine
GrantInv == ~raced => Granted /\ Alone

IInv == TypeOK /\ ClaimsKnown /\ UpdateInv /\ DisabledAxisRests /\ GrantInv

-----------------------------------------------------------------------------
(* Types.                                                                  *)

\* A start leaves a typed state.
LEMMA BootedType ==
  ASSUME TypeOK, NEW image \in BOOLEAN, Booted(image)
  PROVE  TypeOK'
<1>1. generation' \in 0 .. MaxGeneration /\ sessionGen' \in 0 .. generation'
  BY OwnershipAssumption DEF Booted
<1>2. request' \in [Task -> [kind : Kind \cup {"none"}, claimed : BOOLEAN]]
  BY DEF Booted, NoRequest
<1>3. uploading' <=> session' \in {"upload", "verified"}
  BY DEF Booted
<1>4. /\ owner' \in Owner /\ active' \subseteq Kind /\ stopping' \subseteq Kind
      /\ step' = "none" /\ session' = "none"
      /\ uptime' = 0 /\ readyFor' = "unset"
  BY DEF Booted, Owner
<1>5. /\ moving' \in BOOLEAN /\ raced' \in BOOLEAN /\ requested' \in BOOLEAN /\ enabled' \in BOOLEAN
      /\ uploading' \in BOOLEAN /\ overdue' \in BOOLEAN /\ validation' \in BOOLEAN
      /\ reject' \in BOOLEAN /\ disabled' \in BOOLEAN /\ applied' \in BOOLEAN
      /\ axisStop' \in BOOLEAN /\ axisChange' \in BOOLEAN
  BY DEF Booted, TypeOK
<1> QED
  BY <1>1, <1>2, <1>3, <1>4, <1>5 DEF TypeOK

\* Every step keeps the types.
LEMMA TypeStep == TypeOK /\ ClaimsKnown /\ [Next]_vars => TypeOK'
<1> SUFFICES ASSUME TypeOK, ClaimsKnown, [Next]_vars PROVE TypeOK'
  OBVIOUS
<1>1. ASSUME NEW t \in Task, NEW kind \in Kind, RequestCheck(t, kind) PROVE TypeOK'
  BY <1>1 DEF RequestCheck, Free, Grbl, operation, update, boot, axis, TypeOK, NoRequest, Task, Kind, Owner
<1>2. ASSUME NEW t \in Task, RequestClaim(t) PROVE TypeOK'
  <2>1. request' \in [Task -> [kind : Kind \cup {"none"}, claimed : BOOLEAN]]
    <3>1. CASE owner = "none"
      <4>1. request' = [request EXCEPT ![t].claimed = TRUE]
        BY <1>2, <3>1 DEF RequestClaim
      <4> QED
        BY <4>1 DEF TypeOK
    <3>2. CASE owner # "none"
      <4>1. request' = [request EXCEPT ![t] = NoRequest]
        BY <1>2, <3>2 DEF RequestClaim
      <4> QED
        BY <4>1 DEF TypeOK, NoRequest
    <3> QED
      BY <3>1, <3>2
  <2>2. owner' \in Owner
    <3>1. request[t].kind \in Kind
      BY <1>2 DEF RequestClaim, TypeOK
    <3> QED
      BY <1>2, <3>1 DEF RequestClaim, TypeOK, Kind, Owner
  <2> QED
    BY <1>2, <2>1, <2>2 DEF RequestClaim, update, boot, axis, TypeOK
<1>3. ASSUME NEW t \in Task, RequestPublish(t) PROVE TypeOK'
  <2>1. request' \in [Task -> [kind : Kind \cup {"none"}, claimed : BOOLEAN]]
    BY <1>3 DEF RequestPublish, TypeOK, NoRequest
  <2>2. request[t].kind \in Kind
    BY <1>3 DEF ClaimsKnown, Claim, RequestPublish
  <2>3. owner' \in Owner /\ active' \subseteq Kind /\ stopping' \subseteq Kind /\ raced' \in BOOLEAN
    BY <1>3, <2>2 DEF RequestPublish, Released, TypeOK, Owner
  <2> QED
    BY <1>3, <2>1, <2>3 DEF RequestPublish, update, boot, axis, TypeOK
<1>4. ASSUME Cancel PROVE TypeOK'
  BY <1>4 DEF Cancel, Cancelled, operation, update, boot, axis, TypeOK, NoRequest, Task, Kind, Owner
<1>5. ASSUME NEW kind \in Kind, Finish(kind) PROVE TypeOK'
  BY <1>5 DEF Finish, Grbl, operation, update, boot, axis, TypeOK, NoRequest, Task, Kind, Owner
<1>6. ASSUME FinishRelease PROVE TypeOK'
  BY <1>6 DEF FinishRelease, Released, operation, update, boot, axis, TypeOK, NoRequest, Task, Kind, Owner
<1>7. ASSUME ResetBegin PROVE TypeOK'
  BY <1>7 DEF ResetBegin, Released, Grbl, operation, update, boot, axis, TypeOK, NoRequest, Task, Kind, Owner
<1>8. ASSUME ResetPaused PROVE TypeOK'
  BY <1>8 DEF ResetPaused, operation, update, boot, axis, TypeOK, NoRequest, Task, Kind, Owner
<1>9. ASSUME ResetRelease PROVE TypeOK'
  BY <1>9 DEF ResetRelease, Released, operation, update, boot, axis, TypeOK, NoRequest, Task, Kind, Owner
<1>10. ASSUME ResetClear PROVE TypeOK'
  BY <1>10 DEF ResetClear, operation, update, boot, axis, TypeOK, NoRequest, Task, Kind, Owner
<1>11. ASSUME BeginMotion PROVE TypeOK'
  BY <1>11 DEF BeginMotion, operation, update, boot, axis, TypeOK, NoRequest, Task, Kind, Owner
<1>12. ASSUME EndMotion PROVE TypeOK'
  BY <1>12 DEF EndMotion, operation, update, boot, axis, TypeOK, NoRequest, Task, Kind, Owner
<1>13. ASSUME NEW value \in BOOLEAN, SetDisabled(value) PROVE TypeOK'
  BY <1>13 DEF SetDisabled, operation, update, boot, axis, TypeOK, NoRequest, Task, Kind, Owner
<1>14. ASSUME AxisStopPoll PROVE TypeOK'
  BY <1>14 DEF AxisStopPoll, Cancelled, operation, update, boot, axis, TypeOK, NoRequest, Task, Kind, Owner
<1>15. ASSUME AxisApplyPoll PROVE TypeOK'
  BY <1>15 DEF AxisApplyPoll, AtRest, Grbl, operation, update, boot, axis, TypeOK, NoRequest, Task, Kind, Owner
<1>16. ASSUME UpdateRequest PROVE TypeOK'
  BY <1>16 DEF UpdateRequest, operation, update, boot, axis, TypeOK, NoRequest, Task, Kind, Owner
<1>17. ASSUME UpdateCancel PROVE TypeOK'
  BY <1>17 DEF UpdateCancel, Released, operation, update, boot, axis, TypeOK, NoRequest, Task, Kind, Owner
<1>18. ASSUME Activate PROVE TypeOK'
  <2>1. generation' \in 0 .. MaxGeneration /\ sessionGen' \in 0 .. generation'
    BY <1>18, OwnershipAssumption DEF Activate, TypeOK
  <2>2. owner' \in Owner /\ UNCHANGED <<active, stopping, request, step, session, boot, uploading>>
    BY <1>18 DEF Activate, Owner
  <2>3. \A b \in {moving, raced, requested, enabled, uploading, overdue, validation, reject,
                  disabled, applied, axisStop, axisChange}' : b \in BOOLEAN
    BY <1>18 DEF Activate, TypeOK, boot, axis
  <2>4. /\ uploading' <=> session' \in {"upload", "verified"}
        /\ active' \subseteq Kind /\ stopping' \subseteq Kind
        /\ request' \in [Task -> [kind : Kind \cup {"none"}, claimed : BOOLEAN]]
        /\ step' \in Kind \cup {"none", "reset", "released", "confirmed"}
        /\ session' \in {"none", "handshake", "upload", "verified"}
        /\ uptime' \in {0, 5, 30} /\ readyFor' \in {"unset", "less", "more"}
    BY <1>18 DEF Activate, TypeOK, boot
  <2> QED
    BY <2>1, <2>2, <2>3, <2>4 DEF TypeOK
<1>19. ASSUME FiveMinutes PROVE TypeOK'
  BY <1>19 DEF FiveMinutes, operation, update, boot, axis, TypeOK, NoRequest, Task, Kind, Owner
<1>20. ASSUME Expire PROVE TypeOK'
  BY <1>20 DEF Expire, Released, operation, update, boot, axis, TypeOK, NoRequest, Task, Kind, Owner
<1>21. ASSUME Connect PROVE TypeOK'
  BY <1>21 DEF Connect, operation, update, boot, axis, TypeOK, NoRequest, Task, Kind, Owner
<1>22. ASSUME Accept PROVE TypeOK'
  BY <1>22 DEF Accept, AcceptUpload, operation, update, boot, axis, TypeOK, NoRequest, Task, Kind, Owner
<1>23. ASSUME Disconnect PROVE TypeOK'
  BY <1>23 DEF Disconnect, operation, update, boot, axis, TypeOK, NoRequest, Task, Kind, Owner
<1>24. ASSUME Verified PROVE TypeOK'
  BY <1>24 DEF Verified, operation, update, boot, axis, TypeOK, NoRequest, Task, Kind, Owner
<1>25. ASSUME Restart PROVE TypeOK'
  <2>1. (session = "verified") \in BOOLEAN
    OBVIOUS
  <2> QED
    BY <1>25, <2>1, BootedType DEF Restart
<1>26. ASSUME RollBack PROVE TypeOK'
  BY <1>26, BootedType DEF RollBack
<1>27. ASSUME Ready PROVE TypeOK'
  BY <1>27 DEF Ready, operation, update, boot, axis, TypeOK, NoRequest, Task, Kind, Owner
<1>28. ASSUME Confirm PROVE TypeOK'
  BY <1>28 DEF Confirm, Grbl, operation, update, boot, axis, TypeOK, NoRequest, Task, Kind, Owner
<1>29. ASSUME ConfirmRelease PROVE TypeOK'
  BY <1>29 DEF ConfirmRelease, Released, operation, update, boot, axis, TypeOK, NoRequest, Task, Kind, Owner
<1>30. ASSUME Time PROVE TypeOK'
  BY <1>30 DEF Time, operation, update, boot, axis, TypeOK, NoRequest, Task, Kind, Owner
<1>31. CASE UNCHANGED vars
  BY <1>31 DEF vars, operation, update, boot, axis, TypeOK, NoRequest, Task, Kind, Owner
<1> QED
  BY <1>1, <1>2, <1>3, <1>4, <1>5, <1>6, <1>7, <1>8, <1>9, <1>10, <1>11, <1>12, <1>13, <1>14, <1>15, <1>16, <1>17, <1>18, <1>19, <1>20, <1>21, <1>22, <1>23, <1>24, <1>25, <1>26, <1>27, <1>28, <1>29, <1>30, <1>31 DEF Next
-----------------------------------------------------------------------------
(* The update mode and the axes.                                           *)

\* A claim names an operation.
LEMMA ClaimsStep == TypeOK /\ ClaimsKnown /\ [Next]_vars => ClaimsKnown'
<1> SUFFICES ASSUME TypeOK, ClaimsKnown, [Next]_vars PROVE ClaimsKnown'
  OBVIOUS
<1>1. CASE UNCHANGED request
  BY <1>1 DEF ClaimsKnown, Claim
<1>2. ASSUME NEW t \in Task, NEW kind \in Kind, RequestCheck(t, kind) PROVE ClaimsKnown'
  BY <1>2 DEF RequestCheck, ClaimsKnown, Claim, TypeOK
<1>3. ASSUME NEW t \in Task, RequestClaim(t) PROVE ClaimsKnown'
  BY <1>3 DEF RequestClaim, ClaimsKnown, Claim, TypeOK, NoRequest
<1>4. ASSUME NEW t \in Task, RequestPublish(t) PROVE ClaimsKnown'
  BY <1>4 DEF RequestPublish, ClaimsKnown, Claim, TypeOK, NoRequest
<1>5. ASSUME NEW image, Booted(image) PROVE ClaimsKnown'
  BY <1>5 DEF Booted, ClaimsKnown, Claim, NoRequest
<1> QED
  BY <1>1, <1>2, <1>3, <1>4, <1>5
  DEF Next, vars, operation, Cancel, Finish, FinishRelease, ResetBegin, ResetPaused, ResetRelease,
      ResetClear, BeginMotion, EndMotion, SetDisabled, AxisStopPoll, AxisApplyPoll, UpdateRequest,
      UpdateCancel, Activate, FiveMinutes, Expire, Connect, Accept, Disconnect, Verified, Restart,
      RollBack, Ready, Confirm, ConfirmRelease, Time

\* A switched off axis rests: the outputs change at rest, and motion begins only
\* while no axis is off or about to change.
LEMMA RestStep == TypeOK /\ DisabledAxisRests /\ [Next]_vars => DisabledAxisRests'
<1> SUFFICES ASSUME TypeOK, DisabledAxisRests, [Next]_vars PROVE DisabledAxisRests'
  OBVIOUS
<1> USE DEF DisabledAxisRests
<1>1. CASE applied' = applied /\ moving' = moving
  BY <1>1
<1>2. CASE ~moving'
  BY <1>2
<1>3. CASE BeginMotion
  BY <1>3 DEF BeginMotion, axis
<1>4. CASE AxisApplyPoll
  BY <1>4 DEF AxisApplyPoll, AtRest
<1> QED
  BY <1>1, <1>2, <1>3, <1>4
  DEF Next, vars, axis, RequestCheck, RequestClaim, RequestPublish, Cancel, Finish, FinishRelease,
      ResetBegin, ResetPaused, ResetRelease, ResetClear, EndMotion, SetDisabled, AxisStopPoll,
      UpdateRequest, UpdateCancel, Activate, FiveMinutes, Expire, Connect, Accept, Disconnect,
      Verified, Restart, RollBack, Booted, Ready, Confirm, ConfirmRelease, Time

\* What the update mode keeps: only its own actions and a start touch it.
LEMMA UpdateStep == TypeOK /\ UpdateInv /\ ClaimsKnown /\ [Next]_vars => UpdateInv'
<1> SUFFICES ASSUME TypeOK, UpdateInv, ClaimsKnown, [Next]_vars PROVE UpdateInv'
  OBVIOUS
<1> USE DEF UpdateInv, UpdateApart, UpdateHoldsMachine, UpdateActive
<1>1. CASE UNCHANGED <<owner, step, update, boot>> /\ (moving' => moving \/ ~UpdateActive)
  BY <1>1 DEF update, boot
<1>2. ASSUME NEW t \in Task, RequestClaim(t) PROVE UpdateInv'
  BY <1>2 DEF RequestClaim, update, boot
<1>3. ASSUME NEW t \in Task, RequestPublish(t) PROVE UpdateInv'
  BY <1>3 DEF RequestPublish, ClaimsKnown, Claim, Kind, Released, update, boot
<1>4. ASSUME NEW kind \in Kind, Finish(kind) PROVE UpdateInv'
  BY <1>4 DEF Finish, Kind, update, boot
<1>5. ASSUME FinishRelease PROVE UpdateInv'
  BY <1>5 DEF FinishRelease, Kind, Released, update, boot
<1>6. ASSUME ResetBegin PROVE UpdateInv'
  BY <1>6 DEF ResetBegin, Released, update, boot
<1>7. ASSUME ResetRelease PROVE UpdateInv'
  BY <1>7 DEF ResetRelease, Released, update, boot
<1>8. ASSUME ResetClear PROVE UpdateInv'
  BY <1>8 DEF ResetClear, update, boot
<1>9. ASSUME UpdateRequest \/ FiveMinutes \/ Verified \/ Ready \/ Time PROVE UpdateInv'
  BY <1>9 DEF UpdateRequest, FiveMinutes, Verified, Ready, Time, TypeOK, operation, update, boot
<1>10. ASSUME UpdateCancel PROVE UpdateInv'
  BY <1>10 DEF UpdateCancel, TypeOK, Released, boot
<1>11. ASSUME Activate PROVE UpdateInv'
  BY <1>11 DEF Activate, MachineIdle, Grbl, TypeOK, boot
<1>12. ASSUME Expire PROVE UpdateInv'
  BY <1>12 DEF Expire, TypeOK, Released, boot
<1>13. ASSUME Connect PROVE UpdateInv'
  BY <1>13 DEF Connect, operation, boot
<1>14. ASSUME Accept PROVE UpdateInv'
  BY <1>14 DEF Accept, AcceptUpload, operation, boot
<1>15. ASSUME Disconnect PROVE UpdateInv'
  BY <1>15 DEF Disconnect, TypeOK, operation, boot
<1>16. ASSUME NEW image, Booted(image) PROVE UpdateInv'
  BY <1>16 DEF Booted
<1>17. ASSUME Confirm PROVE UpdateInv'
  BY <1>17 DEF Confirm, TypeOK, update
<1>18. ASSUME ConfirmRelease PROVE UpdateInv'
  BY <1>18 DEF ConfirmRelease, Released, update, boot
<1>19. ASSUME BeginMotion \/ EndMotion \/ ResetPaused PROVE UpdateInv'
  BY <1>1, <1>19 DEF BeginMotion, EndMotion, ResetPaused, operation
<1>20. ASSUME \/ \E t \in Task, kind \in Kind : RequestCheck(t, kind)
              \/ \E value \in BOOLEAN : SetDisabled(value)
              \/ Cancel \/ AxisStopPoll \/ AxisApplyPoll \/ UNCHANGED vars
       PROVE  UpdateInv'
  BY <1>1, <1>20 DEF RequestCheck, Cancel, SetDisabled, AxisStopPoll, AxisApplyPoll, vars, operation
<1> QED
  BY <1>2, <1>3, <1>4, <1>5, <1>6, <1>7, <1>8, <1>9, <1>10, <1>11, <1>12, <1>13, <1>14, <1>15, <1>16,
     <1>17, <1>18, <1>19, <1>20
  DEF Next, Restart, RollBack
-----------------------------------------------------------------------------
(* The grants.                                                             *)

\* What each way of holding the machine says of a claim.
Claims(who) == \E t \in Task : Claim(t) /\ request[t].kind = who
Holding(who) ==
    \/ who \in active /\ ~(who = "profile" /\ step = "released")
    \/ Claims(who)
    \/ who \in Kind /\ step = who
    \/ who = "update" /\ UpdateActive

\* A claimed request is known by its two fields.
LEMMA HoldsForm ==
  /\ TypeOK => \A who : Holds(who) <=> Holding(who)
  /\ TypeOK' => \A who : Holds(who)' <=> Holding(who)'
<1>1. ASSUME NEW r \in [kind : Kind \cup {"none"}, claimed : BOOLEAN], NEW who
      PROVE  r = [kind |-> who, claimed |-> TRUE] <=> r.kind = who /\ r.claimed
  OBVIOUS
<1>2. TypeOK => \A who : \A t \in Task :
        request[t] = [kind |-> who, claimed |-> TRUE] <=> request[t].kind = who /\ Claim(t)
  BY <1>1 DEF TypeOK, Claim
<1>3. TypeOK' => \A who : \A t \in Task :
        request'[t] = [kind |-> who, claimed |-> TRUE] <=> request'[t].kind = who /\ Claim(t)'
  BY <1>1 DEF TypeOK, Claim
<1>4. TypeOK => \A who :
        Claims(who) <=> \E t \in Task : request[t] = [kind |-> who, claimed |-> TRUE]
  BY <1>2 DEF Claims
<1>5. TypeOK' => \A who :
        Claims(who)' <=> \E t \in Task : request'[t] = [kind |-> who, claimed |-> TRUE]
  BY <1>3 DEF Claims
<1>6. ASSUME TypeOK, NEW who PROVE Holds(who) <=> Holding(who)
  BY <1>4, <1>6 DEF Holds, Holding
<1>7. ASSUME TypeOK', NEW who PROVE Holds(who)' <=> Holding(who)'
  BY <1>5, <1>7 DEF Holds, Holding
<1> QED
  BY <1>6, <1>7

\* Every step keeps the grants.
LEMMA GrantStep == TypeOK /\ TypeOK' /\ ClaimsKnown /\ UpdateInv /\ GrantInv /\ [Next]_vars => GrantInv'
<1> SUFFICES ASSUME TypeOK, TypeOK', ClaimsKnown, UpdateInv, GrantInv, [Next]_vars PROVE GrantInv'
  OBVIOUS
<1>1. \A who : Holds(who) <=> Holding(who)
  BY HoldsForm
<1>2. \A who : Holds(who)' <=> Holding(who)'
  BY HoldsForm
<1>3. CASE UNCHANGED <<owner, active, request, step, raced, enabled, validation>>
  BY <1>3 DEF GrantInv, Granted, Alone, Holds, Claim, UpdateActive
<1>5. ASSUME NEW t \in Task, NEW kind \in Kind, RequestCheck(t, kind) PROVE GrantInv'
  BY <1>5, <1>1, <1>2 DEF RequestCheck, Free, Grbl, update, boot, GrantInv, Granted, Alone, Holding, Claims, Claim, UpdateActive, TypeOK, Kind, Owner, Task, NoRequest
<1>6. ASSUME NEW t \in Task, RequestClaim(t) PROVE GrantInv'
  <2> SUFFICES ASSUME ~raced PROVE Granted' /\ Alone'
    BY <1>6 DEF GrantInv, RequestClaim
  <2>1. Granted /\ Alone
    BY DEF GrantInv
  <2>2. request[t] \in [kind : Kind \cup {"none"}, claimed : BOOLEAN] /\ ~Claim(t)
    BY <1>6 DEF RequestClaim, TypeOK, Claim
  <2>3. \A s \in Task \ {t} : request'[s] = request[s]
    BY <1>6 DEF RequestClaim, TypeOK
  <2>4. UNCHANGED <<active, step, enabled, validation>>
    BY <1>6 DEF RequestClaim, update, boot
  <2>5. CASE owner = "none"
    <3>1. request'[t].kind = request[t].kind /\ request'[t].claimed /\ owner' = request[t].kind
      BY <1>6, <2>5 DEF RequestClaim, TypeOK
    <3>2. request[t].kind \in Kind
      BY <1>6, <2>2 DEF RequestClaim
    <3>3. \A who \in Owner \ {"none"} : ~Holding(who)
      BY <1>1, <2>1, <2>5 DEF Granted
    <3>4. \A s \in Task : ~Claim(s)
      BY <3>3 DEF ClaimsKnown, Holding, Claims, Kind, Owner
    <3>5. \A who : Holding(who)' => Holding(who) \/ who = request[t].kind
      BY <2>3, <2>4, <3>1 DEF Holding, Claims, Claim, UpdateActive
    <3>6. Holding("none")' => FALSE
      BY <3>2, <3>5, <3>4, <2>4 DEF Holding, Claims, TypeOK, Kind
    <3>7. Granted'
      <4>1. \A who : who = request[t].kind => Holding(who)'
        BY <3>1 DEF Holding, Claims, Claim
      <4> QED
        BY <1>2, <3>1, <3>3, <3>5, <3>6, <4>1 DEF Granted
    <3>8. Alone'
      BY <2>3, <2>4, <3>1, <3>2, <3>3, <3>4, <2>1 DEF Alone, Claim, Holding, Kind, Owner, Task
    <3> QED
      BY <3>7, <3>8
  <2>6. CASE owner # "none"
    <3>1. request'[t] = NoRequest /\ owner' = owner
      BY <1>6, <2>6 DEF RequestClaim, TypeOK
    <3>2. \A s \in Task : Claim(s)' <=> Claim(s)
      BY <2>2, <2>3, <3>1 DEF Claim, NoRequest
    <3>3. \A s \in Task : Claim(s) => request'[s] = request[s]
      BY <2>2, <2>3
    <3>4. \A who : Holding(who)' <=> Holding(who)
      BY <2>4, <3>2, <3>3 DEF Holding, Claims, UpdateActive
    <3> QED
      BY <1>1, <1>2, <2>1, <2>4, <3>1, <3>2, <3>3, <3>4 DEF Granted, Alone, Task
  <2> QED
    BY <2>5, <2>6
<1>7. ASSUME NEW t \in Task, RequestPublish(t) PROVE GrantInv'
  BY <1>7, <1>1, <1>2 DEF RequestPublish, ClaimsKnown, Released, update, boot, GrantInv, Granted, Alone, Holding, Claims, Claim, UpdateActive, TypeOK, Kind, Owner, Task, NoRequest
<1>8. ASSUME NEW kind \in Kind, Finish(kind) PROVE GrantInv'
  BY <1>8, <1>1, <1>2 DEF Finish, Grbl, update, boot, GrantInv, Granted, Alone, Holding, Claims, Claim, UpdateActive, TypeOK, Kind, Owner, Task, NoRequest
<1>9. ASSUME FinishRelease PROVE GrantInv'
  BY <1>9, <1>1, <1>2 DEF FinishRelease, Released, update, boot, GrantInv, Granted, Alone, Holding, Claims, Claim, UpdateActive, TypeOK, Kind, Owner, Task, NoRequest
<1>10. ASSUME ResetBegin PROVE GrantInv'
  BY <1>10, <1>1, <1>2 DEF ResetBegin, Released, Grbl, update, boot, GrantInv, Granted, Alone, Holding, Claims, Claim, UpdateActive, TypeOK, Kind, Owner, Task, NoRequest
<1>11. ASSUME ResetRelease PROVE GrantInv'
  BY <1>11, <1>1, <1>2 DEF ResetRelease, Released, update, boot, GrantInv, Granted, Alone, Holding, Claims, Claim, UpdateActive, TypeOK, Kind, Owner, Task, NoRequest
<1>12. ASSUME ResetClear PROVE GrantInv'
  <2>1. \A who : Holding(who)' <=> Holding(who)
    BY <1>12 DEF ResetClear, update, boot, Holding, Claims, Claim, UpdateActive, Kind
  <2>2. Alone => Alone'
    BY <1>12 DEF ResetClear, Alone, Claim, Kind, ClaimsKnown
  <2> QED
    BY <1>1, <1>2, <1>12, <2>1, <2>2 DEF ResetClear, GrantInv, Granted
<1>13. ASSUME UpdateCancel PROVE GrantInv'
  BY <1>13, <1>1, <1>2 DEF UpdateCancel, Released, boot, UpdateInv, UpdateHoldsMachine, UpdateApart, GrantInv, Granted, Alone, Holding, Claims, Claim, UpdateActive, TypeOK, Kind, Owner, Task, NoRequest
<1>14. ASSUME Activate PROVE GrantInv'
  BY <1>14, <1>1, <1>2 DEF Activate, Grbl, boot, GrantInv, Granted, Alone, Holding, Claims, Claim, UpdateActive, TypeOK, Kind, Owner, Task, NoRequest
<1>15. ASSUME Expire PROVE GrantInv'
  BY <1>15, <1>1, <1>2 DEF Expire, Released, boot, UpdateInv, UpdateApart, UpdateHoldsMachine, GrantInv, Granted, Alone, Holding, Claims, Claim, UpdateActive, TypeOK, Kind, Owner, Task, NoRequest
<1>16. ASSUME NEW image, Booted(image) PROVE GrantInv'
  BY <1>16, <1>1, <1>2 DEF Booted, GrantInv, Granted, Alone, Holding, Claims, Claim, UpdateActive, TypeOK, Kind, Owner, Task, NoRequest
<1>17. ASSUME Confirm PROVE GrantInv'
  BY <1>17, <1>1, <1>2 DEF Confirm, Grbl, update, GrantInv, Granted, Alone, Holding, Claims, Claim, UpdateActive, TypeOK, Kind, Owner, Task, NoRequest
<1>18. ASSUME ConfirmRelease PROVE GrantInv'
  <2>1. ~UpdateActive
    BY <1>18 DEF ConfirmRelease, UpdateInv, UpdateApart, UpdateActive
  <2>2. \A who : Holding(who)' <=> Holding(who)
    BY <1>18 DEF ConfirmRelease, update, boot, Holding, Claims, Claim, UpdateActive, Kind
  <2>3. Alone => Alone'
    BY <1>18 DEF ConfirmRelease, Alone, Claim, Kind, ClaimsKnown
  <2>4. Granted => ~Holding("update")
    BY <1>18, <2>1 DEF ConfirmRelease, Holding, Claims, ClaimsKnown, Kind, TypeOK
  <2> QED
    BY <1>1, <1>2, <1>18, <2>2, <2>3, <2>4 DEF ConfirmRelease, Released, GrantInv, Granted
<1> QED
  BY <1>3, <1>5, <1>6, <1>7, <1>8, <1>9, <1>10, <1>11, <1>12, <1>13, <1>14, <1>15, <1>16, <1>17, <1>18
  DEF Next, vars, operation, update, boot, Cancel, ResetPaused, BeginMotion, EndMotion, SetDisabled,
      AxisStopPoll, AxisApplyPoll, UpdateRequest, FiveMinutes, Connect, Accept, Disconnect, Verified,
      Restart, RollBack, Ready, Time
-----------------------------------------------------------------------------
(* The theorems.                                                           *)

LEMMA InitInv == Init => IInv
<1> SUFFICES ASSUME Init PROVE IInv
  OBVIOUS
<1>1. TypeOK
  <2>1. generation \in 0 .. MaxGeneration /\ sessionGen \in 0 .. generation
    BY OwnershipAssumption DEF Init
  <2>2. request \in [Task -> [kind : Kind \cup {"none"}, claimed : BOOLEAN]]
    BY DEF Init, NoRequest
  <2> QED
    BY <2>1, <2>2 DEF Init, TypeOK, Kind, Owner
<1>2. \A t \in Task : ~Claim(t)
  BY DEF Init, Claim, NoRequest
<1>3. \A who : ~Holding(who)
  BY <1>2 DEF Init, Holding, Claims, UpdateActive, Kind
<1>4. Granted
  BY <1>1, <1>3, HoldsForm DEF Init, Granted
<1>5. ClaimsKnown /\ Alone
  BY <1>2 DEF Init, ClaimsKnown, Alone, Task, Kind
<1> QED
  BY <1>1, <1>4, <1>5
  DEF Init, IInv, UpdateInv, GrantInv, UpdateApart, UpdateHoldsMachine, UpdateActive,
      DisabledAxisRests

\* The invariant is inductive.
LEMMA IInvStep == IInv /\ [Next]_vars => IInv'
<1> SUFFICES ASSUME IInv, [Next]_vars PROVE IInv'
  OBVIOUS
<1>1. TypeOK' /\ ClaimsKnown' /\ DisabledAxisRests'
  BY TypeStep, ClaimsStep, RestStep DEF IInv
<1>2. UpdateInv'
  BY UpdateStep DEF IInv
<1>3. GrantInv'
  BY <1>1, GrantStep DEF IInv
<1> QED
  BY <1>1, <1>2, <1>3 DEF IInv

THEOREM Inductive == Spec => []IInv
<1>1. Init => IInv
  BY InitInv
<1>2. IInv /\ [Next]_vars => IInv'
  BY IInvStep
<1> QED
  BY <1>1, <1>2, PTL DEF Spec

\* Every variable keeps its type, and an upload is marked as such exactly while
\* transfer() serves it (network.c:140-216).
THEOREM TypeCorrect == Spec => []TypeOK
<1>1. IInv => TypeOK
  BY DEF IInv
<1> QED
  BY <1>1, Inductive, PTL

\* At most one of the cycle, the assisted feed and the update mode holds the
\* machine, and nobody keeps it without holding it, as long as no request of
\* the UI task fell between the two steps of a reset (bridge.c, cycle.c:141).
THEOREM MutualExclusion == Spec => []Exclusive
<1>1. IInv => Exclusive
  BY DEF IInv, GrantInv, Granted, Exclusive
<1> QED
  BY <1>1, Inductive, PTL

\* An accepted upload keeps its session, its update mode and the machine, and a
\* new image keeps the machine until it is confirmed (network.c:154).
THEOREM UploadKeepsMachine == Spec => []UpdateHoldsMachine
<1>1. IInv => UpdateHoldsMachine
  BY DEF IInv, UpdateInv
<1> QED
  BY <1>1, Inductive, PTL

\* An axis that is switched off does not move (controller.c:63).
THEOREM AxisRests == Spec => []DisabledAxisRests
<1>1. IInv => DisabledAxisRests
  BY DEF IInv
<1> QED
  BY <1>1, Inductive, PTL
=============================================================================
