---------------------------- MODULE MotionUpgrade ----------------------------
(***************************************************************************)
(* lathe_storage_upgrade_motion() of storage.c: at start three axis        *)
(* settings of earlier releases are replaced in the core's settings, the   *)
(* core's blob is written, and a revision marks the upgrade as done.  Any  *)
(* setting may refuse its value, any write may fail, and power may be cut  *)
(* before every step; a later start has to carry on.                       *)
(*                                                                         *)
(* Of a setting's value the model keeps what the upgrade tells apart, and  *)
(* who put it there: "retired" (the value of an earlier release), "again"  *)
(* (the same number, entered by the operator), "replacement" and "tuned".  *)
(* The core (external) loads its blob before the upgrade, changes a        *)
(* setting in RAM at once and writes the blob as a whole.                  *)
(***************************************************************************)
EXTENDS Integers

VARIABLES
  core, motion_rev,   \* in flash: the core's blob, and the revision
  settings,           \* settings.axis, in RAM
  place,              \* where the upgrade is; "run" after it
  revision,           \* the revision read at this start
  changed,
  written             \* writes is not what it was before

vars == <<core, motion_rev, settings, place, revision, changed, written>>

Keys == {"z_acceleration", "x_rate", "x_acceleration"}
Values == {"retired", "again", "replacement", "tuned"}
Current == 4

\* The revision that retires a value.
Retires == [key \in Keys |-> IF key = "z_acceleration" THEN 1 ELSE IF key = "x_rate" THEN 2
                             ELSE Current]

\* The partition of an earlier release: a value that its revision has already retired was
\* entered by the operator.
Init ==
  /\ core \in [Keys -> Values] /\ motion_rev \in 0 .. Current
  /\ \A key \in Keys : core[key] = "retired" => motion_rev < Retires[key]
  /\ settings = core /\ place = "off" /\ revision = 0 /\ changed = FALSE /\ written = FALSE

PowerLost == place' = "off" /\ UNCHANGED <<core, motion_rev, settings, revision, changed, written>>

\* The core loads its settings; the upgrade returns at once if the partition is closed, the
\* revision cannot be read or it is current.  A missing revision is 0.
Start ==
  /\ place = "off"
  /\ settings' = core
  /\ place' \in IF motion_rev < Current THEN {"z_acceleration", "run"} ELSE {"run"}
  /\ revision' = motion_rev /\ changed' = FALSE /\ written' = FALSE
  /\ UNCHANGED <<core, motion_rev>>

Next3 == [key \in Keys |-> IF key = "z_acceleration" THEN "x_rate"
                           ELSE IF key = "x_rate" THEN "x_acceleration" ELSE "sync"]

\* A retired value is replaced, or the core refuses to and the upgrade is given up.
Due(key) == revision < Retires[key] /\ settings[key] \in {"retired", "again"}
Replace(key) ==
  /\ place = key
  /\ \/ ~Due(key) /\ place' = Next3[key] /\ UNCHANGED <<settings, changed>>
     \/ /\ Due(key)
        /\ settings' = [settings EXCEPT ![key] = "replacement"]
        /\ changed' = TRUE /\ place' = Next3[key]
     \/ Due(key) /\ place' = "run" /\ UNCHANGED <<settings, changed>>
  /\ UNCHANGED <<core, motion_rev, revision, written>>

\* nvs_buffer_sync_physical() and write_core(): the blob and the count of writes; a write
\* that fails leaves the old blob, or the new one uncounted.
Sync ==
  /\ place = "sync"
  /\ \/ ~changed /\ UNCHANGED <<core, written>>
     \/ changed /\ core' = settings /\ written' \in BOOLEAN
     \/ changed /\ core' = core /\ written' = FALSE
  /\ place' = IF changed /\ ~written' THEN "run" ELSE "mark"
  /\ UNCHANGED <<motion_rev, settings, revision, changed>>

\* The revision is written, or fails to be.
Mark ==
  /\ place = "mark"
  /\ motion_rev' \in {Current, motion_rev}
  /\ place' = "run"
  /\ UNCHANGED <<core, settings, revision, changed, written>>

\* The operator enters a setting; the core writes its blob when it is idle.
Enter(key, value) ==
  /\ place = "run"
  /\ settings' = [settings EXCEPT ![key] = value]
  /\ UNCHANGED <<core, motion_rev, place, revision, changed, written>>
Save ==
  /\ place = "run"
  /\ core' = settings
  /\ UNCHANGED <<motion_rev, settings, place, revision, changed, written>>

Next ==
  \/ PowerLost \/ Start \/ Sync \/ Mark \/ Save
  \/ \E key \in Keys : Replace(key)
  \/ \E key \in Keys, value \in Values \ {"retired"} : Enter(key, value)

Spec == Init /\ [][Next]_vars

-----------------------------------------------------------------------------
\* Every variable has its type.
TypeOK ==
  /\ core \in [Keys -> Values] /\ settings \in [Keys -> Values]
  /\ motion_rev \in 0 .. Current /\ revision \in 0 .. Current
  /\ place \in {"off", "sync", "mark", "run"} \cup Keys
  /\ changed \in BOOLEAN /\ written \in BOOLEAN

\* Where the current revision is in flash, no setting of an earlier release is left in the
\* core's blob: however often power is cut or a write fails, the revision never claims an
\* upgrade that did not reach flash, which no later start would make good.
RevisionMarksUpgrade == motion_rev = Current => \A key \in Keys : core[key] # "retired"
=============================================================================
