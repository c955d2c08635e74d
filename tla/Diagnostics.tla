----------------------------- MODULE Diagnostics -----------------------------
(***************************************************************************)
(* The diagnostics session of diagnostics.c: an operator opens it for half *)
(* an hour, from the panel or by a USB command, and only while it is open  *)
(* does the network task answer a request with what the grblHAL task has   *)
(* sampled.  The end of the session is one atomic word, in milliseconds of *)
(* a 32-bit clock, which three tasks check and clear without a lock.       *)
(*                                                                         *)
(* Two bounds on the schedule (ClockTicks): no task rests for Pause        *)
(* between two steps of one call, and the grblHAL task, which checks on    *)
(* every poll, completes a check begun less than Pause ago.  That the word *)
(* of an ended session is cleared before the clock wraps round to it is    *)
(* not assumed: it follows.  What a sample and a report hold is            *)
(* abstracted.                                                             *)
(***************************************************************************)
EXTENDS Words

Session == 1800000       \* half an hour
Pause == 60000

Callers == {"hook", "panel", "network"}
Starters == {"hook", "panel"}

VARIABLES
  clock,        \* esp_timer_get_time() / 1000, before it is cut to 32 bits
  expires,
  open, ends,   \* history: the session last started, not stopped since; its end on the clock
  quiet,        \* history: stopped, or never started, with no start called or under way since
  asked,        \* history: when a start was last called
  polled,       \* history: when the grblHAL task's last completed check began
  call,         \* of each task: where it is, `until`, the end it stands for, when it began,
                \* and whether an open session was then to be expected
  serve,        \* lathe_diagnostics_serve()
  reply,        \* what the last request was answered
  requested,    \* history: when the request had been read
  granted,      \* history: when its second check saw an open session, and the end it saw
  published     \* when the published sample was taken

session == <<expires, open, ends>>
will == <<quiet, asked>>
sessionVars == <<clock, session, will, polled, call, serve, reply, requested, granted, published>>
serving == <<serve, reply, requested, granted>>

AtRest == [at |-> "rest", until |-> 0, ends |-> 0, began |-> 0, expected |-> FALSE]

SessionInit ==
  /\ clock \in Nat
  /\ expires = 0 /\ open = FALSE /\ ends = 0
  /\ quiet = TRUE /\ asked = 0 /\ polled = clock
  /\ call = [c \in Callers |-> AtRest]
  /\ serve = "closed" /\ reply = "none" /\ requested = 0
  /\ granted = [at |-> 0, ends |-> 1]
  /\ published = 0

-----------------------------------------------------------------------------
(* Time, and the operator.                                                 *)

\* The steps of lathe_diagnostics_start() and lathe_diagnostics_active() between which a
\* task may be held up.
Between == {"start", "judge", "clear"}

ClockTicks ==
  /\ \A c \in Callers : call[c].at \in Between => clock < call[c].began + Pause
  /\ clock < polled + Pause
  /\ clock' = clock + 1
  /\ UNCHANGED <<session, will, polled, call, serving, published>>

\* lathe_diagnostics_start(): the clock is read, then the end is stored.
Start(c) ==
  /\ call[c].at = "rest"
  /\ call' = [call EXCEPT ![c].at = "start", ![c].began = clock]
  /\ quiet' = FALSE /\ asked' = clock
  /\ UNCHANGED <<clock, session, polled, serving, published>>
Store(c) ==
  /\ call[c].at = "start"
  /\ call' = [call EXCEPT ![c].at = "rest"]
  /\ ends' = call[c].began + Session
  /\ expires' = ends' % Word
  /\ open' = TRUE
  /\ UNCHANGED <<clock, will, polled, serving, published>>

\* lathe_diagnostics_stop().  A start that is under way may store after it.
Stop(c) ==
  /\ call[c].at = "rest"
  /\ expires' = 0 /\ open' = FALSE
  /\ quiet' = (\A d \in Starters : call[d].at # "start")
  /\ UNCHANGED <<clock, ends, asked, polled, call, serving, published>>

-----------------------------------------------------------------------------
(* lathe_diagnostics_active(): load, compare with the clock, exchange.     *)

Load(c) ==
  /\ call[c].at = "rest"
  /\ c = "network" => serve \in {"first", "second"}
  /\ call' = [call EXCEPT ![c] =
                [at |-> IF expires = 0 THEN "no" ELSE "judge",
                 until |-> expires, ends |-> ends, began |-> clock,
                 expected |-> ~quiet /\ clock < asked + Session]]
  /\ UNCHANGED <<clock, session, will, polled, serving, published>>
Judge(c) ==
  /\ call[c].at = "judge"
  /\ call' = [call EXCEPT ![c].at =
                IF Wrap(call[c].until - (clock % Word)) > 0 THEN "yes" ELSE "clear"]
  /\ granted' = IF c = "network" /\ call'[c].at = "yes"
                THEN [at |-> clock, ends |-> call[c].ends] ELSE granted
  /\ UNCHANGED <<clock, session, will, polled, serve, reply, requested, published>>
Clear(c) ==
  /\ call[c].at = "clear"
  /\ expires' = IF expires = call[c].until THEN 0 ELSE expires
  /\ call' = [call EXCEPT ![c].at = "no"]
  /\ UNCHANGED <<clock, open, ends, will, polled, serving, published>>

Answered(c) == /\ call[c].at \in {"yes", "no"}
               /\ call' = [call EXCEPT ![c].at = "rest"]

-----------------------------------------------------------------------------
(* What is done with the answer.                                           *)

\* lathe_diagnostics_poll() takes a sample, unless the last is younger than 250 ms.
Sample ==
  /\ Answered("hook")
  /\ published' \in IF call["hook"].at = "yes" THEN {published, call["hook"].began}
                    ELSE {published}
  /\ polled' = call["hook"].began
  /\ UNCHANGED <<clock, session, will, serving>>

\* lathe_ui_sync() shows whether the session is open.
Shown == Answered("panel") /\ UNCHANGED <<clock, session, will, polled, serving, published>>

\* lathe_diagnostics_serve(): a connection, refused if no session is open; the request, which
\* may not arrive or be none that is served; a second check, and the report.
Accept ==
  /\ serve = "closed" /\ serve' = "first" /\ reply' = "none"
  /\ UNCHANGED <<clock, session, will, polled, call, requested, granted, published>>
Checked(stage, next) ==
  /\ serve = stage /\ Answered("network")
  /\ \/ call["network"].at = "no" /\ serve' = "closed" /\ reply' = "403"
     \/ call["network"].at = "yes" /\ serve' = next /\ UNCHANGED reply
  /\ UNCHANGED <<clock, session, will, polled, requested, granted, published>>
Request ==
  /\ serve = "reading"
  /\ \/ serve' = "closed" /\ reply' \in {"none", "400", "404", "405"} /\ UNCHANGED requested
     \/ serve' = "second" /\ requested' = clock /\ UNCHANGED reply
  /\ UNCHANGED <<clock, session, will, polled, call, granted, published>>
Report ==
  /\ serve = "report" /\ serve' = "closed" /\ reply' = "200"
  /\ UNCHANGED <<clock, session, will, polled, call, requested, granted, published>>

SessionNext ==
  \/ ClockTicks \/ Sample \/ Shown \/ Accept \/ Request \/ Report
  \/ Checked("first", "reading") \/ Checked("second", "report")
  \/ \E c \in Starters : Start(c) \/ Store(c) \/ Stop(c)
  \/ \E c \in Callers : Load(c) \/ Judge(c) \/ Clear(c)

SessionSpec == SessionInit /\ [][SessionNext]_sessionVars

-----------------------------------------------------------------------------
(* Properties.                                                             *)

\* Every variable has its type.
SessionTypes ==
  /\ clock \in Nat /\ expires \in Nat /\ ends \in Nat /\ open \in BOOLEAN
  /\ quiet \in BOOLEAN /\ asked \in Nat /\ polled \in Nat
  /\ call \in [Callers -> [at : {"rest", "start", "judge", "clear", "yes", "no"},
                           until : Nat, ends : Nat, began : Nat, expected : BOOLEAN]]
  /\ serve \in {"closed", "first", "reading", "second", "report"}
  /\ reply \in {"none", "400", "403", "404", "405", "200"}
  /\ requested \in Nat /\ granted \in [at : Nat, ends : Nat] /\ published \in Nat

\* A session the operator opened or extended stays open until it is stopped or its half hour
\* is over: the check of another task, which found the session before it over, does not
\* clear it.  One end in 2^32 is 0, the mark of no session.
SessionKept == open /\ clock < ends /\ ends % Word # 0 => expires = ends % Word

\* A check that begins after a stop which no start overlapped or followed, or half an hour
\* or more after a start was last called, answers no, however long ago that was: not when
\* the 32-bit clock comes round to the end of an old session, nor when a check or a start
\* of another task is held up on the way.
YesExpected == \A c \in Callers : call[c].at = "yes" => call[c].expected

\* A report is sent only if a session was seen open after the request had been read, over
\* any wrap of the 32-bit clock.
SharedWhileOpen == serve = "report" => requested <= granted.at /\ granted.at < granted.ends
=============================================================================
