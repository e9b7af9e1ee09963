------------------------------ MODULE Scheduler ------------------------------
(***************************************************************************)
(* Package rotation (internal/rotation/scheduler.go): the three pure       *)
(* functions that decide when a policy rotates.  Times and durations are   *)
(* integers of one common unit.  A cron expression is abstracted to the    *)
(* set of instants at which it fires; an expression outside DOMAIN Cron is *)
(* one the five-field parser rejects.                                      *)
(***************************************************************************)
EXTENDS Integers

CONSTANTS
  Cron,      \* [schedule -> set of the instants at which it fires]
  MinDelay   \* minRequeueDelay, the shortest sleep between two reconciles

Nil == -1      \* a nil *time.Time: the policy has never rotated

\* time.Time{}: what robfig/cron returns when no instant matches.  It lies
\* before every instant at which the program runs.
ZeroTime == 0

ASSUME CronAssumption == \A s \in DOMAIN Cron : Cron[s] \subseteq Nat \ {0}
ASSUME MinDelayAssumption == MinDelay \in Nat \ {0}

Time == Nat \ {0}
MaybeTime == Time \cup {Nil}

\* parser.Parse accepts the expression.
Parses(schedule) == schedule \in DOMAIN Cron

Fires(schedule) == IF Parses(schedule) THEN Cron[schedule] ELSE {}

\* Variant: a slot may follow itself.
FiresFrom(schedule, from) == {t \in Fires(schedule) : t >= from}

\* The instants sched.Next(from) chooses from.
FiresAfter(schedule, from) == {t \in Fires(schedule) : t > from}

\* The next scheduled time strictly after from, or the zero time: it is also
\* what comes with a parse error, and "no such instant" is no error at all.
NextScheduled(schedule, from) ==
  IF FiresAfter(schedule, from) = {}
    THEN ZeroTime
    ELSE CHOOSE t \in FiresAfter(schedule, from) :
           \A u \in FiresAfter(schedule, from) : t <= u

\* IsDue and RequeueDelay fail only when they reach the parser: a policy that
\* never rotated is due whatever its schedule says.
ScheduleError(schedule, last) == last # Nil /\ ~Parses(schedule)

IsDue(schedule, last, window, now) ==
  last # Nil => now >= NextScheduled(schedule, last) - window

\* Variant: the window is added to the next slot instead of taken off.
RequeueDelayLate(schedule, last, window, now) ==
  LET from == IF last = Nil THEN now ELSE last
      untilNext == NextScheduled(schedule, from) + window - now
  IN  IF untilNext > MinDelay THEN untilNext ELSE MinDelay

RequeueDelay(schedule, last, window, now) ==
  LET from == IF last = Nil THEN now ELSE last
      untilNext == NextScheduled(schedule, from) - window - now
  IN  IF untilNext > MinDelay THEN untilNext ELSE MinDelay

-----------------------------------------------------------------------------
(* The wake-up of the policy's key in the controller's work queue: Nil when *)
(* the key is not queued, otherwise the instant from which a worker may     *)
(* take it.  A key is queued once, at the earliest instant asked for.       *)

Earliest(wake, t) == IF wake = Nil \/ t < wake THEN t ELSE wake

\* A watch event, an error or Requeue: the key is ready at once.
ReadyNow == 0

\* Result{RequeueAfter: delay}: a delay that is not positive queues nothing.
After(wake, now, delay) == IF delay > 0 THEN Earliest(wake, now + delay) ELSE wake

Ready(wake, now) == wake # Nil /\ wake <= now
=============================================================================
