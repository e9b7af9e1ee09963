------------------------------- MODULE Cadence -------------------------------
(***************************************************************************)
(* The rotation loop seen as a clock: what Reconcile promises about time   *)
(* when a rotation is one step and every write takes effect.  One policy   *)
(* is followed over an unbounded clock; the detailed controller, where a   *)
(* rotation is a sequence of calls that may fail, is module Reconciler.    *)
(***************************************************************************)
EXTENDS Scheduler, FiniteSets

CONSTANTS
  Plans,          \* the [schedule, window] pairs a user may write in the spec
  DegradedDelay,  \* RequeueAfter of markDegraded (one minute)
  MaxTime,        \* bound on the clock
  MaxRotations    \* bound on the scheduled rotations under one plan

ASSUME PlansAssumption ==
  \A p \in Plans : {"schedule", "window"} = DOMAIN p /\ p.window \in Nat
ASSUME DegradedDelayAssumption == DegradedDelay \in Nat \ {0}
ASSUME BoundsAssumption == MaxTime \in Nat /\ MaxRotations \in Nat

VARIABLES
  now,        \* the wall clock
  plan,       \* spec.schedule and spec.rotationWindow
  last,       \* status.lastRotationTime
  requested,  \* the rotate-now annotation is present
  wake,       \* when the key in the work queue is ready: it is always queued
  epoch       \* history, of the time the present plan is in force: from, the
              \* last rotation when it began (0: none), and scheduled, the
              \* rotations its schedule triggered since

vars == <<now, plan, last, requested, wake, epoch>>

TypeOK ==
  /\ now \in Time
  /\ plan \in Plans
  /\ last \in MaybeTime
  /\ requested \in BOOLEAN
  /\ wake \in Nat
  /\ epoch \in [from : Nat, scheduled : Nat]

\* A policy that was just created: its event is in the queue.
Init ==
  /\ now = 1
  /\ plan \in Plans
  /\ last = Nil
  /\ requested \in BOOLEAN
  /\ wake = ReadyNow
  /\ epoch = [from |-> 0, scheduled |-> 0]

Due == IsDue(plan.schedule, last, plan.window, now)
Degraded == ScheduleError(plan.schedule, last)

Tick ==
  /\ now < MaxTime
  /\ now' = now + 1
  /\ UNCHANGED <<plan, last, requested, wake, epoch>>

\* The user changes the schedule or the window: the watch event queues the key.
Edit ==
  /\ plan' \in Plans \ {plan}
  /\ wake' = ReadyNow
  /\ epoch' = [from |-> IF last = Nil THEN 0 ELSE last, scheduled |-> 0]
  /\ UNCHANGED <<now, last, requested>>

\* The user sets the rotate-now annotation.
Request ==
  /\ ~requested
  /\ requested' = TRUE
  /\ wake' = ReadyNow
  /\ UNCHANGED <<now, plan, last, epoch>>

\* A reconcile that rotates.  The status update of the rotation is an event of
\* its own, so the key is ready again at once.
Rotate ==
  /\ Ready(wake, now)
  /\ ~Degraded
  /\ Due \/ requested
  /\ epoch.scheduled < MaxRotations
  /\ last' = now
  /\ requested' = FALSE
  /\ wake' = ReadyNow
  /\ epoch' = IF requested THEN epoch ELSE [epoch EXCEPT !.scheduled = @ + 1]
  /\ UNCHANGED <<now, plan>>

\* A reconcile that finds nothing to do and sleeps until the next slot.
Sleep ==
  /\ Ready(wake, now)
  /\ ~Degraded
  /\ ~Due /\ ~requested
  /\ wake' = After(Nil, now, RequeueDelay(plan.schedule, last, plan.window, now))
  /\ UNCHANGED <<now, plan, last, requested, epoch>>

\* Variant: the path that cannot parse forgets to ask for the key again.
DegradeForgets ==
  /\ Ready(wake, now)
  /\ Degraded
  /\ wake' = Nil
  /\ UNCHANGED <<now, plan, last, requested, epoch>>

\* A reconcile that cannot parse the schedule: it never looks at the annotation.
Degrade ==
  /\ Ready(wake, now)
  /\ Degraded
  /\ wake' = After(Nil, now, DegradedDelay)
  /\ UNCHANGED <<now, plan, last, requested, epoch>>

Next == Tick \/ Edit \/ Request \/ Rotate \/ Sleep \/ Degrade

Spec == Init /\ [][Next]_vars

-----------------------------------------------------------------------------
(* Properties *)

\* A sleeping policy never misses a slot by as much as the minimum delay: as
\* long as the key is not ready, every slot that came at least MinDelay ago was
\* followed by a rotation.  This is what RequeueDelay is for: its lower bound
\* may let the loop oversleep a slot that is nearer than MinDelay, by less than
\* MinDelay.
SlotNotMissed ==
  ~Ready(wake, now) /\ ~Degraded =>
    \A s \in Fires(plan.schedule) : s + MinDelay <= now => s <= last

\* The slots the present plan may have served so far: those after the rotation
\* it found when it came into force, up to the rotation window ahead of now.
Slots == {s \in Fires(plan.schedule) : epoch.from < s /\ s <= now + plan.window}

\* "With schedule="0 2 * * *" and rotationWindow=10m, rotation fires at 01:50":
\* one rotation for each slot, at most a window early, and one more for a policy
\* that had never rotated.  A schedule with no slot left is excepted: its next
\* time is the zero time, which is always past.
OneRotationPerSlot ==
  FiresAfter(plan.schedule, now) # {} =>
    epoch.scheduled <= Cardinality(Slots) + (IF epoch.from = 0 THEN 1 ELSE 0)

\* "Schedule is a standard cron expression defining when to rotate": no
\* scheduled rotation but the first without a slot that calls for it, also
\* under a schedule with no slot left.
NoRotationWithoutSlot ==
  plan.window = 0 =>
    epoch.scheduled <= Cardinality(Slots) + (IF epoch.from = 0 THEN 1 ELSE 0)

\* Without a rotation window the loop keeps to one rotation per slot, whatever
\* the interleaving of requests made by hand, edits and late wake-ups.
OncePerSlotWithoutWindow == plan.window = 0 => OneRotationPerSlot
=============================================================================
