---------------------------- MODULE CadenceProofs ----------------------------
(***************************************************************************)
(* What the functions of package rotation return, for every argument, and  *)
(* on them the promises of the rotation loop, for every schedule, window,  *)
(* delay and bound.                                                        *)
(***************************************************************************)
EXTENDS Cadence, WellFoundedInduction, FiniteSetTheorems, TLAPS

-----------------------------------------------------------------------------
(* Package rotation *)

\* A non-empty set of naturals has a least element: the CHOOSE of NextScheduled
\* has something to choose.
LEMMA LeastExists ==
  ASSUME NEW S \in SUBSET Nat, S # {}
  PROVE  \E x \in S : \A y \in S : x <= y
<1>1. PICK x \in S : \A y \in S : ~(<<y, x>> \in OpToRel(<, Nat))
  BY WFMin, NatLessThanWellFounded, Zenon
<1>2. \A y \in S : ~(y < x)
  BY <1>1, Zenon DEF OpToRel
<1>3. QED
  BY <1>2

\* The instants of a schedule are positive, whatever the expression.
LEMMA FiresType ==
  ASSUME NEW schedule
  PROVE  Fires(schedule) \subseteq Nat \ {0}
BY CronAssumption DEF Fires, Parses

\* When the schedule fires after from, NextScheduled is the first such instant.
LEMMA NextScheduledLeast ==
  ASSUME NEW schedule, NEW from \in Int, FiresAfter(schedule, from) # {}
  PROVE  /\ NextScheduled(schedule, from) \in FiresAfter(schedule, from)
         /\ \A u \in FiresAfter(schedule, from) : NextScheduled(schedule, from) <= u
<1>1. FiresAfter(schedule, from) \in SUBSET Nat
  BY FiresType DEF FiresAfter
<1>2. \E t \in FiresAfter(schedule, from) : \A u \in FiresAfter(schedule, from) : t <= u
  BY <1>1, LeastExists
<1>3. QED
  BY <1>2 DEF NextScheduled

\* Otherwise it is the zero time; in every case it is a natural number.
LEMMA NextScheduledType ==
  ASSUME NEW schedule, NEW from \in Int
  PROVE  NextScheduled(schedule, from) \in Nat
<1>1. CASE FiresAfter(schedule, from) = {}
  BY <1>1 DEF NextScheduled, ZeroTime
<1>2. CASE FiresAfter(schedule, from) # {}
  BY <1>2, NextScheduledLeast, FiresType DEF FiresAfter
<1>3. QED
  BY <1>1, <1>2

\* IsDue says no only before the first slot after the last rotation: there is
\* such a slot, the window does not reach it, and neither does it reach a later.
THEOREM NotDueBeforeSlot ==
  ASSUME NEW schedule, NEW since \in MaybeTime, NEW window \in Nat, NEW at \in Time,
         ~IsDue(schedule, since, window, at)
  PROVE  /\ since \in Time
         /\ FiresAfter(schedule, since) # {}
         /\ \A s \in Fires(schedule) : s > since => at < s - window
<1>1. since \in Time /\ at < NextScheduled(schedule, since) - window
  BY NextScheduledType DEF IsDue, MaybeTime, Time, Nil
<1>2. FiresAfter(schedule, since) # {}
  BY <1>1 DEF NextScheduled, ZeroTime, Time
<1>3. \A s \in Fires(schedule) : s > since => NextScheduled(schedule, since) <= s
  BY <1>1, <1>2, NextScheduledLeast DEF FiresAfter, Time
<1>4. QED
  BY <1>1, <1>2, <1>3, FiresType, NextScheduledType DEF Time

\* A rotation clears the need for one: with no window, and a slot still to come,
\* a policy that has just rotated is not due.
THEOREM RotationClearsDue ==
  ASSUME NEW schedule, NEW at \in Time, FiresAfter(schedule, at) # {}
  PROVE  ~IsDue(schedule, at, 0, at)
<1>1. NextScheduled(schedule, at) \in Nat /\ NextScheduled(schedule, at) > at
  BY NextScheduledLeast, NextScheduledType DEF FiresAfter, Time
<1>2. QED
  BY <1>1 DEF IsDue, Nil, Time

\* RequeueDelay is positive, so the key is always queued again, and the wake-up
\* it asks for comes less than MinDelay after any slot still to be served.
THEOREM WakeNotLate ==
  ASSUME NEW schedule, NEW since \in MaybeTime, NEW window \in Nat, NEW at \in Time,
         ~IsDue(schedule, since, window, at)
  PROVE  LET delay == RequeueDelay(schedule, since, window, at)
         IN  /\ delay \in Nat \ {0}
             /\ \A s \in Fires(schedule) : s > since => at + delay < s + MinDelay
<1> DEFINE delay == RequeueDelay(schedule, since, window, at)
           untilNext == NextScheduled(schedule, since) - window - at
<1>1. since \in Time /\ FiresAfter(schedule, since) # {}
  BY NotDueBeforeSlot
<1>2. NextScheduled(schedule, since) \in Nat /\ MinDelay \in Nat \ {0}
  BY <1>1, NextScheduledType, MinDelayAssumption DEF Time
<1>3. delay = IF untilNext > MinDelay THEN untilNext ELSE MinDelay
  BY <1>1 DEF RequeueDelay, Time, Nil
<1>4. delay \in Nat \ {0}
  BY <1>2, <1>3 DEF Time
<1>5. ASSUME NEW s \in Fires(schedule), s > since
      PROVE  at + delay < s + MinDelay
  <2>1. s \in Nat /\ at < s - window
    BY <1>5, NotDueBeforeSlot, FiresType
  <2>2. NextScheduled(schedule, since) <= s
    BY <1>1, <1>5, NextScheduledLeast DEF FiresAfter, Time
  <2>3. QED
    BY <1>2, <1>3, <2>1, <2>2 DEF Time
<1>6. QED
  BY <1>4, <1>5

-----------------------------------------------------------------------------
(* The loop *)

\* Every variable of the loop keeps its type.
THEOREM TypeCorrect == Spec => []TypeOK
<1>1. Init => TypeOK
  BY DEF Init, TypeOK, Time, MaybeTime, ReadyNow
<1>2. TypeOK /\ [Next]_vars => TypeOK'
  <2> SUFFICES ASSUME TypeOK, [Next]_vars PROVE TypeOK'
    OBVIOUS
  <2> USE DEF TypeOK
  <2>1. CASE Tick
    BY <2>1 DEF Tick, Time
  <2>2. CASE Edit
    BY <2>2 DEF Edit, ReadyNow, MaybeTime, Time
  <2>3. CASE Request
    BY <2>3 DEF Request, ReadyNow
  <2>4. CASE Rotate
    <3>1. epoch' \in [from : Nat, scheduled : Nat]
      BY <2>4 DEF Rotate
    <3>2. last' \in MaybeTime /\ wake' \in Nat /\ requested' \in BOOLEAN
      BY <2>4 DEF Rotate, ReadyNow, MaybeTime
    <3>3. QED
      BY <2>4, <3>1, <3>2 DEF Rotate
  <2>5. CASE Sleep
    <3>1. RequeueDelay(plan.schedule, last, plan.window, now) \in Nat \ {0}
      BY <2>5, PlansAssumption, WakeNotLate DEF Sleep, Due
    <3>2. wake' \in Nat
      BY <2>5, <3>1 DEF Sleep, After, Earliest, Time
    <3>3. QED
      BY <2>5, <3>2 DEF Sleep
  <2>6. CASE Degrade
    <3>1. wake' \in Nat
      BY <2>6, DegradedDelayAssumption DEF Degrade, After, Earliest, Time
    <3>2. QED
      BY <2>6, <3>1 DEF Degrade
  <2>7. CASE UNCHANGED vars
    BY <2>7 DEF vars
  <2>8. QED
    BY <2>1, <2>2, <2>3, <2>4, <2>5, <2>6, <2>7 DEF Next
<1>3. QED
  BY <1>1, <1>2, PTL DEF Spec

-----------------------------------------------------------------------------
(* Slots are not missed.  SlotNotMissed speaks of the clock, so it is not    *)
(* inductive: what every step keeps is that the wake-up itself is early      *)
(* enough for each slot that is still to be served.                          *)

Timely ==
  \A s \in Fires(plan.schedule) : last < s => wake < s + MinDelay

LEMMA TimelyInit == Init => Timely
BY FiresType, MinDelayAssumption DEF Init, Timely, ReadyNow

LEMMA TimelyStep == TypeOK /\ Timely /\ [Next]_vars => Timely'
<1> SUFFICES ASSUME TypeOK, Timely, [Next]_vars PROVE Timely'
  OBVIOUS
<1>1. ASSUME wake' = ReadyNow PROVE Timely'
  BY <1>1, FiresType, MinDelayAssumption DEF Timely, ReadyNow
<1>2. CASE Tick
  BY <1>2 DEF Tick, Timely
<1>3. CASE Sleep
  <2>1. now + RequeueDelay(plan.schedule, last, plan.window, now) = wake'
    BY <1>3, PlansAssumption, WakeNotLate DEF Sleep, Due, TypeOK, After, Earliest
  <2>2. \A s \in Fires(plan.schedule) : s > last => wake' < s + MinDelay
    BY <1>3, <2>1, PlansAssumption, WakeNotLate DEF Sleep, Due, TypeOK
  <2>3. QED
    BY <1>3, <2>2, FiresType DEF Sleep, Timely, TypeOK, MaybeTime, Time, Nil
<1>4. CASE Degrade
  BY <1>4 DEF Degrade, Degraded, ScheduleError, Fires, Timely
<1>5. CASE Edit \/ Request \/ Rotate
  BY <1>1, <1>5 DEF Edit, Request, Rotate
<1>6. CASE UNCHANGED vars
  BY <1>6 DEF vars, Timely
<1>7. QED
  BY <1>2, <1>3, <1>4, <1>5, <1>6 DEF Next

LEMMA TimelyImplies == TypeOK /\ Timely => SlotNotMissed
BY FiresType, MinDelayAssumption
   DEF TypeOK, Timely, SlotNotMissed, Ready, Time, MaybeTime, Nil

\* For every schedule, window and clock: as long as the loop sleeps, every slot
\* that came at least minRequeueDelay ago has been followed by a rotation.
THEOREM NoSlotMissed == Spec => []SlotNotMissed
BY TypeCorrect, TimelyInit, TimelyStep, TimelyImplies, PTL DEF Spec

-----------------------------------------------------------------------------
(* One rotation per slot.  The bound of OneRotationPerSlot grows with the    *)
(* clock; what every step keeps is the count of the slots that the rotations *)
(* have used up so far: those no later than the last rotation.               *)

SlotsUpTo(schedule, from, t) == {s \in Fires(schedule) : from < s /\ s <= t}

Served == SlotsUpTo(plan.schedule, epoch.from, last)

Counted ==
  /\ last = Nil => epoch.from = 0 /\ epoch.scheduled = 0
  /\ last # Nil => epoch.from <= last
  /\ last # Nil => last <= now
  /\ plan.window = 0 /\ last # Nil /\ FiresAfter(plan.schedule, now) # {} =>
       epoch.scheduled <= Cardinality(Served) + (IF epoch.from = 0 THEN 1 ELSE 0)

\* The instants of a schedule within an interval are finitely many, and there
\* are no fewer when the interval grows, one more at least when it takes in a
\* new instant.
LEMMA SlotsGrow ==
  ASSUME NEW schedule, NEW from \in Nat, NEW a \in Int, NEW b \in Int, a <= b
  PROVE  /\ Cardinality(SlotsUpTo(schedule, from, a)) \in Nat
         /\ Cardinality(SlotsUpTo(schedule, from, b)) \in Nat
         /\ Cardinality(SlotsUpTo(schedule, from, a)) <= Cardinality(SlotsUpTo(schedule, from, b))
         /\ (\E s \in Fires(schedule) : from < s /\ a < s /\ s <= b)
              => Cardinality(SlotsUpTo(schedule, from, a)) + 1
                   <= Cardinality(SlotsUpTo(schedule, from, b))
<1> DEFINE A == SlotsUpTo(schedule, from, a)
           B == SlotsUpTo(schedule, from, b)
<1>1. B \in SUBSET (0..b) /\ A \in SUBSET B
  BY FiresType DEF SlotsUpTo
<1>b. IsFiniteSet(0..b)
  BY FS_Interval
<1> HIDE DEF A, B
<1>2. IsFiniteSet(B)
  BY <1>1, <1>b, FS_Subset
<1>3. IsFiniteSet(A) /\ Cardinality(A) <= Cardinality(B)
  BY <1>1, <1>2, FS_Subset
<1>4. Cardinality(A) \in Nat /\ Cardinality(B) \in Nat
  BY <1>2, <1>3, FS_CardinalityType
<1>5. ASSUME NEW s \in Fires(schedule), from < s, a < s, s <= b
      PROVE  Cardinality(A) + 1 <= Cardinality(B)
  <2>1. s \notin A /\ A \cup {s} \in SUBSET B
    BY <1>1, <1>5, FiresType DEF A, B, SlotsUpTo
  <2>2. Cardinality(A \cup {s}) = Cardinality(A) + 1
    BY <1>3, <2>1, FS_AddElement
  <2>3. Cardinality(A \cup {s}) <= Cardinality(B)
    BY <1>2, <2>1, FS_Subset
  <2>4. QED
    BY <2>2, <2>3
<1>6. QED
  BY <1>3, <1>4, <1>5 DEF A, B

LEMMA SlotsCounted ==
  ASSUME NEW schedule, NEW from \in Nat, NEW t \in Int
  PROVE  Cardinality(SlotsUpTo(schedule, from, t)) \in Nat
<1>1. t <= t
  OBVIOUS
<1>2. QED
  BY <1>1, SlotsGrow

LEMMA CountedInit == Init => Counted
BY DEF Init, Counted, Nil

LEMMA CountedStep == TypeOK /\ Counted /\ [Next]_vars => Counted'
<1> SUFFICES ASSUME TypeOK, Counted, [Next]_vars PROVE Counted'
  OBVIOUS
<1>1. CASE Tick
  <2>1. FiresAfter(plan.schedule, now + 1) # {} => FiresAfter(plan.schedule, now) # {}
    BY FiresType DEF FiresAfter, TypeOK, Time
  <2>2. QED
    BY <1>1, <2>1 DEF Tick, Counted, Served, TypeOK, Time, MaybeTime, Nil
<1>2. CASE Edit
  <2>1. Served' = SlotsUpTo(plan'.schedule, epoch'.from, last)
    BY <1>2 DEF Edit, Served
  <2>2. last # Nil => Cardinality(Served') \in Nat
    <3>1. epoch'.from \in Nat
      BY <1>2 DEF Edit, TypeOK, MaybeTime, Time
    <3>2. last # Nil => last \in Int
      BY DEF TypeOK, MaybeTime, Time
    <3>3. QED
      BY <2>1, <3>1, <3>2, SlotsCounted
  <2>3. QED
    BY <1>2, <2>2 DEF Edit, Counted, TypeOK, MaybeTime, Time, Nil
<1>3. CASE Request
  BY <1>3 DEF Request, Counted, Served
<1>4. CASE Rotate
  <2>1. /\ now \in Time /\ last' = now /\ last' # Nil /\ now' = now /\ plan' = plan
        /\ epoch \in [from : Nat, scheduled : Nat] /\ epoch'.from = epoch.from
        /\ epoch'.scheduled = IF requested THEN epoch.scheduled ELSE epoch.scheduled + 1
    BY <1>4 DEF Rotate, TypeOK, Time, Nil
  <2>2. epoch.from <= now
    BY <2>1 DEF Counted, TypeOK, MaybeTime, Time, Nil
  <2>3. ASSUME plan.window = 0, FiresAfter(plan.schedule, now) # {}
        PROVE  epoch'.scheduled <= Cardinality(Served') + (IF epoch.from = 0 THEN 1 ELSE 0)
    <3>1. Served' = SlotsUpTo(plan.schedule, epoch.from, now)
      BY <2>1 DEF Served
    <3>2. CASE last = Nil
      <4>1. Cardinality(Served') \in Nat
        BY <2>1, <3>1, SlotsCounted DEF Time
      <4>2. QED
        BY <2>1, <3>2, <4>1 DEF Counted
    <3>3. CASE last # Nil
      <4>1. last \in Time /\ last <= now
        BY <3>3 DEF Counted, TypeOK, MaybeTime
      <4>2. epoch.scheduled <= Cardinality(Served) + (IF epoch.from = 0 THEN 1 ELSE 0)
        BY <2>3, <3>3 DEF Counted
      <4>3. /\ Cardinality(Served) \in Nat /\ Cardinality(Served') \in Nat
            /\ Cardinality(Served) <= Cardinality(Served')
            /\ (\E s \in Fires(plan.schedule) : epoch.from < s /\ last < s /\ s <= now)
                 => Cardinality(Served) + 1 <= Cardinality(Served')
        BY <2>1, <3>1, <4>1, SlotsGrow DEF Served, Time
      <4>4. CASE requested
        BY <2>1, <4>2, <4>3, <4>4
      <4>5. CASE ~requested
        <5>1. now >= NextScheduled(plan.schedule, last)
          BY <1>4, <2>3, <3>3, <4>5, NextScheduledType, <4>1 DEF Rotate, Due, IsDue, Time
        <5>2. FiresAfter(plan.schedule, last) # {}
          BY <2>3, <4>1, <2>1, FiresType DEF FiresAfter, Time
        <5>3. \E s \in Fires(plan.schedule) : last < s /\ s <= now
          BY <4>1, <5>1, <5>2, NextScheduledLeast DEF FiresAfter, Time
        <5>4. epoch.from <= last
          BY <3>3 DEF Counted
        <5>5. \E s \in Fires(plan.schedule) : epoch.from < s /\ last < s /\ s <= now
          BY <2>1, <4>1, <5>3, <5>4, FiresType DEF Time
        <5>6. QED
          BY <2>1, <4>2, <4>3, <4>5, <5>5
      <4>6. QED
        BY <4>4, <4>5
    <3>4. QED
      BY <3>2, <3>3
  <2>4. QED
    BY <2>1, <2>2, <2>3 DEF Counted, Time
<1>5. CASE Sleep \/ Degrade
  BY <1>5 DEF Sleep, Degrade, Counted, Served
<1>6. CASE UNCHANGED vars
  BY <1>6 DEF vars, Counted, Served
<1>7. QED
  BY <1>1, <1>2, <1>3, <1>4, <1>5, <1>6 DEF Next

LEMMA CountedImplies == TypeOK /\ Counted => OncePerSlotWithoutWindow
<1> SUFFICES ASSUME TypeOK, Counted, plan.window = 0, FiresAfter(plan.schedule, now) # {}
             PROVE  epoch.scheduled <= Cardinality(Slots) + (IF epoch.from = 0 THEN 1 ELSE 0)
  BY DEF OncePerSlotWithoutWindow, OneRotationPerSlot
<1>0. now \in Int /\ epoch.from \in Nat /\ epoch.scheduled \in Nat
  BY DEF TypeOK, Time
<1>1. Slots = SlotsUpTo(plan.schedule, epoch.from, now)
  BY FiresType DEF Slots, SlotsUpTo, TypeOK, Time
<1>2. CASE last = Nil
  <2>1. Cardinality(Slots) \in Nat
    BY <1>0, <1>1, SlotsCounted
  <2>2. QED
    BY <1>2, <2>1 DEF Counted
<1>3. CASE last # Nil
  <2>1. last \in Time /\ last <= now
    BY <1>3 DEF Counted, TypeOK, MaybeTime
  <2>2. /\ Cardinality(Served) \in Nat /\ Cardinality(Slots) \in Nat
        /\ Cardinality(Served) <= Cardinality(Slots)
    <3>1. last \in Int
      BY <2>1 DEF Time
    <3>2. Served = SlotsUpTo(plan.schedule, epoch.from, last)
      BY DEF Served
    <3>3. QED
      BY <1>0, <1>1, <2>1, <3>1, <3>2, SlotsGrow
  <2>3. epoch.scheduled <= Cardinality(Served) + (IF epoch.from = 0 THEN 1 ELSE 0)
    BY <1>3 DEF Counted
  <2> HIDE DEF Slots, Served
  <2>4. QED
    BY <1>0, <2>2, <2>3
<1>4. QED
  BY <1>2, <1>3

\* For every schedule and every interleaving of edits, requests and late
\* wake-ups: without a rotation window the loop rotates once per slot.
THEOREM RotatesOncePerSlot == Spec => []OncePerSlotWithoutWindow
BY TypeCorrect, CountedInit, CountedStep, CountedImplies, PTL DEF Spec
=============================================================================
