-------------------------- MODULE ReconcilerProofs --------------------------
(***************************************************************************)
(* What the controller keeps true for every spec, schedule, delay, bound   *)
(* and budget of faults: its types, the coherence of the versions that the *)
(* informer has still to deliver, the finalizer that holds a policy while  *)
(* a rotation is under way, and the account of that rotation: the          *)
(* invariant that everything in LedgerProofs rests on.                     *)
(***************************************************************************)
EXTENDS Reconciler, WellFoundedInduction, TLAPS

-----------------------------------------------------------------------------
(* What package rotation answers. *)

\* The next scheduled time is a natural number, and an instant of the schedule
\* when there is one: in a set of naturals that is not empty something is least.
LEMMA NextScheduledFires ==
  ASSUME NEW schedule, NEW from \in Int
  PROVE  /\ NextScheduled(schedule, from) \in Nat
         /\ FiresAfter(schedule, from) # {} =>
              NextScheduled(schedule, from) \in FiresAfter(schedule, from)
<1> DEFINE slots == FiresAfter(schedule, from)
<1>1. slots \subseteq Nat
  BY CronAssumption DEF FiresAfter, Fires, Parses
<1>2. CASE slots = {}
  BY <1>2 DEF NextScheduled, ZeroTime
<1>3. CASE slots # {}
  <2>1. PICK t \in slots : \A u \in slots : ~(<<u, t>> \in OpToRel(<, Nat))
    BY <1>1, <1>3, WFMin, NatLessThanWellFounded, Zenon
  <2>2. \A u \in slots : ~(u < t)
    BY <1>1, <2>1, Zenon DEF OpToRel
  <2>3. \A u \in slots : t <= u
    BY <1>1, <2>2
  <2>4. NextScheduled(schedule, from) \in slots
    BY <1>3, <2>3 DEF NextScheduled
  <2>5. QED
    BY <1>1, <2>4
<1>4. QED
  BY <1>2, <1>3

\* A policy that is due has a slot between any time up to its last rotation and
\* now, unless its schedule has none left at all.
LEMMA DueAfterSlot ==
  ASSUME NEW schedule, NEW last \in Time, NEW present \in Time, last <= present,
         IsDue(schedule, last, 0, present), NEW from \in Time, from <= last
  PROVE  LET slots == FiresAfter(schedule, from)
         IN  slots = {} \/ \E s \in slots : s <= present
<1>1. FiresAfter(schedule, last) \subseteq FiresAfter(schedule, from)
      /\ \A t \in FiresAfter(schedule, from) : t \in FiresAfter(schedule, last) \/ t <= last
  BY CronAssumption DEF FiresAfter, Fires, Parses, Time
<1>2. CASE FiresAfter(schedule, last) # {}
  <2>1. NextScheduled(schedule, last) \in FiresAfter(schedule, last)
        /\ NextScheduled(schedule, last) \in Nat
    BY <1>2, NextScheduledFires DEF Time
  <2>2. NextScheduled(schedule, last) <= present
    BY <2>1 DEF IsDue, Time, Nil
  <2>3. QED
    BY <1>1, <2>1, <2>2
<1>3. CASE FiresAfter(schedule, last) = {}
  BY <1>1, <1>3, CronAssumption DEF FiresAfter, Fires, Parses, Time
<1>4. QED
  BY <1>2, <1>3

-----------------------------------------------------------------------------
(* What a step does to the object, its cached copy and the versions between. *)

\* The server stores new, made from the present object: neither its identity
\* nor a deletion is undone.
Change(new) ==
  /\ api.exists
  /\ new \in Policy
  /\ new.rv = api.rv /\ new.exists
  /\ api.deleting => new.deleting
  /\ Publish(new)
  /\ UNCHANGED cache

\* When a change may take the controller's finalizer away: the handler of the
\* deletion does it; a rotation could, had its copy lost the finalizer.
MayRelease ==
  \/ pc = "idle" /\ cache.deleting
  \/ pc # "idle" /\ Finalizer \notin obj.finalizers

KeepsFinalizer(new) == Finalizer \in api.finalizers => Finalizer \in new.finalizers

StoreStep ==
  \/ UNCHANGED storeVars
  \/ DeliverNext
  \/ Relist
  \/ \E new \in Policy : Change(new) /\ (KeepsFinalizer(new) \/ MayRelease)

\* A write made from a copy keeps what identifies the object.
LEMMA WriteType ==
  ASSUME api \in Policy, NEW o \in Policy
  PROVE  /\ MainWrite(o) \in Policy
         /\ MainWrite(o).rv = api.rv /\ MainWrite(o).exists = api.exists
         /\ MainWrite(o).deleting = api.deleting
         /\ MainWrite(o).finalizers = o.finalizers
         /\ StatusWrite(o) \in Policy
         /\ StatusWrite(o).rv = api.rv /\ StatusWrite(o).exists = api.exists
         /\ StatusWrite(o).deleting = api.deleting
         /\ StatusWrite(o).finalizers = api.finalizers
BY DEF Policy, MainWrite, StatusWrite

\* Whatever the caller of a write is told, the object either stays or takes the
\* new content, and takes it only from a copy that is current.
LEMMA CallStep ==
  ASSUME StoreTypeOK, NEW o, NEW ok, NEW new \in Policy, Call(o, new, ok),
         new.rv = api.rv, new.exists = api.exists, new.deleting = api.deleting,
         UNCHANGED cache
  PROVE  UNCHANGED storeVars \/ (Current(o) /\ Change(new))
<1>1. UNCHANGED <<api, watch>> \/ (Current(o) /\ Publish(new))
  BY DEF Call
<1>2. QED
  BY <1>1 DEF Change, Current, storeVars

\* A status written from a copy leaves the finalizers as they are.
LEMMA StatusCall ==
  ASSUME StoreTypeOK, NEW o, NEW copy \in Policy, NEW ok \in BOOLEAN,
         Call(o, StatusWrite(copy), ok), UNCHANGED cache
  PROVE  StoreStep
<1>1. UNCHANGED storeVars \/ Change(StatusWrite(copy))
  BY CallStep, WriteType DEF StoreTypeOK
<1>2. QED
  BY <1>1, WriteType DEF StoreTypeOK, StoreStep, KeepsFinalizer

\* Everything but the status written from a copy: the finalizers are the copy's.
LEMMA MainCall ==
  ASSUME StoreTypeOK, NEW o, NEW copy \in Policy, NEW ok \in BOOLEAN,
         Call(o, MainWrite(copy), ok), UNCHANGED cache,
         Finalizer \in copy.finalizers \/ MayRelease
  PROVE  StoreStep
<1>1. UNCHANGED storeVars \/ Change(MainWrite(copy))
  BY CallStep, WriteType DEF StoreTypeOK
<1>2. QED
  BY <1>1, WriteType DEF StoreTypeOK, StoreStep, KeepsFinalizer

\* Two copies of one version, as far as the controller does not write in them.
SameCopy(o, p) == o.rv = p.rv /\ o.spec = p.spec /\ o.finalizers = p.finalizers

\* The copies that the paths of Reconcile write back are policies.
LEMMA CopyTypes ==
  ASSUME NEW p \in Policy
  PROVE  /\ Released(p) \in Policy
         /\ [p EXCEPT !.finalizers = @ \cup {Finalizer}] \in Policy
         /\ Finalizer \in [p EXCEPT !.finalizers = @ \cup {Finalizer}].finalizers
         /\ [p EXCEPT !.status.phase = "Suspended", !.status.ready = "False"] \in Policy
         /\ [p EXCEPT !.status.phase = "Failed", !.status.healthy = "False"] \in Policy
         /\ [p EXCEPT !.status.degraded = TRUE] \in Policy
         /\ [p EXCEPT !.status.phase = "Rotating"] \in Policy
         /\ SameCopy([p EXCEPT !.status.phase = "Rotating"], p)
         /\ [p EXCEPT !.rotateNow = FALSE] \in Policy
         /\ SameCopy([p EXCEPT !.rotateNow = FALSE], p)
         /\ \A phase \in Phases :
              [p EXCEPT !.status.phase = phase, !.status.ready = "False"] \in Policy
BY DEF Policy, Status, Phases, Conditions, Released, Finalizer, Hold, SameCopy

\* The status of a policy that sleeps, and that of one that was rotated.
LEMMA StatusTypes ==
  ASSUME TypeOK
  PROVE  /\ NextShown(NextScheduled(cache.spec.schedule, cache.status.last)) \in Policy
         /\ pc # "idle" => [obj EXCEPT !.status = Done] \in Policy
<1>1. cache.status.last \in Int /\ now \in Int /\ cache \in Policy
  BY DEF TypeOK, WorkerTypeOK, StoreTypeOK, Policy, Status, MaybeTime, Time, Nil
<1>2. NextScheduled(cache.spec.schedule, cache.status.last) \in MaybeTime \cup {ZeroTime}
  BY <1>1, NextScheduledFires DEF MaybeTime, Time, ZeroTime
<1>3. NextShown(NextScheduled(cache.spec.schedule, cache.status.last)) \in Policy
  BY <1>1, <1>2 DEF NextShown, Policy, Status
<1>4. ASSUME pc # "idle" PROVE [obj EXCEPT !.status = Done] \in Policy
  <2>1. obj \in Policy /\ obj.status \in Status /\ Attempt \in Nat /\ now \in MaybeTime
    BY <1>4 DEF TypeOK, WorkerTypeOK, RecordsTypeOK, Policy, Attempt, MaybeTime
  <2>2. NextScheduled(obj.spec.schedule, now) \in MaybeTime \cup {ZeroTime}
    BY <1>1, NextScheduledFires DEF MaybeTime, Time, ZeroTime
  <2>3. Done \in Status
    BY <2>1, <2>2 DEF Done, Status, Phases, Conditions
  <2>4. QED
    BY <2>1, <2>3 DEF Policy
<1>5. QED
  BY <1>3, <1>4

\* Reconcile's own writes.
LEMMA ReconcileStoreStep == TypeOK /\ Reconcile => StoreStep
<1> SUFFICES ASSUME TypeOK, Reconcile PROVE StoreStep
  OBVIOUS
<1>0. StoreTypeOK /\ cache \in Policy
  BY DEF TypeOK, StoreTypeOK
<1>1. CASE GetNotFound
  BY <1>1 DEF GetNotFound, Elsewhere, StoreStep, storeVars
<1>2. CASE HandleDeletion
  <2>1. pc = "idle" /\ cache.deleting /\ UNCHANGED cache
    BY <1>2 DEF HandleDeletion, TakeKey, Elsewhere
  <2>2. \/ UNCHANGED storeVars
        \/ \E ok \in BOOLEAN : Call(cache, MainWrite(Released(cache)), ok)
    BY <1>2 DEF HandleDeletion, Elsewhere, storeVars
  <2>3. Released(cache) \in Policy
    BY <1>0, CopyTypes
  <2>4. QED
    BY <1>0, <2>1, <2>2, <2>3, MainCall DEF MayRelease, StoreStep
<1>3. CASE EnsureFinalizer
  <2> DEFINE copy == [cache EXCEPT !.finalizers = @ \cup {Finalizer}]
  <2>1. copy \in Policy /\ Finalizer \in copy.finalizers
    BY <1>0, CopyTypes
  <2>2. PICK ok \in BOOLEAN : Call(cache, MainWrite(copy), ok) /\ UNCHANGED cache
    BY <1>3 DEF EnsureFinalizer, Elsewhere
  <2> HIDE DEF copy
  <2>3. QED
    BY <1>0, <2>1, <2>2, MainCall
<1>4. CASE SetSuspended
  <2> DEFINE copy == [cache EXCEPT !.status.phase = "Suspended", !.status.ready = "False"]
  <2>1. copy \in Policy
    BY <1>0, CopyTypes
  <2>2. PICK ok \in BOOLEAN : Call(cache, StatusWrite(copy), ok) /\ UNCHANGED cache
    BY <1>4 DEF SetSuspended, Elsewhere
  <2> HIDE DEF copy
  <2>3. QED
    BY <1>0, <2>1, <2>2, StatusCall
<1>5. CASE SetProviderUnhealthy
  <2> DEFINE copy == [cache EXCEPT !.status.phase = "Failed", !.status.healthy = "False"]
  <2>1. copy \in Policy
    BY <1>0, CopyTypes
  <2>2. PICK ok \in BOOLEAN : Call(cache, StatusWrite(copy), ok) /\ UNCHANGED cache
    BY <1>5 DEF SetProviderUnhealthy, Elsewhere
  <2> HIDE DEF copy
  <2>3. QED
    BY <1>0, <2>1, <2>2, StatusCall
<1>6. CASE MarkDegraded
  <2> DEFINE copy == [cache EXCEPT !.status.degraded = TRUE]
  <2>1. copy \in Policy
    BY <1>0, CopyTypes
  <2>2. PICK ok \in BOOLEAN : Call(cache, StatusWrite(copy), ok) /\ UNCHANGED cache
    BY <1>6 DEF MarkDegraded, Elsewhere
  <2> HIDE DEF copy
  <2>3. QED
    BY <1>0, <2>1, <2>2, StatusCall
<1>7. CASE NotDue
  <2> DEFINE copy == NextShown(NextScheduled(cache.spec.schedule, cache.status.last))
  <2>1. copy \in Policy
    BY <1>0, StatusTypes
  <2>2. PICK ok \in BOOLEAN : Call(cache, StatusWrite(copy), ok) /\ UNCHANGED cache
    BY <1>7 DEF NotDue, Elsewhere
  <2> HIDE DEF copy
  <2>3. QED
    BY <1>0, <2>1, <2>2, StatusCall
<1>8. CASE StartRotation
  <2> DEFINE copy == Marked
  <2>1. copy \in Policy
    BY <1>0, CopyTypes DEF Marked
  <2>2. PICK ok \in BOOLEAN : Call(copy, StatusWrite(copy), ok) /\ UNCHANGED cache
    BY <1>8 DEF StartRotation, Store
  <2> HIDE DEF copy
  <2>3. QED
    BY <1>0, <2>1, <2>2, StatusCall
<1>9. QED
  BY <1>1, <1>2, <1>3, <1>4, <1>5, <1>6, <1>7, <1>8 DEF Reconcile

\* The writes of a rotation under way.
LEMMA RotationStoreStep == TypeOK /\ ExecuteRotation => StoreStep
<1> SUFFICES ASSUME TypeOK, ExecuteRotation PROVE StoreStep
  OBVIOUS
<1>0. StoreTypeOK /\ (pc # "idle" => obj \in Policy)
  BY DEF TypeOK, WorkerTypeOK
<1>1. CASE CreateRecord \/ CallProvider \/ RecordProviderFailure \/ Abort
  BY <1>1 DEF CreateRecord, CallProvider, RecordProviderFailure, Abort, StoreStep
<1>2. CASE WriteSecret \/ RestartWorkload \/ FinalizeSucceeded \/ Prune
  BY <1>2 DEF WriteSecret, RestartWorkload, FinalizeSucceeded, Prune, StoreStep
<1>3. CASE FailStatus
  <2> DEFINE phase == IF obj.spec.failurePolicy = "Ignore" THEN "Ready" ELSE "Failed"
             o == [obj EXCEPT !.status.phase = phase, !.status.ready = "False"]
  <2>1. o \in Policy
    BY <1>0, <1>3, CopyTypes DEF FailStatus, Phases
  <2>2. \E ok \in BOOLEAN : Call(o, StatusWrite(o), ok) /\ UNCHANGED cache
    BY <1>3 DEF FailStatus
  <2>3. QED
    BY <1>0, <2>1, <2>2, StatusCall
<1>4. CASE ClearAnnotation
  <2> DEFINE o == [obj EXCEPT !.rotateNow = FALSE]
  <2>1. o \in Policy /\ o.finalizers = obj.finalizers /\ pc # "idle"
    BY <1>0, <1>4, CopyTypes DEF ClearAnnotation, SameCopy
  <2>2. \E ok \in BOOLEAN : Call(o, MainWrite(o), ok) /\ UNCHANGED cache
    BY <1>4 DEF ClearAnnotation, Store, Running
  <2>3. QED
    BY <1>0, <2>1, <2>2, MainCall DEF MayRelease
<1>5. CASE StatusReady
  <2> DEFINE o == [obj EXCEPT !.status = Done]
  <2>1. o \in Policy
    BY <1>5, StatusTypes DEF StatusReady
  <2>2. \E ok \in BOOLEAN : Call(o, StatusWrite(o), ok) /\ UNCHANGED cache
    BY <1>5 DEF StatusReady, Store
  <2>3. QED
    BY <1>0, <2>1, <2>2, StatusCall
<1>6. QED
  BY <1>1, <1>2, <1>3, <1>4, <1>5 DEF ExecuteRotation

\* The patches of the user and of the garbage collector.
LEMMA PatchStoreStep == TypeOK /\ (User \/ ReleaseHold) => StoreStep
<1> SUFFICES ASSUME TypeOK, User \/ ReleaseHold PROVE StoreStep
  OBVIOUS
<1>0. api \in Policy
  BY DEF TypeOK, StoreTypeOK
<1>1. ASSUME NEW new \in Policy, Change(new), KeepsFinalizer(new) PROVE StoreStep
  BY <1>1 DEF StoreStep
<1>2. ASSUME NEW spec \in Specs, EditSpec(spec) PROVE StoreStep
  BY <1>0, <1>1, <1>2 DEF EditSpec, Change, KeepsFinalizer, Policy
<1>3. ASSUME SetRotateNow PROVE StoreStep
  BY <1>0, <1>1, <1>3 DEF SetRotateNow, Change, KeepsFinalizer, Policy
<1>4. ASSUME NEW holds \in {{}, {Hold}}, MarkDeleted(holds) PROVE StoreStep
  BY <1>0, <1>1, <1>4 DEF MarkDeleted, Change, KeepsFinalizer, Policy
<1>5. ASSUME DropHold PROVE StoreStep
  BY <1>0, <1>1, <1>5 DEF DropHold, Change, KeepsFinalizer, Policy, Finalizer, Hold
<1>6. QED
  BY <1>2, <1>3, <1>4, <1>5 DEF User, Edit, Request, Delete, UserAction, ReleaseHold

\* Every step of the system is one of the four that StoreStep allows.
LEMMA StoreSteps == TypeOK /\ [Next]_vars => StoreStep
<1> SUFFICES ASSUME TypeOK, [Next]_vars PROVE StoreStep
  OBVIOUS
<1>1. CASE Reconcile \/ ExecuteRotation \/ User \/ ReleaseHold
  BY <1>1, ReconcileStoreStep, RotationStoreStep, PatchStoreStep
<1>2. CASE Deliver \/ RecordSync \/ SecretSync \/ CollectRecords
  BY <1>2 DEF Deliver, RecordSync, SecretSync, CollectRecords, StoreStep
<1>3. CASE Tick \/ Crash \/ UNCHANGED vars
  BY <1>3 DEF Tick, Crash, vars, storeVars, StoreStep
<1>4. QED
  BY <1>1, <1>2, <1>3 DEF Next, Informers, Collector

-----------------------------------------------------------------------------
(* The store: its types, and the versions without a gap. *)

\* The version stored has the number after the present one.
LEMMA SettledVersion ==
  ASSUME api \in Policy, NEW new \in Policy, new.rv = api.rv
  PROVE  /\ Settled(new) \in Policy
         /\ Settled(new).rv = api.rv + 1
         /\ Settled(new).deleting = new.deleting
         /\ Settled(new).finalizers = new.finalizers
         /\ new.finalizers # {} => Settled(new).exists
<1> DEFINE stays == ~(new.deleting /\ new.finalizers = {})
<1>1. stays \in BOOLEAN /\ (new.finalizers # {} => stays)
  OBVIOUS
<1>2. Settled(new) = [new EXCEPT !.rv = api.rv + 1, !.exists = stays]
  BY DEF Settled
<1> HIDE DEF stays
<1>3. ASSUME NEW n \in Nat, NEW b \in BOOLEAN
      PROVE  [new EXCEPT !.rv = n, !.exists = b] \in Policy
  BY DEF Policy
<1>4. api.rv + 1 \in Nat
  BY DEF Policy
<1>5. Settled(new) \in Policy
  BY <1>1, <1>2, <1>3, <1>4
<1>6. QED
  BY <1>1, <1>2, <1>5 DEF Policy

LEMMA StoreTypeStep == StoreTypeOK /\ StoreStep => StoreTypeOK'
<1> SUFFICES ASSUME StoreTypeOK, StoreStep PROVE StoreTypeOK'
  OBVIOUS
<1> USE DEF StoreTypeOK
<1>1. CASE UNCHANGED storeVars
  BY <1>1 DEF storeVars
<1>2. CASE DeliverNext
  BY <1>2 DEF DeliverNext
<1>3. CASE Relist
  BY <1>3 DEF Relist
<1>4. ASSUME NEW new \in Policy, Change(new) PROVE StoreTypeOK'
  <2>1. Settled(new) \in Policy
    BY <1>4, SettledVersion DEF Change
  <2>2. QED
    BY <1>4, <2>1 DEF Change, Publish
<1>5. QED
  BY <1>1, <1>2, <1>3, <1>4 DEF StoreStep

\* StoreCoherent of n + 1 versions v, of which the last is o.
Chain(v, n, o) ==
  /\ v[n] = o
  /\ \A i \in 0..n : v[i].rv + (n - i) = o.rv
  /\ \A i, j \in 0..n :
       i <= j => /\ v[i].deleting => v[j].deleting
                 /\ v[j].exists => v[i].exists

Versions == [i \in VersionNumbers |-> Version(i)]

LEMMA VersionsType == StoreTypeOK => Len(watch) \in Nat /\ Versions \in [0..Len(watch) -> Policy]
BY DEF StoreTypeOK, Versions, Version, VersionNumbers

LEMMA CoherentIsChain == StoreTypeOK => (StoreCoherent <=> Chain(Versions, Len(watch), api))
BY VersionsType DEF StoreCoherent, Chain, Versions, VersionNumbers

\* The first version may go, and a next one may come.
LEMMA ChainTail ==
  ASSUME NEW n \in Nat \ {0}, NEW v \in [0..n -> Policy], NEW o \in Policy, Chain(v, n, o)
  PROVE  Chain([i \in 0..(n - 1) |-> v[i + 1]], n - 1, o)
<1>1. \A i \in 0..n : v[i].rv \in Nat
  BY DEF Policy
<1>2. o.rv \in Nat
  BY DEF Policy
<1>3. QED
  BY <1>1, <1>2 DEF Chain

LEMMA ChainAppend ==
  ASSUME NEW n \in Nat, NEW v \in [0..n -> Policy], NEW o \in Policy, NEW p \in Policy,
         Chain(v, n, o), p.rv = o.rv + 1, o.exists, o.deleting => p.deleting
  PROVE  Chain([i \in 0..(n + 1) |-> IF i <= n THEN v[i] ELSE p], n + 1, p)
<1> DEFINE w == [i \in 0..(n + 1) |-> IF i <= n THEN v[i] ELSE p]
<1>1. \A i \in 0..n : /\ v[i].rv \in Nat /\ w[i] = v[i] /\ v[i].rv + (n - i) = o.rv
                      /\ v[i].deleting => o.deleting
                      /\ v[i].exists
  BY DEF Policy, Chain
<1>2. w[n + 1] = p /\ p.rv \in Nat /\ o.rv \in Nat
  BY DEF Policy
<1>3. \A i \in 0..(n + 1) : i \in 0..n \/ i = n + 1
  OBVIOUS
<1>4. \A i, j \in 0..n : i <= j => (v[i].deleting => v[j].deleting)
  BY DEF Chain
<1> HIDE DEF w
<1>5. ASSUME NEW i \in 0..(n + 1) PROVE w[i].rv + ((n + 1) - i) = p.rv
  <2>1. CASE i \in 0..n
    <3>1. w[i].rv \in Nat /\ w[i].rv + (n - i) = o.rv
      BY <1>1, <2>1
    <3>2. QED
      BY <1>2, <2>1, <3>1
  <2>2. CASE i = n + 1
    BY <1>2, <2>2
  <2>3. QED
    BY <1>3, <2>1, <2>2
<1>6. \A i, j \in 0..(n + 1) : i <= j => /\ w[i].deleting => w[j].deleting
                                         /\ w[j].exists => w[i].exists
  BY <1>1, <1>2, <1>3, <1>4
<1>7. Chain(w, n + 1, p)
  BY <1>2, <1>5, <1>6 DEF Chain
<1>8. QED
  BY <1>7 DEF w

\* What the cache may come to see after each kind of step.
LEMMA VersionsStep ==
  ASSUME StoreTypeOK, StoreStep
  PROVE  \/ UNCHANGED storeVars
         \/ /\ Len(watch) # 0 /\ Len(watch') = Len(watch) - 1 /\ api' = api
            /\ Versions' = [i \in 0..(Len(watch) - 1) |-> Versions[i + 1]]
         \/ Len(watch') = 0 /\ api' = api /\ Versions' = [i \in 0..0 |-> api]
         \/ \E new \in Policy :
              /\ Change(new) /\ (KeepsFinalizer(new) \/ MayRelease)
              /\ Len(watch') = Len(watch) + 1 /\ api' = Settled(new)
              /\ Versions' = [i \in 0..(Len(watch) + 1) |->
                                IF i <= Len(watch) THEN Versions[i] ELSE api']
<1> USE DEF Versions, Version, VersionNumbers
<1>1. CASE UNCHANGED storeVars
  BY <1>1
<1>2. CASE DeliverNext
  BY <1>2 DEF DeliverNext, StoreTypeOK
<1>3. CASE Relist
  <2>1. Len(watch') = 0 /\ api' = api /\ cache' = api
    BY <1>3 DEF Relist
  <2>2. QED
    BY <2>1
<1>4. ASSUME NEW new \in Policy, Change(new), KeepsFinalizer(new) \/ MayRelease
      PROVE  \/ UNCHANGED storeVars
             \/ /\ Len(watch') = Len(watch) + 1 /\ api' = Settled(new)
                /\ Versions' = [i \in 0..(Len(watch) + 1) |->
                                  IF i <= Len(watch) THEN Versions[i] ELSE api']
  <2>1. CASE new = api
    BY <1>4, <2>1 DEF Change, Publish, storeVars
  <2>2. CASE new # api
    <3>1. api' = Settled(new) /\ watch' = Append(watch, api') /\ cache' = cache
      BY <1>4, <2>2 DEF Change, Publish
    <3>2. QED
      BY <3>1 DEF StoreTypeOK
  <2>3. QED
    BY <2>1, <2>2
<1>5. QED
  BY <1>1, <1>2, <1>3, <1>4 DEF StoreStep

LEMMA CoherentStep == StoreTypeOK /\ StoreCoherent /\ StoreStep => StoreCoherent'
<1> SUFFICES ASSUME StoreTypeOK, StoreCoherent, StoreStep
             PROVE  Chain(Versions', Len(watch'), api')
  BY StoreTypeStep DEF StoreCoherent, Chain, Versions, Version, VersionNumbers
<1>0. api \in Policy /\ Len(watch) \in Nat /\ Versions \in [0..Len(watch) -> Policy]
  BY VersionsType DEF StoreTypeOK
<1>1. Chain(Versions, Len(watch), api)
  BY CoherentIsChain
<1>2. CASE UNCHANGED storeVars
  BY <1>1, <1>2 DEF storeVars, Versions, Version, VersionNumbers
<1>3. CASE /\ Len(watch) # 0 /\ Len(watch') = Len(watch) - 1 /\ api' = api
           /\ Versions' = [i \in 0..(Len(watch) - 1) |-> Versions[i + 1]]
  BY <1>0, <1>1, <1>3, ChainTail
<1>4. CASE Len(watch') = 0 /\ api' = api /\ Versions' = [i \in 0..0 |-> api]
  BY <1>0, <1>4 DEF Chain, Policy
<1>5. ASSUME NEW new \in Policy, Change(new),
             Len(watch') = Len(watch) + 1, api' = Settled(new),
             Versions' = [i \in 0..(Len(watch) + 1) |->
                            IF i <= Len(watch) THEN Versions[i] ELSE api']
      PROVE  Chain(Versions', Len(watch'), api')
  <2>1. api' \in Policy /\ api'.rv = api.rv + 1 /\ api.exists
        /\ (api.deleting => api'.deleting)
    BY <1>0, <1>5, SettledVersion DEF Change
  <2>2. QED
    BY <1>0, <1>1, <1>5, <2>1, ChainAppend
<1>6. QED
  BY <1>2, <1>3, <1>4, <1>5, VersionsStep

-----------------------------------------------------------------------------
(* Types. *)

LEMMA WakeType ==
  ASSUME NEW w \in Nat \cup {Nil}, NEW t \in Time, NEW delay \in Int
  PROVE  After(w, t, delay) \in Nat \cup {Nil} /\ After(Nil, t, delay) \in Nat \cup {Nil}
BY DEF After, Earliest, Time, Nil

LEMMA SpendType ==
  ASSUME left \in [Kinds -> Nat], NEW kind \in Kinds, Spend(kind)
  PROVE  left' \in [Kinds -> Nat]
BY DEF Spend

LEMMA CallType ==
  ASSUME left \in [Kinds -> Nat], NEW o, NEW new, NEW ok, Call(o, new, ok)
  PROVE  left' \in [Kinds -> Nat]
BY SpendType DEF Call, Kinds

\* What is noted of the attempt under way leaves the number of attempts alone.
LEMMA NotedType ==
  ASSUME RecordsTypeOK, log # <<>>, NEW t \in Time
  PROVE  /\ Noted("failed", t) \in Seq(Entry) /\ Len(Noted("failed", t)) = Len(log)
         /\ Noted("wrote", t) \in Seq(Entry) /\ Len(Noted("wrote", t)) = Len(log)
         /\ \A event \in {"RotationSucceeded", "RotationFailed"} :
              /\ Noted("told", event) \in Seq(Entry)
              /\ Len(Noted("told", event)) = Len(log)
<1>1. log \in Seq(Entry) /\ Attempt \in 1..Len(log) /\ log[Attempt] \in Entry
  BY DEF RecordsTypeOK, Attempt
<1>2. ASSUME NEW e \in Entry
      PROVE  /\ [log EXCEPT ![Attempt] = e] \in Seq(Entry)
             /\ Len([log EXCEPT ![Attempt] = e]) = Len(log)
  BY <1>1
<1>3. /\ [log[Attempt] EXCEPT !.failed = t] \in Entry
      /\ [log[Attempt] EXCEPT !.wrote = t] \in Entry
      /\ \A event \in {"RotationSucceeded", "RotationFailed"} :
           [log[Attempt] EXCEPT !.told = event] \in Entry
  BY <1>1 DEF Entry, MaybeTime
<1>4. QED
  BY <1>2, <1>3 DEF Noted

\* The parts of TypeOK but the store, for a step that is not a rotation's.
RestTypeOK ==
  /\ secret \in Nat /\ secret <= Len(log)
  /\ secretSeen \in BOOLEAN
  /\ workloads \in [Targets -> Nat]
  /\ activePolicies \in Int
  /\ asked \in Nat
  /\ left \in [Kinds -> Nat]

\* A reconcile that does not rotate asks for the key after a delay, or not at all.
LEMMA QuietReconcileType ==
  ASSUME TypeOK,
         GetNotFound \/ HandleDeletion \/ EnsureFinalizer \/ SetSuspended
           \/ SetProviderUnhealthy \/ MarkDegraded \/ NotDue
  PROVE  WorkerTypeOK' /\ RecordsTypeOK' /\ RestTypeOK'
<1>0. /\ now \in Time /\ pc = "idle" /\ left \in [Kinds -> Nat] /\ UNCHANGED Elsewhere
      /\ activePolicies \in Int
  BY DEF TypeOK, WorkerTypeOK, TakeKey, GetNotFound, HandleDeletion, EnsureFinalizer,
         SetSuspended, SetProviderUnhealthy, MarkDegraded, NotDue
<1>1. ASSUME NEW delay \in Int, Later(delay) PROVE wake' \in Nat \cup {Nil}
  BY <1>0, <1>1, WakeType DEF Later
<1>2. wake' \in Nat \cup {Nil}
  <2>1. CASE GetNotFound \/ HandleDeletion \/ EnsureFinalizer
    BY <2>1 DEF GetNotFound, HandleDeletion, EnsureFinalizer, Retry, ReadyNow
  <2>2. CASE SetSuspended \/ SetProviderUnhealthy \/ MarkDegraded
    BY <1>1, <2>2, DelaysAssumption
       DEF SetSuspended, SetProviderUnhealthy, MarkDegraded, Retry, ReadyNow
  <2>3. CASE NotDue
    <3>1. cache.status.last \in Int /\ cache.spec \in SpecType
      BY SpecsAssumption DEF TypeOK, StoreTypeOK, Policy, Status, MaybeTime, Time, Nil
    <3>2. cache.spec.window \in Nat
      BY <3>1 DEF SpecType
    <3>3. \A from \in Int : NextScheduled(cache.spec.schedule, from) \in Nat
      BY NextScheduledFires
    <3>4. RequeueDelay(cache.spec.schedule, cache.status.last, cache.spec.window, now)
            \in Nat \ {0}
      BY <1>0, <3>1, <3>2, <3>3, MinDelayAssumption DEF RequeueDelay, Time
    <3>5. QED
      BY <1>1, <2>3, <3>4 DEF NotDue
  <2>4. QED
    BY <2>1, <2>2, <2>3
<1>3. left' \in [Kinds -> Nat]
  BY <1>0, CallType DEF GetNotFound, HandleDeletion, EnsureFinalizer,
         SetSuspended, SetProviderUnhealthy, MarkDegraded, NotDue
<1>4. activePolicies' \in Int
  BY <1>0 DEF GetNotFound, HandleDeletion, EnsureFinalizer,
         SetSuspended, SetProviderUnhealthy, MarkDegraded, NotDue
<1>5. QED
  BY <1>0, <1>2, <1>3, <1>4
     DEF Elsewhere, localVars, recordVars, secretVars,
         TypeOK, WorkerTypeOK, RecordsTypeOK, RestTypeOK, Attempts

\* finalizeRecord changes the record under way at most.
LEMMA FinalizeType ==
  ASSUME RecordsTypeOK, left \in [Kinds -> Nat], pc # "idle" => job \in Job,
         NEW phase \in RecordPhases, FinalizeRecord(phase), pc # "idle",
         log' = log, listed' = listed
  PROVE  RecordsTypeOK' /\ left' \in [Kinds -> Nat]
<1>1. left' \in [Kinds -> Nat]
  BY SpendType DEF FinalizeRecord, Kinds
<1>2. CASE UNCHANGED <<records, recordEvent>>
  BY <1>1, <1>2 DEF RecordsTypeOK, Attempts
<1>3. CASE /\ Attempt \in DOMAIN records
           /\ records' = [records EXCEPT ![Attempt].phase = phase,
                                         ![Attempt].restarts = job.restarted]
           /\ recordEvent' = TRUE
  <2>1. job.restarted \in SUBSET Targets
    BY DEF Job
  <2>2. ASSUME NEW r \in Record
        PROVE  [r EXCEPT !.phase = phase, !.restarts = job.restarted] \in Record
    BY <2>1 DEF Record
  <2>3. DOMAIN records' = DOMAIN records
    BY <1>3
  <2>4. \A n \in DOMAIN records : records'[n] \in Record
    BY <1>3, <2>2 DEF RecordsTypeOK
  <2>5. QED
    BY <1>1, <1>3, <2>3, <2>4 DEF RecordsTypeOK, Attempts
<1>4. QED
  BY <1>1, <1>2, <1>3 DEF FinalizeRecord

\* A rotation starts: one more attempt, and the locals it works with.
LEMMA StartType ==
  ASSUME TypeOK, StoreTypeOK', StartRotation
  PROVE  WorkerTypeOK' /\ RecordsTypeOK' /\ RestTypeOK'
<1>0. cache \in Policy /\ cache.spec \in SpecType /\ cache.rotateNow \in BOOLEAN /\ now \in Time
  BY SpecsAssumption DEF TypeOK, WorkerTypeOK, StoreTypeOK, Policy
<1>1. NewEntry(cache.rotateNow) \in Entry
  BY <1>0 DEF NewEntry, Entry, SpecType, MaybeTime
<1>2. /\ log' \in Seq(Entry) /\ Len(log') = Len(log) + 1 /\ log' # <<>> /\ Len(log) \in Nat
      /\ Attempts \subseteq Attempts'
  BY <1>1 DEF StartRotation, TypeOK, RecordsTypeOK, Attempts
<1>3. obj' \in Policy
  BY <1>0, CopyTypes DEF StartRotation, Store, Marked, StoreTypeOK
<1>4. job' \in Job
  BY <1>0 DEF StartRotation, Job, Targets
<1>5. left' \in [Kinds -> Nat]
  BY CallType DEF StartRotation, Store, TypeOK
<1>6. WorkerTypeOK'
  BY <1>2, <1>3, <1>4 DEF StartRotation, TypeOK, WorkerTypeOK, PCs
<1>7. RecordsTypeOK'
  BY <1>2 DEF StartRotation, TypeOK, RecordsTypeOK, recordVars
<1>8. secret' \in Nat /\ secret' <= Len(log')
  BY <1>2 DEF StartRotation, TypeOK, secretVars
<1>9. QED
  BY <1>5, <1>6, <1>7, <1>8 DEF StartRotation, TypeOK, RestTypeOK, secretVars

\* Between two calls of a rotation the worker keeps its copy and its locals.
LEMMA StepOfRotationType ==
  ASSUME TypeOK,
         CreateRecord \/ CallProvider \/ RecordProviderFailure \/ WriteSecret
           \/ RestartWorkload \/ FinalizeSucceeded
  PROVE  WorkerTypeOK' /\ RecordsTypeOK' /\ RestTypeOK'
<1>0. /\ pc # "idle" /\ obj \in Policy /\ job \in Job /\ log # <<>> /\ now \in Time
      /\ log \in Seq(Entry) /\ Attempt \in Attempts /\ left \in [Kinds -> Nat]
      /\ RecordsTypeOK
  BY DEF TypeOK, WorkerTypeOK, RecordsTypeOK, Attempts, Attempt, CreateRecord, CallProvider,
         RecordProviderFailure, WriteSecret, RestartWorkload, FinalizeSucceeded
<1> USE DEF Running, recordVars, secretVars, Attempts
<1>1. CASE CreateRecord
  <2>1. left' \in [Kinds -> Nat] /\ job' \in Job
    BY <1>0, <1>1, SpendType DEF CreateRecord, Kinds, Job
  <2>2. RecordsTypeOK'
    <3>1. CASE UNCHANGED <<records, recordEvent>>
      BY <1>0, <1>1, <3>1 DEF CreateRecord, RecordsTypeOK
    <3>2. CASE /\ records' = [n \in DOMAIN records \cup {Attempt} |->
                                IF n = Attempt
                                  THEN [at |-> now, phase |-> "Unset", restarts |-> {}]
                                  ELSE records[n]]
               /\ recordEvent' = TRUE
      <4>1. [at |-> now, phase |-> "Unset", restarts |-> {}] \in Record
        BY <1>0 DEF Record, RecordPhases
      <4>2. QED
        BY <1>0, <1>1, <3>2, <4>1 DEF CreateRecord, RecordsTypeOK
    <3>3. QED
      BY <1>1, <3>1, <3>2 DEF CreateRecord
  <2>3. QED
    BY <1>0, <1>1, <2>1, <2>2 DEF CreateRecord, TypeOK, WorkerTypeOK, RestTypeOK, PCs
<1>2. CASE CallProvider
  <2>1. left' \in [Kinds -> Nat]
    BY <1>0, <1>2, SpendType DEF CallProvider, Kinds
  <2>2. log' \in Seq(Entry) /\ Len(log') = Len(log) /\ log' # <<>>
    BY <1>0, <1>2, NotedType DEF CallProvider
  <2>3. pc' \in PCs
    BY <1>2 DEF CallProvider, PCs
  <2>4. QED
    BY <1>0, <1>2, <2>1, <2>2, <2>3
       DEF CallProvider, TypeOK, WorkerTypeOK, RecordsTypeOK, RestTypeOK
<1>3. CASE RecordProviderFailure
  <2>1. RecordsTypeOK' /\ left' \in [Kinds -> Nat]
    BY <1>0, <1>3, FinalizeType DEF RecordProviderFailure, RecordPhases
  <2>2. QED
    BY <1>0, <1>3, <2>1 DEF RecordProviderFailure, TypeOK, WorkerTypeOK, RestTypeOK, PCs
<1>4. CASE FinalizeSucceeded
  <2>1. RecordsTypeOK' /\ left' \in [Kinds -> Nat]
    BY <1>0, <1>4, FinalizeType DEF FinalizeSucceeded, RecordPhases
  <2>2. QED
    BY <1>0, <1>4, <2>1 DEF FinalizeSucceeded, TypeOK, WorkerTypeOK, RestTypeOK, PCs
<1>5. CASE WriteSecret
  <2>1. left' \in [Kinds -> Nat]
    BY <1>0, <1>5, SpendType DEF WriteSecret, Kinds
  <2>2. log' \in Seq(Entry) /\ Len(log') = Len(log) /\ log' # <<>>
    BY <1>0, <1>5, NotedType DEF WriteSecret
  <2>3. pc' \in PCs
    BY <1>5 DEF WriteSecret, SecretError, PCs
  <2>4. secret' \in Nat /\ secret' <= Len(log') /\ secretSeen' \in BOOLEAN
    <3>1. /\ secret' = Attempt \/ secret' = secret
          /\ secretSeen' = FALSE \/ secretSeen' = secretSeen
      BY <1>5 DEF WriteSecret
    <3>2. secretSeen' \in BOOLEAN
      BY <3>1, Zenon DEF TypeOK
    <3>3. secret' \in Nat /\ secret' <= Len(log')
      BY <1>0, <2>2, <3>1 DEF TypeOK, Attempt
    <3>4. QED
      BY <3>2, <3>3
  <2>5. QED
    BY <1>0, <1>5, <2>1, <2>2, <2>3, <2>4
       DEF WriteSecret, TypeOK, WorkerTypeOK, RecordsTypeOK, RestTypeOK
<1>6. CASE RestartWorkload
  <2>1. left' \in [Kinds -> Nat]
    BY <1>0, <1>6, SpendType DEF RestartWorkload, Kinds
  <2>2. job.target \in Targets /\ NumTargets \in Nat
    BY <1>0, <1>6, LimitsAssumption DEF RestartWorkload, Job, Targets
  <2>3. ASSUME NEW ok \in BOOLEAN PROVE ListedIf(ok) \in Job
    <3>1. /\ job.target + 1 \in Nat \ {0}
          /\ (IF ok THEN job.restarted \cup {job.target} ELSE job.restarted) \in SUBSET Targets
      BY <1>0, <2>2 DEF Job
    <3>2. ASSUME NEW target \in Nat \ {0}, NEW restarted \in SUBSET Targets
          PROVE  [job EXCEPT !.target = target, !.restarted = restarted] \in Job
      BY <1>0 DEF Job
    <3>3. QED
      BY <3>1, <3>2 DEF ListedIf
  <2>4. job' \in Job
    BY <1>6, <2>3 DEF RestartWorkload
  <2>5. workloads' \in [Targets -> Nat]
    BY <1>0, <1>6, <2>2 DEF RestartWorkload, TypeOK, Attempt
  <2>6. QED
    BY <1>0, <1>6, <2>1, <2>4, <2>5
       DEF RestartWorkload, TypeOK, WorkerTypeOK, RecordsTypeOK, RestTypeOK
<1>7. QED
  BY <1>1, <1>2, <1>3, <1>4, <1>5, <1>6

\* The steps that write the policy during a rotation, or end it.
LEMMA EndOfRotationType ==
  ASSUME TypeOK, StoreTypeOK',
         FailStatus \/ Abort \/ ClearAnnotation \/ StatusReady \/ Prune
  PROVE  WorkerTypeOK' /\ RecordsTypeOK' /\ RestTypeOK'
<1>0. /\ pc # "idle" /\ obj \in Policy /\ job \in Job /\ log # <<>> /\ now \in Time
      /\ left \in [Kinds -> Nat] /\ wake \in Nat \cup {Nil}
      /\ RecordsTypeOK
  BY DEF TypeOK, WorkerTypeOK, FailStatus, Abort, ClearAnnotation, StatusReady, Prune
<1> USE DEF Running, recordVars, secretVars, Attempts
<1>1. CASE FailStatus
  <2>1. left' \in [Kinds -> Nat]
    BY <1>0, <1>1, CallType DEF FailStatus
  <2>2. log' \in Seq(Entry) /\ Len(log') = Len(log)
    BY <1>0, <1>1, NotedType DEF FailStatus
  <2>3. wake' \in Nat \cup {Nil}
    BY <1>0, <1>1, WakeType, DelaysAssumption DEF FailStatus, Return
  <2>4. QED
    BY <1>0, <1>1, <2>1, <2>2, <2>3
       DEF FailStatus, Return, GoIdle, TypeOK, WorkerTypeOK, RecordsTypeOK, RestTypeOK, PCs
<1>2. CASE Abort
  <2>1. RecordsTypeOK' /\ left' \in [Kinds -> Nat]
    BY <1>0, <1>2, FinalizeType DEF Abort, RecordPhases
  <2>2. QED
    BY <1>0, <1>2, <2>1
       DEF Abort, ReturnError, Retry, ReadyNow, GoIdle, TypeOK, WorkerTypeOK, RestTypeOK, PCs
<1>3. CASE ClearAnnotation
  <2>1. left' \in [Kinds -> Nat]
    BY <1>0, <1>3, CallType DEF ClearAnnotation, Store
  <2>2. obj' \in Policy
    BY <1>0, <1>3, CopyTypes DEF ClearAnnotation, Store, StoreTypeOK
  <2>3. QED
    BY <1>0, <1>3, <2>1, <2>2
       DEF ClearAnnotation, TypeOK, WorkerTypeOK, RecordsTypeOK, RestTypeOK, PCs
<1>4. CASE StatusReady
  <2>1. left' \in [Kinds -> Nat]
    BY <1>0, <1>4, CallType DEF StatusReady, Store
  <2>2. \/ pc' = "prune" /\ obj' \in Policy /\ UNCHANGED <<wake, job>>
        \/ pc' = "idle" /\ wake' = ReadyNow
    BY <1>4 DEF StatusReady, StatusError, ReturnError, Retry, GoIdle, Store, StoreTypeOK
  <2>3. WorkerTypeOK'
    BY <1>0, <1>4, <2>2 DEF StatusReady, WorkerTypeOK, PCs, ReadyNow
  <2>4. QED
    BY <1>0, <1>4, <2>1, <2>3 DEF StatusReady, TypeOK, RecordsTypeOK, RestTypeOK
<1>5. CASE Prune
  <2>1. left' \in [Kinds -> Nat]
    BY <1>0, <1>5, SpendType DEF Prune, Kinds
  <2>2. log' \in Seq(Entry) /\ Len(log') = Len(log)
    BY <1>0, <1>5, NotedType DEF Prune
  <2>3. obj.status.next \in Int /\ now \in Int
    BY <1>0 DEF Policy, Status, MaybeTime, Time, ZeroTime, Nil
  <2>4. wake' \in Nat \cup {Nil}
    BY <1>0, <1>5, <2>3, WakeType DEF Prune, Return
  <2>5. RecordsTypeOK'
    <3>1. CASE UNCHANGED <<records, recordEvent>>
      BY <1>0, <1>5, <2>2, <3>1 DEF Prune, RecordsTypeOK
    <3>2. CASE \E deleted :
                 /\ records' = [n \in DOMAIN records \ deleted |-> records[n]]
                 /\ recordEvent' = (recordEvent \/ deleted \cap DOMAIN records # {})
      <4>1. recordEvent' \in BOOLEAN
        BY <3>2, Zenon
      <4>2. QED
        BY <1>0, <1>5, <2>2, <3>2, <4>1 DEF Prune, RecordsTypeOK
    <3>3. QED
      BY <1>5, <3>1, <3>2 DEF Prune
  <2>6. QED
    BY <1>0, <1>5, <2>1, <2>2, <2>4, <2>5
       DEF Prune, Return, GoIdle, TypeOK, WorkerTypeOK, RestTypeOK, PCs
<1>6. QED
  BY <1>1, <1>2, <1>3, <1>4, <1>5

\* The users, the informers, the collector, the clock and the crashes.
LEMMA WorldType ==
  ASSUME TypeOK, Informers \/ Collector \/ User \/ Tick \/ Crash \/ UNCHANGED vars
  PROVE  WorkerTypeOK' /\ RecordsTypeOK' /\ RestTypeOK'
<1>0. WorkerTypeOK /\ RecordsTypeOK /\ RestTypeOK
  BY DEF TypeOK, RestTypeOK
<1> USE DEF localVars, recordVars, secretVars
<1>1. DOMAIN [n \in DOMAIN records |-> records[n].at] = DOMAIN records
      /\ \A n \in DOMAIN records : records[n].at \in Time
  BY <1>0 DEF RecordsTypeOK, Record
<1>2. DOMAIN <<>> = {}
  OBVIOUS
<1>3. CASE Informers
  <2>1. WorkerTypeOK'
    BY <1>0, <1>3 DEF Informers, Deliver, RecordSync, SecretSync, ReadyNow, WorkerTypeOK
  <2>2. RecordsTypeOK'
    BY <1>0, <1>1, <1>3
       DEF Informers, Deliver, RecordSync, SecretSync, RecordsTypeOK, Attempts
  <2>3. QED
    BY <1>0, <1>3, <2>1, <2>2 DEF Informers, Deliver, RecordSync, SecretSync, RestTypeOK
<1>4. CASE Collector
  <2>1. RecordsTypeOK'
    BY <1>0, <1>2, <1>4 DEF Collector, CollectRecords, ReleaseHold, RecordsTypeOK, Attempts
  <2>2. QED
    BY <1>0, <1>4, <2>1 DEF Collector, CollectRecords, ReleaseHold, WorkerTypeOK, RestTypeOK
<1>5. CASE User
  <2>1. left' \in [Kinds -> Nat]
    BY <1>0, <1>5, SpendType
       DEF User, Edit, Request, Delete, UserAction, Kinds, RestTypeOK
  <2>2. asked' \in Nat
    <3>1. asked' = asked \/ asked' = Len(log)
      BY <1>5 DEF User, Edit, Request, Delete
    <3>2. QED
      BY <1>0, <3>1 DEF RecordsTypeOK, RestTypeOK
  <2>3. QED
    BY <1>0, <1>5, <2>1, <2>2 DEF User, Edit, Request, Delete, UserAction,
       WorkerTypeOK, RecordsTypeOK, RestTypeOK, Attempts
<1>6. CASE Tick
  BY <1>0, <1>6 DEF Tick, Time, WorkerTypeOK, RecordsTypeOK, RestTypeOK, Attempts
<1>7. CASE Crash
  <2>1. left' \in [Kinds -> Nat]
    BY <1>0, <1>7, SpendType DEF Crash, Kinds, RestTypeOK
  <2>2. RecordsTypeOK'
    BY <1>0, <1>1, <1>7 DEF Crash, RecordsTypeOK, Attempts
  <2>3. WorkerTypeOK'
    BY <1>0, <1>7 DEF Crash, GoIdle, ReadyNow, PCs, WorkerTypeOK
  <2>4. QED
    BY <1>0, <1>7, <2>1, <2>2, <2>3 DEF Crash, RestTypeOK
<1>8. CASE UNCHANGED vars
  BY <1>0, <1>8 DEF vars, WorkerTypeOK, RecordsTypeOK, RestTypeOK, Attempts
<1>9. QED
  BY <1>3, <1>4, <1>5, <1>6, <1>7, <1>8

LEMMA TypeInit == Init => TypeOK
<1> SUFFICES ASSUME Init PROVE TypeOK
  OBVIOUS
<1>1. NewStatus \in Status
  BY DEF NewStatus, Status, Phases, Conditions, MaybeTime
<1>2. api \in Policy
  <2>1. /\ api.spec \in Specs /\ api.status \in Status /\ api.finalizers = {}
        /\ api = [rv |-> 1, exists |-> TRUE, deleting |-> FALSE, finalizers |-> {},
                  rotateNow |-> FALSE, spec |-> api.spec, status |-> api.status]
    BY <1>1 DEF Init, StoreInit
  <2>2. ASSUME NEW spec \in Specs, NEW status \in Status
        PROVE  [rv |-> 1, exists |-> TRUE, deleting |-> FALSE, finalizers |-> {},
                rotateNow |-> FALSE, spec |-> spec, status |-> status] \in Policy
    BY DEF Policy
  <2>3. QED
    BY <2>1, <2>2
<1>3. StoreTypeOK
  BY <1>2 DEF Init, StoreInit, StoreTypeOK
<1>4. WorkerTypeOK
  BY DEF Init, WorkerTypeOK, Time, ReadyNow, PCs
<1>5. RecordsTypeOK
  <2>1. DOMAIN <<>> = {} /\ <<>> \in Seq(Entry)
    OBVIOUS
  <2>2. QED
    BY <2>1 DEF Init, RecordsTypeOK
<1>6. left \in [Kinds -> Nat]
  BY BudgetsAssumption DEF Init
<1>7. QED
  BY <1>3, <1>4, <1>5, <1>6 DEF Init, TypeOK

LEMMA TypeStep == TypeOK /\ [Next]_vars => TypeOK'
<1> SUFFICES ASSUME TypeOK, [Next]_vars PROVE TypeOK'
  OBVIOUS
<1>1. StoreTypeOK'
  BY StoreSteps, StoreTypeStep DEF TypeOK
<1>2. WorkerTypeOK' /\ RecordsTypeOK' /\ RestTypeOK'
  <2>1. CASE Reconcile
    BY <1>1, <2>1, QuietReconcileType, StartType DEF Reconcile
  <2>2. CASE ExecuteRotation
    BY <1>1, <2>2, StepOfRotationType, EndOfRotationType DEF ExecuteRotation
  <2>3. CASE Informers \/ Collector \/ User \/ Tick \/ Crash \/ UNCHANGED vars
    BY <2>3, WorldType
  <2>4. QED
    BY <2>1, <2>2, <2>3 DEF Next
<1>3. QED
  BY <1>1, <1>2 DEF TypeOK, RestTypeOK

\* Every variable keeps its type, whatever the bounds and the budget.
THEOREM TypeCorrect == Spec => []TypeOK
BY TypeInit, TypeStep, PTL DEF Spec

LEMMA CoherentInit == Init => StoreCoherent
<1> SUFFICES ASSUME Init PROVE StoreCoherent
  OBVIOUS
<1>1. watch = <<>> /\ cache = api /\ api.rv = 1
  BY DEF Init, StoreInit
<1>2. QED
  BY <1>1 DEF StoreCoherent, Version, VersionNumbers

\* For any number of edits, writes, crashes and relists: what the informer has
\* still to deliver is the unbroken history of the object up to its present
\* version, along which a deletion is never undone.
THEOREM VersionsCoherent == Spec => []StoreCoherent
<1>1. TypeOK /\ StoreCoherent /\ [Next]_vars => StoreCoherent'
  BY StoreSteps, CoherentStep DEF TypeOK
<1>2. QED
  BY <1>1, TypeCorrect, CoherentInit, PTL DEF Spec

-----------------------------------------------------------------------------
(* The finalizer holds the policy.  FinalizerHoldsPolicy alone is not          *)
(* inductive: a rotation starts from a cached copy, so what must hold is that  *)
(* the finalizer is still on the object as long as any version that a reader   *)
(* may yet see shows it without a deletion, and that the copy of the rotation  *)
(* carries it, for clearing the annotation writes the copy's finalizers back.  *)

Held == api.exists /\ Finalizer \in api.finalizers

IsLive(v) == v.exists /\ ~v.deleting /\ Finalizer \in v.finalizers

Holding ==
  /\ pc # "idle" => Held /\ Finalizer \in obj.finalizers
  /\ \A i \in 0..Len(watch) : IsLive(Versions[i]) => Held

\* A step lets go of the finalizer only where the handler of the deletion does.
LEMMA HeldStep ==
  ASSUME TypeOK, Holding, StoreStep, Held, ~(pc = "idle" /\ cache.deleting)
  PROVE  Held'
<1>1. CASE api' = api
  BY <1>1 DEF Held
<1>2. ASSUME NEW new \in Policy, Change(new), KeepsFinalizer(new), api' = Settled(new)
      PROVE  Held'
  <2>1. api \in Policy /\ new.rv = api.rv /\ Finalizer \in new.finalizers
    BY <1>2 DEF TypeOK, StoreTypeOK, Change, KeepsFinalizer, Held
  <2>2. QED
    BY <1>2, <2>1, SettledVersion DEF Held
<1>3. ~MayRelease
  BY DEF MayRelease, Holding
<1>4. QED
  BY <1>1, <1>2, <1>3, VersionsStep DEF TypeOK, storeVars

\* When the copy in the cache is being deleted, so are all later versions.
LEMMA DeletingSpreads ==
  ASSUME StoreTypeOK, StoreCoherent, cache.deleting
  PROVE  api.deleting /\ \A i \in 0..Len(watch) : Versions[i].deleting
<1>1. Len(watch) \in Nat /\ Versions[0] = cache /\ Chain(Versions, Len(watch), api)
  BY VersionsType, CoherentIsChain DEF Versions, Version, VersionNumbers
<1>2. QED
  BY <1>1 DEF Chain

LEMMA SeenStep ==
  ASSUME TypeOK, StoreCoherent, Holding, StoreStep
  PROVE  \A i \in 0..Len(watch') : IsLive(Versions'[i]) => Held'
<1>0. StoreTypeOK /\ Len(watch) \in Nat
  BY VersionsType DEF TypeOK
<1>1. CASE UNCHANGED storeVars
  BY <1>1 DEF storeVars, Holding, Held, Versions, Version, VersionNumbers
<1>2. CASE /\ Len(watch) # 0 /\ Len(watch') = Len(watch) - 1 /\ api' = api
           /\ Versions' = [i \in 0..(Len(watch) - 1) |-> Versions[i + 1]]
  BY <1>0, <1>2 DEF Holding, Held
<1>3. CASE Len(watch') = 0 /\ api' = api /\ Versions' = [i \in 0..0 |-> api]
  BY <1>3 DEF Held, IsLive
<1>4. ASSUME NEW new \in Policy, Change(new),
             Len(watch') = Len(watch) + 1, api' = Settled(new),
             Versions' = [i \in 0..(Len(watch) + 1) |->
                            IF i <= Len(watch) THEN Versions[i] ELSE api']
      PROVE  \A i \in 0..Len(watch') : IsLive(Versions'[i]) => Held'
  <2>1. \A i \in 0..Len(watch') : \/ i \in 0..Len(watch) /\ Versions'[i] = Versions[i]
                                  \/ Versions'[i] = api'
    BY <1>0, <1>4
  <2>2. IsLive(api') => Held'
    BY DEF IsLive, Held
  <2>3. CASE pc = "idle" /\ cache.deleting
    <3>1. api.deleting /\ \A i \in 0..Len(watch) : Versions[i].deleting
      BY <1>0, <2>3, DeletingSpreads
    <3>2. QED
      BY <2>1, <2>2, <3>1 DEF IsLive
  <2>4. CASE ~(pc = "idle" /\ cache.deleting)
    <3>1. Held => Held'
      BY <2>4, HeldStep
    <3>2. QED
      BY <2>1, <2>2, <3>1 DEF Holding
  <2>5. QED
    BY <2>3, <2>4
<1>5. QED
  BY <1>0, <1>1, <1>2, <1>3, <1>4, VersionsStep

\* Where a rotation comes from, and what becomes of its copy.
LEMMA CopyStep ==
  ASSUME TypeOK, [Next]_vars, pc' # "idle"
  PROVE  \/ pc = "idle" /\ StartRotation
         \/ pc # "idle" /\ (obj' = api' \/ SameCopy(obj', obj))
<1>1. CASE Reconcile
  BY <1>1 DEF Reconcile, GetNotFound, HandleDeletion, EnsureFinalizer, SetSuspended,
     SetProviderUnhealthy, MarkDegraded, NotDue, TakeKey, Elsewhere, localVars, StartRotation
<1>2. CASE CreateRecord \/ CallProvider \/ RecordProviderFailure \/ WriteSecret
             \/ RestartWorkload \/ FinalizeSucceeded
  BY <1>2 DEF CreateRecord, CallProvider, RecordProviderFailure, WriteSecret,
     RestartWorkload, FinalizeSucceeded, SameCopy
<1>3. CASE ClearAnnotation
  <2>1. obj \in Policy /\ pc # "idle"
    BY <1>3 DEF ClearAnnotation, TypeOK, WorkerTypeOK
  <2>2. QED
    BY <1>3, <2>1, CopyTypes DEF ClearAnnotation, Store
<1>4. CASE StatusReady
  BY <1>4 DEF StatusReady, StatusError, ReturnError, GoIdle, Store
<1>5. CASE FailStatus \/ Abort \/ Prune \/ Crash
  BY <1>5 DEF FailStatus, Abort, Prune, Crash, Return, ReturnError, GoIdle
<1>6. CASE Informers \/ Collector \/ User \/ Tick \/ UNCHANGED vars
  BY <1>6 DEF Informers, Deliver, RecordSync, SecretSync, Collector, CollectRecords,
     ReleaseHold, User, Edit, Request, Delete, UserAction, Tick, vars, localVars, SameCopy
<1>7. QED
  BY <1>1, <1>2, <1>3, <1>4, <1>5, <1>6 DEF Next, ExecuteRotation

LEMMA HoldingInit == Init => Holding
<1> SUFFICES ASSUME Init PROVE Holding
  OBVIOUS
<1>1. pc = "idle" /\ watch = <<>> /\ cache.finalizers = {}
  BY DEF Init, StoreInit
<1>2. QED
  BY <1>1 DEF Holding, IsLive, Versions, Version, VersionNumbers

LEMMA HoldingStep == TypeOK /\ StoreCoherent /\ Holding /\ [Next]_vars => Holding'
<1> SUFFICES ASSUME TypeOK, StoreCoherent, Holding, [Next]_vars PROVE Holding'
  OBVIOUS
<1>0. StoreStep
  BY StoreSteps
<1>1. \A i \in 0..Len(watch') : IsLive(Versions'[i]) => Held'
  BY <1>0, SeenStep
<1>2. ASSUME pc' # "idle" PROVE Held' /\ Finalizer \in obj'.finalizers
  <2>1. CASE pc # "idle"
    <3>1. Held'
      BY <1>0, <2>1, HeldStep DEF Holding
    <3>2. QED
      BY <1>2, <2>1, <3>1, CopyStep DEF Holding, Held, SameCopy
  <2>2. CASE pc = "idle" /\ StartRotation
    <3>1. /\ cache \in Policy /\ cache.exists /\ ~cache.deleting
          /\ Finalizer \in cache.finalizers
      BY <2>2 DEF StartRotation, Rotatable, Live, TypeOK, StoreTypeOK
    <3>2. Len(watch) \in Nat /\ Versions[0] = cache
      BY VersionsType DEF TypeOK, Versions, Version, VersionNumbers
    <3>3. Held
      BY <3>1, <3>2 DEF Holding, IsLive
    <3>4. Held'
      BY <1>0, <3>1, <3>3, HeldStep
    <3>5. obj' = api' \/ SameCopy(obj', cache)
      BY <2>2, <3>1, CopyTypes DEF StartRotation, Store, Marked
    <3>6. QED
      BY <3>1, <3>4, <3>5 DEF Held, SameCopy
  <2>3. QED
    BY <1>2, <2>1, <2>2, CopyStep
<1>3. QED
  BY <1>1, <1>2 DEF Holding, IsLive

LEMMA HoldingImplies == Holding => FinalizerHoldsPolicy
BY DEF Holding, Held, FinalizerHoldsPolicy

\* Whatever the informer has not yet delivered and however often the process
\* dies: while a rotation is under way its policy exists and the finalizer of
\* the controller is on it.
THEOREM RotationHoldsPolicy == Spec => []FinalizerHoldsPolicy
BY TypeCorrect, VersionsCoherent, HoldingInit, HoldingStep, HoldingImplies, PTL DEF Spec

-----------------------------------------------------------------------------
(* No edit is lost.  A write from an old copy is refused, so all that matters  *)
(* is that a copy with the number of the present version has its spec and its  *)
(* finalizers: the cache because the versions are coherent, the copy of a      *)
(* rotation because every write of the object moves the number on.             *)

Faithful == pc # "idle" => obj.rv <= api.rv /\ (obj.rv = api.rv => SameCopy(obj, api))

\* The number of the object never goes back, and stays only with the object.
LEMMA NumberStep ==
  ASSUME StoreTypeOK, StoreStep
  PROVE  api'.rv \in Nat /\ api.rv \in Nat /\ api.rv <= api'.rv /\ (api'.rv = api.rv => api' = api)
<1>1. api \in Policy /\ api.rv \in Nat
  BY DEF StoreTypeOK, Policy
<1>2. ASSUME NEW new \in Policy, Change(new), api' = Settled(new) PROVE api'.rv = api.rv + 1
  BY <1>1, <1>2, SettledVersion DEF Change
<1>3. api' = api \/ api'.rv = api.rv + 1
  BY <1>2, VersionsStep DEF storeVars
<1>4. QED
  BY <1>1, <1>3

\* A cached copy with the number of the object is the object.
LEMMA CacheFaithful ==
  ASSUME StoreTypeOK, StoreCoherent
  PROVE  cache.rv <= api.rv /\ (cache.rv = api.rv => cache = api)
<1>1. /\ Len(watch) \in Nat /\ Versions[0] = cache /\ Chain(Versions, Len(watch), api)
      /\ cache.rv \in Nat /\ api.rv \in Nat
  BY VersionsType, CoherentIsChain DEF Versions, Version, VersionNumbers, StoreTypeOK, Policy
<1>2. cache.rv + (Len(watch) - 0) = api.rv /\ Versions[Len(watch)] = api
  BY <1>1 DEF Chain
<1>3. QED
  BY <1>1, <1>2

LEMMA FaithfulStep == TypeOK /\ StoreCoherent /\ Faithful /\ [Next]_vars => Faithful'
<1> SUFFICES ASSUME TypeOK, StoreCoherent, Faithful, [Next]_vars, pc' # "idle"
             PROVE  obj'.rv <= api'.rv /\ (obj'.rv = api'.rv => SameCopy(obj', api'))
  BY DEF Faithful, SameCopy
<1>1. /\ api'.rv \in Nat /\ api.rv \in Nat /\ api.rv <= api'.rv
      /\ (api'.rv = api.rv => api' = api)
  BY StoreSteps, NumberStep DEF TypeOK
<1>2. ASSUME NEW o \in Policy, o.rv <= api.rv, o.rv = api.rv => SameCopy(o, api),
             SameCopy(obj', o)
      PROVE  obj'.rv <= api'.rv /\ (obj'.rv = api'.rv => SameCopy(obj', api'))
  <2>1. o.rv \in Nat
    BY DEF Policy
  <2>2. QED
    BY <1>1, <1>2, <2>1 DEF SameCopy
<1>3. CASE obj' = api'
  BY <1>1, <1>3 DEF SameCopy
<1>4. CASE pc # "idle" /\ SameCopy(obj', obj)
  BY <1>2, <1>4 DEF Faithful, TypeOK, WorkerTypeOK
<1>5. CASE StartRotation /\ obj' # api'
  <2>1. cache \in Policy /\ SameCopy(obj', cache)
    BY <1>5, CopyTypes DEF StartRotation, Store, Marked, TypeOK, StoreTypeOK
  <2>2. cache.rv <= api.rv /\ (cache.rv = api.rv => SameCopy(cache, api))
    BY CacheFaithful DEF TypeOK, SameCopy
  <2>3. QED
    BY <1>2, <2>1, <2>2
<1>6. QED
  BY <1>3, <1>4, <1>5, CopyStep

\* What NoLostEdit asks of a step that is not the user's.
KeepsEdits ==
  /\ api'.spec = api.spec
  /\ api'.deleting = api.deleting
  /\ Hold \in api.finalizers /\ Hold \notin api'.finalizers => ReleaseHold

\* A write that takes effect keeps the edits when its content does.
LEMMA CallKeeps ==
  ASSUME StoreTypeOK, NEW o, NEW ok \in BOOLEAN, NEW new \in Policy, Call(o, new, ok),
         new.rv = api.rv,
         Current(o) => /\ new.spec = api.spec /\ new.deleting = api.deleting
                       /\ (Hold \in api.finalizers => Hold \in new.finalizers)
  PROVE  KeepsEdits
<1>1. api' = api \/ (Current(o) /\ api' = Settled(new))
  BY DEF Call, Publish
<1>2. Settled(new).spec = new.spec
  BY DEF Settled, Policy
<1>3. QED
  BY <1>1, <1>2, SettledVersion DEF KeepsEdits, StoreTypeOK

LEMMA StatusKeeps ==
  ASSUME StoreTypeOK, NEW o, NEW copy \in Policy,
         \E ok \in BOOLEAN : Call(o, StatusWrite(copy), ok)
  PROVE  KeepsEdits
<1>1. StatusWrite(copy).spec = api.spec
  BY DEF StatusWrite, StoreTypeOK, Policy
<1>2. QED
  BY <1>1, CallKeeps, WriteType DEF StoreTypeOK

\* copy, made from o, keeps the edits when o is current.
LEMMA MainKeeps ==
  ASSUME StoreTypeOK, NEW o, NEW copy \in Policy,
         \E ok \in BOOLEAN : Call(o, MainWrite(copy), ok),
         Current(o) => /\ copy.spec = api.spec
                       /\ (Hold \in api.finalizers => Hold \in copy.finalizers)
  PROVE  KeepsEdits
<1>1. MainWrite(copy).spec = copy.spec
  BY DEF MainWrite, StoreTypeOK, Policy
<1>2. QED
  BY <1>1, CallKeeps, WriteType DEF StoreTypeOK

LEMMA ReconcileKeepsEdits == TypeOK /\ StoreCoherent /\ Reconcile => KeepsEdits
<1> SUFFICES ASSUME TypeOK, StoreCoherent, Reconcile PROVE KeepsEdits
  OBVIOUS
<1>0. StoreTypeOK /\ cache \in Policy /\ (Current(cache) => cache = api)
  BY CacheFaithful DEF TypeOK, StoreTypeOK, Current
<1>1. CASE api' = api
  BY <1>1 DEF KeepsEdits
<1>2. CASE HandleDeletion
  <2>1. api' = api \/ \E ok \in BOOLEAN : Call(cache, MainWrite(Released(cache)), ok)
    BY <1>2 DEF HandleDeletion
  <2>2. /\ Released(cache) \in Policy /\ Released(cache).spec = cache.spec
        /\ Hold \in cache.finalizers => Hold \in Released(cache).finalizers
    <3>1. Released(cache) \in Policy
      BY <1>0, CopyTypes
    <3>2. QED
      BY <1>0, <3>1 DEF Released, Policy, Hold, Finalizer
  <2>3. QED
    BY <1>0, <1>1, <2>1, <2>2, MainKeeps
<1>3. CASE EnsureFinalizer
  <2> DEFINE copy == [cache EXCEPT !.finalizers = @ \cup {Finalizer}]
  <2>1. copy \in Policy
    BY <1>0, CopyTypes
  <2>2. copy.spec = cache.spec /\ (Hold \in cache.finalizers => Hold \in copy.finalizers)
    BY <1>0 DEF Policy
  <2>3. \E ok \in BOOLEAN : Call(cache, MainWrite(copy), ok)
    BY <1>3 DEF EnsureFinalizer
  <2> HIDE DEF copy
  <2>4. QED
    BY <1>0, <2>1, <2>2, <2>3, MainKeeps
<1>4. CASE SetSuspended
  <2> DEFINE copy == [cache EXCEPT !.status.phase = "Suspended", !.status.ready = "False"]
  <2>1. copy \in Policy /\ \E ok \in BOOLEAN : Call(cache, StatusWrite(copy), ok)
    BY <1>0, <1>4, CopyTypes DEF SetSuspended
  <2> HIDE DEF copy
  <2>2. QED
    BY <1>0, <2>1, StatusKeeps
<1>5. CASE SetProviderUnhealthy
  <2> DEFINE copy == [cache EXCEPT !.status.phase = "Failed", !.status.healthy = "False"]
  <2>1. copy \in Policy /\ \E ok \in BOOLEAN : Call(cache, StatusWrite(copy), ok)
    BY <1>0, <1>5, CopyTypes DEF SetProviderUnhealthy
  <2> HIDE DEF copy
  <2>2. QED
    BY <1>0, <2>1, StatusKeeps
<1>6. CASE MarkDegraded
  <2> DEFINE copy == [cache EXCEPT !.status.degraded = TRUE]
  <2>1. copy \in Policy /\ \E ok \in BOOLEAN : Call(cache, StatusWrite(copy), ok)
    BY <1>0, <1>6, CopyTypes DEF MarkDegraded
  <2> HIDE DEF copy
  <2>2. QED
    BY <1>0, <2>1, StatusKeeps
<1>7. CASE NotDue
  BY <1>0, <1>7, StatusTypes, StatusKeeps DEF NotDue
<1>8. CASE StartRotation
  <2>1. Marked \in Policy /\ \E ok \in BOOLEAN : Call(Marked, StatusWrite(Marked), ok)
    BY <1>0, <1>8, CopyTypes DEF StartRotation, Store, Marked
  <2>2. QED
    BY <1>0, <2>1, StatusKeeps
<1>9. QED
  BY <1>1, <1>2, <1>3, <1>4, <1>5, <1>6, <1>7, <1>8 DEF Reconcile, GetNotFound

LEMMA RotationKeepsEdits == TypeOK /\ Faithful /\ ExecuteRotation => KeepsEdits
<1> SUFFICES ASSUME TypeOK, Faithful, ExecuteRotation PROVE KeepsEdits
  OBVIOUS
<1>0. StoreTypeOK /\ (pc # "idle" => obj \in Policy)
  BY DEF TypeOK, WorkerTypeOK
<1>1. CASE CreateRecord \/ CallProvider \/ RecordProviderFailure \/ Abort \/ WriteSecret
             \/ RestartWorkload \/ FinalizeSucceeded \/ Prune
  BY <1>1 DEF CreateRecord, CallProvider, RecordProviderFailure, Abort, WriteSecret,
     RestartWorkload, FinalizeSucceeded, Prune, storeVars, KeepsEdits
<1>2. CASE FailStatus
  <2> DEFINE phase == IF obj.spec.failurePolicy = "Ignore" THEN "Ready" ELSE "Failed"
             o == [obj EXCEPT !.status.phase = phase, !.status.ready = "False"]
  <2>1. o \in Policy
    BY <1>0, <1>2, CopyTypes DEF FailStatus, Phases
  <2>2. \E ok \in BOOLEAN : Call(o, StatusWrite(o), ok)
    BY <1>2 DEF FailStatus
  <2> HIDE DEF o
  <2>3. QED
    BY <1>0, <2>1, <2>2, StatusKeeps
<1>3. CASE ClearAnnotation
  <2> DEFINE o == [obj EXCEPT !.rotateNow = FALSE]
  <2>1. o \in Policy /\ SameCopy(o, obj) /\ pc # "idle"
    BY <1>0, <1>3, CopyTypes DEF ClearAnnotation
  <2>2. \E ok \in BOOLEAN : Call(o, MainWrite(o), ok)
    BY <1>3 DEF ClearAnnotation, Store
  <2> HIDE DEF o
  <2>3. Current(o) => SameCopy(o, api)
    BY <2>1 DEF Current, Faithful, SameCopy
  <2>4. QED
    BY <1>0, <2>1, <2>2, <2>3, MainKeeps DEF SameCopy
<1>4. CASE StatusReady
  <2> DEFINE o == [obj EXCEPT !.status = Done]
  <2>1. o \in Policy
    BY <1>4, StatusTypes DEF StatusReady
  <2>2. \E ok \in BOOLEAN : Call(o, StatusWrite(o), ok)
    BY <1>4 DEF StatusReady, Store
  <2> HIDE DEF o
  <2>3. QED
    BY <1>0, <2>1, <2>2, StatusKeeps
<1>5. QED
  BY <1>1, <1>2, <1>3, <1>4 DEF ExecuteRotation

LEMMA KeepsEditsStep ==
  TypeOK /\ StoreCoherent /\ Faithful /\ [Next]_vars => [User \/ KeepsEdits]_vars
<1> SUFFICES ASSUME TypeOK, StoreCoherent, Faithful, [Next]_vars
             PROVE  User \/ KeepsEdits
  BY DEF KeepsEdits
<1>1. CASE Reconcile \/ ExecuteRotation
  BY <1>1, ReconcileKeepsEdits, RotationKeepsEdits
<1>2. CASE ReleaseHold
  <2>1. api' = api \/ api' = Settled([api EXCEPT !.finalizers = @ \ {Hold}])
    BY <1>2 DEF ReleaseHold, DropHold, Publish
  <2>2. QED
    BY <1>2, <2>1 DEF KeepsEdits, Settled, TypeOK, StoreTypeOK, Policy
<1>3. CASE Informers \/ CollectRecords \/ Tick \/ Crash \/ UNCHANGED vars
  <2>1. api' = api
    BY <1>3 DEF Informers, Deliver, DeliverNext, RecordSync, SecretSync, CollectRecords,
       Tick, Crash, Relist, storeVars, vars
  <2>2. QED
    BY <2>1 DEF KeepsEdits
<1>4. QED
  BY <1>1, <1>2, <1>3 DEF Next, Collector

\* However old the copies it writes back, the controller never undoes what the
\* user or another party wrote into the object.
THEOREM EditsAreKept == Spec => NoLostEdit
<1>1. Init => Faithful
  BY DEF Init, Faithful
<1>2. Spec => []Faithful
  BY <1>1, TypeCorrect, VersionsCoherent, FaithfulStep, PTL DEF Spec
<1>3. (User \/ KeepsEdits) => \/ User
                              \/ /\ api'.spec = api.spec
                                 /\ api'.deleting = api.deleting
                                 /\ Hold \in api.finalizers /\ Hold \notin api'.finalizers
                                      => ReleaseHold
  BY DEF KeepsEdits
<1>4. QED
  BY <1>2, <1>3, TypeCorrect, VersionsCoherent, KeepsEditsStep, PTL DEF Spec, NoLostEdit

-----------------------------------------------------------------------------
(* The account of a rotation: how far the attempt under way has come at each   *)
(* place in the code, what its copy of the policy knows while it is current,   *)
(* and that a current copy shows no request made after the attempt began.      *)

\* The object goes with its last finalizer, at once.
Alive == api.exists => ~(api.deleting /\ api.finalizers = {})

BeforeWrite == {"create", "call", "write", "providerFailed", "failStatus"}
AfterWrite == {"clear", "restart", "status", "prune"}

Progress ==
  /\ pc \in BeforeWrite => log[Attempt].wrote = Nil
  /\ pc \in AfterWrite => log[Attempt].wrote # Nil
  /\ pc # "idle" => log[Attempt].manual = job.manual
  /\ pc = "clear" => job.manual

Asking ==
  /\ asked <= Attempt
  /\ pc # "idle" /\ obj.rv = api.rv /\ api.rotateNow => asked < Attempt

KnowsLast == pc # "idle" /\ obj.rv = api.rv => obj.status.last = api.status.last

Timely == api.status.last <= now

Account == Alive /\ Progress /\ Asking /\ KnowsLast /\ Timely

Known == TypeOK /\ StoreCoherent /\ Holding /\ Faithful

-----------------------------------------------------------------------------
(* What a write does to the account. *)

\* A status written from a copy leaves the request alone.
LEMMA StatusEffect ==
  ASSUME StoreTypeOK, NEW o, NEW copy \in Policy, NEW ok \in BOOLEAN,
         Call(o, StatusWrite(copy), ok)
  PROVE  \/ api' = api
         \/ /\ Current(o) /\ api'.rv = api.rv + 1
            /\ api'.rotateNow = api.rotateNow /\ api'.status = copy.status
            /\ api'.deleting = api.deleting /\ api'.finalizers = api.finalizers
            /\ api'.exists = ~(api.deleting /\ api.finalizers = {})
<1>1. api' = api \/ (Current(o) /\ api' = Settled(StatusWrite(copy)))
  BY DEF Call, Publish
<1>2. QED
  BY <1>1 DEF Settled, StatusWrite, StoreTypeOK, Policy

\* The rest of a copy, written back, leaves the status alone.
LEMMA MainEffect ==
  ASSUME StoreTypeOK, NEW o, NEW copy \in Policy, NEW ok \in BOOLEAN,
         Call(o, MainWrite(copy), ok)
  PROVE  \/ api' = api
         \/ /\ Current(o) /\ api'.rv = api.rv + 1
            /\ api'.rotateNow = copy.rotateNow /\ api'.status = api.status
            /\ api'.deleting = api.deleting /\ api'.finalizers = copy.finalizers
            /\ api'.exists = ~(api.deleting /\ copy.finalizers = {})
<1>1. api' = api \/ (Current(o) /\ api' = Settled(MainWrite(copy)))
  BY DEF Call, Publish
<1>2. QED
  BY <1>1 DEF Settled, MainWrite, StoreTypeOK, Policy

\* The account stays as it is, but for the policy that may go.
Still ==
  /\ api'.status.last = api.status.last
  /\ api'.rotateNow = api.rotateNow
  /\ api'.exists => api.exists
  /\ Alive'

\* The paths of Reconcile that do not rotate leave the account alone: what they
\* write comes from the cache, and goes through only when the cache is current.
LEMMA QuietStill ==
  ASSUME Known, Alive, Reconcile
  PROVE  Still
<1>0. StoreTypeOK /\ cache \in Policy /\ api \in Policy /\ (Current(cache) => cache = api)
  BY CacheFaithful DEF Known, TypeOK, StoreTypeOK, Current
<1>1. CASE api' = api
  BY <1>1 DEF Still, Alive
<1>2. ASSUME NEW copy \in Policy, NEW ok \in BOOLEAN, NEW o, Call(o, StatusWrite(copy), ok),
             o.rv = cache.rv, copy.status.last = cache.status.last
      PROVE  Still
  <2>1. Current(o) => cache = api
    BY <1>0, <1>2 DEF Current
  <2>2. QED
    BY <1>0, <1>1, <1>2, <2>1, StatusEffect DEF Still, Alive, Current
<1>3. ASSUME NEW copy \in Policy, NEW ok \in BOOLEAN, Call(cache, MainWrite(copy), ok),
             copy.rotateNow = cache.rotateNow
      PROVE  Still
  BY <1>0, <1>1, <1>3, MainEffect DEF Still, Alive, Current
<1>4. CASE HandleDeletion
  <2>1. Released(cache) \in Policy /\ Released(cache).rotateNow = cache.rotateNow
    BY <1>0, CopyTypes DEF Released, Policy
  <2>2. api' = api \/ \E ok \in BOOLEAN : Call(cache, MainWrite(Released(cache)), ok)
    BY <1>4 DEF HandleDeletion
  <2>3. QED
    BY <1>1, <1>3, <2>1, <2>2
<1>5. CASE EnsureFinalizer
  <2> DEFINE copy == [cache EXCEPT !.finalizers = @ \cup {Finalizer}]
  <2>1. copy \in Policy /\ copy.rotateNow = cache.rotateNow
    BY <1>0, CopyTypes DEF Policy
  <2>2. \E ok \in BOOLEAN : Call(cache, MainWrite(copy), ok)
    BY <1>5 DEF EnsureFinalizer
  <2> HIDE DEF copy
  <2>3. QED
    BY <1>3, <2>1, <2>2
<1>6. CASE SetSuspended
  <2> DEFINE copy == [cache EXCEPT !.status.phase = "Suspended", !.status.ready = "False"]
  <2>1. copy \in Policy /\ copy.status.last = cache.status.last
    BY <1>0, CopyTypes DEF Policy, Status
  <2>2. \E ok \in BOOLEAN : Call(cache, StatusWrite(copy), ok)
    BY <1>6 DEF SetSuspended
  <2> HIDE DEF copy
  <2>3. QED
    BY <1>2, <2>1, <2>2
<1>7. CASE SetProviderUnhealthy
  <2> DEFINE copy == [cache EXCEPT !.status.phase = "Failed", !.status.healthy = "False"]
  <2>1. copy \in Policy /\ copy.status.last = cache.status.last
    BY <1>0, CopyTypes DEF Policy, Status
  <2>2. \E ok \in BOOLEAN : Call(cache, StatusWrite(copy), ok)
    BY <1>7 DEF SetProviderUnhealthy
  <2> HIDE DEF copy
  <2>3. QED
    BY <1>2, <2>1, <2>2
<1>8. CASE MarkDegraded
  <2> DEFINE copy == [cache EXCEPT !.status.degraded = TRUE]
  <2>1. copy \in Policy /\ copy.status.last = cache.status.last
    BY <1>0, CopyTypes DEF Policy, Status
  <2>2. \E ok \in BOOLEAN : Call(cache, StatusWrite(copy), ok)
    BY <1>8 DEF MarkDegraded
  <2> HIDE DEF copy
  <2>3. QED
    BY <1>2, <2>1, <2>2
<1>9. CASE NotDue
  <2> DEFINE copy == NextShown(NextScheduled(cache.spec.schedule, cache.status.last))
  <2>1. copy \in Policy
    BY StatusTypes DEF Known
  <2>2. copy.status.last = cache.status.last
    BY <1>0 DEF NextShown, Policy, Status
  <2>3. \E ok \in BOOLEAN : Call(cache, StatusWrite(copy), ok)
    BY <1>9 DEF NotDue
  <2> HIDE DEF copy
  <2>4. QED
    BY <1>2, <2>1, <2>2, <2>3
<1>10. CASE StartRotation
  <2>1. Marked \in Policy /\ Marked.rv = cache.rv /\ Marked.status.last = cache.status.last
    BY <1>0, CopyTypes DEF Marked, Policy, Status
  <2>2. \E ok \in BOOLEAN : Call(Marked, StatusWrite(Marked), ok)
    BY <1>10 DEF StartRotation, Store
  <2>3. QED
    BY <1>2, <2>1, <2>2
<1>11. QED
  BY <1>1, <1>4, <1>5, <1>6, <1>7, <1>8, <1>9, <1>10 DEF Reconcile, GetNotFound

-----------------------------------------------------------------------------
(* The invariant is inductive. *)

LEMMA AccountInit == Init => Account
<1> SUFFICES ASSUME Init PROVE Account
  OBVIOUS
<1>1. pc = "idle" /\ asked = 0 /\ Len(log) = 0 /\ now = 1
  BY DEF Init
<1>2. api.deleting = FALSE /\ api.status = NewStatus
  BY DEF Init, StoreInit
<1>3. NewStatus.last = Nil
  BY DEF NewStatus
<1>4. QED
  BY <1>1, <1>2, <1>3 DEF Account, Alive, Progress, Asking, KnowsLast, Timely, Attempt, BeforeWrite,
     AfterWrite, Nil

LEMMA KnownInit == Init => Known
BY TypeInit, CoherentInit, HoldingInit DEF Init, Known, Faithful

LEMMA KnownStep == Known /\ [Next]_vars => Known'
<1> SUFFICES ASSUME Known, [Next]_vars PROVE Known'
  OBVIOUS
<1>1. TypeOK' /\ StoreCoherent'
  BY TypeStep, StoreSteps, CoherentStep DEF Known, TypeOK
<1>2. QED
  BY <1>1, HoldingStep, FaithfulStep DEF Known

LEMMA AliveStep == Known /\ Alive /\ [Next]_vars => Alive'
<1> SUFFICES ASSUME Known, Alive, [Next]_vars PROVE Alive'
  OBVIOUS
<1>1. ASSUME NEW new \in Policy, Change(new), api' = Settled(new) PROVE Alive'
  BY <1>1 DEF Settled, Policy, Alive
<1>2. api' = api \/ \E new \in Policy : Change(new) /\ api' = Settled(new)
  BY StoreSteps, VersionsStep DEF Known, TypeOK, storeVars
<1>3. QED
  BY <1>1, <1>2 DEF Alive

\* A note about the attempt under way changes nothing else about it.
LEMMA NotedFields ==
  ASSUME RecordsTypeOK, log # <<>>, NEW value
  PROVE  /\ Len(Noted("failed", value)) = Attempt
         /\ Noted("failed", value)[Attempt].wrote = log[Attempt].wrote
         /\ Noted("failed", value)[Attempt].manual = log[Attempt].manual
         /\ Len(Noted("wrote", value)) = Attempt
         /\ Noted("wrote", value)[Attempt].wrote = value
         /\ Noted("wrote", value)[Attempt].manual = log[Attempt].manual
         /\ Len(Noted("told", value)) = Attempt
<1>1. log \in Seq(Entry) /\ Attempt \in 1..Len(log) /\ log[Attempt] \in Entry
  BY DEF RecordsTypeOK, Attempt
<1>2. ASSUME NEW e
      PROVE  /\ [log EXCEPT ![Attempt] = e][Attempt] = e
             /\ Len([log EXCEPT ![Attempt] = e]) = Attempt
  BY <1>1 DEF Attempt
<1>3. /\ [log[Attempt] EXCEPT !["failed"] = value].wrote = log[Attempt].wrote
      /\ [log[Attempt] EXCEPT !["failed"] = value].manual = log[Attempt].manual
      /\ [log[Attempt] EXCEPT !["wrote"] = value].wrote = value
      /\ [log[Attempt] EXCEPT !["wrote"] = value].manual = log[Attempt].manual
  BY <1>1 DEF Entry
<1>4. QED
  BY <1>2, <1>3 DEF Noted

\* The steps of a rotation, seen from the account: how the place in the code, the
\* notes about the attempt and the parameter of executeRotation go together.
LEMMA ProgressStep == Known /\ Progress /\ [Next]_vars => Progress'
<1> SUFFICES ASSUME Known, Progress, [Next]_vars PROVE Progress'
  OBVIOUS
<1>0. /\ RecordsTypeOK /\ WorkerTypeOK /\ now \in Nat
      /\ (pc # "idle" => log # <<>>) /\ cache.rotateNow \in BOOLEAN
  BY DEF Known, TypeOK, WorkerTypeOK, Time, StoreTypeOK, Policy
<1> USE DEF Progress, BeforeWrite, AfterWrite
<1>1. CASE pc' = "idle"
  BY <1>1
<1>2. CASE StartRotation
  <2>1. Len(log') = Len(log) + 1 /\ log'[Len(log) + 1] = NewEntry(cache.rotateNow)
    BY <1>0, <1>2 DEF StartRotation, RecordsTypeOK
  <2>2. pc' = "create" /\ job'.manual = cache.rotateNow
    BY <1>2 DEF StartRotation
  <2>3. /\ NewEntry(cache.rotateNow).wrote = Nil
        /\ NewEntry(cache.rotateNow).manual = cache.rotateNow
    BY DEF NewEntry
  <2>4. log'[Attempt'] = NewEntry(cache.rotateNow)
    BY <2>1 DEF Attempt
  <2>5. QED
    BY <2>2, <2>3, <2>4
<1>3. CASE UNCHANGED <<pc, job, log>>
  BY <1>3 DEF Attempt
<1>4. CASE CreateRecord
  <2>1. pc = "create" /\ pc' = "call" /\ log' = log /\ job'.manual = job.manual
    BY <1>0, <1>4 DEF CreateRecord, WorkerTypeOK, Job
  <2>2. QED
    BY <2>1 DEF Attempt
<1>5. CASE CallProvider
  <2>1. /\ pc = "call" /\ pc' \in {"write", "abort", "providerFailed"} /\ job' = job
        /\ log' = log \/ log' = Noted("failed", now)
    BY <1>5 DEF CallProvider
  <2>2. QED
    BY <1>0, <2>1, NotedFields DEF Attempt
<1>6. CASE RecordProviderFailure
  BY <1>6 DEF RecordProviderFailure, Attempt
<1>7. CASE WriteSecret
  <2>1. /\ pc = "write" /\ job' = job
        /\ \/ log' = log /\ pc' = "abort"
           \/ log' = Noted("wrote", now) /\ pc' \in {"clear", "restart", "abort"}
        /\ pc' = "clear" => job.manual
    BY <1>7 DEF WriteSecret, SecretError
  <2>2. now # Nil
    BY <1>0 DEF Nil
  <2>3. QED
    BY <1>0, <2>1, <2>2, NotedFields DEF Attempt
<1>8. CASE ClearAnnotation
  BY <1>8 DEF ClearAnnotation, Attempt
<1>9. CASE RestartWorkload
  <2>1. pc = "restart" /\ pc' = pc /\ log' = log /\ job'.manual = job.manual
    BY <1>0, <1>9 DEF RestartWorkload, ListedIf, WorkerTypeOK, Job
  <2>2. QED
    BY <2>1 DEF Attempt
<1>10. CASE FinalizeSucceeded
  BY <1>10 DEF FinalizeSucceeded, Attempt
<1>11. CASE StatusReady /\ pc' # "idle"
  BY <1>11 DEF StatusReady, StatusError, ReturnError, GoIdle, Attempt
<1>12. CASE FailStatus \/ Abort \/ Prune \/ Crash
  BY <1>1, <1>12 DEF FailStatus, Abort, Prune, Crash, Return, ReturnError, GoIdle
<1>13. CASE Reconcile /\ ~StartRotation
  BY <1>3, <1>13 DEF Reconcile, GetNotFound, HandleDeletion, EnsureFinalizer, SetSuspended,
     SetProviderUnhealthy, MarkDegraded, NotDue, Elsewhere, localVars
<1>14. CASE Informers \/ Collector \/ User \/ Tick \/ UNCHANGED vars
  BY <1>3, <1>14 DEF Informers, Deliver, RecordSync, SecretSync, Collector, CollectRecords,
     ReleaseHold, User, Edit, Request, Delete, UserAction, Tick, vars, localVars
<1>15. QED
  BY <1>1, <1>2, <1>4, <1>5, <1>6, <1>7, <1>8, <1>9, <1>10, <1>11, <1>12, <1>13, <1>14
     DEF Next, ExecuteRotation

\* What a write tells its caller is so: after a success the copy was current and
\* the object is as written.
LEMMA TruthOfSuccess ==
  ASSUME NEW o, NEW new, Call(o, new, TRUE)
  PROVE  Current(o) /\ (api' = new \/ api' = Settled(new))
BY DEF Call, Publish

\* Within a rotation the copy keeps its number and what it knows, or becomes the
\* object that its own write left; and no request comes but from the user.
LEMMA CopyEffect ==
  ASSUME Known, [Next]_vars, pc # "idle", pc' # "idle"
  PROVE  /\ Attempt' = Attempt
         /\ asked' = asked \/ Request
         /\ \/ obj'.rv = obj.rv /\ obj'.status.last = obj.status.last
            \/ obj' = api' /\ obj.rv = api.rv /\ (api'.rotateNow => api.rotateNow)
<1>0. StoreTypeOK /\ obj \in Policy /\ RecordsTypeOK /\ log # <<>> /\ now \in Time
  BY DEF Known, TypeOK, WorkerTypeOK
<1>1. CASE CallProvider \/ WriteSecret
  <2>1. log' = log \/ log' = Noted("failed", now) \/ log' = Noted("wrote", now)
    BY <1>1 DEF CallProvider, WriteSecret
  <2>2. Attempt' = Attempt
    BY <1>0, <2>1, NotedFields DEF Attempt
  <2>3. QED
    BY <1>1, <2>2 DEF CallProvider, WriteSecret
<1>2. CASE CreateRecord \/ RecordProviderFailure \/ RestartWorkload \/ FinalizeSucceeded
  BY <1>2 DEF CreateRecord, RecordProviderFailure, RestartWorkload, FinalizeSucceeded, Attempt
<1>3. CASE ClearAnnotation
  <2> DEFINE o == [obj EXCEPT !.rotateNow = FALSE]
  <2>1. o \in Policy /\ o.rv = obj.rv /\ o.status = obj.status /\ o.rotateNow = FALSE
    BY <1>0, CopyTypes DEF Policy
  <2>2. PICK ok \in BOOLEAN : Call(o, MainWrite(o), ok) /\ obj' = IF ok THEN api' ELSE o
    BY <1>3 DEF ClearAnnotation, Store
  <2>3. asked' = asked /\ Attempt' = Attempt
    BY <1>3 DEF ClearAnnotation, Attempt
  <2> HIDE DEF o
  <2>4. CASE ok
    BY <1>0, <2>1, <2>2, <2>3, <2>4, MainEffect, TruthOfSuccess DEF Current
  <2>5. QED
    BY <2>1, <2>2, <2>3, <2>4
<1>4. CASE StatusReady
  <2> DEFINE o == [obj EXCEPT !.status = Done]
  <2>1. o \in Policy /\ o.rv = obj.rv
    BY <1>0, <1>4, StatusTypes DEF StatusReady, Policy, Known
  <2>2. Call(o, StatusWrite(o), TRUE) /\ obj' = api' /\ asked' = asked /\ Attempt' = Attempt
    BY <1>4 DEF StatusReady, StatusError, ReturnError, GoIdle, Store, Attempt
  <2> HIDE DEF o
  <2>3. QED
    BY <1>0, <2>1, <2>2, StatusEffect, TruthOfSuccess DEF Current
<1>5. CASE Reconcile \/ FailStatus \/ Abort \/ Prune \/ Crash
  BY <1>5 DEF Reconcile, TakeKey, GetNotFound, HandleDeletion, EnsureFinalizer, SetSuspended,
     SetProviderUnhealthy, MarkDegraded, NotDue, StartRotation, FailStatus, Abort, Prune, Crash,
     Return, ReturnError, GoIdle
<1>6. CASE Informers \/ Collector \/ User \/ Tick \/ UNCHANGED vars
  BY <1>6 DEF Informers, Deliver, RecordSync, SecretSync, Collector, CollectRecords,
     ReleaseHold, User, Edit, Request, Delete, UserAction, Tick, vars, localVars, Attempt
<1>7. QED
  BY <1>1, <1>2, <1>3, <1>4, <1>5, <1>6 DEF Next, ExecuteRotation

\* What starting a rotation does: the copy is the cached one, the attempt is new.
LEMMA StartEffect ==
  ASSUME Known, Alive, StartRotation
  PROVE  /\ Attempt' = Attempt + 1 /\ asked' = asked /\ now' = now /\ secret' = secret
         /\ pc = "idle" /\ pc' = "create"
         /\ Still
         /\ api.exists
         /\ obj' = api' \/ (obj'.rv = cache.rv /\ obj'.status.last = cache.status.last)
<1>0. StoreTypeOK /\ cache \in Policy /\ RecordsTypeOK
  BY DEF Known, TypeOK, StoreTypeOK
<1>1. Attempt' = Attempt + 1
  BY <1>0 DEF StartRotation, RecordsTypeOK, Attempt
<1>2. Marked \in Policy /\ Marked.rv = cache.rv /\ Marked.status.last = cache.status.last
  BY <1>0, CopyTypes DEF Marked, Policy, Status
<1>3. obj' = api' \/ obj' = Marked
  BY DEF StartRotation, Store
<1>4. api.exists
  <2>1. IsLive(Versions[0])
    BY DEF StartRotation, Rotatable, Live, IsLive, Versions, Version, VersionNumbers, Known,
       TypeOK, StoreTypeOK
  <2>2. QED
    BY <1>0, <2>1 DEF Known, Holding, Held, StoreTypeOK
<1>5. Still
  BY QuietStill DEF Reconcile
<1>6. QED
  BY <1>1, <1>2, <1>3, <1>4, <1>5 DEF StartRotation, TakeKey, secretVars

\* The end of a rotation whose provider failed leaves the account alone.
LEMMA FailStill ==
  ASSUME Known, Account, FailStatus
  PROVE  Still
<1> DEFINE phase == IF obj.spec.failurePolicy = "Ignore" THEN "Ready" ELSE "Failed"
           o == [obj EXCEPT !.status.phase = phase, !.status.ready = "False"]
<1>1. StoreTypeOK /\ obj \in Policy /\ pc # "idle"
  BY DEF FailStatus, Known, TypeOK, WorkerTypeOK
<1>2. o \in Policy
  BY <1>1, CopyTypes DEF Phases
<1>3. o.rv = obj.rv /\ o.status.last = obj.status.last
  BY <1>1 DEF Policy, Status
<1>4. PICK ok \in BOOLEAN : Call(o, StatusWrite(o), ok)
  BY DEF FailStatus
<1> HIDE DEF o
<1>5. QED
  BY <1>1, <1>2, <1>3, <1>4, StatusEffect DEF Still, Account, Alive, KnowsLast, Current

\* The end of a rotation that wrote the Secret: the time is recorded, or nothing
\* is and the rotation is over.
LEMMA RecordEffect ==
  ASSUME Known, Account, StatusReady
  PROVE  /\ api'.rotateNow = api.rotateNow
         /\ api'.status.last = now \/ (api' = api /\ pc' = "idle")
         /\ pc' \in {"idle", "prune"}
<1> DEFINE o == [obj EXCEPT !.status = Done]
<1>1. StoreTypeOK /\ obj \in Policy /\ api \in Policy
  BY DEF StatusReady, Known, TypeOK, WorkerTypeOK, StoreTypeOK
<1>2. o \in Policy
  BY StatusTypes DEF StatusReady, Known
<1>3. o.status.last = now
  BY <1>1 DEF Policy, Status, Done
<1>4. \/ Call(o, StatusWrite(o), TRUE) /\ pc' = "prune"
      \/ Call(o, StatusWrite(o), FALSE) /\ pc' = "idle"
  BY DEF StatusReady, Store, StatusError, ReturnError, GoIdle
<1> HIDE DEF o
<1>5. StatusWrite(o).status = o.status /\ Settled(StatusWrite(o)).status = o.status
  BY <1>1, <1>2 DEF StatusWrite, Settled, Policy
<1>6. api'.rotateNow = api.rotateNow /\ (api' = api \/ api'.status = o.status)
  BY <1>1, <1>2, <1>4, StatusEffect
<1>7. QED
  BY <1>3, <1>4, <1>5, <1>6, TruthOfSuccess

\* A patch of the user or the collector sets the request or leaves the account,
\* and never brings the policy back.
LEMMA PatchEffect ==
  ASSUME Known, Account, User \/ ReleaseHold
  PROVE  /\ api'.status.last = api.status.last
         /\ api'.exists => api.exists
         /\ Request => api.exists /\ ~api.rotateNow /\ api'.rotateNow /\ api'.exists
         /\ Request => api'.rv # api.rv
         /\ ~Request => api'.rotateNow = api.rotateNow /\ asked' = asked
<1>0. api \in Policy
  BY DEF Known, TypeOK, StoreTypeOK
<1>1. CASE Request
  <2>1. /\ api.exists /\ ~api.rotateNow
        /\ Publish([api EXCEPT !.rotateNow = TRUE])
    BY <1>1 DEF Request, UserAction, SetRotateNow
  <2>2. [api EXCEPT !.rotateNow = TRUE] # api
    BY <1>0, <2>1 DEF Policy
  <2>3. api' = Settled([api EXCEPT !.rotateNow = TRUE])
    BY <2>1, <2>2 DEF Publish
  <2>4. QED
    BY <1>0, <1>1, <2>1, <2>3 DEF Settled, Policy, Account, Alive
<1>2. CASE Edit
  <2>1. PICK spec \in Specs : api.exists /\ Publish([api EXCEPT !.spec = spec])
    BY <1>2 DEF Edit, UserAction, EditSpec
  <2>2. api' = api \/ api' = Settled([api EXCEPT !.spec = spec])
    BY <2>1 DEF Publish
  <2>3. asked' = asked
    BY <1>2 DEF Edit
  <2>4. QED
    BY <1>0, <1>1, <2>1, <2>2, <2>3 DEF Settled, Policy
<1>3. CASE Delete
  <2>1. PICK holds \in {{}, {Hold}} :
          api.exists /\ Publish([api EXCEPT !.deleting = TRUE, !.finalizers = @ \cup holds])
    BY <1>3 DEF Delete, UserAction, MarkDeleted
  <2>2. api' = api \/ api' = Settled([api EXCEPT !.deleting = TRUE, !.finalizers = @ \cup holds])
    BY <2>1 DEF Publish
  <2>3. asked' = asked
    BY <1>3 DEF Delete
  <2>4. QED
    BY <1>0, <1>1, <2>1, <2>2, <2>3 DEF Settled, Policy
<1>4. CASE ReleaseHold
  <2>1. api.exists /\ (api' = api \/ api' = Settled([api EXCEPT !.finalizers = @ \ {Hold}]))
    BY <1>4 DEF ReleaseHold, DropHold, Publish
  <2>2. asked' = asked
    BY <1>4 DEF ReleaseHold
  <2>3. QED
    BY <1>0, <1>1, <2>1, <2>2 DEF Settled, Policy
<1>5. QED
  BY <1>1, <1>2, <1>3, <1>4 DEF User

\* The time recorded changes where the rotation records it, and nowhere else.
LEMMA LastStep ==
  ASSUME Known, Account, [Next]_vars
  PROVE  /\ api'.status.last = api.status.last \/ (StatusReady /\ api'.status.last = now)
         /\ now' = now \/ (Tick /\ now' = now + 1)
<1>1. CASE Reconcile
  <2>1. now' = now
    BY <1>1 DEF Reconcile, GetNotFound, HandleDeletion, EnsureFinalizer, SetSuspended,
       SetProviderUnhealthy, MarkDegraded, NotDue, StartRotation, Elsewhere
  <2>2. QED
    BY <1>1, <2>1, QuietStill DEF Still, Account
<1>2. CASE CreateRecord \/ CallProvider \/ RecordProviderFailure \/ Abort \/ WriteSecret
             \/ RestartWorkload \/ FinalizeSucceeded \/ Prune
  BY <1>2 DEF CreateRecord, CallProvider, RecordProviderFailure, Abort, WriteSecret,
     RestartWorkload, FinalizeSucceeded, Prune, storeVars, Running
<1>3. CASE FailStatus
  BY <1>3, FailStill DEF FailStatus, Still
<1>4. CASE ClearAnnotation
  <2> DEFINE o == [obj EXCEPT !.rotateNow = FALSE]
  <2>1. StoreTypeOK /\ o \in Policy
    BY <1>4, CopyTypes DEF ClearAnnotation, Known, TypeOK, WorkerTypeOK
  <2>2. PICK ok \in BOOLEAN : Call(o, MainWrite(o), ok)
    BY <1>4 DEF ClearAnnotation, Store
  <2> HIDE DEF o
  <2>3. api'.status = api.status
    BY <2>1, <2>2, MainEffect
  <2>4. QED
    BY <1>4, <2>3 DEF ClearAnnotation, Running
<1>5. CASE StatusReady
  BY <1>5, RecordEffect DEF StatusReady
<1>6. CASE User \/ ReleaseHold
  BY <1>6, PatchEffect DEF User, Edit, Request, Delete, UserAction, ReleaseHold
<1>7. CASE Informers \/ CollectRecords \/ Crash \/ Tick \/ UNCHANGED vars
  BY <1>7 DEF Informers, Deliver, DeliverNext, RecordSync, SecretSync, CollectRecords,
     Crash, Relist, Tick, storeVars, vars
<1>8. QED
  BY <1>1, <1>2, <1>3, <1>4, <1>5, <1>6, <1>7 DEF Next, ExecuteRotation, Collector

\* What a copy with the number of the object knows stays true of the object.
LEMMA CopyStays == Known /\ Account /\ [Next]_vars => Asking' /\ KnowsLast'
<1> SUFFICES ASSUME Known, Account, [Next]_vars PROVE Asking' /\ KnowsLast'
  OBVIOUS
<1>0. /\ Attempt \in Nat /\ asked \in Nat /\ StoreTypeOK
      /\ (pc # "idle" => obj \in Policy /\ obj.rv \in Nat)
      /\ cache \in Policy /\ cache.rv \in Nat
  BY DEF Known, TypeOK, WorkerTypeOK, RecordsTypeOK, Attempt, StoreTypeOK, Policy
<1>1. /\ api'.rv \in Nat /\ api.rv \in Nat /\ api.rv <= api'.rv
      /\ api'.rv = api.rv => api' = api
  BY <1>0, StoreSteps, NumberStep DEF Known
<1>2. asked' <= Attempt'
  <2>1. CASE Request
    BY <1>0, <2>1 DEF Request, UserAction, Attempt
  <2>2. CASE ~Request /\ pc # "idle" /\ pc' # "idle"
    BY <1>0, <2>2, CopyEffect DEF Account, Asking
  <2>3. CASE StartRotation
    BY <1>0, <2>3, StartEffect DEF Account, Asking
  <2>4. CASE Reconcile /\ ~StartRotation
    BY <2>4 DEF Reconcile, GetNotFound, HandleDeletion, EnsureFinalizer, SetSuspended,
       SetProviderUnhealthy, MarkDegraded, NotDue, Elsewhere, Account, Asking, Attempt
  <2>5. CASE FailStatus \/ Prune
    <3>1. \E value : log' = Noted("told", value)
      BY <2>5 DEF FailStatus, Prune
    <3>2. Attempt' = Attempt
      BY <2>5, <3>1, NotedFields DEF FailStatus, Prune, Known, TypeOK, WorkerTypeOK, Attempt
    <3>3. QED
      BY <2>5, <3>2 DEF FailStatus, Prune, Account, Asking
  <2>6. CASE Abort \/ StatusReady \/ Crash
    BY <2>6 DEF Abort, StatusReady, Crash, Account, Asking, Attempt
  <2>7. CASE Informers \/ Collector \/ Edit \/ Delete \/ Tick \/ UNCHANGED vars
    BY <2>7 DEF Informers, Deliver, RecordSync, SecretSync, Collector, CollectRecords,
       ReleaseHold, Edit, Delete, UserAction, Tick, vars, Account, Asking, Attempt
  <2>8. CASE ExecuteRotation /\ pc' = "idle"
    <3>1. FailStatus \/ Abort \/ StatusReady \/ Prune
      BY <2>8 DEF ExecuteRotation, CreateRecord, CallProvider, RecordProviderFailure,
         WriteSecret, SecretError, ClearAnnotation, RestartWorkload, FinalizeSucceeded
    <3>2. QED
      BY <3>1, <2>5, <2>6
  <2>9. ExecuteRotation => pc # "idle"
    BY DEF ExecuteRotation, CreateRecord, CallProvider, RecordProviderFailure, FailStatus,
       Abort, WriteSecret, ClearAnnotation, RestartWorkload, FinalizeSucceeded, StatusReady,
       Prune
  <2>10. QED
    BY <2>1, <2>2, <2>3, <2>4, <2>6, <2>7, <2>8, <2>9 DEF Next, User
<1>3. CASE pc' = "idle"
  BY <1>2, <1>3 DEF Asking, KnowsLast
<1>4. CASE pc = "idle" /\ pc' # "idle"
  <2>1. StartRotation
    BY <1>4, CopyStep DEF Known
  <2>2. /\ Attempt' = Attempt + 1 /\ asked' = asked /\ Still
        /\ obj' = api' \/ (obj'.rv = cache.rv /\ obj'.status.last = cache.status.last)
    BY <2>1, StartEffect DEF Account
  <2>3. cache.rv <= api.rv /\ (cache.rv = api.rv => cache = api)
    BY CacheFaithful DEF Known, TypeOK
  <2>4. asked' < Attempt'
    BY <1>0, <2>2 DEF Account, Asking
  <2>5. QED
    BY <1>0, <1>1, <1>2, <2>2, <2>3, <2>4 DEF Asking, KnowsLast, Still
<1>5. CASE pc # "idle" /\ pc' # "idle"
  <2>1. /\ Attempt' = Attempt
        /\ asked' = asked \/ Request
        /\ \/ obj'.rv = obj.rv /\ obj'.status.last = obj.status.last
           \/ obj' = api' /\ obj.rv = api.rv /\ (api'.rotateNow => api.rotateNow)
    BY <1>5, CopyEffect
  <2>2. obj.rv <= api.rv
    BY <1>5 DEF Known, Faithful
  <2>3. Request => obj' = obj /\ api'.rv # api.rv
    BY PatchEffect DEF User, Request, UserAction, localVars
  <2>4. QED
    BY <1>0, <1>1, <1>2, <1>5, <2>1, <2>2, <2>3 DEF Asking, KnowsLast, Account
<1>6. QED
  BY <1>3, <1>4, <1>5

LEMMA AccountStep == Known /\ Account /\ [Next]_vars => Account'
<1> SUFFICES ASSUME Known, Account, [Next]_vars PROVE Account'
  OBVIOUS
<1>1. now \in Nat /\ (api.status.last \in Int)
  BY DEF Known, TypeOK, WorkerTypeOK, Time, StoreTypeOK, Policy, Status, MaybeTime, Nil
<1>2. StatusReady => now' = now
  BY DEF StatusReady
<1>3. Timely'
  BY <1>1, <1>2, LastStep DEF Account, Timely
<1>4. QED
  BY <1>3, AliveStep, ProgressStep, CopyStays DEF Account

LEMMA AccountKept == Spec => [](Known /\ Account)
<1>1. Known /\ Account /\ [Next]_vars => (Known /\ Account)'
  BY KnownStep, AccountStep
<1>2. QED
  BY <1>1, KnownInit, AccountInit, PTL DEF Spec
=============================================================================
