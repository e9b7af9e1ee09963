---------------------------- MODULE LedgerProofs ----------------------------
(***************************************************************************)
(* What follows from the account of a rotation, for every spec, bound and  *)
(* budget of faults.  The controller implements RotationLedger; what the   *)
(* records, the status and the notifications say of an attempt is true of  *)
(* it; the policy's key always comes back to the work queue; and when      *)
(* nothing disturbs the controller no slot is served twice.                *)
(***************************************************************************)
EXTENDS ReconcilerProofs

-----------------------------------------------------------------------------
(* Every step is a step of the ledger, or none. *)

\* A policy whose rotation is under way is there, and stays.
LEMMA StaysInRotation ==
  ASSUME Known, [Next]_vars
  PROVE  /\ pc # "idle" => api.exists /\ api'.exists
         /\ pc' # "idle" => api'.exists
<1>1. pc' # "idle" => api'.exists
  BY KnownStep DEF Known, Holding, Held
<1>2. pc # "idle" => Held /\ Held'
  BY StoreSteps, HeldStep DEF Known, Holding
<1>3. QED
  BY <1>1, <1>2 DEF Held

\* A step that leaves the account alone may at most let the policy go.
LEMMA StillMaps ==
  ASSUME Known, [Next]_vars, UNCHANGED <<now, secret>>, Attempt' = Attempt, Stage' = Stage,
         api'.status.last = api.status.last, RequestState' = RequestState,
         api'.exists => api.exists
  PROVE  Ledger!Go \/ UNCHANGED Ledger!vars
<1>1. api.exists \in BOOLEAN /\ api'.exists \in BOOLEAN
  BY TypeStep DEF Known, TypeOK, StoreTypeOK, Policy
<1>2. CASE api'.exists = api.exists
  BY <1>2 DEF Ledger!vars
<1>3. CASE api.exists /\ ~api'.exists
  <2>1. Stage = "none" /\ api'.exists = FALSE
    BY <1>1, <1>3, StaysInRotation DEF Stage
  <2>2. QED
    BY <1>3, <2>1 DEF Ledger!Go
<1>4. QED
  BY <1>1, <1>2, <1>3

\* The stage of an attempt that has not ended, in the same place or a later one.
LEMMA StageKept ==
  ASSUME pc # "idle", pc' # "idle", Attempt' = Attempt,
         log'[Attempt].wrote = log[Attempt].wrote
  PROVE  Stage' = Stage
BY DEF Stage

LEMMA QuietMaps ==
  ASSUME Known, Account, Reconcile, ~StartRotation
  PROVE  Ledger!Go \/ UNCHANGED Ledger!vars
<1>1. UNCHANGED <<now, secret, log, pc, asked>>
  BY DEF Reconcile, GetNotFound, HandleDeletion, EnsureFinalizer, SetSuspended,
     SetProviderUnhealthy, MarkDegraded, NotDue, Elsewhere, localVars, secretVars
<1>2. Attempt' = Attempt /\ Stage' = Stage
  BY <1>1 DEF Attempt, Stage
<1>3. Still
  BY QuietStill DEF Account
<1>4. RequestState' = RequestState
  BY <1>1, <1>2, <1>3 DEF RequestState, Still
<1>5. QED
  BY <1>1, <1>2, <1>3, <1>4, StillMaps DEF Next, Still

LEMMA StartMaps ==
  ASSUME Known, Account, StartRotation
  PROVE  Ledger!Begin
<1>0. Attempt \in Nat /\ asked \in Nat /\ now \in Nat /\ RecordsTypeOK
  BY DEF Known, TypeOK, WorkerTypeOK, RecordsTypeOK, Attempt, Time
<1>1. /\ Attempt' = Attempt + 1 /\ asked' = asked /\ now' = now /\ secret' = secret
      /\ pc = "idle" /\ pc' = "create" /\ Still /\ api.exists
  BY StartEffect DEF Account
<1>2. api'.exists
  BY <1>1, StaysInRotation DEF Next, Reconcile
<1>3. api.exists = TRUE /\ api'.exists = TRUE
  BY <1>1, <1>2, TypeStep DEF Known, TypeOK, StoreTypeOK, Policy, Next, Reconcile
<1>4. Stage = "none" /\ Stage' = "begun"
  <2>1. log'[Attempt'].wrote = Nil
    BY <1>1, ProgressStep DEF Account, Progress, BeforeWrite, Next, Reconcile
  <2>2. QED
    BY <1>1, <2>1 DEF Stage
<1>5. RequestState' = IF RequestState = "new" THEN "seen" ELSE RequestState
  <2>1. asked' < Attempt' /\ api'.rotateNow = api.rotateNow
    BY <1>0, <1>1 DEF Account, Asking, Still
  <2>2. QED
    BY <2>1 DEF RequestState
<1>6. QED
  BY <1>1, <1>3, <1>4, <1>5 DEF Ledger!Begin, Still

\* The calls of a rotation that neither write the Secret nor end the attempt.
LEMMA MiddleMaps ==
  ASSUME Known, Account,
         CreateRecord \/ CallProvider \/ RecordProviderFailure \/ RestartWorkload
           \/ FinalizeSucceeded
  PROVE  UNCHANGED Ledger!vars
<1>0. RecordsTypeOK /\ (pc # "idle" => log # <<>>)
  BY DEF Known, TypeOK, WorkerTypeOK
<1>1. /\ UNCHANGED <<api, now, secret, asked>>
      /\ pc # "idle" /\ pc' # "idle"
      /\ log' = log \/ log' = Noted("failed", now)
  BY DEF CreateRecord, CallProvider, RecordProviderFailure, RestartWorkload,
     FinalizeSucceeded, storeVars, Running, secretVars
<1>2. Attempt' = Attempt /\ log'[Attempt].wrote = log[Attempt].wrote
  BY <1>0, <1>1, NotedFields DEF Attempt
<1>3. Stage' = Stage
  BY <1>1, <1>2, StageKept
<1>4. RequestState' = RequestState
  BY <1>1, <1>2 DEF RequestState
<1>5. QED
  BY <1>1, <1>2, <1>3, <1>4 DEF Ledger!vars

LEMMA WriteMaps ==
  ASSUME Known, Account, WriteSecret
  PROVE  Ledger!Write \/ UNCHANGED Ledger!vars
<1>0. /\ RecordsTypeOK /\ pc = "write" /\ pc' # "idle" /\ log # <<>> /\ now # Nil
      /\ log[Attempt].wrote = Nil
  BY DEF Known, TypeOK, WorkerTypeOK, WriteSecret, SecretError, Time, Nil, Account, Progress,
     BeforeWrite
<1>1. /\ UNCHANGED <<api, now, asked>>
      /\ \/ secret' = secret /\ log' = log
         \/ secret' = Attempt /\ log' = Noted("wrote", now)
  BY DEF WriteSecret, storeVars, Running, secretVars
<1>2. Attempt' = Attempt
  BY <1>0, <1>1, NotedFields DEF Attempt
<1>3. RequestState' = RequestState /\ Stage = "begun"
  BY <1>0, <1>1, <1>2 DEF RequestState, Stage
<1>4. CASE secret' = secret /\ log' = log
  <2>1. Stage' = Stage
    BY <1>0, <1>2, <1>4, StageKept
  <2>2. QED
    BY <1>1, <1>2, <1>3, <1>4, <2>1 DEF Ledger!vars
<1>5. CASE secret' = Attempt /\ log' = Noted("wrote", now)
  <2>1. Stage' = "written"
    BY <1>0, <1>2, <1>5, NotedFields DEF Stage
  <2>2. QED
    BY <1>1, <1>2, <1>3, <1>5, <2>1 DEF Ledger!Write
<1>6. QED
  BY <1>1, <1>4, <1>5

\* What clearing the annotation does to the object.
LEMMA ClearEffect ==
  ASSUME Known, ClearAnnotation
  PROVE  \/ api' = api
         \/ obj.rv = api.rv /\ api'.rotateNow = FALSE /\ api'.status = api.status
<1> DEFINE o == [obj EXCEPT !.rotateNow = FALSE]
<1>1. StoreTypeOK /\ obj \in Policy
  BY DEF ClearAnnotation, Known, TypeOK, WorkerTypeOK
<1>2. o \in Policy /\ o.rv = obj.rv /\ o.rotateNow = FALSE
  BY <1>1, CopyTypes DEF Policy
<1>3. PICK ok \in BOOLEAN : Call(o, MainWrite(o), ok)
  BY DEF ClearAnnotation, Store
<1> HIDE DEF o
<1>4. QED
  BY <1>1, <1>2, <1>3, MainEffect DEF Current

LEMMA ServeMaps ==
  ASSUME Known, Account, ClearAnnotation
  PROVE  Ledger!Serve \/ UNCHANGED Ledger!vars
<1>1. /\ pc = "clear" /\ pc' = "restart" /\ UNCHANGED <<now, secret, log, asked>>
      /\ log[Attempt].wrote # Nil
  BY DEF ClearAnnotation, Running, secretVars, Account, Progress, AfterWrite
<1>2. Attempt' = Attempt /\ Stage = "written" /\ Stage' = "written"
  BY <1>1 DEF Attempt, Stage
<1>3. api.exists = TRUE /\ api'.exists = TRUE
  <2>1. api.exists /\ api'.exists
    BY <1>1, StaysInRotation DEF Next, ExecuteRotation
  <2>2. QED
    BY <2>1, TypeStep DEF Known, TypeOK, StoreTypeOK, Policy, Next, ExecuteRotation
<1>4. CASE api' = api
  <2>1. RequestState' = RequestState
    BY <1>1, <1>2, <1>4 DEF RequestState
  <2>2. QED
    BY <1>1, <1>2, <1>4, <2>1 DEF Ledger!vars
<1>5. CASE obj.rv = api.rv /\ api'.rotateNow = FALSE /\ api'.status = api.status
  <2>1. RequestState' = "none"
    BY <1>5 DEF RequestState
  <2>2. RequestState \in {"none", "seen"}
    BY <1>1, <1>5 DEF RequestState, Account, Asking
  <2>3. QED
    BY <1>1, <1>2, <1>3, <1>5, <2>1, <2>2 DEF Ledger!vars, Ledger!Serve
<1>6. QED
  BY <1>4, <1>5, ClearEffect

LEMMA EndMaps ==
  ASSUME Known, Account, FailStatus \/ Abort \/ Prune
  PROVE  Ledger!End
<1>0. /\ RecordsTypeOK /\ pc # "idle" /\ pc' = "idle" /\ log # <<>>
      /\ UNCHANGED <<now, secret, asked>>
      /\ log' = log \/ \E value : log' = Noted("told", value)
  BY DEF Known, TypeOK, WorkerTypeOK, FailStatus, Abort, Prune, Return, ReturnError, GoIdle,
     secretVars
<1>1. Attempt' = Attempt
  BY <1>0, NotedFields DEF Attempt
<1>2. Stage # "none" /\ Stage' = "none"
  BY <1>0 DEF Stage
<1>3. api'.status.last = api.status.last /\ api'.rotateNow = api.rotateNow
  BY FailStill DEF Still, Abort, Prune, storeVars
<1>4. api.exists = TRUE /\ api'.exists = TRUE
  <2>1. api.exists /\ api'.exists
    BY <1>0, StaysInRotation DEF Next, ExecuteRotation
  <2>2. QED
    BY <2>1, TypeStep DEF Known, TypeOK, StoreTypeOK, Policy, Next, ExecuteRotation
<1>5. RequestState' = RequestState
  BY <1>0, <1>1, <1>3 DEF RequestState
<1>6. QED
  BY <1>0, <1>1, <1>2, <1>3, <1>4, <1>5 DEF Ledger!End

LEMMA RecordMaps ==
  ASSUME Known, Account, StatusReady
  PROVE  Ledger!Record \/ Ledger!End
<1>1. /\ pc = "status" /\ UNCHANGED <<now, secret, log, asked>>
      /\ log[Attempt].wrote # Nil
  BY DEF StatusReady, secretVars, Account, Progress, AfterWrite
<1>2. /\ api'.rotateNow = api.rotateNow
      /\ api'.status.last = now \/ (api' = api /\ pc' = "idle")
      /\ pc' \in {"idle", "prune"}
  BY RecordEffect
<1>3. Attempt' = Attempt /\ RequestState' = RequestState
  BY <1>1, <1>2 DEF Attempt, RequestState
<1>4. Stage = "written" /\ Stage' = IF pc' = "idle" THEN "none" ELSE "written"
  BY <1>1, <1>3 DEF Stage
<1>5. api.exists = TRUE /\ api'.exists = TRUE
  <2>1. api.exists /\ api'.exists
    BY <1>1, StaysInRotation DEF Next, ExecuteRotation
  <2>2. QED
    BY <2>1, TypeStep DEF Known, TypeOK, StoreTypeOK, Policy, Next, ExecuteRotation
<1>6. CASE api'.status.last = now
  BY <1>1, <1>2, <1>3, <1>4, <1>5, <1>6 DEF Ledger!Record
<1>7. CASE api' = api /\ pc' = "idle"
  BY <1>1, <1>2, <1>3, <1>4, <1>5, <1>7 DEF Ledger!End
<1>8. QED
  BY <1>2, <1>6, <1>7

LEMMA PatchMaps ==
  ASSUME Known, Account, User \/ ReleaseHold
  PROVE  Ledger!Ask \/ Ledger!Go \/ UNCHANGED Ledger!vars
<1>1. UNCHANGED <<now, secret, log, pc>>
  BY DEF User, Edit, Request, Delete, UserAction, ReleaseHold, localVars, secretVars
<1>2. Attempt' = Attempt /\ Stage' = Stage
  BY <1>1 DEF Attempt, Stage
<1>3. CASE Request
  <2>1. asked' = Attempt /\ ~(asked' < Attempt)
    BY <1>3 DEF Request, Attempt, Known, TypeOK, RecordsTypeOK
  <2>2. RequestState = "none" /\ RequestState' = "new"
    BY <1>2, <1>3, <2>1, PatchEffect DEF RequestState
  <2>3. api.exists = TRUE /\ api'.exists = TRUE
    BY <1>3, PatchEffect, TypeStep DEF Known, TypeOK, StoreTypeOK, Policy, Next
  <2>4. QED
    BY <1>1, <1>2, <1>3, <2>2, <2>3, PatchEffect DEF Ledger!Ask
<1>4. CASE ~Request
  <2>1. RequestState' = RequestState
    BY <1>2, <1>4, PatchEffect DEF RequestState
  <2>2. QED
    BY <1>1, <1>2, <2>1, PatchEffect, StillMaps DEF Next, Collector
<1>5. QED
  BY <1>3, <1>4

LEMMA CrashMaps ==
  ASSUME Known, Account, Crash
  PROVE  Ledger!End \/ UNCHANGED Ledger!vars
<1>1. UNCHANGED <<api, now, secret, log, asked>> /\ pc' = "idle"
  BY DEF Crash, Relist, GoIdle
<1>2. Attempt' = Attempt /\ RequestState' = RequestState /\ Stage' = "none"
  BY <1>1 DEF Attempt, RequestState, Stage
<1>3. CASE Stage = "none"
  BY <1>1, <1>2, <1>3 DEF Ledger!vars
<1>4. CASE Stage # "none"
  BY <1>1, <1>2, <1>4 DEF Ledger!End
<1>5. QED
  BY <1>3, <1>4

LEMMA TickMaps ==
  ASSUME Tick
  PROVE  Ledger!Pass
<1>1. now' = now + 1 /\ UNCHANGED <<api, secret, log, asked, pc>>
  BY DEF Tick, storeVars, localVars, secretVars
<1>2. QED
  BY <1>1 DEF Ledger!Pass, Stage, RequestState, Attempt

LEMMA LedgerInit == Init => Ledger!Init
<1> SUFFICES ASSUME Init PROVE Ledger!Init
  OBVIOUS
<1>1. now = 1 /\ pc = "idle" /\ Attempt = 0 /\ secret = 0
  BY DEF Init, Attempt
<1>2. api.exists = TRUE /\ api.rotateNow = FALSE /\ api.status = NewStatus
  BY DEF Init, StoreInit
<1>3. NewStatus.last = Nil /\ Nil = Ledger!Never
  BY DEF NewStatus, Nil, Ledger!Never
<1>4. QED
  BY <1>1, <1>2, <1>3 DEF Ledger!Init, Stage, RequestState

LEMMA LedgerStep == Known /\ Account /\ [Next]_vars => [Ledger!Next]_(Ledger!vars)
<1> SUFFICES ASSUME Known, Account, [Next]_vars PROVE [Ledger!Next]_(Ledger!vars)
  OBVIOUS
<1> USE DEF Ledger!Next
<1>1. CASE Reconcile
  BY <1>1, QuietMaps, StartMaps
<1>2. CASE ExecuteRotation
  BY <1>2, MiddleMaps, WriteMaps, ServeMaps, EndMaps, RecordMaps DEF ExecuteRotation
<1>3. CASE User \/ ReleaseHold
  BY <1>3, PatchMaps
<1>4. CASE Crash
  BY <1>4, CrashMaps
<1>5. CASE Tick
  BY <1>5, TickMaps
<1>6. CASE Informers \/ CollectRecords \/ UNCHANGED vars
  <2>1. UNCHANGED <<api, now, secret, log, asked, pc>>
    BY <1>6 DEF Informers, Deliver, DeliverNext, RecordSync, SecretSync, CollectRecords,
       storeVars, localVars, secretVars, vars
  <2>2. QED
    BY <2>1 DEF Ledger!vars, Stage, RequestState, Attempt
<1>7. QED
  BY <1>1, <1>2, <1>3, <1>4, <1>5, <1>6 DEF Next, Collector

\* For every spec, bound and budget of faults and user actions: the controller
\* does nothing that the ledger does not allow.
THEOREM LedgerImplemented == Spec => LedgerKept
BY AccountKept, LedgerInit, LedgerStep, PTL DEF Spec, LedgerKept, Ledger!Spec

-----------------------------------------------------------------------------
(* What follows for the request and for the time recorded. *)

LEMMA RequestStep ==
  ASSUME Known, Account, [Next]_vars, api.rotateNow, ~api'.rotateNow
  PROVE  Attempt > asked /\ log[Attempt].manual /\ log[Attempt].wrote # Nil
<1>1. CASE Reconcile
  BY <1>1, QuietStill DEF Account, Still
<1>2. CASE CreateRecord \/ CallProvider \/ RecordProviderFailure \/ Abort \/ WriteSecret
             \/ RestartWorkload \/ FinalizeSucceeded \/ Prune
  BY <1>2 DEF CreateRecord, CallProvider, RecordProviderFailure, Abort, WriteSecret,
     RestartWorkload, FinalizeSucceeded, Prune, storeVars
<1>3. CASE FailStatus
  BY <1>3, FailStill DEF Still
<1>4. CASE ClearAnnotation
  <2>1. pc = "clear" /\ obj.rv = api.rv
    BY <1>4, ClearEffect DEF ClearAnnotation
  <2>2. asked < Attempt /\ log[Attempt].manual = job.manual /\ job.manual
        /\ log[Attempt].wrote # Nil
    BY <2>1 DEF Account, Asking, Progress, AfterWrite
  <2>3. asked \in Nat /\ Attempt \in Nat
    BY DEF Known, TypeOK, RecordsTypeOK, Attempt
  <2>4. QED
    BY <2>2, <2>3
<1>5. CASE StatusReady
  BY <1>5, RecordEffect
<1>6. CASE User \/ ReleaseHold
  BY <1>6, PatchEffect
<1>7. CASE Informers \/ CollectRecords \/ Crash \/ Tick \/ UNCHANGED vars
  BY <1>7 DEF Informers, Deliver, DeliverNext, RecordSync, SecretSync, CollectRecords,
     Crash, Relist, Tick, storeVars, vars
<1>8. QED
  BY <1>1, <1>2, <1>3, <1>4, <1>5, <1>6, <1>7 DEF Next, ExecuteRotation, Collector

\* A request by hand is never swallowed, however the rotation that began before
\* it ends and whatever copy it works from.
THEOREM RequestsAreHonoured == Spec => ManualRequestHonoured
<1>1. Known /\ Account /\ [Next]_vars =>
        [api.rotateNow /\ ~api'.rotateNow =>
           /\ Len(log) > asked
           /\ log[Len(log)].manual
           /\ log[Len(log)].wrote # Nil]_vars
  BY RequestStep DEF Attempt
<1>2. QED
  BY <1>1, AccountKept, PTL DEF Spec, ManualRequestHonoured

\* The time recorded never goes back: no status written from an old copy undoes
\* the record of a later rotation.
THEOREM TimeNeverGoesBack == Spec => LastRotationMonotone
<1>1. ASSUME Known, Account, [Next]_vars, api.status.last # Nil
      PROVE  api'.status.last >= api.status.last
  <2>1. now \in Nat /\ api.status.last \in Int
    BY <1>1 DEF Known, TypeOK, WorkerTypeOK, Time, StoreTypeOK, Policy, Status, MaybeTime, Nil
  <2>2. QED
    BY <1>1, <2>1, LastStep DEF Account, Timely
<1>2. Known /\ Account /\ [Next]_vars =>
        [api.status.last # Nil => api'.status.last >= api.status.last]_vars
  BY <1>1
<1>3. QED
  BY <1>2, AccountKept, PTL DEF Spec, LastRotationMonotone

-----------------------------------------------------------------------------
(* What the notes about the attempts say, and what never changes in them. *)

\* The notes only grow: an attempt that ended keeps its entry, and the time a
\* value was written is never taken back.
Grown ==
  /\ Attempt' \in {Attempt, Attempt + 1}
  /\ \A n \in Attempts :
       /\ log'[n] # log[n] => n = Attempt /\ pc # "idle" /\ Attempt' = Attempt
       /\ log[n].wrote # Nil => log'[n].wrote = log[n].wrote
       /\ log'[n].wrote # log[n].wrote => log'[n].wrote = now

\* One note about the attempt under way: the entries of the others stay, and so
\* does what the note is not about.
LEMMA NotedEntries ==
  ASSUME RecordsTypeOK, log # <<>>, NEW value
  PROVE  /\ \A n \in Attempts \ {Attempt} :
              /\ Noted("failed", value)[n] = log[n]
              /\ Noted("wrote", value)[n] = log[n]
              /\ Noted("told", value)[n] = log[n]
         /\ Noted("told", value)[Attempt].wrote = log[Attempt].wrote
         /\ Noted("told", value)[Attempt].failed = log[Attempt].failed
         /\ Noted("told", value)[Attempt].told = value
         /\ Noted("failed", value)[Attempt].told = log[Attempt].told
         /\ Noted("failed", value)[Attempt].failed = value
         /\ Noted("wrote", value)[Attempt].told = log[Attempt].told
<1>1. log \in Seq(Entry) /\ Attempt \in 1..Len(log) /\ log[Attempt] \in Entry
  BY DEF RecordsTypeOK, Attempt
<1>2. ASSUME NEW e
      PROVE  /\ [log EXCEPT ![Attempt] = e][Attempt] = e
             /\ \A n \in Attempts \ {Attempt} : [log EXCEPT ![Attempt] = e][n] = log[n]
  BY <1>1 DEF Attempt, Attempts
<1>3. /\ [log[Attempt] EXCEPT !["told"] = value].wrote = log[Attempt].wrote
      /\ [log[Attempt] EXCEPT !["told"] = value].failed = log[Attempt].failed
      /\ [log[Attempt] EXCEPT !["told"] = value].told = value
      /\ [log[Attempt] EXCEPT !["failed"] = value].told = log[Attempt].told
      /\ [log[Attempt] EXCEPT !["failed"] = value].failed = value
      /\ [log[Attempt] EXCEPT !["wrote"] = value].told = log[Attempt].told
  BY <1>1 DEF Entry
<1>4. QED
  BY <1>2, <1>3 DEF Noted

\* The four ways the notes change.
LEMMA LogStep ==
  ASSUME Known, [Next]_vars
  PROVE  \/ log' = log
         \/ StartRotation /\ log' = Append(log, NewEntry(cache.rotateNow))
         \/ CallProvider /\ log' = Noted("failed", now)
         \/ WriteSecret /\ log' = Noted("wrote", now)
         \/ FailStatus /\ log' = Noted("told", "RotationFailed")
         \/ Prune /\ log' = Noted("told", "RotationSucceeded")
<1>1. CASE Reconcile
  BY <1>1 DEF Reconcile, GetNotFound, HandleDeletion, EnsureFinalizer, SetSuspended,
     SetProviderUnhealthy, MarkDegraded, NotDue, StartRotation, Elsewhere
<1>2. CASE ExecuteRotation
  BY <1>2 DEF ExecuteRotation, CreateRecord, CallProvider, RecordProviderFailure, FailStatus,
     Abort, WriteSecret, ClearAnnotation, RestartWorkload, FinalizeSucceeded, StatusReady, Prune
<1>3. CASE Informers \/ Collector \/ User \/ Tick \/ Crash \/ UNCHANGED vars
  BY <1>3 DEF Informers, Deliver, RecordSync, SecretSync, Collector, CollectRecords,
     ReleaseHold, User, Edit, Request, Delete, UserAction, Tick, Crash, vars
<1>4. QED
  BY <1>1, <1>2, <1>3 DEF Next

LEMMA LogGrows ==
  ASSUME Known, Account, [Next]_vars
  PROVE  Grown
<1>0. RecordsTypeOK /\ (pc # "idle" => log # <<>>) /\ log \in Seq(Entry) /\ Attempt \in Nat
  BY DEF Known, TypeOK, WorkerTypeOK, RecordsTypeOK, Attempt
<1>1. CASE log' = log
  BY <1>0, <1>1 DEF Grown, Attempt
<1>2. CASE log' = Append(log, NewEntry(cache.rotateNow))
  <2>1. Len(log') = Len(log) + 1 /\ \A n \in 1..Len(log) : log'[n] = log[n]
    BY <1>0, <1>2
  <2>2. QED
    BY <2>1 DEF Grown, Attempt, Attempts
<1>3. CASE CallProvider /\ log' = Noted("failed", now)
  <2>1. pc # "idle" /\ log # <<>>
    BY <1>0, <1>3 DEF CallProvider
  <2>2. QED
    BY <1>0, <1>3, <2>1, NotedFields, NotedEntries DEF Grown, Attempt
<1>4. CASE WriteSecret /\ log' = Noted("wrote", now)
  <2>1. pc = "write" /\ log # <<>> /\ log[Attempt].wrote = Nil
    BY <1>0, <1>4 DEF WriteSecret, Account, Progress, BeforeWrite
  <2>2. QED
    BY <1>0, <1>4, <2>1, NotedFields, NotedEntries DEF Grown, Attempt
<1>5. CASE FailStatus \/ Prune
  <2>1. pc # "idle" /\ log # <<>> /\ \E value : log' = Noted("told", value)
    BY <1>0, <1>5 DEF FailStatus, Prune
  <2>2. QED
    BY <1>0, <2>1, NotedFields, NotedEntries DEF Grown, Attempt
<1>6. QED
  BY <1>1, <1>2, <1>3, <1>4, <1>5, LogStep

LEMMA AttemptTypes ==
  ASSUME RecordsTypeOK
  PROVE  /\ Attempt \in Nat /\ DOMAIN log = Attempts /\ Len(log) = Attempt
         /\ \A n : n \in Attempts <=> n \in Nat /\ n # 0 /\ n <= Attempt
BY DEF RecordsTypeOK, Attempt, Attempts

\* A new entry comes with a new attempt, at the end.
LEMMA NewAttempt ==
  ASSUME Known, [Next]_vars, Attempt' # Attempt
  PROVE  /\ StartRotation /\ log' = Append(log, NewEntry(cache.rotateNow))
         /\ Attempt' = Attempt + 1
<1>1. \A value : log # <<>> => /\ Len(Noted("failed", value)) = Attempt
                               /\ Len(Noted("wrote", value)) = Attempt
                               /\ Len(Noted("told", value)) = Attempt
  BY NotedFields DEF Known, TypeOK
<1>2. CallProvider \/ WriteSecret \/ FailStatus \/ Prune => log # <<>>
  BY DEF CallProvider, WriteSecret, FailStatus, Prune, Known, TypeOK, WorkerTypeOK
<1>3. StartRotation /\ log' = Append(log, NewEntry(cache.rotateNow))
  BY <1>1, <1>2, LogStep DEF Attempt
<1>4. QED
  BY <1>3 DEF Attempt, Known, TypeOK, RecordsTypeOK

LEMMA EntryTypes ==
  ASSUME RecordsTypeOK
  PROVE  \A n \in Attempts : log[n] \in Entry /\ log[n].wrote \in Int /\ log[n].failed \in Int
<1>1. \A n \in Attempts : log[n] \in Entry
  BY DEF RecordsTypeOK, Attempts
<1>2. \A e \in Entry : e.wrote \in MaybeTime /\ e.failed \in MaybeTime
  BY DEF Entry
<1>3. MaybeTime \subseteq Int
  BY DEF MaybeTime, Time, Nil
<1>4. QED
  BY <1>1, <1>2, <1>3

\* No value was written later than now.
Clocked == \A n \in Attempts : log[n].wrote <= now

LEMMA ClockedStep == Known /\ Account /\ Clocked /\ [Next]_vars => Clocked'
<1> SUFFICES ASSUME Known, Account, Clocked, [Next]_vars, NEW n \in Attempts'
             PROVE  log'[n].wrote <= now'
  BY DEF Clocked
<1>0. now \in Nat /\ now' \in Nat /\ now <= now'
      /\ log \in Seq(Entry) /\ Attempt \in Nat
  BY LastStep DEF Known, TypeOK, WorkerTypeOK, RecordsTypeOK, Time, Attempt
<1>1. CASE n \in Attempts
  <2>1. log[n].wrote \in Int /\ log[n].wrote <= now
    BY <1>1, EntryTypes DEF Clocked, Known, TypeOK
  <2>2. log'[n].wrote = log[n].wrote \/ log'[n].wrote = now
    BY <1>1, LogGrows DEF Grown
  <2>3. QED
    BY <1>0, <2>1, <2>2
<1>2. CASE n \notin Attempts
  <2>1. Attempt' # Attempt
    BY <1>2 DEF Attempt, Attempts
  <2>2. log' = Append(log, NewEntry(cache.rotateNow))
    BY <2>1, NewAttempt
  <2>3. n = Len(log) + 1 /\ log'[n] = NewEntry(cache.rotateNow)
    BY <1>0, <1>2, <2>2 DEF Attempts
  <2>4. NewEntry(cache.rotateNow).wrote = Nil
    BY DEF NewEntry
  <2>5. QED
    BY <1>0, <2>3, <2>4 DEF Nil
<1>3. QED
  BY <1>1, <1>2

-----------------------------------------------------------------------------
(* The records tell the truth.  A record gets its outcome from the locals of  *)
(* its own attempt, so the invariant says of these what the record will say:  *)
(* the workloads listed so far were restarted for the attempt under way, and  *)
(* no workload for a later one.                                               *)

Restarted ==
  /\ \A t \in Targets : workloads[t] <= Attempt
  /\ pc # "idle" => \A t \in job.restarted : workloads[t] = Attempt

\* A restart brings one target to the attempt under way; nothing else touches
\* the workloads, and nothing but a restart adds to the list.
LEMMA WorkloadsStep ==
  ASSUME Known, [Next]_vars
  PROVE  \/ /\ workloads' = workloads
            /\ pc' # "idle" => job'.restarted = {} \/ (pc # "idle" /\ ~RestartWorkload
                                                        /\ job'.restarted = job.restarted)
         \/ RestartWorkload
<1>0. pc # "idle" => job \in Job
  BY DEF Known, TypeOK, WorkerTypeOK
<1>1. CASE Reconcile
  BY <1>1 DEF Reconcile, TakeKey, GetNotFound, HandleDeletion, EnsureFinalizer, SetSuspended,
     SetProviderUnhealthy, MarkDegraded, NotDue, StartRotation, Elsewhere, localVars
<1>2. CASE CreateRecord
  <2>1. job'.restarted = job.restarted /\ workloads' = workloads /\ pc = "create"
    BY <1>0, <1>2 DEF CreateRecord, Job
  <2>2. QED
    BY <2>1 DEF RestartWorkload
<1>3. CASE CallProvider \/ RecordProviderFailure \/ WriteSecret \/ ClearAnnotation
  BY <1>3 DEF CallProvider, RecordProviderFailure, WriteSecret, ClearAnnotation, RestartWorkload
<1>4. CASE FinalizeSucceeded
  <2>1. NumTargets \in Nat /\ job.target \in Nat
    BY <1>0, <1>4, LimitsAssumption DEF FinalizeSucceeded, Job
  <2>2. QED
    BY <1>4, <2>1 DEF FinalizeSucceeded, RestartWorkload
<1>5. CASE StatusReady
  BY <1>5 DEF StatusReady, StatusError, ReturnError, GoIdle, RestartWorkload
<1>6. CASE FailStatus \/ Abort \/ Prune \/ Crash
  BY <1>6 DEF FailStatus, Abort, Prune, Crash, Return, ReturnError, GoIdle, secretVars
<1>7. CASE (Informers \/ Collector \/ User \/ Tick \/ UNCHANGED vars) /\ ~RestartWorkload
  BY <1>7 DEF Informers, Deliver, RecordSync, SecretSync, Collector, CollectRecords,
     ReleaseHold, User, Edit, Request, Delete, UserAction, Tick, vars, localVars
<1>8. QED
  BY <1>1, <1>2, <1>3, <1>4, <1>5, <1>6, <1>7 DEF Next, ExecuteRotation

LEMMA RestartEffect ==
  ASSUME Known, Restarted, RestartWorkload
  PROVE  /\ \A t \in Targets : workloads'[t] \in {workloads[t], Attempt}
         /\ \A t \in job'.restarted : workloads'[t] = Attempt
<1>0. /\ pc = "restart" /\ job \in Job /\ workloads \in [Targets -> Nat]
      /\ job.target \in Targets /\ job.restarted \subseteq Targets
  BY LimitsAssumption DEF RestartWorkload, Known, TypeOK, WorkerTypeOK, Job, Targets
<1>1. PICK ok \in BOOLEAN :
        /\ job' = ListedIf(ok)
        /\ workloads' = [workloads EXCEPT ![job.target] = Attempt]
           \/ (~ok /\ workloads' = workloads)
  BY DEF RestartWorkload
<1>2. ListedIf(ok).restarted = IF ok THEN job.restarted \cup {job.target} ELSE job.restarted
  BY <1>0 DEF ListedIf, Job
<1>3. QED
  BY <1>0, <1>1, <1>2 DEF Restarted

LEMMA RestartedStep == Known /\ Account /\ Restarted /\ [Next]_vars => Restarted'
<1> SUFFICES ASSUME Known, Account, Restarted, [Next]_vars PROVE Restarted'
  OBVIOUS
<1>0. /\ workloads \in [Targets -> Nat] /\ Attempt \in Nat /\ Attempt' \in {Attempt, Attempt + 1}
      /\ (pc # "idle" => job.restarted \subseteq Targets)
  BY LogGrows DEF Known, TypeOK, WorkerTypeOK, RecordsTypeOK, Attempt, Job, Grown
<1>1. CASE RestartWorkload
  <2>1. Attempt' = Attempt
    BY <1>1 DEF RestartWorkload, Attempt
  <2>2. QED
    BY <1>0, <1>1, <2>1, RestartEffect DEF Restarted
<1>2. CASE /\ workloads' = workloads
           /\ pc' # "idle" => job'.restarted = {} \/ (pc # "idle" /\ ~RestartWorkload
                                                       /\ job'.restarted = job.restarted)
  <2>1. pc # "idle" /\ pc' # "idle" => Attempt' = Attempt
    BY CopyEffect
  <2>2. QED
    BY <1>0, <1>2, <2>1 DEF Restarted
<1>3. QED
  BY <1>1, <1>2, WorkloadsStep

\* The record of an attempt gets the outcome Succeeded in one place only, and no
\* other record changes with it.
LEMMA FinalizeEffect ==
  ASSUME NEW phase, Known, job \in Job, FinalizeRecord(phase)
  PROVE  \A n \in DOMAIN records' :
           /\ n \in DOMAIN records
           /\ \/ records'[n] = records[n]
              \/ /\ n = Attempt
                 /\ records'[n].phase = phase /\ records'[n].restarts = job.restarted
<1>1. CASE records' = records
  BY <1>1
<1>2. CASE /\ Attempt \in DOMAIN records
           /\ records' = [records EXCEPT ![Attempt].phase = phase,
                                         ![Attempt].restarts = job.restarted]
  <2>1. records[Attempt] \in Record
    BY <1>2 DEF Known, TypeOK, RecordsTypeOK
  <2>2. QED
    BY <1>2, <2>1 DEF Record
<1>3. QED
  BY <1>1, <1>2 DEF FinalizeRecord

LEMMA RecordsStep ==
  ASSUME Known, [Next]_vars
  PROVE  \A n \in DOMAIN records' :
           \/ n \in DOMAIN records /\ records'[n] = records[n]
           \/ n = Attempt /\ records'[n].phase # "Succeeded"
           \/ n = Attempt /\ FinalizeSucceeded /\ records'[n].restarts = job.restarted
<1>0. pc # "idle" => job \in Job
  BY DEF Known, TypeOK, WorkerTypeOK
<1>1. CASE records' = records
  BY <1>1
<1>2. CASE CreateRecord
  <2> DEFINE created == [n \in DOMAIN records \cup {Attempt} |->
                           IF n = Attempt
                             THEN [at |-> now, phase |-> "Unset", restarts |-> {}]
                             ELSE records[n]]
  <2>1. records' = records \/ records' = created
    BY <1>2 DEF CreateRecord
  <2>2. QED
    BY <1>1, <2>1
<1>3. CASE RecordProviderFailure \/ Abort
  BY <1>0, <1>3, FinalizeEffect DEF RecordProviderFailure, Abort
<1>4. CASE FinalizeSucceeded
  BY <1>0, <1>4, FinalizeEffect DEF FinalizeSucceeded
<1>5. CASE Prune
  <2>1. records' = records
        \/ \E deleted : records' = [n \in DOMAIN records \ deleted |-> records[n]]
    BY <1>5 DEF Prune
  <2>2. QED
    BY <2>1
<1>6. CASE CollectRecords
  <2>1. DOMAIN records' = {}
    BY <1>6 DEF CollectRecords
  <2>2. QED
    BY <2>1
<1>7. QED
  BY <1>1, <1>2, <1>3, <1>4, <1>5, <1>6 DEF Next, Reconcile, GetNotFound, HandleDeletion,
     EnsureFinalizer, SetSuspended, SetProviderUnhealthy, MarkDegraded, NotDue, StartRotation,
     Elsewhere, recordVars, ExecuteRotation, CallProvider, FailStatus, WriteSecret,
     ClearAnnotation, RestartWorkload, StatusReady, Informers, Deliver, RecordSync, SecretSync,
     Collector, ReleaseHold, User, Edit, Request, Delete, UserAction, Tick, Crash, vars

LEMMA RecordsTruthStep ==
  Known /\ Account /\ Restarted /\ RecordsTellTruth /\ [Next]_vars => RecordsTellTruth'
<1> SUFFICES ASSUME Known, Account, Restarted, RecordsTellTruth, [Next]_vars,
                    NEW n \in DOMAIN records', records'[n].phase = "Succeeded"
             PROVE  /\ log'[n].wrote # Nil
                    /\ \A t \in records'[n].restarts : workloads'[t] >= n
  BY DEF RecordsTellTruth
<1>0. /\ workloads \in [Targets -> Nat] /\ Attempt \in Nat
      /\ DOMAIN records \subseteq Attempts
      /\ \A m \in DOMAIN records : records[m] \in Record
  BY AttemptTypes DEF Known, TypeOK, RecordsTypeOK
<1>1. CASE n \in DOMAIN records /\ records'[n] = records[n]
  <2>1. n \in Attempts /\ log[n].wrote # Nil /\ records[n].restarts \subseteq Targets
        /\ \A t \in records[n].restarts : workloads[t] >= n
    BY <1>0, <1>1 DEF RecordsTellTruth, Record
  <2>2. log'[n].wrote # Nil
    BY <2>1, LogGrows DEF Grown
  <2>3. \A t \in Targets : workloads'[t] \in {workloads[t], Attempt}
    BY RestartEffect, WorkloadsStep
  <2>4. n \in Int /\ n <= Attempt
    BY <2>1, AttemptTypes DEF Known, TypeOK
  <2>5. ASSUME NEW t \in records[n].restarts PROVE workloads'[t] >= n
    <3>1. t \in Targets /\ workloads[t] \in Nat /\ workloads[t] >= n
      BY <1>0, <2>1
    <3>2. QED
      BY <1>0, <2>3, <2>4, <3>1
  <2>6. QED
    BY <1>1, <2>2, <2>5
<1>2. CASE n = Attempt /\ FinalizeSucceeded /\ records'[n].restarts = job.restarted
  <2>1. /\ pc = "restart" /\ log' = log /\ workloads' = workloads
        /\ log[Attempt].wrote # Nil
    BY <1>2 DEF FinalizeSucceeded, Account, Progress, AfterWrite
  <2>2. QED
    BY <1>0, <1>2, <2>1 DEF Restarted
<1>3. QED
  BY <1>1, <1>2, RecordsStep

-----------------------------------------------------------------------------
(* Every version of the status is honest.  What a write puts into the status  *)
(* comes from a copy, so the copy of the rotation and every version that a    *)
(* reader may yet see must be honest as well; and since a status may name the *)
(* record of an attempt, it names none that is still to come.                 *)

Honest(status, entries, clock) ==
  /\ status.last # Nil =>
       /\ status.last <= clock
       /\ \E n \in DOMAIN entries : entries[n].wrote # Nil /\ entries[n].wrote <= status.last
  /\ status.record <= Len(entries)
  /\ status.record \in DOMAIN entries => entries[status.record].wrote # Nil

Sightings ==
  /\ \A i \in VersionNumbers : Honest(Version(i).status, log, now)
  /\ pc # "idle" => Honest(obj.status, log, now)

\* What was honest to say stays honest.
LEMMA HonestStays ==
  ASSUME Known, Account, [Next]_vars,
         NEW status \in Status, Honest(status, log, now)
  PROVE  Honest(status, log', now')
<1>0. /\ DOMAIN log = Attempts /\ Attempt \in Nat /\ Len(log) = Attempt
      /\ \A n : n \in Attempts <=> n \in Nat /\ n # 0 /\ n <= Attempt
      /\ Len(log') = Attempt' /\ Attempt' \in {Attempt, Attempt + 1}
      /\ \A n : n \in DOMAIN log' <=> n \in Nat /\ n # 0 /\ n <= Attempt'
  <2>1. RecordsTypeOK /\ log' \in Seq(Entry)
    BY TypeStep DEF Known, TypeOK, RecordsTypeOK
  <2>2. Len(log') = Attempt' /\ \A n : n \in DOMAIN log' <=> n \in Nat /\ n # 0 /\ n <= Attempt'
    BY <2>1 DEF Attempt
  <2>3. QED
    BY <2>1, <2>2, AttemptTypes, LogGrows DEF Grown
<1>1. now \in Nat /\ now' \in Nat /\ now <= now'
  BY LastStep DEF Known, TypeOK, WorkerTypeOK, Time
<1>2. status.last \in Int /\ status.record \in Int
  BY DEF Status, MaybeTime, Time, Nil
<1>3. \A n \in Attempts : log[n].wrote # Nil => n \in DOMAIN log' /\ log'[n].wrote = log[n].wrote
  BY <1>0, LogGrows DEF Grown
<1>4. ASSUME status.last # Nil
      PROVE  /\ status.last <= now'
             /\ \E n \in DOMAIN log' : log'[n].wrote # Nil /\ log'[n].wrote <= status.last
  <2>1. PICK n \in Attempts : log[n].wrote # Nil /\ log[n].wrote <= status.last
    BY <1>0, <1>4 DEF Honest
  <2>2. status.last <= now
    BY <1>4 DEF Honest
  <2>3. QED
    BY <1>1, <1>2, <1>3, <2>1, <2>2
<1>5. status.record <= Len(log')
  BY <1>0, <1>2 DEF Honest
<1>6. ASSUME status.record \in DOMAIN log' PROVE log'[status.record].wrote # Nil
  <2>1. status.record \in Attempts
    BY <1>0, <1>2, <1>6 DEF Honest
  <2>2. QED
    BY <1>0, <1>3, <2>1 DEF Honest
<1>7. QED
  BY <1>4, <1>5, <1>6 DEF Honest

\* Two statuses that give the same account.
SameAccount(s, r) == s.last = r.last /\ s.record = r.record

LEMMA SameHonest ==
  ASSUME NEW s, NEW r, SameAccount(s, r), NEW entries, NEW clock, Honest(r, entries, clock)
  PROVE  Honest(s, entries, clock)
BY DEF SameAccount, Honest

\* At the end of a rotation that wrote the Secret, the new status is honest.
LEMMA DoneHonest ==
  ASSUME Known, Account, Clocked, pc = "status"
  PROVE  Honest(Done, log, now)
<1>1. obj.status \in Status /\ log \in Seq(Entry) /\ Attempt \in Attempts /\ now \in Nat
      /\ Attempts = DOMAIN log
  BY DEF Known, TypeOK, WorkerTypeOK, RecordsTypeOK, Policy, Attempt, Attempts, Time
<1>2. Done.last = now /\ Done.record \in {0, Attempt}
  BY <1>1 DEF Done, Status
<1>3. log[Attempt].wrote # Nil /\ log[Attempt].wrote <= now
  BY <1>1 DEF Account, Progress, AfterWrite, Clocked
<1>4. 0 \notin Attempts /\ Attempt <= Len(log) /\ 0 <= Len(log) /\ now <= now
  BY <1>1 DEF Attempts, Attempt
<1>5. QED
  BY <1>1, <1>2, <1>3, <1>4 DEF Honest

\* A write of the rotation's copy, as the copy and the object come out of it.
LEMMA StoreEffect ==
  ASSUME StoreTypeOK, NEW o, NEW copy \in Policy, NEW ok \in BOOLEAN,
         Call(o, StatusWrite(copy), ok)
  PROVE  /\ api'.status = api.status \/ api'.status = copy.status
         /\ ok => api'.status = copy.status
<1>1. api' = api \/ api' = Settled(StatusWrite(copy))
  BY DEF Call, Publish
<1>2. StatusWrite(copy).status = copy.status /\ Settled(StatusWrite(copy)).status = copy.status
  BY DEF Settled, StatusWrite, StoreTypeOK, Policy
<1>3. ok => api' = StatusWrite(copy) \/ api' = Settled(StatusWrite(copy))
  BY TruthOfSuccess
<1>4. QED
  BY <1>1, <1>2, <1>3


\* Where the account that a step writes into a status comes from.
FromKnown(status) ==
  \/ SameAccount(status, api.status)
  \/ SameAccount(status, cache.status)
  \/ pc # "idle" /\ SameAccount(status, obj.status)
  \/ pc = "status" /\ status = Done

\* A write takes effect as it was made, or not at all.
LEMMA StatusSource ==
  ASSUME StoreTypeOK, NEW o, NEW copy \in Policy, NEW ok \in BOOLEAN,
         Call(o, StatusWrite(copy), ok), FromKnown(copy.status)
  PROVE  FromKnown(api'.status)
BY StoreEffect DEF FromKnown, SameAccount

LEMMA MainSource ==
  ASSUME StoreTypeOK, NEW o, NEW copy \in Policy, NEW ok \in BOOLEAN,
         Call(o, MainWrite(copy), ok)
  PROVE  FromKnown(api'.status)
<1>1. api'.status = api.status
  BY MainEffect
<1>2. QED
  BY <1>1 DEF FromKnown, SameAccount

LEMMA ReconcileSource ==
  ASSUME Known, Reconcile
  PROVE  FromKnown(api'.status) /\ (pc' # "idle" => FromKnown(obj'.status))
<1>0. StoreTypeOK /\ cache \in Policy /\ api \in Policy
  BY DEF Known, TypeOK, StoreTypeOK
<1>1. CASE GetNotFound
  BY <1>1 DEF GetNotFound, TakeKey, Elsewhere, localVars, FromKnown, SameAccount
<1>2. CASE HandleDeletion
  <2>1. Released(cache) \in Policy
    BY <1>0, CopyTypes
  <2>2. /\ api' = api \/ \E ok \in BOOLEAN : Call(cache, MainWrite(Released(cache)), ok)
        /\ pc' = "idle"
    BY <1>2 DEF HandleDeletion, TakeKey, Elsewhere, localVars
  <2>3. QED
    BY <1>0, <2>1, <2>2, MainSource DEF FromKnown, SameAccount
<1>3. CASE EnsureFinalizer
  <2> DEFINE copy == [cache EXCEPT !.finalizers = @ \cup {Finalizer}]
  <2>1. copy \in Policy
    BY <1>0, CopyTypes
  <2>2. pc' = "idle" /\ \E ok \in BOOLEAN : Call(cache, MainWrite(copy), ok)
    BY <1>3 DEF EnsureFinalizer, TakeKey, Elsewhere, localVars
  <2> HIDE DEF copy
  <2>3. QED
    BY <1>0, <2>1, <2>2, MainSource
<1>4. CASE SetSuspended
  <2> DEFINE copy == [cache EXCEPT !.status.phase = "Suspended", !.status.ready = "False"]
  <2>1. copy \in Policy
    BY <1>0, CopyTypes
  <2>2. SameAccount(copy.status, cache.status)
    BY <1>0 DEF Policy, Status, SameAccount
  <2>3. pc' = "idle" /\ \E ok \in BOOLEAN : Call(cache, StatusWrite(copy), ok)
    BY <1>4 DEF SetSuspended, TakeKey, Elsewhere, localVars
  <2> HIDE DEF copy
  <2>4. QED
    BY <1>0, <2>1, <2>2, <2>3, StatusSource DEF FromKnown
<1>5. CASE SetProviderUnhealthy
  <2> DEFINE copy == [cache EXCEPT !.status.phase = "Failed", !.status.healthy = "False"]
  <2>1. copy \in Policy
    BY <1>0, CopyTypes
  <2>2. SameAccount(copy.status, cache.status)
    BY <1>0 DEF Policy, Status, SameAccount
  <2>3. pc' = "idle" /\ \E ok \in BOOLEAN : Call(cache, StatusWrite(copy), ok)
    BY <1>5 DEF SetProviderUnhealthy, TakeKey, Elsewhere, localVars
  <2> HIDE DEF copy
  <2>4. QED
    BY <1>0, <2>1, <2>2, <2>3, StatusSource DEF FromKnown
<1>6. CASE MarkDegraded
  <2> DEFINE copy == [cache EXCEPT !.status.degraded = TRUE]
  <2>1. copy \in Policy
    BY <1>0, CopyTypes
  <2>2. SameAccount(copy.status, cache.status)
    BY <1>0 DEF Policy, Status, SameAccount
  <2>3. pc' = "idle" /\ \E ok \in BOOLEAN : Call(cache, StatusWrite(copy), ok)
    BY <1>6 DEF MarkDegraded, TakeKey, Elsewhere, localVars
  <2> HIDE DEF copy
  <2>4. QED
    BY <1>0, <2>1, <2>2, <2>3, StatusSource DEF FromKnown
<1>7. CASE NotDue
  <2> DEFINE copy == NextShown(NextScheduled(cache.spec.schedule, cache.status.last))
  <2>1. copy \in Policy
    BY StatusTypes DEF Known
  <2>2. SameAccount(copy.status, cache.status)
    BY <1>0 DEF NextShown, Policy, Status, SameAccount
  <2>3. pc' = "idle" /\ \E ok \in BOOLEAN : Call(cache, StatusWrite(copy), ok)
    BY <1>7 DEF NotDue, TakeKey, Elsewhere, localVars
  <2> HIDE DEF copy
  <2>4. QED
    BY <1>0, <2>1, <2>2, <2>3, StatusSource DEF FromKnown
<1>8. CASE StartRotation
  <2>1. Marked \in Policy /\ FromKnown(Marked.status)
    BY <1>0, CopyTypes DEF Marked, Policy, Status, FromKnown, SameAccount
  <2>2. PICK ok \in BOOLEAN :
          Call(Marked, StatusWrite(Marked), ok) /\ obj' = IF ok THEN api' ELSE Marked
    BY <1>8 DEF StartRotation, Store
  <2>3. FromKnown(api'.status)
    BY <1>0, <2>1, <2>2, StatusSource
  <2>4. QED
    BY <2>1, <2>2, <2>3
<1>9. QED
  BY <1>1, <1>2, <1>3, <1>4, <1>5, <1>6, <1>7, <1>8 DEF Reconcile

LEMMA RotationSource ==
  ASSUME Known, ExecuteRotation
  PROVE  FromKnown(api'.status) /\ (pc' # "idle" => FromKnown(obj'.status))
<1>0. StoreTypeOK /\ pc # "idle" /\ obj \in Policy
  BY DEF Known, TypeOK, WorkerTypeOK, ExecuteRotation, CreateRecord, CallProvider,
     RecordProviderFailure, FailStatus, Abort, WriteSecret, ClearAnnotation, RestartWorkload,
     FinalizeSucceeded, StatusReady, Prune
<1>1. CASE UNCHANGED <<api, obj>> \/ (api' = api /\ pc' = "idle")
  BY <1>0, <1>1 DEF FromKnown, SameAccount
<1>2. CASE FailStatus
  <2> DEFINE phase == IF obj.spec.failurePolicy = "Ignore" THEN "Ready" ELSE "Failed"
             o == [obj EXCEPT !.status.phase = phase, !.status.ready = "False"]
  <2>1. o \in Policy
    BY <1>0, CopyTypes DEF Phases
  <2>2. FromKnown(o.status)
    BY <1>0 DEF Policy, Status, SameAccount, FromKnown
  <2>3. pc' = "idle" /\ \E ok \in BOOLEAN : Call(o, StatusWrite(o), ok)
    BY <1>2 DEF FailStatus, Return, GoIdle
  <2> HIDE DEF o
  <2>4. QED
    BY <1>0, <2>1, <2>2, <2>3, StatusSource
<1>3. CASE ClearAnnotation
  <2> DEFINE o == [obj EXCEPT !.rotateNow = FALSE]
  <2>1. o \in Policy
    BY <1>0, CopyTypes
  <2>2. FromKnown(o.status)
    BY <1>0 DEF Policy, SameAccount, FromKnown
  <2>3. PICK ok \in BOOLEAN : Call(o, MainWrite(o), ok) /\ obj' = IF ok THEN api' ELSE o
    BY <1>3 DEF ClearAnnotation, Store
  <2> HIDE DEF o
  <2>4. FromKnown(api'.status)
    BY <1>0, <2>1, <2>3, MainSource
  <2>5. QED
    BY <2>2, <2>3, <2>4
<1>4. CASE StatusReady
  <2> DEFINE o == [obj EXCEPT !.status = Done]
  <2>1. o \in Policy
    BY <1>4, StatusTypes DEF StatusReady, Known
  <2>2. FromKnown(o.status)
    BY <1>0, <1>4 DEF StatusReady, Policy, FromKnown
  <2>3. /\ \E ok \in BOOLEAN : Call(o, StatusWrite(o), ok)
        /\ pc' = "idle" \/ obj' = api'
    BY <1>4 DEF StatusReady, Store, StatusError, ReturnError, GoIdle
  <2> HIDE DEF o
  <2>4. FromKnown(api'.status)
    BY <1>0, <2>1, <2>2, <2>3, StatusSource
  <2>5. QED
    BY <2>3, <2>4
<1>5. QED
  BY <1>1, <1>2, <1>3, <1>4 DEF ExecuteRotation, CreateRecord, CallProvider,
     RecordProviderFailure, Abort, WriteSecret, RestartWorkload, FinalizeSucceeded, Prune,
     storeVars, Return, ReturnError, GoIdle

LEMMA Sources ==
  ASSUME Known, [Next]_vars
  PROVE  FromKnown(api'.status) /\ (pc' # "idle" => FromKnown(obj'.status))
<1>0. api \in Policy
  BY DEF Known, TypeOK, StoreTypeOK
<1>1. CASE Reconcile \/ ExecuteRotation
  BY <1>1, ReconcileSource, RotationSource
<1>2. CASE Edit
  <2>1. PICK spec \in Specs : Publish([api EXCEPT !.spec = spec])
    BY <1>2 DEF Edit, UserAction, EditSpec
  <2>2. api'.status = api.status /\ UNCHANGED <<pc, obj>>
    BY <1>0, <1>2, <2>1 DEF Publish, Settled, Policy, Edit, UserAction, localVars
  <2>3. QED
    BY <2>2 DEF FromKnown, SameAccount
<1>3. CASE Request
  <2>1. Publish([api EXCEPT !.rotateNow = TRUE])
    BY <1>3 DEF Request, UserAction, SetRotateNow
  <2>2. api'.status = api.status /\ UNCHANGED <<pc, obj>>
    BY <1>0, <1>3, <2>1 DEF Publish, Settled, Policy, Request, UserAction, localVars
  <2>3. QED
    BY <2>2 DEF FromKnown, SameAccount
<1>4. CASE Delete
  <2>1. PICK holds \in {{}, {Hold}} :
          Publish([api EXCEPT !.deleting = TRUE, !.finalizers = @ \cup holds])
    BY <1>4 DEF Delete, UserAction, MarkDeleted
  <2>2. api'.status = api.status /\ UNCHANGED <<pc, obj>>
    BY <1>0, <1>4, <2>1 DEF Publish, Settled, Policy, Delete, UserAction, localVars
  <2>3. QED
    BY <2>2 DEF FromKnown, SameAccount
<1>5. CASE ReleaseHold
  <2>1. Publish([api EXCEPT !.finalizers = @ \ {Hold}])
    BY <1>5 DEF ReleaseHold, DropHold
  <2>2. api'.status = api.status /\ UNCHANGED <<pc, obj>>
    BY <1>0, <1>5, <2>1 DEF Publish, Settled, Policy, ReleaseHold, localVars
  <2>3. QED
    BY <2>2 DEF FromKnown, SameAccount
<1>6. CASE Informers \/ CollectRecords \/ Tick \/ Crash \/ UNCHANGED vars
  <2>1. api' = api /\ (pc' = "idle" \/ UNCHANGED <<pc, obj>>)
    BY <1>6 DEF Informers, Deliver, DeliverNext, RecordSync, SecretSync, CollectRecords,
       Tick, Crash, Relist, GoIdle, storeVars, localVars, vars
  <2>2. QED
    BY <2>1 DEF FromKnown, SameAccount
<1>7. QED
  BY <1>1, <1>2, <1>3, <1>4, <1>5, <1>6 DEF Next, Collector, User

LEMMA SightingsStep == Known /\ Account /\ Clocked /\ Sightings /\ [Next]_vars => Sightings'
<1> SUFFICES ASSUME Known, Account, Clocked, Sightings, [Next]_vars PROVE Sightings'
  OBVIOUS
<1>0. /\ StoreTypeOK /\ Len(watch) \in Nat /\ Versions \in [0..Len(watch) -> Policy]
      /\ Versions[Len(watch)] = api /\ Versions[0] = cache
      /\ \A i \in 0..Len(watch) : Honest(Versions[i].status, log, now)
  BY VersionsType DEF Known, TypeOK, StoreCoherent, Sightings, Versions, Version, VersionNumbers
<1>1. /\ \A i \in 0..Len(watch) : Versions[i].status \in Status
      /\ api'.status \in Status /\ (pc' # "idle" => obj'.status \in Status)
  BY <1>0, TypeStep DEF Known, TypeOK, WorkerTypeOK, StoreTypeOK, Policy
<1>2. ASSUME NEW status \in Status, FromKnown(status) PROVE Honest(status, log', now')
  <2>1. Honest(api.status, log, now) /\ Honest(cache.status, log, now)
    BY <1>0
  <2>2. Honest(status, log, now)
    BY <1>2, <2>1, SameHonest, DoneHonest DEF FromKnown, Sightings
  <2>3. QED
    BY <2>2, HonestStays
<1>3. \A i \in 0..Len(watch) : Honest(Versions[i].status, log', now')
  BY <1>0, <1>1, HonestStays
<1>4. Honest(api'.status, log', now') /\ (pc' # "idle" => Honest(obj'.status, log', now'))
  BY <1>1, <1>2, Sources
<1>5. \A i \in 0..Len(watch') : Honest(Versions'[i].status, log', now')
  <2>1. CASE UNCHANGED storeVars
    BY <1>3, <2>1 DEF storeVars, Versions, Version, VersionNumbers
  <2>2. CASE /\ Len(watch) # 0 /\ Len(watch') = Len(watch) - 1
             /\ Versions' = [i \in 0..(Len(watch) - 1) |-> Versions[i + 1]]
    BY <1>0, <1>3, <2>2
  <2>3. CASE Len(watch') = 0 /\ api' = api /\ Versions' = [i \in 0..0 |-> api]
    BY <1>4, <2>3
  <2>4. CASE /\ Len(watch') = Len(watch) + 1
             /\ Versions' = [i \in 0..(Len(watch) + 1) |->
                               IF i <= Len(watch) THEN Versions[i] ELSE api']
    BY <1>0, <1>3, <1>4, <2>4
  <2>5. QED
    BY <1>0, <2>1, <2>2, <2>3, <2>4, StoreSteps, VersionsStep DEF Known
<1>6. QED
  BY <1>4, <1>5 DEF Sightings, Versions, Version, VersionNumbers

LEMMA SightingsImply == Known /\ Sightings => LastRotationHonest
<1>1. Known => DOMAIN log = Attempts
  BY AttemptTypes DEF Known, TypeOK
<1>2. QED
  BY <1>1 DEF Sightings, Honest, LastRotationHonest

-----------------------------------------------------------------------------
(* The notifications tell the truth.  Each comes last in its attempt, when    *)
(* what it says is in the notes or in the status already.                     *)

Untold(entry) == entry.told = ""

Announced ==
  /\ pc # "idle" => Untold(log[Attempt])
  /\ pc \in {"providerFailed", "failStatus"} => log[Attempt].failed # Nil
  /\ pc = "prune" => api.status.last >= log[Attempt].wrote

LEMMA UntoldEntries ==
  /\ \A m : Untold(NewEntry(m))
  /\ \A e : Untold(e) => e.told # "RotationSucceeded" /\ e.told # "RotationFailed"
  /\ \A e, f : Untold(e) /\ f.told = e.told => Untold(f)
<1>1. \A m : Untold(NewEntry(m))
  BY Zenon DEF Untold, NewEntry
<1>2. \A e : Untold(e) => e.told # "RotationSucceeded" /\ e.told # "RotationFailed"
  BY Zenon DEF Untold
<1>3. \A e, f : Untold(e) /\ f.told = e.told => Untold(f)
  BY Zenon DEF Untold
<1>4. QED
  BY <1>1, <1>2, <1>3

LEMMA AnnouncedStep == Known /\ Account /\ Clocked /\ Announced /\ [Next]_vars => Announced'
<1> SUFFICES ASSUME Known, Account, Clocked, Announced, [Next]_vars PROVE Announced'
  OBVIOUS
<1>0. /\ RecordsTypeOK /\ (pc # "idle" => log # <<>>) /\ now \in Nat /\ api.status.last \in Int
      /\ log \in Seq(Entry)
      /\ (pc # "idle" => Attempt \in Attempts /\ log[Attempt].wrote \in Int)
  <2>1. log # <<>> /\ log \in Seq(Entry) => Len(log) \in 1..Len(log)
    OBVIOUS
  <2>2. QED
    BY <2>1, EntryTypes DEF Known, TypeOK, WorkerTypeOK, RecordsTypeOK, Time, StoreTypeOK, Policy,
       Status, MaybeTime, Nil, Attempt, Attempts
<1>1. CASE pc' = "idle"
  BY <1>1 DEF Announced
<1>2. CASE StartRotation
  <2>1. Len(log') = Len(log) + 1 /\ log'[Len(log) + 1] = NewEntry(cache.rotateNow)
    BY <1>0, <1>2 DEF StartRotation
  <2>2. Untold(log'[Attempt']) /\ pc' = "create"
    BY <1>2, <2>1, UntoldEntries DEF StartRotation, Attempt
  <2>3. QED
    BY <2>2 DEF Announced
<1>3. CASE UNCHANGED <<pc, log>>
  <2>1. pc = "prune" => api'.status.last = api.status.last
    BY LastStep DEF StatusReady
  <2>2. QED
    BY <1>3, <2>1 DEF Announced, Attempt
<1>4. CASE CallProvider
  <2>1. /\ pc = "call" /\ now # Nil
        /\ \/ pc' = "providerFailed" /\ log' = Noted("failed", now)
           \/ pc' \in {"write", "abort"} /\ log' = log
    BY <1>0, <1>4 DEF CallProvider, Nil
  <2>2. Attempt' = Attempt /\ Untold(log'[Attempt])
        /\ (pc' = "providerFailed" => log'[Attempt].failed = now)
    BY <1>0, <2>1, NotedFields, NotedEntries, UntoldEntries DEF Announced, Attempt
  <2>3. QED
    BY <2>1, <2>2 DEF Announced
<1>5. CASE WriteSecret
  <2>1. /\ pc = "write" /\ pc' \in {"clear", "restart", "abort"}
        /\ log' = Noted("wrote", now) \/ log' = log
    BY <1>5 DEF WriteSecret, SecretError
  <2>2. Attempt' = Attempt /\ Untold(log'[Attempt])
    BY <1>0, <2>1, NotedFields, NotedEntries, UntoldEntries DEF Announced, Attempt
  <2>3. QED
    BY <2>1, <2>2 DEF Announced
<1>6. CASE CreateRecord \/ RecordProviderFailure \/ ClearAnnotation \/ FinalizeSucceeded
  <2>1. /\ log' = log /\ pc # "idle" /\ pc' \in {"call", "failStatus", "restart", "status"}
        /\ pc' = "failStatus" => pc = "providerFailed"
    BY <1>6 DEF CreateRecord, RecordProviderFailure, ClearAnnotation, FinalizeSucceeded
  <2>2. QED
    BY <2>1 DEF Announced, Attempt
<1>7. CASE StatusReady /\ pc' # "idle"
  <2>1. pc = "status" /\ pc' = "prune" /\ log' = log /\ api'.status.last = now
    BY <1>7, RecordEffect DEF StatusReady
  <2>2. log[Attempt].wrote <= now
    BY <1>0, <2>1 DEF Clocked
  <2>3. QED
    BY <1>0, <2>1, <2>2 DEF Announced, Attempt
<1>8. CASE RestartWorkload
  BY <1>3, <1>8 DEF RestartWorkload
<1>9. CASE FailStatus \/ Abort \/ Prune \/ Crash
  BY <1>1, <1>9 DEF FailStatus, Abort, Prune, Crash, Return, ReturnError, GoIdle
<1>10. CASE Reconcile /\ ~StartRotation
  BY <1>3, <1>10 DEF Reconcile, GetNotFound, HandleDeletion, EnsureFinalizer, SetSuspended,
     SetProviderUnhealthy, MarkDegraded, NotDue, Elsewhere, localVars
<1>11. CASE Informers \/ Collector \/ User \/ Tick \/ UNCHANGED vars
  BY <1>3, <1>11 DEF Informers, Deliver, RecordSync, SecretSync, Collector, CollectRecords,
     ReleaseHold, User, Edit, Request, Delete, UserAction, Tick, vars, localVars
<1>12. QED
  BY <1>1, <1>2, <1>4, <1>5, <1>6, <1>7, <1>8, <1>9, <1>10, <1>11 DEF Next, ExecuteRotation

LEMMA NotificationsStep ==
  Known /\ Account /\ Announced /\ NotificationsTellTruth /\ [Next]_vars => NotificationsTellTruth'
<1> SUFFICES ASSUME Known, Account, Announced, NotificationsTellTruth, [Next]_vars,
                    NEW n \in Attempts'
             PROVE  /\ log'[n].told = "RotationSucceeded" =>
                         log'[n].wrote # Nil /\ api'.status.last >= log'[n].wrote
                    /\ log'[n].told = "RotationFailed" =>
                         log'[n].failed # Nil /\ log'[n].wrote = Nil
  BY DEF NotificationsTellTruth
<1>0. /\ RecordsTypeOK /\ (pc # "idle" => log # <<>>) /\ now \in Nat /\ api.status.last \in Int
      /\ log \in Seq(Entry) /\ (n \in Attempts => log[n].wrote \in Int)
      /\ Attempt \in Nat
      /\ \A m : m \in Attempts <=> m \in Nat /\ m # 0 /\ m <= Attempt
      /\ n \in Nat /\ n # 0 /\ n <= Attempt'
  <2>1. RecordsTypeOK'
    BY TypeStep DEF Known, TypeOK
  <2>2. n \in Nat /\ n # 0 /\ n <= Attempt'
    BY <2>1 DEF RecordsTypeOK, Attempts, Attempt
  <2>3. QED
    BY <2>2, EntryTypes, AttemptTypes DEF Known, TypeOK, WorkerTypeOK, RecordsTypeOK, Time,
       StoreTypeOK, Policy, Status, MaybeTime, Nil
<1>1. api'.status.last \in Int /\ api.status.last <= api'.status.last
  <2>1. api'.status.last \in {api.status.last, now} /\ api.status.last <= now
    BY LastStep DEF Account, Timely
  <2>2. QED
    BY <1>0, <2>1
<1>2. CASE n \in Attempts /\ log'[n] = log[n]
  BY <1>0, <1>1, <1>2 DEF NotificationsTellTruth
<1>3. CASE n = Attempt /\ pc # "idle" /\ Attempt' = Attempt /\ log' # log
  <2>1. \/ CallProvider /\ log' = Noted("failed", now)
        \/ WriteSecret /\ log' = Noted("wrote", now)
        \/ FailStatus /\ log' = Noted("told", "RotationFailed")
        \/ Prune /\ log' = Noted("told", "RotationSucceeded")
    BY <1>3, LogStep DEF StartRotation, TakeKey
  <2>2. CASE (CallProvider /\ log' = Noted("failed", now)) \/ (WriteSecret /\ log' = Noted("wrote", now))
    <3>1. log # <<>> /\ Untold(log[Attempt]) /\ Untold(log'[Attempt])
      BY <1>0, <1>3, <2>2, NotedEntries, UntoldEntries DEF Announced
    <3>2. QED
      BY <1>3, <3>1, UntoldEntries
  <2>3. CASE FailStatus /\ log' = Noted("told", "RotationFailed")
    <3>1. pc = "failStatus"
      BY <2>3 DEF FailStatus
    <3>2. log'[n].told = "RotationFailed" /\ log'[n].failed # Nil /\ log'[n].wrote = Nil
      BY <1>0, <1>3, <2>3, <3>1, NotedEntries DEF Announced, Account, Progress, BeforeWrite
    <3>3. QED
      BY <3>2
  <2>4. CASE Prune /\ log' = Noted("told", "RotationSucceeded")
    <3>1. pc = "prune" /\ api' = api
      BY <2>4 DEF Prune, storeVars
    <3>2. /\ log'[n].told = "RotationSucceeded" /\ log'[n].wrote # Nil
          /\ log'[n].wrote = log[n].wrote /\ api.status.last >= log[n].wrote
      BY <1>0, <1>3, <2>4, <3>1, NotedEntries DEF Announced, Account, Progress, AfterWrite
    <3>3. QED
      BY <3>1, <3>2
  <2>5. QED
    BY <2>1, <2>2, <2>3, <2>4
<1>4. CASE n \notin Attempts
  <2>1. Attempt' # Attempt
    BY <1>0, <1>4
  <2>2. log' = Append(log, NewEntry(cache.rotateNow)) /\ n = Len(log) + 1
    BY <1>0, <1>4, <2>1, NewAttempt DEF Attempt
  <2>3. log'[n] = NewEntry(cache.rotateNow)
    BY <1>0, <2>2
  <2>4. QED
    BY <2>3, UntoldEntries
<1>5. QED
  BY <1>0, <1>2, <1>3, <1>4, LogGrows DEF Grown

-----------------------------------------------------------------------------
(* The policy is never forgotten, as long as at most one call to the API      *)
(* server fails.  A rotation starts by taking the key out of the queue, and   *)
(* what puts it back need not be the delay it returns, for that may be zero   *)
(* or past: it is an event of something the rotation changed.  Creating the   *)
(* record is such a change; when it is the one call that fails, the policy    *)
(* was marked Rotating before and the last write of its status changes that.  *)

\* Something will bring the key back.
Pending == wake # Nil \/ watch # <<>> \/ recordEvent

\* The copy of the rotation is the object and shows that it was marked.
Marking == obj = api /\ api.status.phase = "Rotating"

Remembered ==
  /\ left["api"] <= 1
  /\ pc = "idle" => Pending \/ ~api.exists \/ api.deleting
  /\ pc = "create" /\ ~Pending => left["api"] = 0 \/ Marking
  /\ pc \notin {"idle", "create", "prune"} /\ ~Pending => left["api"] = 0 /\ Marking
  /\ pc = "prune" => Pending

\* A change of the object is on its way to the informer, and Reconcile takes no
\* version off that way.
LEMMA ChangeShows ==
  ASSUME Known, [Next]_vars
  PROVE  api' = api \/ watch' # <<>>
<1>1. StoreTypeOK /\ StoreStep
  BY StoreSteps DEF Known, TypeOK
<1>2. QED
  BY <1>1 DEF StoreStep, storeVars, DeliverNext, Relist, Change, Publish, StoreTypeOK

LEMMA CallShows ==
  ASSUME StoreTypeOK, NEW o, NEW new, NEW ok, Call(o, new, ok)
  PROVE  UNCHANGED <<api, watch>> \/ (Current(o) /\ watch' # <<>>)
BY DEF Call, Publish, StoreTypeOK

\* When nothing is on its way, the cache shows the object.
LEMMA CaughtUp ==
  ASSUME Known, watch = <<>>
  PROVE  cache = api
BY DEF Known, StoreCoherent, Version

\* The budget is only ever spent.
LEMMA SpendLess ==
  ASSUME left \in [Kinds -> Nat], NEW kind \in Kinds, Spend(kind)
  PROVE  /\ left'["api"] \in Nat /\ left'["api"] <= left["api"]
         /\ kind = "api" => left["api"] > 0 /\ left'["api"] = left["api"] - 1
BY DEF Spend, Kinds

LEMMA BudgetStep ==
  ASSUME [Next]_vars
  PROVE  left' = left \/ \E kind \in Kinds : Spend(kind)
<1>1. CASE Reconcile
  BY <1>1 DEF Reconcile, GetNotFound, HandleDeletion, EnsureFinalizer, SetSuspended,
     SetProviderUnhealthy, MarkDegraded, NotDue, StartRotation, Store, Call, Kinds
<1>2. CASE ExecuteRotation
  BY <1>2 DEF ExecuteRotation, CreateRecord, CallProvider, RecordProviderFailure, FailStatus,
     Abort, WriteSecret, ClearAnnotation, RestartWorkload, FinalizeSucceeded, StatusReady, Prune,
     FinalizeRecord, Store, Call, Kinds
<1>3. CASE Informers \/ Collector \/ User \/ Tick \/ Crash \/ UNCHANGED vars
  BY <1>3 DEF Informers, Deliver, RecordSync, SecretSync, Collector, CollectRecords,
     ReleaseHold, User, Edit, Request, Delete, UserAction, Tick, Crash, vars, Kinds
<1>4. QED
  BY <1>1, <1>2, <1>3 DEF Next

LEMMA LeftStep ==
  ASSUME Known, [Next]_vars
  PROVE  left["api"] \in Nat /\ left'["api"] \in Nat /\ left'["api"] <= left["api"]
<1>1. left \in [Kinds -> Nat] /\ left["api"] \in Nat
  BY DEF Known, TypeOK, Kinds
<1>2. QED
  BY <1>1, BudgetStep, SpendLess

\* A return asks for the key at least as much as the queue did already.
LEMMA AfterKeeps ==
  ASSUME WorkerTypeOK, NEW delay \in Int
  PROVE  /\ wake # Nil => After(wake, now, delay) # Nil
         /\ delay > 0 => After(wake, now, delay) # Nil /\ After(Nil, now, delay) # Nil
BY DEF WorkerTypeOK, Time, After, Earliest, Nil

\* What is pending stays so until Reconcile takes the key, or the process dies
\* with the policy gone.
LEMMA PendingStays ==
  ASSUME Known, [Next]_vars, Pending, ~Reconcile
  PROVE  Pending' \/ ~api'.exists
<1>0. /\ WorkerTypeOK /\ StoreTypeOK /\ now \in Int /\ recordEvent \in BOOLEAN
      /\ (pc # "idle" => obj.status.next \in Int)
  BY DEF Known, TypeOK, WorkerTypeOK, RecordsTypeOK, Time, Policy, Status, MaybeTime, ZeroTime, Nil
<1>1. ASSUME wake # Nil => wake' # Nil, watch # <<>> => watch' # <<>>, recordEvent => recordEvent'
      PROVE  Pending'
  BY <1>1 DEF Pending
<1>2. CASE wake' = ReadyNow
  BY <1>2 DEF Pending, ReadyNow, Nil
<1>3. CASE CreateRecord \/ CallProvider \/ WriteSecret \/ RestartWorkload
  BY <1>1, <1>3 DEF CreateRecord, CallProvider, WriteSecret, RestartWorkload, Running, recordVars,
     storeVars
<1>4. CASE RecordProviderFailure \/ FinalizeSucceeded
  BY <1>1, <1>4 DEF RecordProviderFailure, FinalizeSucceeded, FinalizeRecord, Running, storeVars
<1>5. CASE FailStatus
  <2>1. wake # Nil => wake' # Nil
    BY <1>0, <1>5, AfterKeeps, DelaysAssumption DEF FailStatus, Return
  <2>2. watch # <<>> => watch' # <<>>
    BY <1>0, <1>5, CallShows DEF FailStatus
  <2>3. QED
    BY <1>1, <1>5, <2>1, <2>2 DEF FailStatus, recordVars
<1>6. CASE Abort
  BY <1>2, <1>6 DEF Abort, ReturnError, Retry
<1>7. CASE ClearAnnotation
  <2>1. watch # <<>> => watch' # <<>>
    BY <1>0, <1>7, CallShows DEF ClearAnnotation, Store
  <2>2. QED
    BY <1>1, <1>7, <2>1 DEF ClearAnnotation, Running, recordVars
<1>8. CASE StatusReady
  <2>1. watch # <<>> => watch' # <<>>
    BY <1>0, <1>8, CallShows DEF StatusReady, Store
  <2>2. wake' = wake \/ wake' = ReadyNow
    BY <1>8 DEF StatusReady, StatusError, ReturnError, Retry
  <2>3. QED
    BY <1>1, <1>2, <1>8, <2>1, <2>2 DEF StatusReady, recordVars
<1>9. CASE Prune
  <2>1. wake # Nil => wake' # Nil
    BY <1>0, <1>9, AfterKeeps DEF Prune, Return
  <2>2. recordEvent => recordEvent'
    BY <1>9, Zenon DEF Prune
  <2>3. QED
    BY <1>1, <1>9, <2>1, <2>2 DEF Prune, storeVars
<1>10. CASE Deliver \/ RecordSync
  BY <1>2, <1>10 DEF Deliver, RecordSync
<1>11. CASE Crash
  BY <1>2, <1>11 DEF Crash, Relist
<1>12. CASE SecretSync \/ CollectRecords \/ Tick \/ UNCHANGED vars
  BY <1>1, <1>12 DEF SecretSync, CollectRecords, Tick, storeVars, recordVars, vars
<1>13. CASE User \/ ReleaseHold
  <2>1. watch' = watch \/ \E new : watch' = Append(watch, new)
    BY <1>13 DEF User, Edit, Request, Delete, UserAction, EditSpec, SetRotateNow, MarkDeleted,
       ReleaseHold, DropHold, Publish
  <2>2. watch # <<>> => watch' # <<>>
    BY <1>0, <2>1 DEF StoreTypeOK
  <2>3. QED
    BY <1>1, <1>13, <2>2 DEF User, Edit, Request, Delete, UserAction, ReleaseHold, recordVars
<1>14. QED
  BY <1>3, <1>4, <1>5, <1>6, <1>7, <1>8, <1>9, <1>10, <1>11, <1>12, <1>13
     DEF Next, ExecuteRotation, Informers, Collector

\* A path of Reconcile that does not rotate asks for the key again, has changed
\* the object, or has seen that the policy goes.
LEMMA QuietRemembers ==
  ASSUME Known, Reconcile, ~StartRotation
  PROVE  pc' = "idle" /\ (Pending' \/ ~api'.exists \/ api'.deleting)
<1>0. /\ WorkerTypeOK /\ StoreTypeOK /\ now \in Int /\ pc = "idle" /\ cache \in Policy
      /\ cache.spec.window \in Nat /\ cache.status.last \in Int
  <2>1. cache \in Policy /\ cache.spec \in SpecType
    BY SpecsAssumption DEF Known, TypeOK, StoreTypeOK, Policy
  <2>2. QED
    BY <2>1 DEF Known, TypeOK, WorkerTypeOK, StoreTypeOK, Time, SpecType, Policy, Status, MaybeTime,
       Nil, Reconcile, TakeKey, GetNotFound, HandleDeletion, EnsureFinalizer, SetSuspended,
       SetProviderUnhealthy, MarkDegraded, NotDue, StartRotation
<1>1. pc' = "idle"
  BY <1>0 DEF Reconcile, GetNotFound, HandleDeletion, EnsureFinalizer, SetSuspended,
     SetProviderUnhealthy, MarkDegraded, NotDue, Elsewhere, localVars
<1> SUFFICES Pending' \/ ~api'.exists \/ api'.deleting
  BY <1>1
<1>2. ASSUME wake' # Nil PROVE Pending'
  BY <1>2 DEF Pending
<1>3. UNCHANGED <<api, watch>> \/ watch' # <<>>
  <2>1. CASE GetNotFound
    BY <2>1 DEF GetNotFound
  <2>2. CASE ~GetNotFound
    BY <1>0, <2>2, CallShows DEF Reconcile, HandleDeletion, EnsureFinalizer, SetSuspended,
       SetProviderUnhealthy, MarkDegraded, NotDue
  <2>3. QED
    BY <2>1, <2>2
<1>4. ASSUME ~cache.exists \/ cache.deleting PROVE Pending' \/ ~api'.exists \/ api'.deleting
  <2>1. CASE watch' # <<>>
    BY <2>1 DEF Pending
  <2>2. CASE watch = <<>> /\ api' = api
    BY <1>4, <2>2, CaughtUp
  <2>3. QED
    BY <1>3, <2>1, <2>2
<1>5. CASE GetNotFound \/ HandleDeletion
  BY <1>4, <1>5 DEF GetNotFound, HandleDeletion
<1>6. CASE EnsureFinalizer
  <2>1. wake' = ReadyNow
    BY <1>6 DEF EnsureFinalizer, Retry
  <2>2. QED
    BY <1>2, <2>1 DEF ReadyNow, Nil
<1>7. \A delay \in Int : delay > 0 => After(Nil, now, delay) # Nil
  BY <1>0, AfterKeeps
<1>8. CASE SetSuspended
  <2>1. wake' = After(Nil, now, SuspendDelay) \/ wake' = ReadyNow
    BY <1>8 DEF SetSuspended, Later, Retry
  <2>2. SuspendDelay \in Int /\ SuspendDelay > 0
    BY DelaysAssumption
  <2>3. QED
    BY <1>2, <1>7, <2>1, <2>2 DEF ReadyNow, Nil
<1>9. CASE SetProviderUnhealthy \/ MarkDegraded
  <2>1. wake' = After(Nil, now, UnhealthyDelay)
    BY <1>9 DEF SetProviderUnhealthy, MarkDegraded, Later
  <2>2. UnhealthyDelay \in Int /\ UnhealthyDelay > 0
    BY DelaysAssumption
  <2>3. QED
    BY <1>2, <1>7, <2>1, <2>2
<1>10. CASE NotDue
  <2> DEFINE delay == RequeueDelay(cache.spec.schedule, cache.status.last, cache.spec.window, now)
             from == IF cache.status.last = Nil THEN now ELSE cache.status.last
  <2>1. NextScheduled(cache.spec.schedule, from) \in Nat /\ MinDelay \in Nat \ {0}
    BY <1>0, NextScheduledFires, MinDelayAssumption
  <2>2. delay \in Int /\ delay > 0
    BY <1>0, <2>1 DEF RequeueDelay
  <2>3. wake' = After(Nil, now, delay)
    BY <1>10 DEF NotDue, Later
  <2> HIDE DEF delay
  <2>4. QED
    BY <1>2, <1>7, <2>2, <2>3
<1>11. QED
  BY <1>5, <1>6, <1>8, <1>9, <1>10 DEF Reconcile

\* A rotation begins with the key out of the queue: the mark or the reason why it
\* was refused is on its way, or it changed nothing, or it is the call that failed.
LEMMA StartRemembers ==
  ASSUME Known, Account, StartRotation, left["api"] <= 1
  PROVE  Pending' \/ left'["api"] = 0 \/ Marking'
<1>0. StoreTypeOK /\ cache \in Policy /\ left \in [Kinds -> Nat] /\ left["api"] \in Nat /\ api.exists
  BY StartEffect DEF Known, TypeOK, StoreTypeOK, Kinds, Account
<1>1. Marked \in Policy /\ Marked.rv = cache.rv /\ Marked.status.phase = "Rotating"
  BY <1>0, CopyTypes DEF Marked, Policy, Status
<1>2. PICK ok \in BOOLEAN :
        Call(Marked, StatusWrite(Marked), ok) /\ obj' = IF ok THEN api' ELSE Marked
  BY DEF StartRotation, Store
<1>3. CASE ok /\ Publish(StatusWrite(Marked))
  <2>1. api'.status = Marked.status
    BY <1>0, <1>1, <1>2, <1>3, StoreEffect
  <2>2. QED
    BY <1>1, <1>2, <1>3, <2>1 DEF Marking
<1>4. CASE ~Current(Marked) /\ UNCHANGED watch
  <2>1. cache # api
    BY <1>0, <1>1, <1>4 DEF Current
  <2>2. watch' # <<>>
    BY <1>4, <2>1, CaughtUp
  <2>3. QED
    BY <2>2 DEF Pending
<1>5. CASE Spend("api")
  BY <1>0, <1>5, SpendLess DEF Kinds
<1>6. QED
  BY <1>2, <1>3, <1>4, <1>5 DEF Call

\* With no failure left and the copy current, a write is made, and one that
\* changes the phase shows.
LEMMA LastWriteShows ==
  ASSUME Known, left["api"] = 0, Marking, pc # "idle",
         NEW o \in Policy, o.rv = obj.rv, o.status.phase # "Rotating",
         NEW ok \in BOOLEAN, Call(o, StatusWrite(o), ok)
  PROVE  watch' # <<>>
<1>0. StoreTypeOK /\ api \in Policy /\ left \in [Kinds -> Nat] /\ "api" \in Kinds
  BY DEF Known, TypeOK, StoreTypeOK, Kinds
<1>1. ~Spend("api")
  BY <1>0 DEF Spend
<1>2. Current(o)
  BY DEF Current, Marking, Known, Holding, Held
<1>3. Publish(StatusWrite(o))
  BY <1>1, <1>2 DEF Call
<1>4. StatusWrite(o) # api
  BY <1>0 DEF StatusWrite, Policy, Marking
<1>5. QED
  BY <1>0, <1>3, <1>4 DEF Publish, StoreTypeOK


\* Whatever the worker does not do itself leaves its copy and its place.
LEMMA ElsewhereKeeps ==
  ASSUME Known, [Next]_vars, ~Reconcile, ~ExecuteRotation, ~Crash
  PROVE  UNCHANGED <<pc, obj>>
BY DEF Next, Informers, Deliver, RecordSync, SecretSync, Collector, CollectRecords, ReleaseHold,
   User, Edit, Request, Delete, UserAction, Tick, localVars, vars

\* The end of an attempt.
LEMMA EndRemembers ==
  ASSUME Known, Account, Remembered, ExecuteRotation, pc' = "idle"
  PROVE  Pending'
<1>0. /\ StoreTypeOK /\ WorkerTypeOK /\ pc # "idle" /\ obj \in Policy
      /\ FailStatus \/ Abort \/ StatusReady \/ Prune
  BY DEF Known, TypeOK, WorkerTypeOK, ExecuteRotation, CreateRecord, CallProvider,
     RecordProviderFailure, FailStatus, Abort, WriteSecret, SecretError, ClearAnnotation,
     RestartWorkload, FinalizeSucceeded, StatusReady, Prune
<1>1. Pending => Pending'
  <2>1. ~Reconcile
    BY <1>0 DEF Reconcile, TakeKey, GetNotFound, HandleDeletion, EnsureFinalizer, SetSuspended,
       SetProviderUnhealthy, MarkDegraded, NotDue, StartRotation
  <2>2. api'.exists
    BY <1>0, StaysInRotation DEF Next
  <2>3. QED
    BY <2>1, <2>2, PendingStays DEF Next
<1>2. CASE wake' = ReadyNow
  BY <1>2 DEF Pending, ReadyNow, Nil
<1>3. CASE FailStatus /\ ~Pending
  <2> DEFINE phase == IF obj.spec.failurePolicy = "Ignore" THEN "Ready" ELSE "Failed"
             o == [obj EXCEPT !.status.phase = phase, !.status.ready = "False"]
  <2>1. pc = "failStatus" /\ left["api"] = 0 /\ Marking
    BY <1>3 DEF FailStatus, Remembered
  <2>2. o \in Policy
    BY <1>0, CopyTypes DEF Phases
  <2>3. o.rv = obj.rv /\ o.status.phase # "Rotating"
    BY <1>0 DEF Policy, Status
  <2>4. PICK ok \in BOOLEAN : Call(o, StatusWrite(o), ok)
    BY <1>3 DEF FailStatus
  <2> HIDE DEF o
  <2>5. QED
    BY <1>0, <2>1, <2>2, <2>3, <2>4, LastWriteShows DEF Pending
<1>4. CASE Abort \/ StatusReady
  BY <1>2, <1>4 DEF Abort, StatusReady, StatusError, ReturnError, Retry
<1>5. CASE Prune
  BY <1>1, <1>5 DEF Prune, Remembered
<1>6. QED
  BY <1>0, <1>1, <1>3, <1>4, <1>5

\* The middle of an attempt: as long as nothing is pending, the copy stays the
\* marked object and no failure is left.
LEMMA MiddleRemembers ==
  ASSUME Known, Account, Remembered, ExecuteRotation, pc' # "idle", ~Pending, ~Pending'
  PROVE  pc' \notin {"create", "prune"} /\ left'["api"] = 0 /\ Marking'
<1>0. /\ StoreTypeOK /\ WorkerTypeOK /\ pc # "idle" /\ obj \in Policy
      /\ left \in [Kinds -> Nat] /\ "api" \in Kinds /\ left["api"] \in Nat
      /\ left'["api"] \in Nat /\ left'["api"] <= left["api"] /\ left["api"] <= 1
  <2>1. pc # "idle"
    BY DEF ExecuteRotation, CreateRecord, CallProvider, RecordProviderFailure, FailStatus, Abort,
       WriteSecret, ClearAnnotation, RestartWorkload, FinalizeSucceeded, StatusReady, Prune
  <2>2. left \in [Kinds -> Nat] /\ "api" \in Kinds
    BY DEF Known, TypeOK, Kinds
  <2>3. left["api"] \in Nat /\ left'["api"] \in Nat /\ left'["api"] <= left["api"]
    BY LeftStep DEF Next
  <2>4. QED
    BY <2>1, <2>2, <2>3 DEF Remembered, Known, TypeOK, WorkerTypeOK
<1>1. watch' = <<>> /\ api' = api /\ ~recordEvent'
  BY ChangeShows DEF Pending, Next
<1>2. CASE CreateRecord
  <2>1. Spend("api") /\ obj' = obj /\ pc = "create" /\ pc' = "call"
    BY <1>1, <1>2 DEF CreateRecord
  <2>2. left["api"] = 1 /\ left'["api"] = 0
    BY <1>0, <2>1, SpendLess
  <2>3. Marking
    BY <2>1, <2>2 DEF Remembered
  <2>4. QED
    BY <1>1, <2>1, <2>2, <2>3 DEF Marking
<1>3. CASE ClearAnnotation
  <2> DEFINE o == [obj EXCEPT !.rotateNow = FALSE]
  <2>1. pc = "clear" /\ pc' = "restart" /\ left["api"] = 0 /\ Marking
    BY <1>3 DEF ClearAnnotation, Remembered
  <2>2. o.rv = obj.rv
    BY <1>0 DEF Policy
  <2>3. PICK ok \in BOOLEAN : Call(o, MainWrite(o), ok) /\ obj' = IF ok THEN api' ELSE o
    BY <1>3 DEF ClearAnnotation, Store
  <2>4. ~Spend("api")
    BY <2>1 DEF Spend
  <2>5. Current(o)
    BY <1>0, <2>1, <2>2 DEF Current, Marking, Known, Holding, Held
  <2> HIDE DEF o
  <2>6. ok
    BY <2>3, <2>4, <2>5 DEF Call
  <2>7. QED
    BY <1>0, <1>1, <2>1, <2>3, <2>6 DEF Marking
<1>4. CASE StatusReady
  <2> DEFINE o == [obj EXCEPT !.status = Done]
  <2>1. pc = "status" /\ left["api"] = 0 /\ Marking
    BY <1>4 DEF StatusReady, Remembered
  <2>2. o \in Policy
    BY <2>1, StatusTypes DEF Known
  <2>3. o.rv = obj.rv /\ o.status.phase # "Rotating"
    BY <1>0 DEF Policy, Status, Done
  <2>4. PICK ok \in BOOLEAN : Call(o, StatusWrite(o), ok)
    BY <1>4 DEF StatusReady, Store
  <2> HIDE DEF o
  <2>5. QED
    BY <1>0, <1>1, <2>1, <2>2, <2>3, <2>4, LastWriteShows
<1>5. CASE CallProvider \/ RecordProviderFailure \/ WriteSecret \/ RestartWorkload \/ FinalizeSucceeded
  <2>1. pc \notin {"idle", "create", "prune"} /\ pc' \notin {"create", "prune"} /\ obj' = obj
    BY <1>5 DEF CallProvider, RecordProviderFailure, WriteSecret, SecretError, RestartWorkload,
       FinalizeSucceeded
  <2>2. left["api"] = 0 /\ Marking
    BY <2>1 DEF Remembered
  <2>3. QED
    BY <1>0, <1>1, <2>1, <2>2 DEF Marking
<1>6. QED
  BY <1>2, <1>3, <1>4, <1>5 DEF ExecuteRotation, FailStatus, Abort, Prune, Return, ReturnError, GoIdle

LEMMA RememberedStep == Known /\ Account /\ Remembered /\ [Next]_vars => Remembered'
<1> SUFFICES ASSUME Known, Account, Remembered, [Next]_vars PROVE Remembered'
  OBVIOUS
<1>0. /\ left["api"] \in Nat /\ left'["api"] \in Nat /\ left'["api"] <= left["api"]
      /\ left["api"] <= 1 /\ left'["api"] <= 1
  <2>1. left["api"] \in Nat /\ left'["api"] \in Nat /\ left'["api"] <= left["api"]
        /\ left["api"] <= 1
    BY LeftStep DEF Remembered
  <2>2. QED
    BY <2>1
<1>1. CASE Reconcile /\ ~StartRotation
  BY <1>0, <1>1, QuietRemembers DEF Remembered
<1>2. CASE StartRotation
  <2>1. pc' = "create"
    BY <1>2 DEF StartRotation
  <2>2. QED
    BY <1>0, <1>2, <2>1, StartRemembers DEF Remembered
<1>3. CASE ExecuteRotation
  <2>1. pc # "idle" /\ ~Reconcile
    BY <1>3 DEF ExecuteRotation, CreateRecord, CallProvider, RecordProviderFailure, FailStatus,
       Abort, WriteSecret, ClearAnnotation, RestartWorkload, FinalizeSucceeded, StatusReady, Prune,
       Reconcile, TakeKey, GetNotFound, HandleDeletion, EnsureFinalizer, SetSuspended,
       SetProviderUnhealthy, MarkDegraded, NotDue, StartRotation
  <2>2. api'.exists
    BY <2>1, StaysInRotation
  <2>3. Pending => Pending'
    BY <2>1, <2>2, PendingStays
  <2>4. CASE pc' = "idle"
    BY <1>0, <1>3, <2>4, EndRemembers DEF Remembered
  <2>5. CASE pc' # "idle" /\ Pending'
    BY <1>0, <2>5 DEF Remembered
  <2>6. CASE pc' # "idle" /\ ~Pending'
    BY <1>0, <1>3, <2>3, <2>6, MiddleRemembers DEF Remembered
  <2>7. QED
    BY <2>4, <2>5, <2>6
<1>4. CASE Crash
  <2>1. pc' = "idle" /\ api' = api /\ (api.exists => wake' = ReadyNow)
    BY <1>4 DEF Crash, GoIdle, Relist
  <2>2. QED
    BY <1>0, <2>1 DEF Remembered, Pending, ReadyNow, Nil
<1>5. CASE ~Reconcile /\ ~ExecuteRotation /\ ~Crash
  <2>1. UNCHANGED <<pc, obj>>
    BY <1>5, ElsewhereKeeps
  <2>2. CASE Pending'
    BY <1>0, <2>1, <2>2 DEF Remembered
  <2>3. CASE ~Pending'
    <3>1. api' = api
      BY <2>3, ChangeShows DEF Pending
    <3>2. ~Pending \/ ~api.exists
      BY <1>5, <2>3, <3>1, PendingStays
    <3>3. pc # "idle" => ~Pending
      BY <3>2, StaysInRotation
    <3>4. QED
      BY <1>0, <2>1, <3>1, <3>2, <3>3 DEF Remembered, Marking
  <2>4. QED
    BY <2>2, <2>3
<1>6. QED
  BY <1>1, <1>2, <1>3, <1>4, <1>5

-----------------------------------------------------------------------------
(* Once per slot, when nothing disturbs the controller: no user, no crash, no   *)
(* failed call to the API server, and informers that caught up before each      *)
(* reconcile; the provider may fail.  Then the copy of a rotation stays the     *)
(* object, so the status that records the write goes through, and the next      *)
(* rotation starts from it.                                                     *)

Undisturbed == \A kind \in {"user", "crash", "api"} : left[kind] = 0

InStep ==
  /\ ~api.deleting
  /\ pc # "idle" => obj.rv = api.rv
  /\ pc \in {"create", "call", "write"} => secretSeen

\* A value that was written is recorded, but for the one of the attempt under way.
Recorded ==
  \A n \in Attempts :
    log[n].wrote # Nil =>
      \/ n = Attempt /\ pc \in {"clear", "restart", "status"}
      \/ log[n].wrote <= api.status.last

\* OncePerSlot, for an attempt as soon as it begins.
Apart ==
  \A i, j \in Attempts :
    i < j /\ log[i].wrote # Nil /\ ~log[j].manual /\ log[j].window = 0
    => LET slots == FiresAfter(log[j].schedule, log[i].wrote)
       IN  slots = {} \/ \E s \in slots : s <= log[j].start

LEMMA UndisturbedStep == Known /\ Undisturbed /\ [Next]_vars => Undisturbed'
<1> SUFFICES ASSUME Known, Undisturbed, [Next]_vars PROVE Undisturbed'
  OBVIOUS
<1>1. left \in [Kinds -> Nat]
  BY DEF Known, TypeOK
<1>2. ASSUME NEW kind \in Kinds, Spend(kind) PROVE Undisturbed'
  <2>1. kind \notin {"user", "crash", "api"}
    BY <1>2 DEF Spend, Undisturbed
  <2>2. \A k \in Kinds \ {"provider"} : left'[k] = left[k]
    BY <1>1, <1>2, <2>1 DEF Kinds, Spend
  <2>3. {"user", "crash", "api"} \subseteq Kinds \ {"provider"}
    BY DEF Kinds
  <2>4. QED
    BY <2>2, <2>3, Zenon DEF Undisturbed
<1>3. QED
  BY <1>2, BudgetStep DEF Undisturbed

\* A write from a current copy takes effect, and the caller is told so.
LEMMA CallSucceeds ==
  ASSUME Undisturbed, NEW o, Current(o), NEW new, NEW ok, Call(o, new, ok)
  PROVE  ok
BY DEF Undisturbed, Call, Spend

\* The rotation begins with the object in hand.
LEMMA StartInStep ==
  ASSUME Known, Undisturbed, MaxLag = 0, StartRotation
  PROVE  /\ cache = api /\ secretSeen /\ secretSeen' = secretSeen
         /\ obj' = api' /\ pc' = "create"
<1>1. cache = api /\ secretSeen
  <2>1. Len(watch) <= 0 /\ secretSeen
    BY DEF StartRotation, TakeKey
  <2>2. watch = <<>>
    BY <2>1 DEF Known, TypeOK, StoreTypeOK
  <2>3. QED
    BY <2>1, <2>2, CaughtUp
<1>2. Current(Marked)
  <2>1. cache \in Policy /\ cache.exists
    BY DEF StartRotation, Rotatable, Live, Known, TypeOK, StoreTypeOK
  <2>2. QED
    BY <1>1, <2>1 DEF Current, Marked, Policy
<1>3. PICK ok \in BOOLEAN :
        Call(Marked, StatusWrite(Marked), ok) /\ obj' = IF ok THEN api' ELSE Marked
  BY DEF StartRotation, Store
<1>4. ok
  BY <1>2, <1>3, CallSucceeds
<1>5. QED
  BY <1>1, <1>3, <1>4 DEF StartRotation, secretVars

\* Every write of a rotation goes through, and leaves the object in hand.
LEMMA RotationInStep ==
  ASSUME Known, Undisturbed, InStep, ExecuteRotation
  PROVE  /\ pc # "idle"
         /\ pc' # "idle" => obj'.rv = api'.rv
         /\ pc' \in {"call", "write"} => secretSeen'
         /\ pc' # "create"
         /\ StatusReady => pc' = "prune"
<1>1. /\ pc # "idle" /\ pc' # "create" /\ StoreTypeOK
      /\ pc' \in {"call", "write"} => secretSeen' = secretSeen /\ pc \in {"create", "call"}
  BY DEF ExecuteRotation, CreateRecord, CallProvider, RecordProviderFailure, FailStatus, Abort,
     WriteSecret, SecretError, ClearAnnotation, RestartWorkload, FinalizeSucceeded, StatusReady,
     Prune, Return, ReturnError, StatusError, GoIdle, secretVars, Known, TypeOK
<1>2. obj \in Policy /\ \A o \in Policy : o.rv = obj.rv => Current(o)
  BY <1>1 DEF Known, TypeOK, WorkerTypeOK, InStep, Holding, Held, Current
<1>3. CASE ClearAnnotation
  <2> DEFINE o == [obj EXCEPT !.rotateNow = FALSE]
  <2>1. o \in Policy /\ o.rv = obj.rv
    BY <1>2, CopyTypes DEF SameCopy
  <2>2. PICK ok \in BOOLEAN : Call(o, MainWrite(o), ok) /\ obj' = IF ok THEN api' ELSE o
    BY <1>3 DEF ClearAnnotation, Store
  <2> HIDE DEF o
  <2>3. ok
    BY <1>2, <2>1, <2>2, CallSucceeds
  <2>4. pc = "clear" /\ ~StatusReady
    BY <1>3 DEF ClearAnnotation, StatusReady
  <2>5. QED
    BY <1>1, <2>2, <2>3, <2>4 DEF InStep
<1>4. CASE StatusReady
  <2> DEFINE o == [obj EXCEPT !.status = Done]
  <2>1. o \in Policy /\ o.rv = obj.rv
    BY <1>1, <1>2, StatusTypes DEF Known, Policy
  <2>2. \/ Store(o, StatusWrite(o), TRUE) /\ pc' = "prune"
        \/ Call(o, StatusWrite(o), FALSE)
    BY <1>4 DEF StatusReady
  <2> HIDE DEF o
  <2>3. ~Call(o, StatusWrite(o), FALSE)
    BY <1>2, <2>1, CallSucceeds
  <2>4. obj' = api' /\ pc' = "prune"
    BY <2>2, <2>3 DEF Store
  <2>5. QED
    BY <1>1, <2>4 DEF InStep
<1>5. CASE ~ClearAnnotation /\ ~StatusReady
  <2>1. pc' = "idle" \/ UNCHANGED <<obj, api>>
    BY <1>5 DEF ExecuteRotation, CreateRecord, CallProvider, RecordProviderFailure, FailStatus,
       Abort, WriteSecret, RestartWorkload, FinalizeSucceeded, Prune, Return, ReturnError, GoIdle,
       storeVars
  <2>2. QED
    BY <1>1, <1>5, <2>1 DEF InStep
<1>6. QED
  BY <1>3, <1>4, <1>5

\* Nobody but the worker writes the object.
LEMMA NobodyElse ==
  ASSUME Known, Undisturbed, InStep, [Next]_vars, ~Reconcile, ~ExecuteRotation
  PROVE  /\ UNCHANGED <<api, pc, obj, log>>
         /\ secretSeen => secretSeen'
<1>1. ~User /\ ~Crash
  BY DEF Undisturbed, User, Edit, Request, Delete, UserAction, Crash, Spend
<1>2. ~ReleaseHold
  BY DEF InStep, ReleaseHold, DropHold
<1>3. QED
  BY <1>1, <1>2 DEF Next, Informers, Deliver, DeliverNext, RecordSync, SecretSync, Collector,
     CollectRecords, Tick, vars, storeVars, localVars, secretVars

LEMMA InStepStep ==
  ASSUME Known, Undisturbed, InStep, MaxLag = 0, [Next]_vars
  PROVE  InStep'
<1>1. ~api'.deleting
  <2>1. CASE Reconcile \/ ExecuteRotation
    BY <2>1, ReconcileKeepsEdits, RotationKeepsEdits DEF Known, KeepsEdits, InStep
  <2>2. CASE ~Reconcile /\ ~ExecuteRotation
    BY <2>2, NobodyElse DEF InStep
  <2>3. QED
    BY <2>1, <2>2
<1>2. CASE Reconcile /\ ~StartRotation
  <2>1. pc' = "idle"
    BY <1>2, QuietRemembers
  <2>2. QED
    BY <1>1, <2>1 DEF InStep
<1>3. CASE StartRotation
  BY <1>1, <1>3, StartInStep DEF InStep
<1>4. CASE ExecuteRotation
  BY <1>1, <1>4, RotationInStep DEF InStep
<1>5. CASE ~Reconcile /\ ~ExecuteRotation
  BY <1>1, <1>5, NobodyElse DEF InStep
<1>6. QED
  BY <1>2, <1>3, <1>4, <1>5

\* The step that writes the Secret, and where its rotation goes from there.
LEMMA WriteStep ==
  ASSUME Known, Account, Undisturbed, [Next]_vars, NEW n \in Attempts,
         log'[n].wrote # log[n].wrote
  PROVE  n = Attempt /\ Attempt' = Attempt /\ pc' \in {"clear", "restart"}
<1>1. n = Attempt /\ Attempt' = Attempt /\ log # <<>> /\ RecordsTypeOK
  BY LogGrows DEF Grown, Known, TypeOK, WorkerTypeOK
<1>2. WriteSecret /\ log' = Noted("wrote", now)
  <2>1. log' # log
    OBVIOUS
  <2>2. ~(\E value : log' = Noted("told", value))
    BY <1>1, NotedEntries
  <2>3. ~(log' = Noted("failed", now))
    BY <1>1, NotedFields DEF Known, TypeOK, WorkerTypeOK
  <2>4. ~(log' = Append(log, NewEntry(cache.rotateNow)))
    BY <1>1 DEF Attempt, RecordsTypeOK
  <2>5. QED
    BY <2>1, <2>2, <2>3, <2>4, LogStep
<1>3. ~Spend("api")
  BY DEF Undisturbed, Spend
<1>4. pc' \in {"clear", "restart"}
  BY <1>2, <1>3 DEF WriteSecret
<1>5. QED
  BY <1>1, <1>4

\* An attempt begins with what it reads in the cache and nothing written.
LEMMA NewEntryFields ==
  \A manual :
    /\ NewEntry(manual).manual = manual /\ NewEntry(manual).start = now
    /\ NewEntry(manual).schedule = cache.spec.schedule
    /\ NewEntry(manual).window = cache.spec.window
    /\ NewEntry(manual).wrote = Nil
BY Zenon DEF NewEntry

LEMMA RecordedStep ==
  ASSUME Known, Account, Clocked, Undisturbed, InStep, Recorded, [Next]_vars
  PROVE  Recorded'
<1> SUFFICES ASSUME NEW n \in Attempts', log'[n].wrote # Nil
             PROVE  \/ n = Attempt' /\ pc' \in {"clear", "restart", "status"}
                    \/ log'[n].wrote <= api'.status.last
  BY DEF Recorded
<1>0. RecordsTypeOK /\ RecordsTypeOK' /\ now \in Int /\ api.status.last \in Int
  BY TypeStep DEF Known, TypeOK, WorkerTypeOK, StoreTypeOK, Policy, Status, MaybeTime, Time, Nil
<1>1. CASE n \notin Attempts
  <2>1. Attempt' # Attempt
    BY <1>0, <1>1 DEF Attempt, Attempts
  <2>2. log' = Append(log, NewEntry(cache.rotateNow)) /\ Attempt' = Attempt + 1
    BY <2>1, NewAttempt
  <2>3. n = Len(log) + 1
    BY <1>0, <1>1, <2>2 DEF Attempt, Attempts, RecordsTypeOK
  <2>4. log'[n] = NewEntry(cache.rotateNow)
    BY <1>0, <2>2, <2>3 DEF RecordsTypeOK
  <2>5. QED
    BY <2>4, NewEntryFields
<1>2. CASE n \in Attempts /\ log'[n].wrote # log[n].wrote
  BY <1>2, WriteStep
<1>3. CASE n \in Attempts /\ log'[n].wrote = log[n].wrote /\ log[n].wrote <= api.status.last
  <2>1. log[n].wrote <= now /\ log[n].wrote \in Int
    BY <1>0, <1>3, EntryTypes DEF Clocked
  <2>2. QED
    BY <1>3, <2>1, LastStep
<1>4. CASE n \in Attempts /\ log'[n].wrote = log[n].wrote /\ ~(log[n].wrote <= api.status.last)
  <2>1. n = Attempt /\ pc \in {"clear", "restart", "status"}
    BY <1>3, <1>4 DEF Recorded
  <2>2. ~Reconcile
    BY <2>1 DEF Reconcile, TakeKey, GetNotFound, HandleDeletion, EnsureFinalizer, SetSuspended,
       SetProviderUnhealthy, MarkDegraded, NotDue, StartRotation
  <2>3. Attempt' = Attempt
    BY <2>2, NewAttempt DEF Reconcile
  <2>4. CASE ~ExecuteRotation
    BY <2>1, <2>2, <2>3, <2>4, NobodyElse
  <2>5. CASE StatusReady
    <3>1. api'.status.last = now
      BY <2>5, RecordEffect, RotationInStep DEF ExecuteRotation
    <3>2. QED
      BY <1>0, <1>4, <3>1 DEF Clocked
  <2>6. CASE ExecuteRotation /\ ~StatusReady
    <3>1. pc' \in {"restart", "status"}
      BY <2>1, <2>6 DEF ExecuteRotation, CreateRecord, CallProvider, RecordProviderFailure,
         FailStatus, Abort, WriteSecret, ClearAnnotation, RestartWorkload, FinalizeSucceeded, Prune
    <3>2. QED
      BY <2>1, <2>3, <3>1
  <2>7. QED
    BY <2>4, <2>5, <2>6
<1>5. QED
  BY <1>1, <1>2, <1>3, <1>4

\* What is noted at the beginning of an attempt stays.
LEMMA OriginStays ==
  ASSUME Known, [Next]_vars, NEW n \in Attempts
  PROVE  /\ log'[n].manual = log[n].manual /\ log'[n].window = log[n].window
         /\ log'[n].schedule = log[n].schedule /\ log'[n].start = log[n].start
<1>0. log \in Seq(Entry)
  BY DEF Known, TypeOK, RecordsTypeOK
<1>1. CASE log' = Append(log, NewEntry(cache.rotateNow))
  <2>1. log'[n] = log[n]
    BY <1>0, <1>1 DEF Attempts
  <2>2. QED
    BY <2>1
<1>2. ASSUME NEW field \in {"failed", "wrote", "told"}, NEW value, log' = Noted(field, value)
      PROVE  /\ log'[n].manual = log[n].manual /\ log'[n].window = log[n].window
             /\ log'[n].schedule = log[n].schedule /\ log'[n].start = log[n].start
  <2>1. n \in DOMAIN log /\ log[n] \in Entry
    BY <1>0 DEF Attempts
  <2>2. log'[n] = log[n] \/ log'[n] = [log[n] EXCEPT ![field] = value]
    BY <1>0, <1>2, <2>1 DEF Noted
  <2>3. QED
    BY <1>2, <2>1, <2>2 DEF Entry
<1>3. QED
  BY <1>1, <1>2, LogStep

\* A scheduled rotation begins after a slot that no value written before served.
LEMMA StartApart ==
  ASSUME Known, Account, Undisturbed, Recorded, MaxLag = 0, StartRotation,
         ~cache.rotateNow, cache.spec.window = 0, NEW i \in Attempts, log[i].wrote # Nil
  PROVE  LET slots == FiresAfter(cache.spec.schedule, log[i].wrote)
         IN  slots = {} \/ \E s \in slots : s <= now
<1>1. cache = api /\ pc = "idle"
  BY StartInStep DEF StartRotation, TakeKey
<1>2. log[i].wrote <= api.status.last
  BY <1>1 DEF Recorded
<1>3. log[i].wrote \in Time /\ now \in Time /\ api.status.last \in MaybeTime
  BY EntryTypes DEF Known, TypeOK, WorkerTypeOK, RecordsTypeOK, StoreTypeOK, Policy, Status, Entry,
     MaybeTime
<1>4. api.status.last \in Time /\ api.status.last <= now
  BY <1>2, <1>3 DEF MaybeTime, Time, Nil, Account, Timely
<1>5. IsDue(api.spec.schedule, api.status.last, 0, now)
  BY <1>1 DEF StartRotation, Wanted, Due
<1>6. QED
  BY <1>1, <1>2, <1>3, <1>4, <1>5, DueAfterSlot

LEMMA ApartStep ==
  ASSUME Known, Account, Undisturbed, Recorded, Apart, MaxLag = 0, [Next]_vars
  PROVE  Apart'
<1> SUFFICES ASSUME NEW i \in Attempts', NEW j \in Attempts', i < j, log'[i].wrote # Nil,
                    ~log'[j].manual, log'[j].window = 0
             PROVE  LET slots == FiresAfter(log'[j].schedule, log'[i].wrote)
                    IN  slots = {} \/ \E s \in slots : s <= log'[j].start
  BY DEF Apart
<1>0. RecordsTypeOK /\ Attempt \in Nat
  BY DEF Known, TypeOK, RecordsTypeOK, Attempt
<1>1. Attempts = 1..Attempt /\ Attempts' = 1..Attempt' /\ Attempt' \in {Attempt, Attempt + 1}
  BY LogGrows DEF Grown, Attempts, Attempt
<1>2. i \in Attempts /\ log'[i] = log[i]
  <2>1. i \in Attempts /\ (Attempt' = Attempt => i # Attempt)
    BY <1>0, <1>1
  <2>2. QED
    BY <2>1, LogGrows DEF Grown
<1>3. CASE j \in Attempts
  BY <1>2, <1>3, OriginStays DEF Apart
<1>4. CASE j \notin Attempts
  <2>1. Attempt' # Attempt /\ j = Attempt + 1
    BY <1>0, <1>1, <1>4
  <2>2. StartRotation /\ log' = Append(log, NewEntry(cache.rotateNow))
    BY <2>1, NewAttempt
  <2>3. log'[j] = NewEntry(cache.rotateNow)
    BY <1>0, <2>1, <2>2 DEF RecordsTypeOK, Attempt
  <2>4. /\ log'[j].manual = cache.rotateNow /\ log'[j].window = cache.spec.window
        /\ log'[j].schedule = cache.spec.schedule /\ log'[j].start = now
    BY <2>3, NewEntryFields
  <2>5. QED
    BY <1>2, <2>2, <2>4, StartApart
<1>5. QED
  BY <1>3, <1>4

-----------------------------------------------------------------------------
(* The theorems. *)

Evidence ==
  /\ Clocked /\ Restarted /\ RecordsTellTruth /\ Sightings
  /\ Announced /\ NotificationsTellTruth

LEMMA EvidenceInit == Init => Evidence
<1> SUFFICES ASSUME Init PROVE Evidence
  OBVIOUS
<1>1. /\ pc = "idle" /\ Attempts = {} /\ Attempt = 0 /\ DOMAIN records = {} /\ Len(watch) = 0
      /\ DOMAIN log = {}
  BY DEF Init, StoreInit, Attempts, Attempt
<1>2. cache.status = NewStatus /\ NewStatus.last = Nil /\ NewStatus.record = Nil
  BY DEF Init, StoreInit, NewStatus
<1>3. \A t \in Targets : workloads[t] = 0
  BY DEF Init
<1>4. Sightings
  BY <1>1, <1>2 DEF Sightings, Honest, Version, VersionNumbers, Attempt, Nil
<1>5. QED
  BY <1>1, <1>3, <1>4 DEF Evidence, Clocked, Restarted, RecordsTellTruth, Announced,
     NotificationsTellTruth

LEMMA EvidenceKept == Spec => [](Known /\ Account /\ Evidence)
<1>1. Known /\ Account /\ Evidence /\ [Next]_vars => Evidence'
  BY ClockedStep, RestartedStep, RecordsTruthStep, SightingsStep, AnnouncedStep, NotificationsStep
     DEF Evidence
<1>2. QED
  BY <1>1, AccountKept, EvidenceInit, PTL DEF Spec

\* For every number of targets and attempts and every budget of faults: a record
\* that says Succeeded is about a value that reached the Secret, and each
\* workload it lists runs with that value or a later one.
THEOREM RecordsAreTrue == Spec => []RecordsTellTruth
<1>1. Evidence => RecordsTellTruth
  BY DEF Evidence
<1>2. QED
  BY <1>1, EvidenceKept, PTL

\* Whatever version of the policy a reader sees, however late: lastRotationTime
\* and lastRotationRecord in it are those of a rotation that wrote the Secret.
THEOREM LastRotationIsHonest == Spec => []LastRotationHonest
<1>1. Known /\ Evidence => LastRotationHonest
  BY SightingsImply DEF Evidence
<1>2. QED
  BY <1>1, EvidenceKept, PTL

\* A success is announced only when the Secret took the value and the status says
\* so, a failure only when the provider refused and nothing was written.
THEOREM NotificationsAreTrue == Spec => []NotificationsTellTruth
<1>1. Evidence => NotificationsTellTruth
  BY DEF Evidence
<1>2. QED
  BY <1>1, EvidenceKept, PTL

\* With any number of edits, crashes and failures of the provider, and at most one
\* failed call to the API server, a policy never falls out of the work queue,
\* whatever backoff the user wrote.  Two failed calls are enough to lose it.
THEOREM NotForgotten ==
  ASSUME \A budget \in Budgets : budget["api"] <= 1
  PROVE  Spec => []NeverForgotten
<1>1. Init => Remembered
  <2> SUFFICES ASSUME Init PROVE Remembered
    OBVIOUS
  <2>1. left["api"] <= 1 /\ pc = "idle" /\ wake = ReadyNow
    BY DEF Init
  <2>2. QED
    BY <2>1 DEF Remembered, Pending, ReadyNow, Nil
<1>2. Remembered => NeverForgotten
  BY DEF Remembered, NeverForgotten, Quiet, Pending
<1>3. QED
  BY <1>1, <1>2, AccountKept, RememberedStep, PTL DEF Spec

\* When the cache has caught up before each reconcile, and nothing but the provider
\* fails, two values are never written for one slot of a schedule without window,
\* whatever the schedule, the delays, the targets and the length of the rotations.
\* An edit, a crash or a failed call between the write of the Secret and the status
\* that records it is enough for a second value.
THEOREM WritesOncePerSlot ==
  ASSUME MaxLag = 0,
         \A budget \in Budgets : \A kind \in {"user", "crash", "api"} : budget[kind] = 0
  PROVE  Spec => []OncePerSlot
<1> DEFINE Inv == Undisturbed /\ InStep /\ Recorded /\ Apart
<1>1. Init => Inv
  <2> SUFFICES ASSUME Init PROVE Inv
    OBVIOUS
  <2>1. Attempts = {} /\ pc = "idle"
    BY DEF Init, Attempts
  <2>2. ~api.deleting
    BY DEF Init, StoreInit
  <2>3. Undisturbed
    BY DEF Init, Undisturbed
  <2>4. QED
    BY <2>1, <2>2, <2>3 DEF InStep, Recorded, Apart
<1>2. Known /\ Account /\ Evidence /\ Inv /\ [Next]_vars => Inv'
  BY UndisturbedStep, InStepStep, RecordedStep, ApartStep DEF Evidence
<1>3. Inv => OncePerSlot
  BY DEF Apart, OncePerSlot
<1> HIDE DEF Inv
<1>4. QED
  BY <1>1, <1>2, <1>3, EvidenceKept, PTL DEF Spec
=============================================================================
