----------------------------- MODULE Reconciler -----------------------------
(***************************************************************************)
(* SecretRotationPolicyReconciler (internal/controller): one worker        *)
(* reconciling one policy against an API server that lags, conflicts and   *)
(* fails, while the user edits, requests and deletes, and the process may  *)
(* crash between any two calls.                                            *)
(*                                                                         *)
(* A reconcile that does not rotate reads the cache once and writes the    *)
(* object at most once, so it is one action.  A rotation is one action per *)
(* call: mark Rotating, create the record, call the provider, write the    *)
(* Secret, clear the annotation, restart each workload, finalize the       *)
(* record, update the status, prune and notify.                            *)
(***************************************************************************)
EXTENDS PolicyStore, FiniteSets

CONSTANTS
  NumTargets,      \* number of spec.restartTargets
  HistoryLimit,    \* spec.policy.historyLimit
  RetryBackoff,    \* spec.policy.retryBackoff, thirty seconds by default
  SuspendDelay,    \* RequeueAfter of setSuspended (five minutes)
  UnhealthyDelay,  \* RequeueAfter of setProviderUnhealthy and markDegraded (one)
  MaxLag,          \* bound on the versions the cache is behind at a reconcile
  MaxTime,         \* bound on the clock
  MaxAttempts,     \* bound on the rotations started
  Budgets          \* how many faults and user actions of each kind may happen

Kinds == {"user", "crash", "api", "provider"}

\* Nothing keeps a user from writing a backoff of zero or less.
ASSUME DelaysAssumption ==
  /\ RetryBackoff \in Int
  /\ {SuspendDelay, UnhealthyDelay} \subseteq Nat \ {0}
ASSUME LimitsAssumption ==
  /\ HistoryLimit \in Nat \ {0}
  /\ {NumTargets, MaxLag, MaxTime, MaxAttempts} \subseteq Nat
ASSUME BudgetsAssumption == Budgets \subseteq [Kinds -> Nat]

VARIABLES
  now,             \* the wall clock
  wake,            \* the policy's key in the work queue
  pc,              \* where the worker is, "idle" between reconciles
  obj,             \* the worker's copy of the policy during a rotation
  job,             \* the other locals of executeRotation
  records,         \* the RotationRecords in the API server, by attempt
  listed,          \* creation times of the records in the informer cache
  recordEvent,     \* a record changed since the informer last caught up
  secret,          \* the attempt whose value the target Secret holds, 0: none
  secretSeen,      \* the informer cache has the present Secret
  workloads,       \* the attempt that last restarted each target, 0: none
  activePolicies,  \* the gauge of that name
  log,             \* history: what each attempt did
  asked,           \* history: the attempts begun when rotate-now was last set
  left             \* what is left of the budget

localVars == <<pc, obj, job>>
recordVars == <<records, listed, recordEvent>>
secretVars == <<secret, secretSeen>>
vars == <<api, cache, watch, now, wake, pc, obj, job, records, listed,
          recordEvent, secret, secretSeen, workloads, activePolicies, log, asked, left>>

Targets == 1..NumTargets
Attempts == 1..Len(log)

RecordPhases == {"Unset", "Succeeded", "Failed"}
Record == [at : Time, phase : RecordPhases, restarts : SUBSET Targets]

\* manual: the parameter of executeRotation; named: record.Name was filled in by
\* a successful create; target: the loop of triggerRestarts.
Job == [manual : BOOLEAN, named : BOOLEAN, restarted : SUBSET Targets, target : Nat \ {0}]

NoObj == [rv |-> 0]
NoJob == [target |-> 0]

Entry ==
  [manual : BOOLEAN, start : Time, schedule : STRING, window : Nat,
   failed : MaybeTime,   \* when the provider refused, Nil if it did not
   wrote : MaybeTime,    \* when the Secret took the new value, Nil if never
   told : {"", "RotationSucceeded", "RotationFailed"}]   \* the event dispatched

PCs == {"idle", "create", "call", "providerFailed", "failStatus", "abort",
        "write", "clear", "restart", "status", "prune"}

WorkerTypeOK ==
  /\ now \in Time
  /\ wake \in Nat \cup {Nil}
  /\ pc \in PCs
  /\ pc # "idle" => obj \in Policy /\ job \in Job /\ log # <<>>

RecordsTypeOK ==
  /\ log \in Seq(Entry)
  /\ DOMAIN records \subseteq Attempts
  /\ \A n \in DOMAIN records : records[n] \in Record
  /\ DOMAIN listed \subseteq Attempts
  /\ \A n \in DOMAIN listed : listed[n] \in Time
  /\ recordEvent \in BOOLEAN

TypeOK ==
  /\ StoreTypeOK
  /\ WorkerTypeOK
  /\ RecordsTypeOK
  /\ secret \in Nat /\ secret <= Len(log)
  /\ secretSeen \in BOOLEAN
  /\ workloads \in [Targets -> Nat]
  /\ activePolicies \in Int
  /\ asked \in Nat
  /\ left \in [Kinds -> Nat]

Init ==
  /\ StoreInit
  /\ now = 1
  /\ wake = ReadyNow
  /\ pc = "idle" /\ obj = NoObj /\ job = NoJob
  /\ records = <<>> /\ listed = <<>> /\ recordEvent = FALSE
  /\ secret = 0 /\ secretSeen = TRUE
  /\ workloads = [t \in Targets |-> 0]
  /\ activePolicies = 0
  /\ log = <<>> /\ asked = 0
  /\ left \in Budgets

-----------------------------------------------------------------------------
(* Calls to the API server *)

Spend(kind) ==
  /\ left[kind] > 0
  /\ left' = [left EXCEPT ![kind] = @ - 1]

\* One write of the policy from the copy o.  ok is what the caller sees: the
\* write may be refused for its version, fail for another reason, or take
\* effect while its answer is lost.
Call(o, new, ok) ==
  \/ ok /\ Current(o) /\ Publish(new) /\ UNCHANGED left
  \/ ~ok /\ ~Current(o) /\ UNCHANGED <<api, watch, left>>
  \/ ~ok /\ Spend("api") /\ UNCHANGED <<api, watch>>
  \/ ~ok /\ Current(o) /\ Spend("api") /\ Publish(new)

\* A write of the copy during a rotation: a success is decoded into the copy, a
\* failure leaves the copy as it was changed locally, its version included.
Store(o, new, ok) ==
  /\ Call(o, new, ok)
  /\ obj' = IF ok THEN api' ELSE o

\* The attempt under way.
Attempt == Len(log)

\* Note something about the attempt under way.
Noted(field, value) == [log EXCEPT ![Attempt][field] = value]

\* Variant: the locals go but the place in the code stays.
KeepPlace == obj' = NoObj /\ job' = NoJob /\ UNCHANGED pc

\* executeRotation returns, or the process dies: its locals are gone.
GoIdle == pc' = "idle" /\ obj' = NoObj /\ job' = NoJob

\* The worker is done with the key and asks for it again after a delay; events
\* that came in meanwhile are in wake already.
Return(delay) == GoIdle /\ wake' = After(wake, now, delay)

\* Variant: the error is swallowed.
NoRetry(queued) == queued

\* What an error returned by Reconcile does to the key, queued or not: back at
\* once, for the rate limiter counts in milliseconds.
Retry(queued) == ReadyNow

ReturnError == GoIdle /\ wake' = Retry(wake)

-----------------------------------------------------------------------------
(* Reconcile: the paths that do not rotate *)

\* A free worker takes the key.  MaxLag = 0 stands for informers that caught up.
TakeKey ==
  /\ pc = "idle"
  /\ Ready(wake, now)
  /\ Len(watch) <= MaxLag
  /\ MaxLag = 0 => secretSeen /\ ~recordEvent

\* Variant: the rotation does not wait for the finalizer.
LiveWithoutFinalizer == cache.exists /\ ~cache.deleting

Live == cache.exists /\ ~cache.deleting /\ Finalizer \in cache.finalizers
Rotatable == Live /\ ~cache.spec.suspend /\ cache.spec.provider # "invalid"

Degraded == ScheduleError(cache.spec.schedule, cache.status.last)
Due == IsDue(cache.spec.schedule, cache.status.last, cache.spec.window, now)

\* Variant: the annotation is not looked at.
OnlyDue == Due

Wanted == Due \/ cache.rotateNow

\* Variant: the path returns an empty Result.
NotLater(delay) == wake' = Nil

\* RequeueAfter on a path that does not rotate.
Later(delay) == wake' = After(Nil, now, delay)

\* What a reconcile that only writes the policy leaves alone.
Elsewhere == <<cache, now, localVars, recordVars, secretVars, workloads, log, asked>>

\* The object is not in the cache any more.
GetNotFound ==
  /\ TakeKey
  /\ ~cache.exists
  /\ wake' = Nil
  /\ UNCHANGED <<api, watch, left, activePolicies, Elsewhere>>

\* Variant: every finalizer goes, whoever set it.
ReleasedByAll(o) == [o EXCEPT !.finalizers = {}]

Released(o) == [o EXCEPT !.finalizers = @ \ {Finalizer}]

\* handleDeletion: the gauge goes down whenever the finalizer is not, or no
\* longer, there.
HandleDeletion ==
  /\ TakeKey
  /\ cache.exists /\ cache.deleting
  /\ \/ /\ Finalizer \notin cache.finalizers
        /\ activePolicies' = activePolicies - 1
        /\ wake' = Nil
        /\ UNCHANGED <<api, watch, left>>
     \/ /\ Finalizer \in cache.finalizers
        /\ \E ok \in BOOLEAN :
             /\ Call(cache, MainWrite(Released(cache)), ok)
             /\ wake' = IF ok THEN Nil ELSE Retry(Nil)
             /\ activePolicies' = IF ok THEN activePolicies - 1 ELSE activePolicies
  /\ UNCHANGED Elsewhere

\* Both outcomes bring the key back: Requeue on success, the error otherwise.
EnsureFinalizer ==
  /\ TakeKey
  /\ cache.exists /\ ~cache.deleting /\ Finalizer \notin cache.finalizers
  /\ \E ok \in BOOLEAN :
       /\ Call(cache, MainWrite([cache EXCEPT !.finalizers = @ \cup {Finalizer}]), ok)
       /\ wake' = IF ok THEN ReadyNow ELSE Retry(Nil)
  /\ UNCHANGED <<activePolicies, Elsewhere>>

SetSuspended ==
  /\ TakeKey
  /\ Live /\ cache.spec.suspend
  /\ \E ok \in BOOLEAN :
       /\ Call(cache, StatusWrite([cache EXCEPT !.status.phase = "Suspended",
                                                !.status.ready = "False"]), ok)
       /\ IF ok THEN Later(SuspendDelay) ELSE wake' = Retry(Nil)
  /\ UNCHANGED <<activePolicies, Elsewhere>>

\* The error of the status update is ignored, here and in the two that follow.
SetProviderUnhealthy ==
  /\ TakeKey
  /\ Live /\ ~cache.spec.suspend /\ cache.spec.provider = "invalid"
  /\ \E ok \in BOOLEAN :
       Call(cache, StatusWrite([cache EXCEPT !.status.phase = "Failed",
                                             !.status.healthy = "False"]), ok)
  /\ Later(UnhealthyDelay)
  /\ UNCHANGED <<activePolicies, Elsewhere>>

MarkDegraded ==
  /\ TakeKey
  /\ Rotatable /\ Degraded
  /\ \E ok \in BOOLEAN :
       Call(cache, StatusWrite([cache EXCEPT !.status.degraded = TRUE]), ok)
  /\ Later(UnhealthyDelay)
  /\ UNCHANGED <<activePolicies, Elsewhere>>

\* Variant: a status built afresh replaces the one that was there.
NextInNewStatus(next) == [cache EXCEPT !.status = [NewStatus EXCEPT !.next = next]]

NextShown(next) == [cache EXCEPT !.status.next = next]

NotDue ==
  /\ TakeKey
  /\ Rotatable /\ ~Degraded
  /\ ~Wanted
  /\ LET schedule == cache.spec.schedule
         last == cache.status.last
         next == NextScheduled(schedule, last)
     IN  /\ \E ok \in BOOLEAN :
              Call(cache, StatusWrite(NextShown(next)), ok)
         /\ Later(RequeueDelay(schedule, last, cache.spec.window, now))
  /\ UNCHANGED <<activePolicies, Elsewhere>>

-----------------------------------------------------------------------------
(* executeRotation *)

NewEntry(manual) ==
  [manual |-> manual, start |-> now, schedule |-> cache.spec.schedule,
   window |-> cache.spec.window, failed |-> Nil, wrote |-> Nil, told |-> ""]

\* Variant: the time is recorded before there is anything to record.
MarkedRotated == [cache EXCEPT !.status.phase = "Rotating", !.status.last = now]

Marked == [cache EXCEPT !.status.phase = "Rotating"]

\* Due, or asked for by hand: mark the policy Rotating, whether or not the
\* write succeeds.
StartRotation ==
  /\ TakeKey
  /\ Rotatable /\ ~Degraded
  /\ Wanted
  /\ Len(log) < MaxAttempts
  /\ \E ok \in BOOLEAN : Store(Marked, StatusWrite(Marked), ok)
  /\ wake' = Nil
  /\ pc' = "create"
  /\ job' = [manual |-> cache.rotateNow, named |-> FALSE, restarted |-> {}, target |-> 1]
  /\ log' = Append(log, NewEntry(cache.rotateNow))
  /\ UNCHANGED <<cache, now, recordVars, secretVars, workloads, activePolicies, asked>>

Running == <<cache, now, wake, activePolicies>>

\* The create drops the status the code put into the record, so the record
\* starts without a phase.  A failure is logged: record.Name stays empty.
CreateRecord ==
  /\ pc = "create"
  /\ pc' = "call"
  /\ LET created == [n \in DOMAIN records \cup {Attempt} |->
                       IF n = Attempt
                         THEN [at |-> now, phase |-> "Unset", restarts |-> {}]
                         ELSE records[n]]
     IN  \/ /\ records' = created /\ recordEvent' = TRUE
            /\ job' = [job EXCEPT !.named = TRUE]
            /\ UNCHANGED left
         \/ /\ Spend("api")
            /\ UNCHANGED <<records, recordEvent, job>>
         \/ /\ Spend("api")
            /\ records' = created /\ recordEvent' = TRUE
            /\ UNCHANGED job
  /\ UNCHANGED <<storeVars, Running, obj, listed, secretVars, workloads, log, asked>>

\* prov.RotateSecret, then MapKeys on what it returned.
CallProvider ==
  /\ pc = "call"
  /\ \/ /\ obj.spec.provider = "mock"
        /\ pc' = IF obj.spec.keysOK THEN "write" ELSE "abort"
        /\ UNCHANGED <<log, left>>
     \/ /\ obj.spec.provider = "mock"
        /\ Spend("provider")
        /\ pc' = "providerFailed"
        /\ log' = Noted("failed", now)
     \/ /\ obj.spec.provider = "stub"
        /\ pc' = "providerFailed"
        /\ log' = Noted("failed", now)
        /\ UNCHANGED left
  /\ UNCHANGED <<storeVars, Running, obj, job, recordVars, secretVars, workloads, asked>>

\* finalizeRecord: the outcome goes into the record unless it has no name, was
\* deleted meanwhile, or the call fails.  Nobody looks at the error.
FinalizeRecord(phase) ==
  \/ /\ job.named /\ Attempt \in DOMAIN records
     /\ records' = [records EXCEPT ![Attempt].phase = phase,
                                   ![Attempt].restarts = job.restarted]
     /\ recordEvent' = TRUE
     /\ UNCHANGED left
  \/ /\ ~job.named \/ Attempt \notin DOMAIN records
     /\ UNCHANGED <<records, recordEvent, left>>
  \/ /\ Spend("api")
     /\ UNCHANGED <<records, recordEvent>>

RecordProviderFailure ==
  /\ pc = "providerFailed"
  /\ FinalizeRecord("Failed")
  /\ pc' = "failStatus"
  /\ UNCHANGED <<storeVars, Running, obj, job, listed, secretVars, workloads, log, asked>>

\* The provider failed: phase, Ready=False, notification, retry after the backoff.
FailStatus ==
  /\ pc = "failStatus"
  /\ LET phase == IF obj.spec.failurePolicy = "Ignore" THEN "Ready" ELSE "Failed"
         o == [obj EXCEPT !.status.phase = phase, !.status.ready = "False"]
     IN  \E ok \in BOOLEAN : Call(o, StatusWrite(o), ok)
  /\ log' = Noted("told", "RotationFailed")
  /\ Return(RetryBackoff)
  /\ UNCHANGED <<cache, now, recordVars, secretVars, workloads, activePolicies, asked>>

\* The mapping of the keys or the Secret failed: the record says so and the
\* error goes to the work queue.  The policy keeps its phase.
Abort ==
  /\ pc = "abort"
  /\ FinalizeRecord("Failed")
  /\ ReturnError
  /\ UNCHANGED <<storeVars, now, listed, secretVars, workloads, activePolicies, log, asked>>

\* Variant: the error is logged and the rotation goes on.
SecretErrorIgnored == pc' = IF job.manual THEN "clear" ELSE "restart"

SecretError == pc' = "abort"

\* CreateOrUpdate of the target Secret: refused when the copy it read from the
\* cache is not the present one.
WriteSecret ==
  /\ pc = "write"
  /\ LET Written == secret' = Attempt /\ secretSeen' = FALSE /\ log' = Noted("wrote", now)
     IN  \/ /\ secretSeen /\ Written
            /\ pc' = IF job.manual THEN "clear" ELSE "restart"
            /\ UNCHANGED left
         \/ /\ ~secretSeen
            /\ SecretError
            /\ UNCHANGED <<secretVars, log, left>>
         \/ /\ Spend("api")
            /\ SecretError
            /\ UNCHANGED <<secretVars, log>>
         \/ /\ secretSeen /\ Spend("api") /\ Written
            /\ SecretError
  /\ UNCHANGED <<storeVars, Running, obj, job, recordVars, workloads, asked>>

\* A failure is logged: the annotation stays, and with it the request.
ClearAnnotation ==
  /\ pc = "clear"
  /\ LET o == [obj EXCEPT !.rotateNow = FALSE]
     IN  \E ok \in BOOLEAN : Store(o, MainWrite(o), ok)
  /\ pc' = "restart"
  /\ UNCHANGED <<Running, job, recordVars, secretVars, workloads, log, asked>>

\* Variant: the target is listed whatever the call returned.
ListedAnyway(ok) == [job EXCEPT !.target = @ + 1, !.restarted = @ \cup {job.target}]

ListedIf(ok) ==
  [job EXCEPT !.target = @ + 1,
              !.restarted = IF ok THEN @ \cup {job.target} ELSE @]

\* triggerRestarts, one target at a time: the target joins the list of restarted
\* ones only when the call returned without error.
RestartWorkload ==
  /\ pc = "restart" /\ job.target <= NumTargets
  /\ LET Restarted == workloads' = [workloads EXCEPT ![job.target] = Attempt]
     IN  \E ok \in BOOLEAN :
           /\ job' = ListedIf(ok)
           /\ \/ ok /\ Restarted /\ UNCHANGED left
              \/ ~ok /\ Spend("api") /\ UNCHANGED workloads
              \/ ~ok /\ Spend("api") /\ Restarted
  /\ UNCHANGED <<storeVars, Running, pc, obj, recordVars, secretVars, log, asked>>

FinalizeSucceeded ==
  /\ pc = "restart" /\ job.target > NumTargets
  /\ FinalizeRecord("Succeeded")
  /\ pc' = "status"
  /\ UNCHANGED <<storeVars, Running, obj, job, listed, secretVars, workloads, log, asked>>

\* Variant: everything but the time.
DoneWithoutTime ==
  [obj.status EXCEPT !.phase = "Ready", !.record = IF job.named THEN Attempt ELSE 0,
                     !.next = NextScheduled(obj.spec.schedule, now),
                     !.ready = "True", !.healthy = "True"]

Done ==
  [obj.status EXCEPT !.phase = "Ready", !.record = IF job.named THEN Attempt ELSE 0,
                     !.next = NextScheduled(obj.spec.schedule, now),
                     !.ready = "True", !.healthy = "True", !.last = now]

\* Variant: the error of the status update is ignored like the others.
StatusErrorIgnored(o) == pc' = "prune" /\ obj' = o /\ UNCHANGED <<wake, job>>

StatusError(o) == ReturnError

\* lastRotationTime and the rest of the status.  When this write fails the
\* rotation happened but is not recorded, and the error brings the key back.
StatusReady ==
  /\ pc = "status"
  /\ LET o == [obj EXCEPT !.status = Done]
     IN  \/ /\ Store(o, StatusWrite(o), TRUE)
            /\ pc' = "prune"
            /\ UNCHANGED <<wake, job>>
         \/ /\ Call(o, StatusWrite(o), FALSE)
            /\ StatusError(o)
  /\ UNCHANGED <<cache, now, recordVars, secretVars, workloads, activePolicies, log, asked>>

\* pruneHistory sorts the listed records by creation time and deletes those in
\* excess, each delete on its own; then the notification and the return.
Oldest(count) ==
  {v \in SUBSET DOMAIN listed :
     /\ Cardinality(v) = count
     /\ \A m \in v, n \in DOMAIN listed \ v : listed[m] <= listed[n]}

Prune ==
  /\ pc = "prune"
  /\ \/ /\ Cardinality(DOMAIN listed) <= HistoryLimit
        /\ UNCHANGED <<records, recordEvent, left>>
     \/ \E doomed \in Oldest(Cardinality(DOMAIN listed) - HistoryLimit), deleted \in SUBSET DOMAIN listed :
          /\ \/ deleted = doomed /\ UNCHANGED left
             \/ deleted \subseteq doomed /\ deleted # doomed /\ Spend("api")
          /\ records' = [n \in DOMAIN records \ deleted |-> records[n]]
          /\ recordEvent' = (recordEvent \/ deleted \cap DOMAIN records # {})
  /\ log' = Noted("told", "RotationSucceeded")
  /\ Return(obj.status.next - now)
  /\ UNCHANGED <<storeVars, now, listed, secretVars, workloads, activePolicies, asked>>

-----------------------------------------------------------------------------
(* The world around the worker *)

Tick ==
  /\ now < MaxTime
  /\ now' = now + 1
  /\ UNCHANGED <<storeVars, wake, localVars, recordVars, secretVars, workloads,
                 activePolicies, log, asked, left>>

\* Every version delivered queues the key: For(policy) filters nothing out.
Deliver ==
  /\ DeliverNext
  /\ wake' = ReadyNow
  /\ UNCHANGED <<now, localVars, recordVars, secretVars, workloads,
                 activePolicies, log, asked, left>>

\* The informer of the records catches up; Owns(record) queues the owner's key.
RecordSync ==
  /\ recordEvent
  /\ listed' = [n \in DOMAIN records |-> records[n].at]
  /\ recordEvent' = FALSE
  /\ wake' = ReadyNow
  /\ UNCHANGED <<storeVars, now, localVars, records, secretVars, workloads,
                 activePolicies, log, asked, left>>

\* The informer of the Secrets catches up; nobody reconciles on a Secret.
SecretSync ==
  /\ ~secretSeen
  /\ secretSeen' = TRUE
  /\ UNCHANGED <<storeVars, now, wake, localVars, recordVars, secret, workloads,
                 activePolicies, log, asked, left>>

UserAction(action) ==
  /\ Spend("user")
  /\ action
  /\ UNCHANGED <<now, wake, localVars, recordVars, secretVars, workloads,
                 activePolicies, log>>

Edit == UserAction(\E spec \in Specs : EditSpec(spec)) /\ UNCHANGED asked
Request == UserAction(SetRotateNow) /\ asked' = Len(log)
Delete ==
  UserAction(\E holds \in {{}, {Hold}} : MarkDeleted(holds)) /\ UNCHANGED asked

\* The garbage collector deletes the records of an owner that is gone, or that
\* waits for its dependents to go.
Collectable == ~api.exists \/ (api.deleting /\ Hold \in api.finalizers)

CollectRecords ==
  /\ Collectable /\ records # <<>>
  /\ records' = <<>>
  /\ recordEvent' = TRUE
  /\ UNCHANGED <<storeVars, now, wake, localVars, listed, secretVars, workloads,
                 activePolicies, log, asked, left>>

ReleaseHold ==
  /\ records = <<>>
  /\ DropHold
  /\ UNCHANGED <<now, wake, localVars, recordVars, secretVars, workloads,
                 activePolicies, log, asked, left>>

\* The process dies, in the middle of a rotation or not, and a new one starts:
\* empty queue, zero gauges, caches listed afresh, an event for what exists.
Crash ==
  /\ Spend("crash")
  /\ Relist
  /\ GoIdle
  /\ wake' = IF api.exists \/ records # <<>> THEN ReadyNow ELSE Nil
  /\ listed' = [n \in DOMAIN records |-> records[n].at]
  /\ recordEvent' = FALSE
  /\ secretSeen' = TRUE
  /\ activePolicies' = 0
  /\ UNCHANGED <<now, records, secret, workloads, log, asked>>

-----------------------------------------------------------------------------

Reconcile ==
  \/ GetNotFound \/ HandleDeletion \/ EnsureFinalizer \/ SetSuspended
  \/ SetProviderUnhealthy \/ MarkDegraded \/ NotDue \/ StartRotation

ExecuteRotation ==
  \/ CreateRecord \/ CallProvider \/ RecordProviderFailure \/ FailStatus
  \/ Abort \/ WriteSecret \/ ClearAnnotation \/ RestartWorkload
  \/ FinalizeSucceeded \/ StatusReady \/ Prune

Informers == Deliver \/ RecordSync \/ SecretSync
Collector == CollectRecords \/ ReleaseHold
User == Edit \/ Request \/ Delete

Next == Reconcile \/ ExecuteRotation \/ Informers \/ Collector \/ User \/ Tick \/ Crash

Spec == Init /\ [][Next]_vars

\* What the runtime promises: the worker goroutine runs whenever the key is
\* ready, each informer delivers what the server sent, the collector works, and
\* time passes.  Users, faults and crashes are free not to happen.
Fairness ==
  /\ WF_vars(Reconcile \/ ExecuteRotation)
  /\ WF_vars(Deliver) /\ WF_vars(RecordSync) /\ WF_vars(SecretSync)
  /\ WF_vars(CollectRecords) /\ WF_vars(ReleaseHold)
  /\ WF_vars(Tick)

FairSpec == Spec /\ Fairness

-----------------------------------------------------------------------------
(* The account the controller keeps, in the terms of module RotationLedger *)

Stage ==
  IF pc = "idle" THEN "none" ELSE IF log[Attempt].wrote = Nil THEN "begun" ELSE "written"

RequestState ==
  IF ~api.rotateNow THEN "none" ELSE IF asked < Attempt THEN "seen" ELSE "new"

Ledger == INSTANCE RotationLedger WITH
  clock <- now, present <- api.exists, attempt <- Attempt, stage <- Stage,
  secret <- secret, last <- api.status.last, request <- RequestState

\* Every behaviour of the controller is one the ledger allows: the Secret takes
\* values in the order of the attempts, the time is recorded and the request
\* served only by an attempt that wrote, the request only by one that began
\* after it, and the policy never goes while a rotation is under way.
LedgerKept == Ledger!Spec

-----------------------------------------------------------------------------
(* Properties *)

\* A worker in the middle of a rotation works for a policy that is still there
\* and still carries the finalizer: deletion waits for the rotation, and no
\* Secret is written, no workload restarted for a policy already gone, however
\* stale the copy the rotation started from.
FinalizerHoldsPolicy ==
  pc # "idle" => api.exists /\ Finalizer \in api.finalizers

\* A record that says Succeeded is about a value that reached the Secret, and
\* the workloads it lists were restarted for it or for a later one.
RecordsTellTruth ==
  \A n \in DOMAIN records :
    records[n].phase = "Succeeded" =>
      /\ log[n].wrote # Nil
      /\ \A t \in records[n].restarts : workloads[t] >= n

\* lastRotationTime, in every version a reader may see, is the time of a
\* rotation that wrote the Secret, begun no later; it never lies ahead.  The
\* record named next to it is the record of such a rotation.
LastRotationHonest ==
  \A i \in VersionNumbers :
    LET status == Version(i).status
    IN  /\ status.last # Nil =>
             /\ status.last <= now
             /\ \E n \in Attempts : log[n].wrote # Nil /\ log[n].wrote <= status.last
        /\ status.record \in Attempts => log[status.record].wrote # Nil

\* The annotation goes only through a manual rotation that began after it was
\* set and that wrote the Secret: no request is swallowed by a rotation that
\* was under way already, failed, or read a stale copy.
ManualRequestHonoured ==
  [][api.rotateNow /\ ~api'.rotateNow =>
       /\ Len(log) > asked
       /\ log[Len(log)].manual
       /\ log[Len(log)].wrote # Nil]_vars

\* The controller sends whole objects made from copies that may be old, yet it
\* never undoes an edit: only the user changes the spec, and of the rest of the
\* metadata the controller takes away only its own finalizer.
NoLostEdit ==
  [][\/ User
     \/ /\ api'.spec = api.spec
        /\ api'.deleting = api.deleting
        /\ Hold \in api.finalizers /\ Hold \notin api'.finalizers => ReleaseHold]_vars

\* lastRotationTime never goes back, although each write of it comes from a
\* copy of the status.
LastRotationMonotone ==
  [][api.status.last # Nil => api'.status.last >= api.status.last]_vars

\* A success is announced only when the Secret took the value and the status
\* says so, a failure only when the provider refused.
NotificationsTellTruth ==
  \A n \in Attempts :
    /\ log[n].told = "RotationSucceeded" =>
         log[n].wrote # Nil /\ api.status.last >= log[n].wrote
    /\ log[n].told = "RotationFailed" => log[n].failed # Nil /\ log[n].wrote = Nil

\* Nothing is under way and nothing is about to happen by itself.
Quiet ==
  /\ pc = "idle"
  /\ watch = <<>> /\ ~recordEvent /\ secretSeen
  /\ ~Ready(wake, now)

\* A policy that is neither deleted nor being deleted never falls out of the
\* work queue: every path of Reconcile asks for the key again or has changed
\* something whose event will.
NeverForgotten ==
  Quiet /\ api.exists /\ ~api.deleting => wake # Nil

\* A schedule without rotation window writes the Secret once per slot: between
\* two rotations of which the second is scheduled there is a slot of their own
\* ("Rotate every 5 minutes").
OncePerSlot ==
  \A i, j \in Attempts :
    /\ i < j /\ log[i].wrote # Nil /\ log[j].wrote # Nil
    /\ ~log[j].manual /\ log[j].window = 0
    => LET slots == FiresAfter(log[j].schedule, log[i].wrote)
       IN  slots = {} \/ \E s \in slots : s <= log[j].start

\* "LastRotationTime is the timestamp of the most recent successful rotation":
\* once everything has settled, no rotation recorded as Succeeded is later.
LastRotationIsMostRecent ==
  Quiet => \A n \in DOMAIN records :
             records[n].phase = "Succeeded" => log[n].wrote <= api.status.last

\* "RetryBackoff is the delay between retry attempts": after a failure of the
\* provider the next scheduled attempt leaves it at least that long.
BackoffRespected ==
  \A n \in Attempts \ {1} :
    /\ log[n - 1].failed # Nil
    /\ ~log[n].manual
    /\ log[n].schedule = log[n - 1].schedule
    => log[n].start >= log[n - 1].failed + RetryBackoff

\* "Phase is the current lifecycle phase of this policy": once everything has
\* settled, only a policy whose spec suspends it is Suspended.
PhaseIsCurrent ==
  Quiet /\ api.exists /\ ~api.deleting /\ api.status.phase = "Suspended"
    => api.spec.suspend

\* "Conditions represents the latest observations of the policy's state": once
\* everything has settled, only a policy whose schedule does not parse is
\* Degraded.
DegradedIsCurrent ==
  Quiet /\ api.exists /\ ~api.deleting /\ api.status.degraded
    => ScheduleError(api.spec.schedule, api.status.last)

\* "HTTP webhooks fired asynchronously after each rotation event": when the
\* worker is done with an attempt and says in its record that it failed, it has
\* sent the event of the failure.
FailureAnnounced ==
  pc = "idle" =>
    \A n \in DOMAIN records :
      records[n].phase = "Failed" => log[n].told = "RotationFailed"

\* "Number of active (non-suspended) SecretRotationPolicy objects": once
\* everything has settled the gauge counts the policy.
GaugeCountsActive ==
  Quiet /\ api.exists /\ ~api.deleting /\ ~api.spec.suspend => activePolicies = 1

\* "Creates an immutable RotationRecord audit log entry for every attempt": no
\* value goes into the Secret without the record of its attempt.
EveryAttemptRecorded == pc = "write" => Attempt \in DOMAIN records

\* "Ignore: phase stays Ready; error is logged but not surfaced": between two
\* attempts no condition of a policy that ignores failures shows one.
IgnoredNotSurfaced ==
  pc = "idle" /\ api.spec.failurePolicy = "Ignore" /\ ~api.spec.suspend
    => api.status.ready # "False"

\* A policy that can rotate: nothing in its spec or its state stands in the way.
Healthy ==
  /\ api.exists /\ ~api.deleting
  /\ ~api.spec.suspend /\ api.spec.provider = "mock" /\ api.spec.keysOK
  /\ ~ScheduleError(api.spec.schedule, api.status.last)

\* A policy that was never rotated is rotated, unless the user stops that.
EventuallyRotated == (Healthy /\ api.status.last = Nil) ~> (~Healthy \/ api.status.last # Nil)

\* A rotation asked for by hand happens, whatever fails meanwhile, unless the
\* user stops it.
EventuallyServed == (Healthy /\ api.rotateNow) ~> (~Healthy \/ ~api.rotateNow)

\* A deleted policy goes: its finalizer never blocks the deletion for good.
EventuallyGone == api.deleting ~> ~api.exists
=============================================================================
