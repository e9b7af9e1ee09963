----------------------------- MODULE PolicyStore -----------------------------
(***************************************************************************)
(* The Kubernetes API server as the controller sees it: one                *)
(* SecretRotationPolicy, the versions of it that the watch has not yet     *)
(* delivered, and the informer cache that every r.Get reads.  A write      *)
(* carries the resourceVersion of the copy it was made from and is refused *)
(* when the object has moved on; a write that changes nothing leaves the   *)
(* version alone and emits no event.                                       *)
(***************************************************************************)
EXTENDS Scheduler, Sequences

CONSTANT Specs   \* the specs a user may write

VARIABLES
  api,     \* the object in the API server
  cache,   \* the object in the informer cache
  watch    \* the versions on their way from the one to the other, in order

storeVars == <<api, cache, watch>>

Finalizer == "keysmith"     \* secretsv1alpha1.FinalizerName
Hold == "foreground"        \* foregroundDeletion, or any other party's finalizer

Phases == {"", "Rotating", "Ready", "Failed", "Suspended"}
Conditions == {"Unset", "True", "False"}

SpecType ==
  [suspend : BOOLEAN, provider : {"mock", "stub", "invalid"}, keysOK : BOOLEAN,
   schedule : STRING, window : Nat, failurePolicy : {"Fail", "Ignore"}]

ASSUME SpecsAssumption == Specs # {} /\ Specs \subseteq SpecType

\* SecretRotationPolicyStatus.  record is the attempt whose RotationRecord
\* lastRotationRecord names, 0 for a reference with an empty name.
Status ==
  [phase : Phases, last : MaybeTime, next : MaybeTime \cup {ZeroTime},
   record : Nat \cup {Nil}, ready : Conditions, healthy : Conditions,
   degraded : BOOLEAN]

NewStatus ==
  [phase |-> "", last |-> Nil, next |-> Nil, record |-> Nil,
   ready |-> "Unset", healthy |-> "Unset", degraded |-> FALSE]

Policy ==
  [rv : Nat, exists : BOOLEAN, deleting : BOOLEAN,
   finalizers : SUBSET {Finalizer, Hold}, rotateNow : BOOLEAN,
   spec : Specs, status : Status]

StoreTypeOK ==
  /\ api \in Policy
  /\ cache \in Policy
  /\ watch \in Seq(Policy)

\* The policy was just created and the informer has listed it.
StoreInit ==
  /\ api \in [rv : {1}, exists : {TRUE}, deleting : {FALSE}, finalizers : {{}},
              rotateNow : {FALSE}, spec : Specs, status : {NewStatus}]
  /\ cache = api
  /\ watch = <<>>

-----------------------------------------------------------------------------
(* The server *)

\* The object goes when it is being deleted and its last finalizer goes.
Settled(new) ==
  [new EXCEPT !.rv = api.rv + 1,
              !.exists = ~(new.deleting /\ new.finalizers = {})]

\* Store a new content for the object and notify the watchers.
Publish(new) ==
  IF new = api
    THEN UNCHANGED <<api, watch>>
    ELSE /\ api' = Settled(new)
         /\ watch' = Append(watch, Settled(new))

\* Variant: the server takes any copy of an object that exists.
Unversioned(o) == api.exists

\* The copy o is the present version: optimistic concurrency lets it through.
Current(o) == api.exists /\ o.rv = api.rv

\* r.Update ignores the status of the copy, r.Status().Update everything else.
MainWrite(o) ==
  [api EXCEPT !.spec = o.spec, !.rotateNow = o.rotateNow, !.finalizers = o.finalizers]
StatusWrite(o) == [api EXCEPT !.status = o.status]

\* The watch delivers the next version to the cache.
DeliverNext ==
  /\ watch # <<>>
  /\ cache' = Head(watch)
  /\ watch' = Tail(watch)
  /\ UNCHANGED api

\* Variant: the old events are replayed on top of the new list.
RelistAndReplay ==
  /\ cache' = api
  /\ UNCHANGED <<api, watch>>

\* A new process lists the object afresh.
Relist ==
  /\ cache' = api
  /\ watch' = <<>>
  /\ UNCHANGED api

-----------------------------------------------------------------------------
(* The user and the garbage collector: patches that carry no version *)

EditSpec(spec) ==
  /\ api.exists
  /\ spec # api.spec
  /\ Publish([api EXCEPT !.spec = spec])
  /\ UNCHANGED cache

SetRotateNow ==
  /\ api.exists
  /\ ~api.rotateNow
  /\ Publish([api EXCEPT !.rotateNow = TRUE])
  /\ UNCHANGED cache

\* kubectl delete, in the background or, with the hold, in the foreground.
MarkDeleted(holds) ==
  /\ api.exists
  /\ ~api.deleting
  /\ Publish([api EXCEPT !.deleting = TRUE, !.finalizers = @ \cup holds])
  /\ UNCHANGED cache

DropHold ==
  /\ api.exists
  /\ api.deleting
  /\ Hold \in api.finalizers
  /\ Publish([api EXCEPT !.finalizers = @ \ {Hold}])
  /\ UNCHANGED cache

-----------------------------------------------------------------------------
(* Properties *)

\* The versions a reader may still come to see, the oldest first: number 0 is in
\* the cache, the others are on their way.
Version(i) == IF i = 0 THEN cache ELSE watch[i]
VersionNumbers == 0..Len(watch)

\* The cache is behind the server by exactly the undelivered versions: they are
\* numbered without a gap up to the object itself, and an object once marked
\* for deletion, or gone, stays so in every later version.
StoreCoherent ==
  /\ Version(Len(watch)) = api
  /\ \A i \in VersionNumbers : Version(i).rv + (Len(watch) - i) = api.rv
  /\ \A i, j \in VersionNumbers :
       i <= j => /\ Version(i).deleting => Version(j).deleting
                 /\ Version(j).exists => Version(i).exists
=============================================================================
