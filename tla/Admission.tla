------------------------------ MODULE Admission ------------------------------
(***************************************************************************)
(* What stands between a writer and a stored SecretRotationPolicy: the     *)
(* schema of the CRD and, once they are installed, the defaulting and the  *)
(* validating webhook (internal/webhook).  The webhooks live in the        *)
(* process of the controller, with failurePolicy=fail, and see its own     *)
(* r.Update calls as they see a user's.  They do not see status updates    *)
(* and deletions.  Versions and conflicts are those of PolicyStore and are *)
(* left out: a write is made from the present object.                      *)
(***************************************************************************)
EXTENDS Integers

CONSTANTS
  Written,   \* the specs a user may send
  Guards     \* whether the webhooks are installed at first: a set of Booleans

Unset == -1
NoneGiven == ""             \* failurePolicy left out
DefaultHistoryLimit == 10   \* what the controller takes for a nil historyLimit

\* Four kinds of schedule: accepted by all, a shorthand or a number out of range
\* that matches the pattern of the CRD but not the five-field parser, a named
\* day that the parser takes and the pattern does not.
Schedules == {"plain", "shorthand", "range", "named"}
Parses(schedule) == schedule \in {"plain", "named"}
Matches(schedule) == schedule \in {"plain", "shorthand", "range"}

SpecType ==
  [schedule : Schedules, secretName : BOOLEAN, keys : Nat,
   historyLimit : Nat \cup {Unset}, failurePolicy : {NoneGiven, "Fail", "Ignore"}]

ASSUME WrittenAssumption == Written \subseteq SpecType
ASSUME GuardsAssumption == Guards \subseteq BOOLEAN

VARIABLES
  stored,     \* the object in the API server
  up,         \* the process of the controller and of the webhooks runs
  installed,  \* the webhook configurations are installed
  refused,    \* history: the schedules that validation refused to a user
  guarded     \* history: the webhooks saw the object from its creation on

vars == <<stored, up, installed, refused, guarded>>

None == [exists |-> FALSE]
Policy ==
  [exists : {TRUE}, deleting : BOOLEAN, finalizer : BOOLEAN, rotateNow : BOOLEAN,
   rotated : BOOLEAN, degraded : BOOLEAN,
   spec : {spec \in SpecType : spec.keys # 0 /\ spec.historyLimit # 0}]

TypeOK ==
  /\ stored \in Policy \cup {None}
  /\ up \in BOOLEAN
  /\ installed \in BOOLEAN
  /\ refused \subseteq Schedules
  /\ guarded \in BOOLEAN

Init ==
  /\ stored = None
  /\ up \in BOOLEAN
  /\ installed \in Guards
  /\ refused = {}
  /\ guarded = FALSE

-----------------------------------------------------------------------------
(* The gate *)

\* Variant: without the minimum of historyLimit.
SchemaWithoutMinimum(spec) == Matches(spec.schedule) /\ spec.keys >= 1

\* The schema of the CRD asks for a name but takes an empty one.
Schema(spec) ==
  /\ Matches(spec.schedule)
  /\ spec.keys >= 1
  /\ spec.historyLimit = Unset \/ spec.historyLimit >= 1

\* Variant: another limit than the one the controller takes for a nil field.
DefaultOtherLimit(spec) ==
  [spec EXCEPT !.historyLimit = IF @ = Unset THEN 5 ELSE @,
               !.failurePolicy = IF @ = NoneGiven THEN "Fail" ELSE @]

Default(spec) ==
  [spec EXCEPT !.historyLimit = IF @ = Unset THEN 10 ELSE @,
               !.failurePolicy = IF @ = NoneGiven THEN "Fail" ELSE @]

Validate(spec) ==
  /\ Parses(spec.schedule)
  /\ spec.secretName
  /\ spec.keys > 0

ValidateCreate(spec) == Validate(spec)

\* Variant: an update is taken as it is.
ValidateNothing(spec) == TRUE

ValidateUpdate(spec) == Validate(spec)

ValidateDelete(spec) == TRUE

\* The schema takes the spec, and the webhooks, once installed, answer and take
\* it as well: valid is what the validation says of it with its defaults.
Admits(spec, valid) ==
  /\ Schema(spec)
  /\ installed => up /\ valid

AdmitsUpdate(spec) == Admits(spec, ValidateUpdate(Default(spec)))

Stored(spec) == IF installed THEN Default(spec) ELSE spec

\* r.Update of the controller, or a user's: it takes effect only when admitted.
Update(new) ==
  /\ AdmitsUpdate(new.spec)
  /\ stored' = [new EXCEPT !.spec = Stored(new.spec)]

-----------------------------------------------------------------------------
(* The users and the administrator *)

Create(spec) ==
  /\ stored = None
  /\ Admits(spec, ValidateCreate(Default(spec)))
  /\ stored' = [exists |-> TRUE, deleting |-> FALSE, finalizer |-> FALSE,
                rotateNow |-> FALSE, rotated |-> FALSE, degraded |-> FALSE,
                spec |-> Stored(spec)]
  /\ guarded' = installed
  /\ UNCHANGED <<up, installed, refused>>

Edit(spec) ==
  /\ stored.exists
  /\ Update([stored EXCEPT !.spec = spec])
  /\ UNCHANGED <<up, installed, refused, guarded>>

Request ==
  /\ stored.exists
  /\ Update([stored EXCEPT !.rotateNow = TRUE])
  /\ UNCHANGED <<up, installed, refused, guarded>>

\* A create or an update that the validating webhook turns down.
Refuse(spec) ==
  /\ installed /\ up
  /\ Schema(spec) /\ ~Validate(Default(spec))
  /\ refused' = refused \cup {spec.schedule}
  /\ UNCHANGED <<stored, up, installed, guarded>>

\* Deletions reach the webhooks for no verb but create and update.
Delete ==
  /\ stored.exists /\ ~stored.deleting
  /\ ValidateDelete(stored.spec)
  /\ stored' = IF stored.finalizer THEN [stored EXCEPT !.deleting = TRUE] ELSE None
  /\ UNCHANGED <<up, installed, refused, guarded>>

Install == ~installed /\ installed' = TRUE /\ UNCHANGED <<stored, up, refused, guarded>>
Stop == up /\ up' = FALSE /\ UNCHANGED <<stored, installed, refused, guarded>>
Start == ~up /\ up' = TRUE /\ UNCHANGED <<stored, installed, refused, guarded>>

-----------------------------------------------------------------------------
(* The controller: a refused write is an error, and the key comes back *)

Reconciles == up /\ stored.exists /\ UNCHANGED <<up, installed, refused, guarded>>
Live == stored.exists /\ ~stored.deleting /\ stored.finalizer

EnsureFinalizer ==
  /\ Reconciles /\ ~stored.deleting /\ ~stored.finalizer
  /\ Update([stored EXCEPT !.finalizer = TRUE])

\* A rotation of a policy that is due, whatever the time, or asked for by hand:
\* the status is written even when the annotation cannot be removed.  A policy
\* that never rotated does not reach the parser; one without the name of a
\* Secret never gets this far.
ExecuteRotation ==
  /\ Reconciles /\ Live
  /\ stored.rotated => Parses(stored.spec.schedule)
  /\ stored.spec.secretName
  /\ LET done == [stored EXCEPT !.rotated = TRUE, !.rotateNow = FALSE]
     IN  IF stored.rotateNow /\ ~AdmitsUpdate(stored.spec)
           THEN stored' = [stored EXCEPT !.rotated = TRUE]
           ELSE IF stored.rotateNow THEN Update(done) ELSE stored' = done

MarkDegraded ==
  /\ Reconciles /\ Live
  /\ stored.rotated /\ ~Parses(stored.spec.schedule)
  /\ stored' = [stored EXCEPT !.degraded = TRUE]

\* Variant: only a policy that rotated has something to clean up.
HandleDeletionOfRotated ==
  /\ Reconciles /\ stored.deleting
  /\ stored.rotated
  /\ AdmitsUpdate(stored.spec)
  /\ stored' = None

\* handleDeletion: the object goes with the finalizer, if the update is admitted.
HandleDeletion ==
  /\ Reconciles /\ stored.deleting
  /\ AdmitsUpdate(stored.spec)
  /\ stored' = None

Controller == EnsureFinalizer \/ ExecuteRotation \/ MarkDegraded \/ HandleDeletion

User == \/ \E spec \in Written : Create(spec) \/ Edit(spec) \/ Refuse(spec)
        \/ Request \/ Delete

Next == User \/ Install \/ Stop \/ Start \/ Controller

Spec == Init /\ [][Next]_vars

\* A key with work to do comes back until the work is done, also in a process
\* that is stopped and started again and again, as long as it gets the chance
\* again and again: hence the strong fairness.
Fairness ==
  /\ SF_vars(HandleDeletion)
  /\ SF_vars(EnsureFinalizer)
  /\ SF_vars(ExecuteRotation)
  /\ WF_vars(Start)

FairSpec == Spec /\ Fairness

-----------------------------------------------------------------------------
(* Properties *)

\* A policy that the webhooks saw from its creation on never becomes Degraded
\* and always names its Secret, whoever writes it and whenever the process is
\* down: no write slips past them.
GuardedIsSound ==
  stored.exists /\ guarded => ~stored.degraded /\ stored.spec.secretName

\* What a spec means to the controller: its own defaults fill what is unset.
Effective(spec) ==
  <<spec.schedule, spec.secretName, spec.keys,
    IF spec.historyLimit = Unset THEN DefaultHistoryLimit ELSE spec.historyLimit,
    spec.failurePolicy = "Ignore">>

\* The controller's own updates pass through the defaulting webhook, which may
\* fill in fields of a policy older than the webhooks; what the policy means
\* stays the same.  Only an edit of the user changes that.
MeaningKept ==
  [][stored.exists /\ stored'.exists /\ Effective(stored.spec) # Effective(stored'.spec)
       => \E spec \in Written : Edit(spec)]_vars

\* A policy that the webhooks saw from its creation on goes when it is deleted:
\* the update that takes its finalizer away is admitted in the end.
DeletionCompletes ==
  (stored.exists /\ stored.deleting /\ guarded) ~> ~stored.exists

\* A rotation asked for by hand is made and the request removed, unless the
\* policy is deleted; for a policy that the webhooks saw from its creation on.
RequestServed ==
  (stored.exists /\ stored.rotateNow /\ guarded)
    ~> (~stored.exists \/ stored.deleting \/ ~stored.rotateNow)

\* "ValidateDelete always permits deletion": any policy goes when it is deleted.
EveryDeletionCompletes == (stored.exists /\ stored.deleting) ~> ~stored.exists

\* "Shorthands: @hourly, @daily, @weekly, @monthly, @yearly are also accepted."
ShorthandsAccepted == "shorthand" \notin refused
=============================================================================
