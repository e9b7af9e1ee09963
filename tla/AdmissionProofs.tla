--------------------------- MODULE AdmissionProofs ---------------------------
(***************************************************************************)
(* Proofs about what stands before a stored policy, for any set of specs   *)
(* the users send: nothing the webhooks would refuse gets past them, and   *)
(* what they fill in does not change what a policy means.                  *)
(***************************************************************************)
EXTENDS Admission, TLAPS

\* The object as it is put to the gate: its spec may be any a user wrote.
Submitted ==
  [exists : {TRUE}, deleting : BOOLEAN, finalizer : BOOLEAN, rotateNow : BOOLEAN,
   rotated : BOOLEAN, degraded : BOOLEAN, spec : SpecType]

\* The webhooks stay once they are installed, and what they have seen from its
\* creation on has passed them at every write.
Passed ==
  stored.exists /\ guarded =>
    /\ installed
    /\ Parses(stored.spec.schedule)
    /\ stored.spec.secretName
    /\ ~stored.degraded

IInv == TypeOK /\ Passed

-----------------------------------------------------------------------------
(* The gate *)

\* A failure policy that was left out is none of those that can be given.
LEMMA NoneGivenApart == NoneGiven # "Fail" /\ NoneGiven # "Ignore"
BY Zenon DEF NoneGiven

\* The defaulting webhook fills what is unset, touches nothing else, and what
\* the spec means to the controller stays the same.
LEMMA DefaultEffect ==
  ASSUME NEW spec \in SpecType
  PROVE  /\ Default(spec) \in SpecType
         /\ Default(spec).schedule = spec.schedule
         /\ Default(spec).secretName = spec.secretName
         /\ Default(spec).keys = spec.keys
         /\ spec.historyLimit # 0 => Default(spec).historyLimit # 0
         /\ Effective(Default(spec)) = Effective(spec)
<1> DEFINE limit == IF spec.historyLimit = Unset THEN 10 ELSE spec.historyLimit
           policy == IF spec.failurePolicy = NoneGiven THEN "Fail" ELSE spec.failurePolicy
<1>1. Default(spec) = [spec EXCEPT !.historyLimit = limit, !.failurePolicy = policy]
  BY DEF Default
<1>2. limit \in Nat /\ limit # Unset /\ (spec.historyLimit # 0 => limit # 0)
  BY DEF SpecType, Unset
<1>3. policy \in {NoneGiven, "Fail", "Ignore"} /\ (policy = "Ignore" <=> spec.failurePolicy = "Ignore")
  BY NoneGivenApart DEF SpecType
<1> HIDE DEF limit, policy
<1>4. /\ Default(spec) \in SpecType
      /\ Default(spec).schedule = spec.schedule
      /\ Default(spec).secretName = spec.secretName
      /\ Default(spec).keys = spec.keys
      /\ Default(spec).historyLimit = limit
      /\ Default(spec).failurePolicy = policy
  BY <1>1, <1>2, <1>3 DEF SpecType
<1>5. limit = IF spec.historyLimit = Unset THEN DefaultHistoryLimit ELSE spec.historyLimit
  BY DEF limit, DefaultHistoryLimit
<1>6. Effective(Default(spec)) = Effective(spec)
  BY <1>2, <1>3, <1>4, <1>5 DEF Effective
<1> QED
  BY <1>2, <1>4, <1>6

\* What is stored of a spec that was admitted.
LEMMA StoredEffect ==
  ASSUME NEW spec \in SpecType, NEW valid \in BOOLEAN, Admits(spec, valid)
  PROVE  /\ Stored(spec) \in SpecType
         /\ Stored(spec).keys # 0 /\ Stored(spec).historyLimit # 0
         /\ Stored(spec).schedule = spec.schedule
         /\ Stored(spec).secretName = spec.secretName
         /\ Effective(Stored(spec)) = Effective(spec)
<1>1. spec.keys # 0 /\ spec.historyLimit # 0
  BY DEF Admits, Schema, Unset, SpecType
<1> QED
  BY <1>1, DefaultEffect DEF Stored

\* The validation looks at the schedule and the name, which the defaults leave
\* alone.
LEMMA ValidMeans ==
  ASSUME NEW spec \in SpecType, Validate(Default(spec))
  PROVE  Parses(spec.schedule) /\ spec.secretName
BY DefaultEffect DEF Validate

\* An update stores what was put to the gate, its spec with the defaults, and
\* the webhooks, once installed, have found nothing wrong with it.
LEMMA UpdateEffect ==
  ASSUME NEW new \in Submitted, Update(new)
  PROVE  /\ stored' \in Policy /\ stored'.exists
         /\ stored'.degraded = new.degraded
         /\ Effective(stored'.spec) = Effective(new.spec)
         /\ installed => Parses(stored'.spec.schedule) /\ stored'.spec.secretName
<1> DEFINE kept == Stored(new.spec)
<1>1. /\ AdmitsUpdate(new.spec)
      /\ stored' = [new EXCEPT !.spec = kept]
  BY DEF Update
<1>2. new.spec \in SpecType
  BY DEF Submitted
<1>3. /\ kept \in SpecType /\ kept.keys # 0 /\ kept.historyLimit # 0
      /\ kept.schedule = new.spec.schedule /\ kept.secretName = new.spec.secretName
      /\ Effective(kept) = Effective(new.spec)
  BY <1>1, <1>2, StoredEffect DEF AdmitsUpdate, ValidateUpdate, Validate
<1>4. installed => Parses(kept.schedule) /\ kept.secretName
  BY <1>1, <1>2, <1>3, ValidMeans DEF AdmitsUpdate, Admits, ValidateUpdate
<1> HIDE DEF kept
<1>5. stored' \in Policy /\ stored'.exists /\ stored'.degraded = new.degraded /\ stored'.spec = kept
  BY <1>1, <1>3 DEF Submitted, Policy
<1> QED
  BY <1>3, <1>4, <1>5

\* What is stored may be put to the gate again.
LEMMA PolicyIsSubmitted ==
  ASSUME TypeOK, stored.exists
  PROVE  stored \in Policy /\ stored \in Submitted
<1>1. ~None.exists
  BY DEF None
<1>2. stored \in Policy
  BY <1>1 DEF TypeOK
<1> QED
  BY <1>2 DEF Policy, Submitted

-----------------------------------------------------------------------------
(* The steps *)

\* Anybody's update of a stored policy that leaves the condition alone.
LEMMA UpdateStep ==
  ASSUME IInv, stored.exists, UNCHANGED <<up, installed, refused, guarded>>,
         NEW new \in Submitted, new.degraded = stored.degraded, Update(new)
  PROVE  IInv'
<1>1. /\ stored' \in Policy /\ stored'.degraded = stored.degraded
      /\ installed => Parses(stored'.spec.schedule) /\ stored'.spec.secretName
  BY UpdateEffect
<1>2. TypeOK'
  BY <1>1 DEF IInv, TypeOK
<1>3. Passed'
  BY <1>1 DEF IInv, Passed, Parses
<1> QED
  BY <1>2, <1>3 DEF IInv

\* A change of the status alone, which the webhooks do not see.
LEMMA StatusStep ==
  ASSUME IInv, UNCHANGED <<up, installed, refused, guarded>>, stored.exists,
         stored' \in Policy, stored'.spec = stored.spec,
         stored'.degraded = stored.degraded \/ ~Parses(stored.spec.schedule)
  PROVE  IInv'
BY DEF IInv, TypeOK, Passed, Parses

\* The object goes.
LEMMA GoneStep ==
  ASSUME IInv, UNCHANGED <<up, installed, refused, guarded>>, stored' = None
  PROVE  IInv'
BY DEF IInv, TypeOK, Passed, None

LEMMA CreateStep == ASSUME IInv, NEW spec \in Written, Create(spec) PROVE IInv'
<1> DEFINE kept == Stored(spec)
<1>1. /\ Admits(spec, ValidateCreate(Default(spec)))
      /\ stored' = [exists |-> TRUE, deleting |-> FALSE, finalizer |-> FALSE,
                    rotateNow |-> FALSE, rotated |-> FALSE, degraded |-> FALSE, spec |-> kept]
      /\ guarded' = installed /\ UNCHANGED <<up, installed, refused>>
  BY DEF Create
<1>2. spec \in SpecType
  BY WrittenAssumption
<1>3. /\ kept \in SpecType /\ kept.keys # 0 /\ kept.historyLimit # 0
      /\ kept.schedule = spec.schedule /\ kept.secretName = spec.secretName
  BY <1>1, <1>2, StoredEffect DEF ValidateCreate, Validate
<1>4. installed => Parses(kept.schedule) /\ kept.secretName
  BY <1>1, <1>2, <1>3, ValidMeans DEF Admits, ValidateCreate
<1> HIDE DEF kept
<1>5. stored' \in Policy
  BY <1>1, <1>3 DEF Policy
<1>6. TypeOK'
  BY <1>1, <1>5 DEF IInv, TypeOK
<1>7. Passed'
  BY <1>1, <1>4 DEF Passed, Parses
<1> QED
  BY <1>6, <1>7 DEF IInv

LEMMA UserStep == IInv /\ User => IInv'
<1> SUFFICES ASSUME IInv, User PROVE IInv'
  OBVIOUS
<1>1. ASSUME NEW spec \in Written, Edit(spec) PROVE IInv'
  <2> DEFINE new == [stored EXCEPT !.spec = spec]
  <2>1. stored.exists /\ Update(new) /\ UNCHANGED <<up, installed, refused, guarded>>
    BY <1>1 DEF Edit
  <2>2. new \in Submitted /\ new.degraded = stored.degraded
    BY <2>1, PolicyIsSubmitted, WrittenAssumption DEF IInv, Submitted
  <2> QED
    BY <2>1, <2>2, UpdateStep
<1>2. CASE Request
  <2> DEFINE new == [stored EXCEPT !.rotateNow = TRUE]
  <2>1. stored.exists /\ Update(new) /\ UNCHANGED <<up, installed, refused, guarded>>
    BY <1>2 DEF Request
  <2>2. new \in Submitted /\ new.degraded = stored.degraded
    BY <2>1, PolicyIsSubmitted DEF IInv, Submitted
  <2> QED
    BY <2>1, <2>2, UpdateStep
<1>3. ASSUME NEW spec \in Written, Refuse(spec) PROVE IInv'
  BY <1>3, WrittenAssumption DEF Refuse, IInv, TypeOK, Passed, SpecType
<1>4. CASE Delete
  <2>1. stored.exists /\ UNCHANGED <<up, installed, refused, guarded>>
    BY <1>4 DEF Delete
  <2>2. CASE stored' = None
    BY <2>1, <2>2, GoneStep
  <2>3. CASE stored' = [stored EXCEPT !.deleting = TRUE]
    <3>1. stored' \in Policy /\ stored'.spec = stored.spec /\ stored'.degraded = stored.degraded
      BY <2>1, <2>3, PolicyIsSubmitted DEF IInv, Policy
    <3> QED
      BY <2>1, <3>1, StatusStep
  <2> QED
    BY <1>4, <2>2, <2>3 DEF Delete
<1> QED
  BY <1>1, <1>2, <1>3, <1>4, CreateStep DEF User

\* The updates the controller makes and those of the status that nobody checks:
\* the condition Degraded is for a schedule that does not parse.
LEMMA ControllerEffect ==
  ASSUME IInv, Controller
  PROVE  /\ stored.exists /\ UNCHANGED <<up, installed, refused, guarded>>
         /\ \/ \E new \in Submitted : new.spec = stored.spec /\ new.degraded = stored.degraded /\ Update(new)
            \/ /\ stored' \in Policy /\ stored'.spec = stored.spec
               /\ stored'.degraded = stored.degraded \/ ~Parses(stored.spec.schedule)
            \/ stored' = None
<1>1. stored.exists /\ UNCHANGED <<up, installed, refused, guarded>>
  BY DEF Controller, EnsureFinalizer, ExecuteRotation, MarkDegraded, HandleDeletion, Reconciles
<1>2. stored \in Policy /\ stored \in Submitted
  BY <1>1, PolicyIsSubmitted DEF IInv
<1>3. CASE EnsureFinalizer
  <2> DEFINE new == [stored EXCEPT !.finalizer = TRUE]
  <2>1. new \in Submitted /\ new.spec = stored.spec /\ new.degraded = stored.degraded
    BY <1>2 DEF Submitted
  <2>2. Update(new)
    BY <1>3 DEF EnsureFinalizer
  <2> QED
    BY <1>1, <2>1, <2>2
<1>4. CASE ExecuteRotation
  <2> DEFINE done == [stored EXCEPT !.rotated = TRUE, !.rotateNow = FALSE]
             written == [stored EXCEPT !.rotated = TRUE]
  <2>1. stored' = written \/ Update(done) \/ stored' = done
    BY <1>4 DEF ExecuteRotation
  <2>2. /\ done \in Submitted /\ done \in Policy
        /\ done.spec = stored.spec /\ done.degraded = stored.degraded
    BY <1>2 DEF Submitted, Policy
  <2>3. written \in Policy /\ written.spec = stored.spec /\ written.degraded = stored.degraded
    BY <1>2 DEF Policy
  <2> HIDE DEF done, written
  <2> QED
    BY <1>1, <2>1, <2>2, <2>3
<1>5. CASE MarkDegraded
  <2>1. ~Parses(stored.spec.schedule) /\ stored' = [stored EXCEPT !.degraded = TRUE]
    BY <1>5 DEF MarkDegraded
  <2>2. stored' \in Policy /\ stored'.spec = stored.spec
    BY <1>2, <2>1 DEF Policy
  <2> QED
    BY <1>1, <2>1, <2>2
<1>6. CASE HandleDeletion
  BY <1>1, <1>6 DEF HandleDeletion
<1> QED
  BY <1>3, <1>4, <1>5, <1>6 DEF Controller

LEMMA ControllerStep == IInv /\ Controller => IInv'
BY ControllerEffect, UpdateStep, StatusStep, GoneStep

\* The process comes and goes, and the webhooks come.
LEMMA DeploymentStep == IInv /\ (Install \/ Stop \/ Start) => IInv'
<1> SUFFICES ASSUME IInv, Install \/ Stop \/ Start PROVE IInv'
  OBVIOUS
<1>1. /\ UNCHANGED <<stored, refused, guarded>>
      /\ up' \in BOOLEAN /\ installed' \in BOOLEAN /\ (installed => installed')
  BY DEF IInv, TypeOK, Install, Stop, Start
<1>2. TypeOK'
  BY <1>1 DEF IInv, TypeOK
<1>3. Passed'
  BY <1>1 DEF IInv, Passed, Parses
<1> QED
  BY <1>2, <1>3 DEF IInv

-----------------------------------------------------------------------------
(* The theorems *)

\* The inductive invariant holds in every state: what was under the webhooks'
\* eyes from its creation on has a schedule that parses and names its Secret.
THEOREM Invariance == Spec => []IInv
<1>1. Init => IInv
  BY GuardsAssumption DEF Init, IInv, TypeOK, Passed, None
<1>2. IInv /\ [Next]_vars => IInv'
  <2>1. IInv /\ UNCHANGED vars => IInv'
    BY DEF vars, IInv, TypeOK, Passed, Parses
  <2> QED
    BY <2>1, UserStep, ControllerStep, DeploymentStep DEF Next
<1> QED
  BY <1>1, <1>2, PTL DEF Spec

\* What is stored is a policy that the schema of the CRD takes: it has a key to
\* rotate, and a history limit of at least one, if it has one.
THEOREM TypeCorrect == Spec => []TypeOK
BY Invariance, PTL DEF IInv

\* Validate of the webhook, asked at every create and update, keeps each policy
\* it saw from the start sound, whatever specs users send, whenever the process
\* stops, and although neither status updates nor deletions come before it.
THEOREM GuardedStaysSound == Spec => []GuardedIsSound
<1>1. IInv => GuardedIsSound
  BY DEF IInv, Passed, GuardedIsSound
<1> QED
  BY <1>1, Invariance, PTL

\* Default of the webhook, run on the controller's own updates of policies older
\* than itself, fills in what the controller assumes anyway: no step but an edit
\* of a user changes what a policy means.
THEOREM MeaningIsKept == Spec => MeaningKept
<1>1. ASSUME IInv, [Next]_vars
      PROVE  [stored.exists /\ stored'.exists /\ Effective(stored.spec) # Effective(stored'.spec)
                => \E spec \in Written : Edit(spec)]_vars
  <2> SUFFICES ASSUME Next, stored.exists, stored'.exists,
                      ~(\E spec \in Written : Edit(spec))
               PROVE  Effective(stored'.spec) = Effective(stored.spec)
    BY <1>1
  <2>1. CASE Request
    <3> DEFINE new == [stored EXCEPT !.rotateNow = TRUE]
    <3>1. new \in Submitted /\ new.spec = stored.spec /\ Update(new)
      BY <1>1, <2>1, PolicyIsSubmitted DEF Request, IInv, Submitted
    <3> HIDE DEF new
    <3> QED
      BY <3>1, UpdateEffect
  <2>2. CASE Delete
    BY <1>1, <2>2, PolicyIsSubmitted DEF Delete, IInv, Policy, None
  <2>3. ASSUME NEW spec \in Written, Create(spec) \/ Refuse(spec)
        PROVE  Effective(stored'.spec) = Effective(stored.spec)
    BY <2>3 DEF Create, Refuse, None
  <2>4. CASE Install \/ Stop \/ Start
    BY <2>4 DEF Install, Stop, Start
  <2>5. CASE Controller
    <3>1. stored' # None
      BY DEF None
    <3> QED
      BY <1>1, <2>5, <3>1, ControllerEffect, UpdateEffect
  <2> QED
    BY <2>1, <2>2, <2>3, <2>4, <2>5 DEF Next, User
<1> QED
  BY <1>1, Invariance, PTL DEF Spec, MeaningKept
=============================================================================
