---------------------------- MODULE FleetProofs ----------------------------
(***************************************************************************)
(* Theorems about Fleet: its types, that leader election leaves at most    *)
(* one process active, that a Secret is always the outcome of one rotation *)
(* of one policy, and that under leader election it never goes back to an  *)
(* earlier value.                                                          *)
(***************************************************************************)
EXTENDS Fleet, TLAPS

-----------------------------------------------------------------------------
(* Types *)

LeaseType ==
  /\ leaderElect \in BOOLEAN
  /\ holder \in Replicas \cup {NoReplica}
  /\ remaining \in 0..LeaseDuration
  /\ proc \in [Replicas -> States]
  /\ unrenewed \in [Replicas -> 0..RenewDeadline]
  /\ crashes \in Nat

WorkType ==
  /\ owner \in Seq(Policies)
  /\ job \in [Replicas -> Job \cup {Idle}]
  /\ \A r \in Replicas : job[r] # Idle => proc[r] = "active"
  /\ secret \in [Secrets -> Secret]
  /\ seen \in [Replicas -> [Secrets -> Nat]]
  /\ flight \subseteq Write

\* The number of an attempt stays what it is when there are more.
LEMMA MoreAttempts ==
  ASSUME NEW s \in Seq(Policies), NEW p \in Policies
  PROVE  /\ Append(s, p) \in Seq(Policies)
         /\ Len(Append(s, p)) = Len(s) + 1
         /\ DOMAIN s = 1..Len(s) /\ DOMAIN Append(s, p) = 1..(Len(s) + 1)
         /\ DOMAIN s \subseteq DOMAIN Append(s, p)
         /\ \A i \in DOMAIN s : Append(s, p)[i] = s[i]
         /\ Append(s, p)[Len(s) + 1] = p
  OBVIOUS

\* Everything that holds attempts keeps its type when there are more.
LEMMA DataGrows ==
  ASSUME Attempts \subseteq Attempts'
  PROVE  Data \subseteq Data' /\ Job \subseteq Job' /\ Secret \subseteq Secret' /\ Write \subseteq Write'
  <1>1. Data \subseteq Data' BY DEF Data
  <1>2. Job \subseteq Job' BY DEF Job
  <1>3. Secret \subseteq Secret' BY <1>1 DEF Secret
  <1>4. Write \subseteq Write' BY DEF Write
  <1> QED BY <1>1, <1>2, <1>3, <1>4

LEMMA NoData == <<>> \in Data
  BY DEF Data

LEMMA TypeInit == Init => LeaseType /\ WorkType
  <1> SUFFICES ASSUME Init PROVE LeaseType /\ WorkType OBVIOUS
  <1>1. LeaseType
    BY FlagsAssumption, LeaseAssumption DEF Init, LeaseType, States
  <1>2. [rv |-> 0, policy |-> NoPolicy, data |-> <<>>] \in Secret
    BY NoData DEF Secret
  <1>3. WorkType
    BY <1>2 DEF Init, WorkType
  <1> QED BY <1>1, <1>3

LEMMA LeaseStep == LeaseType /\ [Next]_vars => LeaseType'
  <1> SUFFICES ASSUME LeaseType, [Next]_vars PROVE LeaseType'
    OBVIOUS
  <1> USE DEF deployment, leaseVars
  <1>n. 0 \in 0..RenewDeadline /\ LeaseDuration \in 0..LeaseDuration
    BY LeaseAssumption
  <1>1. ASSUME NEW r \in Replicas, Start(r) PROVE LeaseType'
    BY <1>1 DEF Start, LeaseType, States
  <1>2. ASSUME NEW r \in Replicas, Acquire(r) PROVE LeaseType'
    BY <1>2, <1>n DEF Acquire, LeaseType, States
  <1>3. ASSUME NEW r \in Replicas, Renew(r) PROVE LeaseType'
    <2>1. unrenewed' = unrenewed \/ unrenewed' = [unrenewed EXCEPT ![r] = 0]
      BY <1>3 DEF Renew
    <2>2. unrenewed' \in [Replicas -> 0..RenewDeadline]
      BY <2>1, <1>n DEF LeaseType
    <2> QED BY <1>3, <1>n, <2>2 DEF Renew, LeaseType
  <1>4. ASSUME NEW r \in Replicas, LoseLease(r) PROVE LeaseType'
    BY <1>4, <1>n DEF LoseLease, Die, LeaseType, States
  <1>5. ASSUME NEW r \in Replicas, Crash(r) PROVE LeaseType'
    BY <1>5, <1>n DEF Crash, Die, LeaseType, States
  <1>6. CASE Tick
    <2>1. remaining' \in 0..LeaseDuration
      BY <1>6, LeaseAssumption DEF Tick, LeaseType
    <2>2. \A r \in Replicas : (IF proc[r] = "active" THEN unrenewed[r] + 1 ELSE unrenewed[r]) \in 0..RenewDeadline
      BY <1>6, LeaseAssumption DEF Tick, LeaseType
    <2> QED BY <1>6, <2>1, <2>2 DEF Tick, LeaseType
  <1>7. CASE \/ Arrive \/ Lose \/ \E r \in Replicas : Rotate(r) \/ Sync(r)
    BY <1>7 DEF Arrive, Lose, Rotate, SendWrite, CallProvider, Sync, SecretSync, LeaseType
  <1>8. CASE UNCHANGED vars
    BY <1>8 DEF vars, LeaseType
  <1> QED BY <1>1, <1>2, <1>3, <1>4, <1>5, <1>6, <1>7, <1>8 DEF Next, Elect

-----------------------------------------------------------------------------
(* What a step does to the work *)

\* A worker that dies or ends its rotation loses its job; a cache moves on.
FewerJobs == \A r \in Replicas : job'[r] = job[r] \/ job'[r] = Idle

\* A step that neither calls a provider nor sends or ends a write.
Quiet ==
  /\ UNCHANGED work
  /\ job' \in [Replicas -> Job \cup {Idle}] /\ FewerJobs
  /\ seen' \in [Replicas -> [Secrets -> Nat]]
  /\ \A r \in Replicas, t \in Secrets :
       seen'[r][t] = seen[r][t] \/ seen'[r][t] <= secret[t].rv

Step ==
  \/ Quiet
  \/ \E r \in Replicas : SendWrite(r) \/ \E p \in Policies : CallProvider(r, p)
  \/ Arrive \/ Lose

LEMMA StepKinds ==
  ASSUME WorkType, [Next]_vars
  PROVE  Step /\ leaderElect' = leaderElect
  <1> USE DEF deployment
  <1>1. ASSUME NEW r \in Replicas, Start(r) PROVE Quiet /\ leaderElect' = leaderElect
    <2>1. [t \in Secrets |-> secret[t].rv] \in [Secrets -> Nat]
      BY DEF WorkType, Secret
    <2>2. /\ seen' \in [Replicas -> [Secrets -> Nat]]
          /\ \A q \in Replicas, t \in Secrets : seen'[q][t] = seen[q][t] \/ seen'[q][t] = secret[t].rv
      BY <1>1, <2>1 DEF Start, WorkType
    <2>3. \A t \in Secrets : secret[t].rv \in Nat
      BY DEF WorkType, Secret
    <2> QED BY <1>1, <2>2, <2>3 DEF Start, Quiet, FewerJobs, WorkType, work
  <1>2. ASSUME NEW r \in Replicas, NEW t \in Secrets, SecretSync(r, t)
        PROVE  Quiet /\ leaderElect' = leaderElect
    <2>1. secret[t].rv \in Nat /\ seen[r][t] \in Nat
      BY DEF WorkType, Secret
    <2>2. PICK rv \in seen[r][t] + 1 .. secret[t].rv : seen' = [seen EXCEPT ![r][t] = rv]
      BY <1>2 DEF SecretSync
    <2>3. rv \in Nat /\ rv <= secret[t].rv
      BY <2>1, <2>2
    <2>4. /\ seen' \in [Replicas -> [Secrets -> Nat]]
          /\ \A q \in Replicas, u \in Secrets :
               seen'[q][u] = seen[q][u] \/ (u = t /\ seen'[q][u] = rv)
      BY <2>2, <2>3 DEF WorkType
    <2> QED BY <1>2, <2>3, <2>4 DEF SecretSync, Quiet, FewerJobs, WorkType, work
  <1>3. ASSUME NEW r \in Replicas, LoseLease(r) \/ Crash(r)
        PROVE  Quiet /\ leaderElect' = leaderElect
    BY <1>3 DEF LoseLease, Crash, Die, Quiet, FewerJobs, WorkType, work
  <1>4. ASSUME NEW r \in Replicas, Acquire(r) \/ Renew(r)
        PROVE  Quiet /\ leaderElect' = leaderElect
    BY <1>4 DEF Acquire, Renew, Quiet, FewerJobs, WorkType, work
  <1>5. ASSUME Tick \/ UNCHANGED vars PROVE Quiet /\ leaderElect' = leaderElect
    BY <1>5 DEF Tick, vars, Quiet, FewerJobs, WorkType, work
  <1>6. CASE \/ Arrive \/ Lose \/ \E r \in Replicas : Rotate(r)
    BY <1>6 DEF Arrive, Lose, Rotate, SendWrite, CallProvider, Step
  <1> QED BY <1>1, <1>2, <1>3, <1>4, <1>5, <1>6 DEF Next, Elect, Sync, Step

\* A write in flight comes from a policy for its own Secret.
LEMMA SendWriteType ==
  ASSUME WorkType, NEW r \in Replicas, SendWrite(r)
  PROVE  /\ flight' \subseteq Write
         /\ job' \in [Replicas -> Job \cup {Idle}]
         /\ \A q \in Replicas :
              /\ job'[q] # Idle => job[q] # Idle
              /\ job'[q] # Idle => job'[q].policy = job[q].policy /\ job'[q].attempt = job[q].attempt
  <1>1. job[r] \in Job
    BY DEF SendWrite, WorkType
  <1>2. job' = [job EXCEPT ![r] = [job[r] EXCEPT !.stage = "sent"]]
    BY DEF SendWrite
  <1>3. [job[r] EXCEPT !.stage = "sent"] \in Job
        /\ [job[r] EXCEPT !.stage = "sent"].policy = job[r].policy
        /\ [job[r] EXCEPT !.stage = "sent"].attempt = job[r].attempt
    BY <1>1 DEF Job
  <1>4. job' \in [Replicas -> Job \cup {Idle}]
    BY <1>2, <1>3 DEF WorkType
  <1>5. \A q \in Replicas : q # r => job'[q] = job[q]
    BY <1>2 DEF WorkType
  <1>6. job'[r] = [job[r] EXCEPT !.stage = "sent"]
    BY <1>2 DEF WorkType
  <1>7. flight' \subseteq Write
    <2>1. seen[r][SecretRef[job[r].policy]] \in Nat /\ SecretRef[job[r].policy] \in Secrets
      BY <1>1, SecretRefAssumption DEF WorkType, Job
    <2> QED BY <1>1, <2>1 DEF SendWrite, WorkType, Job, Write
  <1>8. \A q \in Replicas : job'[q] # Idle => job[q] # Idle
    BY <1>1, <1>5 DEF SendWrite
  <1> QED BY <1>3, <1>4, <1>5, <1>6, <1>7, <1>8

LEMMA CallProviderType ==
  ASSUME WorkType, NEW r \in Replicas, NEW p \in Policies, CallProvider(r, p)
  PROVE  /\ owner' = Append(owner, p) /\ owner' \in Seq(Policies)
         /\ Len(owner') = Len(owner) + 1
         /\ Attempts \subseteq Attempts'
         /\ job' \in [Replicas -> Job' \cup {Idle}]
         /\ job'[r].policy = p /\ job'[r].attempt = Len(owner')
         /\ \A q \in Replicas : q # r => job'[q] = job[q]
  <1>1. owner' = Append(owner, p) /\ owner \in Seq(Policies)
    BY DEF CallProvider, WorkType
  <1>2. /\ Append(owner, p) \in Seq(Policies) /\ Len(Append(owner, p)) = Len(owner) + 1
        /\ DOMAIN owner \subseteq DOMAIN Append(owner, p)
        /\ DOMAIN Append(owner, p) = 1..(Len(owner) + 1)
    BY <1>1, MoreAttempts
  <1>3. Attempts \subseteq Attempts'
    BY <1>1, <1>2 DEF Attempts
  <1>4. Job \subseteq Job'
    BY <1>3, DataGrows
  <1>5. Len(owner) + 1 \in Attempts'
    <2>1. Len(owner) \in Nat BY <1>1
    <2> QED BY <1>1, <1>2, <2>1 DEF Attempts
  <1>6. [policy |-> p, stage |-> "fetched", attempt |-> Len(owner) + 1] \in Job'
    BY <1>5 DEF Job
  <1>7. /\ job' \in [Replicas -> Job' \cup {Idle}]
        /\ job'[r] = [policy |-> p, stage |-> "fetched", attempt |-> Len(owner) + 1]
        /\ \A q \in Replicas : q # r => job'[q] = job[q]
    BY <1>4, <1>6 DEF CallProvider, WorkType
  <1> QED BY <1>1, <1>2, <1>3, <1>7

LEMMA ArriveType ==
  ASSUME WorkType, NEW w \in flight, Answer(w)
  PROVE  /\ w \in Write
         /\ flight' = flight \ {w} /\ flight' \subseteq Write
         /\ job' \in [Replicas -> Job \cup {Idle}] /\ FewerJobs
  BY DEF Answer, WorkType, FewerJobs

\* What the server makes of a write it accepts.
LEMMA Arrival ==
  ASSUME WorkType, NEW w \in flight, Accepted(w),
         secret' = [secret EXCEPT ![w.to] = [rv |-> @.rv + 1, policy |-> w.policy, data |-> NewData(w)]]
  PROVE  /\ secret' \in [Secrets -> Secret]
         /\ secret'[w.to].rv = secret[w.to].rv + 1
         /\ secret'[w.to].policy = w.policy
         /\ secret'[w.to].data = [k \in Keys[w.policy] |-> w.attempt]
         /\ \A t \in Secrets : t # w.to => secret'[t] = secret[t]
  <1>1. w \in Write
    BY DEF WorkType
  <1>2. w.to \in Secrets /\ w.policy \in Policies /\ w.attempt \in Attempts
    BY <1>1 DEF Write
  <1>3. secret[w.to] \in Secret /\ secret[w.to].rv \in Nat
    BY <1>2 DEF WorkType, Secret
  <1>4. [k \in Keys[w.policy] |-> w.attempt] \in Data
    BY <1>2 DEF Data
  <1> DEFINE new == [rv |-> secret[w.to].rv + 1, policy |-> w.policy, data |-> NewData(w)]
  <1>5. new \in Secret
    BY <1>2, <1>3, <1>4 DEF Secret, NewData, Values
  <1>6. secret' = [secret EXCEPT ![w.to] = new]
    OBVIOUS
  <1>7. secret'[w.to] = new /\ secret' \in [Secrets -> Secret]
    BY <1>2, <1>5, <1>6 DEF WorkType
  <1>8. \A t \in Secrets : t # w.to => secret'[t] = secret[t]
    BY <1>6 DEF WorkType
  <1> HIDE DEF new
  <1>9. /\ secret'[w.to].rv = new.rv /\ secret'[w.to].policy = new.policy
        /\ secret'[w.to].data = new.data
    BY <1>7
  <1> QED BY <1>7, <1>8, <1>9 DEF new, NewData, Values

LEMMA ActiveJobs ==
  ASSUME WorkType, LeaseType, [Next]_vars
  PROVE  \A r \in Replicas : job'[r] # Idle => proc'[r] = "active"
  <1>1. ASSUME NEW r \in Replicas, Start(r) \/ Acquire(r) \/ Renew(r)
        PROVE  \A q \in Replicas : job'[q] # Idle => proc'[q] = "active"
    BY <1>1 DEF Start, Acquire, Renew, WorkType, LeaseType
  <1>2. ASSUME NEW r \in Replicas, LoseLease(r) \/ Crash(r)
        PROVE  \A q \in Replicas : job'[q] # Idle => proc'[q] = "active"
    BY <1>2 DEF LoseLease, Crash, Die, WorkType, LeaseType
  <1>3. ASSUME NEW r \in Replicas, SendWrite(r)
        PROVE  \A q \in Replicas : job'[q] # Idle => proc'[q] = "active"
    BY <1>3, SendWriteType DEF SendWrite, WorkType
  <1>4. ASSUME NEW r \in Replicas, NEW p \in Policies, CallProvider(r, p)
        PROVE  \A q \in Replicas : job'[q] # Idle => proc'[q] = "active"
    BY <1>4, CallProviderType DEF CallProvider, WorkType
  <1>5. ASSUME Arrive \/ Lose
        PROVE  \A q \in Replicas : job'[q] # Idle => proc'[q] = "active"
    <2>1. PICK w \in flight : Answer(w)
      BY <1>5 DEF Arrive, Lose
    <2>2. FewerJobs /\ proc' = proc
      BY <1>5, <2>1, ArriveType DEF Arrive, Lose
    <2> QED BY <2>2 DEF FewerJobs, WorkType
  <1>6. CASE \/ Tick \/ UNCHANGED vars \/ \E r \in Replicas : Sync(r)
    BY <1>6 DEF Tick, vars, Sync, SecretSync, WorkType
  <1> QED BY <1>1, <1>2, <1>3, <1>4, <1>5, <1>6 DEF Next, Elect, Rotate

LEMMA WorkStep == LeaseType /\ WorkType /\ [Next]_vars => WorkType'
  <1> SUFFICES ASSUME LeaseType, WorkType, [Next]_vars PROVE WorkType'
    OBVIOUS
  <1>1. \A r \in Replicas : job'[r] # Idle => proc'[r] = "active"
    BY ActiveJobs
  <1>2. Step
    BY StepKinds
  <1>3. CASE Quiet
    BY <1>1, <1>3 DEF Quiet, work, WorkType, Job, Secret, Write, Data, Attempts
  <1>4. ASSUME NEW r \in Replicas, SendWrite(r) PROVE WorkType'
    <2>1. UNCHANGED <<owner, secret, seen>>
      BY <1>4 DEF SendWrite
    <2>2. /\ Job' = Job /\ Secret' = Secret /\ Write' = Write
      BY <2>1 DEF Job, Secret, Write, Data, Attempts
    <2>3. flight' \subseteq Write /\ job' \in [Replicas -> Job \cup {Idle}]
      BY <1>4, SendWriteType
    <2> QED BY <1>1, <2>1, <2>2, <2>3 DEF WorkType
  <1>5. ASSUME NEW r \in Replicas, NEW p \in Policies, CallProvider(r, p) PROVE WorkType'
    <2>1. UNCHANGED <<secret, seen, flight>>
      BY <1>5 DEF CallProvider
    <2>2. /\ owner' \in Seq(Policies) /\ Attempts \subseteq Attempts'
          /\ job' \in [Replicas -> Job' \cup {Idle}]
      BY <1>5, CallProviderType
    <2>3. Secret \subseteq Secret' /\ Write \subseteq Write'
      BY <2>2, DataGrows
    <2> QED BY <1>1, <2>1, <2>2, <2>3 DEF WorkType
  <1>6. CASE Arrive \/ Lose
    <2>1. PICK w \in flight :
            /\ Answer(w)
            /\ \/ secret' = secret
               \/ /\ Accepted(w)
                  /\ secret' = [secret EXCEPT ![w.to] =
                                  [rv |-> @.rv + 1, policy |-> w.policy, data |-> NewData(w)]]
      BY <1>6 DEF Arrive, Lose
    <2>2. UNCHANGED <<owner, seen>>
      BY <1>6 DEF Arrive, Lose
    <2>3. Job' = Job /\ Secret' = Secret /\ Write' = Write
      BY <2>2 DEF Job, Secret, Write, Data, Attempts
    <2>4. flight' \subseteq Write /\ job' \in [Replicas -> Job \cup {Idle}]
      BY <2>1, ArriveType
    <2>5. secret' \in [Secrets -> Secret]
      BY <2>1, Arrival DEF WorkType
    <2> QED BY <1>1, <2>2, <2>3, <2>4, <2>5 DEF WorkType
  <1> QED BY <1>2, <1>3, <1>4, <1>5, <1>6 DEF Step

LEMMA TypeParts == TypeOK <=> LeaseType /\ WorkType
  BY DEF TypeOK, LeaseType, WorkType

LEMMA TypeStep == TypeOK /\ [Next]_vars => TypeOK'
  <1>1. LeaseType' /\ WorkType' => TypeOK'
    BY DEF TypeOK, LeaseType, WorkType
  <1> QED BY <1>1, LeaseStep, WorkStep, TypeParts

\* The processes, the Lease, the jobs, the Secrets and the writes have the types
\* the model gives them: every value in a Secret or on its way to one is that of
\* a provider call that was made, and only an active process is in a rotation
\* (main.go and executeRotation).
THEOREM TypeCorrect == Spec => []TypeOK
  <1>1. Init => TypeOK
    BY TypeInit, TypeParts
  <1> QED BY <1>1, TypeStep, PTL DEF Spec

-----------------------------------------------------------------------------
(* One active process *)

\* Under leader election an active process holds a Lease that is good for longer
\* than the process will live without renewing it.
Leased ==
  leaderElect => \A r \in Replicas : proc[r] = "active" =>
    holder = r /\ remaining + unrenewed[r] >= LeaseDuration

LEMMA LeasedStep == TypeOK /\ Leased /\ [Next]_vars => Leased'
  <1> SUFFICES ASSUME TypeOK, Leased, [Next]_vars, leaderElect',
                      NEW q \in Replicas, proc'[q] = "active"
               PROVE  holder' = q /\ remaining' + unrenewed'[q] >= LeaseDuration
    BY DEF Leased
  <1> USE DEF deployment, leaseVars
  <1>1. leaderElect
    BY StepKinds, TypeParts
  <1>n. /\ LeaseDuration \in Int /\ RenewDeadline \in Int /\ RenewDeadline < LeaseDuration
        /\ 0 < RenewDeadline
    BY LeaseAssumption
  <1>t. /\ proc \in [Replicas -> States] /\ remaining \in Nat
        /\ unrenewed \in [Replicas -> 0..RenewDeadline] /\ unrenewed[q] \in 0..RenewDeadline
    BY <1>n DEF TypeOK
  <1>o. proc[q] = "active" => holder = q /\ remaining + unrenewed[q] >= LeaseDuration
    BY <1>1 DEF Leased
  <1>2. ASSUME NEW r \in Replicas, Start(r)
        PROVE  holder' = q /\ remaining' + unrenewed'[q] >= LeaseDuration
    <2>1. proc[q] = "active"
      BY <1>2, <1>1, <1>t DEF Start
    <2> QED BY <1>2, <1>o, <2>1 DEF Start
  <1>3. ASSUME NEW r \in Replicas, Acquire(r)
        PROVE  holder' = q /\ remaining' + unrenewed'[q] >= LeaseDuration
    <2>1. CASE q = r
      BY <1>3, <1>n, <1>t, <2>1 DEF Acquire
    <2>2. CASE q # r
      <3>1. proc[q] = "active"
        BY <1>3, <1>t, <2>2 DEF Acquire
      <3>2. remaining = 0
        BY <1>3 DEF Acquire, Expired
      <3>3. unrenewed[q] >= LeaseDuration
        BY <1>o, <1>t, <1>n, <3>1, <3>2
      <3> QED BY <1>n, <1>t, <3>3
    <2> QED BY <2>1, <2>2
  <1>4. ASSUME NEW r \in Replicas, Renew(r)
        PROVE  holder' = q /\ remaining' + unrenewed'[q] >= LeaseDuration
    <2>1. proc[q] = "active" /\ holder' = holder /\ remaining' = LeaseDuration
      BY <1>4 DEF Renew
    <2>2. unrenewed' = unrenewed \/ unrenewed' = [unrenewed EXCEPT ![r] = 0]
      BY <1>4 DEF Renew
    <2>3. unrenewed'[q] \in Nat
      BY <1>t, <1>n, <2>2
    <2> QED BY <1>o, <1>n, <2>1, <2>3
  <1>5. ASSUME NEW r \in Replicas, LoseLease(r) \/ Crash(r)
        PROVE  holder' = q /\ remaining' + unrenewed'[q] >= LeaseDuration
    <2>1. /\ proc' = [proc EXCEPT ![r] = "down"] /\ unrenewed' = [unrenewed EXCEPT ![r] = 0]
          /\ holder' = holder /\ remaining' = remaining
      BY <1>5 DEF LoseLease, Crash, Die
    <2>2. q # r
      BY <1>t, <2>1
    <2>3. proc[q] = "active" /\ unrenewed'[q] = unrenewed[q]
      BY <1>t, <2>1, <2>2
    <2> QED BY <1>o, <2>1, <2>3
  <1>6. CASE Tick
    <2>1. proc[q] = "active" /\ holder' = holder
      BY <1>6 DEF Tick
    <2>2. unrenewed'[q] = unrenewed[q] + 1
      BY <1>6, <2>1 DEF Tick
    <2>3. remaining' = IF remaining = 0 THEN 0 ELSE remaining - 1
      BY <1>6 DEF Tick
    <2>4. remaining + unrenewed[q] >= LeaseDuration
      BY <1>o, <2>1
    <2>5. remaining' + unrenewed'[q] >= remaining + unrenewed[q]
      BY <1>t, <1>n, <2>2, <2>3
    <2>6. remaining' \in Int /\ unrenewed'[q] \in Int /\ unrenewed[q] \in Int /\ remaining \in Int
      BY <1>t, <1>n, <2>2, <2>3
    <2> QED BY <1>o, <1>n, <2>1, <2>4, <2>5, <2>6
  <1>7. CASE \/ Arrive \/ Lose \/ \E r \in Replicas : Rotate(r) \/ Sync(r)
    BY <1>7, <1>o DEF Arrive, Lose, Rotate, SendWrite, CallProvider, Sync, SecretSync
  <1>8. CASE UNCHANGED vars
    BY <1>8, <1>o DEF vars
  <1> QED BY <1>2, <1>3, <1>4, <1>5, <1>6, <1>7, <1>8 DEF Next, Elect

\* With --leader-elect no two processes are active at once, however late a
\* leader learns that it was cut off: it gives up before its Lease can expire
\* (main.go, "only one active controller manager").
THEOREM OneLeader == Spec => []OneActive
  <1>1. Init => Leased
    BY DEF Init, Leased
  <1>2. Leased => OneActive
    BY DEF Leased, OneActive
  <1> QED BY <1>1, <1>2, TypeCorrect, LeasedStep, PTL DEF Spec

-----------------------------------------------------------------------------
(* Whole Secrets *)

\* The data of a Secret are one attempt's, for the policy the label names.
Written(t) ==
  /\ secret[t].policy \in Policies
  /\ \E n \in Attempts :
       /\ owner[n] = secret[t].policy
       /\ secret[t].data = [k \in Keys[secret[t].policy] |-> n]

\* Jobs, writes and Secrets hold attempts of the policy they name.
Owned ==
  /\ \A r \in Replicas : job[r] # Idle => owner[job[r].attempt] = job[r].policy
  /\ \A w \in flight : owner[w.attempt] = w.policy
  /\ \A t \in Secrets : secret[t].rv > 0 => Written(t)

LEMMA OwnedStep == TypeOK /\ Owned /\ [Next]_vars => Owned'
  <1> SUFFICES ASSUME TypeOK, Owned, [Next]_vars PROVE Owned'
    OBVIOUS
  <1>1. WorkType /\ LeaseType
    BY TypeParts
  <1>2. Step
    BY <1>1, StepKinds
  <1>j. \A r \in Replicas : job[r] # Idle => job[r].attempt \in Attempts /\ job[r] \in Job
    BY <1>1 DEF WorkType, Job
  <1>w. \A w \in flight : w.attempt \in Attempts /\ w.policy \in Policies /\ w.to \in Secrets
    BY <1>1 DEF WorkType, Write
  <1>3. CASE Quiet
    BY <1>3 DEF Quiet, FewerJobs, work, Owned, Written, Attempts
  <1>4. ASSUME NEW r \in Replicas, SendWrite(r) PROVE Owned'
    <2>1. UNCHANGED <<owner, secret>>
      BY <1>4 DEF SendWrite
    <2>2. \A q \in Replicas : job'[q] # Idle => owner'[job'[q].attempt] = job'[q].policy
      BY <1>1, <1>4, <2>1, SendWriteType DEF Owned
    <2>3. \A w \in flight' : owner'[w.attempt] = w.policy
      BY <1>4, <2>1 DEF SendWrite, Owned
    <2> QED BY <2>1, <2>2, <2>3 DEF Owned, Written, Attempts
  <1>5. ASSUME NEW r \in Replicas, NEW p \in Policies, CallProvider(r, p) PROVE Owned'
    <2>1. UNCHANGED <<secret, flight>>
      BY <1>5 DEF CallProvider
    <2>2. /\ owner' = Append(owner, p) /\ Len(owner') = Len(owner) + 1
          /\ Attempts \subseteq Attempts'
          /\ job'[r].policy = p /\ job'[r].attempt = Len(owner')
          /\ \A q \in Replicas : q # r => job'[q] = job[q]
      BY <1>1, <1>5, CallProviderType
    <2>3. \A n \in Attempts : owner'[n] = owner[n]
      BY <1>1, <2>2, MoreAttempts DEF WorkType, Attempts
    <2>4. owner'[Len(owner')] = p
      BY <1>1, <2>2, MoreAttempts DEF WorkType
    <2>5. \A q \in Replicas : job'[q] # Idle => owner'[job'[q].attempt] = job'[q].policy
      BY <1>j, <2>2, <2>3, <2>4 DEF Owned
    <2>6. \A w \in flight' : owner'[w.attempt] = w.policy
      BY <1>w, <2>1, <2>3 DEF Owned
    <2>7. ASSUME NEW t \in Secrets, secret'[t].rv > 0 PROVE Written(t)'
      <3>1. secret' = secret /\ Written(t)
        BY <2>1, <2>7 DEF Owned
      <3>2. PICK n \in Attempts :
              /\ owner[n] = secret[t].policy
              /\ secret[t].data = [k \in Keys[secret[t].policy] |-> n]
        BY <3>1 DEF Written
      <3>3. n \in Attempts' /\ owner'[n] = owner[n]
        BY <2>2, <2>3
      <3> QED BY <3>1, <3>2, <3>3 DEF Written
    <2> QED BY <2>5, <2>6, <2>7 DEF Owned
  <1>6. CASE Arrive \/ Lose
    <2>1. PICK w \in flight :
            /\ Answer(w)
            /\ \/ secret' = secret
               \/ /\ Accepted(w)
                  /\ secret' = [secret EXCEPT ![w.to] =
                                  [rv |-> @.rv + 1, policy |-> w.policy, data |-> NewData(w)]]
      BY <1>6 DEF Arrive, Lose
    <2>2. owner' = owner /\ flight' \subseteq flight /\ FewerJobs
      BY <1>1, <1>6, <2>1, ArriveType DEF Arrive, Lose
    <2>3. \A r \in Replicas : job'[r] # Idle => owner'[job'[r].attempt] = job'[r].policy
      BY <2>2 DEF FewerJobs, Owned
    <2>4. \A v \in flight' : owner'[v.attempt] = v.policy
      BY <2>2 DEF Owned
    <2>5. ASSUME NEW t \in Secrets, secret'[t].rv > 0 PROVE Written(t)'
      <3>1. CASE secret'[t] = secret[t]
        BY <2>2, <2>5, <3>1 DEF Owned, Written, Attempts
      <3>2. CASE secret'[t] # secret[t]
        <4>1. /\ t = w.to /\ secret'[t].policy = w.policy
              /\ secret'[t].data = [k \in Keys[w.policy] |-> w.attempt]
          BY <1>1, <2>1, <3>2, Arrival
        <4> QED BY <1>w, <2>2, <4>1 DEF Owned, Written, Attempts
      <3> QED BY <3>1, <3>2
    <2> QED BY <2>3, <2>4, <2>5 DEF Owned
  <1> QED BY <1>2, <1>3, <1>4, <1>5, <1>6 DEF Step

LEMMA OwnedInv == Spec => []Owned
  <1>1. Init => Owned
    BY DEF Init, Owned
  <1> QED BY <1>1, TypeCorrect, OwnedStep, PTL DEF Spec

\* What is there when every value is the same.
LEMMA OneValue ==
  ASSUME NEW K, K # {}, NEW n, NEW f, f = [k \in K |-> n]
  PROVE  DOMAIN f = K /\ Range(f) = {n}
  BY DEF Range

\* A Secret always holds the outcome of one rotation of one policy: the keys of
\* the policy its label names and no others, all of the same attempt, made for
\* that policy (CreateOrUpdate in executeRotation), however many processes and
\* policies write it and whichever writes arrive late or never.
THEOREM SecretsAreWhole == Spec => []WholeSecret
  <1>1. Owned => WholeSecret
    <2> SUFFICES ASSUME Owned, NEW t \in Secrets, secret[t].rv > 0
                 PROVE  /\ DOMAIN secret[t].data = Keys[secret[t].policy]
                        /\ \E n \in Attempts :
                             Range(secret[t].data) = {n} /\ owner[n] = secret[t].policy
      BY DEF WholeSecret
    <2>1. secret[t].policy \in Policies
      BY DEF Owned, Written
    <2>2. PICK n \in Attempts :
            /\ owner[n] = secret[t].policy
            /\ secret[t].data = [k \in Keys[secret[t].policy] |-> n]
      BY DEF Owned, Written
    <2>3. Keys[secret[t].policy] # {}
      BY <2>1, KeysAssumption
    <2>4. /\ DOMAIN secret[t].data = Keys[secret[t].policy]
          /\ Range(secret[t].data) = {n}
      BY <2>2, <2>3, OneValue
    <2> QED BY <2>2, <2>4
  <1> QED BY <1>1, OwnedInv, PTL

-----------------------------------------------------------------------------
(* Newer values only *)

\* No cache and no write is ahead of the server.
Seen ==
  /\ \A r \in Replicas, t \in Secrets : seen[r][t] <= secret[t].rv
  /\ \A w \in flight : w.rv <= secret[w.to].rv

LEMMA SeenStep == TypeOK /\ Seen /\ [Next]_vars => Seen'
  <1> SUFFICES ASSUME TypeOK, Seen, [Next]_vars PROVE Seen'
    OBVIOUS
  <1>1. WorkType
    BY TypeParts
  <1>2. Step
    BY <1>1, StepKinds
  <1>n. /\ \A t \in Secrets : secret[t].rv \in Nat
        /\ \A r \in Replicas, t \in Secrets : seen[r][t] \in Nat
        /\ \A w \in flight : w.rv \in Nat /\ w.to \in Secrets
    BY <1>1 DEF WorkType, Secret, Write
  <1>3. CASE Quiet
    BY <1>3 DEF Quiet, work, Seen
  <1>4. ASSUME NEW r \in Replicas, SendWrite(r) PROVE Seen'
    <2>1. SecretRef[job[r].policy] \in Secrets
      BY <1>1, <1>4, SecretRefAssumption DEF SendWrite, WorkType, Job
    <2>2. UNCHANGED <<secret, seen>>
      BY <1>4 DEF SendWrite
    <2>3. \A w \in flight' : w.rv <= secret[w.to].rv
      BY <1>4, <2>1 DEF SendWrite, Seen
    <2> QED BY <2>2, <2>3 DEF Seen
  <1>5. ASSUME NEW r \in Replicas, NEW p \in Policies, CallProvider(r, p) PROVE Seen'
    BY <1>5 DEF CallProvider, Seen
  <1>6. CASE Arrive \/ Lose
    <2>1. PICK w \in flight :
            /\ Answer(w)
            /\ \/ secret' = secret
               \/ /\ Accepted(w)
                  /\ secret' = [secret EXCEPT ![w.to] =
                                  [rv |-> @.rv + 1, policy |-> w.policy, data |-> NewData(w)]]
      BY <1>6 DEF Arrive, Lose
    <2>2. seen' = seen /\ flight' \subseteq flight
      BY <1>1, <1>6, <2>1, ArriveType DEF Arrive, Lose
    <2>3. \A t \in Secrets : secret'[t].rv = secret[t].rv \/ secret'[t].rv = secret[t].rv + 1
      BY <1>1, <2>1, Arrival
    <2>4. \A t \in Secrets : secret'[t].rv \in Nat /\ secret[t].rv <= secret'[t].rv
      BY <1>n, <2>3
    <2>5. \A r \in Replicas, t \in Secrets : seen'[r][t] <= secret'[t].rv
      BY <1>n, <2>2, <2>4 DEF Seen
    <2>6. \A v \in flight' : v.rv <= secret'[v.to].rv
      BY <1>n, <2>2, <2>4 DEF Seen
    <2> QED BY <2>5, <2>6 DEF Seen
  <1> QED BY <1>2, <1>3, <1>4, <1>5, <1>6 DEF Step

LEMMA SeenInv == Spec => []Seen
  <1>1. Init => Seen
    BY DEF Init, Seen
  <1> QED BY <1>1, TypeCorrect, SeenStep, PTL DEF Spec

\* The value of a Secret is that of an attempt, or none.
LEMMA LatestType ==
  ASSUME TypeOK, Owned, NEW t \in Secrets
  PROVE  Latest(t) \in 0..Len(owner)
  <1>1. Len(owner) \in Nat /\ Attempts = 1..Len(owner) /\ secret[t].rv \in Nat
    BY DEF TypeOK, Attempts, Secret
  <1>2. CASE secret[t].rv = 0
    BY <1>1, <1>2 DEF Latest
  <1>3. CASE secret[t].rv > 0
    <2>1. PICK n \in Attempts : secret[t].data = [k \in Keys[secret[t].policy] |-> n]
      BY <1>3 DEF Owned, Written
    <2>2. Keys[secret[t].policy] # {}
      BY <1>3, KeysAssumption DEF Owned, Written
    <2>3. Range(secret[t].data) = {n}
      BY <2>1, <2>2, OneValue
    <2>4. Latest(t) = n
      BY <1>3, <1>1, <2>3 DEF Latest
    <2> QED BY <1>1, <2>1, <2>4
  <1> QED BY <1>1, <1>2, <1>3

\* Under leader election a rotation that is going on is the latest, and a write
\* the server would still accept is no older than what the Secret holds.
Newest ==
  leaderElect =>
    /\ \A r \in Replicas : job[r] # Idle => job[r].attempt = Len(owner)
    /\ \A w \in flight : w.rv = secret[w.to].rv => Latest(w.to) <= w.attempt

\* The effect of the server on the newest values.
LEMMA ArriveKeeps ==
  ASSUME TypeOK, Seen, Owned, Newest, leaderElect, Arrive \/ Lose
  PROVE  /\ \A v \in flight' : v.rv = secret'[v.to].rv => Latest(v.to)' <= v.attempt
         /\ \A t \in Secrets : Latest(t)' >= Latest(t)
         /\ FewerJobs /\ owner' = owner
  <1>1. WorkType
    BY TypeParts
  <1>2. PICK w \in flight :
          /\ Answer(w)
          /\ \/ secret' = secret
             \/ /\ Accepted(w)
                /\ secret' = [secret EXCEPT ![w.to] =
                                [rv |-> @.rv + 1, policy |-> w.policy, data |-> NewData(w)]]
    BY DEF Arrive, Lose
  <1>3. owner' = owner /\ flight' \subseteq flight /\ FewerJobs
    BY <1>1, <1>2, ArriveType DEF Arrive, Lose
  <1>l. \A t \in Secrets : Latest(t) \in 0..Len(owner)
    BY LatestType
  <1>n. Len(owner) \in Nat
    BY <1>1 DEF WorkType
  <1>4. CASE secret' = secret
    <2>1. \A t : Latest(t)' = Latest(t)
      BY <1>4 DEF Latest
    <2>2. \A t \in Secrets : Latest(t)' >= Latest(t)
      BY <1>l, <1>n, <2>1
    <2> QED BY <1>3, <1>4, <2>1, <2>2 DEF Newest
  <1>5. CASE /\ Accepted(w)
             /\ secret' = [secret EXCEPT ![w.to] =
                             [rv |-> @.rv + 1, policy |-> w.policy, data |-> NewData(w)]]
    <2>1. /\ secret'[w.to].rv = secret[w.to].rv + 1
          /\ secret'[w.to].data = [k \in Keys[w.policy] |-> w.attempt]
          /\ \A t \in Secrets : t # w.to => secret'[t] = secret[t]
      BY <1>1, <1>5, Arrival
    <2>2. w.to \in Secrets /\ w.policy \in Policies /\ w.attempt \in Nat /\ secret[w.to].rv \in Nat
      BY <1>1, <1>n DEF WorkType, Write, Secret, Attempts
    <2>3. Latest(w.to)' = w.attempt
      <3>1. Range(secret'[w.to].data) = {w.attempt}
        BY <2>1, <2>2, KeysAssumption, OneValue
      <3>2. secret'[w.to].rv # 0
        BY <2>1, <2>2
      <3> QED BY <3>1, <3>2 DEF Latest
    <2>4. ASSUME NEW t \in Secrets, t # w.to PROVE Latest(t)' = Latest(t)
      <3>1. secret'[t] = secret[t]
        BY <2>1, <2>4
      <3> QED BY <3>1 DEF Latest
    <2>5. Latest(w.to) <= w.attempt
      BY <1>5 DEF Newest, Accepted
    <2>6. \A t \in Secrets : Latest(t)' >= Latest(t)
      BY <1>l, <1>n, <2>2, <2>3, <2>4, <2>5
    <2>7. ASSUME NEW v \in flight', v.rv = secret'[v.to].rv PROVE Latest(v.to)' <= v.attempt
      <3>1. v \in flight /\ v.to \in Secrets /\ v.rv \in Nat /\ v.rv <= secret[v.to].rv
        BY <1>1, <1>3 DEF WorkType, Write, Seen
      <3>2. v.to # w.to
        BY <2>1, <2>2, <2>7, <3>1
      <3>3. Latest(v.to) <= v.attempt
        BY <2>1, <2>7, <3>1, <3>2 DEF Newest
      <3> QED BY <2>4, <3>1, <3>2, <3>3
    <2> QED BY <1>3, <2>6, <2>7
  <1> QED BY <1>2, <1>4, <1>5

LEMMA NewestStep ==
  ASSUME TypeOK, Seen, Owned, OneActive, Newest, [Next]_vars
  PROVE  Newest' /\ (leaderElect => \A t \in Secrets : Latest(t)' >= Latest(t))
  <1>1. WorkType /\ LeaseType
    BY TypeParts
  <1>2. Step /\ leaderElect' = leaderElect
    BY <1>1, StepKinds
  <1> SUFFICES ASSUME leaderElect PROVE Newest' /\ \A t \in Secrets : Latest(t)' >= Latest(t)
    BY <1>2 DEF Newest
  <1>l. \A t \in Secrets : Latest(t) \in 0..Len(owner)
    BY LatestType
  <1>n. Len(owner) \in Nat
    BY <1>1 DEF WorkType
  <1>s. ASSUME secret' = secret
        PROVE  (\A t : Latest(t)' = Latest(t)) /\ \A t \in Secrets : Latest(t)' >= Latest(t)
    <2>1. \A t : Latest(t)' = Latest(t)
      BY <1>s DEF Latest
    <2> QED BY <1>l, <1>n, <2>1
  <1>3. CASE Quiet
    BY <1>s, <1>3 DEF Quiet, FewerJobs, work, Newest
  <1>4. ASSUME NEW r \in Replicas, SendWrite(r)
        PROVE  Newest' /\ \A t \in Secrets : Latest(t)' >= Latest(t)
    <2>1. secret' = secret /\ owner' = owner
      BY <1>4 DEF SendWrite
    <2>2. \A q \in Replicas : job'[q] # Idle => job'[q].attempt = Len(owner)
      BY <1>1, <1>4, SendWriteType DEF Newest
    <2>3. job[r].attempt = Len(owner) /\ SecretRef[job[r].policy] \in Secrets
      BY <1>1, <1>4, SecretRefAssumption DEF SendWrite, Newest, WorkType, Job
    <2>4. Latest(SecretRef[job[r].policy]) <= Len(owner)
      BY <1>l, <1>n, <2>3
    <2>5. \A w \in flight' : w.rv = secret[w.to].rv => Latest(w.to) <= w.attempt
      BY <1>4, <2>3, <2>4 DEF SendWrite, Newest
    <2> QED BY <1>s, <2>1, <2>2, <2>5 DEF Newest
  <1>5. ASSUME NEW r \in Replicas, NEW p \in Policies, CallProvider(r, p)
        PROVE  Newest' /\ \A t \in Secrets : Latest(t)' >= Latest(t)
    <2>1. secret' = secret /\ flight' = flight
      BY <1>5 DEF CallProvider
    <2>2. \A q \in Replicas : q # r => job'[q] = job[q] /\ job[q] = Idle
      BY <1>1, <1>5, CallProviderType DEF CallProvider, WorkType, OneActive
    <2>3. job'[r].attempt = Len(owner')
      BY <1>1, <1>5, CallProviderType
    <2>4. \A q \in Replicas : job'[q] # Idle => job'[q].attempt = Len(owner')
      BY <2>2, <2>3
    <2> QED BY <1>s, <2>1, <2>4 DEF Newest
  <1>6. CASE Arrive \/ Lose
    BY <1>6, ArriveKeeps DEF FewerJobs, Newest
  <1> QED BY <1>2, <1>3, <1>4, <1>5, <1>6 DEF Step

\* With --leader-elect no Secret goes back from a later value to an earlier one,
\* although a write of a dead leader may arrive under its successor and two
\* policies may write one Secret: the Lease orders the rotations and the version
\* check of the update refuses what comes too late (executeRotation).
THEOREM NoWayBack == Spec => NewestValueKept
  <1>1. Init => Newest
    BY DEF Init, Newest
  <1>2. TypeOK /\ Seen /\ Owned /\ OneActive /\ Newest /\ [Next]_vars => Newest'
    BY NewestStep
  <1>3. TypeOK /\ Seen /\ Owned /\ OneActive /\ Newest /\ [Next]_vars =>
          [leaderElect => \A t \in Secrets : Latest(t)' >= Latest(t)]_vars
    BY NewestStep
  <1> QED BY <1>1, <1>2, <1>3, TypeCorrect, SeenInv, OwnedInv, OneLeader, PTL DEF Spec, NewestValueKept
=============================================================================
