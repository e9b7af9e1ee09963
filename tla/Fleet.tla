------------------------------- MODULE Fleet -------------------------------
(***************************************************************************)
(* The processes of the operator (cmd/main.go) around the Secrets they     *)
(* write (CreateOrUpdate in executeRotation): replicas with or without     *)
(* leader election, policies that may name the same Secret, informer       *)
(* caches that lag, and calls of a process that arrive after its death.    *)
(* One worker per process, so one rotation at a time in each; which policy *)
(* is due is the business of module Cadence and left open here.            *)
(***************************************************************************)
EXTENDS Integers, Sequences, Functions

CONSTANTS
  Replicas,       \* the pods of the deployment
  NoReplica,      \* what names the holder of a Lease nobody ever took
  Policies,
  NoPolicy,       \* what labels a Secret that does not exist
  Secrets,
  SecretRef,      \* the Secret each policy names in spec.secretRef
  Keys,           \* the keys each policy maps
  Flags,          \* what --leader-elect may be set to
  LeaseDuration,  \* after this long without renewal others may take the lease
  RenewDeadline,  \* after this long without renewal the leader gives up
  MaxAttempts,    \* bound on the calls of providers
  MaxCrashes      \* bound on the crashes

ASSUME NoneAssumption == NoReplica \notin Replicas /\ NoPolicy \notin Policies
ASSUME SecretRefAssumption == SecretRef \in [Policies -> Secrets]
\* spec.keys has at least one item.
ASSUME KeysAssumption == \A p \in Policies : Keys[p] # {}
ASSUME FlagsAssumption == Flags \subseteq BOOLEAN
\* The defaults of the manager are 15 and 10 seconds.
ASSUME LeaseAssumption ==
  /\ {LeaseDuration, RenewDeadline} \subseteq Nat \ {0}
  /\ RenewDeadline < LeaseDuration
ASSUME BoundsAssumption == {MaxAttempts, MaxCrashes} \subseteq Nat

VARIABLES
  leaderElect,  \* the flag --leader-elect of the deployment
  holder,     \* the replica named in the Lease
  remaining,  \* how long the Lease is still good
  proc,       \* the state of each process
  unrenewed,  \* how long ago each leader last renewed the Lease
  job,        \* the rotation each worker is in
  secret,     \* the Secrets in the API server
  seen,       \* the version of each Secret in the informer cache of each process
  flight,     \* writes sent and not yet answered
  owner,      \* history: the policy of each attempt, in the order of the provider calls
  crashes     \* how many processes have died

leaseVars == <<holder, remaining, unrenewed>>
vars == <<leaderElect, leaseVars, proc, job, secret, seen, flight, owner, crashes>>

Attempts == DOMAIN owner
States == {"down", "standby", "active"}
Data == (UNION {[Keys[p] -> Attempts] : p \in Policies}) \cup {<<>>}

Idle == [policy |-> NoPolicy]
Job == [policy : Policies, stage : {"fetched", "sent"}, attempt : Attempts]

\* A Secret with the values of its keys, each by the attempt it comes from, and
\* the label that names the policy.  Version 0: the Secret does not exist.
Secret == [rv : Nat, policy : Policies \cup {NoPolicy}, data : Data]
Write == [by : Replicas, to : Secrets, rv : Nat, policy : Policies, attempt : Attempts]

TypeOK ==
  /\ leaderElect \in BOOLEAN
  /\ holder \in Replicas \cup {NoReplica}
  /\ remaining \in 0..LeaseDuration
  /\ proc \in [Replicas -> States]
  /\ unrenewed \in [Replicas -> 0..RenewDeadline]
  /\ owner \in Seq(Policies)
  /\ job \in [Replicas -> Job \cup {Idle}]
  /\ \A r \in Replicas : job[r] # Idle => proc[r] = "active"
  /\ secret \in [Secrets -> Secret]
  /\ seen \in [Replicas -> [Secrets -> Nat]]
  /\ flight \subseteq Write
  /\ crashes \in Nat

Init ==
  /\ leaderElect \in Flags
  /\ holder = NoReplica /\ remaining = 0
  /\ proc = [r \in Replicas |-> "down"]
  /\ unrenewed = [r \in Replicas |-> 0]
  /\ job = [r \in Replicas |-> Idle]
  /\ secret = [t \in Secrets |-> [rv |-> 0, policy |-> NoPolicy, data |-> <<>>]]
  /\ seen = [r \in Replicas |-> [t \in Secrets |-> 0]]
  /\ flight = {}
  /\ owner = <<>>
  /\ crashes = 0

-----------------------------------------------------------------------------
(* Processes and the Lease *)

work == <<secret, flight, owner>>
deployment == <<leaderElect, crashes>>

\* A process starts with caches listed afresh, its controller at once or, with
\* leader election, once it has the Lease.
Start(r) ==
  /\ proc[r] = "down"
  /\ proc' = [proc EXCEPT ![r] = IF leaderElect THEN "standby" ELSE "active"]
  /\ seen' = [seen EXCEPT ![r] = [t \in Secrets |-> secret[t].rv]]
  /\ UNCHANGED <<leaseVars, job, work, deployment>>

\* Variant: only a Lease given back is taken.
Free == holder = NoReplica

\* LeaderElectionReleaseOnCancel is off: a Lease is never given back, it expires.
Expired == remaining = 0

Acquire(r) ==
  /\ proc[r] = "standby"
  /\ Expired
  /\ holder' = r /\ remaining' = LeaseDuration
  /\ unrenewed' = [unrenewed EXCEPT ![r] = 0]
  /\ proc' = [proc EXCEPT ![r] = "active"]
  /\ UNCHANGED <<job, work, seen, deployment>>

\* The leader renews; it may not learn that it did.
Renew(r) ==
  /\ leaderElect /\ proc[r] = "active" /\ holder = r
  /\ remaining' = LeaseDuration
  /\ unrenewed' \in {unrenewed, [unrenewed EXCEPT ![r] = 0]}
  /\ UNCHANGED <<holder, proc, job, work, seen, deployment>>

\* Variant: the error of mgr.Start is logged and the process lives on.
LiveOn(r) == UNCHANGED <<proc, job>>

\* Variant: the controller stops and its worker does not.
DieSlowly(r) == proc' = [proc EXCEPT ![r] = "down"] /\ UNCHANGED job

Die(r) == proc' = [proc EXCEPT ![r] = "down"] /\ job' = [job EXCEPT ![r] = Idle]

\* The renew deadline has passed: mgr.Start returns an error and main exits.
LoseLease(r) ==
  /\ leaderElect /\ proc[r] = "active"
  /\ unrenewed[r] = RenewDeadline
  /\ Die(r)
  /\ unrenewed' = [unrenewed EXCEPT ![r] = 0]
  /\ UNCHANGED <<holder, remaining, work, seen, deployment>>

Crash(r) ==
  /\ proc[r] # "down"
  /\ crashes < MaxCrashes
  /\ crashes' = crashes + 1
  /\ Die(r)
  /\ unrenewed' = [unrenewed EXCEPT ![r] = 0]
  /\ UNCHANGED <<holder, remaining, work, seen, leaderElect>>

\* Time passes, but never beyond the deadline of a leader: its timer fires.
Tick ==
  /\ leaderElect
  /\ \A r \in Replicas : proc[r] = "active" => unrenewed[r] < RenewDeadline
  /\ remaining' = IF remaining = 0 THEN 0 ELSE remaining - 1
  /\ unrenewed' = [r \in Replicas |->
                     IF proc[r] = "active" THEN unrenewed[r] + 1 ELSE unrenewed[r]]
  /\ UNCHANGED <<holder, proc, job, work, seen, deployment>>

-----------------------------------------------------------------------------
(* executeRotation, as far as the Secret goes *)

\* A policy is due: its provider makes a new value.
CallProvider(r, p) ==
  /\ proc[r] = "active" /\ job[r] = Idle
  /\ Len(owner) < MaxAttempts
  /\ owner' = Append(owner, p)
  /\ job' = [job EXCEPT ![r] = [policy |-> p, stage |-> "fetched", attempt |-> Len(owner) + 1]]
  /\ UNCHANGED <<leaseVars, proc, secret, seen, flight, deployment>>

\* CreateOrUpdate reads the Secret from the cache, creates it when the cache has
\* none, and otherwise updates the version it read.
SendWrite(r) ==
  /\ job[r] # Idle /\ job[r].stage = "fetched"
  /\ LET p == job[r].policy
         t == SecretRef[p]
     IN  flight' = flight \cup
           {[by |-> r, to |-> t, rv |-> seen[r][t], policy |-> p, attempt |-> job[r].attempt]}
  /\ job' = [job EXCEPT ![r].stage = "sent"]
  /\ UNCHANGED <<leaseVars, proc, secret, seen, owner, deployment>>

\* The sender is still there, waiting for the answer.
Waiting(w) == job[w.by] # Idle /\ job[w.by].attempt = w.attempt

\* The call ends for its sender: the attempt goes on to its end or fails, neither
\* of which touches the Secret again.
Answer(w) ==
  /\ flight' = flight \ {w}
  /\ job' = IF Waiting(w) THEN [job EXCEPT ![w.by] = Idle] ELSE job

\* Variant: the server takes a write of any version.
AnyVersion(w) == TRUE

\* Optimistic concurrency: a Secret that has moved on is not updated, one that
\* exists is not created.
Accepted(w) == w.rv = secret[w.to].rv

Values(w) == [k \in Keys[w.policy] |-> w.attempt]

\* Variant: the values join the keys that are there.
MergedData(w) ==
  LET old == secret[w.to].data
  IN  [k \in Keys[w.policy] \cup DOMAIN old |-> IF k \in Keys[w.policy] THEN w.attempt ELSE old[k]]

\* k8sSecret.Data = data: whatever keys the Secret had go.
NewData(w) == Values(w)

\* The server handles the write, whether or not its sender still lives.
Arrive ==
  \E w \in flight :
    /\ Answer(w)
    /\ secret' =
         IF Accepted(w)
           THEN [secret EXCEPT ![w.to] = [rv |-> @.rv + 1, policy |-> w.policy, data |-> NewData(w)]]
           ELSE secret
    /\ UNCHANGED <<leaseVars, proc, seen, owner, deployment>>

\* The write never arrives.
Lose ==
  \E w \in flight :
    /\ Answer(w)
    /\ UNCHANGED <<leaseVars, proc, secret, seen, owner, deployment>>

\* The informer of a process shows a later version.
SecretSync(r, t) ==
  /\ proc[r] # "down"
  /\ \E rv \in seen[r][t] + 1 .. secret[t].rv : seen' = [seen EXCEPT ![r][t] = rv]
  /\ UNCHANGED <<leaseVars, proc, job, work, deployment>>

-----------------------------------------------------------------------------

Elect(r) == Start(r) \/ Acquire(r) \/ Renew(r) \/ LoseLease(r)
Rotate(r) == SendWrite(r) \/ \E p \in Policies : CallProvider(r, p)
Sync(r) == \E t \in Secrets : SecretSync(r, t)

Next ==
  \/ \E r \in Replicas : Elect(r) \/ Rotate(r) \/ Sync(r) \/ Crash(r)
  \/ Arrive \/ Lose \/ Tick

Spec == Init /\ [][Next]_vars

\* The kubelet restarts a process, the elector of a standby tries again and
\* again, the timer of a leader fires and time passes.  Nothing is assumed of
\* renewals: the API server may be out of a leader's reach for ever.
Fairness ==
  /\ WF_vars(Tick)
  /\ \A r \in Replicas : WF_vars(Start(r)) /\ WF_vars(Acquire(r)) /\ WF_vars(LoseLease(r))

FairSpec == Spec /\ Fairness

-----------------------------------------------------------------------------
(* Properties *)

\* "Enabling this will ensure there is only one active controller manager",
\* although a leader that is cut off does not know whether its lease was taken:
\* it is gone before the lease can be.
OneActive ==
  leaderElect => \A r, s \in Replicas : proc[r] = "active" /\ proc[s] = "active" => r = s

Latest(t) == IF secret[t].rv = 0 THEN 0 ELSE CHOOSE n \in Range(secret[t].data) : TRUE

\* With leader election a Secret never goes back from the value of a later
\* provider call to that of an earlier one, be it that a leader dies with a
\* write on its way and the next one rotates the same policy, or that two
\* policies write the same Secret.
NewestValueKept ==
  [][leaderElect => \A t \in Secrets : Latest(t)' >= Latest(t)]_vars

\* What a reader of a Secret finds is the outcome of one rotation of one policy,
\* whole: the keys of the policy its label names and no others, all of them of
\* the same attempt, and that an attempt for this policy; whoever else writes
\* the Secret, in this process or another.
WholeSecret ==
  \A t \in Secrets : secret[t].rv > 0 =>
    /\ DOMAIN secret[t].data = Keys[secret[t].policy]
    /\ \E n \in Attempts : Range(secret[t].data) = {n} /\ owner[n] = secret[t].policy

\* Whatever process dies or is cut off, there is an active one again.
SomeoneActs == []<>(\E r \in Replicas : proc[r] = "active")
=============================================================================
