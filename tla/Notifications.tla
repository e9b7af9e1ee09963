--------------------------- MODULE Notifications ---------------------------
(***************************************************************************)
(* dispatchNotifications and postNotification (internal/controller): after *)
(* an attempt the worker walks through spec.notifications and leaves a     *)
(* goroutine behind for every endpoint that wants the event.  Each posts   *)
(* on its own, within ten seconds, while the worker goes on to other       *)
(* attempts; the user may meanwhile change the Secret that holds a URL,    *)
(* and the process may die.                                                *)
(***************************************************************************)
EXTENDS Integers, Sequences, FiniteSets

CONSTANTS
  Endpoints,      \* spec.notifications, a sequence
  URLs,           \* the addresses a user may write
  Timeout,        \* notificationTimeout
  MaxDispatches,  \* bound on the dispatches
  MaxChanges      \* bound on the changes of the Secret

Empty == ""
Missing == "missing"    \* the Secret cannot be read
Events == {"RotationSucceeded", "RotationFailed", "RotationSkipped"}

\* NotificationSpec: without a URL of its own the endpoint may read the Secret.
Endpoint == [url : URLs \cup {Empty}, fromSecret : BOOLEAN, events : SUBSET Events]

ASSUME EndpointsAssumption == Endpoints \in Seq(Endpoint)
ASSUME URLsAssumption == {Empty, Missing} \cap URLs = {}
ASSUME BoundsAssumption == Timeout \in Nat \ {0} /\ {MaxDispatches, MaxChanges} \subseteq Nat

VARIABLES
  held,     \* the URL in the Secret, Empty without that key, Missing without it
  changes,  \* how often the Secret was changed
  event,    \* the event of each dispatch, the last one under way or the latest
  next,     \* the endpoint the loop comes to, Nil when there is no loop
  posts,    \* the goroutines
  spawned,  \* history: the goroutines ever started, by dispatch and endpoint
  received  \* history: the requests that reached an address

vars == <<held, changes, event, next, posts, spawned, received>>

Nil == 0
Dispatches == DOMAIN event
Places == DOMAIN Endpoints
Post == [n : Dispatches, i : Places, url : URLs, age : 0..Timeout, sent : BOOLEAN]
Receipt == [n : Dispatches, i : Places, url : URLs, event : Events]

TypeOK ==
  /\ held \in URLs \cup {Empty, Missing}
  /\ changes \in Nat
  /\ event \in Seq(Events)
  /\ next \in {Nil} \cup Places \cup {Len(Endpoints) + 1}
  /\ posts \subseteq Post
  /\ spawned \subseteq Dispatches \X Places
  /\ received \subseteq Receipt

Init ==
  /\ held \in URLs \cup {Empty, Missing}
  /\ changes = 0
  /\ event = <<>> /\ next = Nil
  /\ posts = {} /\ spawned = {} /\ received = {}

-----------------------------------------------------------------------------
(* dispatchNotifications *)

\* The reconciler announces successes and failures, never a skip.
Dispatch ==
  /\ next = Nil
  /\ Len(event) < MaxDispatches
  /\ \E e \in {"RotationSucceeded", "RotationFailed"} : event' = Append(event, e)
  /\ next' = 1
  /\ UNCHANGED <<held, changes, posts, spawned, received>>

\* The Secret could not be read.
Unresolved(e) == e.url = Empty /\ e.fromSecret /\ held = Missing

\* Variant: the Secret comes first.
SecretFirst(e) == IF e.fromSecret THEN held ELSE e.url

\* The endpoint's own URL, and only without one that of the Secret.
Resolved(e) == IF e.url = Empty /\ e.fromSecret THEN held ELSE e.url

\* Variant: return in place of continue.
GiveUp == next' = Len(Endpoints) + 1

\* An endpoint that gets nothing does not keep the others from getting theirs.
Continue == next' = next + 1

Skip(e) ==
  /\ \/ event[Len(event)] \notin e.events
     \/ Unresolved(e)
     \/ Resolved(e) = Empty
  /\ Continue
  /\ UNCHANGED <<posts, spawned>>

Spawn(e) ==
  /\ event[Len(event)] \in e.events
  /\ ~Unresolved(e) /\ Resolved(e) # Empty
  /\ posts' = posts \cup
       {[n |-> Len(event), i |-> next, url |-> Resolved(e), age |-> 0, sent |-> FALSE]}
  /\ spawned' = spawned \cup {<<Len(event), next>>}
  /\ next' = next + 1

VisitEndpoint ==
  /\ next \in Places
  /\ Skip(Endpoints[next]) \/ Spawn(Endpoints[next])
  /\ UNCHANGED <<held, changes, event, received>>

\* The loop is done and the worker returns from the reconcile.
EndDispatch ==
  /\ next > Len(Endpoints)
  /\ next' = Nil
  /\ UNCHANGED <<held, changes, event, posts, spawned, received>>

-----------------------------------------------------------------------------
(* postNotification, in a goroutine of its own *)

\* Variant: the goroutines of a dispatch share the variable, and see its last value.
SharedTarget(p) ==
  LET newest == {q \in posts : q.n = p.n /\ \A o \in posts : o.n = p.n => o.i <= q.i}
  IN  (CHOOSE q \in newest : TRUE).url

\* endpoint is a variable of the iteration that the goroutine has to itself.
Target(p) == p.url

\* The request reaches the endpoint.
Reach ==
  \E p \in {q \in posts : ~q.sent} :
    /\ posts' = (posts \ {p}) \cup {[p EXCEPT !.sent = TRUE]}
    /\ received' = received \cup {[n |-> p.n, i |-> p.i, url |-> Target(p), event |-> event[p.n]]}
    /\ UNCHANGED <<held, changes, event, next, spawned>>

\* An answer, good or bad, or an error: nothing is tried again.
Finish ==
  \E p \in posts :
    /\ posts' = posts \ {p}
    /\ UNCHANGED <<held, changes, event, next, spawned, received>>

\* Variant: a context without deadline.
NeverOverdue(p) == FALSE

Overdue(p) == p.age = Timeout

\* The context of the request is cancelled.
Expire ==
  \E p \in posts :
    /\ Overdue(p)
    /\ posts' = posts \ {p}
    /\ UNCHANGED <<held, changes, event, next, spawned, received>>

\* Time passes, but not beyond the deadline of a request: its timer fires.
Tick ==
  /\ posts # {}
  /\ \A p \in posts : ~Overdue(p)
  /\ posts' = {[p EXCEPT !.age = IF @ < Timeout THEN @ + 1 ELSE @] : p \in posts}
  /\ UNCHANGED <<held, changes, event, next, spawned, received>>

-----------------------------------------------------------------------------

ChangeSecret ==
  /\ changes < MaxChanges
  /\ changes' = changes + 1
  /\ held' \in (URLs \cup {Empty, Missing}) \ {held}
  /\ UNCHANGED <<event, next, posts, spawned, received>>

\* The goroutines die with the process, and the loop with them.
Crash ==
  /\ next # Nil \/ posts # {}
  /\ next' = Nil /\ posts' = {}
  /\ UNCHANGED <<held, changes, event, spawned, received>>

Next ==
  \/ Dispatch \/ VisitEndpoint \/ EndDispatch
  \/ Reach \/ Finish \/ Expire \/ Tick
  \/ ChangeSecret \/ Crash

Spec == Init /\ [][Next]_vars

\* The scheduler of Go runs the loop and fires the timers, time passes.
\* Endpoints owe nothing: they may never be reached and never answer.
Fairness ==
  /\ WF_vars(VisitEndpoint) /\ WF_vars(EndDispatch)
  /\ WF_vars(Expire) /\ WF_vars(Tick)

FairSpec == Spec /\ Fairness

-----------------------------------------------------------------------------
(* Properties *)

\* An address receives only events that its endpoint subscribes to, and only an
\* endpoint's own address gets them: one written in the policy, or, where there
\* is none, one out of the Secret; however many goroutines of this dispatch and
\* of earlier ones are on their way.
SentAsConfigured ==
  \A r \in received :
    LET e == Endpoints[r.i]
    IN  /\ r.event \in e.events
        /\ IF e.url = Empty THEN e.fromSecret ELSE r.url = e.url

\* When the loop is through, every subscriber with an address of its own has
\* been given its goroutine, whatever was wrong with the endpoints before it.
EverySubscriberTried ==
  next > Len(Endpoints) =>
    \A i \in Places :
      event[Len(event)] \in Endpoints[i].events /\ Endpoints[i].url # Empty
        => <<Len(event), i>> \in spawned

\* Goroutines do not pile up: those of every dispatch come to an end although
\* endpoints hang.
PostsEnd ==
  \A n \in 1..MaxDispatches :
    (\E p \in posts : p.n = n) ~> (\A p \in posts : p.n # n)
=============================================================================
