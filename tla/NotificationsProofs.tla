------------------------- MODULE NotificationsProofs -------------------------
(***************************************************************************)
(* Proofs about the dispatch of notifications, for any list of endpoints:  *)
(* an address gets only what its endpoint subscribes to, and no endpoint   *)
(* costs the ones behind it theirs.                                        *)
(***************************************************************************)
EXTENDS Notifications, TLAPS

\* The event the loop is dispatching.
Current == event[Len(event)]

\* A loop runs on behalf of an event.
OnBehalf == next # Nil => event # <<>>

\* u is where endpoint e may be reached: its own address, if it has one.
Addressed(e, u) == IF e.url = Empty THEN e.fromSecret ELSE u = e.url

\* What holds of a goroutine from its start: whatever later dispatches,
\* changes of the Secret and deadlines do, it posts what the endpoint it was
\* started for subscribes to, where that endpoint is.
Entitled(p) ==
  /\ event[p.n] \in Endpoints[p.i].events
  /\ Addressed(Endpoints[p.i], p.url)

PostsEntitled == \A p \in posts : Entitled(p)

ReceiptsEntitled ==
  \A r \in received : r.event \in Endpoints[r.i].events /\ Addressed(Endpoints[r.i], r.url)

\* The loop has left no subscriber behind that has an address of its own.
TriedSoFar ==
  next # Nil =>
    \A i \in Places :
      i < next /\ Current \in Endpoints[i].events /\ Endpoints[i].url # Empty
        => <<Len(event), i>> \in spawned

IInv == TypeOK /\ OnBehalf /\ PostsEntitled /\ ReceiptsEntitled /\ TriedSoFar

-----------------------------------------------------------------------------
(* The steps *)

\* An endpoint that is visited is one of the policy's.
LEMMA EndpointTypes == ASSUME NEW i \in Places PROVE Endpoints[i] \in Endpoint
BY EndpointsAssumption DEF Places

\* dispatchNotifications starts a goroutine with an address to post to, and
\* that address is one of the endpoint's.
LEMMA ResolvedAddress ==
  ASSUME NEW e \in Endpoint, held \in URLs \cup {Empty, Missing},
         ~Unresolved(e), Resolved(e) # Empty
  PROVE  Resolved(e) \in URLs /\ Addressed(e, Resolved(e))
BY DEF Endpoint, Unresolved, Resolved, Addressed

\* A new event does not disturb those before it.
LEMMA EventsStay ==
  ASSUME TypeOK, NEW e \in Events, event' = Append(event, e)
  PROVE  /\ event' \in Seq(Events) /\ event' # <<>>
         /\ Dispatches \subseteq Dispatches'
         /\ \A n \in Dispatches : event'[n] = event[n]
BY DEF TypeOK, Dispatches

LEMMA DispatchStep == IInv /\ Dispatch => IInv'
<1> SUFFICES ASSUME IInv, Dispatch PROVE IInv'
  OBVIOUS
<1>1. PICK e \in {"RotationSucceeded", "RotationFailed"} : event' = Append(event, e)
  BY DEF Dispatch
<1>2. e \in Events
  BY DEF Events
<1>3. /\ event' \in Seq(Events) /\ event' # <<>>
      /\ Dispatches \subseteq Dispatches'
      /\ \A n \in Dispatches : event'[n] = event[n]
  BY <1>1, <1>2, EventsStay DEF IInv
<1>4. next' = 1 /\ UNCHANGED <<held, changes, posts, spawned, received>>
  BY DEF Dispatch
<1>5. 1 \in Places \/ Len(Endpoints) + 1 = 1
  BY EndpointsAssumption DEF Places
<1>6. Post \subseteq Post' /\ Receipt \subseteq Receipt'
  BY <1>3 DEF Post, Receipt
<1>7. TypeOK'
  <2>1. spawned' \subseteq Dispatches' \X Places
    BY <1>3, <1>4 DEF IInv, TypeOK
  <2> QED
    BY <1>3, <1>4, <1>5, <1>6, <2>1 DEF IInv, TypeOK, Places
<1>8. PostsEntitled'
  <2> SUFFICES ASSUME NEW p \in posts PROVE Entitled(p)'
    BY <1>4 DEF PostsEntitled
  <2>1. p.n \in Dispatches /\ Entitled(p)
    BY DEF IInv, TypeOK, PostsEntitled, Post
  <2> QED
    BY <1>3, <1>4, <2>1 DEF Entitled, Addressed
<1>9. ReceiptsEntitled' /\ OnBehalf'
  BY <1>3, <1>4 DEF IInv, ReceiptsEntitled, OnBehalf, Addressed
<1>10. TriedSoFar'
  BY <1>4, EndpointsAssumption DEF TriedSoFar, Places
<1> QED
  BY <1>7, <1>8, <1>9, <1>10 DEF IInv

\* The next endpoint, or the end of the list.
LEMMA NextPlace ==
  ASSUME next \in Places
  PROVE  next + 1 \in Places \cup {Len(Endpoints) + 1} /\ next # Nil /\ next + 1 # Nil
         /\ \A i \in Places : i < next + 1 => i < next \/ i = next
BY EndpointsAssumption DEF Places, Nil

LEMMA SkipStep ==
  ASSUME IInv, next \in Places, Skip(Endpoints[next]), UNCHANGED <<held, changes, event, received>>
  PROVE  IInv'
<1> DEFINE e == Endpoints[next]
<1>1. next' = next + 1 /\ UNCHANGED <<held, changes, event, received, posts, spawned>>
  BY DEF Skip, Continue
<1>2. TypeOK'
  BY <1>1, NextPlace DEF IInv, TypeOK, Post, Receipt, Dispatches
<1>3. PostsEntitled' /\ ReceiptsEntitled' /\ OnBehalf'
  BY <1>1, NextPlace DEF IInv, PostsEntitled, ReceiptsEntitled, Entitled, Addressed, OnBehalf
<1>4. Current \notin e.events \/ e.url = Empty
  BY DEF Skip, Unresolved, Resolved, Current
<1>5. TriedSoFar'
  BY <1>1, <1>4, NextPlace DEF IInv, TriedSoFar, Current
<1> QED
  BY <1>2, <1>3, <1>5 DEF IInv

LEMMA SpawnStep ==
  ASSUME IInv, next \in Places, Spawn(Endpoints[next]), UNCHANGED <<held, changes, event, received>>
  PROVE  IInv'
<1> DEFINE e == Endpoints[next]
           p == [n |-> Len(event), i |-> next, url |-> Resolved(e), age |-> 0, sent |-> FALSE]
<1>1. /\ next' = next + 1 /\ UNCHANGED <<held, changes, event, received>>
      /\ posts' = posts \cup {p} /\ spawned' = spawned \cup {<<Len(event), next>>}
  BY DEF Spawn
<1>2. Resolved(e) \in URLs /\ Addressed(e, Resolved(e))
  BY EndpointTypes, ResolvedAddress DEF Spawn, IInv, TypeOK
<1>3. Len(event) \in Dispatches
  <2>1. event # <<>> /\ event \in Seq(Events)
    BY NextPlace DEF IInv, OnBehalf, TypeOK
  <2> QED
    BY <2>1 DEF Dispatches
<1>4. p \in Post
  BY <1>2, <1>3, BoundsAssumption DEF Post
<1>5. TypeOK'
  <2>1. posts' \subseteq Post' /\ received' \subseteq Receipt'
    <3>1. Post' = Post /\ Receipt' = Receipt
      BY <1>1 DEF Post, Receipt, Dispatches
    <3> QED
      BY <1>1, <1>4, <3>1 DEF IInv, TypeOK
  <2>2. spawned' \subseteq Dispatches' \X Places
    BY <1>1, <1>3 DEF IInv, TypeOK, Dispatches
  <2> QED
    BY <1>1, <2>1, <2>2, NextPlace DEF IInv, TypeOK
<1>6. PostsEntitled'
  <2>1. Entitled(p)
    BY <1>2 DEF Entitled, Spawn
  <2> QED
    BY <1>1, <2>1 DEF IInv, PostsEntitled, Entitled, Addressed
<1>7. ReceiptsEntitled' /\ OnBehalf'
  BY <1>1, NextPlace DEF IInv, ReceiptsEntitled, Addressed, OnBehalf
<1>8. TriedSoFar'
  BY <1>1, NextPlace DEF IInv, TriedSoFar, Current
<1> QED
  BY <1>5, <1>6, <1>7, <1>8 DEF IInv

LEMMA EndDispatchStep == IInv /\ EndDispatch => IInv'
BY DEF IInv, EndDispatch, TypeOK, Post, Receipt, Dispatches, OnBehalf, PostsEntitled,
       ReceiptsEntitled, Entitled, Addressed, TriedSoFar

\* The goroutines go on by themselves: what they are about is settled.
LEMMA SamePosts ==
  ASSUME IInv, UNCHANGED <<held, changes, event, next, spawned>>,
         posts' \subseteq Post, received' \subseteq Receipt, PostsEntitled', ReceiptsEntitled'
  PROVE  IInv'
BY DEF IInv, TypeOK, Post, Receipt, Dispatches, OnBehalf, TriedSoFar, Current

LEMMA ReachStep == IInv /\ Reach => IInv'
<1> SUFFICES ASSUME IInv, Reach PROVE IInv'
  OBVIOUS
<1>1. PICK p \in {q \in posts : ~q.sent} :
        /\ posts' = (posts \ {p}) \cup {[p EXCEPT !.sent = TRUE]}
        /\ received' = received \cup {[n |-> p.n, i |-> p.i, url |-> Target(p), event |-> event[p.n]]}
        /\ UNCHANGED <<held, changes, event, next, spawned>>
  BY DEF Reach
<1> DEFINE q == [p EXCEPT !.sent = TRUE]
           r == [n |-> p.n, i |-> p.i, url |-> Target(p), event |-> event[p.n]]
<1>2. p \in Post /\ Entitled(p)
  BY DEF IInv, TypeOK, PostsEntitled
<1>3. q \in Post /\ q.n = p.n /\ q.i = p.i /\ q.url = p.url
  BY <1>2 DEF Post
<1>4. r \in Receipt
  BY <1>2 DEF IInv, TypeOK, Post, Receipt, Target, Dispatches
<1>5. posts' \subseteq Post /\ received' \subseteq Receipt
  BY <1>1, <1>3, <1>4 DEF IInv, TypeOK
<1>6. PostsEntitled'
  BY <1>1, <1>2, <1>3 DEF IInv, PostsEntitled, Entitled, Addressed
<1>7. ReceiptsEntitled'
  BY <1>1, <1>2 DEF IInv, ReceiptsEntitled, Entitled, Addressed, Target
<1> QED
  BY <1>1, <1>5, <1>6, <1>7, SamePosts

LEMMA EndOfPostStep == IInv /\ (Finish \/ Expire) => IInv'
<1> SUFFICES ASSUME IInv, Finish \/ Expire PROVE IInv'
  OBVIOUS
<1>1. posts' \subseteq posts /\ UNCHANGED <<held, changes, event, next, spawned, received>>
  BY DEF Finish, Expire
<1>2. posts' \subseteq Post /\ received' \subseteq Receipt
  BY <1>1 DEF IInv, TypeOK
<1>3. PostsEntitled' /\ ReceiptsEntitled'
  BY <1>1 DEF IInv, PostsEntitled, ReceiptsEntitled, Entitled, Addressed
<1> QED
  BY <1>1, <1>2, <1>3, SamePosts

LEMMA TickStep == IInv /\ Tick => IInv'
<1> SUFFICES ASSUME IInv, Tick PROVE IInv'
  OBVIOUS
<1> DEFINE Older(p) == [p EXCEPT !.age = IF @ < Timeout THEN @ + 1 ELSE @]
<1>1. posts' = {Older(p) : p \in posts} /\ UNCHANGED <<held, changes, event, next, spawned, received>>
  BY DEF Tick
<1>2. ASSUME NEW p \in posts
      PROVE  Older(p) \in Post /\ Older(p).n = p.n /\ Older(p).i = p.i /\ Older(p).url = p.url
  <2>1. p \in Post
    BY DEF IInv, TypeOK
  <2>2. (IF p.age < Timeout THEN p.age + 1 ELSE p.age) \in 0..Timeout
    BY <2>1, BoundsAssumption DEF Post
  <2> QED
    BY <2>1, <2>2 DEF Post
<1>3. posts' \subseteq Post /\ received' \subseteq Receipt
  BY <1>1, <1>2 DEF IInv, TypeOK
<1>4. PostsEntitled'
  <2> SUFFICES ASSUME NEW p \in posts PROVE Entitled(Older(p))'
    BY <1>1 DEF PostsEntitled
  <2> QED
    BY <1>1, <1>2 DEF IInv, PostsEntitled, Entitled, Addressed
<1>5. ReceiptsEntitled'
  BY <1>1 DEF IInv, ReceiptsEntitled, Addressed
<1> QED
  BY <1>1, <1>3, <1>4, <1>5, SamePosts

LEMMA ChangeSecretStep == IInv /\ ChangeSecret => IInv'
BY DEF IInv, ChangeSecret, TypeOK, Post, Receipt, Dispatches, OnBehalf, PostsEntitled,
       ReceiptsEntitled, Entitled, Addressed, TriedSoFar, Current

LEMMA CrashStep == IInv /\ Crash => IInv'
BY DEF IInv, Crash, TypeOK, Post, Receipt, Dispatches, OnBehalf, PostsEntitled,
       ReceiptsEntitled, Entitled, Addressed, TriedSoFar, Current

-----------------------------------------------------------------------------
(* The theorems *)

\* The inductive invariant holds in every state, whatever the list of endpoints.
THEOREM Invariance == Spec => []IInv
<1>1. Init => IInv
  BY DEF Init, IInv, TypeOK, OnBehalf, PostsEntitled, ReceiptsEntitled, TriedSoFar
<1>2. IInv /\ [Next]_vars => IInv'
  <2> SUFFICES ASSUME IInv, [Next]_vars PROVE IInv'
    OBVIOUS
  <2>1. CASE VisitEndpoint
    BY <2>1, SkipStep, SpawnStep DEF VisitEndpoint
  <2>2. CASE UNCHANGED vars
    BY <2>2 DEF vars, IInv, TypeOK, Post, Receipt, Dispatches, OnBehalf, PostsEntitled,
                ReceiptsEntitled, Entitled, Addressed, TriedSoFar, Current
  <2> QED
    BY <2>1, <2>2, DispatchStep, EndDispatchStep, ReachStep, EndOfPostStep, TickStep,
       ChangeSecretStep, CrashStep DEF Next
<1> QED
  BY <1>1, <1>2, PTL DEF Spec

\* The state of the dispatch is what TypeOK says: every goroutine belongs to a
\* dispatch that took place and to an endpoint of the policy, posts to an
\* address a user wrote, and is never older than notificationTimeout.
THEOREM TypeCorrect == Spec => []TypeOK
BY Invariance, PTL DEF IInv

\* postNotification sends an endpoint only events it subscribes to, and only to
\* its own address, for any list of endpoints, any number of goroutines on their
\* way, and any change of the Secret between their start and their request.
THEOREM Configured == Spec => []SentAsConfigured
<1>1. IInv => SentAsConfigured
  BY DEF IInv, ReceiptsEntitled, SentAsConfigured, Addressed
<1> QED
  BY <1>1, Invariance, PTL

\* dispatchNotifications skips an endpoint with continue, never with return:
\* when it is through, each subscriber with an address of its own has had its
\* goroutine, however many endpoints before it are broken.
THEOREM EverySubscriber == Spec => []EverySubscriberTried
<1>1. IInv => EverySubscriberTried
  <2> SUFFICES ASSUME IInv, next > Len(Endpoints), NEW i \in Places,
                      event[Len(event)] \in Endpoints[i].events, Endpoints[i].url # Empty
               PROVE  <<Len(event), i>> \in spawned
    BY DEF EverySubscriberTried
  <2>1. i < next /\ next # Nil
    BY EndpointsAssumption DEF Places, Nil, IInv, TypeOK
  <2> QED
    BY <2>1 DEF IInv, TriedSoFar, Current
<1> QED
  BY <1>1, Invariance, PTL
=============================================================================
