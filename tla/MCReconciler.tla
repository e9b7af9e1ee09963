---------------------------- MODULE MCReconciler ----------------------------
EXTENDS Reconciler

Base ==
  [suspend |-> FALSE, provider |-> "mock", keysOK |-> TRUE,
   schedule |-> "often", window |-> 0, failurePolicy |-> "Fail"]

\* Fires at every second instant of the short clock.
MCCron == [often |-> {2, 4, 6}]

OneSpec == {Base}
AllSpecs ==
  {Base, [Base EXCEPT !.suspend = TRUE], [Base EXCEPT !.provider = "invalid"],
   [Base EXCEPT !.provider = "stub", !.schedule = "broken"],
   [Base EXCEPT !.keysOK = FALSE]}
HarmlessSpecs == {Base, [Base EXCEPT !.failurePolicy = "Ignore"]}
IgnoringSpecs == {[Base EXCEPT !.failurePolicy = "Ignore"]}
StubSpecs == {[Base EXCEPT !.provider = "stub"]}
UnmappedSpecs == {[Base EXCEPT !.keysOK = FALSE]}
BreakableSpecs == {Base, [Base EXCEPT !.schedule = "broken"]}
PausableSpecs == {Base, [Base EXCEPT !.suspend = TRUE]}

\* Budgets: what the user does, how often the process dies, how many calls to
\* the API server and to the provider fail.
Budget(user, crash, calls, provider) ==
  [user |-> user, crash |-> crash, api |-> calls, provider |-> provider]

Faults == {Budget(1, 1, 1, 0), Budget(1, 0, 0, 1)}
Users == {Budget(2, 0, 0, 0)}
LiveFaults == {Budget(1, 1, 0, 0), Budget(1, 0, 1, 0), Budget(1, 0, 0, 1)}
ProviderOnly == {Budget(0, 0, 0, 1)}
Nothing == {Budget(0, 0, 0, 0)}
OneFailedCall == {Budget(0, 0, 1, 0)}
TwoFailedCalls == {Budget(0, 0, 2, 0)}
OneEdit == {Budget(1, 0, 0, 0)}

RetryLimit == 1   \* spec.policy.retryLimit, a field the controller never reads

\* "RetryLimit is the maximum number of retry attempts on transient failure": a
\* failure of the provider is followed by no more than RetryLimit failures of
\* scheduled attempts in a row.
RetriesLimited ==
  \A n \in Attempts :
    n + RetryLimit < Len(log) =>
      \E k \in n..(n + RetryLimit + 1) : log[k].failed = Nil \/ log[k].manual
=============================================================================
