----------------------------- MODULE MCAdmission -----------------------------
EXTENDS Admission

Plain ==
  [schedule |-> "plain", secretName |-> TRUE, keys |-> 1,
   historyLimit |-> Unset, failurePolicy |-> NoneGiven]

\* Every kind of schedule, and each other field wrong, unset or set.
MCWritten ==
  {[Plain EXCEPT !.schedule = s, !.historyLimit = n] : s \in Schedules, n \in {Unset, 3}}
    \cup {[Plain EXCEPT !.secretName = FALSE], [Plain EXCEPT !.keys = 0],
          [Plain EXCEPT !.historyLimit = 0], [Plain EXCEPT !.failurePolicy = "Ignore"]}

Always == {TRUE}
Sometimes == {TRUE, FALSE}
=============================================================================
