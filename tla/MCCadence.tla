------------------------------ MODULE MCCadence ------------------------------
(* Cadence on a clock whose unit is fifteen seconds: minRequeueDelay is two  *)
(* units, a minute four.                                                     *)
EXTENDS Cadence

\* Every minute, every three minutes from the second one on, and a date that
\* never comes (30 February).  "broken" does not parse.
MCCron == [minutely |-> {4, 8, 12, 16, 20}, sparse |-> {7, 19}, never |-> {}]

MCPlans ==
  {[schedule |-> "minutely", window |-> 0], [schedule |-> "minutely", window |-> 3],
   [schedule |-> "sparse", window |-> 0], [schedule |-> "never", window |-> 0],
   [schedule |-> "broken", window |-> 0]}

MCSteadyPlans ==
  {[schedule |-> "minutely", window |-> 0], [schedule |-> "minutely", window |-> 1]}

MCEndingPlans ==
  {[schedule |-> "sparse", window |-> 0], [schedule |-> "never", window |-> 0]}
=============================================================================
