--------------------------- MODULE RotationLedger ---------------------------
(***************************************************************************)
(* What the controller promises of one policy, whatever the API server,    *)
(* the provider, the informers, the users and the process do meanwhile:    *)
(* an account of attempts, of the values they wrote, of the time recorded  *)
(* and of the request made by hand.  Module Reconciler implements it.      *)
(***************************************************************************)
EXTENDS Integers

VARIABLES
  clock,     \* the time
  present,   \* the policy exists
  attempt,   \* how many attempts have begun
  stage,     \* how far the attempt under way has come
  secret,    \* the attempt whose value the Secret holds, 0: none
  last,      \* the time recorded for the last rotation, Never: none
  request    \* the request made by hand, and whether an attempt began since

vars == <<clock, present, attempt, stage, secret, last, request>>

Never == -1
Stages == {"none", "begun", "written"}
Requests == {"none", "new", "seen"}

TypeOK ==
  /\ clock \in Nat \ {0}
  /\ present \in BOOLEAN
  /\ attempt \in Nat
  /\ stage \in Stages
  /\ secret \in Nat
  /\ last \in Nat \cup {Never}
  /\ request \in Requests

Init ==
  /\ clock = 1
  /\ present = TRUE
  /\ attempt = 0 /\ stage = "none" /\ secret = 0
  /\ last = Never
  /\ request = "none"

Pass ==
  /\ clock' = clock + 1
  /\ UNCHANGED <<present, attempt, stage, secret, last, request>>

Ask ==
  /\ present /\ request = "none"
  /\ request' = "new"
  /\ UNCHANGED <<clock, present, attempt, stage, secret, last>>

Begin ==
  /\ present /\ stage = "none"
  /\ attempt' = attempt + 1
  /\ stage' = "begun"
  /\ request' = IF request = "new" THEN "seen" ELSE request
  /\ UNCHANGED <<clock, present, secret, last>>

\* The Secret takes the value of the attempt under way, once.
Write ==
  /\ stage = "begun"
  /\ secret' = attempt
  /\ stage' = "written"
  /\ UNCHANGED <<clock, present, attempt, last, request>>

\* A request goes only after the value it asked for is in the Secret.
Serve ==
  /\ stage = "written" /\ request = "seen"
  /\ request' = "none"
  /\ UNCHANGED <<clock, present, attempt, stage, secret, last>>

\* The time is recorded after the value, at most to be given up at once: the
\* controller may not learn that it was.
Record ==
  /\ stage = "written"
  /\ last' = clock
  /\ stage' \in {"written", "none"}
  /\ UNCHANGED <<clock, present, attempt, secret, request>>

\* The attempt is over: finished, failed, given up or forgotten in a crash.
End ==
  /\ stage # "none"
  /\ stage' = "none"
  /\ UNCHANGED <<clock, present, attempt, secret, last, request>>

\* The policy goes for good, never while an attempt is under way.
Go ==
  /\ present /\ stage = "none"
  /\ present' = FALSE
  /\ UNCHANGED <<clock, attempt, stage, secret, last, request>>

Next == Pass \/ Ask \/ Begin \/ Write \/ Serve \/ Record \/ End \/ Go

Spec == Init /\ [][Next]_vars
=============================================================================
