-------------------------- MODULE MCNotifications --------------------------
EXTENDS Notifications

Sub(url, fromSecret, events) == [url |-> url, fromSecret |-> fromSecret, events |-> events]

\* One that reads the Secret, one with an address of its own for both events,
\* one that names both and listens to failures only.
Mixed ==
  <<Sub("", TRUE, {"RotationSucceeded", "RotationFailed"}),
    Sub("a", FALSE, {"RotationSucceeded", "RotationFailed"}),
    Sub("b", TRUE, {"RotationFailed", "RotationSkipped"})>>
=============================================================================
