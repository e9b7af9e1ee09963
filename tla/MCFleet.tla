------------------------------ MODULE MCFleet ------------------------------
EXTENDS Fleet, TLC

CONSTANTS r1, r2, p1, p2, t1

\* Two policies that name the same Secret and map keys of which one is common.
OneRef == [p \in {p1, p2} |-> t1]
TwoKeys == (p1 :> {"user", "password"}) @@ (p2 :> {"password"})

OnAndOff == {TRUE, FALSE}
=============================================================================
