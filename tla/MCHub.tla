------------------------------- MODULE MCHub -------------------------------
(* Model checking of Hub: calls that all ask a query that kills the model   *)
(* call; two calls, or one call and a mishap.                               *)
EXTENDS Hub
CONSTANTS a, b, q
TwoCalls == {a, b}
OnlyA == {a}
OnlyQ == {q}
AskQ == [r \in Reqs |-> q]
MCInit == Init /\ ((\A r \in Reqs : pc[r] = "start") => mishaps = MaxMishap)
MCSpec == MCInit /\ [][Next]_vars
=============================================================================
