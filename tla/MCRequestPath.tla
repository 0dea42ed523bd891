---------------------------- MODULE MCRequestPath ----------------------------
(* A small instance of RequestPath for TLC: two requests compete             *)
(* for one permit.                                                           *)
EXTENDS RequestPath

CONSTANTS r1, r2, w1

TwoRequests == {r1, r2}
OneWorker   == {w1}

\* The first may ask for any kind of answer, the second competes with it.
AnyAndWhole == (r1 :> AllStyles) @@ (r2 :> {"whole"})
TwoAndNone  == (r1 :> 2) @@ (r2 :> 0)
==============================================================================
