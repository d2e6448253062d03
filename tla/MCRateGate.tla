----------------------------- MODULE MCRateGate -----------------------------
(* Bounds for TLC: which container each request belongs to.                *)
EXTENDS RateGate, TLC

CONSTANTS c1, c2, r1, r2, r3

\* All requests in one container; and one in each of two.
Alone == (r1 :> c1) @@ (r2 :> c1) @@ (r3 :> c1)
Spread == (r1 :> c1) @@ (r2 :> c2)

\* The requests of one container are interchangeable.
Symmetric == Permutations(Request)
=============================================================================
