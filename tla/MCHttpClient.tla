---------------------------- MODULE MCHttpClient ----------------------------
(* Bounds for TLC: two overlapping calls of one client, a key that is      *)
(* cached and one that never is, three attempts, an error budget of two.   *)
(* The configuration gives every constant; calls are not declared          *)
(* symmetric, because the run checks liveness.                             *)
EXTENDS HttpClient
=============================================================================
