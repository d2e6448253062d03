--------------------------- MODULE MCQcewHistory ---------------------------
(* Bounds for TLC: what the agency may hold.                               *)
EXTENDS QcewHistory, TLC

CONSTANTS county, metro

\* The county is asked for twice; or together with the metro, once.
Asking == { <<{county}, {county}>>, <<{county, metro}, {}>> }
Once == { <<{county}>> }

\* The county's newest file has no rows yet; the metro's newest (annual) file
\* is not there, and its next one lacks the industry.
Lagging ==
  { [s \in Series |-> [i \in Period |->
       IF s = county THEN (IF i = 1 THEN "empty" ELSE "row")
       ELSE (IF i = 1 THEN "absent" ELSE IF i = 2 THEN "norow" ELSE "row")]] }

\* One period too many lacks the industry.
Sparse == { [s \in Series |-> [i \in Period |-> IF i \in 2 .. 3 THEN "norow" ELSE "row"]] }
=============================================================================
