------------------------- MODULE OrderManagerPromise -------------------------
(***************************************************************************)
(* The order manager seen through OrderPromise: the phase of a request is  *)
(* read off its aggregate, the counters are those of the program.          *)
(***************************************************************************)
EXTENDS OrderManager

PhaseOf(r) == IF state[r] \in Terminal THEN "over"
              ELSE IF Has(r, "Intent") THEN "working" ELSE "idle"

Promise == INSTANCE OrderPromise WITH
               phase <- [r \in Reqs |-> PhaseOf(r)],
               sent <- submits, told <- done, rows <- saves

\* Every run of the pipeline, with all its races, is one that OrderPromise allows.
KeepsPromise == Promise!Spec
=============================================================================
