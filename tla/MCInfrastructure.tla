-------------------------- MODULE MCInfrastructure --------------------------
(* The instance for TLC: flow "a" follows two streams and shares the first *)
(* with "b", whose context may be canceled.                                *)
EXTENDS Infrastructure

MCFollows == [f \in Callers |-> IF f = "a" THEN {"s1", "s2"} ELSE {"s1", "s3"}]
MCSkews   == {-7, 0, 12}
MCTimes   == 3 .. 8
=============================================================================
