---------------------------- MODULE MCStrategies ----------------------------
(* The instance for TLC: two accounts that watch the same symbol, both in  *)
(* the scope of the configured scanner and one in that of its own schedule *)
(* scanner too, and a book of two prices on one side.                      *)
EXTENDS Strategies

MCStream == [t \in Targets |-> "ticker"]
MCScope  == [configured |-> Targets, schedule |-> {"main"}]
MCRates  == {1, 2}

\* What a book may show of a wall: nothing new, or a hit that also resizes it.
MCShows  == {<<>>, <<"touched", "changed">>}
=============================================================================
