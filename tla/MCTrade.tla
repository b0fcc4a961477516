------------------------------ MODULE MCTrade ------------------------------
(* The instance for TLC: a taker whose position is to be closed in time,   *)
(* with pushes that get lost.                                              *)
EXTENDS Trade

TimedTaker == {[type |-> "taker", side |-> "open", tpsl |-> FALSE,
                closeTimeout |-> TRUE, cancelTimeout |-> FALSE, trail |-> FALSE]}
=============================================================================
