--------------------------- MODULE MCOrderManager ---------------------------
(* Instances of the order manager for TLC: the intents of the runs. *)
EXTENDS OrderManagerPromise

Base == [type |-> "taker", side |-> "open", tpsl |-> FALSE,
         closeTimeout |-> TRUE, cancelTimeout |-> FALSE, trail |-> FALSE]
MakerBase == [Base EXCEPT !.type = "maker", !.closeTimeout = FALSE, !.cancelTimeout = TRUE]

Taker == {Base}
Takers == {Base, [Base EXCEPT !.tpsl = TRUE, !.trail = TRUE], [Base EXCEPT !.closeTimeout = FALSE]}
\* Makers of which at most one timeout is configured, and closing orders.
Makers == {MakerBase, [MakerBase EXCEPT !.cancelTimeout = FALSE, !.closeTimeout = TRUE, !.tpsl = TRUE]}
Closers == {[MakerBase EXCEPT !.side = "close"], [Base EXCEPT !.side = "close"]}
AllOrders == Takers \cup Makers \cup Closers
Maker == {MakerBase}
TakerAndMaker == Taker \cup Maker
HoldMaker == {[MakerBase EXCEPT !.cancelTimeout = FALSE, !.closeTimeout = TRUE]}
MakerWithTPSL == {[MakerBase EXCEPT !.tpsl = TRUE]}
MakerWithBothTimeouts == {[MakerBase EXCEPT !.closeTimeout = TRUE]}
MixedIntents == {[Base EXCEPT !.tpsl = TRUE, !.trail = TRUE], [MakerBase EXCEPT !.closeTimeout = TRUE]}
=============================================================================
