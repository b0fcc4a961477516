--------------------------- MODULE MCOrderBookSync ---------------------------
(* Instances of the order book synchronizer for TLC. *)
EXTENDS OrderBookSync

Incremental == [mode |-> "INCREMENTAL", strict |-> TRUE, commits |-> "none"]
WithCommits == [Incremental EXCEPT !.commits = "each"]
Mexc == [Incremental EXCEPT !.commits = "merged"]
Loose == [Incremental EXCEPT !.strict = FALSE]
Snapshots == [Incremental EXCEPT !.mode = "SNAPSHOT", !.strict = FALSE]

StrictConfigs == {Incremental, WithCommits, Mexc}
AllConfigs == StrictConfigs \cup {Loose, Snapshots}
NoCommits == {Incremental}
OnlyCommits == {WithCommits}
=============================================================================
