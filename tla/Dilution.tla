------------------------------ MODULE Dilution ------------------------------
(***************************************************************************)
(* The volume dilution job: every tick it reads the position of its        *)
(* symbol, cancels what is left of the last quotes and hands new quotes to *)
(* the order manager, which submits them some time later.  Meanwhile the   *)
(* market fills what rests.  The volume of an opening quote is 1.          *)
(***************************************************************************)
EXTENDS Integers, FiniteSets

CONSTANTS
  MaxTicks,  \* bound: ticks of the job
  MaxSlips   \* bound: slips, see below

\* What the constants have to be.
DilutionAssumption == MaxTicks \in Nat /\ MaxSlips \in Nat

VARIABLES
  held,     \* held[d]: volume of the position in direction d
  pending,  \* quotes the order manager has not submitted yet
  resting,  \* quotes in the book of the exchange
  ticks,    \* ticks begun
  stage,    \* "idle", "read": the position was read, "clear": the cancel is over
  seen,     \* the position this tick has read
  slips     \* reads and cancels that failed, quotes submitted after the next cancel

vars == <<held, pending, resting, ticks, stage, seen, slips>>

Directions == {"long", "short"}
Nothing    == [d \in Directions |-> 0]

\* A quote opens or closes a direction; one of a kind per tick.
Quote == [tick : 1 .. MaxTicks, dir : Directions, closes : BOOLEAN, vol : Nat \ {0}]

TypeOK ==
  /\ held \in [Directions -> Nat] /\ seen \in [Directions -> Nat]
  /\ pending \subseteq Quote /\ resting \subseteq Quote
  /\ ticks \in 0 .. MaxTicks
  /\ stage \in {"idle", "read", "clear"}
  /\ slips \in 0 .. MaxSlips

Init ==
  /\ held = Nothing /\ seen = Nothing
  /\ pending = {} /\ resting = {}
  /\ ticks = 0 /\ stage = "idle" /\ slips = 0

Slip == slips < MaxSlips /\ slips' = slips + 1

-----------------------------------------------------------------------------
(* The job                                                                 *)

\* A request that fails reads as no position.
ResolvePositionSummary ==
  /\ stage = "idle" /\ ticks < MaxTicks
  /\ ticks' = ticks + 1
  /\ stage' = "read"
  /\ \/ seen' = held /\ UNCHANGED slips
     \/ seen' = Nothing /\ Slip
  /\ UNCHANGED <<held, pending, resting>>

\* (fault) the quotes of the last tick stay
CancelNothing ==
  /\ stage = "read"
  /\ stage' = "clear"
  /\ UNCHANGED <<held, pending, resting, ticks, seen, slips>>

CancelStaleOrders ==
  /\ stage = "read"
  /\ stage' = "clear"
  /\ \/ resting' = {} /\ UNCHANGED slips
     \/ UNCHANGED resting /\ Slip
  /\ UNCHANGED <<held, pending, ticks, seen>>

Opening(d) == [tick |-> ticks, dir |-> d, closes |-> FALSE, vol |-> 1]
Closing(d) == [tick |-> ticks, dir |-> d, closes |-> TRUE, vol |-> seen[d]]

\* buildQuoteSpecs: what is held is offered, nothing is opened beside it.  The
\* ceiling on the position is looked at only where nothing is held.
Quotes ==
  IF seen # Nothing
  THEN {Closing(d) : d \in {e \in Directions : seen[e] > 0}}
  ELSE {Opening(d) : d \in Directions}

\* A price or a volume that cannot be computed leaves quotes out.
GenerateQuotes ==
  /\ stage = "clear"
  /\ stage' = "idle"
  /\ \E Q \in SUBSET Quotes : pending' = pending \cup Q
  /\ UNCHANGED <<held, resting, ticks, seen, slips>>

-----------------------------------------------------------------------------
(* The order manager and the exchange, as the job meets them               *)

\* The ticks whose cancel is over.
Cleared == IF stage = "read" THEN ticks - 1 ELSE ticks

Submit(q) ==
  /\ q \in pending
  /\ pending' = pending \ {q}
  /\ resting' = resting \cup {q}
  /\ IF q.tick < Cleared THEN Slip ELSE UNCHANGED slips
  /\ UNCHANGED <<held, ticks, stage, seen>>

\* A close takes no more than what is held.
Fill(q) == \E v \in 1 .. q.vol :
  /\ q \in resting
  /\ q.closes => v <= held[q.dir]
  /\ held' = [held EXCEPT ![q.dir] = IF q.closes THEN @ - v ELSE @ + v]
  /\ resting' = (resting \ {q}) \cup (IF v < q.vol THEN {[q EXCEPT !.vol = @ - v]} ELSE {})
  /\ UNCHANGED <<pending, ticks, stage, seen, slips>>

\* The unfilled-cancel timeout of the order manager, or a rejection.
Withdraw(q) ==
  /\ q \in pending \cup resting
  /\ pending' = pending \ {q} /\ resting' = resting \ {q}
  /\ UNCHANGED <<held, ticks, stage, seen, slips>>

\* The take profit, the stop loss or the close timeout.
CloseOut(d) ==
  /\ held[d] > 0
  /\ held' = [held EXCEPT ![d] = 0]
  /\ UNCHANGED <<pending, resting, ticks, stage, seen, slips>>

Next ==
  \/ ResolvePositionSummary \/ CancelStaleOrders \/ GenerateQuotes
  \/ \E q \in pending : Submit(q)
  \/ \E q \in resting : Fill(q)
  \/ \E q \in pending \cup resting : Withdraw(q)
  \/ \E d \in Directions : CloseOut(d)

Spec == Init /\ [][Next]_vars

-----------------------------------------------------------------------------

\* The job never holds more than the volume of two quotes in a direction, and
\* of one more for every read or cancel that failed and every quote that was
\* submitted late: one quote may fill between the read and the cancel, and
\* its successor after it (processExchange, buildQuoteSpecs).
ExposureBounded == \A d \in Directions : held[d] <= 2 + slips
=============================================================================
