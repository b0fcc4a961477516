----------------------------- MODULE Strategies -----------------------------
(***************************************************************************)
(* The strategies side by side: the funding reversion, the volume dilution *)
(* of one symbol, and the walls the penny jumper sees in a book.  The      *)
(* three share no state; a behaviour exercises one of them.                *)
(***************************************************************************)
EXTENDS Reversion

CONSTANTS
  QuoteTicks, MaxSlips,              \* of the dilution
  Sides, Prices, Shows, MinLifespan, Cooldown, Second,
  MaxTime, MaxRotations, MaxFaults   \* of the walls

VARIABLES
  focus,
  held, pending, resting, quoteTicks, stage, seen, slips,
  clock, watched, rotations, depths, scan, active, journal, stream, task, cool, rows,
  born, lost

Quoting == INSTANCE Dilution WITH ticks <- quoteTicks, MaxTicks <- QuoteTicks
Walls   == INSTANCE WallDetector WITH now <- clock

ASSUME StrategiesAssumption == Quoting!DilutionAssumption /\ Walls!WallAssumption

quoteVars == <<held, pending, resting, quoteTicks, stage, seen, slips>>
wallVars  == <<clock, watched, rotations, depths, scan, active, journal, stream, task, cool,
               rows, born, lost>>
allVars   == <<focus, vars, quoteVars, wallVars>>

FundingStep(A) == focus = "reversion" /\ A /\ UNCHANGED <<focus, quoteVars, wallVars>>
QuoteStep(A)   == focus = "dilution" /\ A /\ UNCHANGED <<focus, vars, wallVars>>
WallStep(A)    == focus = "walls" /\ A /\ UNCHANGED <<focus, vars, quoteVars>>

EachInit ==
  /\ focus \in {"reversion", "dilution", "walls"}
  /\ Init /\ Quoting!Init /\ Walls!Init
  /\ focus # "reversion" => \A m \in Streams : rate[m] = MinRate
EachNext == FundingStep(Next) \/ QuoteStep(Quoting!Next) \/ WallStep(Walls!Next)

\* FairSpec of the reversion and of the walls; the dilution promises nothing that
\* needs any.
EachSpec ==
  /\ EachInit /\ [][EachNext]_allVars
  /\ WF_allVars(FundingStep(Pass))
  /\ \A i \in Requests : WF_allVars(FundingStep(Handle(i)))
  /\ WF_allVars(WallStep(Walls!Handle))

-----------------------------------------------------------------------------
(* The properties of the instances, see there.                             *)

ExposureBounded == Quoting!ExposureBounded
EndsInItsRow    == Walls!EndsInItsRow
=============================================================================
