--------------------------- MODULE Infrastructure ---------------------------
(***************************************************************************)
(* What the strategies and the order manager stand on, side by side: the   *)
(* pool of public WebSocket clients, the clock of an exchange, and the     *)
(* combat mode of the order manager.  The three share no state; a          *)
(* behaviour exercises one of them.                                        *)
(***************************************************************************)
EXTENDS WsPool

CONSTANTS
  Skews, Error, Target, SpinLead, MaxClock,               \* of the clock
  Times, WindowLead, Trailing, MaxNow, MaxTargets, Percent \* of the combat mode

VARIABLES
  focus,
  clock, skew, offset, synced, order, until,
  now, registered, isActive, activeUntil, original, percent, starts, exits, closed

Clock  == INSTANCE TimeSync WITH Lead <- SpinLead
Combat == INSTANCE CombatMode WITH Lead <- WindowLead

ASSUME InfrastructureAssumption ==
  PoolAssumption /\ Clock!TimeSyncAssumption /\ Combat!CombatModeAssumption

clockVars  == <<clock, skew, offset, synced, order, until>>
combatVars == <<now, registered, isActive, activeUntil, original, percent, starts, exits, closed>>
allVars    == <<focus, vars, clockVars, combatVars>>

PoolStep(A)   == focus = "pool" /\ A /\ UNCHANGED <<focus, clockVars, combatVars>>
ClockStep(A)  == focus = "clock" /\ A /\ UNCHANGED <<focus, vars, combatVars>>
CombatStep(A) == focus = "combat" /\ A /\ UNCHANGED <<focus, vars, clockVars>>

EachInit ==
  /\ focus \in {"pool", "clock", "combat"}
  /\ Init /\ Clock!Init /\ Combat!Init
  /\ focus # "clock" => skew = 0
EachNext == PoolStep(Next) \/ ClockStep(Clock!Next) \/ CombatStep(Combat!Next)

\* The fairness of the three modules, for the one that runs.
EachSpec ==
  /\ EachInit /\ [][EachNext]_allVars
  /\ \A f \in Callers : WF_allVars(PoolStep(Caller(f)))
  /\ \A c \in Slots : WF_allVars(PoolStep(Client(c)))
  /\ WF_allVars(ClockStep(Clock!Tick)) /\ WF_allVars(ClockStep(Clock!Wake))
  /\ WF_allVars(ClockStep(Clock!SpinEnds))
  /\ WF_allVars(CombatStep(Combat!Tick))
  /\ WF_allVars(CombatStep(\E t \in Times : Combat!StartTimer(t)))
  /\ WF_allVars(CombatStep(\E x \in exits : Combat!ExitTimer(x)))

-----------------------------------------------------------------------------
(* The properties of the instances, see there.                             *)

OffsetIsClose    == Clock!OffsetIsClose
NotEarly         == Clock!NotEarly
Fires            == Clock!Fires
CollectorOff     == Combat!CollectorOff
CollectorReturns == Combat!CollectorReturns
=============================================================================
