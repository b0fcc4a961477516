------------------------------ MODULE TimeSync ------------------------------
(***************************************************************************)
(* The clock of an exchange: the offset kept by repeated, smoothed         *)
(* measurements, and the precision sleep of an order until its fire time   *)
(* by that clock, with measurements going on meanwhile.  Times are         *)
(* milliseconds.                                                           *)
(***************************************************************************)
EXTENDS Integers

CONSTANTS
  Skews,     \* differences between the exchange's clock and the local one
  Error,     \* half of the longest round trip
  Target,    \* the fire time, by the exchange's clock
  Lead,      \* leadTime: the part of the wait that is spun
  MaxClock   \* bound: local time

\* What the constants have to be.
TimeSyncAssumption ==
  /\ Skews \subseteq Int
  /\ Error \in Nat /\ Lead \in Nat /\ MaxClock \in Nat
  /\ Target \in Int

VARIABLES
  clock,    \* local time
  skew,     \* server - local
  offset,   \* the estimate of it
  synced,   \* a measurement was made
  order,    \* the order that sleeps: "new", "asleep", "spinning" or "fired"
  until     \* the local time it sleeps or spins until

vars == <<clock, skew, offset, synced, order, until>>

TypeOK ==
  /\ clock \in 0 .. MaxClock
  /\ skew \in Skews
  /\ offset \in Int
  /\ synced \in BOOLEAN
  /\ order \in {"new", "asleep", "spinning", "fired"}
  /\ until \in Int

Init ==
  /\ clock = 0
  /\ skew \in Skews
  /\ offset = 0 /\ synced = FALSE
  /\ order = "new" /\ until = 0

\* (fault) the measured offset is added to the old one
Summed(old, measured) == {old + (3 * (measured \div 10))}

(***************************************************************************)
(* The new estimate, int64(0.7 * old + 0.3 * measured).  The conversion    *)
(* cuts towards zero; where the sum is a whole number the floating point   *)
(* result may lie just below it, and the conversion loses one more.        *)
(***************************************************************************)
Smoothed(old, measured) ==
  LET tenfold == 7 * old + 3 * measured
      cut     == IF tenfold >= 0 THEN tenfold \div 10 ELSE -((-tenfold) \div 10)
  IN  IF tenfold % 10 # 0 \/ tenfold = 0 THEN {cut}
      ELSE IF tenfold > 0 THEN {cut, cut - 1} ELSE {cut, cut + 1}

\* The stamp of the server is taken anywhere within the round trip.
Measurements == (skew - Error) .. (skew + Error)

SyncOnce ==
  /\ \E measured \in Measurements :
       offset' \in IF synced THEN Smoothed(offset, measured) ELSE {measured}
  /\ synced' = TRUE
  /\ UNCHANGED <<clock, skew, order, until>>

Now == clock + offset

\* (fault) the end of the wait is taken as the fire time of the local clock
WaitByLocalClock ==
  LET remaining == Target - Now IN
  /\ order' = IF remaining <= 0 THEN "fired"
              ELSE IF remaining <= Lead THEN "spinning" ELSE "asleep"
  /\ until' = IF remaining <= 0 THEN until
              ELSE IF remaining <= Lead THEN Target ELSE clock + (remaining - Lead)
  /\ UNCHANGED <<clock, skew, offset, synced>>

\* One round of the loop: done, spin with the offset of this moment, or sleep.
WaitRound ==
  LET remaining == Target - Now IN
  /\ order' = IF remaining <= 0 THEN "fired"
              ELSE IF remaining <= Lead THEN "spinning" ELSE "asleep"
  /\ until' = IF remaining <= 0 THEN until
              ELSE IF remaining <= Lead THEN Target - offset ELSE clock + (remaining - Lead)
  /\ UNCHANGED <<clock, skew, offset, synced>>

\* The first measurement is waited for before an order may be made.
PrecisionSleepUntil == order = "new" /\ synced /\ WaitRound

Wake == order = "asleep" /\ clock >= until /\ WaitRound

\* (fault) only the very millisecond ends the spin
SpinEndsExactly ==
  /\ order = "spinning" /\ clock = until
  /\ order' = "fired"
  /\ UNCHANGED <<clock, skew, offset, synced, until>>

SpinEnds ==
  /\ order = "spinning" /\ clock >= until
  /\ order' = "fired"
  /\ UNCHANGED <<clock, skew, offset, synced, until>>

Tick ==
  /\ clock < MaxClock
  /\ clock' = clock + 1
  /\ UNCHANGED <<skew, offset, synced, order, until>>

Next == SyncOnce \/ PrecisionSleepUntil \/ Wake \/ SpinEnds \/ Tick

Spec == Init /\ [][Next]_vars

\* Local time passes, and the goroutine of the order runs when its timer is due.
FairSpec == Spec /\ WF_vars(Tick) /\ WF_vars(Wake) /\ WF_vars(SpinEnds)

-----------------------------------------------------------------------------

Within(x, bound) == -bound <= x /\ x <= bound

\* However many rounds are smoothed, and though each may cut a millisecond off,
\* the estimate stays within the error of one measurement and one millisecond
\* of the exchange's clock (syncOnce).
OffsetIsClose == synced => Within(offset - skew, Error + 1)

\* No order is sent before its fire time on the exchange's clock by more than
\* the error of the estimate, also when a measurement moves the offset while
\* the order sleeps or spins (PrecisionSleepUntil, spinWaitUntil).
NotEarly == [][order' = "fired" /\ order # "fired"
                 => clock + skew >= Target - (Error + 1)]_vars

\* An order that starts to wait is sent, whatever the offset does meanwhile.
Fires == order \in {"asleep", "spinning"} ~> order = "fired"
=============================================================================
