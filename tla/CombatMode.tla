----------------------------- MODULE CombatMode -----------------------------
(***************************************************************************)
(* The combat mode of the order manager: around the fire time of every     *)
(* order the garbage collector is switched off; windows that overlap are   *)
(* one window.  The coordinator acts under its lock: on registration, when *)
(* a timer fires, and when it is closed.                                   *)
(***************************************************************************)
EXTENDS Integers, FiniteSets

CONSTANTS
  Times,      \* fire times orders may register
  Lead,       \* leadDuration
  Trailing,   \* trailingDuration
  MaxNow,     \* bound: time
  MaxTargets, \* bound: registrations
  Percent     \* the collector's percentage outside of a window

\* What the constants have to be.
CombatModeAssumption ==
  /\ Times \subseteq Nat
  /\ Lead \in Nat /\ Trailing \in Nat \ {0}
  /\ MaxNow \in Nat /\ MaxTargets \in Nat
  /\ Percent \in Nat \ {0}

VARIABLES
  now,
  registered,   \* targets whose window had not ended when they were registered
  isActive,
  activeUntil,
  original,     \* originalGCPercent
  percent,      \* the collector's percentage, -1: off
  starts,       \* targets with an armed start timer
  exits,        \* instants of the armed exit timers
  closed

vars == <<now, registered, isActive, activeUntil, original, percent, starts, exits, closed>>

TypeOK ==
  /\ now \in 0 .. MaxNow
  /\ registered \subseteq Times /\ starts \subseteq registered
  /\ isActive \in BOOLEAN /\ closed \in BOOLEAN
  /\ activeUntil \in Nat
  /\ original = Percent
  /\ percent \in {-1, Percent}
  /\ exits \subseteq Nat

Init ==
  /\ now = 0 /\ registered = {}
  /\ isActive = FALSE /\ activeUntil = 0
  /\ original = Percent /\ percent = Percent
  /\ starts = {} /\ exits = {}
  /\ closed = FALSE

Start(t) == t - Lead
End(t)   == t + Trailing

Larger(x, y) == IF x > y THEN x ELSE y

\* (fault) a second window does not move the end of the first
EnterOverlapping(t) ==
  /\ IF isActive THEN UNCHANGED <<isActive, activeUntil, original, percent, exits>>
     ELSE /\ activeUntil' = End(t)
          /\ isActive' = TRUE /\ percent' = -1 /\ UNCHANGED original
          /\ exits' = exits \cup {activeUntil'}

\* enterLocked.  A window that ended before its timer fired is left at once.
Enter(t) ==
  LET extended == Larger(activeUntil, End(t)) IN
  /\ activeUntil' = extended
  /\ IF isActive THEN UNCHANGED <<isActive, original, percent, exits>>
     ELSE /\ original' = IF percent # -1 THEN percent ELSE original
          /\ IF now < extended
             THEN /\ isActive' = TRUE /\ percent' = -1
                  /\ exits' = exits \cup {extended}
             ELSE /\ isActive' = FALSE /\ percent' = original'
                  /\ UNCHANGED exits

RegisterTargetTime(t) ==
  /\ ~ closed
  /\ Cardinality(registered) < MaxTargets /\ t \notin registered
  /\ now < End(t)
  /\ registered' = registered \cup {t}
  /\ IF Start(t) <= now
     THEN Enter(t) /\ UNCHANGED starts
     ELSE /\ starts' = starts \cup {t}
          /\ UNCHANGED <<isActive, activeUntil, original, percent, exits>>
  /\ UNCHANGED <<now, closed>>

StartTimer(t) ==
  /\ t \in starts /\ Start(t) <= now /\ ~ closed
  /\ starts' = starts \ {t}
  /\ Enter(t)
  /\ UNCHANGED <<now, registered, closed>>

\* (fault) a timer that finds the window extended is not armed again
ExitTimerUnarmed(x) ==
  /\ x \in exits /\ x <= now /\ ~ closed
  /\ exits' = exits \ {x}
  /\ IF isActive /\ now < activeUntil
     THEN UNCHANGED <<isActive, percent>>
     ELSE /\ isActive' = FALSE
          /\ percent' = IF isActive THEN original ELSE percent
  /\ UNCHANGED <<now, registered, activeUntil, original, starts, closed>>

\* The end may have moved since the timer was armed.
ExitTimer(x) ==
  /\ x \in exits /\ x <= now /\ ~ closed
  /\ IF isActive /\ now < activeUntil
     THEN exits' = (exits \ {x}) \cup {activeUntil} /\ UNCHANGED <<isActive, percent>>
     ELSE /\ exits' = exits \ {x}
          /\ isActive' = FALSE
          /\ percent' = IF isActive THEN original ELSE percent
  /\ UNCHANGED <<now, registered, activeUntil, original, starts, closed>>

Close ==
  /\ ~ closed /\ closed' = TRUE
  /\ starts' = {} /\ exits' = {}
  /\ isActive' = FALSE
  /\ percent' = IF isActive THEN original ELSE percent
  /\ UNCHANGED <<now, registered, activeUntil, original>>

\* A timer that is due may fire late.
Tick ==
  /\ now < MaxNow
  /\ now' = now + 1
  /\ UNCHANGED <<registered, isActive, activeUntil, original, percent, starts, exits, closed>>

Next ==
  \/ Tick \/ Close
  \/ \E t \in Times : RegisterTargetTime(t) \/ StartTimer(t)
  \/ \E x \in exits : ExitTimer(x)

Spec == Init /\ [][Next]_vars

\* The runtime fires due timers, time passes.
FairSpec == Spec /\ WF_vars(Tick)
                 /\ WF_vars(\E t \in Times : StartTimer(t))
                 /\ WF_vars(\E x \in exits : ExitTimer(x))

-----------------------------------------------------------------------------

\* As long as the coordinator is open, the collector is off to the end of the
\* window of every order from the moment its timer fired, whichever windows
\* overlap (RegisterTargetTime, enterLocked, scheduleExitCheckLocked).
CollectorOff == \A t \in registered \ starts :
  Start(t) <= now /\ now < End(t) /\ ~ closed => percent = -1

\* The collector comes back: after the last window, or with Close, whatever
\* windows overlapped (exitLocked, Close).
CollectorReturns == percent = -1 ~> percent = Percent
=============================================================================
