------------------------------- MODULE Bailout -------------------------------
(***************************************************************************)
(* One taker order from its submission through the outcome watcher and the *)
(* close timeout to the bailout, over any exchange adapter.  The exchange  *)
(* accepts a market close at once and executes it later, so the order      *)
(* manager reads positions that its own closes are about to change.        *)
(* Another request may hold the opposite leg of a hedge account.           *)
(***************************************************************************)
EXTENDS ExchangeAdapters

CONSTANTS
  Subjects,   \* the accounts: pairs of an exchange and a position mode
  Vol,        \* lots of the entry order
  PollTries,  \* bound: attempts of the outcome watcher (6 in the code)
  BailTries,  \* bound: attempts of the bailout (11 in the code)
  MaxFaults   \* bound: REST calls that fail

ASSUME BailoutAssumption ==
  /\ Subjects \subseteq Accounts(AllExchanges)
  /\ {Vol, PollTries, BailTries} \subseteq Nat \ {0} /\ MaxFaults \in Nat

VARIABLES
  account,  \* <<exchange, mode>>
  side,     \* side of the entry order
  legs,     \* exchange: lots held
  phase,    \* exchange: the entry order
  deal,     \* exchange: lots of it dealt
  flight,   \* exchange: closes accepted and not executed
  issued,   \* closes accepted so far
  exit,     \* take profit and stop loss: "none", "asked", "placed", "gone"
  stage,    \* where the order manager is with the request
  view,     \* state of the order last read
  outcome,  \* what the outcome watcher published
  todo,     \* positions CloseAllPositions still has to close
  seen,     \* remaining volume last read by the bailout
  tries,    \* attempts of the poll or of the bailout
  faults    \* REST calls that failed

exchange == <<legs, phase, deal, flight, issued, exit>>
watcher  == <<view, outcome>>
closing  == <<todo, seen>>
vars == <<account, side, exchange, stage, watcher, closing, tries, faults>>

ex   == account[1]
mode == account[2]
Own  == Leg(side)
Held == {d \in Legs : legs[d] > 0}

Stages == {"submit", "poll", "hold", "unread", "closing", "legs", "retry", "close",
           "done", "failed", "ended"}
Outcomes == {"none", "unknown", "resting", "partial_filled", "filled", "canceled_no_fill"}

TypeOK ==
  /\ account \in Subjects /\ side \in {"openLong", "openShort"}
  /\ legs \in [Legs -> Nat]
  /\ mode = "oneway" => \E d \in Legs : legs[d] = 0
  /\ phase \in Phases \cup {"none"} /\ deal \in 0 .. Vol
  /\ exit \in {"none", "asked", "placed", "gone"}
  /\ stage \in Stages /\ outcome \in Outcomes
  /\ view \in Views \cup {"nil"}
  /\ faults \in 0 .. MaxFaults

Init ==
  /\ account \in Subjects /\ side \in {"openLong", "openShort"}
  /\ legs \in [Legs -> 0 .. 1] /\ legs[Own] = 0
  /\ mode = "oneway" => Held = {}
  /\ phase = "none" /\ deal = 0 /\ flight = {} /\ issued = 0 /\ exit = "none"
  /\ stage = "submit" /\ view = "nil" /\ outcome = "none"
  /\ todo = {} /\ seen = 0 /\ tries = 0 /\ faults = 0

Fail == faults < MaxFaults /\ faults' = faults + 1
Work == UNCHANGED faults

-----------------------------------------------------------------------------
(* The exchange.                                                           *)

Least(a, b)  == IF a < b THEN a ELSE b
Accepts(raw) == raw.leg = "both" <=> mode = "oneway"
Reduced(d, v) == [legs EXCEPT ![d] = @ - Least(v, @)]

\* What the legs can be once v lots of an order are executed.
AfterOn(raw, v) ==
  IF raw.dir = (IF raw.leg = "long" THEN "buy" ELSE "sell")
  THEN [legs EXCEPT ![raw.leg] = IF raw.reduce THEN @ ELSE @ + v]
  ELSE Reduced(raw.leg, IF raw.whole THEN legs[raw.leg] ELSE v)
AfterNet(raw, v) ==
  LET to   == IF raw.dir = "buy" THEN "long" ELSE "short"
      from == IF raw.dir = "buy" THEN "short" ELSE "long"
      rest == v - Least(v, legs[from])
  IN  [Reduced(from, v) EXCEPT ![to] = IF raw.reduce THEN @ ELSE @ + rest]
After(raw, v) ==
  CASE raw.leg = "any"  -> IF Held = {} THEN {legs} ELSE {Reduced(d, v) : d \in Held}
    [] raw.leg = "both" -> {AfterNet(raw, v)}
    [] OTHER            -> {AfterOn(raw, v)}

Deal ==
  /\ phase \in {"live", "dealing"}
  /\ deal' = deal + 1
  /\ phase' = IF deal' = Vol THEN "filled" ELSE "dealing"
  /\ legs' \in After(CreateOrder(ex, side, mode, FALSE), 1)
  /\ UNCHANGED <<account, side, flight, issued, exit, stage, watcher, closing, tries, faults>>

\* The rest of an IOC order is canceled.
Cut ==
  /\ phase \in {"live", "dealing"}
  /\ phase' = IF deal = 0 THEN "canceled" ELSE "cut"
  /\ UNCHANGED <<account, side, legs, deal, flight, issued, exit, stage, watcher, closing, tries, faults>>

ExecuteClose(f) ==
  /\ f \in flight
  /\ flight' = flight \ {f}
  /\ legs' \in After(f.raw, f.vol)
  /\ UNCHANGED <<account, side, phase, deal, issued, exit, stage, watcher, closing, tries, faults>>

\* The price reaches the take profit or the stop loss; there is no position
\* after it, or the order is refused for want of one.
Triggered ==
  /\ phase \in {"filled", "cut"} /\ exit = "placed"
  /\ exit' = "gone"
  /\ legs' \in After(PlaceTPSL(ex, side, mode), Vol)
  /\ UNCHANGED <<account, side, phase, deal, flight, issued, stage, watcher, closing, tries, faults>>

-----------------------------------------------------------------------------
(* The order manager.                                                      *)

\* The closes in raws, a set of orders with volumes, are accepted.
Accept(raws) ==
  /\ flight' = flight \cup {[n |-> issued + 1, raw |-> r[1], vol |-> r[2]] : r \in raws}
  /\ issued' = issued + 1
  /\ UNCHANGED <<legs, phase, deal, exit>>

SubmitOrder ==
  /\ stage = "submit" /\ Accepts(CreateOrder(ex, side, mode, FALSE))
  /\ phase' = "live" /\ stage' = "poll"
  /\ exit' = CASE ex \in Attached -> "placed"
               [] ex \in Separate -> "asked"
               [] OTHER -> "none"
  /\ UNCHANGED <<account, side, legs, deal, flight, issued, watcher, closing, tries, faults>>

\* HandleTPSLContingency, beside the outcome watcher: one attempt.
TPSLContingency ==
  /\ exit = "asked"
  /\ \/ exit' = "placed" /\ Work
     \/ exit' = "none" /\ Fail
  /\ UNCHANGED <<account, side, legs, phase, deal, flight, issued, stage, watcher, closing, tries>>

IsTerminalOrderState(v) == v \in {"filled", "canceled", "partial"}
ClassifyOrderOutcome ==
  [nil |-> "unknown", new |-> "resting", part |-> "partial_filled",
   partial |-> "partial_filled", filled |-> "filled", canceled |-> "canceled_no_fill"]

\* The outcomes with which an opening order completes without a look at its
\* position; its timer and its position watch end there.
Completes(o) == o \in {"canceled_no_fill", "unknown"}

\* HandleOutcomeWatcher: an attempt reads the order or keeps the last answer.
\* A completed order still gets a deadline when its timer is stored only after
\* CancelTimeoutGuard looked for one.
PollOrder ==
  /\ stage = "poll"
  /\ \/ view' = OrderState(ex, Dir(side))[phase] /\ Work
     \/ UNCHANGED view /\ Fail
  /\ tries' = tries + 1
  /\ IF IsTerminalOrderState(view') \/ tries' = PollTries
     THEN /\ outcome' = ClassifyOrderOutcome[view']
          /\ stage' \in {"hold"} \cup (IF Completes(outcome') THEN {"ended"} ELSE {})
     ELSE UNCHANGED <<outcome, stage>>
  /\ UNCHANGED <<account, side, exchange, closing>>

\* sumRemainingHoldVolume, over both legs: what is not positive does not count.
Hold(d) == LET p == GetOpenPosition(ex, mode, legs, d)
           IN  IF d \in Held /\ p.hold > 0 THEN p.hold ELSE 0
Remaining == Hold("long") + Hold("short")

\* HandleWaitTimeoutDeadline, long after an IOC order has ended.  A query that
\* fails counts as no position.
WaitTimeoutDeadline ==
  /\ stage = "hold" /\ phase \notin {"live", "dealing"}
  /\ \/ stage' = (IF Remaining <= 0 THEN "done" ELSE "closing") /\ Work
     \/ stage' = "unread" /\ Fail
  /\ tries' = 0
  /\ UNCHANGED <<account, side, exchange, watcher, closing>>

\* HandleExecuteBailout begins with CloseAllPositions, whose error is logged.
CloseAllFails ==
  /\ stage = "closing" /\ Fail
  /\ stage' = "retry"
  /\ UNCHANGED <<account, side, exchange, watcher, closing, tries>>

CloseAllByEndpoint ==
  /\ stage = "closing" /\ ~CloseAllPositions(ex).legs /\ Work
  /\ Accept({<<Whole(Ends[Opens[d]]), legs[d]>> : d \in Held})
  /\ stage' = "retry"
  /\ UNCHANGED <<account, side, watcher, closing, tries>>

CloseAllReads ==
  /\ stage = "closing" /\ CloseAllPositions(ex).legs /\ Work
  /\ todo' = GetOpenPositions(ex, mode, legs)
  /\ stage' = "legs"
  /\ UNCHANGED <<account, side, exchange, watcher, seen, tries>>

\* The closing order of a leg is for hedge mode, which a one-way account
\* refuses.
CloseLeg(p) ==
  LET raw == ClosePosition(ex, Ends[Opens[p.type]], "hedge")
  IN  /\ stage = "legs" /\ p \in todo
      /\ \/ /\ Accepts(raw) /\ Work
            /\ Accept({<<raw, p.hold>>})
            /\ todo' = todo \ {p}
         \/ /\ IF Accepts(raw) THEN Fail ELSE Work
            /\ todo' = IF CloseAllPositions(ex).stops THEN {} ELSE todo \ {p}
            /\ UNCHANGED exchange
      /\ stage' = IF todo' = {} THEN "retry" ELSE "legs"
      /\ UNCHANGED <<account, side, watcher, seen, tries>>
CloseNoLeg ==
  /\ stage = "legs" /\ todo = {}
  /\ stage' = "retry"
  /\ UNCHANGED <<account, side, exchange, watcher, closing, tries, faults>>

Again == tries' = tries + 1 /\ stage' = IF tries' = BailTries THEN "failed" ELSE "retry"

\* An attempt of the bailout: the positions are read ...
ReadRemaining ==
  /\ stage = "retry"
  /\ \/ /\ Work /\ seen' = Remaining /\ UNCHANGED tries
        /\ stage' = IF seen' <= 0 THEN "done" ELSE "close"
     \/ Fail /\ Again /\ UNCHANGED seen
  /\ UNCHANGED <<account, side, exchange, watcher, todo>>

\* (fault) the bailout ends with the close it has issued.
CloseRemainingOnce ==
  /\ stage = "close" /\ stage' = "done"
  /\ \/ Work /\ Accept({<<ClosePosition(ex, Ends[side], mode), seen>>})
     \/ Fail /\ UNCHANGED exchange
  /\ UNCHANGED <<account, side, watcher, closing, tries>>

\* (fault) the closes of the bailout are for hedge mode too.
CloseRemainingHedged ==
  /\ stage = "close" /\ Again
  /\ LET raw == ClosePosition(ex, Ends[side], "hedge")
     IN  \/ Accepts(raw) /\ Work /\ Accept({<<raw, seen>>})
         \/ (IF Accepts(raw) THEN Fail ELSE Work) /\ UNCHANGED exchange
  /\ UNCHANGED <<account, side, watcher, closing>>

\* ... and what remains is closed; open or not afterwards, it looks again.
CloseRemaining ==
  /\ stage = "close" /\ Again
  /\ \/ Work /\ Accept({<<ClosePosition(ex, Ends[side], mode), seen>>})
     \/ Fail /\ UNCHANGED exchange
  /\ UNCHANGED <<account, side, watcher, closing>>

OrderManager ==
  \/ SubmitOrder \/ TPSLContingency \/ PollOrder \/ WaitTimeoutDeadline
  \/ CloseAllFails \/ CloseAllByEndpoint \/ CloseAllReads
  \/ \E p \in todo : CloseLeg(p)
  \/ CloseNoLeg \/ ReadRemaining \/ CloseRemaining
Exchange == Deal \/ Cut \/ (\E f \in flight : ExecuteClose(f)) \/ Triggered

Next == OrderManager \/ Exchange

Spec == Init /\ [][Next]_vars

\* Handlers return, an IOC order ends and an accepted close is executed.
FairSpec ==
  /\ Spec
  /\ WF_vars(OrderManager)
  /\ WF_vars(Deal \/ Cut)
  /\ WF_vars(\E f \in flight : ExecuteClose(f))

-----------------------------------------------------------------------------

\* A dealt lot of the entry goes to the leg of its side, whatever the exchange
\* calls side, leg and mode (CreateOrder of the adapters).
EntryOpensItsLeg ==
  [][deal' > deal => legs' = [legs EXCEPT ![Own] = @ + 1]]_vars

\* A close never opens, even where the position it was sized for has been
\* closed meanwhile by an earlier close or by the take profit.
ClosesNeverOpen ==
  [][deal' = deal => \A d \in Legs : legs'[d] <= legs[d]]_vars

\* The adapters that tell an order canceled after a part of it was dealt from
\* one that was not dealt.
TellsCut == {"bitmart", "pionex"}

\* The outcome published never claims more than was dealt, and "no fill" is said
\* only of an order that is over.  Where the adapter does not tell a cut order,
\* that one too is published as unfilled: see EndedUnfilled (GetOrder of the
\* adapters, classifyOrderOutcome).
OutcomeNotOverstated ==
  /\ outcome = "filled" => deal = Vol
  /\ outcome = "partial_filled" => deal > 0
  /\ outcome = "canceled_no_fill" => phase \in {"canceled", "cut"}
  /\ outcome = "canceled_no_fill" /\ ex \in TellsCut => deal = 0

\* What execute.go says of the outcome that completes an opening order: it was
\* "canceled with no fill".  The subscription ends its timer and its watch on
\* the word of classifyOrderOutcome, which does not read DealVol.
EndedUnfilled == stage = "ended" => deal = 0

\* A deadline that found nothing, or a bailout that reports success, has left no
\* position, though closes are executed late and positions read in between.
BailedOutIsFlat == stage = "done" => Held = {}

\* A bailout empties the leg of its request, though it may report failure.
BailoutEmpties == stage = "closing" ~> legs[Own] = 0 /\ flight = {}

OtherLeg == IF Own = "long" THEN "short" ELSE "long"
Exits    == exit = "placed" /\ exit' = "gone"

\* The take profit and the stop loss take the leg of their request and leave
\* that of another one alone (PlaceTPSL of the adapters; Aster: see below).
ExitsFitTheirLeg == [][Exits /\ ex # "aster" => legs' = [legs EXCEPT ![Own] = 0]]_vars

\* What tpsl_types.go says of the side a take profit is placed with: it is the
\* side the main order was opened with.  Aster reads it as a closing side, so that
\* this is false of its short positions; no run checks it.
ExitTakesItsLeg == [][Exits => legs'[Own] = 0]_vars

\* What docs/business/penny_jumper/05_order_lifecycle_and_ordermanager_flow.md
\* says of the bailout: the position is closed without being inverted.
NeverInverted == mode = "oneway" => legs[OtherLeg] = 0
==============================================================================
