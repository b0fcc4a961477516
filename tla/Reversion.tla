----------------------------- MODULE Reversion -----------------------------
(***************************************************************************)
(* The funding reversion strategy: the background scanners that look for   *)
(* candidates before a settlement, the check that triggers each candidate  *)
(* once, and the pipeline of event handlers that carries a triggered       *)
(* candidate to an order intent or to an abort.                            *)
(*                                                                         *)
(* Every topic of the pipeline has one subscription and the bus hands it   *)
(* the next message only after the handler of the last one returned, so a  *)
(* handler that sleeps keeps the other candidates of its topic waiting.    *)
(* A handler that sleeps is two actions (it starts, it wakes); the others  *)
(* do not read the clock and are one.  Rates are small integers, prices    *)
(* and sizes are what their checks answer.                                 *)
(***************************************************************************)
EXTENDS Integers, Sequences, FiniteSets

CONSTANTS
  Targets,    \* account:exchange:symbol keys
  Stream,     \* Stream[t]: the ticker stream of the target's symbol
  Scanners,   \* the configured scanner and one schedule scanner per account
  Scope,      \* Scope[s]: the targets scanner s looks at
  Rates,      \* funding rates the exchange may show
  MinRate,    \* MinFundingRate
  Rounds,     \* bound: settlements
  MaxTicks    \* bound: ticks of the scanner job

ASSUME ReversionAssumption ==
  /\ Scope \in [Scanners -> SUBSET Targets]
  /\ Rates \subseteq Int /\ MinRate \in Nat \ {0}
  /\ Rounds \in Nat \ {0} /\ MaxTicks \in Nat

VARIABLES
  now,       \* instants passed, see below
  rate,      \* rate[m]: funding rate of the symbol of stream m
  ticks,     \* ticks made
  due,       \* scanners that have not scanned in this tick
  found,     \* opportunities that wait for shouldTrigger
  last,      \* last[t]: lastTriggerSettle, 0 if none
  flows,     \* the candidates triggered, in order
  ticker     \* streams the flow FUNDING_REVERSION follows

vars == <<now, rate, ticks, due, found, last, flows, ticker>>

Streams == {Stream[t] : t \in Targets}

(***************************************************************************)
(* Instants.  Settlement r is at 4 * r.  Of the four instants before it    *)
(* the first is more than 15 minutes away, the second lies in the window   *)
(* of the scanner, at the third the recheck is due (settle - 5 s), at the  *)
(* fourth the price snapshot.                                              *)
(***************************************************************************)
Settle(r)     == 4 * r
WindowOf(r)   == Settle(r) - 3
RecheckAt(r)  == Settle(r) - 2
SnapshotAt(r) == Settle(r) - 1
Upcoming      == (now \div 4) + 1

Topics == {"candidate", "arm_market_ready", "arm_plan_calculated", "safety_checked",
           "armed", "wait_complete", "confirmed", "margin_mode_ready",
           "fire_timing_ready", "fire_plan_checked"}
Ends   == {"order_intent", "abort"}

Opportunity == [target : Targets, settle : 1 .. Rounds, rate : Rates]

\* candidate is the rate at the scan, rate the one the event carries; held:
\* a handler sleeps on it; passed: the last answer of the safety sizing.
Flow == [target : Targets, settle : 1 .. Rounds, candidate : Rates, rate : Rates,
         topic : Topics \cup Ends \cup {"lost"}, held : BOOLEAN, passed : BOOLEAN]

TypeOK ==
  /\ now \in 0 .. Settle(Rounds)
  /\ rate \in [Streams -> Rates]
  /\ ticks \in 0 .. MaxTicks
  /\ due \subseteq Scanners
  /\ found \in [Scanners -> SUBSET Opportunity]
  /\ last \in [Targets -> 0 .. Rounds]
  /\ flows \in Seq(Flow)
  /\ ticker \subseteq Streams

Init ==
  /\ now = 0
  /\ rate \in [Streams -> Rates]
  /\ ticks = 0 /\ due = {}
  /\ found = [s \in Scanners |-> {}]
  /\ last = [t \in Targets |-> 0]
  /\ flows = <<>>
  /\ ticker = {}

Magnitude(x) == IF x < 0 THEN -x ELSE x

-----------------------------------------------------------------------------
(* The scanner job                                                         *)

scanning == <<ticks, due, found, last>>

\* At start, then at minute 45 of the local clock, which may be ahead of the
\* clock of the exchange; the tick waits for all its scanners.
Tick ==
  /\ ticks < MaxTicks
  /\ due = {} /\ \A s \in Scanners : found[s] = {}
  /\ ticks = 0 \/ now % 4 \in {0, 1}
  /\ ticks' = ticks + 1
  /\ due' = Scanners
  /\ UNCHANGED <<now, rate, found, last, flows, ticker>>

\* The store of a scanner may still name the settlement before.
Scan(s) ==
  /\ s \in due
  /\ due' = due \ {s}
  /\ \E T \in SUBSET Scope[s], r \in {Upcoming, Upcoming - 1} \cap 1 .. Rounds :
        found' = [found EXCEPT ![s] =
                    {[target |-> t, settle |-> r, rate |-> rate[Stream[t]]] : t \in T}]
  /\ UNCHANGED <<now, rate, ticks, last, flows, ticker>>

InWindow(r) == WindowOf(r) <= now /\ now < Settle(r)

\* (fault) the settlement triggered last is let through again
ShouldTriggerAgain(o) ==
  /\ Magnitude(o.rate) >= MinRate
  /\ InWindow(o.settle)
  /\ o.settle >= last[o.target]

ShouldTrigger(o) ==
  /\ Magnitude(o.rate) >= MinRate
  /\ InWindow(o.settle)
  /\ o.settle > last[o.target]

Candidate(o) ==
  [target |-> o.target, settle |-> o.settle, candidate |-> o.rate, rate |-> o.rate,
   topic |-> "candidate", held |-> FALSE, passed |-> FALSE]

Trigger(s) == \E o \in found[s] :
  /\ found' = [found EXCEPT ![s] = @ \ {o}]
  /\ \/ /\ ShouldTrigger(o)
        /\ last' = [last EXCEPT ![o.target] = o.settle]
        /\ flows' = Append(flows, Candidate(o))
     \/ \* a limit on price, volume or size, or the blacklist, or the check above
        UNCHANGED <<last, flows>>
  /\ UNCHANGED <<now, rate, ticks, due, ticker>>

-----------------------------------------------------------------------------
(* The pipeline.  Every failure publishes an abort.                        *)

Ids   == DOMAIN flows
Of(i) == Stream[flows[i].target]

\* No handler of this topic is asleep.
Free(topic) == \A i \in Ids : ~ (flows[i].topic = topic /\ flows[i].held)

On(i, topic) == flows[i].topic = topic /\ ~ flows[i].held /\ Free(topic)

Publish(i, topic) == flows' = [flows EXCEPT ![i].topic = topic, ![i].held = FALSE]

\* The abort event names the request and a reason, not the plan.
AbortAfter(i) ==
  flows' = [flows EXCEPT ![i].topic = "abort", ![i].held = FALSE, ![i].passed = FALSE]

\* subscribeWS, then a price from the stream or from REST
HandleArm(i) ==
  /\ On(i, "candidate")
  /\ \/ AbortAfter(i) /\ UNCHANGED ticker
     \/ /\ ticker' = ticker \cup {Of(i)}
        /\ Publish(i, "arm_market_ready") \/ AbortAfter(i)
  /\ UNCHANGED <<now, rate, scanning>>

HandleArmMarketReady(i) ==
  /\ On(i, "arm_market_ready")
  /\ Publish(i, "arm_plan_calculated") \/ AbortAfter(i)
  /\ UNCHANGED <<now, rate, scanning, ticker>>

HandleArmPlanCalculated(i) ==
  /\ On(i, "arm_plan_calculated")
  /\ \E ok \in BOOLEAN : flows' = [flows EXCEPT ![i].topic = "safety_checked",
                                                ![i].passed = ok]
  /\ UNCHANGED <<now, rate, scanning, ticker>>

HandleSafetyChecked(i) ==
  /\ On(i, "safety_checked")
  /\ IF flows[i].passed THEN Publish(i, "armed") ELSE AbortAfter(i)
  /\ UNCHANGED <<now, rate, scanning, ticker>>

\* (fault) a timer that is late returns the error and publishes nothing
SleepLost(i, instant) ==
  IF now < instant THEN flows' = [flows EXCEPT ![i].held = TRUE] ELSE Publish(i, "lost")

(* A timer: asleep until the instant, or late when it has passed already.  *)
Sleep(i, instant) ==
  IF now < instant THEN flows' = [flows EXCEPT ![i].held = TRUE] ELSE AbortAfter(i)

HandleWait(i) ==
  /\ On(i, "armed")
  /\ Sleep(i, RecheckAt(flows[i].settle))
  /\ UNCHANGED <<now, rate, scanning, ticker>>

WaitComplete(i) ==
  /\ flows[i].topic = "armed" /\ flows[i].held
  /\ now >= RecheckAt(flows[i].settle)
  /\ Publish(i, "wait_complete")
  /\ UNCHANGED <<now, rate, scanning, ticker>>

\* The request for the rates may fail or answer none.
HandleRecheck(i) ==
  /\ On(i, "wait_complete")
  /\ LET r == rate[Of(i)] IN
     \/ AbortAfter(i)
     \/ /\ (r > 0) = (flows[i].candidate > 0)
        /\ Magnitude(r) >= MinRate
        /\ flows' = [flows EXCEPT ![i].topic = "confirmed", ![i].rate = r]
  /\ UNCHANGED <<now, rate, scanning, ticker>>

\* latency above MaxLatency
HandleFireIOC(i) ==
  /\ On(i, "confirmed")
  /\ Publish(i, "margin_mode_ready") \/ AbortAfter(i)
  /\ UNCHANGED <<now, rate, scanning, ticker>>

\* margin mode, position mode and leverage; the first error aborts
HandleMarginModeReady(i) ==
  /\ On(i, "margin_mode_ready")
  /\ Publish(i, "fire_timing_ready") \/ AbortAfter(i)
  /\ UNCHANGED <<now, rate, scanning, ticker>>

HandleFireTimingReady(i) ==
  /\ On(i, "fire_timing_ready")
  /\ Sleep(i, SnapshotAt(flows[i].settle))
  /\ UNCHANGED <<now, rate, scanning, ticker>>

\* (fault) the handler goes on without waiting for its instant
SnapshotEarly(i) ==
  /\ flows[i].topic = "fire_timing_ready" /\ flows[i].held
  /\ \/ AbortAfter(i)
     \/ \E ok \in BOOLEAN :
          flows' = [flows EXCEPT ![i].topic = "fire_plan_checked", ![i].held = FALSE,
                                 ![i].passed = ok]
  /\ UNCHANGED <<now, rate, scanning, ticker>>

\* the price again, the IOC price, the sizing
Snapshot(i) ==
  /\ flows[i].topic = "fire_timing_ready" /\ flows[i].held
  /\ now >= SnapshotAt(flows[i].settle)
  /\ \/ AbortAfter(i)
     \/ \E ok \in BOOLEAN :
          flows' = [flows EXCEPT ![i].topic = "fire_plan_checked", ![i].held = FALSE,
                                 ![i].passed = ok]
  /\ UNCHANGED <<now, rate, scanning, ticker>>

\* The stream is given up before the answer is looked at.
HandleFirePlanChecked(i) ==
  /\ On(i, "fire_plan_checked")
  /\ ticker' = ticker \ {Of(i)}
  /\ IF flows[i].passed THEN Publish(i, "order_intent") ELSE AbortAfter(i)
  /\ UNCHANGED <<now, rate, scanning>>

-----------------------------------------------------------------------------
(* The surroundings                                                        *)

Pass ==
  /\ now < Settle(Rounds)
  /\ now' = now + 1
  /\ UNCHANGED <<rate, scanning, flows, ticker>>

RateMoves(m) ==
  /\ \E r \in Rates \ {rate[m]} : rate' = [rate EXCEPT ![m] = r]
  /\ UNCHANGED <<now, scanning, flows, ticker>>

Handle(i) == i \in Ids /\
 (\/ HandleArm(i) \/ HandleArmMarketReady(i) \/ HandleArmPlanCalculated(i)
  \/ HandleSafetyChecked(i) \/ HandleWait(i) \/ WaitComplete(i) \/ HandleRecheck(i)
  \/ HandleFireIOC(i) \/ HandleMarginModeReady(i) \/ HandleFireTimingReady(i)
  \/ Snapshot(i) \/ HandleFirePlanChecked(i))

Requests == 1 .. Cardinality(Targets) * Rounds

Next ==
  \/ Tick \/ Pass
  \/ \E s \in Scanners : Scan(s) \/ Trigger(s)
  \/ \E i \in Ids : Handle(i)
  \/ \E m \in Streams : RateMoves(m)

Spec == Init /\ [][Next]_vars

\* Time passes, and the bus delivers what a free topic has waiting.
FairSpec == Spec /\ WF_vars(Pass) /\ \A i \in Requests : WF_vars(Handle(i))

-----------------------------------------------------------------------------

\* A target is triggered once for a settlement, whichever scanners find it and
\* however their ticks interleave (shouldTrigger, lastTriggerSettle).
OneCandidate == \A i, j \in Ids :
  i # j /\ flows[i].target = flows[j].target => flows[i].settle # flows[j].settle

\* An order intent goes out only with a rate that the recheck saw at or above
\* the threshold and on the side the candidate was found for, and with a
\* plan that the last sizing let pass (handleRecheck, handleFirePlanChecked).
VettedIntent == \A i \in Ids : flows[i].topic = "order_intent" =>
  /\ (flows[i].rate > 0) = (flows[i].candidate > 0)
  /\ Magnitude(flows[i].rate) >= MinRate
  /\ flows[i].passed

\* No step that is to follow a timer happens before the instant of the timer,
\* whatever the topics kept waiting meanwhile (handleWait, handleFireTimingReady).
TimersKept == \A i \in Ids :
  /\ flows[i].topic \in {"wait_complete", "confirmed", "margin_mode_ready",
                         "fire_timing_ready", "fire_plan_checked", "order_intent"}
       => now >= RecheckAt(flows[i].settle)
  /\ flows[i].topic \in {"fire_plan_checked", "order_intent"}
       => now >= SnapshotAt(flows[i].settle)

\* Every candidate triggered ends in an order intent or in an abort: no topic
\* stays blocked and no failure drops it (processTopicMessages, abortAfter).
EachEnds == \A i \in Requests :
  i \in Ids ~> (i \in Ids /\ flows[i].topic \in Ends)

\* A candidate sleeps to its own instant: none is kept from starting its timer
\* by the timer of another one that ends no earlier (handleWait).
OwnTimer == \A i, j \in Ids :
  flows[i].topic = "armed" /\ ~ flows[i].held /\ now < RecheckAt(flows[i].settle)
  /\ flows[j].topic = "armed" /\ flows[j].held
     => RecheckAt(flows[j].settle) < RecheckAt(flows[i].settle)
=============================================================================
