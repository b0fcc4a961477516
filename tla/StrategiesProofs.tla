-------------------------- MODULE StrategiesProofs --------------------------
(***************************************************************************)
(* Proofs about the funding reversion, for every set of targets and        *)
(* scanners, whatever each scanner looks at, any rates and any number of   *)
(* settlements: a target is triggered once per settlement, no step runs    *)
(* ahead of its timer, and an intent was vetted.  And about the dilution,  *)
(* for any number of ticks and slips: the position stays bounded.          *)
(***************************************************************************)
EXTENDS Strategies, FiniteSetTheorems, TLAPS

-----------------------------------------------------------------------------
(* The reversion: what is known of a candidate                             *)

\* The topics behind the recheck, and those behind the snapshot.
Rechecked == {"confirmed", "margin_mode_ready", "fire_timing_ready",
              "fire_plan_checked", "order_intent"}
Snapped   == {"fire_plan_checked", "order_intent"}

\* What is known of one candidate at an instant.
FlowOK(f, instant) ==
  /\ f.topic \in Rechecked =>
       (f.rate > 0) = (f.candidate > 0) /\ Magnitude(f.rate) >= MinRate
  /\ f.topic = "order_intent" => f.passed
  /\ f.topic \in Rechecked \cup {"wait_complete"} => instant >= RecheckAt(f.settle)
  /\ f.topic \in Snapped => instant >= SnapshotAt(f.settle)

FlowsOK == \A i \in Ids : FlowOK(flows[i], now)

\* A candidate is one its target remembers, and older ones differ from it.
Remembered == \A i \in Ids : flows[i].settle <= last[flows[i].target]

IInv == TypeOK /\ FlowsOK /\ Remembered /\ OneCandidate

-----------------------------------------------------------------------------
(* What one handler does to its candidate                                  *)

\* The candidate i becomes g, the others stay.
Becomes(i, g) ==
  /\ g \in Flow
  /\ g.target = flows[i].target /\ g.settle = flows[i].settle
  /\ g.candidate = flows[i].candidate
  /\ FlowOK(g, now)
  /\ flows' = [flows EXCEPT ![i] = g]

\* The handlers leave the clock, the rates and the scanner job alone.
HandlerFrame == UNCHANGED <<now, rate, scanning>> /\ ticker' \subseteq Streams

LEMMA FlowTyped == ASSUME TypeOK, NEW i \in Ids PROVE flows[i] \in Flow
  BY DEF TypeOK, Ids

LEMMA OfIsStream == ASSUME TypeOK, NEW i \in Ids PROVE Of(i) \in Streams
  BY FlowTyped DEF Of, Streams, Flow

\* Instants are integers.
LEMMA Instants ==
  ASSUME NEW r \in 1 .. Rounds
  PROVE  RecheckAt(r) \in Int /\ SnapshotAt(r) \in Int /\ RecheckAt(r) <= SnapshotAt(r)
  BY ReversionAssumption DEF RecheckAt, SnapshotAt, Settle

\* Publishing a topic in front of the timers is always right.
LEMMA PublishFirst ==
  ASSUME TypeOK, NEW i \in Ids, NEW topic \in Topics \cup Ends,
         topic \notin Rechecked \cup {"wait_complete"}, Publish(i, topic)
  PROVE  \E g : Becomes(i, g)
<1> DEFINE g == [flows[i] EXCEPT !.topic = topic, !.held = FALSE]
<1>1. flows[i] \in Flow
  BY FlowTyped
<1>2. flows' = [flows EXCEPT ![i] = g]
  BY DEF Publish
<1>3. g \in Flow /\ g.topic = topic
      /\ g.target = flows[i].target /\ g.settle = flows[i].settle
      /\ g.candidate = flows[i].candidate
  BY <1>1 DEF Flow
<1> HIDE DEF g
<1>4. FlowOK(g, now)
  BY <1>3 DEF FlowOK, Rechecked, Snapped
<1> QED BY <1>2, <1>3, <1>4 DEF Becomes

\* Publishing behind the recheck, what was known staying true.
LEMMA PublishOn ==
  ASSUME TypeOK, FlowsOK, NEW i \in Ids, NEW topic \in {"margin_mode_ready",
         "fire_timing_ready", "order_intent"}, flows[i].topic \in Rechecked,
         topic = "order_intent" => flows[i].passed /\ flows[i].topic \in Snapped,
         Publish(i, topic)
  PROVE  \E g : Becomes(i, g)
<1> DEFINE g == [flows[i] EXCEPT !.topic = topic, !.held = FALSE]
<1>1. flows[i] \in Flow
  BY FlowTyped
<1>2. flows' = [flows EXCEPT ![i] = g]
  BY DEF Publish
<1>3. /\ g \in Flow /\ g.topic = topic /\ g.rate = flows[i].rate
      /\ g.target = flows[i].target /\ g.settle = flows[i].settle
      /\ g.candidate = flows[i].candidate /\ g.passed = flows[i].passed
  BY <1>1 DEF Flow, Topics, Ends
<1>4. FlowOK(flows[i], now)
  BY DEF FlowsOK
<1> HIDE DEF g
<1>5. FlowOK(g, now)
  BY <1>3, <1>4 DEF FlowOK, Rechecked, Snapped
<1> QED BY <1>2, <1>3, <1>5 DEF Becomes

LEMMA AbortBecomes ==
  ASSUME TypeOK, NEW i \in Ids, AbortAfter(i) PROVE \E g : Becomes(i, g)
<1> DEFINE g == [flows[i] EXCEPT !.topic = "abort", !.held = FALSE, !.passed = FALSE]
<1>1. flows[i] \in Flow
  BY FlowTyped
<1>2. flows' = [flows EXCEPT ![i] = g]
  BY DEF AbortAfter
<1>3. g \in Flow /\ g.topic = "abort"
      /\ g.target = flows[i].target /\ g.settle = flows[i].settle
      /\ g.candidate = flows[i].candidate
  BY <1>1 DEF Flow, Ends
<1> HIDE DEF g
<1>4. FlowOK(g, now)
  BY <1>3 DEF FlowOK, Rechecked, Snapped
<1> QED BY <1>2, <1>3, <1>4 DEF Becomes

\* A timer that starts changes nothing that is known.
LEMMA SleepBecomes ==
  ASSUME TypeOK, FlowsOK, NEW i \in Ids, NEW instant, Sleep(i, instant)
  PROVE  \E g : Becomes(i, g)
<1> DEFINE g == [flows[i] EXCEPT !.held = TRUE]
<1>1. flows[i] \in Flow /\ FlowOK(flows[i], now)
  BY FlowTyped DEF FlowsOK
<1>2. CASE now < instant
  <2>1. flows' = [flows EXCEPT ![i] = g]
    BY <1>2 DEF Sleep
  <2>2. /\ g \in Flow /\ g.topic = flows[i].topic /\ g.rate = flows[i].rate
        /\ g.target = flows[i].target /\ g.settle = flows[i].settle
        /\ g.candidate = flows[i].candidate /\ g.passed = flows[i].passed
    BY <1>1 DEF Flow
  <2> HIDE DEF g
  <2>3. FlowOK(g, now)
    BY <1>1, <2>2 DEF FlowOK
  <2> QED BY <2>1, <2>2, <2>3 DEF Becomes
<1>3. CASE ~ (now < instant)
  BY <1>3, AbortBecomes DEF Sleep
<1> QED BY <1>2, <1>3

-----------------------------------------------------------------------------
(* The handlers                                                            *)

LEMMA ArmSteps ==
  ASSUME TypeOK, NEW i \in Ids,
         HandleArm(i) \/ HandleArmMarketReady(i) \/ HandleArmPlanCalculated(i)
           \/ HandleSafetyChecked(i)
  PROVE  (\E g : Becomes(i, g)) /\ HandlerFrame
<1>1. ticker \subseteq Streams
  BY DEF TypeOK
<1>2. CASE HandleArm(i)
  <2>1. AbortAfter(i) \/ Publish(i, "arm_market_ready")
    BY <1>2 DEF HandleArm
  <2>2. \E g : Becomes(i, g)
    BY <2>1, AbortBecomes, PublishFirst DEF Topics, Rechecked
  <2> QED BY <1>1, <1>2, <2>2, OfIsStream DEF HandleArm, HandlerFrame
<1>3. CASE HandleArmMarketReady(i)
  <2>1. AbortAfter(i) \/ Publish(i, "arm_plan_calculated")
    BY <1>3 DEF HandleArmMarketReady
  <2>2. \E g : Becomes(i, g)
    BY <2>1, AbortBecomes, PublishFirst DEF Topics, Rechecked
  <2> QED BY <1>1, <1>3, <2>2 DEF HandleArmMarketReady, HandlerFrame
<1>4. CASE HandleArmPlanCalculated(i)
  <2>1. PICK ok \in BOOLEAN : flows' = [flows EXCEPT ![i].topic = "safety_checked",
                                                     ![i].passed = ok]
    BY <1>4 DEF HandleArmPlanCalculated
  <2> DEFINE g == [flows[i] EXCEPT !.topic = "safety_checked", !.passed = ok]
  <2>2. flows[i] \in Flow
    BY FlowTyped
  <2>3. flows' = [flows EXCEPT ![i] = g]
    BY <2>1
  <2>4. g \in Flow /\ g.topic = "safety_checked"
        /\ g.target = flows[i].target /\ g.settle = flows[i].settle
        /\ g.candidate = flows[i].candidate
    BY <2>2 DEF Flow, Topics
  <2> HIDE DEF g
  <2>5. FlowOK(g, now)
    BY <2>4 DEF FlowOK, Rechecked, Snapped
  <2>6. Becomes(i, g)
    BY <2>3, <2>4, <2>5 DEF Becomes
  <2> QED BY <1>1, <1>4, <2>6 DEF HandleArmPlanCalculated, HandlerFrame
<1>5. CASE HandleSafetyChecked(i)
  <2>1. AbortAfter(i) \/ Publish(i, "armed")
    BY <1>5 DEF HandleSafetyChecked
  <2>2. \E g : Becomes(i, g)
    BY <2>1, AbortBecomes, PublishFirst DEF Topics, Rechecked
  <2> QED BY <1>1, <1>5, <2>2 DEF HandleSafetyChecked, HandlerFrame
<1> QED BY <1>2, <1>3, <1>4, <1>5

LEMMA RecheckSteps ==
  ASSUME TypeOK, FlowsOK, NEW i \in Ids,
         HandleWait(i) \/ WaitComplete(i) \/ HandleRecheck(i)
  PROVE  (\E g : Becomes(i, g)) /\ HandlerFrame
<1>1. ticker \subseteq Streams /\ flows[i] \in Flow /\ FlowOK(flows[i], now)
  BY FlowTyped DEF TypeOK, FlowsOK
<1>2. CASE HandleWait(i)
  <2>1. \E g : Becomes(i, g)
    BY <1>2, SleepBecomes DEF HandleWait
  <2> QED BY <1>1, <1>2, <2>1 DEF HandleWait, HandlerFrame
<1>3. CASE WaitComplete(i)
  <2> DEFINE g == [flows[i] EXCEPT !.topic = "wait_complete", !.held = FALSE]
  <2>1. flows' = [flows EXCEPT ![i] = g] /\ now >= RecheckAt(flows[i].settle)
    BY <1>3 DEF WaitComplete, Publish
  <2>2. g \in Flow /\ g.topic = "wait_complete"
        /\ g.target = flows[i].target /\ g.settle = flows[i].settle
        /\ g.candidate = flows[i].candidate
    BY <1>1 DEF Flow, Topics
  <2> HIDE DEF g
  <2>3. FlowOK(g, now)
    BY <2>1, <2>2 DEF FlowOK, Rechecked, Snapped
  <2>4. Becomes(i, g)
    BY <2>1, <2>2, <2>3 DEF Becomes
  <2> QED BY <1>1, <1>3, <2>4 DEF WaitComplete, HandlerFrame
<1>4. CASE HandleRecheck(i)
  <2> DEFINE r == rate[Of(i)]
             g == [flows[i] EXCEPT !.topic = "confirmed", !.rate = r]
  <2>1. HandlerFrame
    BY <1>1, <1>4 DEF HandleRecheck, HandlerFrame
  <2>2. CASE AbortAfter(i)
    BY <2>1, <2>2, AbortBecomes
  <2>3. CASE ~ AbortAfter(i)
    <3>1. /\ (r > 0) = (flows[i].candidate > 0) /\ Magnitude(r) >= MinRate
          /\ flows' = [flows EXCEPT ![i] = g]
      BY <1>4, <2>3 DEF HandleRecheck
    <3>2. r \in Rates
      BY OfIsStream DEF TypeOK
    <3> HIDE DEF r
    <3>3. /\ g \in Flow /\ g.topic = "confirmed" /\ g.rate = r
          /\ g.target = flows[i].target /\ g.settle = flows[i].settle
          /\ g.candidate = flows[i].candidate
      BY <1>1, <3>2 DEF Flow, Topics
    <3>4. now >= RecheckAt(flows[i].settle)
      BY <1>1, <1>4 DEF HandleRecheck, On, FlowOK
    <3> HIDE DEF g
    <3>5. FlowOK(g, now)
      BY <3>1, <3>3, <3>4 DEF FlowOK, Snapped
    <3>6. Becomes(i, g)
      BY <3>1, <3>3, <3>5 DEF Becomes
    <3> QED BY <2>1, <3>6
  <2> QED BY <2>2, <2>3
<1> QED BY <1>2, <1>3, <1>4

LEMMA FireSteps ==
  ASSUME TypeOK, FlowsOK, NEW i \in Ids,
         HandleFireIOC(i) \/ HandleMarginModeReady(i) \/ HandleFireTimingReady(i)
  PROVE  (\E g : Becomes(i, g)) /\ HandlerFrame
<1>1. ticker \subseteq Streams
  BY DEF TypeOK
<1>2. CASE HandleFireIOC(i)
  <2>1. flows[i].topic = "confirmed" /\ (AbortAfter(i) \/ Publish(i, "margin_mode_ready"))
    BY <1>2 DEF HandleFireIOC, On
  <2>2. \E g : Becomes(i, g)
    BY <2>1, AbortBecomes, PublishOn DEF Rechecked
  <2> QED BY <1>1, <1>2, <2>2 DEF HandleFireIOC, HandlerFrame
<1>3. CASE HandleMarginModeReady(i)
  <2>1. /\ flows[i].topic = "margin_mode_ready"
        /\ AbortAfter(i) \/ Publish(i, "fire_timing_ready")
    BY <1>3 DEF HandleMarginModeReady, On
  <2>2. \E g : Becomes(i, g)
    BY <2>1, AbortBecomes, PublishOn DEF Rechecked
  <2> QED BY <1>1, <1>3, <2>2 DEF HandleMarginModeReady, HandlerFrame
<1>4. CASE HandleFireTimingReady(i)
  <2>1. \E g : Becomes(i, g)
    BY <1>4, SleepBecomes DEF HandleFireTimingReady
  <2> QED BY <1>1, <1>4, <2>1 DEF HandleFireTimingReady, HandlerFrame
<1> QED BY <1>2, <1>3, <1>4

LEMMA PlanSteps ==
  ASSUME TypeOK, FlowsOK, NEW i \in Ids, Snapshot(i) \/ HandleFirePlanChecked(i)
  PROVE  (\E g : Becomes(i, g)) /\ HandlerFrame
<1>1. ticker \subseteq Streams /\ flows[i] \in Flow /\ FlowOK(flows[i], now)
  BY FlowTyped DEF TypeOK, FlowsOK
<1>2. CASE Snapshot(i)
  <2>1. HandlerFrame
    BY <1>1, <1>2 DEF Snapshot, HandlerFrame
  <2>2. CASE AbortAfter(i)
    BY <2>1, <2>2, AbortBecomes
  <2>3. CASE ~ AbortAfter(i)
    <3>1. PICK ok \in BOOLEAN :
            flows' = [flows EXCEPT ![i].topic = "fire_plan_checked", ![i].held = FALSE,
                                   ![i].passed = ok]
      BY <1>2, <2>3 DEF Snapshot
    <3> DEFINE g == [flows[i] EXCEPT !.topic = "fire_plan_checked", !.held = FALSE,
                                     !.passed = ok]
    <3>2. flows' = [flows EXCEPT ![i] = g]
      BY <3>1
    <3>3. /\ g \in Flow /\ g.topic = "fire_plan_checked" /\ g.rate = flows[i].rate
          /\ g.target = flows[i].target /\ g.settle = flows[i].settle
          /\ g.candidate = flows[i].candidate
      BY <1>1 DEF Flow, Topics
    <3>4. flows[i].topic = "fire_timing_ready" /\ now >= SnapshotAt(flows[i].settle)
      BY <1>2 DEF Snapshot
    <3> HIDE DEF g
    <3>5. FlowOK(g, now)
      BY <1>1, <3>3, <3>4 DEF FlowOK, Rechecked
    <3>6. Becomes(i, g)
      BY <3>2, <3>3, <3>5 DEF Becomes
    <3> QED BY <2>1, <3>6
  <2> QED BY <2>2, <2>3
<1>3. CASE HandleFirePlanChecked(i)
  <2>1. /\ flows[i].topic = "fire_plan_checked"
        /\ IF flows[i].passed THEN Publish(i, "order_intent") ELSE AbortAfter(i)
    BY <1>3 DEF HandleFirePlanChecked, On
  <2>2. CASE flows[i].passed
    <3>1. \E g : Becomes(i, g)
      BY <2>1, <2>2, PublishOn DEF Rechecked, Snapped
    <3> QED BY <1>1, <1>3, <3>1 DEF HandleFirePlanChecked, HandlerFrame
  <2>3. CASE ~ flows[i].passed
    <3>1. \E g : Becomes(i, g)
      BY <2>1, <2>3, AbortBecomes
    <3> QED BY <1>1, <1>3, <3>1 DEF HandleFirePlanChecked, HandlerFrame
  <2> QED BY <2>2, <2>3
<1> QED BY <1>2, <1>3

-----------------------------------------------------------------------------
(* The invariant                                                           *)

LEMMA HandleKeeps == ASSUME IInv, NEW i, Handle(i) PROVE IInv'
<1> USE DEF IInv
<1>1. i \in Ids
  BY DEF Handle
<1>2. (\E g : Becomes(i, g)) /\ HandlerFrame
  BY <1>1, ArmSteps, RecheckSteps, FireSteps, PlanSteps DEF Handle
<1>3. PICK g : Becomes(i, g)
  BY <1>2
<1>4. /\ flows' \in Seq(Flow) /\ Ids' = Ids /\ flows'[i] = g
      /\ \A j \in Ids : j # i => flows'[j] = flows[j]
  BY <1>1, <1>3 DEF Becomes, TypeOK, Ids
<1>5. UNCHANGED <<now, rate, ticks, due, found, last>>
  BY <1>2 DEF HandlerFrame, scanning
<1>6. TypeOK'
  <2>1. ticker' \subseteq Streams
    BY <1>2 DEF HandlerFrame
  <2> QED BY <1>4, <1>5, <2>1 DEF TypeOK
<1>7. FlowsOK'
  BY <1>3, <1>4, <1>5 DEF FlowsOK, Becomes
<1>8. /\ \A j \in Ids : flows'[j].target = flows[j].target
                        /\ flows'[j].settle = flows[j].settle
  BY <1>3, <1>4 DEF Becomes
<1>9. Remembered'
  BY <1>4, <1>5, <1>8 DEF Remembered
<1>10. OneCandidate'
  BY <1>4, <1>8 DEF OneCandidate
<1> QED BY <1>6, <1>7, <1>9, <1>10

LEMMA TickKeeps == ASSUME IInv, Tick PROVE IInv'
<1>1. UNCHANGED <<now, rate, found, last, flows, ticker>>
  BY DEF Tick
<1>2. TypeOK'
  BY <1>1, ReversionAssumption DEF Tick, IInv, TypeOK
<1> QED BY <1>1, <1>2 DEF IInv, FlowsOK, Remembered, OneCandidate, Ids

LEMMA ScanKeeps == ASSUME IInv, NEW s \in Scanners, Scan(s) PROVE IInv'
<1>1. UNCHANGED <<now, rate, ticks, last, flows, ticker>> /\ due' \subseteq Scanners
  BY DEF Scan, IInv, TypeOK
<1>2. PICK T \in SUBSET Scope[s], r \in {Upcoming, Upcoming - 1} \cap 1 .. Rounds :
        found' = [found EXCEPT ![s] =
                    {[target |-> t, settle |-> r, rate |-> rate[Stream[t]]] : t \in T}]
  BY DEF Scan
<1> DEFINE Seen == {[target |-> t, settle |-> r, rate |-> rate[Stream[t]]] : t \in T}
<1>3. Seen \subseteq Opportunity
  <2> SUFFICES ASSUME NEW t \in T
               PROVE  [target |-> t, settle |-> r, rate |-> rate[Stream[t]]] \in Opportunity
    OBVIOUS
  <2>1. t \in Targets
    BY ReversionAssumption
  <2>2. rate[Stream[t]] \in Rates
    BY <2>1 DEF IInv, TypeOK, Streams
  <2> QED BY <2>1, <2>2 DEF Opportunity
<1> HIDE DEF Seen
<1>4. found' \in [Scanners -> SUBSET Opportunity]
  BY <1>2, <1>3 DEF IInv, TypeOK, Seen
<1> QED BY <1>1, <1>4
    DEF IInv, TypeOK, FlowsOK, Remembered, OneCandidate, Ids, Streams

LEMMA TriggerKeeps == ASSUME IInv, NEW s \in Scanners, Trigger(s) PROVE IInv'
<1> USE DEF IInv
<1>1. PICK o \in found[s] :
        /\ found' = [found EXCEPT ![s] = @ \ {o}]
        /\ \/ /\ ShouldTrigger(o)
              /\ last' = [last EXCEPT ![o.target] = o.settle]
              /\ flows' = Append(flows, Candidate(o))
           \/ UNCHANGED <<last, flows>>
  BY DEF Trigger
<1>2. UNCHANGED <<now, rate, ticks, due, ticker>>
  BY DEF Trigger
<1>3. found' \in [Scanners -> SUBSET Opportunity]
  BY <1>1 DEF TypeOK
<1>4. o \in Opportunity
  BY DEF TypeOK
<1>5. CASE UNCHANGED <<last, flows>>
  BY <1>2, <1>3, <1>5 DEF TypeOK, FlowsOK, Remembered, OneCandidate, Ids, Streams
<1>6. CASE /\ ShouldTrigger(o)
           /\ last' = [last EXCEPT ![o.target] = o.settle]
           /\ flows' = Append(flows, Candidate(o))
  <2> DEFINE n == Len(flows) + 1
             c == Candidate(o)
  <2>1. /\ c \in Flow /\ c.target = o.target /\ c.settle = o.settle
        /\ c.topic = "candidate"
    BY <1>4 DEF Candidate, Opportunity, Flow, Topics
  <2> HIDE DEF c
  <2>2. flows \in Seq(Flow) /\ flows' = Append(flows, c)
    BY <1>6 DEF TypeOK, c
  <2>3. /\ flows' \in Seq(Flow) /\ Ids' = Ids \cup {n} /\ n \notin Ids
        /\ flows'[n] = c /\ \A j \in Ids : flows'[j] = flows[j]
    BY <2>1, <2>2 DEF Ids
  <2> HIDE DEF n
  <2>4. o.target \in Targets /\ o.settle \in 1 .. Rounds /\ o.settle > last[o.target]
        /\ last[o.target] \in 0 .. Rounds
    BY <1>4, <1>6 DEF Opportunity, ShouldTrigger, TypeOK
  <2>5. TypeOK'
    <3>1. last' \in [Targets -> 0 .. Rounds]
      BY <1>6, <2>4 DEF TypeOK
    <3> QED BY <1>2, <1>3, <2>3, <3>1 DEF TypeOK, Streams
  <2>6. FlowsOK'
    <3>1. FlowOK(c, now)
      BY <2>1 DEF FlowOK, Rechecked, Snapped
    <3> QED BY <1>2, <2>3, <3>1 DEF FlowsOK
  <2>7. \A j \in Ids : flows[j] \in Flow
    BY FlowTyped
  <2>8. \A j \in Ids : flows[j].target = o.target => flows[j].settle < o.settle
    <3> SUFFICES ASSUME NEW j \in Ids, flows[j].target = o.target
                 PROVE  flows[j].settle < o.settle
      OBVIOUS
    <3>1. flows[j].settle <= last[o.target] /\ flows[j].settle \in 1 .. Rounds
      BY <2>7 DEF Remembered, Flow
    <3> QED BY <2>4, <3>1, ReversionAssumption
  <2>9. Remembered'
    <3> SUFFICES ASSUME NEW j \in Ids'
                 PROVE  flows'[j].settle <= last'[flows'[j].target]
      BY DEF Remembered
    <3>1. CASE j = n
      <4>1. last'[o.target] = o.settle
        BY <1>6, <2>4 DEF TypeOK
      <4> QED BY <2>1, <2>3, <2>4, <3>1, <4>1
    <3>2. CASE j # n
      <4>1. j \in Ids /\ flows'[j] = flows[j] /\ flows[j].settle <= last[flows[j].target]
        BY <2>3, <3>2 DEF Remembered
      <4>2. flows[j].target \in Targets /\ flows[j].settle \in 1 .. Rounds
        BY <2>7, <4>1 DEF Flow
      <4>3. CASE flows[j].target = o.target
        <5>1. last'[o.target] = o.settle /\ flows[j].settle < o.settle
          BY <1>6, <2>4, <2>8, <4>1, <4>3 DEF TypeOK
        <5> QED BY <2>4, <4>1, <4>2, <4>3, <5>1
      <4>4. CASE flows[j].target # o.target
        BY <1>6, <4>1, <4>2, <4>4 DEF TypeOK
      <4> QED BY <4>3, <4>4
    <3> QED BY <3>1, <3>2
  <2>10. OneCandidate'
    <3> SUFFICES ASSUME NEW j \in Ids', NEW k \in Ids', j # k,
                        flows'[j].target = flows'[k].target
                 PROVE  flows'[j].settle # flows'[k].settle
      BY DEF OneCandidate
    <3>1. \A x \in Ids : flows[x].settle \in 1 .. Rounds
      BY <2>7 DEF Flow
    <3>2. CASE j \in Ids /\ k \in Ids
      BY <2>3, <3>2 DEF OneCandidate
    <3>3. CASE j = n /\ k \in Ids
      BY <2>1, <2>3, <2>4, <2>8, <3>1, <3>3
    <3>4. CASE k = n /\ j \in Ids
      BY <2>1, <2>3, <2>4, <2>8, <3>1, <3>4
    <3> QED BY <2>3, <3>2, <3>3, <3>4
  <2> QED BY <2>5, <2>6, <2>9, <2>10
<1> QED BY <1>1, <1>5, <1>6

LEMMA PassKeeps == ASSUME IInv, Pass PROVE IInv'
<1> USE DEF IInv
<1>1. UNCHANGED <<rate, ticks, due, found, last, flows, ticker>>
  BY DEF Pass, scanning
<1>2. now' = now + 1 /\ now \in Nat /\ now' \in 0 .. Settle(Rounds)
  BY ReversionAssumption DEF Pass, TypeOK, Settle
<1>3. TypeOK'
  BY <1>1, <1>2 DEF TypeOK, Streams
<1>4. FlowsOK'
  <2> SUFFICES ASSUME NEW i \in Ids PROVE FlowOK(flows[i], now')
    BY <1>1 DEF FlowsOK, Ids
  <2>1. FlowOK(flows[i], now) /\ flows[i].settle \in 1 .. Rounds
    BY FlowTyped DEF FlowsOK, Flow
  <2>2. RecheckAt(flows[i].settle) \in Int /\ SnapshotAt(flows[i].settle) \in Int
    BY <2>1, Instants
  <2> QED BY <1>2, <2>1, <2>2 DEF FlowOK
<1> QED BY <1>1, <1>3, <1>4 DEF Remembered, OneCandidate, Ids

LEMMA RateMovesKeeps == ASSUME IInv, NEW m \in Streams, RateMoves(m) PROVE IInv'
<1>1. UNCHANGED <<now, ticks, due, found, last, flows, ticker>>
  BY DEF RateMoves, scanning
<1>2. rate' \in [Streams -> Rates]
  BY DEF RateMoves, IInv, TypeOK
<1> QED BY <1>1, <1>2
    DEF IInv, TypeOK, FlowsOK, Remembered, OneCandidate, Ids, Streams

LEMMA InitInv == Init => IInv
<1> SUFFICES ASSUME Init PROVE IInv
  OBVIOUS
<1>1. flows = <<>> /\ Ids = {}
  BY DEF Init, Ids
<1>2. now \in 0 .. Settle(Rounds)
  BY ReversionAssumption DEF Init, Settle
<1>3. found \in [Scanners -> SUBSET Opportunity] /\ last \in [Targets -> 0 .. Rounds]
  BY ReversionAssumption DEF Init
<1>4. TypeOK
  BY <1>1, <1>2, <1>3, ReversionAssumption DEF Init, TypeOK
<1> QED BY <1>1, <1>4 DEF IInv, FlowsOK, Remembered, OneCandidate

LEMMA StepKeepsInv == ASSUME IInv, [Next]_vars PROVE IInv'
<1>1. CASE Tick
  BY <1>1, TickKeeps
<1>2. CASE Pass
  BY <1>2, PassKeeps
<1>3. ASSUME NEW s \in Scanners, Scan(s) \/ Trigger(s) PROVE IInv'
  BY <1>3, ScanKeeps, TriggerKeeps
<1>4. ASSUME NEW i \in Ids, Handle(i) PROVE IInv'
  BY <1>4, HandleKeeps
<1>5. ASSUME NEW m \in Streams, RateMoves(m) PROVE IInv'
  BY <1>5, RateMovesKeeps
<1>6. CASE UNCHANGED vars
  BY <1>6 DEF vars, IInv, TypeOK, FlowsOK, Remembered, OneCandidate, Ids, Streams
<1> QED BY <1>1, <1>2, <1>3, <1>4, <1>5, <1>6 DEF Next

\* Every candidate is remembered by its target, and carries what the handlers
\* it has passed have found (shouldTrigger, the handlers of the flow).
THEOREM Invariant == Spec => []IInv
<1>1. IInv /\ [Next]_vars => IInv'
  BY StepKeepsInv
<1> QED BY <1>1, InitInv, PTL DEF Spec

-----------------------------------------------------------------------------
(* What follows                                                            *)

\* However many scanners find a target and however their ticks interleave, it
\* is triggered once per settlement (shouldTrigger, lastTriggerSettle).
THEOREM TriggeredOnce == Spec => []OneCandidate
<1>1. IInv => OneCandidate
  BY DEF IInv
<1> QED BY <1>1, Invariant, PTL

\* No handler runs ahead of its timer, however long another candidate of the
\* topic kept it waiting (handleWait, handleFireTimingReady).
THEOREM NeverAheadOfTimer == Spec => []TimersKept
<1>1. IInv => TimersKept
  BY DEF IInv, FlowsOK, FlowOK, TimersKept, Rechecked, Snapped
<1> QED BY <1>1, Invariant, PTL

\* An intent carries a rate the recheck confirmed and a plan the last sizing
\* let pass (handleRecheck, handleFirePlanChecked).
THEOREM IntentIsVetted == Spec => []VettedIntent
<1>1. IInv => VettedIntent
  BY DEF IInv, FlowsOK, FlowOK, VettedIntent, Rechecked
<1> QED BY <1>1, Invariant, PTL

-----------------------------------------------------------------------------
(* The dilution: what is known of its quotes                               *)

\* The opening quote of tick k in direction d.
QuoteAt(k, d) == [tick |-> k, dir |-> d, closes |-> FALSE, vol |-> 1]

\* Opening quotes that rest though their tick has been cleared: a cancel failed,
\* or they were submitted late.
Late(d) == {k \in 1 .. QuoteTicks : k < Quoting!Cleared /\ QuoteAt(k, d) \in resting}

\* The opening quote the next cancel is to take away.
Due(d) == IF QuoteAt(Quoting!Cleared, d) \in pending \cup resting THEN 1 ELSE 0

\* One opening quote of a kind per tick, in one place.
QuotesOK ==
  /\ \A q \in pending \cup resting :
       /\ q.tick <= Quoting!Cleared
       /\ stage = "clear" => q.tick < Quoting!Cleared
  /\ \A q \in pending \cup resting : ~ q.closes => q.vol = 1
  /\ \A q \in pending : ~ q.closes => q \notin resting
  /\ stage # "idle" => quoteTicks > 0

\* What a direction holds, and what may still fill without another slip.  One
\* more quote of each direction comes once nothing was seen to be held.
ExposureOK ==
  \A d \in Quoting!Directions :
    /\ Cardinality(Late(d)) <= slips
    /\ held[d] + Cardinality(Late(d)) + Due(d)
         <= slips + (IF stage # "idle" /\ seen = Quoting!Nothing THEN 1 ELSE 2)

DilutionInv == Quoting!TypeOK /\ QuotesOK /\ ExposureOK

-----------------------------------------------------------------------------

LEMMA LateIsFinite ==
  ASSUME Quoting!DilutionAssumption, NEW d
  PROVE  /\ IsFiniteSet(Late(d)) /\ Cardinality(Late(d)) \in Nat
         /\ IsFiniteSet(1 .. QuoteTicks)
         /\ Due(d) \in 0 .. 1
<1>1. IsFiniteSet(1 .. QuoteTicks)
  BY FS_Interval DEF Quoting!DilutionAssumption
<1>2. Late(d) \in SUBSET (1 .. QuoteTicks)
  BY DEF Late
<1>3. Due(d) \in 0 .. 1
  BY DEF Due
<1> QED BY <1>1, <1>2, <1>3, FS_Subset, FS_CardinalityType

\* A set within another one has no more members.
LEMMA FewerMembers ==
  ASSUME NEW S, NEW T, IsFiniteSet(T), S \subseteq T
  PROVE  /\ IsFiniteSet(S) /\ Cardinality(S) \in Nat /\ Cardinality(T) \in Nat
         /\ Cardinality(S) <= Cardinality(T)
  BY FS_Subset, FS_CardinalityType

LEMMA QuotesAre ==
  ASSUME Quoting!TypeOK, QuotesOK, NEW q \in pending \cup resting
  PROVE  /\ q \in Quoting!Quote /\ q.tick \in 1 .. QuoteTicks
         /\ q.dir \in Quoting!Directions /\ q.vol \in Nat \ {0}
         /\ q.tick <= Quoting!Cleared
         /\ ~ q.closes => q = QuoteAt(q.tick, q.dir)
<1>1. q \in Quoting!Quote
  BY DEF Quoting!TypeOK
<1>2. q = [tick |-> q.tick, dir |-> q.dir, closes |-> q.closes, vol |-> q.vol]
      /\ q.tick \in 1 .. QuoteTicks /\ q.dir \in Quoting!Directions /\ q.vol \in Nat \ {0}
      /\ q.closes \in BOOLEAN
  BY <1>1 DEF Quoting!Quote
<1>3. q.tick <= Quoting!Cleared /\ (~ q.closes => q.vol = 1)
  BY DEF QuotesOK
<1>4. ASSUME ~ q.closes PROVE q = QuoteAt(q.tick, q.dir)
  <2>1. q.closes = FALSE /\ q.vol = 1
    BY <1>2, <1>3, <1>4
  <2> QED BY <1>2, <2>1, Zenon DEF QuoteAt
<1> QED BY <1>1, <1>2, <1>3, <1>4

\* Steps after which less may fill.
LEMMA LessKeeps ==
  ASSUME Quoting!DilutionAssumption, DilutionInv, Quoting!TypeOK', NEW d \in Quoting!Directions,
         Late(d)' \subseteq Late(d), Due(d)' <= Due(d), held'[d] <= held[d],
         slips <= slips', UNCHANGED <<stage, seen>>
  PROVE  /\ Cardinality(Late(d)') <= slips'
         /\ held'[d] + Cardinality(Late(d)') + Due(d)'
              <= slips' + (IF stage' # "idle" /\ seen' = Quoting!Nothing THEN 1 ELSE 2)
<1>1. Cardinality(Late(d)') <= Cardinality(Late(d)) /\ Cardinality(Late(d)') \in Nat
      /\ Cardinality(Late(d)) \in Nat
  BY LateIsFinite, FewerMembers
<1>2. Due(d) \in 0 .. 1 /\ Due(d)' \in 0 .. 1
  BY LateIsFinite DEF Due
<1>3. held[d] \in Nat /\ held'[d] \in Nat /\ slips \in Nat /\ slips' \in Nat
  BY DEF DilutionInv, Quoting!TypeOK, Quoting!DilutionAssumption
<1>4. /\ Cardinality(Late(d)) <= slips
      /\ held[d] + Cardinality(Late(d)) + Due(d)
           <= slips + (IF stage # "idle" /\ seen = Quoting!Nothing THEN 1 ELSE 2)
  BY DEF DilutionInv, ExposureOK
<1> QED BY <1>1, <1>2, <1>3, <1>4

LEMMA DilutionInit == ASSUME Quoting!DilutionAssumption, Quoting!Init PROVE DilutionInv
<1>1. Quoting!TypeOK
  BY DEF Quoting!Init, Quoting!TypeOK, Quoting!Nothing, Quoting!DilutionAssumption
<1>2. \A d : Late(d) = {} /\ Due(d) = 0
  BY DEF Quoting!Init, Late, Due
<1>3. ExposureOK
  BY <1>2, FS_EmptySet DEF Quoting!Init, ExposureOK, Quoting!Nothing
<1> QED BY <1>1, <1>3 DEF DilutionInv, QuotesOK, Quoting!Init

LEMMA ResolveKeeps ==
  ASSUME Quoting!DilutionAssumption, DilutionInv, Quoting!ResolvePositionSummary PROVE DilutionInv'
<1> USE DEF DilutionInv
<1>1. Quoting!TypeOK'
  BY DEF Quoting!ResolvePositionSummary, Quoting!TypeOK, Quoting!Nothing, Quoting!Slip,
         Quoting!DilutionAssumption
<1>2. Quoting!Cleared' = Quoting!Cleared
  BY DEF Quoting!ResolvePositionSummary, Quoting!Cleared, Quoting!TypeOK, Quoting!DilutionAssumption
<1>3. QuotesOK'
  BY <1>2 DEF QuotesOK, Quoting!ResolvePositionSummary, Quoting!TypeOK, Quoting!DilutionAssumption
<1>4. ASSUME NEW d \in Quoting!Directions
      PROVE  /\ Cardinality(Late(d)') <= slips'
             /\ held'[d] + Cardinality(Late(d)') + Due(d)'
                  <= slips' + (IF stage' # "idle" /\ seen' = Quoting!Nothing THEN 1 ELSE 2)
  <2>1. Late(d)' = Late(d) /\ Due(d)' = Due(d) /\ held' = held
    BY <1>2 DEF Late, Due, Quoting!ResolvePositionSummary
  <2>2. Cardinality(Late(d)) \in Nat /\ Due(d) \in 0 .. 1 /\ held[d] \in Nat /\ slips \in Nat
    BY LateIsFinite DEF Quoting!TypeOK, Quoting!DilutionAssumption
  <2>3. /\ Cardinality(Late(d)) <= slips
        /\ held[d] + Cardinality(Late(d)) + Due(d) <= slips + 2
    BY DEF ExposureOK, Quoting!ResolvePositionSummary
  <2>4. CASE slips' = slips + 1
    BY <2>1, <2>2, <2>3, <2>4
  <2>5. CASE seen' = held /\ slips' = slips
    <3>1. seen' = Quoting!Nothing => held[d] = 0
      BY <2>5 DEF Quoting!Nothing
    <3> QED BY <2>1, <2>2, <2>3, <2>5, <3>1
  <2> QED BY <2>4, <2>5 DEF Quoting!ResolvePositionSummary, Quoting!Slip
<1> QED BY <1>1, <1>3, <1>4 DEF ExposureOK

LEMMA CancelKeeps ==
  ASSUME Quoting!DilutionAssumption, DilutionInv, Quoting!CancelStaleOrders PROVE DilutionInv'
<1> USE DEF DilutionInv
<1>1. Quoting!TypeOK'
  BY DEF Quoting!CancelStaleOrders, Quoting!TypeOK, Quoting!Slip, Quoting!DilutionAssumption
<1>2. Quoting!Cleared' = Quoting!Cleared + 1 /\ Quoting!Cleared \in Nat
  BY DEF Quoting!CancelStaleOrders, Quoting!Cleared, Quoting!TypeOK, QuotesOK,
         Quoting!DilutionAssumption
<1>3. resting' \subseteq resting /\ pending' = pending /\ stage = "read" /\ stage' = "clear"
      /\ UNCHANGED <<held, seen, quoteTicks>>
  BY DEF Quoting!CancelStaleOrders
<1>4. QuotesOK'
  <2>1. \A q \in pending \cup resting : q.tick \in Int /\ q.tick <= Quoting!Cleared
    BY QuotesAre
  <2> QED BY <1>2, <1>3, <2>1 DEF QuotesOK
<1>5. \A d : Due(d)' = 0
  <2>1. \A q \in pending \cup resting : q.tick \in Int /\ q.tick <= Quoting!Cleared
    BY QuotesAre
  <2>2. \A d : QuoteAt(Quoting!Cleared', d) \notin pending \cup resting
    BY <1>2, <2>1 DEF QuoteAt
  <2> QED BY <1>3, <2>2 DEF Due
<1>6. ASSUME NEW d \in Quoting!Directions
      PROVE  /\ Cardinality(Late(d)') <= slips'
             /\ held'[d] + Cardinality(Late(d)') + Due(d)'
                  <= slips' + (IF stage' # "idle" /\ seen' = Quoting!Nothing THEN 1 ELSE 2)
  <2>1. Cardinality(Late(d)) \in Nat /\ Due(d) \in 0 .. 1 /\ held[d] \in Nat /\ slips \in Nat
    BY LateIsFinite DEF Quoting!TypeOK, Quoting!DilutionAssumption
  <2>2. /\ Cardinality(Late(d)) <= slips
        /\ held[d] + Cardinality(Late(d)) + Due(d)
             <= slips + (IF seen = Quoting!Nothing THEN 1 ELSE 2)
    BY <1>3 DEF ExposureOK
  <2>3. CASE resting' = {} /\ slips' = slips
    <3>1. Late(d)' = {}
      BY <2>3 DEF Late
    <3>2. Cardinality(Late(d)') = 0
      BY <3>1, FS_EmptySet
    <3> QED BY <1>3, <1>5, <2>1, <2>2, <2>3, <3>2
  <2>4. CASE resting' = resting /\ slips' = slips + 1
    <3>1. Late(d)' \subseteq Late(d) \cup {Quoting!Cleared}
      BY <1>2, <2>4 DEF Late
    <3>2. Due(d) = 0 => Late(d)' \subseteq Late(d)
      BY <1>2, <2>4 DEF Late, Due
    <3>3. IsFiniteSet(Late(d) \cup {Quoting!Cleared})
          /\ Cardinality(Late(d) \cup {Quoting!Cleared}) <= Cardinality(Late(d)) + 1
      BY <2>1, LateIsFinite, FS_AddElement
    <3>4. Cardinality(Late(d)') <= Cardinality(Late(d) \cup {Quoting!Cleared})
          /\ Cardinality(Late(d)') \in Nat /\ Cardinality(Late(d) \cup {Quoting!Cleared}) \in Nat
      BY <3>1, <3>3, FewerMembers
    <3>5. Due(d) = 0 => Cardinality(Late(d)') <= Cardinality(Late(d))
      BY <3>2, LateIsFinite, FewerMembers
    <3>6. Cardinality(Late(d)') <= Cardinality(Late(d)) + Due(d)
      BY <2>1, <3>3, <3>4, <3>5
    <3> QED BY <1>3, <1>5, <2>1, <2>2, <2>4, <3>4, <3>6
  <2> QED BY <2>3, <2>4 DEF Quoting!CancelStaleOrders, Quoting!Slip
<1> QED BY <1>1, <1>4, <1>6 DEF ExposureOK

LEMMA GenerateKeeps ==
  ASSUME Quoting!DilutionAssumption, DilutionInv, Quoting!GenerateQuotes PROVE DilutionInv'
<1> USE DEF DilutionInv
<1>1. /\ stage = "clear" /\ stage' = "idle" /\ UNCHANGED <<held, resting, quoteTicks, seen, slips>>
      /\ pending \subseteq pending' /\ pending' \subseteq pending \cup Quoting!Quotes
  BY DEF Quoting!GenerateQuotes
<1>2. /\ quoteTicks \in 1 .. QuoteTicks
      /\ Quoting!Cleared = quoteTicks /\ Quoting!Cleared' = quoteTicks
  BY <1>1 DEF Quoting!Cleared, Quoting!TypeOK, QuotesOK, Quoting!DilutionAssumption
<1>3. \A q \in Quoting!Quotes : /\ q \in Quoting!Quote /\ q.tick = quoteTicks
                                /\ ~ q.closes => q.vol = 1 /\ seen = Quoting!Nothing
  <2>1. CASE seen # Quoting!Nothing
    <3>1. \A q \in Quoting!Quotes :
            \E d \in Quoting!Directions : seen[d] > 0 /\ q = Quoting!Closing(d)
      BY <2>1 DEF Quoting!Quotes
    <3>2. \A d \in Quoting!Directions : seen[d] > 0 =>
            /\ Quoting!Closing(d) \in Quoting!Quote
            /\ Quoting!Closing(d).tick = quoteTicks /\ Quoting!Closing(d).closes
      BY <1>2 DEF Quoting!Closing, Quoting!Quote, Quoting!TypeOK
    <3> QED BY <3>1, <3>2
  <2>2. CASE seen = Quoting!Nothing
    <3>1. \A q \in Quoting!Quotes : \E d \in Quoting!Directions : q = Quoting!Opening(d)
      BY <2>2 DEF Quoting!Quotes
    <3>2. \A d \in Quoting!Directions :
            /\ Quoting!Opening(d) \in Quoting!Quote
            /\ Quoting!Opening(d).tick = quoteTicks /\ Quoting!Opening(d).vol = 1
      BY <1>2 DEF Quoting!Opening, Quoting!Quote
    <3> QED BY <2>2, <3>1, <3>2
  <2> QED BY <2>1, <2>2
<1>4. Quoting!TypeOK'
  BY <1>1, <1>3 DEF Quoting!TypeOK
<1>5. \A q \in pending \cup resting : q.tick \in Int /\ q.tick < quoteTicks
  BY <1>1, <1>2, QuotesAre DEF QuotesOK
<1>6. QuotesOK'
  <2>1. \A q \in pending' \cup resting' : q.tick <= quoteTicks /\ (~ q.closes => q.vol = 1)
    BY <1>1, <1>2, <1>3, <1>5 DEF QuotesOK
  <2>2. \A q \in pending' : ~ q.closes => q \notin resting'
    BY <1>1, <1>2, <1>3, <1>5 DEF QuotesOK
  <2> QED BY <1>1, <1>2, <2>1, <2>2 DEF QuotesOK
<1>7. ASSUME NEW d \in Quoting!Directions
      PROVE  /\ Cardinality(Late(d)') <= slips'
             /\ held'[d] + Cardinality(Late(d)') + Due(d)'
                  <= slips' + (IF stage' # "idle" /\ seen' = Quoting!Nothing THEN 1 ELSE 2)
  <2>1. Late(d)' = Late(d)
    BY <1>1, <1>2 DEF Late
  <2>2. Due(d)' \in 0 .. 1 /\ (seen # Quoting!Nothing => Due(d)' = 0)
    <3>1. CASE QuoteAt(quoteTicks, d) \in pending' \cup resting'
      <4>1. QuoteAt(quoteTicks, d).tick = quoteTicks /\ ~ QuoteAt(quoteTicks, d).closes
        BY DEF QuoteAt
      <4>2. QuoteAt(quoteTicks, d) \in Quoting!Quotes
        BY <1>1, <1>2, <1>5, <3>1, <4>1
      <4> QED BY <1>3, <4>1, <4>2 DEF Due
    <3>2. CASE QuoteAt(quoteTicks, d) \notin pending' \cup resting'
      BY <1>2, <3>2 DEF Due
    <3> QED BY <3>1, <3>2
  <2>3. Cardinality(Late(d)) \in Nat /\ Due(d) \in 0 .. 1 /\ held[d] \in Nat /\ slips \in Nat
    BY LateIsFinite DEF Quoting!TypeOK, Quoting!DilutionAssumption
  <2>4. /\ Cardinality(Late(d)) <= slips
        /\ held[d] + Cardinality(Late(d)) + Due(d)
             <= slips + (IF seen = Quoting!Nothing THEN 1 ELSE 2)
    BY <1>1 DEF ExposureOK
  <2> QED BY <1>1, <2>1, <2>2, <2>3, <2>4
<1> QED BY <1>4, <1>6, <1>7 DEF ExposureOK

LEMMA SubmitKeeps ==
  ASSUME Quoting!DilutionAssumption, DilutionInv, NEW q \in pending,
         Quoting!Submit(q) PROVE DilutionInv'
<1> USE DEF DilutionInv
<1>1. /\ pending' = pending \ {q} /\ resting' = resting \cup {q}
      /\ UNCHANGED <<held, quoteTicks, stage, seen>> /\ Quoting!Cleared' = Quoting!Cleared
      /\ IF q.tick < Quoting!Cleared THEN Quoting!Slip ELSE slips' = slips
  BY DEF Quoting!Submit, Quoting!Cleared
<1>2. Quoting!TypeOK'
  BY <1>1 DEF Quoting!TypeOK, Quoting!Slip, Quoting!DilutionAssumption
<1>3. q \in Quoting!Quote /\ q.tick \in 1 .. QuoteTicks /\ q.tick <= Quoting!Cleared
      /\ (~ q.closes => q = QuoteAt(q.tick, q.dir))
  BY QuotesAre
<1>4. QuotesOK'
  BY <1>1 DEF QuotesOK
<1>5. ASSUME NEW d \in Quoting!Directions
      PROVE  /\ Cardinality(Late(d)') <= slips'
             /\ held'[d] + Cardinality(Late(d)') + Due(d)'
                  <= slips' + (IF stage' # "idle" /\ seen' = Quoting!Nothing THEN 1 ELSE 2)
  <2>1. Due(d)' = Due(d)
    BY <1>1 DEF Due
  <2>2. CASE q.tick < Quoting!Cleared
    <3>1. Late(d)' \subseteq Late(d) \cup {q.tick}
      BY <1>1 DEF Late, QuoteAt
    <3>2. Cardinality(Late(d)) \in Nat /\ Due(d) \in 0 .. 1 /\ held[d] \in Nat /\ slips \in Nat
      BY LateIsFinite DEF Quoting!TypeOK, Quoting!DilutionAssumption
    <3>3. IsFiniteSet(Late(d) \cup {q.tick})
          /\ Cardinality(Late(d) \cup {q.tick}) <= Cardinality(Late(d)) + 1
      <4>1. IsFiniteSet(Late(d))
        BY LateIsFinite
      <4>2. ASSUME NEW x
            PROVE  /\ IsFiniteSet(Late(d) \cup {x})
                   /\ Cardinality(Late(d) \cup {x}) <= Cardinality(Late(d)) + 1
        BY ONLY <3>2, <4>1, FS_AddElement
      <4> QED BY <4>2
    <3>4. Cardinality(Late(d)') <= Cardinality(Late(d) \cup {q.tick})
          /\ Cardinality(Late(d)') \in Nat /\ Cardinality(Late(d) \cup {q.tick}) \in Nat
      BY <3>1, <3>3, FewerMembers
    <3>5. slips' = slips + 1
      BY <1>1, <2>2 DEF Quoting!Slip
    <3>6. /\ Cardinality(Late(d)) <= slips
          /\ held[d] + Cardinality(Late(d)) + Due(d)
               <= slips + (IF stage # "idle" /\ seen = Quoting!Nothing THEN 1 ELSE 2)
      BY DEF ExposureOK
    <3> QED BY <1>1, <2>1, <3>2, <3>3, <3>4, <3>5, <3>6
  <2>3. CASE ~ (q.tick < Quoting!Cleared)
    <3>1. Late(d)' \subseteq Late(d)
      BY <1>1, <2>3 DEF Late, QuoteAt
    <3> QED BY <1>1, <1>2, <2>1, <2>3, <3>1, LessKeeps, LateIsFinite DEF Quoting!TypeOK,
           Quoting!DilutionAssumption
  <2> QED BY <2>2, <2>3
<1> QED BY <1>2, <1>4, <1>5 DEF ExposureOK

LEMMA FillKeeps ==
  ASSUME Quoting!DilutionAssumption, DilutionInv, NEW q \in resting,
         Quoting!Fill(q) PROVE DilutionInv'
<1> USE DEF DilutionInv
<1>1. PICK v \in 1 .. q.vol :
        /\ q.closes => v <= held[q.dir]
        /\ held' = [held EXCEPT ![q.dir] = IF q.closes THEN @ - v ELSE @ + v]
        /\ resting' = (resting \ {q}) \cup (IF v < q.vol THEN {[q EXCEPT !.vol = @ - v]} ELSE {})
        /\ UNCHANGED <<pending, quoteTicks, stage, seen, slips>>
  BY DEF Quoting!Fill
<1>2. /\ q \in Quoting!Quote /\ q.tick \in 1 .. QuoteTicks
      /\ q.tick <= Quoting!Cleared /\ q.dir \in Quoting!Directions
      /\ q.vol \in Nat \ {0} /\ (~ q.closes => q = QuoteAt(q.tick, q.dir))
  BY QuotesAre
<1>3. Quoting!Cleared' = Quoting!Cleared /\ v \in Nat \ {0} /\ v <= q.vol
  BY <1>1, <1>2 DEF Quoting!Cleared
<1>4. CASE q.closes
  <2> DEFINE rest == [q EXCEPT !.vol = @ - v]
  <2>1. v < q.vol => rest \in Quoting!Quote /\ rest.closes /\ rest.tick = q.tick
    BY <1>2, <1>3, <1>4 DEF Quoting!Quote
  <2>2. /\ resting' \subseteq resting \cup {rest}
        /\ \A p \in resting' : p \in resting \/ (p = rest /\ v < q.vol)
    BY <1>1
  <2> HIDE DEF rest
  <2>3. held[q.dir] \in Nat /\ held'[q.dir] \in Nat /\ held'[q.dir] <= held[q.dir]
    BY <1>1, <1>2, <1>3, <1>4 DEF Quoting!TypeOK
  <2>4. Quoting!TypeOK'
    <3>1. held' \in [Quoting!Directions -> Nat]
      BY <1>1, <1>2, <1>3, <1>4 DEF Quoting!TypeOK
    <3> QED BY <1>1, <2>1, <2>2, <3>1 DEF Quoting!TypeOK
  <2>5. QuotesOK'
    <3>1. \A p \in resting' : \/ p \in resting
                              \/ p.closes /\ p.tick = q.tick
      BY <2>1, <2>2
    <3> QED BY <1>1, <1>3, <3>1 DEF QuotesOK
  <2>6. ASSUME NEW d \in Quoting!Directions
        PROVE  Late(d)' \subseteq Late(d) /\ Due(d)' <= Due(d) /\ held'[d] <= held[d]
    <3>1. \A k : QuoteAt(k, d) \in resting' => QuoteAt(k, d) \in resting
      BY <2>1, <2>2 DEF QuoteAt
    <3>2. Late(d)' \subseteq Late(d) /\ Due(d)' <= Due(d)
      BY <1>1, <1>3, <3>1 DEF Late, Due
    <3>3. held'[d] <= held[d]
      BY <1>1, <2>3 DEF Quoting!TypeOK
    <3> QED BY <3>2, <3>3
  <2>7. slips <= slips' /\ UNCHANGED <<stage, seen>>
    BY <1>1 DEF Quoting!TypeOK, Quoting!DilutionAssumption
  <2> QED BY <2>4, <2>5, <2>6, <2>7, LessKeeps DEF ExposureOK
<1>5. CASE ~ q.closes
  <2>1. q = QuoteAt(q.tick, q.dir) /\ q.vol = 1 /\ v = 1
    BY <1>2, <1>3, <1>5 DEF QuotesOK
  <2>2. /\ resting' = resting \ {q} /\ held' = [held EXCEPT ![q.dir] = @ + 1]
        /\ q \notin pending
    BY <1>1, <1>5, <2>1 DEF QuotesOK
  <2>3. Quoting!TypeOK'
    BY <1>1, <1>2, <2>2 DEF Quoting!TypeOK
  <2>4. QuotesOK'
    BY <1>1, <1>3, <2>2 DEF QuotesOK
  <2>5. ASSUME NEW d \in Quoting!Directions
        PROVE  /\ Cardinality(Late(d)') <= slips'
               /\ held'[d] + Cardinality(Late(d)') + Due(d)'
                    <= slips' + (IF stage' # "idle" /\ seen' = Quoting!Nothing THEN 1 ELSE 2)
    <3>1. /\ Late(d)' \subseteq Late(d) /\ Due(d)' <= Due(d)
          /\ slips <= slips' /\ UNCHANGED <<stage, seen>>
      BY <1>1, <1>3, <2>2 DEF Late, Due, Quoting!TypeOK, Quoting!DilutionAssumption
    <3>2. CASE d # q.dir
      <4>1. held'[d] <= held[d]
        BY <1>2, <2>2, <3>2 DEF Quoting!TypeOK
      <4> QED BY <2>3, <3>1, <4>1, LessKeeps
    <3>3. CASE d = q.dir
      <4>1. Cardinality(Late(d)) \in Nat /\ Due(d) \in 0 .. 1 /\ held[d] \in Nat /\ slips \in Nat
            /\ Cardinality(Late(d)') \in Nat /\ Cardinality(Late(d)') <= Cardinality(Late(d))
            /\ Due(d)' \in 0 .. 1
        BY <3>1, LateIsFinite, FewerMembers DEF Quoting!TypeOK, Quoting!DilutionAssumption, Due
      <4>2. held'[d] = held[d] + 1
        BY <2>2, <3>3 DEF Quoting!TypeOK
      <4>3. Cardinality(Late(d)') + Due(d)' <= Cardinality(Late(d)) + Due(d) - 1
        <5>1. CASE q.tick < Quoting!Cleared
          <6>1. q.tick \in Late(d) /\ Late(d)' = Late(d) \ {q.tick}
            <7>1. QuoteAt(q.tick, d) = q
              BY <2>1, <3>3
            <7>2. \A k \in Int : QuoteAt(k, d) \in resting'
                                <=> QuoteAt(k, d) \in resting /\ k # q.tick
              BY <1>2, <2>1, <2>2, <3>3 DEF QuoteAt
            <7> QED BY <1>2, <1>3, <5>1, <7>1, <7>2 DEF Late
          <6>2. Cardinality(Late(d)') = Cardinality(Late(d)) - 1
            BY <6>1, LateIsFinite, FS_RemoveElement
          <6> QED BY <3>1, <4>1, <6>2
        <5>2. CASE ~ (q.tick < Quoting!Cleared)
          <6>1. q.tick = Quoting!Cleared
            BY <1>2, <5>2 DEF Quoting!Cleared, Quoting!TypeOK, Quoting!DilutionAssumption
          <6>2. Due(d) = 1 /\ Due(d)' = 0
            BY <1>1, <1>3, <2>1, <2>2, <3>3, <6>1 DEF Due
          <6> QED BY <4>1, <6>2
        <5> QED BY <5>1, <5>2
      <4>4. /\ Cardinality(Late(d)) <= slips
            /\ held[d] + Cardinality(Late(d)) + Due(d)
                 <= slips + (IF stage # "idle" /\ seen = Quoting!Nothing THEN 1 ELSE 2)
        BY DEF ExposureOK
      <4> QED BY <1>1, <4>1, <4>2, <4>3, <4>4
    <3> QED BY <3>2, <3>3
  <2> QED BY <2>3, <2>4, <2>5 DEF ExposureOK
<1> QED BY <1>4, <1>5

LEMMA WithdrawKeeps ==
  ASSUME Quoting!DilutionAssumption, DilutionInv, NEW q \in pending \cup resting,
         Quoting!Withdraw(q)
  PROVE  DilutionInv'
<1> USE DEF DilutionInv
<1>1. /\ pending' = pending \ {q} /\ resting' = resting \ {q} /\ Quoting!Cleared' = Quoting!Cleared
      /\ UNCHANGED <<held, quoteTicks, stage, seen, slips>>
  BY DEF Quoting!Withdraw, Quoting!Cleared
<1>2. Quoting!TypeOK' /\ QuotesOK'
  BY <1>1 DEF Quoting!TypeOK, QuotesOK
<1>3. \A d \in Quoting!Directions : /\ Late(d)' \subseteq Late(d) /\ Due(d)' <= Due(d)
                                    /\ held'[d] <= held[d] /\ slips <= slips'
  BY <1>1 DEF Late, Due, Quoting!TypeOK, Quoting!DilutionAssumption
<1> QED BY <1>1, <1>2, <1>3, LessKeeps DEF ExposureOK

LEMMA CloseOutKeeps ==
  ASSUME Quoting!DilutionAssumption, DilutionInv, NEW e \in Quoting!Directions,
         Quoting!CloseOut(e) PROVE DilutionInv'
<1> USE DEF DilutionInv
<1>1. /\ held' = [held EXCEPT ![e] = 0] /\ Quoting!Cleared' = Quoting!Cleared
      /\ UNCHANGED <<pending, resting, quoteTicks, stage, seen, slips>>
  BY DEF Quoting!CloseOut, Quoting!Cleared
<1>2. Quoting!TypeOK' /\ QuotesOK'
  BY <1>1 DEF Quoting!TypeOK, QuotesOK
<1>3. \A d \in Quoting!Directions : /\ Late(d)' \subseteq Late(d) /\ Due(d)' <= Due(d)
                                    /\ held'[d] <= held[d] /\ slips <= slips'
  BY <1>1 DEF Late, Due, Quoting!TypeOK, Quoting!DilutionAssumption
<1> QED BY <1>1, <1>2, <1>3, LessKeeps DEF ExposureOK

LEMMA StepKeepsDilution ==
  ASSUME Quoting!DilutionAssumption, DilutionInv, [Quoting!Next]_(Quoting!vars) PROVE DilutionInv'
<1>1. CASE UNCHANGED Quoting!vars
  BY <1>1 DEF Quoting!vars, DilutionInv, Quoting!TypeOK, QuotesOK, ExposureOK, Late, Due,
         Quoting!Cleared
<1> QED BY <1>1, ResolveKeeps, CancelKeeps, GenerateKeeps, SubmitKeeps, FillKeeps, WithdrawKeeps,
           CloseOutKeeps DEF Quoting!Next

\* What a direction holds, and what may still fill in it, is bounded at every
\* instant of a tick.
THEOREM DilutionInvariant == ASSUME Quoting!DilutionAssumption PROVE Quoting!Spec => []DilutionInv
<1>1. Quoting!Init => DilutionInv
  BY DilutionInit
<1>2. DilutionInv /\ [Quoting!Next]_(Quoting!vars) => DilutionInv'
  BY StepKeepsDilution
<1> QED BY <1>1, <1>2, PTL DEF Quoting!Spec

\* The job never holds more than two quotes of a direction, and one more for
\* every slip, for any number of ticks and slips (processExchange).
THEOREM ExposureIsBounded ==
  ASSUME Quoting!DilutionAssumption PROVE Quoting!Spec => []ExposureBounded
<1>1. ASSUME DilutionInv PROVE ExposureBounded
  <2> SUFFICES ASSUME NEW d \in Quoting!Directions PROVE held[d] <= 2 + slips
    BY DEF ExposureBounded, Quoting!ExposureBounded
  <2>1. Cardinality(Late(d)) \in Nat /\ Due(d) \in 0 .. 1 /\ held[d] \in Nat /\ slips \in Nat
    BY <1>1, LateIsFinite DEF DilutionInv, Quoting!TypeOK, Quoting!DilutionAssumption
  <2> QED BY <1>1, <2>1 DEF DilutionInv, ExposureOK
<1> QED BY <1>1, DilutionInvariant, PTL

-----------------------------------------------------------------------------
(* Side by side                                                            *)

\* A behaviour of the strategies side by side is one of each: what is proved of
\* a part holds of the whole.
THEOREM EachIsAPart == EachSpec => Spec /\ Quoting!Spec /\ Walls!Spec
<1>1. EachSpec => EachInit /\ [][EachNext]_allVars
  BY PTL DEF EachSpec
<1>2. EachInit => Init /\ Quoting!Init /\ Walls!Init
  BY DEF EachInit
<1>3. [EachNext]_allVars => /\ [Next]_vars
                            /\ [Quoting!Next]_(Quoting!vars)
                            /\ [Walls!Next]_(Walls!vars)
  <2> SUFFICES ASSUME [EachNext]_allVars
               PROVE  [Next]_vars /\ [Quoting!Next]_(Quoting!vars) /\ [Walls!Next]_(Walls!vars)
    OBVIOUS
  <2> USE DEF Quoting!vars, Walls!vars, quoteVars, wallVars, allVars
  <2>1. CASE FundingStep(Next)
    BY <2>1 DEF FundingStep
  <2>2. CASE QuoteStep(Quoting!Next)
    BY <2>2 DEF QuoteStep
  <2>3. CASE WallStep(Walls!Next)
    BY <2>3 DEF WallStep
  <2>4. CASE UNCHANGED allVars
    BY <2>4
  <2> QED BY <2>1, <2>2, <2>3, <2>4 DEF EachNext
<1> QED BY <1>1, <1>2, <1>3, PTL DEF Spec, Quoting!Spec, Walls!Spec
=============================================================================
