------------------------ MODULE OrderLifecycleProofs ------------------------
(***************************************************************************)
(* Proofs about the life of one order: that its aggregate keeps up with    *)
(* its log, that it is not submitted after its end, and that the order     *)
(* manager implements OrderPromise.                                        *)
(***************************************************************************)
EXTENDS OrderManagerProofs, OrderManagerPromise

-----------------------------------------------------------------------------
(* What one step may do to the pipeline of a request *)

\* Work that is added next to the messages published: a handler of r that goes on,
\* a callback or a call of r, or a push to a request that listens.
Aside(r, more) == \A m \in more :
    /\ TaskOK(m)
    /\ m.h \in Subscriptions => m.p # "start"
    /\ m.r = r \/ (m.h = "Push" /\ m.r \in listeners)

\* The state to which an event of r is applied: that of the aggregate, or the
\* one in which the handler that publishes it started.
Source(r, s, gone) == s = state[r] \/ \E t \in tasks \cap gone : t.r = r /\ s = Received(t)

\* A step for r records an event with one of the topics S, or none.
Moves(r, S) ==
    \/ \E s, e, gone, more :
          /\ Source(r, s, gone) /\ EventOK(e) /\ e.topic \in S
          /\ Aside(r, more) /\ (\A t \in gone : t.r = r)
          /\ Emit(r, s, e, gone, more)
    \/ \E t, more :
          /\ t.r = r /\ (t \in tasks \/ t.p # "start")
          /\ Aside(r, more) /\ Continue(t, more)
    \/ \E more : Aside(r, more) /\ tasks' = tasks \cup more /\ UNCHANGED <<state, log>>

\* A handler that publishes.
LEMMA PublishMoves ==
    ASSUME NEW r, NEW S, NEW t \in tasks, t.r = r, NEW e, EventOK(e), e.topic \in S,
           NEW more, Aside(r, more), Publish(t, e, more)
    PROVE  Moves(r, S)
  <1>1. Source(r, Received(t), {t})  BY DEF Source
  <1>2. Emit(r, Received(t), e, {t}, more)  BY DEF Publish
  <1>3. \A u \in {t} : u.r = r  OBVIOUS
  <1> QED  BY <1>1, <1>2, <1>3 DEF Moves

\* A call or a timer that publishes.
LEMMA EmitMoves ==
    ASSUME NEW r, NEW S, NEW e, EventOK(e), e.topic \in S, Emit(r, state[r], e, {}, {})
    PROVE  Moves(r, S)
  <1>1. Source(r, state[r], {}) /\ Aside(r, {})  BY DEF Source, Aside
  <1> QED  BY <1>1 DEF Moves

\* A handler that goes on without publishing.
LEMMA ContinueMoves ==
    ASSUME NEW r, NEW S, NEW t, t.r = r, t \in tasks \/ t.p # "start",
           NEW more, Aside(r, more), Continue(t, more)
    PROVE  Moves(r, S)
  BY DEF Moves

\* Work that is only added.
LEMMA AddMoves ==
    ASSUME NEW r, NEW S, NEW more, Aside(r, more), tasks' = tasks \cup more,
           state' = state, log' = log
    PROVE  Moves(r, S)
  BY DEF Moves

\* A step that leaves the pipeline alone.
LEMMA StillMoves ==
    ASSUME NEW r, NEW S, UNCHANGED <<tasks, state, log>> PROVE Moves(r, S)
  <1>1. tasks' = tasks \cup {} /\ Aside(r, {})  BY DEF Aside
  <1> QED  BY <1>1, AddMoves

\* Nothing, a handler that goes on in another phase, a task of a callback or a call.
LEMMA NothingAside == \A r : Aside(r, {})
  BY DEF Aside
\* A handler in another phase.
LEMMA GotoAside ==
    ASSUME NEW t, TaskOK(t), NEW p \in Phases \ {"start"}, NEW n \in Nat, NEW d \in Data,
           p = "poll" => d \in OrderViews, p = "enrich" => d \in Outcomes
    PROVE  Aside(t.r, Goto(t, p, n, d))
  BY DEF Aside, Goto, Task, TaskOK, TaskType
\* A task of a callback or a call.
LEMMA WaitingAside ==
    ASSUME NEW r \in Reqs, NEW h \in Callbacks, NEW d \in Data
    PROVE  Aside(r, {Task(h, r, d, "close", 1)})
  BY DEF Aside, Task, TaskOK, TaskType, Phases
\* The pushes of the position stream.
LEMMA PushesAside ==
    ASSUME StreamOK, NEW d \in {"open", "closed", "empty"}, NEW m \in Deliveries(d), NEW r
    PROVE  Aside(r, m)
  <1>1. m \in {{}, {Task("Push", l, d, "start", 0) : l \in listeners}}
    BY DEF Deliveries
  <1>2. "Push" \notin Subscriptions  BY DEF Subscriptions, TopicOf
  <1>3. \A l \in listeners : Task("Push", l, d, "start", 0) \in TaskType
    BY DEF StreamOK, Task, TaskType, Callbacks, Phases, Data
  <1> QED  BY <1>1, <1>2, <1>3 DEF Aside, TaskOK, Task
\* Both together.
LEMMA UnionAside ==
    ASSUME NEW r, NEW a, NEW b, Aside(r, a), Aside(r, b) PROVE Aside(r, a \cup b)
  BY DEF Aside

\* abortOrder publishes once.
LEMMA AbortMoves ==
    ASSUME NEW r, NEW S, "Aborted" \in S, NEW t \in tasks, t.r = r, AbortOrder(t)
    PROVE  Moves(r, S)
  <1>1. EventOK(Plain("Aborted")) /\ Plain("Aborted").topic = "Aborted"
    BY Topical, PlainEvents DEF Plain, Event
  <1> QED  BY <1>1, PublishMoves, NothingAside DEF AbortOrder

\* A handler that publishes an event without data.
LEMMA PlainMoves ==
    ASSUME NEW r, NEW topic \in Topics \ {"Completed", "TradeRecord"}, NEW S, topic \in S,
           NEW t \in tasks, t.r = r, Publish(t, Plain(topic), {})
    PROVE  Moves(r, S)
  <1>1. EventOK(Plain(topic)) /\ Plain(topic).topic = topic
    BY PlainEvents DEF Plain, Event
  <1> QED  BY <1>1, PublishMoves, NothingAside

\* A market close.
LEMMA MarketCloseMoves ==
    ASSUME IInv, NEW r, NEW S, NEW t, t.r = r, t \in tasks \/ t.p # "start",
           NEW more, Aside(r, more), MarketClose(t, more)
    PROVE  Moves(r, S)
  <1>1. PICK m : Aside(r, m) /\ Continue(t, more \cup m)
    <2>1. \A m \in Deliveries("closed") : Aside(r, m)  BY PushesAside DEF IInv
    <2>2. more \cup {} = more  OBVIOUS
    <2> QED  BY <2>1, <2>2, NothingAside DEF MarketClose
  <1> QED  BY <1>1, UnionAside, ContinueMoves

-----------------------------------------------------------------------------
(* The moves of the handlers *)

\* The pipeline up to the submission.
LEMMA FireMoves ==
    ASSUME IInv, NEW r \in Reqs
    PROVE  /\ Dispatch(r) => Moves(r, {"Intent"})
           /\ PreFlight(r) => Moves(r, {"PreFlightDone", "Aborted"})
           /\ PositionWatchReady(r) => Moves(r, {"PositionWatchReady"})
           /\ FireTiming(r) => Moves(r, {"FireWindowReached"})
           /\ SubmitReply(r) => Moves(r, {"Submitted", "Aborted"})
  <1>1. ASSUME Dispatch(r) PROVE Moves(r, {"Intent"})
    <2>1. EventOK(Plain("Intent")) /\ Plain("Intent").topic = "Intent"
      BY Topical, PlainEvents DEF Plain, Event
    <2> QED  BY <1>1, <2>1, EmitMoves DEF Dispatch
  <1>2. ASSUME PreFlight(r) PROVE Moves(r, {"PreFlightDone", "Aborted"})
    <2>1. PICK t \in Ready("PreFlight", r) :
             Publish(t, Plain("PreFlightDone"), {}) \/ AbortOrder(t)
      BY <1>2 DEF PreFlight
    <2>2. t \in tasks /\ t.r = r  BY HandlerTask DEF IInv
    <2> QED  BY <2>1, <2>2, PlainMoves, AbortMoves, Topical
  <1>3. ASSUME PositionWatchReady(r) PROVE Moves(r, {"PositionWatchReady"})
    <2>1. PICK t \in Ready("WatchReady", r) : Publish(t, Plain("PositionWatchReady"), {})
      BY <1>3 DEF PositionWatchReady
    <2>2. t \in tasks /\ t.r = r  BY HandlerTask DEF IInv
    <2> QED  BY <2>1, <2>2, PlainMoves, Topical
  <1>4. ASSUME FireTiming(r) PROVE Moves(r, {"FireWindowReached"})
    <2>1. PICK t \in Ready("FireTiming", r) : Publish(t, Plain("FireWindowReached"), {})
      BY <1>4 DEF FireTiming
    <2>2. t \in tasks /\ t.r = r  BY HandlerTask DEF IInv
    <2> QED  BY <2>1, <2>2, PlainMoves, Topical
  <1>5. ASSUME SubmitReply(r) PROVE Moves(r, {"Submitted", "Aborted"})
    <2>1. PICK t \in At("Execute", r, "reply") :
             Publish(t, Plain("Submitted"), {}) \/ AbortOrder(t)
      BY <1>5 DEF SubmitReply
    <2>2. t \in tasks /\ t.r = r  BY HandlerTask DEF IInv
    <2> QED  BY <2>1, <2>2, PlainMoves, AbortMoves, Topical
  <1> QED  BY <1>1, <1>2, <1>3, <1>4, <1>5

\* The submission itself publishes nothing before its reply.
LEMMA ExecuteMoves ==
    ASSUME IInv, NEW r \in Reqs, ExecuteOrder(r) PROVE Moves(r, {})
  <1>1. PICK t \in Ready("Execute", r) :
          \E reply \in {"ok", "error"}, m \in {{}} \cup Deliveries(PushOf(position')) :
             Continue(t, Goto(t, "reply", 1, reply) \cup m)
    <2>1. \A t, reply : Goto(t, "reply", 1, reply) \cup {} = Goto(t, "reply", 1, reply)
      OBVIOUS
    <2> QED  BY <2>1 DEF ExecuteOrder
  <1>2. t \in tasks /\ TaskOK(t) /\ t.r = r  BY HandlerTask DEF IInv
  <1>3. \A reply \in {"ok", "error"} : Aside(r, Goto(t, "reply", 1, reply))
    BY <1>2, GotoAside DEF Phases, Data
  <1>4. \A m \in {{}} \cup Deliveries(PushOf(position')) : Aside(r, m)
    BY PushesAside, NothingAside DEF PushOf, IInv
  <1>5. \E more : Aside(r, more) /\ Continue(t, more)
    BY <1>1, <1>3, <1>4, UnionAside
  <1> QED  BY <1>2, <1>5, ContinueMoves

\* After the submission: TP/SL, timeouts and outcome.
LEMMA WatchMoves ==
    ASSUME IInv, NEW r \in Reqs
    PROVE  /\ TPSLSubmission(r) => Moves(r, {"TPSLDispatched"})
           /\ ScheduleUnfilledCancelTimeout(r) \/ SchedulePositionCloseTimeout(r) => Moves(r, {})
           /\ OutcomeWatcher(r) => Moves(r, {})
           /\ PollOrder(r) => Moves(r, {"OutcomeResolved"})
           /\ ResolveOutcome(r) => Moves(r, {})
  <1>1. ASSUME TPSLSubmission(r) PROVE Moves(r, {"TPSLDispatched"})
    <2>1. PICK t \in Ready("TPSL", r) : Publish(t, Plain("TPSLDispatched"), {}) \/ Continue(t, {})
      BY <1>1 DEF TPSLSubmission
    <2>2. t \in tasks /\ t.r = r  BY HandlerTask DEF IInv
    <2> QED  BY <2>1, <2>2, PlainMoves, ContinueMoves, NothingAside, Topical
  <1>2. ASSUME ScheduleUnfilledCancelTimeout(r) \/ SchedulePositionCloseTimeout(r)
        PROVE  Moves(r, {})
    <2>1. PICK t \in Ready("ScheduleTimeout", r) \cup Ready("ScheduleClose", r) : Continue(t, {})
      BY <1>2 DEF ScheduleUnfilledCancelTimeout, SchedulePositionCloseTimeout
    <2>2. t \in tasks /\ t.r = r  BY HandlerTask DEF IInv
    <2> QED  BY <2>1, <2>2, ContinueMoves, NothingAside
  <1>3. ASSUME OutcomeWatcher(r) PROVE Moves(r, {})
    <2>1. PICK t \in Ready("OutcomeWatcher", r) : Continue(t, Goto(t, "poll", 1, "nil"))
      BY <1>3 DEF OutcomeWatcher
    <2>2. t \in tasks /\ t.r = r /\ TaskOK(t)  BY HandlerTask DEF IInv
    <2>3. Aside(r, Goto(t, "poll", 1, "nil"))
      BY <2>2, GotoAside DEF Phases, Data, OrderViews
    <2> QED  BY <2>1, <2>2, <2>3, ContinueMoves
  <1>4. ASSUME PollOrder(r) PROVE Moves(r, {"OutcomeResolved"})
    <2>1. PICK t \in At("OutcomeWatcher", r, "poll") :
             \E v \in OrderInfo(r) \cup {t.d} :
                \/ Publish(t, Event("OutcomeResolved", ClassifyOrderOutcome[v]), {})
                \/ Continue(t, Goto(t, "poll", t.n + 1, v))
      BY <1>4 DEF PollOrder
    <2>2. t \in tasks /\ t.r = r /\ TaskOK(t) /\ t.p = "poll"  BY HandlerTask DEF IInv, At
    <2>3. OrderInfo(r) \cup {t.d} \subseteq OrderViews
      BY <2>2 DEF OrderInfo, OrderViews, TaskOK
    <2>4. \A v \in OrderViews : EventOK(Event("OutcomeResolved", ClassifyOrderOutcome[v]))
      BY Classified, OutcomeEvents, Topical
    <2>5. \A v \in OrderViews : Aside(r, Goto(t, "poll", t.n + 1, v))
      BY <2>2, GotoAside DEF Phases, Data, TaskOK, TaskType
    <2>6. \A v : Event("OutcomeResolved", ClassifyOrderOutcome[v]).topic = "OutcomeResolved"
      BY DEF Event
    <2> QED
      BY <2>1, <2>2, <2>3, <2>4, <2>5, <2>6, PublishMoves, ContinueMoves, NothingAside
  <1>5. ASSUME ResolveOutcome(r) PROVE Moves(r, {})
    <2>1. PICK t \in Ready("ResolveOutcome", r) :
             \/ t.d \in {"canceled_no_fill", "unknown", "filled"} /\ Continue(t, Goto(t, "enrich", 1, t.d))
             \/ Continue(t, {})
      BY <1>5 DEF ResolveOutcome
    <2>2. t \in tasks /\ t.r = r /\ TaskOK(t)  BY HandlerTask DEF IInv
    <2>3. t.d \in {"canceled_no_fill", "unknown", "filled"} => Aside(r, Goto(t, "enrich", 1, t.d))
      BY <2>2, GotoAside DEF Phases, Data, Outcomes
    <2> QED  BY <2>1, <2>2, <2>3, ContinueMoves, NothingAside
  <1> QED  BY <1>1, <1>2, <1>3, <1>4, <1>5

\* The timers and what they start.
LEMMA TimerMoves ==
    ASSUME IInv, NEW r \in Reqs
    PROVE  /\ CancelTimerFires(r) => Moves(r, {})
           /\ CancelRestingOrderOnTimeout(r) => Moves(r, {"OutcomeResolved"})
           /\ CloseTimerFires(r) => Moves(r, {"TimeoutScheduled"})
           /\ WaitTimeoutDeadline(r) => Moves(r, {"TimeoutPositionChecked"})
           /\ TimeoutNoPosition(r) => Moves(r, {})
           /\ TimeoutBailout(r) => Moves(r, {})
  <1>1. ASSUME CancelTimerFires(r) PROVE Moves(r, {})
    <2>1. PICK more : Aside(r, more) /\ tasks' = tasks \cup more
      BY <1>1, WaitingAside, NothingAside DEF CancelTimerFires, Callbacks, Data
    <2> QED  BY <1>1, <2>1, AddMoves DEF CancelTimerFires
  <1>2. ASSUME CancelRestingOrderOnTimeout(r) PROVE Moves(r, {"OutcomeResolved"})
    <2>1. PICK t \in At("CancelTimer", r, "close") :
             Publish(t, Event("OutcomeResolved", "canceled_no_fill"), {})
      BY <1>2 DEF CancelRestingOrderOnTimeout
    <2>2. t \in tasks /\ t.r = r  BY HandlerTask DEF IInv
    <2>3. /\ EventOK(Event("OutcomeResolved", "canceled_no_fill"))
          /\ Event("OutcomeResolved", "canceled_no_fill").topic = "OutcomeResolved"
      BY OutcomeEvents, Topical DEF Event, Outcomes
    <2> QED  BY <2>1, <2>2, <2>3, PublishMoves, NothingAside
  <1>3. ASSUME CloseTimerFires(r) PROVE Moves(r, {"TimeoutScheduled"})
    <2>1. EventOK(Plain("TimeoutScheduled")) /\ Plain("TimeoutScheduled").topic = "TimeoutScheduled"
      BY Topical, PlainEvents DEF Plain, Event
    <2> QED  BY <1>3, <2>1, EmitMoves DEF CloseTimerFires
  <1>4. ASSUME WaitTimeoutDeadline(r) PROVE Moves(r, {"TimeoutPositionChecked"})
    <2>1. PICK t \in Ready("WaitDeadline", r), held \in {"hold", "none"} :
             Publish(t, Event("TimeoutPositionChecked", held), {})
      BY <1>4 DEF WaitTimeoutDeadline
    <2>2. t \in tasks /\ t.r = r  BY HandlerTask DEF IInv
    <2>3. /\ EventOK(Event("TimeoutPositionChecked", held))
          /\ Event("TimeoutPositionChecked", held).topic = "TimeoutPositionChecked"
      BY Topical DEF EventOK, EventType, Event, Data
    <2> QED  BY <2>1, <2>2, <2>3, PublishMoves, NothingAside
  <1>5. ASSUME TimeoutNoPosition(r) PROVE Moves(r, {})
    <2>1. PICK t \in Ready("PositionChecked", r) :
             \/ Continue(t, {})
             \/ \E o \in {"filled", "canceled_no_fill"} : Continue(t, Goto(t, "enrich", 1, o))
      BY <1>5 DEF TimeoutNoPosition
    <2>2. t \in tasks /\ t.r = r /\ TaskOK(t)  BY HandlerTask DEF IInv
    <2>3. \A o \in {"filled", "canceled_no_fill"} : Aside(r, Goto(t, "enrich", 1, o))
      BY <2>2, GotoAside DEF Phases, Data, Outcomes
    <2> QED  BY <2>1, <2>2, <2>3, ContinueMoves, NothingAside
  <1>6. ASSUME TimeoutBailout(r) PROVE Moves(r, {})
    <2>1. PICK t \in Ready("PositionChecked", r) : MarketClose(t, Goto(t, "close", 1, "hold"))
      BY <1>6 DEF TimeoutBailout
    <2>2. t \in tasks /\ t.r = r /\ TaskOK(t)  BY HandlerTask DEF IInv
    <2>3. Aside(r, Goto(t, "close", 1, "hold"))
      BY <2>2, GotoAside DEF Phases, Data
    <2> QED  BY <2>1, <2>2, <2>3, MarketCloseMoves
  <1> QED  BY <1>1, <1>2, <1>3, <1>4, <1>5, <1>6

\* The bailout.
LEMMA BailoutMoves ==
    ASSUME IInv, NEW r \in Reqs
    PROVE  /\ BailoutAttempt(r) => Moves(r, {"BailoutExecuted"})
           /\ BailoutFails(r) => Moves(r, {"Aborted"})
  <1>1. ASSUME BailoutAttempt(r) PROVE Moves(r, {"BailoutExecuted"})
    <2>1. PICK t \in At("PositionChecked", r, "close") \cup At("Trail", r, "close") :
             \/ Publish(t, Plain("BailoutExecuted"),
                        IF t.h = "Trail" THEN {} ELSE Goto(t, "enrich", 1, "bailout"))
             \/ MarketClose(t, Goto(t, "close", t.n + 1, t.d))
             \/ Continue(t, Goto(t, "close", t.n + 1, t.d))
      BY <1>1 DEF BailoutAttempt
    <2>2. t \in tasks /\ TaskOK(t) /\ t.n \in Nat /\ t.d \in Data /\ t.r = r
      BY DEF At, IInv, PipeOK, TaskOK, TaskType
    <2>3. Aside(r, Goto(t, "close", t.n + 1, t.d))
      BY <2>2, GotoAside DEF Phases
    <2>4. Aside(r, IF t.h = "Trail" THEN {} ELSE Goto(t, "enrich", 1, "bailout"))
      BY <2>2, GotoAside, NothingAside DEF Phases, Data, Outcomes
    <2>5. EventOK(Plain("BailoutExecuted")) /\ Plain("BailoutExecuted").topic = "BailoutExecuted"
      BY Topical, PlainEvents DEF Plain, Event
    <2> QED  BY <2>1, <2>2, <2>3, <2>4, <2>5, PublishMoves, MarketCloseMoves, ContinueMoves
  <1>2. ASSUME BailoutFails(r) PROVE Moves(r, {"Aborted"})
    <2>1. PICK t \in At("PositionChecked", r, "close") \cup At("Trail", r, "close") :
             AbortOrder(t) \/ Continue(t, {})
      BY <1>2 DEF BailoutFails
    <2>2. t \in tasks /\ t.r = r  BY DEF At
    <2> QED  BY <2>1, <2>2, AbortMoves, ContinueMoves, NothingAside
  <1> QED  BY <1>1, <1>2

\* The completion.
LEMMA CompletionMoves ==
    ASSUME IInv, NEW r \in Reqs
    PROVE  /\ EnrichAndComplete(r) => Moves(r, {"Completed"})
           /\ PositionClosedDone(r) => Moves(r, {})
           /\ CompleteOrder(r) => Moves(r, {"TradeRecord"})
           /\ SaveTrade(r) => Moves(r, {})
  <1>1. ASSUME EnrichAndComplete(r) PROVE Moves(r, {"Completed"})
    <2>1. PICK t \in tasks : /\ t.p = "enrich" /\ t.r = r
                             /\ \E o \in {t.d, "canceled_no_fill"} : Publish(t, Event("Completed", o), {})
      BY <1>1 DEF EnrichAndComplete, At
    <2>2. {t.d, "canceled_no_fill"} \subseteq Outcomes
      BY <2>1 DEF IInv, PipeOK, TaskOK, Outcomes
    <2>3. \A o \in Outcomes : /\ EventOK(Event("Completed", o))
                              /\ Event("Completed", o).topic = "Completed"
      BY Topical, OutcomeEvents DEF Event
    <2> QED  BY <2>1, <2>2, <2>3, PublishMoves, NothingAside
  <1>2. ASSUME PositionClosedDone(r) PROVE Moves(r, {})
    <2>1. PICK t \in Ready("PositionClosed", r) : Continue(t, Goto(t, "enrich", 1, "filled"))
      BY <1>2 DEF PositionClosedDone
    <2>2. t \in tasks /\ t.r = r /\ TaskOK(t)  BY HandlerTask DEF IInv
    <2>3. Aside(r, Goto(t, "enrich", 1, "filled"))
      BY <2>2, GotoAside DEF Phases, Data, Outcomes
    <2> QED  BY <2>1, <2>2, <2>3, ContinueMoves
  <1>3. ASSUME CompleteOrder(r) PROVE Moves(r, {"TradeRecord"})
    <2>1. PICK t \in Ready("Complete", r) : Publish(t, Event("TradeRecord", t.d), {})
      BY <1>3 DEF CompleteOrder
    <2>2. t \in tasks /\ t.r = r /\ t.d \in Outcomes
      BY <2>1, HandlerTask DEF IInv, TaskOK, Ready
    <2>3. EventOK(Event("TradeRecord", t.d)) /\ Event("TradeRecord", t.d).topic = "TradeRecord"
      BY <2>2, Topical, OutcomeEvents DEF Event
    <2> QED  BY <2>1, <2>2, <2>3, PublishMoves, NothingAside
  <1>4. ASSUME SaveTrade(r) PROVE Moves(r, {})
    <2>1. PICK t \in Ready("SaveTrade", r) : Continue(t, {})
      BY <1>4 DEF SaveTrade
    <2>2. t \in tasks /\ t.r = r  BY HandlerTask DEF IInv
    <2> QED  BY <2>1, <2>2, ContinueMoves, NothingAside
  <1> QED  BY <1>1, <1>2, <1>3, <1>4

\* The position stream and the calls of the API.
LEMMA CallMoves ==
    ASSUME IInv, NEW r \in Reqs
    PROVE  /\ PositionFilled(r) => Moves(r, {"Filled"})
           /\ PositionClosed(r) => Moves(r, {"PositionClosed"})
           /\ CancelOrder(r) => Moves(r, {})
           /\ CancelOrderReply(r) => Moves(r, {"Canceled"})
           /\ PnLDrop(r) => Moves(r, {})
  <1>1. ASSUME PositionFilled(r) PROVE Moves(r, {"Filled"})
    <2>1. PICK t \in Ready("Push", r) : Continue(t, {}) \/ Publish(t, Plain("Filled"), {})
      BY <1>1 DEF PositionFilled
    <2>2. t \in tasks /\ t.r = r  BY HandlerTask DEF IInv
    <2> QED  BY <2>1, <2>2, PlainMoves, ContinueMoves, NothingAside, Topical
  <1>2. ASSUME PositionClosed(r) PROVE Moves(r, {"PositionClosed"})
    <2>1. PICK t \in Ready("Push", r) : Continue(t, {}) \/ Publish(t, Plain("PositionClosed"), {})
      BY <1>2 DEF PositionClosed
    <2>2. t \in tasks /\ t.r = r  BY HandlerTask DEF IInv
    <2> QED  BY <2>1, <2>2, PlainMoves, ContinueMoves, NothingAside, Topical
  <1>3. ASSUME CancelOrder(r) PROVE Moves(r, {})
    <2>1. Aside(r, {Task("CancelCall", r, "-", "close", 1)})
      BY WaitingAside DEF Callbacks, Data
    <2> QED  BY <1>3, <2>1, AddMoves DEF CancelOrder
  <1>4. ASSUME CancelOrderReply(r) PROVE Moves(r, {"Canceled"})
    <2>1. PICK t \in At("CancelCall", r, "close") : Publish(t, Plain("Canceled"), {})
      BY <1>4 DEF CancelOrderReply
    <2>2. t \in tasks /\ t.r = r  BY HandlerTask DEF IInv
    <2> QED  BY <2>1, <2>2, PlainMoves, Topical
  <1>5. ASSUME PnLDrop(r) PROVE Moves(r, {})
    <2> DEFINE t == Task("Trail", r, "hold", "close", 1)
    <2>1. Aside(r, {t})  BY WaitingAside DEF Callbacks, Data
    <2>2. t.r = r /\ t.p # "start"  BY DEF Task
    <2>3. MarketClose(t, {t})  BY <1>5 DEF PnLDrop
    <2> HIDE DEF t
    <2> QED  BY <2>1, <2>2, <2>3, MarketCloseMoves
  <1> QED  BY <1>1, <1>2, <1>3, <1>4, <1>5

\* The exchange pushes, or touches the book only.
LEMMA ExchangeMoves ==
    ASSUME IInv, NEW r
    PROVE  /\ Fill(r) \/ ExchangeCloses \/ Snapshot => Moves(r, {})
           /\ ExchangeCancels(r) \/ WatchExpires(r) \/ CancelOpenOrders => Moves(r, {})
  <1>1. ASSUME Fill(r) \/ ExchangeCloses \/ Snapshot PROVE Moves(r, {})
    <2>1. PICK m : /\ \E d \in {"open", "closed", "empty"} : m \in Deliveries(d)
                   /\ tasks' = tasks \cup m
      BY <1>1 DEF Fill, ExchangeCloses, Snapshot, PushOf
    <2>2. Aside(r, m)  BY <2>1, PushesAside DEF IInv
    <2>3. UNCHANGED <<state, log>>  BY <1>1 DEF Fill, ExchangeCloses, Snapshot
    <2> QED  BY <2>1, <2>2, <2>3, AddMoves
  <1>2. ASSUME ExchangeCancels(r) \/ WatchExpires(r) \/ CancelOpenOrders PROVE Moves(r, {})
    BY <1>2, StillMoves DEF ExchangeCancels, WatchExpires, CancelOpenOrders
  <1> QED  BY <1>1, <1>2

\* What a step for r leaves alone: the log, the state and the work of other requests.
LEMMA OthersKept ==
    ASSUME PipeOK, NEW r \in Reqs, NEW S, Moves(r, S), NEW q \in Reqs, q # r
    PROVE  /\ log'[q] = log[q] /\ state'[q] = state[q]
           /\ \A t \in tasks : t.r = q => t \in tasks'
           /\ \A t \in tasks' : t.r = q => t \in tasks \/ (t.h = "Push" /\ q \in listeners)
  <1>1. CASE \E s, e, gone, more :
               /\ Source(r, s, gone) /\ EventOK(e) /\ e.topic \in S
               /\ Aside(r, more) /\ (\A t \in gone : t.r = r)
               /\ Emit(r, s, e, gone, more)
    <2>1. PICK s, e, gone, more : /\ Aside(r, more) /\ (\A t \in gone : t.r = r)
                                  /\ Emit(r, s, e, gone, more)
      BY <1>1
    <2>2. \A t \in Messages(r, e) : t.r = r  BY DEF Messages, Task
    <2>3. log'[q] = log[q] /\ state'[q] = state[q]  BY <2>1 DEF Emit, PipeOK
    <2> QED  BY <2>1, <2>2, <2>3 DEF Emit, Aside
  <1>2. CASE \E t, more : /\ t.r = r /\ (t \in tasks \/ t.p # "start")
                          /\ Aside(r, more) /\ Continue(t, more)
    BY <1>2 DEF Continue, Aside, PipeOK
  <1>3. CASE \E more : Aside(r, more) /\ tasks' = tasks \cup more /\ UNCHANGED <<state, log>>
    BY <1>3 DEF Aside
  <1> QED  BY <1>1, <1>2, <1>3 DEF Moves

-----------------------------------------------------------------------------
(* The ledger: the log, the messages and the state of an aggregate *)

\* The state an event leads to.
Target(e) == IF e = Event("OutcomeResolved", "resting") THEN "RESTING" ELSE NextState[e.topic]

\* A message is that of a recorded event.
Delivered == \A t \in tasks : t.p = "start" /\ t.h \in Subscriptions =>
                t.n = 0 /\ Event(TopicOf[t.h], t.d) \in log[t.r]

\* The state is the initial one or that of a recorded event, and no recorded event
\* ranks above it.
ReachedIn(s, l) == s = "INIT" \/ \E e \in l : e.topic # "TradeRecord" /\ Target(e) = s
RankedIn(s, l) == \A e \in l : e.topic # "TradeRecord" => Rank[Target(e)] <= Rank[s]
KeepsUp == \A r \in Reqs : ReachedIn(state[r], log[r]) /\ RankedIn(state[r], log[r])

Ledger == Delivered /\ KeepsUp

\* Ranks are numbers, and only the three ends have the highest.
LEMMA Ranks == /\ \A s \in States : Rank[s] \in 1 .. 11
               /\ \A s \in States : s \in Terminal <=> Rank[s] = 11
               /\ Rank["INIT"] = 1 /\ "INIT" \in States
  BY DEF Rank, States, Terminal

\* The target of an event that leads to a state.
LEMMA Targets ==
    ASSUME NEW e \in EventType, e.topic # "TradeRecord"
    PROVE  Target(e) \in States
  <1>1. "RESTING" \in States  BY DEF States, Rank
  <1>2. e.topic \in Topics \ {"TradeRecord"}  BY DEF EventType
  <1> QED  BY <1>1, <1>2, NextStates DEF Target

\* Apply, in terms of the target.
LEMMA ApplyTarget ==
    ASSUME NEW s, NEW e
    PROVE  Apply(s, e) = IF e.topic # "TradeRecord" /\ Rank[Target(e)] >= Rank[s]
                         THEN Target(e) ELSE s
  BY DEF Apply, Target

\* A state that keeps up with its log keeps up with one more event.
LEMMA ApplyKeepsUp ==
    ASSUME NEW s \in States, NEW l \in SUBSET EventType, NEW e \in EventType,
           ReachedIn(s, l), RankedIn(s, l)
    PROVE  /\ ReachedIn(Apply(s, e), l \cup {e}) /\ RankedIn(Apply(s, e), l \cup {e})
           /\ Apply(s, e) \in States /\ Rank[s] <= Rank[Apply(s, e)]
  <1> DEFINE a == Apply(s, e)
  <1>1. a \in States  BY ApplyState
  <1>2. a = IF e.topic # "TradeRecord" /\ Rank[Target(e)] >= Rank[s] THEN Target(e) ELSE s
    BY ApplyTarget
  <1> HIDE DEF a
  <1>3. \A f \in EventType : f.topic # "TradeRecord" => Rank[Target(f)] \in 1 .. 11
    BY Targets, Ranks
  <1>4. Rank[s] \in 1 .. 11 /\ Rank[a] \in 1 .. 11  BY <1>1, Ranks
  <1>5. ReachedIn(a, l \cup {e})  BY <1>2 DEF ReachedIn
  <1>6. Rank[s] <= Rank[a]  BY <1>2, <1>3, <1>4
  <1>7. RankedIn(a, l \cup {e})
    <2> SUFFICES ASSUME NEW f \in l \cup {e}, f.topic # "TradeRecord"
                 PROVE  Rank[Target(f)] <= Rank[a]
      BY DEF RankedIn
    <2>1. CASE f \in l  BY <1>3, <1>4, <1>6, <2>1 DEF RankedIn
    <2>2. CASE f = e  BY <1>2, <1>3, <1>4, <2>2
    <2> QED  BY <2>1, <2>2
  <1> QED  BY <1>1, <1>5, <1>6, <1>7 DEF a

\* The state in which a handler starts keeps up with the log, and is no lower.
LEMMA ReceivedKeepsUp ==
    ASSUME PipeOK, Ledger, NEW t, t \in tasks \/ t.p # "start", t.r \in Reqs
    PROVE  LET s == Received(t)
           IN  /\ s \in States /\ Rank[state[t.r]] <= Rank[s]
               /\ ReachedIn(s, log[t.r]) /\ RankedIn(s, log[t.r])
  <1>1. /\ state[t.r] \in States /\ log[t.r] \in SUBSET EventType
        /\ ReachedIn(state[t.r], log[t.r]) /\ RankedIn(state[t.r], log[t.r])
    BY DEF PipeOK, Ledger, KeepsUp
  <1>2. CASE t.p = "start" /\ t.h \in Subscriptions
    <2> DEFINE e == Event(TopicOf[t.h], t.d)
    <2>1. e \in log[t.r]  BY <1>2 DEF Ledger, Delivered
    <2>2. e \in EventType /\ log[t.r] \cup {e} = log[t.r]  BY <1>1, <2>1
    <2>3. Received(t) = Apply(state[t.r], e)  BY <1>2 DEF Received
    <2> HIDE DEF e
    <2> QED  BY <1>1, <2>2, <2>3, ApplyKeepsUp
  <1>3. CASE ~(t.p = "start" /\ t.h \in Subscriptions)
    <2>1. Received(t) = state[t.r]  BY <1>3 DEF Received
    <2>2. Rank[state[t.r]] \in Int  BY <1>1, Ranks
    <2> QED  BY <1>1, <2>1, <2>2
  <1> QED  BY <1>2, <1>3

\* No step loses an event, or moves a state down.
Forward(r) == log[r] \subseteq log'[r] /\ Rank[state[r]] <= Rank[state'[r]]

\* A step for r keeps its ledger, and records what it may.
LEMMA MovesLedger ==
    ASSUME PipeOK, Ledger, NEW r \in Reqs, NEW S, Moves(r, S)
    PROVE  /\ Ledger' /\ Forward(r)
           /\ \A e \in log'[r] : e \in log[r] \/ e.topic \in S
           /\ S = {} => log' = log
  <1>1. /\ state[r] \in States /\ log[r] \in SUBSET EventType /\ Rank[state[r]] \in Int
        /\ ReachedIn(state[r], log[r]) /\ RankedIn(state[r], log[r])
    BY Ranks DEF PipeOK, Ledger, KeepsUp
  <1>2. ASSUME /\ log'[r] = log[r] \/ S # {}
               /\ log[r] \subseteq log'[r] /\ Rank[state[r]] <= Rank[state'[r]]
               /\ ReachedIn(state'[r], log'[r]) /\ RankedIn(state'[r], log'[r])
        PROVE  KeepsUp' /\ Forward(r)
    <2>1. \A q \in Reqs \ {r} : log'[q] = log[q] /\ state'[q] = state[q]
      BY OthersKept
    <2>2. \A q \in Reqs : ReachedIn(state'[q], log'[q]) /\ RankedIn(state'[q], log'[q])
      BY <1>2, <2>1 DEF Ledger, KeepsUp
    <2> QED  BY <1>2, <2>2 DEF KeepsUp, Forward
  <1>3. CASE \E s, e, gone, more :
               /\ Source(r, s, gone) /\ EventOK(e) /\ e.topic \in S
               /\ Aside(r, more) /\ (\A t \in gone : t.r = r)
               /\ Emit(r, s, e, gone, more)
    <2>1. PICK s, e, gone, more :
               /\ Source(r, s, gone) /\ EventOK(e) /\ e.topic \in S
               /\ Aside(r, more) /\ (\A t \in gone : t.r = r)
               /\ Emit(r, s, e, gone, more)
      BY <1>3
    <2>2. /\ s \in States /\ Rank[state[r]] <= Rank[s]
          /\ ReachedIn(s, log[r]) /\ RankedIn(s, log[r])
      <3>1. CASE s = state[r]  BY <1>1, <3>1
      <3>2. CASE \E t \in tasks \cap gone : t.r = r /\ s = Received(t)
        <4>1. PICK t \in tasks \cap gone : t.r = r /\ s = Received(t)  BY <3>2
        <4> QED  BY <4>1, ReceivedKeepsUp
      <3> QED  BY <2>1, <3>1, <3>2 DEF Source
    <2>3. e \in EventType  BY <2>1 DEF EventOK
    <2>4. /\ ReachedIn(Apply(s, e), log[r] \cup {e}) /\ RankedIn(Apply(s, e), log[r] \cup {e})
          /\ Apply(s, e) \in States /\ Rank[s] <= Rank[Apply(s, e)]
      BY <1>1, <2>2, <2>3, ApplyKeepsUp
    <2>5. log'[r] = log[r] \cup {e} /\ state'[r] = Apply(s, e)
      BY <2>1 DEF Emit, PipeOK
    <2>6. Rank[s] \in Int /\ Rank[Apply(s, e)] \in Int  BY <2>2, <2>4, Ranks
    <2>7. KeepsUp' /\ Forward(r)
      BY <1>1, <1>2, <2>1, <2>2, <2>4, <2>5, <2>6
    <2>8. Delivered'
      <3> SUFFICES ASSUME NEW t \in tasks', t.p = "start", t.h \in Subscriptions
                   PROVE  t.n = 0 /\ Event(TopicOf[t.h], t.d) \in log'[t.r]
        BY DEF Delivered
      <3>1. CASE t \in tasks
        <4>1. t.r \in Reqs  BY <3>1 DEF PipeOK, TaskOK, TaskType
        <4>2. log[t.r] \subseteq log'[t.r]  BY <2>1, <4>1 DEF Emit, PipeOK
        <4> QED  BY <3>1, <4>2 DEF Ledger, Delivered
      <3>2. CASE t \in more  BY <2>1, <3>2 DEF Aside
      <3>3. CASE t \in Messages(r, e)
        <4>1. t.r = r /\ t.d = e.data /\ t.n = 0 /\ TopicOf[t.h] = e.topic
          BY <3>3 DEF Messages, Task
        <4>2. e = Event(e.topic, e.data)  BY <2>3 DEF EventType, Event
        <4> QED  BY <2>5, <4>1, <4>2
      <3> QED  BY <2>1, <3>1, <3>2, <3>3 DEF Emit
    <2> QED  BY <2>1, <2>5, <2>7, <2>8 DEF Ledger
  <1>4. CASE \E t, more : /\ t.r = r /\ (t \in tasks \/ t.p # "start")
                          /\ Aside(r, more) /\ Continue(t, more)
    <2>1. PICK t, more : /\ t.r = r /\ (t \in tasks \/ t.p # "start")
                         /\ Aside(r, more) /\ Continue(t, more)
      BY <1>4
    <2>2. log' = log /\ state'[r] = Received(t) /\ tasks' = (tasks \ {t}) \cup more
      BY <2>1 DEF Continue, PipeOK
    <2>3. KeepsUp' /\ Forward(r)  BY <1>2, <2>1, <2>2, ReceivedKeepsUp
    <2>4. Delivered'  BY <2>1, <2>2 DEF Delivered, Ledger, Aside
    <2> QED  BY <2>2, <2>3, <2>4 DEF Ledger
  <1>5. CASE \E more : Aside(r, more) /\ tasks' = tasks \cup more /\ UNCHANGED <<state, log>>
    <2>1. PICK more : Aside(r, more) /\ tasks' = tasks \cup more /\ UNCHANGED <<state, log>>
      BY <1>5
    <2>2. KeepsUp' /\ Forward(r)  BY <1>1, <1>2, <2>1
    <2>3. Delivered'  BY <2>1 DEF Delivered, Ledger, Aside
    <2> QED  BY <2>1, <2>2, <2>3 DEF Ledger
  <1> QED  BY <1>3, <1>4, <1>5 DEF Moves

\* A step of the exchange or the stream that records nothing.
LEMMA PushesLedger ==
    ASSUME Ledger, UNCHANGED <<state, log>>,
           \A t \in tasks' : t \in tasks \/ t.h = "Push"
    PROVE  Ledger'
  <1>1. "Push" \notin Subscriptions  BY DEF Subscriptions, TopicOf
  <1> QED  BY <1>1 DEF Ledger, Delivered, KeepsUp

\* The tasks a position update adds.
LEMMA PushTasks ==
    ASSUME NEW d, NEW m \in Deliveries(d)
    PROVE  \A t \in m : t.h = "Push" /\ t.d = d /\ t.r \in listeners
  BY DEF Deliveries, Task

\* Every step keeps the ledger.
LEMMA LedgerStep == ASSUME IInv, Ledger, [Next]_vars PROVE Ledger'
  <1> USE DEF IInv
  <1>1. ASSUME NEW r \in Reqs, NEW S, Moves(r, S) PROVE Ledger'
    BY <1>1, MovesLedger
  <1>2. ASSUME NEW r \in Reqs, Pipeline(r) PROVE Ledger'
    BY <1>1, <1>2, FireMoves, ExecuteMoves, WatchMoves, TimerMoves, BailoutMoves, CompletionMoves,
       CallMoves DEF Pipeline
  <1>3. ASSUME NEW r \in Reqs, Environment(r) PROVE Ledger'
    BY <1>1, <1>3, FireMoves, CallMoves, ExchangeMoves DEF Environment
  <1>4. CASE CancelOpenOrders \/ ExchangeCloses \/ Snapshot \/ UNCHANGED vars
    <2>1. UNCHANGED <<state, log>>
      BY <1>4 DEF CancelOpenOrders, ExchangeCloses, Snapshot, vars
    <2>2. \A t \in tasks' : t \in tasks \/ t.h = "Push"
      BY <1>4, PushTasks DEF CancelOpenOrders, ExchangeCloses, Snapshot, vars
    <2> QED  BY <2>1, <2>2, PushesLedger
  <1> QED  BY <1>2, <1>3, <1>4 DEF Next

\* It holds at the start.
LEMMA LedgerInit == Init => Ledger
  BY DEF Init, Ledger, Delivered, KeepsUp, ReachedIn, RankedIn

\* The aggregate of every order keeps up with its log: its state is that of a recorded
\* event, none ranks above it, and a message is always that of a recorded event.
THEOREM LedgerKept == Spec => []Ledger
  <1>1. IInv /\ Ledger /\ [Next]_vars => Ledger'  BY LedgerStep
  <1> QED  BY <1>1, LedgerInit, Invariant, PTL DEF Spec

-----------------------------------------------------------------------------
(* Before the submission *)

\* The request has the symbol to itself, or nobody opens on it.
Alone == (\A q, r \in Reqs : q = r) \/ (\A i \in Intents : i.side = "close")

PipeTopics == {"Intent", "PreFlightDone", "PositionWatchReady", "FireWindowReached"}
PipeHandlers == {"PreFlight", "WatchReady", "FireTiming", "Execute"}

\* What may be recorded while the message of a handler waits.
Before == [PreFlight  |-> {"Intent"},
           WatchReady |-> {"Intent", "PreFlightDone"},
           FireTiming |-> {"Intent", "PreFlightDone", "PositionWatchReady"},
           Execute    |-> PipeTopics]

Pipe(r) == {t \in tasks : t.r = r /\ t.h \in PipeHandlers /\ t.p = "start"}
Early(r) == log[r] = {} \/ Pipe(r) # {}

\* A request on its way to the submission has recorded nothing else, has no timer,
\* and nothing is going on for it but that message and pushes of an empty position.
EarlyOK(r) ==
    /\ log[r] # {} => Plain("Intent") \in log[r]
    /\ \A t \in Pipe(r) : t.d = "-" /\ \A e \in log[r] : e.topic \in Before[t.h]
    /\ Early(r) => /\ armed[r] = {}
                   /\ \A t \in tasks : t.r = r =>
                         t \in Pipe(r) \/ (t.h = "Push" /\ t.d = "empty")
    /\ intent[r].side = "close" => r \notin listeners
    /\ intent[r].side = "open" /\ submits[r] = 0 => position = 0
EarlyInv == \A r \in Reqs : EarlyOK(r)

\* The handlers of the pipeline and their topics.
LEMMA PipeTables ==
    /\ PipeHandlers \subseteq Subscriptions
    /\ TopicOf["PreFlight"] = "Intent" /\ TopicOf["WatchReady"] = "PreFlightDone"
    /\ TopicOf["FireTiming"] = "PositionWatchReady" /\ TopicOf["Execute"] = "FireWindowReached"
    /\ \A h \in Subscriptions : TopicOf[h] \in PipeTopics => h \in PipeHandlers
    /\ \A h \in Subscriptions : TopicOf[h] # "Aborted"
    /\ \A h \in PipeHandlers : TopicOf[h] \in Before[h]
    /\ \A h, g \in PipeHandlers : TopicOf[h] \in Before[g] /\ TopicOf[g] \in Before[h] => h = g
    /\ \A h, g \in PipeHandlers : TopicOf[h] = TopicOf[g] => h = g
    /\ \A h \in PipeHandlers : "FireWindowReached" \in Before[h] => h = "Execute"
    /\ \A h \in PipeHandlers : Before[h] \subseteq PipeTopics
    /\ "Push" \notin Subscriptions
  BY DEF PipeHandlers, PipeTopics, Before, TopicOf, Subscriptions

\* The message of a request on its way is the only one.
LEMMA PipeUnique ==
    ASSUME PipeOK, Ledger, NEW r \in Reqs, EarlyOK(r), NEW t \in Pipe(r), NEW u \in Pipe(r)
    PROVE  t = u
  <1>1. t.h \in PipeHandlers /\ u.h \in PipeHandlers /\ t.d = "-" /\ u.d = "-"
    BY DEF Pipe, EarlyOK
  <1>2. Event(TopicOf[t.h], t.d) \in log[r] /\ Event(TopicOf[u.h], u.d) \in log[r] /\ t.n = 0 /\ u.n = 0
    BY PipeTables DEF Ledger, Delivered, Pipe
  <1>3. TopicOf[t.h] \in Before[u.h] /\ TopicOf[u.h] \in Before[t.h]
    BY <1>2 DEF EarlyOK, Event
  <1>4. t.h = u.h  BY <1>1, <1>3, PipeTables
  <1>5. t \in TaskType /\ u \in TaskType /\ t.r = u.r /\ t.p = u.p
    BY DEF PipeOK, TaskOK, Pipe
  <1> QED  BY <1>1, <1>2, <1>4, <1>5 DEF TaskType

\* A request on its way has not been submitted.
LEMMA EarlyUnsubmitted ==
    ASSUME IInv, NEW r \in Reqs, EarlyOK(r), Early(r)
    PROVE  submits[r] = 0
  <1>1. submits[r] \in Nat /\ Single(tasks, log, "Execute", r, submits[r])
    BY DEF IInv, BookOK, OnceOK
  <1>2. SUFFICES ASSUME submits[r] # 0 PROVE FALSE
    OBVIOUS
  <1>3. PICK e \in log[r] : e.topic = "FireWindowReached"
    BY <1>1, <1>2, CountedTopics DEF Single, Recorded
  <1>4. PICK t \in Pipe(r) : TRUE  BY <1>3 DEF Early
  <1>5. t.h = "Execute"  BY <1>3, <1>4, PipeTables DEF EarlyOK, Pipe
  <1>6. t \in Starts(tasks, "Execute", r)  BY <1>4, <1>5 DEF Pipe, Starts
  <1> QED  BY <1>1, <1>2, <1>6 DEF Single

\* Nothing is filled before the submission.
LEMMA EarlyState ==
    ASSUME Ledger, NEW r \in Reqs, EarlyOK(r), Early(r)
    PROVE  /\ state[r] \in {"INIT", "PREFLIGHT_DONE", "POSITION_WATCH_READY", "FIRE_WINDOW"}
           /\ ~HasFilled(r)
  <1>1. \A e \in log[r] : e.topic \in PipeTopics
    BY PipeTables DEF EarlyOK, Early, Pipe
  <1>2. state[r] = "INIT" \/ \E e \in log[r] : Target(e) = state[r]
    BY DEF Ledger, KeepsUp, ReachedIn
  <1>3. \A e : e.topic \in PipeTopics =>
           Target(e) \in {"INIT", "PREFLIGHT_DONE", "POSITION_WATCH_READY", "FIRE_WINDOW"}
    BY DEF PipeTopics, Target, NextState, Event
  <1>4. state[r] \in {"INIT", "PREFLIGHT_DONE", "POSITION_WATCH_READY", "FIRE_WINDOW"}
    BY <1>1, <1>2, <1>3
  <1>5. ~Has(r, "Filled") /\ ~Has(r, "PositionClosed") /\ ~Has(r, "OutcomeResolved")
    BY <1>1 DEF Has, PipeTopics
  <1> QED  BY <1>4, <1>5 DEF HasFilled, Has, Event

\* A message of the pipeline that is handled: the next one, if any, takes its place.
LEMMA PipeAdvances ==
    ASSUME IInv, Ledger, NEW r \in Reqs, EarlyOK(r), NEW t \in Pipe(r),
           NEW topic \in PipeTopics \cup {"Aborted"}, Publish(t, Plain(topic), {}),
           \A h \in PipeHandlers : TopicOf[h] = topic => Before[t.h] \cup {topic} \subseteq Before[h],
           armed'[r] \subseteq armed[r], intent' = intent,
           UNCHANGED <<position, submits>>, intent[r].side = "close" => r \notin listeners'
    PROVE  EarlyOK(r)'
  <1> DEFINE e == Plain(topic)
  <1>1. /\ log'[r] = log[r] \cup {e}
        /\ tasks' = (tasks \ {t}) \cup Messages(r, e)
        /\ t.r = r /\ t \in tasks
    BY DEF IInv, PipeOK, Publish, Emit, Pipe
  <1>2. e.topic = topic /\ e.data = "-"  BY DEF Plain, Event
  <1> HIDE DEF e
  <1>3. \A u \in Messages(r, e) : /\ u.r = r /\ u.d = "-" /\ u.p = "start" /\ u.n = 0
                                  /\ u.h \in Subscriptions /\ TopicOf[u.h] = topic
    BY <1>2 DEF Messages, Task
  <1>4. \A u \in Pipe(r) : u = t  BY PipeUnique DEF IInv
  <1>5. \A u \in Pipe(r)' : u \in Messages(r, e)  BY <1>1, <1>4 DEF Pipe
  <1>6. \A u \in Pipe(r)' : u.d = "-" /\ \A f \in log'[r] : f.topic \in Before[u.h]
    <2> SUFFICES ASSUME NEW u \in Pipe(r)', NEW f \in log'[r]
                 PROVE  u.d = "-" /\ f.topic \in Before[u.h]
      BY <1>3, <1>5
    <2>1. u.d = "-" /\ u.h \in PipeHandlers /\ TopicOf[u.h] = topic
      BY <1>3, <1>5 DEF Pipe
    <2>2. f.topic \in Before[t.h] \cup {topic}  BY <1>1, <1>2 DEF EarlyOK
    <2> QED  BY <2>1, <2>2
  <1>7. log[r] # {}
    BY PipeTables DEF Ledger, Delivered, Pipe
  <1>8. log'[r] # {} /\ Plain("Intent") \in log'[r]
    BY <1>1, <1>7 DEF EarlyOK
  <1>9. Early(r)' => /\ armed'[r] = {}
                     /\ \A u \in tasks' : u.r = r => u \in Pipe(r)' \/ (u.h = "Push" /\ u.d = "empty")
    <2> SUFFICES ASSUME Early(r)'
                 PROVE  /\ armed'[r] = {}
                        /\ \A u \in tasks' : u.r = r => u \in Pipe(r)' \/ (u.h = "Push" /\ u.d = "empty")
      OBVIOUS
    <2>1. Early(r) /\ armed'[r] = {}  BY DEF Early, EarlyOK
    <2>2. topic \in PipeTopics
      BY <1>3, <1>5, <1>8, PipeTables DEF Early
    <2>3. \A u \in Messages(r, e) : u \in Pipe(r)'
      BY <1>1, <1>3, <2>2, PipeTables DEF Pipe
    <2> QED  BY <1>1, <1>4, <2>1, <2>3 DEF EarlyOK
  <1>10. intent'[r].side = "open" /\ submits'[r] = 0 => position' = 0
    BY DEF EarlyOK
  <1> QED  BY <1>6, <1>8, <1>9, <1>10 DEF EarlyOK

\* A request that is past the pipeline stays there.
LEMMA LaunchedStays ==
    ASSUME IInv, Ledger, NEW r \in Reqs, EarlyOK(r), ~Early(r), NEW S, Moves(r, S),
           S \cap PipeTopics = {}, intent' = intent, listeners' \subseteq listeners,
           \/ UNCHANGED <<position, submits>>
           \/ position' = 0
           \/ submits'[r] # 0
    PROVE  EarlyOK(r)'
  <1>1. log[r] # {} /\ Pipe(r) = {}  BY DEF Early
  <1>2. log[r] \subseteq log'[r] /\ \A e \in log'[r] : e \in log[r] \/ e.topic \in S
    BY MovesLedger DEF IInv, Forward
  <1>3. Pipe(r)' = {}
    <2> SUFFICES ASSUME NEW u \in tasks', u.r = r, u.h \in PipeHandlers, u.p = "start"
                 PROVE  FALSE
      BY DEF Pipe
    <2>1. u \notin tasks  BY <1>1 DEF Pipe
    <2>2. u.h \in Subscriptions  BY PipeTables
    <2>3. CASE \E s, e, gone, more :
                  /\ Source(r, s, gone) /\ EventOK(e) /\ e.topic \in S
                  /\ Aside(r, more) /\ (\A t \in gone : t.r = r)
                  /\ Emit(r, s, e, gone, more)
      <3>1. PICK e, gone, more : /\ e.topic \in S /\ Aside(r, more)
                                 /\ tasks' = (tasks \ gone) \cup more \cup Messages(r, e)
        BY <2>3 DEF Emit
      <3>2. u \in Messages(r, e)  BY <2>1, <2>2, <3>1 DEF Aside
      <3>3. TopicOf[u.h] = e.topic  BY <3>2 DEF Messages, Task
      <3>4. TopicOf[u.h] \in PipeTopics  BY PipeTables
      <3> QED  BY <3>1, <3>3, <3>4
    <2>4. CASE \E t, more : /\ t.r = r /\ (t \in tasks \/ t.p # "start")
                            /\ Aside(r, more) /\ Continue(t, more)
      BY <2>1, <2>2, <2>4 DEF Continue, Aside
    <2>5. CASE \E more : Aside(r, more) /\ tasks' = tasks \cup more /\ UNCHANGED <<state, log>>
      BY <2>1, <2>2, <2>5 DEF Aside
    <2> QED  BY <2>3, <2>4, <2>5 DEF Moves
  <1>4. ~Early(r)'  BY <1>1, <1>2, <1>3 DEF Early
  <1>5. Plain("Intent") \in log'[r]  BY <1>1, <1>2 DEF EarlyOK
  <1> QED  BY <1>3, <1>4, <1>5 DEF EarlyOK

\* The others, if there are any, close and do not listen.
LEMMA OthersStay ==
    ASSUME IInv, Alone, NEW r \in Reqs, NEW S, Moves(r, S), NEW q \in Reqs, q # r, EarlyOK(q),
           armed'[q] \subseteq armed[q], intent' = intent, listeners' \subseteq listeners \cup {r}
    PROVE  EarlyOK(q)'
  <1>1. intent[q].side = "close"  BY DEF IInv, IntentOK, Alone
  <1>2. log'[q] = log[q] /\ (\A t : t.r = q => (t \in tasks' <=> t \in tasks))
    BY <1>1, OthersKept DEF IInv, EarlyOK
  <1>3. Pipe(q)' = Pipe(q)  BY <1>2 DEF Pipe
  <1>4. Early(q)' <=> Early(q)  BY <1>2, <1>3 DEF Early
  <1>5. Early(q) => \A t \in tasks' : t.r = q => t \in Pipe(q)' \/ (t.h = "Push" /\ t.d = "empty")
    BY <1>2, <1>3 DEF EarlyOK
  <1>6. \A t \in Pipe(q)' : t.d = "-" /\ \A e \in log'[q] : e.topic \in Before[t.h]
    BY <1>2, <1>3 DEF EarlyOK
  <1>7. intent'[q].side = "close" /\ q \notin listeners'
    BY <1>1 DEF EarlyOK
  <1> QED  BY <1>1, <1>2, <1>4, <1>5, <1>6, <1>7 DEF EarlyOK

\* What a step of a handler after the pipeline, or of a timer, leaves alone.
Bounded(r) ==
    /\ intent' = intent /\ listeners' = listeners
    /\ UNCHANGED <<position, submits>> \/ position' = 0 \/ submits'[r] # 0
    /\ \A q \in Reqs \ {r} : armed'[q] = armed[q]

\* The timers of other requests are left alone.
LEMMA TimersElse ==
    ASSUME TimersOK, NEW r \in Reqs,
           \/ UNCHANGED timers
           \/ \E k : Store(r, k) \/ Expire(r, k)
           \/ CancelTimeoutGuard(r)
    PROVE  \A q \in Reqs \ {r} : armed'[q] = armed[q]
  BY DEF TimersOK, timers, Store, Expire, CancelTimeoutGuard

\* The handlers up to the outcome.
LEMMA BoundedHandlers ==
    ASSUME IInv, NEW r \in Reqs,
           \/ SubmitReply(r) \/ TPSLSubmission(r) \/ ScheduleUnfilledCancelTimeout(r)
           \/ SchedulePositionCloseTimeout(r) \/ OutcomeWatcher(r) \/ PollOrder(r)
           \/ ResolveOutcome(r) \/ PreFlight(r) \/ FireTiming(r) \/ Dispatch(r)
    PROVE  Bounded(r)
  <1> USE DEF IInv, exchange, stream
  <1>1. CASE SubmitReply(r) \/ PreFlight(r)
    <2>1. UNCHANGED timers \/ CancelTimeoutGuard(r)
      BY <1>1, HandlerTask DEF SubmitReply, PreFlight, AbortOrder
    <2>2. intent' = intent /\ listeners' = listeners /\ UNCHANGED <<position, submits>>
      BY <1>1 DEF SubmitReply, PreFlight, AbortOrder
    <2> QED  BY <2>1, <2>2, TimersElse DEF Bounded
  <1>2. CASE ScheduleUnfilledCancelTimeout(r) \/ SchedulePositionCloseTimeout(r)
    BY <1>2, TimersElse
       DEF ScheduleUnfilledCancelTimeout, SchedulePositionCloseTimeout, Bounded
  <1>3. CASE TPSLSubmission(r) \/ OutcomeWatcher(r) \/ PollOrder(r) \/ FireTiming(r) \/ Dispatch(r)
    BY <1>3, TimersElse DEF TPSLSubmission, OutcomeWatcher, PollOrder, FireTiming, Dispatch, Bounded
  <1>4. CASE ResolveOutcome(r)
    <2>1. UNCHANGED timers \/ CancelTimeoutGuard(r)  BY <1>4 DEF ResolveOutcome
    <2> QED  BY <1>4, <2>1, TimersElse DEF ResolveOutcome, Bounded
  <1> QED  BY <1>1, <1>2, <1>3, <1>4

\* The timers, the bailout and the completion.
LEMMA BoundedRest ==
    ASSUME IInv, NEW r \in Reqs,
           \/ CancelTimerFires(r) \/ CancelRestingOrderOnTimeout(r) \/ CloseTimerFires(r)
           \/ WaitTimeoutDeadline(r) \/ TimeoutNoPosition(r) \/ TimeoutBailout(r)
           \/ BailoutAttempt(r) \/ BailoutFails(r) \/ EnrichAndComplete(r)
           \/ PositionClosedDone(r) \/ CompleteOrder(r) \/ SaveTrade(r)
           \/ PositionFilled(r) \/ PositionClosed(r)
           \/ CancelOrder(r) \/ CancelOrderReply(r) \/ PnLDrop(r)
    PROVE  Bounded(r)
  <1> USE DEF IInv, exchange, stream
  <1>1. CASE CancelTimerFires(r) \/ CloseTimerFires(r)
    BY <1>1, TimersElse DEF CancelTimerFires, CloseTimerFires, Bounded
  <1>2. CASE CancelRestingOrderOnTimeout(r) \/ WaitTimeoutDeadline(r) \/ TimeoutNoPosition(r)
    BY <1>2, TimersElse DEF CancelRestingOrderOnTimeout, WaitTimeoutDeadline, TimeoutNoPosition, Bounded
  <1>3. CASE TimeoutBailout(r) \/ BailoutAttempt(r) \/ PnLDrop(r)
    BY <1>3, TimersElse DEF TimeoutBailout, BailoutAttempt, PnLDrop, MarketClose, Bounded
  <1>4. CASE BailoutFails(r)
    <2>1. \A t \in At("PositionChecked", r, "close") : t.r = r  BY DEF At
    <2>2. UNCHANGED timers \/ CancelTimeoutGuard(r)
      BY <1>4, <2>1 DEF BailoutFails, AbortOrder
    <2>3. listeners' = listeners  BY <1>4 DEF BailoutFails, AbortOrder
    <2> QED  BY <1>4, <2>2, <2>3, TimersElse DEF BailoutFails, Bounded
  <1>5. CASE EnrichAndComplete(r) \/ SaveTrade(r) \/ PositionFilled(r) \/ PositionClosed(r)
             \/ CancelOrderReply(r)
    BY <1>5, TimersElse
       DEF EnrichAndComplete, SaveTrade, PositionFilled, PositionClosed, CancelOrderReply, Bounded
  <1>6. CASE PositionClosedDone(r) \/ CompleteOrder(r) \/ CancelOrder(r)
    BY <1>6, TimersElse DEF PositionClosedDone, CompleteOrder, CancelOrder, Bounded
  <1> QED  BY <1>1, <1>2, <1>3, <1>4, <1>5, <1>6

\* A task that is neither a message of the pipeline nor a push of an empty position.
LEMMA NotEarly ==
    ASSUME NEW r, EarlyOK(r), NEW t \in tasks, t.r = r,
           t.h \notin PipeHandlers \/ t.p # "start", t.h # "Push" \/ t.d # "empty"
    PROVE  ~Early(r)
  BY DEF EarlyOK, Pipe

\* A handler after the pipeline keeps what is known of the others, and of its own.
LEMMA LaterStep ==
    ASSUME IInv, Ledger, EarlyInv, Alone, NEW r \in Reqs, ~Early(r), Bounded(r),
           NEW S, Moves(r, S), S \cap PipeTopics = {}
    PROVE  EarlyInv'
  <1>1. EarlyOK(r)'  BY LaunchedStays DEF EarlyInv, Bounded
  <1>2. \A q \in Reqs \ {r} : EarlyOK(q)'  BY OthersStay DEF EarlyInv, Bounded
  <1> QED  BY <1>1, <1>2 DEF EarlyInv

\* The first three handlers of the pipeline, and the dispatch.
LEMMA EarlyDispatch ==
    ASSUME IInv, Ledger, EarlyInv, Alone, NEW r \in Reqs, Dispatch(r) PROVE EarlyInv'
  <1>1. EarlyOK(r) /\ log[r] \in SUBSET EventType  BY DEF EarlyInv, IInv, PipeOK
  <1> DEFINE e == Plain("Intent")
  <1>2. /\ e.topic = "Intent" /\ e.data = "-"
        /\ log'[r] = log[r] \cup {e} /\ tasks' = tasks \cup Messages(r, e)
    BY DEF Plain, Event, Dispatch, Emit, IInv, PipeOK
  <1>3. /\ UNCHANGED <<position, submits, intent>> /\ armed'[r] = armed[r] /\ listeners' = listeners
    BY DEF Dispatch, exchange, timers, stream
  <1>4. CASE log[r] = {}
    <2>1. Pipe(r) = {}
      BY <1>4, PipeTables DEF Pipe, Ledger, Delivered
    <2>2. \A u \in Messages(r, e) : /\ u.r = r /\ u.d = "-" /\ u.p = "start"
                                    /\ u.h \in Subscriptions /\ TopicOf[u.h] = "Intent"
      BY <1>2 DEF Messages, Task
    <2>3. \A u \in Messages(r, e) : u.h = "PreFlight"
      <3>1. \A h \in Subscriptions : TopicOf[h] = "Intent" => h \in PipeHandlers
        BY PipeTables DEF PipeTopics
      <3>2. \A h \in PipeHandlers : TopicOf[h] = "Intent" => h = "PreFlight"
        BY PipeTables DEF PipeHandlers
      <3> QED  BY <2>2, <3>1, <3>2
    <2>4. "PreFlight" \in PipeHandlers /\ "Intent" \in Before["PreFlight"]
      BY DEF PipeHandlers, Before
    <2>5. Pipe(r)' = Messages(r, e)
      BY <1>2, <2>1, <2>2, <2>3, <2>4 DEF Pipe
    <2>6. \A u \in tasks' : u.r = r => u \in Pipe(r)' \/ (u.h = "Push" /\ u.d = "empty")
      BY <1>1, <1>2, <1>4, <2>1, <2>5 DEF EarlyOK, Early
    <2>7. \A u \in Pipe(r)' : u.d = "-" /\ \A f \in log'[r] : f.topic \in Before[u.h]
      BY <1>2, <1>4, <2>2, <2>3, <2>4, <2>5
    <2>8. armed'[r] = {}  BY <1>1, <1>3, <1>4 DEF EarlyOK, Early
    <2> HIDE DEF e
    <2>9. EarlyOK(r)'  BY <1>1, <1>2, <1>3, <2>6, <2>7, <2>8 DEF EarlyOK, e
    <2>10. Bounded(r) /\ Moves(r, {"Intent"})  BY BoundedHandlers, FireMoves
    <2>11. \A q \in Reqs \ {r} : EarlyOK(q)'  BY <2>10, OthersStay DEF EarlyInv, Bounded
    <2> QED  BY <2>9, <2>11 DEF EarlyInv
  <1>5. CASE log[r] # {}
    <2>1. e \in log[r]  BY <1>1, <1>5 DEF EarlyOK
    <2>2. Messages(r, e) = {}  BY <2>1 DEF Messages
    <2>3. log'[r] = log[r] /\ tasks' = tasks  BY <1>2, <2>1, <2>2
    <2>4. Pipe(r)' = Pipe(r) /\ (Early(r)' <=> Early(r))  BY <2>3 DEF Pipe, Early
    <2> HIDE DEF e
    <2>5. EarlyOK(r)'  BY <1>1, <1>3, <2>3, <2>4 DEF EarlyOK
    <2>6. Bounded(r) /\ Moves(r, {"Intent"})  BY BoundedHandlers, FireMoves
    <2>7. \A q \in Reqs \ {r} : EarlyOK(q)'  BY <2>6, OthersStay DEF EarlyInv, Bounded
    <2> QED  BY <2>5, <2>7 DEF EarlyInv
  <1> QED  BY <1>4, <1>5

\* The handlers that hand the request on, and the abort of the first.
LEMMA EarlyFire ==
    ASSUME IInv, Ledger, EarlyInv, Alone, NEW r \in Reqs,
           PreFlight(r) \/ PositionWatchReady(r) \/ FireTiming(r)
    PROVE  EarlyInv'
  <1> USE DEF IInv
  <1>1. EarlyOK(r) /\ (intent[r].side = "close" => r \notin listeners)  BY DEF EarlyInv, EarlyOK
  <1>2. EarlyOK(r)'
    <2>1. CASE PreFlight(r)
      <3>1. PICK t \in Ready("PreFlight", r), topic \in {"PreFlightDone", "Aborted"} :
               Publish(t, Plain(topic), {})
        BY <2>1 DEF PreFlight, AbortOrder
      <3>2. t \in Pipe(r) /\ t.h = "PreFlight"  BY DEF Ready, Pipe, PipeHandlers
      <3>3. topic \in PipeTopics \cup {"Aborted"}
            /\ \A h \in PipeHandlers : TopicOf[h] = topic => Before["PreFlight"] \cup {topic} \subseteq Before[h]
        BY PipeTables DEF PipeTopics, PipeHandlers, Before
      <3>4. armed'[r] \subseteq armed[r]
        BY <2>1, HandlerTask DEF PreFlight, AbortOrder, CancelTimeoutGuard, timers, TimersOK
      <3>5. UNCHANGED <<position, submits, intent, listeners>>
        BY <2>1 DEF PreFlight, AbortOrder, exchange, stream
      <3> QED  BY <1>1, <3>1, <3>2, <3>3, <3>4, <3>5, PipeAdvances
    <2>2. CASE PositionWatchReady(r)
      <3>1. PICK t \in Ready("WatchReady", r) : Publish(t, Plain("PositionWatchReady"), {})
        BY <2>2 DEF PositionWatchReady
      <3>2. t \in Pipe(r) /\ t.h = "WatchReady"  BY DEF Ready, Pipe, PipeHandlers
      <3>3. "PositionWatchReady" \in PipeTopics \cup {"Aborted"}
            /\ \A h \in PipeHandlers : TopicOf[h] = "PositionWatchReady" =>
                  Before["WatchReady"] \cup {"PositionWatchReady"} \subseteq Before[h]
        BY PipeTables DEF PipeTopics, PipeHandlers, Before
      <3>4. UNCHANGED <<position, submits, intent, armed>>
        BY <2>2 DEF PositionWatchReady, exchange, timers
      <3>5. intent[r].side = "close" => r \notin listeners'
        BY <1>1, <2>2 DEF PositionWatchReady
      <3> QED  BY <1>1, <3>1, <3>2, <3>3, <3>4, <3>5, PipeAdvances
    <2>3. CASE FireTiming(r)
      <3>1. PICK t \in Ready("FireTiming", r) : Publish(t, Plain("FireWindowReached"), {})
        BY <2>3 DEF FireTiming
      <3>2. t \in Pipe(r) /\ t.h = "FireTiming"  BY DEF Ready, Pipe, PipeHandlers
      <3>3. "FireWindowReached" \in PipeTopics \cup {"Aborted"}
            /\ \A h \in PipeHandlers : TopicOf[h] = "FireWindowReached" =>
                  Before["FireTiming"] \cup {"FireWindowReached"} \subseteq Before[h]
        BY PipeTables DEF PipeTopics, PipeHandlers, Before
      <3>4. UNCHANGED <<position, submits, intent, armed, listeners>>
        BY <2>3 DEF FireTiming, exchange, timers, stream
      <3> QED  BY <1>1, <3>1, <3>2, <3>3, <3>4, PipeAdvances
    <2> QED  BY <2>1, <2>2, <2>3
  <1>3. \A q \in Reqs \ {r} : EarlyOK(q)'
    <2>1. CASE PreFlight(r) \/ FireTiming(r)
      BY <2>1, FireMoves, BoundedHandlers, OthersStay DEF EarlyInv, Bounded
    <2>2. CASE PositionWatchReady(r)
      <3>1. listeners' \subseteq listeners \cup {r} /\ armed' = armed /\ intent' = intent
        BY <2>2 DEF PositionWatchReady, timers
      <3> QED  BY <2>2, <3>1, FireMoves, OthersStay DEF EarlyInv
    <2> QED  BY <2>1, <2>2
  <1> QED  BY <1>2, <1>3 DEF EarlyInv

\* The submission ends the pipeline.
LEMMA EarlyExecute ==
    ASSUME IInv, Ledger, EarlyInv, Alone, NEW r \in Reqs, ExecuteOrder(r) PROVE EarlyInv'
  <1> USE DEF IInv
  <1>1. EarlyOK(r)  BY DEF EarlyInv
  <1>2. PICK t \in Ready("Execute", r) :
          \E reply \in {"ok", "error"}, m \in {{}} \cup Deliveries(PushOf(position')) :
             Continue(t, Goto(t, "reply", 1, reply) \cup m)
    <2>1. \A t, reply : Goto(t, "reply", 1, reply) \cup {} = Goto(t, "reply", 1, reply)
      OBVIOUS
    <2> QED  BY <2>1 DEF ExecuteOrder
  <1>3. t \in Pipe(r) /\ t.h = "Execute"  BY DEF Ready, Pipe, PipeHandlers
  <1>4. \A u \in tasks' : u \in tasks \ {t} \/ u.p = "reply" \/ u.h = "Push"
    BY <1>2, PushTasks DEF Continue, Goto, Task
  <1>5. \A u \in Pipe(r) : u = t  BY <1>1, <1>3, PipeUnique
  <1>6. Pipe(r)' = {}
    BY <1>4, <1>5, PipeTables DEF Pipe
  <1>7. log' = log /\ Plain("Intent") \in log[r]
    <2>1. log[r] # {}  BY <1>3, PipeTables DEF Ledger, Delivered, Pipe
    <2> QED  BY <1>1, <1>2, <2>1 DEF EarlyOK, Continue
  <1>8. submits'[r] # 0  BY DEF ExecuteOrder, BookOK
  <1>9. intent' = intent /\ listeners' = listeners /\ armed' = armed
    BY DEF ExecuteOrder, stream, timers
  <1>10. EarlyOK(r)'
    BY <1>1, <1>6, <1>7, <1>8, <1>9 DEF EarlyOK, Early
  <1>11. \A q \in Reqs \ {r} : EarlyOK(q)'
    BY <1>9, ExecuteMoves, OthersStay DEF EarlyInv
  <1> QED  BY <1>10, <1>11 DEF EarlyInv

\* A handler of another topic, or one that is suspended, belongs to a later part.
LEMMA LaterTask ==
    ASSUME IInv, NEW r \in Reqs, EarlyOK(r), NEW h, NEW p,
           NEW t \in Ready(h, r) \cup At(h, r, p),
           h \notin PipeHandlers \cup {"Push"} \/ (t \in At(h, r, p) /\ p # "start" /\ h # "Push")
    PROVE  ~Early(r)
  <1>1. t \in tasks /\ t.r = r /\ t.h = h  BY HandlerTask DEF IInv
  <1>2. t.h \notin PipeHandlers \/ t.p # "start"  BY <1>1 DEF At
  <1> QED  BY <1>1, <1>2, NotEarly

\* The actions of the later parts.
LEMMA LaterActions ==
    ASSUME IInv, Ledger, NEW r \in Reqs, EarlyOK(r),
           \/ SubmitReply(r) \/ TPSLSubmission(r) \/ ScheduleUnfilledCancelTimeout(r)
           \/ SchedulePositionCloseTimeout(r) \/ OutcomeWatcher(r) \/ PollOrder(r)
           \/ ResolveOutcome(r)
           \/ CancelTimerFires(r) \/ CancelRestingOrderOnTimeout(r) \/ CloseTimerFires(r)
           \/ WaitTimeoutDeadline(r) \/ TimeoutNoPosition(r) \/ TimeoutBailout(r)
           \/ BailoutAttempt(r) \/ BailoutFails(r) \/ EnrichAndComplete(r)
           \/ PositionClosedDone(r) \/ CompleteOrder(r) \/ SaveTrade(r)
           \/ PositionFilled(r) \/ CancelOrderReply(r) \/ PnLDrop(r)
    PROVE  ~Early(r)
  <1> USE LaterTask DEF PipeHandlers
  <1>1. CASE SubmitReply(r)  BY <1>1 DEF SubmitReply
  <1>2. CASE TPSLSubmission(r) \/ ScheduleUnfilledCancelTimeout(r) \/ SchedulePositionCloseTimeout(r)
    BY <1>2 DEF TPSLSubmission, ScheduleUnfilledCancelTimeout, SchedulePositionCloseTimeout
  <1>3. CASE OutcomeWatcher(r) \/ PollOrder(r) \/ ResolveOutcome(r)
    BY <1>3 DEF OutcomeWatcher, PollOrder, ResolveOutcome
  <1>4. CASE CancelTimerFires(r) \/ CloseTimerFires(r)
    BY <1>4 DEF CancelTimerFires, CloseTimerFires, Expire, EarlyOK
  <1>5. CASE CancelRestingOrderOnTimeout(r) \/ WaitTimeoutDeadline(r)
    BY <1>5 DEF CancelRestingOrderOnTimeout, WaitTimeoutDeadline
  <1>6. CASE TimeoutNoPosition(r) \/ TimeoutBailout(r)
    BY <1>6 DEF TimeoutNoPosition, TimeoutBailout
  <1>7. CASE BailoutAttempt(r)
    <2>1. PICK t : t \in At("PositionChecked", r, "close") \/ t \in At("Trail", r, "close")
      BY <1>7 DEF BailoutAttempt
    <2> QED  BY <2>1
  <1>8. CASE BailoutFails(r)
    <2>1. PICK t : t \in At("PositionChecked", r, "close") \/ t \in At("Trail", r, "close")
      BY <1>8 DEF BailoutFails
    <2> QED  BY <2>1
  <1>9. CASE EnrichAndComplete(r)
    <2>1. PICK h \in {"PositionChecked", "ResolveOutcome", "PositionClosed"} : At(h, r, "enrich") # {}
      BY <1>9 DEF EnrichAndComplete
    <2> QED  BY <2>1
  <1>10. CASE PositionClosedDone(r) \/ CompleteOrder(r) \/ SaveTrade(r)
    BY <1>10 DEF PositionClosedDone, CompleteOrder, SaveTrade
  <1>11. CASE PositionFilled(r)
    <2>1. PICK t \in Ready("Push", r) : t.d = "open"  BY <1>11 DEF PositionFilled
    <2> QED  BY <2>1, NotEarly DEF Ready
  <1>12. CASE CancelOrderReply(r)  BY <1>12 DEF CancelOrderReply
  <1>13. CASE PnLDrop(r)  BY <1>13, EarlyState DEF PnLDrop
  <1> QED
    BY <1>1, <1>2, <1>3, <1>4, <1>5, <1>6, <1>7, <1>8, <1>9, <1>10, <1>11, <1>12, <1>13

\* The handlers after the submission.
LEMMA EarlyLater ==
    ASSUME IInv, Ledger, EarlyInv, Alone, NEW r \in Reqs,
           \/ SubmitReply(r) \/ TPSLSubmission(r) \/ ScheduleUnfilledCancelTimeout(r)
           \/ SchedulePositionCloseTimeout(r) \/ OutcomeWatcher(r) \/ PollOrder(r)
           \/ ResolveOutcome(r)
           \/ CancelTimerFires(r) \/ CancelRestingOrderOnTimeout(r) \/ CloseTimerFires(r)
           \/ WaitTimeoutDeadline(r) \/ TimeoutNoPosition(r) \/ TimeoutBailout(r)
           \/ BailoutAttempt(r) \/ BailoutFails(r) \/ EnrichAndComplete(r)
           \/ PositionClosedDone(r) \/ CompleteOrder(r) \/ SaveTrade(r)
           \/ PositionFilled(r) \/ CancelOrderReply(r) \/ PnLDrop(r)
    PROVE  EarlyInv'
  <1>1. EarlyOK(r)  BY DEF EarlyInv
  <1>2. ~Early(r)  BY <1>1, LaterActions
  <1>3. Bounded(r)  BY BoundedHandlers, BoundedRest
  <1>4. \E S : Moves(r, S) /\ S \cap PipeTopics = {}
    <2>1. \A S \in {{}, {"Submitted", "Aborted"}, {"TPSLDispatched"}, {"OutcomeResolved"},
                    {"TimeoutScheduled"}, {"TimeoutPositionChecked"}, {"BailoutExecuted"},
                    {"Aborted"}, {"Completed"}, {"TradeRecord"}, {"Filled"}, {"Canceled"}} :
             S \cap PipeTopics = {}
      BY DEF PipeTopics
    <2> QED  BY <2>1, FireMoves, WatchMoves, TimerMoves, BailoutMoves, CompletionMoves, CallMoves
  <1> QED  BY <1>2, <1>3, <1>4, LaterStep

\* A push of an empty position is dropped before the submission.
LEMMA EarlyPositionClosed ==
    ASSUME IInv, Ledger, EarlyInv, Alone, NEW r \in Reqs, PositionClosed(r) PROVE EarlyInv'
  <1>1. EarlyOK(r) /\ Bounded(r) /\ Moves(r, {"PositionClosed"})
    BY BoundedRest, CallMoves DEF EarlyInv
  <1>2. CASE ~Early(r)
    BY <1>1, <1>2, LaterStep DEF PipeTopics
  <1>3. CASE Early(r)
    <2>1. PICK t \in Ready("Push", r) :
             /\ t.d \in {"closed", "empty"}
             /\ IF state[r] \in Terminal \/ (t.d = "empty" /\ ~HasFilled(r)) THEN Continue(t, {})
                ELSE Publish(t, Plain("PositionClosed"), {})
             /\ UNCHANGED <<intent, stream, timers, exchange, results>>
      BY DEF PositionClosed
    <2>2. t \in tasks /\ t.r = r /\ t.h = "Push"  BY HandlerTask DEF IInv
    <2>3. t.d = "empty"  BY <1>1, <1>3, <2>2, PipeTables DEF EarlyOK, Pipe
    <2>4. Continue(t, {})  BY <1>1, <1>3, <2>1, <2>3, EarlyState
    <2>5. log' = log /\ tasks' = tasks \ {t}  BY <2>4 DEF Continue
    <2>6. Pipe(r)' = Pipe(r)  BY <2>2, <2>5, PipeTables DEF Pipe
    <2>7. UNCHANGED <<intent, listeners, armed, position, submits>>
      BY <2>1 DEF stream, timers, exchange
    <2>8. EarlyOK(r)'  BY <1>1, <2>5, <2>6, <2>7 DEF EarlyOK, Early
    <2>9. \A q \in Reqs \ {r} : EarlyOK(q)'  BY <1>1, OthersStay DEF EarlyInv, Bounded
    <2> QED  BY <2>8, <2>9 DEF EarlyInv
  <1> QED  BY <1>2, <1>3

\* Steps of the exchange, the stream and CancelOpenOrders: who listens before its
\* submission sees an empty position.
LEMMA EarlyExchange ==
    ASSUME IInv, Ledger, EarlyInv, Alone,
           \/ \E r \in Reqs : Fill(r) \/ ExchangeCancels(r) \/ WatchExpires(r)
           \/ CancelOpenOrders \/ ExchangeCloses \/ Snapshot \/ UNCHANGED vars
    PROVE  EarlyInv'
  <1> SUFFICES ASSUME NEW q \in Reqs PROVE EarlyOK(q)'
    BY DEF EarlyInv
  <1>1. EarlyOK(q)  BY DEF EarlyInv
  <1>2. log' = log /\ intent' = intent /\ submits' = submits /\ armed'[q] \subseteq armed[q]
    <2>1. CASE \E r \in Reqs : Fill(r) \/ ExchangeCancels(r) \/ WatchExpires(r)
      BY <2>1 DEF Fill, ExchangeCancels, WatchExpires, timers, exchange
    <2>2. CASE CancelOpenOrders
      BY <2>2 DEF CancelOpenOrders
    <2>3. CASE ExchangeCloses \/ Snapshot \/ UNCHANGED vars
      BY <2>3 DEF ExchangeCloses, Snapshot, vars, timers, exchange
    <2> QED  BY <2>1, <2>2, <2>3
  <1>3. listeners' \subseteq listeners
    BY DEF Fill, ExchangeCancels, WatchExpires, CancelOpenOrders, ExchangeCloses, Snapshot, vars, stream
  <1>4. intent[q].side = "open" /\ submits[q] = 0 => position' = 0
    <2> SUFFICES ASSUME intent[q].side = "open", submits[q] = 0 PROVE position' = 0
      OBVIOUS
    <2>1. position = 0 /\ ord[q] = "none"  BY <1>1 DEF EarlyOK, IInv, BookOK
    <2>2. \A r \in Reqs : r = q  BY DEF Alone, IInv, IntentOK
    <2>3. ~ \E r \in Reqs : Fill(r)  BY <2>1, <2>2 DEF Fill
    <2> QED
      BY <2>1, <2>3 DEF ExchangeCancels, WatchExpires, CancelOpenOrders, ExchangeCloses, Snapshot,
                        vars, exchange
  <1>5. tasks \subseteq tasks'
        /\ \A t \in tasks' \ tasks : t.h = "Push" /\ (t.r = q /\ Early(q) => t.d = "empty")
    <2>1. q \in listeners /\ Early(q) => position = 0 /\ ord[q] # "live" /\ \A r \in Reqs : r = q
      <3> SUFFICES ASSUME q \in listeners, Early(q)
                   PROVE  position = 0 /\ ord[q] # "live" /\ \A r \in Reqs : r = q
        OBVIOUS
      <3>1. submits[q] = 0  BY <1>1, EarlyUnsubmitted
      <3>2. intent[q].side = "open"  BY <1>1, Sides DEF EarlyOK, IInv
      <3> QED  BY <1>1, <3>1, <3>2 DEF EarlyOK, IInv, BookOK, Alone, IntentOK
    <2>2. CASE \E r \in Reqs : Fill(r)
      <3>1. PICK r \in Reqs : Fill(r)  BY <2>2
      <3>2. ord[r] = "live" /\ \E m \in Deliveries(PushOf(position')) : tasks' = tasks \cup m
        BY <3>1 DEF Fill
      <3>3. \A t \in tasks' \ tasks : t.h = "Push" /\ t.r \in listeners
        BY <3>2, PushTasks
      <3> QED  BY <2>1, <3>2, <3>3
    <2>3. CASE ExchangeCloses
      BY <2>1, <2>3, PushTasks DEF ExchangeCloses
    <2>4. CASE Snapshot
      BY <2>1, <2>4, PushTasks DEF Snapshot
    <2>5. CASE (\E r \in Reqs : ExchangeCancels(r) \/ WatchExpires(r)) \/ CancelOpenOrders \/ UNCHANGED vars
      BY <2>5 DEF ExchangeCancels, WatchExpires, CancelOpenOrders, vars
    <2> QED  BY <2>2, <2>3, <2>4, <2>5
  <1>6. Pipe(q)' = Pipe(q)  BY <1>5, PipeTables DEF Pipe
  <1>7. Early(q)' <=> Early(q)  BY <1>2, <1>6 DEF Early
  <1>8. Early(q) => /\ armed'[q] = {}
                    /\ \A t \in tasks' : t.r = q => t \in Pipe(q)' \/ (t.h = "Push" /\ t.d = "empty")
    BY <1>1, <1>2, <1>5, <1>6 DEF EarlyOK
  <1>9. \A t \in Pipe(q)' : t.d = "-" /\ \A e \in log'[q] : e.topic \in Before[t.h]
    BY <1>1, <1>2, <1>6 DEF EarlyOK
  <1>10. intent'[q].side = "close" => q \notin listeners'
    BY <1>1, <1>2, <1>3 DEF EarlyOK
  <1> QED  BY <1>1, <1>2, <1>4, <1>7, <1>8, <1>9, <1>10 DEF EarlyOK

\* Every step, if nobody calls CancelOrder.
LEMMA EarlyStep ==
    ASSUME IInv, Ledger, EarlyInv, Alone, "cancel" \notin Api, [Next]_vars PROVE EarlyInv'
  <1>1. ASSUME NEW r \in Reqs, Pipeline(r) PROVE EarlyInv'
    BY <1>1, EarlyFire, EarlyExecute, EarlyLater, EarlyPositionClosed DEF Pipeline
  <1>2. ASSUME NEW r \in Reqs, Environment(r) PROVE EarlyInv'
    BY <1>2, EarlyDispatch, EarlyLater, EarlyExchange DEF Environment, CancelOrder
  <1>3. CASE CancelOpenOrders \/ ExchangeCloses \/ Snapshot \/ UNCHANGED vars
    BY <1>3, EarlyExchange
  <1> QED  BY <1>1, <1>2, <1>3 DEF Next

\* It holds at the start: a position is there only for those that close it.
LEMMA EarlyInit == ASSUME Alone, Init PROVE EarlyInv
  <1> SUFFICES ASSUME NEW r \in Reqs PROVE EarlyOK(r)
    BY DEF EarlyInv
  <1>1. Pipe(r) = {} /\ log[r] = {} /\ armed[r] = {} /\ tasks = {} /\ listeners = {}
    BY DEF Init, Pipe
  <1>2. intent[r].side = "open" => position = 0
    BY DEF Init, Alone
  <1> QED  BY <1>1, <1>2 DEF EarlyOK

\* The submission starts in a state before it, and leaves the request in one.
LEMMA ExecuteState ==
    ASSUME IInv, Ledger, NEW r \in Reqs, EarlyOK(r), ExecuteOrder(r)
    PROVE  /\ Early(r) /\ log[r] # {}
           /\ state[r] \notin Terminal /\ state'[r] \notin Terminal
  <1>1. PICK t \in Ready("Execute", r) : \E more : Continue(t, more)
    BY DEF ExecuteOrder
  <1>2. t \in Pipe(r) /\ t.r = r /\ t \in tasks /\ t.h = "Execute"
    BY DEF Ready, Pipe, PipeHandlers
  <1>3. log[r] # {}  BY <1>2, PipeTables DEF Ledger, Delivered, Pipe
  <1>4. /\ Early(r)
        /\ state[r] \in {"INIT", "PREFLIGHT_DONE", "POSITION_WATCH_READY", "FIRE_WINDOW"}
    BY <1>2, EarlyState DEF Early
  <1>5. state'[r] = Received(t)  BY <1>1, <1>2 DEF Continue, IInv, PipeOK
  <1>6. Received(t) \in {state[r], "FIRE_WINDOW"}
    <2>1. t.p = "start" /\ t.h \in Subscriptions  BY <1>2, PipeTables DEF Pipe
    <2>2. Event("FireWindowReached", t.d).topic = "FireWindowReached"
          /\ Target(Event("FireWindowReached", t.d)) = "FIRE_WINDOW"
      BY DEF Event, Target, NextState
    <2> QED  BY <1>2, <2>1, <2>2, PipeTables, ApplyTarget DEF Received
  <1> QED  BY <1>3, <1>4, <1>5, <1>6 DEF Terminal

\* The counters of the order manager move in three actions.
Uncounted == UNCHANGED <<submits, done, saves>>
LEMMA PipelineCounts ==
    ASSUME NEW r \in Reqs, Pipeline(r)
    PROVE  Uncounted \/ ExecuteOrder(r) \/ CompleteOrder(r) \/ SaveTrade(r)
  <1> USE DEF Uncounted, exchange, results
  <1>1. CASE PreFlight(r) \/ PositionWatchReady(r) \/ FireTiming(r) \/ SubmitReply(r)
    BY <1>1 DEF PreFlight, PositionWatchReady, FireTiming, SubmitReply
  <1>2. CASE TPSLSubmission(r) \/ ScheduleUnfilledCancelTimeout(r) \/ SchedulePositionCloseTimeout(r)
             \/ OutcomeWatcher(r) \/ PollOrder(r) \/ ResolveOutcome(r)
    BY <1>2 DEF TPSLSubmission, ScheduleUnfilledCancelTimeout, SchedulePositionCloseTimeout,
                OutcomeWatcher, PollOrder, ResolveOutcome
  <1>3. CASE CancelTimerFires(r) \/ CancelRestingOrderOnTimeout(r) \/ CloseTimerFires(r)
             \/ WaitTimeoutDeadline(r) \/ TimeoutNoPosition(r) \/ TimeoutBailout(r)
    BY <1>3 DEF CancelTimerFires, CancelRestingOrderOnTimeout, CloseTimerFires,
                WaitTimeoutDeadline, TimeoutNoPosition, TimeoutBailout
  <1>4. CASE BailoutAttempt(r) \/ BailoutFails(r) \/ EnrichAndComplete(r) \/ PositionClosedDone(r)
             \/ PositionFilled(r) \/ PositionClosed(r) \/ CancelOrderReply(r)
    BY <1>4 DEF BailoutAttempt, BailoutFails, EnrichAndComplete, PositionClosedDone,
                PositionFilled, PositionClosed, CancelOrderReply
  <1> QED  BY <1>1, <1>2, <1>3, <1>4 DEF Pipeline

\* All other steps leave them alone.
LEMMA OtherCounts ==
    ASSUME \/ \E r \in Reqs : Environment(r)
           \/ CancelOpenOrders \/ ExchangeCloses \/ Snapshot \/ UNCHANGED vars
    PROVE  Uncounted
  <1> USE DEF Uncounted, exchange, results
  <1>1. CASE \E r \in Reqs : Environment(r)
    BY <1>1 DEF Environment, Dispatch, CancelOrder, PnLDrop, WatchExpires, Fill, ExchangeCancels
  <1>2. CASE CancelOpenOrders \/ ExchangeCloses \/ Snapshot \/ UNCHANGED vars
    BY <1>2 DEF CancelOpenOrders, ExchangeCloses, Snapshot, vars
  <1> QED  BY <1>1, <1>2

\* While nobody calls CancelOrder, a request that has the symbol to itself is handled in
\* order up to its submission: the message of the next handler is the only work of it.
THEOREM EarlyKept == ASSUME Alone, "cancel" \notin Api PROVE Spec => []EarlyInv
  <1>1. Init => EarlyInv  BY EarlyInit
  <1>2. IInv /\ Ledger /\ EarlyInv /\ [Next]_vars => EarlyInv'  BY EarlyStep
  <1> QED  BY <1>1, <1>2, Invariant, LedgerKept, PTL DEF Spec

\* However often an intent is dispatched and whatever the position stream repeats, no
\* order is submitted for a request that has ended: neither the abort of the pre-flight nor
\* a completion leaves a message for HandleExecuteOrder behind.  It is stated for a request
\* that has the symbol to itself, or closes like all others, and is not canceled by a call.
THEOREM NeverSubmittedAfterEnd ==
    ASSUME Alone, "cancel" \notin Api PROVE Spec => NoSubmitAfterEnd
  <1>1. IInv /\ Ledger /\ EarlyInv /\ [Next]_vars =>
           [\A r \in Reqs : submits'[r] # submits[r] => state[r] \notin Terminal]_vars
    <2> SUFFICES ASSUME IInv, Ledger, EarlyInv, [Next]_vars,
                        NEW r \in Reqs, submits'[r] # submits[r]
                 PROVE  state[r] \notin Terminal
      OBVIOUS
    <2>1. PICK q \in Reqs : ExecuteOrder(q) \/ CompleteOrder(q) \/ SaveTrade(q)
      BY PipelineCounts, OtherCounts DEF Uncounted, Next
    <2>2. ExecuteOrder(q)
      BY <2>1 DEF CompleteOrder, SaveTrade, exchange
    <2>3. q = r  BY <2>2 DEF ExecuteOrder, IInv, BookOK
    <2> QED  BY <2>2, <2>3, ExecuteState DEF EarlyInv
  <1> QED  BY <1>1, Invariant, LedgerKept, EarlyKept, PTL DEF Spec, NoSubmitAfterEnd

-----------------------------------------------------------------------------
(* The refinement of OrderPromise *)

\* A trade record is recorded by the completion, which counts.
RecordedDone == \A r \in Reqs : Has(r, "TradeRecord") => done[r] = 1

\* A request that was begun goes on, or ends and stays so.
LEMMA PhaseMoves ==
    ASSUME IInv, PipeOK', Ledger, NEW r \in Reqs, EarlyOK(r), NEW S, Moves(r, S),
           log[r] # {} \/ UNCHANGED <<state, log>>
    PROVE  /\ PhaseOf(r)' = PhaseOf(r) \/ (PhaseOf(r) = "working" /\ PhaseOf(r)' = "over")
           /\ \A q \in Reqs \ {r} : PhaseOf(q)' = PhaseOf(q)
  <1>1. \A q \in Reqs \ {r} : PhaseOf(q)' = PhaseOf(q)
    BY OthersKept DEF PhaseOf, Has, IInv
  <1>2. CASE UNCHANGED <<state, log>>
    BY <1>1, <1>2 DEF PhaseOf, Has
  <1>3. CASE log[r] # {}
    <2>1. Has(r, "Intent") /\ log[r] \subseteq log'[r]
      BY <1>3, MovesLedger DEF EarlyOK, Has, Plain, Event, IInv, Forward
    <2>2. Has(r, "Intent")'  BY <2>1 DEF Has
    <2>3. state[r] \in Terminal => state'[r] \in Terminal
      <3>1. state[r] \in States /\ state'[r] \in States
        BY DEF IInv, PipeOK
      <3>2. Rank[state[r]] <= Rank[state'[r]]  BY MovesLedger DEF IInv, Forward
      <3> QED  BY <3>1, <3>2, Ranks
    <2> QED  BY <1>1, <2>1, <2>2, <2>3 DEF PhaseOf
  <1> QED  BY <1>2, <1>3

\* A step that counts nothing is no step of OrderPromise, or the end of a request.
LEMMA UncountedPromise ==
    ASSUME IInv, PipeOK', Ledger, NEW r \in Reqs, EarlyOK(r), NEW S, Moves(r, S),
           log[r] # {} \/ UNCHANGED <<state, log>>, Uncounted
    PROVE  [Promise!Next]_(Promise!vars)
  <1> DEFINE phase == [q \in Reqs |-> PhaseOf(q)]
             next  == [q \in Reqs |-> PhaseOf(q)']
  <1>1. \A q \in Reqs \ {r} : next[q] = phase[q]  BY PhaseMoves
  <1>2. CASE PhaseOf(r)' = PhaseOf(r)
    <2>1. next = phase  BY <1>1, <1>2
    <2> QED  BY <2>1 DEF Promise!vars, Uncounted
  <1>3. CASE PhaseOf(r) = "working" /\ PhaseOf(r)' = "over"
    <2>1. phase[r] = "working" /\ next = [phase EXCEPT ![r] = "over"]  BY <1>1, <1>3
    <2>2. Promise!End(r)  BY <2>1 DEF Promise!End, Uncounted
    <2> QED  BY <2>2 DEF Promise!Next
  <1> QED  BY <1>2, <1>3, PhaseMoves

\* The dispatch of a new request begins it, that of a known one does nothing.
LEMMA DispatchPromise ==
    ASSUME IInv, PipeOK', Ledger, NEW r \in Reqs, EarlyOK(r), Dispatch(r), Uncounted
    PROVE  [Promise!Next]_(Promise!vars)
  <1>1. Moves(r, {"Intent"})  BY FireMoves
  <1>2. CASE log[r] # {}  BY <1>1, <1>2, UncountedPromise
  <1>3. CASE log[r] = {}
    <2> DEFINE phase == [q \in Reqs |-> PhaseOf(q)]
               next  == [q \in Reqs |-> PhaseOf(q)']
    <2>1. \A q \in Reqs \ {r} : next[q] = phase[q]
      BY <1>1, OthersKept DEF PhaseOf, Has, IInv
    <2>2. state[r] = "INIT"  BY <1>3 DEF Ledger, KeepsUp, ReachedIn
    <2>3. PhaseOf(r) = "idle"  BY <1>3, <2>2 DEF PhaseOf, Has, Terminal
    <2>4. log'[r] = {Plain("Intent")} /\ state'[r] = "INIT"
      <3>1. Target(Plain("Intent")) = "INIT"  BY DEF Target, Plain, Event, NextState
      <3> QED  BY <1>3, <2>2, <3>1, ApplyTarget DEF Dispatch, Emit, IInv, PipeOK
    <2>5. PhaseOf(r)' = "working"  BY <2>4 DEF PhaseOf, Has, Terminal, Plain, Event
    <2>6. phase[r] = "idle" /\ next = [phase EXCEPT ![r] = "working"]  BY <2>1, <2>3, <2>5
    <2>7. Promise!Begin(r)  BY <2>6 DEF Promise!Begin, Uncounted
    <2> QED  BY <2>7 DEF Promise!Next
  <1> QED  BY <1>2, <1>3

\* The submission sends, while the request is worked on.
LEMMA ExecutePromise ==
    ASSUME IInv, Ledger, NEW r \in Reqs, EarlyOK(r), ExecuteOrder(r)
    PROVE  [Promise!Next]_(Promise!vars)
  <1> DEFINE phase == [q \in Reqs |-> PhaseOf(q)]
             next  == [q \in Reqs |-> PhaseOf(q)']
  <1>1. Early(r) /\ log[r] # {} /\ state[r] \notin Terminal /\ state'[r] \notin Terminal
    BY ExecuteState
  <1>2. submits[r] = 0 /\ submits' = [submits EXCEPT ![r] = 1]
    <2>1. submits[r] = 0  BY <1>1, EarlyUnsubmitted
    <2> QED  BY <2>1 DEF ExecuteOrder
  <1>3. log' = log  BY DEF ExecuteOrder, Continue
  <1>4. PhaseOf(r) = "working" /\ PhaseOf(r)' = "working"
    BY <1>1, <1>3 DEF PhaseOf, Has, EarlyOK, Plain, Event
  <1>5. \A q \in Reqs \ {r} : next[q] = phase[q]
    BY ExecuteMoves, OthersKept DEF PhaseOf, Has, IInv
  <1>6. phase[r] = "working" /\ next = phase  BY <1>4, <1>5
  <1>7. done' = done /\ saves' = saves  BY DEF ExecuteOrder, results
  <1>8. Promise!Send(r)  BY <1>2, <1>6, <1>7 DEF Promise!Send
  <1> QED  BY <1>8 DEF Promise!Next

\* The completion tells the strategy, once the request is over.
LEMMA CompletePromise ==
    ASSUME IInv, PipeOK', Ledger, NEW r \in Reqs, EarlyOK(r), CompleteOrder(r)
    PROVE  [Promise!Next]_(Promise!vars)
  <1> DEFINE phase == [q \in Reqs |-> PhaseOf(q)]
             next  == [q \in Reqs |-> PhaseOf(q)']
  <1>1. PICK t \in Ready("Complete", r) : TRUE  BY DEF CompleteOrder
  <1>2. t \in Starts(tasks, "Complete", r) /\ t \in tasks
    BY DEF Ready, Starts
  <1>3. Event("Completed", t.d) \in log[r]
    BY <1>2, CountedTopics DEF Ledger, Delivered, Starts, Counted
  <1>4. state[r] \in Terminal
    <2>1. Event("Completed", t.d).topic = "Completed"
          /\ Target(Event("Completed", t.d)) = "COMPLETED"
      BY DEF Event, Target, NextState
    <2>2. Rank["COMPLETED"] <= Rank[state[r]]
      BY <1>3, <2>1 DEF Ledger, KeepsUp, RankedIn
    <2>3. "COMPLETED" \in States /\ "COMPLETED" \in Terminal /\ state[r] \in States
      BY DEF States, Rank, Terminal, IInv, PipeOK
    <2> QED  BY <2>2, <2>3, Ranks
  <1>5. done[r] = 0
    BY <1>2 DEF IInv, OnceOK, Single, ResultsOK
  <1>6. done' = [done EXCEPT ![r] = 1] /\ submits' = submits /\ saves' = saves
    BY <1>5 DEF CompleteOrder, exchange
  <1>7. PhaseOf(r) = "over" /\ PhaseOf(r)' = PhaseOf(r) /\ \A q \in Reqs \ {r} : next[q] = phase[q]
    <2>1. PhaseOf(r) = "over"  BY <1>4 DEF PhaseOf
    <2> QED  BY <1>3, <2>1, CompletionMoves, PhaseMoves
  <1>8. phase[r] = "over" /\ next = phase  BY <1>7
  <1>9. Promise!Tell(r)  BY <1>5, <1>6, <1>8 DEF Promise!Tell
  <1> QED  BY <1>9 DEF Promise!Next

\* The row is saved after the strategy was told.
LEMMA SavePromise ==
    ASSUME IInv, PipeOK', Ledger, RecordedDone, NEW r \in Reqs, EarlyOK(r), SaveTrade(r)
    PROVE  [Promise!Next]_(Promise!vars)
  <1> DEFINE phase == [q \in Reqs |-> PhaseOf(q)]
             next  == [q \in Reqs |-> PhaseOf(q)']
  <1>1. PICK t \in Ready("SaveTrade", r) : Continue(t, {})  BY DEF SaveTrade
  <1>2. t \in Starts(tasks, "SaveTrade", r) /\ t \in tasks /\ t.r = r
    BY DEF Ready, Starts
  <1>3. Event("TradeRecord", t.d) \in log[r]
    BY <1>2, CountedTopics DEF Ledger, Delivered, Starts, Counted
  <1>4. done[r] = 1  BY <1>3 DEF RecordedDone, Has, Event
  <1>5. saves[r] = 0
    BY <1>2 DEF IInv, OnceOK, Single, ResultsOK
  <1>6. log' = log /\ state' = state
    <2>1. Received(t) = state[r]
      <3>1. t.p = "start" /\ t.h = "SaveTrade" /\ TopicOf["SaveTrade"] = "TradeRecord"
        BY <1>2, CountedTopics DEF Starts
      <3> QED  BY <1>2, <3>1, ApplyTarget DEF Received, Event
    <2> QED  BY <1>1, <1>2, <2>1 DEF Continue, IInv, PipeOK
  <1>7. next = phase  BY <1>6 DEF PhaseOf, Has
  <1>8. submits' = submits /\ done' = done  BY DEF SaveTrade, exchange
  <1>9. CASE saves' = saves
    BY <1>7, <1>8, <1>9 DEF Promise!vars
  <1>10. CASE saves' = [saves EXCEPT ![r] = @ + 1]
    <2>1. saves' = [saves EXCEPT ![r] = 1]  BY <1>5, <1>10
    <2>2. Promise!Record(r)  BY <1>4, <1>5, <1>7, <1>8, <2>1 DEF Promise!Record
    <2> QED  BY <2>2 DEF Promise!Next
  <1> QED  BY <1>9, <1>10 DEF SaveTrade

\* A step that begins, sends, tells or saves nothing, of a handler that is not early.
LaterRun(r) ==
    \/ SubmitReply(r) \/ TPSLSubmission(r) \/ ScheduleUnfilledCancelTimeout(r)
    \/ SchedulePositionCloseTimeout(r) \/ OutcomeWatcher(r) \/ PollOrder(r) \/ ResolveOutcome(r)
    \/ CancelTimerFires(r) \/ CancelRestingOrderOnTimeout(r) \/ CloseTimerFires(r)
    \/ WaitTimeoutDeadline(r) \/ TimeoutNoPosition(r) \/ TimeoutBailout(r)
    \/ BailoutAttempt(r) \/ BailoutFails(r) \/ EnrichAndComplete(r)
    \/ PositionClosedDone(r) \/ PositionFilled(r) \/ CancelOrderReply(r) \/ PnLDrop(r)

\* Every step of the pipeline is one of OrderPromise, or a stutter of it.
LEMMA PipelinePromise ==
    ASSUME IInv, PipeOK', Ledger, RecordedDone, NEW r \in Reqs, EarlyOK(r), Pipeline(r),
           Uncounted \/ ExecuteOrder(r) \/ CompleteOrder(r) \/ SaveTrade(r)
    PROVE  [Promise!Next]_(Promise!vars)
  <1>1. CASE ExecuteOrder(r) \/ CompleteOrder(r) \/ SaveTrade(r)
    BY <1>1, ExecutePromise, CompletePromise, SavePromise
  <1>2. CASE LaterRun(r) /\ Uncounted
    <2>1. log[r] # {}
      <3>1. ~Early(r)  BY <1>2, LaterActions DEF LaterRun
      <3> QED  BY <3>1 DEF Early
    <2>2. \E S : Moves(r, S)
      BY <1>2, FireMoves, WatchMoves, TimerMoves, BailoutMoves, CompletionMoves, CallMoves
         DEF LaterRun
    <2> QED  BY <1>2, <2>1, <2>2, UncountedPromise
  <1>3. CASE (PreFlight(r) \/ PositionWatchReady(r) \/ FireTiming(r)) /\ Uncounted
    <2>1. log[r] # {}
      <3>1. PICK t \in Ready("PreFlight", r) \cup Ready("WatchReady", r) \cup Ready("FireTiming", r) : TRUE
        BY <1>3 DEF PreFlight, PositionWatchReady, FireTiming
      <3>2. t \in tasks /\ t.r = r /\ t.p = "start" /\ t.h \in PipeHandlers
        BY DEF Ready, PipeHandlers
      <3> QED  BY <3>2, PipeTables DEF Ledger, Delivered
    <2> QED  BY <1>3, <2>1, FireMoves, UncountedPromise
  <1>4. CASE PositionClosed(r) /\ Uncounted
    <2>1. Moves(r, {"PositionClosed"})  BY <1>4, CallMoves
    <2>2. log[r] # {} \/ UNCHANGED <<state, log>>
      <3> SUFFICES ASSUME log[r] = {} PROVE UNCHANGED <<state, log>>
        OBVIOUS
      <3>1. PICK t \in Ready("Push", r) :
               /\ t.d \in {"closed", "empty"}
               /\ IF state[r] \in Terminal \/ (t.d = "empty" /\ ~HasFilled(r)) THEN Continue(t, {})
                  ELSE Publish(t, Plain("PositionClosed"), {})
        BY <1>4 DEF PositionClosed
      <3>2. t \in tasks /\ t.r = r /\ t.h = "Push"  BY HandlerTask DEF IInv
      <3>3. t.d = "empty" /\ ~HasFilled(r)
        BY <3>2, PipeTables, EarlyState DEF EarlyOK, Pipe, Early
      <3>4. Continue(t, {}) /\ Received(t) = state[t.r]
        BY <3>1, <3>2, <3>3, PipeTables DEF Received
      <3> QED  BY <3>2, <3>4 DEF Continue, IInv, PipeOK
    <2> QED  BY <1>4, <2>1, <2>2, UncountedPromise
  <1> QED  BY <1>1, <1>2, <1>3, <1>4 DEF Pipeline, LaterRun

\* A step that leaves the states, the logs and the counters alone stutters.
LEMMA StillPromise ==
    ASSUME UNCHANGED <<state, log>>, Uncounted PROVE UNCHANGED Promise!vars
  BY DEF Promise!vars, PhaseOf, Has, Uncounted

\* Every step maps to a step of OrderPromise or a stutter.
LEMMA PromiseStep ==
    ASSUME IInv, IInv', Ledger, EarlyInv, RecordedDone, "cancel" \notin Api, [Next]_vars
    PROVE  [Promise!Next]_(Promise!vars)
  <1> USE DEF IInv, EarlyInv
  <1>1. ASSUME NEW r \in Reqs, Pipeline(r) PROVE [Promise!Next]_(Promise!vars)
    <2>1. Uncounted \/ ExecuteOrder(r) \/ CompleteOrder(r) \/ SaveTrade(r)
      BY <1>1, PipelineCounts
    <2> QED  BY <1>1, <2>1, PipelinePromise
  <1>2. ASSUME NEW r \in Reqs, Environment(r) PROVE [Promise!Next]_(Promise!vars)
    <2>1. Uncounted  BY <1>2, OtherCounts
    <2>2. CASE Dispatch(r)  BY <2>1, <2>2, DispatchPromise
    <2>3. CASE PnLDrop(r)
      <3>1. log[r] # {}
        <4>1. ~Early(r)  BY <2>3, LaterActions
        <4> QED  BY <4>1 DEF Early
      <3> QED  BY <2>1, <2>3, <3>1, CallMoves, UncountedPromise
    <2>4. CASE WatchExpires(r) \/ Fill(r) \/ ExchangeCancels(r)
      <3>1. UNCHANGED <<state, log>>  BY <2>4 DEF WatchExpires, Fill, ExchangeCancels
      <3> QED  BY <2>1, <3>1, StillPromise
    <2> QED  BY <1>2, <2>2, <2>3, <2>4 DEF Environment, CancelOrder
  <1>3. CASE CancelOpenOrders \/ ExchangeCloses \/ Snapshot \/ UNCHANGED vars
    <2>1. Uncounted  BY <1>3, OtherCounts
    <2>2. UNCHANGED <<state, log>>  BY <1>3 DEF CancelOpenOrders, ExchangeCloses, Snapshot, vars
    <2> QED  BY <2>1, <2>2, StillPromise
  <1> QED  BY <1>1, <1>2, <1>3 DEF Next

\* Nothing is begun at the start.
LEMMA PromiseInit == Init => Promise!Init
  BY DEF Init, Promise!Init, PhaseOf, Has, Terminal

\* A record is only made by the completion, which counts.
LEMMA RecordedStep ==
    ASSUME IInv, Ledger, RecordedDone, [Next]_vars PROVE RecordedDone'
  <1> USE DEF IInv
  <1>1. ASSUME NEW r \in Reqs, NEW S, Moves(r, S), "TradeRecord" \notin S, done' = done
        PROVE  RecordedDone'
    <2>1. \A q \in Reqs \ {r} : log'[q] = log[q]  BY <1>1, OthersKept
    <2>2. \A e \in log'[r] : e \in log[r] \/ e.topic # "TradeRecord"
      BY <1>1, MovesLedger
    <2> QED  BY <1>1, <2>1, <2>2 DEF RecordedDone, Has
  <1>2. ASSUME NEW r \in Reqs, CompleteOrder(r) PROVE RecordedDone'
    <2>1. done[r] = 0
      <3>1. PICK t \in Ready("Complete", r) : TRUE  BY <1>2 DEF CompleteOrder
      <3>2. t \in Starts(tasks, "Complete", r)  BY DEF Ready, Starts
      <3> QED  BY <3>2 DEF OnceOK, Single, ResultsOK
    <2>2. done' = [done EXCEPT ![r] = 1]  BY <1>2, <2>1 DEF CompleteOrder
    <2>3. \A q \in Reqs \ {r} : log'[q] = log[q]  BY <1>2, CompletionMoves, OthersKept
    <2> QED  BY <2>2, <2>3 DEF RecordedDone, Has, ResultsOK
  <1>3. ASSUME UNCHANGED <<log, done>> PROVE RecordedDone'
    BY <1>3 DEF RecordedDone, Has
  <1>4. ASSUME NEW r \in Reqs, Pipeline(r) PROVE RecordedDone'
    <2>1. CASE Uncounted /\ ~CompleteOrder(r)
      <3>1. \E S : Moves(r, S) /\ "TradeRecord" \notin S
        BY <1>4, <2>1, FireMoves, ExecuteMoves, WatchMoves, TimerMoves, BailoutMoves,
           CompletionMoves, CallMoves DEF Pipeline
      <3> QED  BY <1>1, <2>1, <3>1 DEF Uncounted
    <2>2. CASE ExecuteOrder(r)
      BY <1>3, <2>2 DEF ExecuteOrder, Continue, results
    <2>3. CASE SaveTrade(r)
      BY <1>3, <2>3 DEF SaveTrade, Continue
    <2> QED  BY <1>2, <1>4, <2>1, <2>2, <2>3, PipelineCounts
  <1>5. ASSUME NEW r \in Reqs, Environment(r) PROVE RecordedDone'
    <2>1. \E S : Moves(r, S) /\ "TradeRecord" \notin S
      BY <1>5, FireMoves, CallMoves, ExchangeMoves DEF Environment
    <2> QED  BY <1>1, <1>5, <2>1, OtherCounts DEF Uncounted
  <1>6. CASE CancelOpenOrders \/ ExchangeCloses \/ Snapshot \/ UNCHANGED vars
    BY <1>3, <1>6 DEF CancelOpenOrders, ExchangeCloses, Snapshot, vars, results
  <1> QED  BY <1>4, <1>5, <1>6 DEF Next

\* Whatever the pipeline, its timers and the position stream do to a request, the strategy
\* sees one that is worked on once, sends at most one order and only before its end, and is
\* told and recorded once, after it: the order manager implements OrderPromise.  It is
\* stated for a request that has the symbol to itself, or closes like all others, and is
\* not canceled by a call: CancelOrder ends a request whose order may still be sent.
THEOREM ImplementsPromise == ASSUME Alone, "cancel" \notin Api PROVE Spec => KeepsPromise
  <1>1. Init => RecordedDone  BY DEF Init, RecordedDone, Has
  <1>2. IInv /\ Ledger /\ RecordedDone /\ [Next]_vars => RecordedDone'  BY RecordedStep
  <1>3. Spec => []RecordedDone
    BY <1>1, <1>2, Invariant, LedgerKept, PTL DEF Spec
  <1>4. IInv /\ IInv' /\ Ledger /\ EarlyInv /\ RecordedDone /\ [Next]_vars
           => [Promise!Next]_(Promise!vars)
    BY PromiseStep
  <1> QED
    BY <1>3, <1>4, PromiseInit, Invariant, LedgerKept, EarlyKept, PTL
       DEF Spec, KeepsPromise, Promise!Spec
-----------------------------------------------------------------------------
(* The watch over a filled order *)

\* No maker is to be canceled and to be closed after a while: its running cancel timer
\* would keep the close timer from being stored.
OneTimeoutEach == \A i \in Intents : i.type = "maker" => ~(i.closeTimeout /\ i.cancelTimeout)

CloseTimers == {"closeSubmitted", "closeFilled"}
Deadlines   == {"WaitDeadline", "PositionChecked"}
Watchers    == {"ScheduleClose", "PositionClosed", "ResolveOutcome"} \cup Deadlines

\* The entry of the map is a timer that runs; only makers have a cancel timer.
TimerOK(r) ==
    /\ timer[r] # "none" => timer[r] \in armed[r]
    /\ "cancel" \in armed[r] => intent[r].type = "maker" /\ intent[r].cancelTimeout

\* The deadline is handled once: whatever fires later publishes to nobody.
DeadlineOnce(r) ==
    /\ \A e \in log[r] : e.topic = "TimeoutScheduled" => e.data = "-"
    /\ Has(r, "TimeoutPositionChecked") =>
          Has(r, "TimeoutScheduled") /\ Starts(tasks, "WaitDeadline", r) = {}

\* Once the deadline was met somebody works on it until the order ends.
DeadlineWorked(r) ==
    Has(r, "TimeoutScheduled") => state[r] \in Terminal \/ Busy(r, Deadlines)

\* FilledIsGuarded, without the outcome that completes nothing.
FillGuarded(r) ==
    Has(r, "Filled") /\ intent[r].closeTimeout =>
       \/ state[r] \in Terminal
       \/ armed[r] \cap CloseTimers # {}
       \/ Busy(r, {"ScheduleClose", "PositionClosed"} \cup Deadlines)
       \/ At("ResolveOutcome", r, "enrich") # {}

WatchOK(r) == TimerOK(r) /\ DeadlineOnce(r) /\ DeadlineWorked(r) /\ FillGuarded(r)
WatchInv == \A r \in Reqs : WatchOK(r)

WatchTopics == {"Filled", "TimeoutScheduled", "TimeoutPositionChecked"}

\* An order that has ended stays ended.
LEMMA EndedStays ==
    ASSUME IInv, IInv', Ledger, NEW r \in Reqs, NEW S, Moves(r, S), state[r] \in Terminal
    PROVE  state'[r] \in Terminal
  <1>1. Forward(r) /\ state[r] \in States /\ state'[r] \in States
    BY MovesLedger DEF IInv, PipeOK
  <1> QED  BY <1>1, Ranks DEF Forward

\* A key is one of its topic.
LEMMA KeyTopic == \A e : Key(e).topic = e.topic
  BY DEF Key, Plain, Event

\* What a step may do to the log and to the messages of r.
LEMMA MovesWork ==
    ASSUME PipeOK, Ledger, NEW r \in Reqs, NEW S, Moves(r, S)
    PROVE  /\ log[r] \subseteq log'[r]
           /\ \A e \in log'[r] : e \in log[r] \/ e.topic \in S
           /\ \A t \in tasks' : t.r = r /\ t.p = "start" /\ t.h \in Subscriptions =>
                 \/ t \in tasks
                 \/ /\ TopicOf[t.h] \in S
                    /\ \A e \in log[r] : e.topic = TopicOf[t.h] => t.h = "ResolveOutcome"
  <1>1. \A e \in log'[r] : e \in log[r] \/ e.topic \in S
    BY MovesLedger
  <1>2. CASE \E s, e, gone, more :
               /\ Source(r, s, gone) /\ EventOK(e) /\ e.topic \in S
               /\ Aside(r, more) /\ (\A t \in gone : t.r = r)
               /\ Emit(r, s, e, gone, more)
    <2>1. PICK s, e, gone, more :
             EventOK(e) /\ e.topic \in S /\ Aside(r, more) /\ Emit(r, s, e, gone, more)
      BY <1>2
    <2>2. log'[r] = log[r] \cup {e} /\ tasks' = (tasks \ gone) \cup more \cup Messages(r, e)
      BY <2>1 DEF Emit, PipeOK
    <2>3. ASSUME NEW t \in Messages(r, e), NEW f \in log[r], f.topic = TopicOf[t.h]
          PROVE  t.h = "ResolveOutcome"
      <3>1. TopicOf[t.h] = e.topic /\ Key(f) # Key(e) /\ t.h \in Subscriptions
        BY <2>3 DEF Messages, Task
      <3>2. e.topic = "OutcomeResolved"
        BY <2>3, <3>1 DEF Key, Plain
      <3> QED  BY <3>1, <3>2 DEF TopicOf, Subscriptions
    <2>4. \A t \in Messages(r, e) : TopicOf[t.h] = e.topic
      BY DEF Messages, Task
    <2> QED  BY <1>1, <2>1, <2>2, <2>3, <2>4 DEF Aside
  <1>3. CASE \E t, more : /\ t.r = r /\ (t \in tasks \/ t.p # "start")
                          /\ Aside(r, more) /\ Continue(t, more)
    BY <1>1, <1>3 DEF Continue, Aside
  <1>4. CASE \E more : Aside(r, more) /\ tasks' = tasks \cup more /\ UNCHANGED <<state, log>>
    BY <1>1, <1>4 DEF Aside
  <1> QED  BY <1>2, <1>3, <1>4 DEF Moves

\* A step that does not concern the deadline.
LEMMA OnceKept ==
    ASSUME PipeOK, Ledger, NEW r \in Reqs, NEW S, Moves(r, S), DeadlineOnce(r),
           S \cap {"TimeoutScheduled", "TimeoutPositionChecked"} = {}
    PROVE  DeadlineOnce(r)'
  <1>1. "WaitDeadline" \in Subscriptions /\ TopicOf["WaitDeadline"] = "TimeoutScheduled"
    BY DEF TopicOf, Subscriptions
  <1>2. \A t \in Starts(tasks', "WaitDeadline", r) : t \in Starts(tasks, "WaitDeadline", r)
    BY <1>1, MovesWork DEF Starts
  <1>3. \A e \in log'[r] : e.topic \in {"TimeoutScheduled", "TimeoutPositionChecked"} => e \in log[r]
    BY MovesWork
  <1>4. log[r] \subseteq log'[r]  BY MovesWork
  <1> QED  BY <1>2, <1>3, <1>4 DEF DeadlineOnce, Has, Starts

\* A step that publishes none of the three and consumes no watcher of r.
LEMMA WatchKept ==
    ASSUME IInv, IInv', Ledger, NEW r \in Reqs, NEW S, Moves(r, S), WatchOK(r),
           S \cap WatchTopics = {}, intent' = intent, TimerOK(r)',
           \A t \in tasks : t.r = r /\ t.h \in Watchers => t \in tasks',
           armed[r] \cap CloseTimers \subseteq armed'[r]
    PROVE  WatchOK(r)'
  <1>1. DeadlineOnce(r)'
    BY OnceKept DEF IInv, WatchOK, WatchTopics
  <1>2. state[r] \in Terminal => state'[r] \in Terminal
    BY EndedStays
  <1>3. \A topic \in WatchTopics : Has(r, topic)' => Has(r, topic)
    BY MovesWork DEF Has, IInv
  <1>4. \A hs \in SUBSET Watchers : Busy(r, hs) => Busy(r, hs)'
    BY DEF Busy
  <1>5. At("ResolveOutcome", r, "enrich") # {} => At("ResolveOutcome", r, "enrich")' # {}
    BY DEF At, Watchers
  <1>6. DeadlineWorked(r)'
    BY <1>2, <1>3, <1>4 DEF WatchOK, DeadlineWorked, WatchTopics, Watchers
  <1>7. FillGuarded(r)'
    BY <1>2, <1>3, <1>4, <1>5 DEF WatchOK, FillGuarded, WatchTopics, Watchers
  <1> QED  BY <1>1, <1>6, <1>7 DEF WatchOK

\* A step that ends the order.
LEMMA EndsWatch ==
    ASSUME IInv, Ledger, NEW r \in Reqs, NEW S, Moves(r, S), WatchOK(r),
           S \cap WatchTopics = {}, TimerOK(r)', state'[r] \in Terminal
    PROVE  WatchOK(r)'
  <1>1. DeadlineOnce(r)'
    BY OnceKept DEF IInv, WatchOK, WatchTopics
  <1> QED  BY <1>1 DEF WatchOK, DeadlineWorked, FillGuarded

\* A step for another request.
LEMMA OthersWatch ==
    ASSUME IInv, NEW r \in Reqs, NEW S, Moves(r, S), NEW q \in Reqs, q # r, WatchOK(q),
           intent' = intent, timer'[q] = timer[q], armed'[q] = armed[q]
    PROVE  WatchOK(q)'
  <1>1. /\ log'[q] = log[q] /\ state'[q] = state[q]
        /\ \A t \in tasks : t.r = q => t \in tasks'
        /\ \A t \in tasks' : t.r = q => t \in tasks \/ t.h = "Push"
    BY OthersKept DEF IInv
  <1>2. TimerOK(q)'  BY DEF WatchOK, TimerOK
  <1>3. DeadlineOnce(q)'  BY <1>1 DEF WatchOK, DeadlineOnce, Has, Starts
  <1>4. \A hs : Busy(q, hs) => Busy(q, hs)'  BY <1>1 DEF Busy
  <1>5. At("ResolveOutcome", q, "enrich") # {} => At("ResolveOutcome", q, "enrich")' # {}
    BY <1>1 DEF At
  <1>6. DeadlineWorked(q)'  BY <1>1, <1>4 DEF WatchOK, DeadlineWorked, Has
  <1>7. FillGuarded(q)'  BY <1>1, <1>4, <1>5 DEF WatchOK, FillGuarded, Has
  <1> QED  BY <1>2, <1>3, <1>6, <1>7 DEF WatchOK

\* A step that consumes no more than the task t.
Spares(t) == \A u \in tasks : u = t \/ u \in tasks'

LEMMA HandlersSpare ==
    ASSUME NEW t
    PROVE  /\ \A e, more : Publish(t, e, more) => Spares(t)
           /\ \A more : Continue(t, more) => Spares(t)
           /\ \A more : MarketClose(t, more) => Spares(t)
           /\ AbortOrder(t) => Spares(t)
  BY DEF Spares, Publish, Emit, Continue, MarketClose, AbortOrder

\* A handler that goes on is still there.
LEMMA GoesOnIn ==
    ASSUME NEW t, NEW p, NEW n, NEW d, NEW more, Goto(t, p, n, d) \subseteq more, Continue(t, more)
    PROVE  \E u \in tasks' : u.h = t.h /\ u.r = t.r /\ u.p = p
  BY DEF Goto, Continue, Task

\* The same of one that publishes before.
LEMMA PublishesOnIn ==
    ASSUME NEW t, NEW p, NEW n, NEW d, NEW e, NEW more, Goto(t, p, n, d) \subseteq more,
           Publish(t, e, more)
    PROVE  \E u \in tasks' : u.h = t.h /\ u.r = t.r /\ u.p = p
  BY DEF Goto, Publish, Emit, Task

\* What the timers' operations keep.
LEMMA TimersKeep ==
    ASSUME TimersOK, NEW r \in Reqs, TimerOK(r), intent' = intent,
           \/ UNCHANGED timers
           \/ CancelTimeoutGuard(r)
           \/ \E k : Expire(r, k)
           \/ \E k : Store(r, k) /\ (k = "cancel" => intent[r].type = "maker" /\ intent[r].cancelTimeout)
    PROVE  TimerOK(r)'
  <1>1. CASE UNCHANGED timers
    BY <1>1 DEF timers, TimerOK
  <1>2. CASE CancelTimeoutGuard(r)
    BY <1>2 DEF CancelTimeoutGuard, TimerOK, TimersOK
  <1>3. CASE \E k : Expire(r, k)
    BY <1>3 DEF Expire, TimerOK, TimersOK
  <1>4. CASE \E k : Store(r, k) /\ (k = "cancel" => intent[r].type = "maker" /\ intent[r].cancelTimeout)
    BY <1>4 DEF Store, TimerOK, TimersOK
  <1> QED  BY <1>1, <1>2, <1>3, <1>4

\* The steps that leave timers and watchers alone.
LEMMA WatchUnmoved ==
    ASSUME IInv, IInv', Ledger, NEW r \in Reqs, WatchOK(r),
           \/ PositionWatchReady(r) \/ FireTiming(r) \/ ExecuteOrder(r) \/ TPSLSubmission(r)
           \/ OutcomeWatcher(r) \/ PollOrder(r) \/ CancelRestingOrderOnTimeout(r)
           \/ SaveTrade(r) \/ PositionClosed(r) \/ CancelOrderReply(r)
           \/ Dispatch(r) \/ PnLDrop(r) \/ WatchExpires(r) \/ Fill(r) \/ ExchangeCancels(r)
    PROVE  WatchOK(r)'
  <1>1. intent' = intent /\ UNCHANGED timers
    BY DEF PositionWatchReady, FireTiming, ExecuteOrder, TPSLSubmission, OutcomeWatcher, PollOrder,
           CancelRestingOrderOnTimeout, SaveTrade, PositionClosed, CancelOrderReply, Dispatch,
           PnLDrop, WatchExpires, Fill, ExchangeCancels
  <1>2. PICK S : Moves(r, S) /\ S \cap WatchTopics = {}
    <2>1. /\ {"PositionWatchReady"} \cap WatchTopics = {} /\ {"FireWindowReached"} \cap WatchTopics = {}
          /\ {"TPSLDispatched"} \cap WatchTopics = {} /\ {"OutcomeResolved"} \cap WatchTopics = {}
          /\ {"PositionClosed"} \cap WatchTopics = {} /\ {"Canceled"} \cap WatchTopics = {}
          /\ {"Intent"} \cap WatchTopics = {} /\ {} \cap WatchTopics = {}
      BY DEF WatchTopics
    <2> QED  BY <2>1, FireMoves, ExecuteMoves, WatchMoves, TimerMoves, CompletionMoves, CallMoves,
                ExchangeMoves
  <1>3. \A t \in tasks : t.r = r /\ t.h \in Watchers => t \in tasks'
    <2>1. CASE \/ PositionWatchReady(r) \/ FireTiming(r) \/ ExecuteOrder(r) \/ TPSLSubmission(r)
               \/ OutcomeWatcher(r) \/ PollOrder(r) \/ CancelRestingOrderOnTimeout(r)
               \/ SaveTrade(r) \/ PositionClosed(r) \/ CancelOrderReply(r)
      <3>1. PICK t : Spares(t) /\ t.h \in {"WatchReady", "FireTiming", "Execute", "TPSL",
                     "OutcomeWatcher", "CancelTimer", "SaveTrade", "Push", "CancelCall"}
        BY <2>1, HandlersSpare
           DEF PositionWatchReady, FireTiming, ExecuteOrder, TPSLSubmission, OutcomeWatcher, PollOrder,
               CancelRestingOrderOnTimeout, SaveTrade, PositionClosed, CancelOrderReply, Ready, At
      <3> QED  BY <3>1 DEF Spares, Watchers, Deadlines
    <2>2. CASE PnLDrop(r)
      <3>1. Spares(Task("Trail", r, "hold", "close", 1))
        BY <2>2, HandlersSpare DEF PnLDrop
      <3> QED  BY <3>1 DEF Spares, Watchers, Deadlines, Task
    <2>3. CASE Dispatch(r) \/ WatchExpires(r) \/ Fill(r) \/ ExchangeCancels(r)
      BY <2>3 DEF Dispatch, WatchExpires, Fill, ExchangeCancels, Emit
    <2> QED  BY <2>1, <2>2, <2>3
  <1>4. TimerOK(r)' /\ armed' = armed
    BY <1>1, TimersKeep DEF WatchOK, IInv, timers
  <1> QED  BY <1>1, <1>2, <1>3, <1>4, WatchKept

\* An abort and a completion end the order.
LEMMA PublishedEnds ==
    ASSUME IInv, NEW t \in tasks, NEW e \in EventType, e.topic \in {"Aborted", "Completed"},
           NEW more, Publish(t, e, more)
    PROVE  state'[t.r] \in Terminal
  <1>1. t.r \in Reqs /\ TaskOK(t) /\ Received(t) \in States
    BY ReceivedState DEF IInv, PipeOK, TaskOK, TaskType
  <1>2. state'[t.r] = Apply(Received(t), e)
    BY <1>1 DEF Publish, Emit, IInv, PipeOK
  <1>3. Target(e) \in Terminal /\ Rank[Target(e)] = 11
    BY DEF Target, NextState, Event, Terminal, Rank
  <1>4. Rank[Received(t)] \in 1 .. 11
    BY <1>1, Ranks
  <1> QED  BY <1>2, <1>3, <1>4, ApplyTarget

\* When the completion is handled the order has ended.
LEMMA CompletedIsEnded ==
    ASSUME IInv, Ledger, NEW r \in Reqs, NEW t \in Ready("Complete", r)
    PROVE  state[r] \in Terminal
  <1>1. Event("Completed", t.d) \in log[r]
    BY DEF Ready, Ledger, Delivered, Subscriptions, TopicOf
  <1>2. Rank["COMPLETED"] <= Rank[state[r]]
    BY <1>1 DEF Ledger, KeepsUp, RankedIn, Target, Event, NextState
  <1>3. state[r] \in States /\ Rank["COMPLETED"] = 11
    BY DEF IInv, PipeOK, Rank
  <1> QED  BY <1>2, <1>3, Ranks

\* The steps that end the order, and the completion, which finds it ended.
LEMMA WatchEnds ==
    ASSUME IInv, IInv', Ledger, NEW r \in Reqs, WatchOK(r),
           \/ PreFlight(r) \/ SubmitReply(r) \/ BailoutFails(r)
           \/ EnrichAndComplete(r) \/ CompleteOrder(r)
    PROVE  WatchOK(r)'
  <1> USE DEF IInv
  <1>1. intent' = intent
    BY DEF PreFlight, SubmitReply, BailoutFails, EnrichAndComplete, CompleteOrder
  <1>2. PICK S : Moves(r, S) /\ S \cap WatchTopics = {}
    <2>1. /\ {"PreFlightDone", "Aborted"} \cap WatchTopics = {} /\ {"Submitted", "Aborted"} \cap WatchTopics = {}
          /\ {"Aborted"} \cap WatchTopics = {} /\ {"Completed"} \cap WatchTopics = {}
          /\ {"TradeRecord"} \cap WatchTopics = {}
      BY DEF WatchTopics
    <2> QED  BY <2>1, FireMoves, BailoutMoves, CompletionMoves
  <1>3. ASSUME NEW t \in tasks, t.r = r, AbortOrder(t) PROVE WatchOK(r)'
    <2>1. state'[r] \in Terminal
      BY <1>3, PublishedEnds, PlainEvents, Topical DEF AbortOrder, EventOK, Plain, Event
    <2>2. TimerOK(r)'
      BY <1>1, <1>3, TimersKeep DEF AbortOrder, WatchOK
    <2> QED  BY <1>2, <2>1, <2>2, EndsWatch
  <1>4. ASSUME UNCHANGED timers, NEW t, Spares(t), t.h \notin Watchers PROVE WatchOK(r)'
    <2>1. TimerOK(r)' /\ armed' = armed
      BY <1>1, <1>4, TimersKeep DEF WatchOK, timers
    <2> QED  BY <1>1, <1>2, <1>4, <2>1, WatchKept DEF Spares
  <1>5. CASE PreFlight(r) \/ SubmitReply(r)
    <2>1. PICK t \in Ready("PreFlight", r) \cup At("Execute", r, "reply") :
             AbortOrder(t) \/ (Spares(t) /\ UNCHANGED timers)
      BY <1>5, HandlersSpare DEF PreFlight, SubmitReply
    <2>2. t \in tasks /\ t.r = r /\ t.h \notin Watchers
      BY DEF Ready, At, Watchers, Deadlines
    <2> QED  BY <1>3, <1>4, <2>1, <2>2
  <1>6. CASE BailoutFails(r)
    <2>1. PICK t \in tasks : t.r = r /\ (AbortOrder(t) \/ (Spares(t) /\ UNCHANGED timers /\ t.h = "Trail"))
      BY <1>6, HandlersSpare DEF BailoutFails, At
    <2> QED  BY <1>3, <1>4, <2>1 DEF Watchers, Deadlines
  <1>7. CASE EnrichAndComplete(r)
    <2>1. PICK t \in tasks, o \in Outcomes : t.r = r /\ Publish(t, Event("Completed", o), {})
      <3>1. PICK t \in tasks : /\ t.p = "enrich" /\ t.r = r
                               /\ \E o \in {t.d, "canceled_no_fill"} : Publish(t, Event("Completed", o), {})
        BY <1>7 DEF EnrichAndComplete, At
      <3>2. t.d \in Outcomes /\ "canceled_no_fill" \in Outcomes
        BY <3>1 DEF PipeOK, TaskOK, Outcomes
      <3> QED  BY <3>1, <3>2
    <2>2. Event("Completed", o) \in EventType /\ Event("Completed", o).topic = "Completed"
      BY OutcomeEvents, Topical DEF Event, EventOK
    <2>3. state'[r] \in Terminal
      BY <2>1, <2>2, PublishedEnds
    <2>4. TimerOK(r)'
      BY <1>1, <1>7, TimersKeep DEF EnrichAndComplete, WatchOK
    <2> QED  BY <1>2, <2>3, <2>4, EndsWatch
  <1>8. CASE CompleteOrder(r)
    <2>1. state[r] \in Terminal
      BY <1>8, CompletedIsEnded DEF CompleteOrder
    <2>2. state'[r] \in Terminal
      BY <1>2, <2>1, EndedStays
    <2>3. TimerOK(r)'
      BY <1>1, <1>8, TimersKeep DEF CompleteOrder, WatchOK
    <2> QED  BY <1>2, <2>2, <2>3, EndsWatch
  <1> QED  BY <1>5, <1>6, <1>7, <1>8

\* The unfilled cancel timer, and the close timer that is stored after the submission.
LEMMA WatchTimers ==
    ASSUME IInv, IInv', Ledger, NEW r \in Reqs, WatchOK(r),
           ScheduleUnfilledCancelTimeout(r) \/ CancelTimerFires(r)
    PROVE  WatchOK(r)'
  <1> USE DEF IInv
  <1>1. intent' = intent /\ Moves(r, {}) /\ {} \cap WatchTopics = {}
    BY WatchMoves, TimerMoves DEF ScheduleUnfilledCancelTimeout, CancelTimerFires
  <1>2. CASE ScheduleUnfilledCancelTimeout(r)
    <2>1. PICK t \in Ready("ScheduleTimeout", r) : Spares(t)
      BY <1>2, HandlersSpare DEF ScheduleUnfilledCancelTimeout
    <2>2. TimerOK(r)'
      BY <1>1, <1>2, TimersKeep DEF ScheduleUnfilledCancelTimeout, WatchOK
    <2>3. armed[r] \subseteq armed'[r]
      BY <1>2 DEF ScheduleUnfilledCancelTimeout, Store, timers, TimersOK
    <2> QED  BY <1>1, <2>1, <2>2, <2>3, WatchKept DEF Spares, Ready, Watchers, Deadlines
  <1>3. CASE CancelTimerFires(r)
    <2>1. TimerOK(r)'
      BY <1>1, <1>3, TimersKeep DEF CancelTimerFires, WatchOK
    <2>2. tasks \subseteq tasks' /\ armed[r] \cap CloseTimers \subseteq armed'[r]
      BY <1>3 DEF CancelTimerFires, Expire, CloseTimers, TimersOK
    <2> QED  BY <1>1, <2>1, <2>2, WatchKept
  <1> QED  BY <1>2, <1>3

\* A watcher that goes on, or hands the watch over.
LEMMA WatchPassed ==
    ASSUME IInv, IInv', Ledger, NEW r \in Reqs, NEW S, Moves(r, S), WatchOK(r),
           S \cap WatchTopics = {}, TimerOK(r)', NEW t, Spares(t),
           t.h \notin Deadlines \/ Busy(r, Deadlines)' \/ state'[r] \in Terminal,
           FillGuarded(r)'
    PROVE  WatchOK(r)'
  <1>1. DeadlineOnce(r)'
    BY OnceKept DEF IInv, WatchOK, WatchTopics
  <1>2. state[r] \in Terminal => state'[r] \in Terminal
    BY EndedStays
  <1>3. Has(r, "TimeoutScheduled")' => Has(r, "TimeoutScheduled")
    BY MovesWork DEF Has, IInv, WatchTopics
  <1>4. Busy(r, Deadlines) => Busy(r, Deadlines)' \/ t.h \in Deadlines
    BY DEF Busy, Spares
  <1>5. DeadlineWorked(r)'
    BY <1>2, <1>3, <1>4 DEF WatchOK, DeadlineWorked
  <1> QED  BY <1>1, <1>5 DEF WatchOK

\* The hold watchdog: the close timer runs once the fill was handled.
LEMMA WatchScheduleClose ==
    ASSUME IInv, IInv', Ledger, OneTimeoutEach, NEW r \in Reqs, WatchOK(r),
           SchedulePositionCloseTimeout(r)
    PROVE  WatchOK(r)'
  <1> USE DEF IInv
  <1>1. intent' = intent /\ Moves(r, {})
    BY WatchMoves DEF SchedulePositionCloseTimeout
  <1>2. TimerOK(r)'
    BY <1>1, TimersKeep DEF SchedulePositionCloseTimeout, WatchOK
  <1>3. PICK t \in Ready("ScheduleClose", r) : Spares(t)
    BY HandlersSpare DEF SchedulePositionCloseTimeout
  <1>4. ASSUME intent[r].closeTimeout PROVE armed'[r] \cap CloseTimers # {}
    <2>1. CASE timer[r] = "none"
      <3>1. Store(r, "closeFilled")
        BY <1>4, <2>1 DEF SchedulePositionCloseTimeout
      <3>2. "closeFilled" \in armed'[r]
        BY <3>1 DEF Store, TimersOK
      <3> QED  BY <3>2 DEF CloseTimers
    <2>2. CASE timer[r] # "none"
      <3>1. timer[r] \in armed[r] /\ timer[r] # "cancel" /\ timer[r] \in TimerKinds
        BY <1>4, <2>2 DEF WatchOK, TimerOK, TimersOK, IntentOK, OneTimeoutEach
      <3>2. armed' = armed
        BY <2>2 DEF SchedulePositionCloseTimeout, timers
      <3> QED  BY <3>1, <3>2 DEF TimerKinds, CloseTimers
    <2> QED  BY <2>1, <2>2
  <1>5. FillGuarded(r)'
    BY <1>1, <1>4 DEF FillGuarded
  <1>6. t.h \notin Deadlines
    BY <1>3 DEF Ready, Deadlines
  <1> QED  BY <1>1, <1>2, <1>3, <1>5, <1>6, WatchPassed

\* The outcome either completes the order or leaves its guard alone.
LEMMA WatchOutcome ==
    ASSUME IInv, IInv', Ledger, NEW r \in Reqs, WatchOK(r), ResolveOutcome(r)
    PROVE  WatchOK(r)'
  <1> USE DEF IInv
  <1>1. intent' = intent /\ Moves(r, {})
    BY WatchMoves DEF ResolveOutcome
  <1>2. TimerOK(r)'
    BY <1>1, TimersKeep DEF ResolveOutcome, WatchOK
  <1>3. PICK t \in Ready("ResolveOutcome", r) :
          /\ Spares(t)
          /\ \/ Continue(t, Goto(t, "enrich", 1, t.d))
             \/ UNCHANGED timers
    BY HandlersSpare DEF ResolveOutcome
  <1>4. t.h = "ResolveOutcome" /\ t.p = "start" /\ t.r = r
    BY DEF Ready
  <1>5. FillGuarded(r)'
    <2>1. CASE Continue(t, Goto(t, "enrich", 1, t.d))
      <3>1. \E u \in tasks' : u.h = "ResolveOutcome" /\ u.r = r /\ u.p = "enrich"
        BY <1>4, <2>1, GoesOnIn
      <3>2. At("ResolveOutcome", r, "enrich")' # {}
        BY <3>1 DEF At
      <3> QED  BY <3>2 DEF FillGuarded
    <2>2. CASE UNCHANGED timers
      <3>1. state[r] \in Terminal => state'[r] \in Terminal
        BY <1>1, EndedStays
      <3>2. Has(r, "Filled")' => Has(r, "Filled")
        BY <1>1, MovesWork DEF Has
      <3>3. Busy(r, {"ScheduleClose", "PositionClosed"} \cup Deadlines)
              => Busy(r, {"ScheduleClose", "PositionClosed"} \cup Deadlines)'
        BY <1>3, <1>4 DEF Busy, Spares, Deadlines
      <3>4. At("ResolveOutcome", r, "enrich") # {} => At("ResolveOutcome", r, "enrich")' # {}
        BY <1>3, <1>4 DEF At, Spares
      <3> QED  BY <1>1, <2>2, <3>1, <3>2, <3>3, <3>4 DEF WatchOK, FillGuarded, timers
    <2> QED  BY <1>3, <2>1, <2>2
  <1> QED  BY <1>1, <1>2, <1>3, <1>4, <1>5, WatchPassed DEF Deadlines

\* A close of the position turns into the completion.
LEMMA WatchPositionClosed ==
    ASSUME IInv, IInv', Ledger, NEW r \in Reqs, WatchOK(r), PositionClosedDone(r)
    PROVE  WatchOK(r)'
  <1> USE DEF IInv
  <1>1. intent' = intent /\ Moves(r, {})
    BY CompletionMoves DEF PositionClosedDone
  <1>2. TimerOK(r)'
    BY <1>1, TimersKeep DEF PositionClosedDone, WatchOK
  <1>3. PICK t \in Ready("PositionClosed", r) :
          Spares(t) /\ Continue(t, Goto(t, "enrich", 1, "filled"))
    BY HandlersSpare DEF PositionClosedDone
  <1>4. t.h = "PositionClosed" /\ t.r = r
    BY DEF Ready
  <1>5. Busy(r, {"ScheduleClose", "PositionClosed"} \cup Deadlines)'
    BY <1>3, <1>4, GoesOnIn DEF Busy
  <1> QED  BY <1>1, <1>2, <1>3, <1>4, <1>5, WatchPassed DEF Deadlines, FillGuarded

\* The deadline is read once, and handed over to the check of the position.
LEMMA WatchDeadline ==
    ASSUME IInv, IInv', Ledger, NEW r \in Reqs, WatchOK(r), WaitTimeoutDeadline(r)
    PROVE  WatchOK(r)'
  <1> USE DEF IInv
  <1>1. /\ intent' = intent /\ Moves(r, {"TimeoutPositionChecked"})
        /\ UNCHANGED timers
    BY TimerMoves DEF WaitTimeoutDeadline
  <1>2. TimerOK(r)'
    BY <1>1, TimersKeep DEF WatchOK
  <1>3. PICK t \in Ready("WaitDeadline", r), held \in {"hold", "none"} :
          Publish(t, Event("TimeoutPositionChecked", held), {})
    BY DEF WaitTimeoutDeadline
  <1>4. t \in tasks /\ t.h = "WaitDeadline" /\ t.p = "start" /\ t.r = r
    BY <1>3 DEF Ready
  <1>5. "WaitDeadline" \in Subscriptions /\ TopicOf["WaitDeadline"] = "TimeoutScheduled"
    BY DEF TopicOf, Subscriptions
  <1>6. \A u \in Starts(tasks, "WaitDeadline", r) : u = t
    <2> SUFFICES ASSUME NEW u \in Starts(tasks, "WaitDeadline", r) PROVE u = t
      OBVIOUS
    <2>1. /\ u.n = 0 /\ Event("TimeoutScheduled", u.d) \in log[r]
          /\ t.n = 0 /\ Event("TimeoutScheduled", t.d) \in log[r]
      BY <1>4, <1>5 DEF Ledger, Delivered, Starts
    <2>2. u.d = "-" /\ t.d = "-"
      BY <2>1 DEF WatchOK, DeadlineOnce, Event
    <2>3. u \in TaskType /\ t \in TaskType /\ u.h = t.h /\ u.r = t.r /\ u.p = t.p
      BY <1>4 DEF PipeOK, TaskOK, Starts
    <2> QED  BY <2>1, <2>2, <2>3 DEF TaskType
  <1>7. ~Has(r, "TimeoutPositionChecked") /\ Has(r, "TimeoutScheduled")
    <2>1. t \in Starts(tasks, "WaitDeadline", r)
      BY <1>4 DEF Starts
    <2>2. Event("TimeoutScheduled", t.d) \in log[r]
      BY <1>4, <1>5 DEF Ledger, Delivered
    <2> QED  BY <2>1, <2>2 DEF WatchOK, DeadlineOnce, Has, Event
  <1> DEFINE e == Event("TimeoutPositionChecked", held)
  <1>8. tasks' = (tasks \ {t}) \cup Messages(r, e) /\ log'[r] = log[r] \cup {e}
    BY <1>3, <1>4 DEF Publish, Emit, PipeOK
  <1>9. e.topic = "TimeoutPositionChecked" /\ Key(e) = Plain("TimeoutPositionChecked")
    BY DEF Event, Key, Plain
  <1> HIDE DEF e
  <1>10. Task("PositionChecked", r, e.data, "start", 0) \in Messages(r, e)
    <2>1. ~\E f \in log[r] : Key(f) = Key(e)
      BY <1>7, <1>9, KeyTopic DEF Has
    <2>2. "PositionChecked" \in Subscriptions /\ TopicOf["PositionChecked"] = e.topic
      BY <1>9 DEF TopicOf, Subscriptions
    <2> QED  BY <2>1, <2>2 DEF Messages
  <1>11. \E u \in tasks' : u.r = r /\ u.h = "PositionChecked"
    BY <1>8, <1>10 DEF Task
  <1>12. \A u \in Messages(r, e) : u.h # "WaitDeadline"
    BY <1>5, <1>9 DEF Messages, Task
  <1>13. DeadlineOnce(r)'
    <2>1. Starts(tasks, "WaitDeadline", r)' = {}
      BY <1>6, <1>8, <1>12 DEF Starts
    <2>2. Has(r, "TimeoutScheduled")'
      BY <1>7, <1>8 DEF Has
    <2>3. \A f \in log'[r] : f.topic = "TimeoutScheduled" => f.data = "-"
      BY <1>8, <1>9 DEF WatchOK, DeadlineOnce
    <2> QED  BY <2>1, <2>2, <2>3 DEF DeadlineOnce
  <1>14. DeadlineWorked(r)' /\ FillGuarded(r)'
    BY <1>11 DEF DeadlineWorked, FillGuarded, Busy, Deadlines
  <1> QED  BY <1>2, <1>13, <1>14 DEF WatchOK

\* The check of the position and the attempts of the bailout.
LEMMA WatchChecked ==
    ASSUME IInv, IInv', Ledger, NEW r \in Reqs, WatchOK(r),
           TimeoutNoPosition(r) \/ TimeoutBailout(r) \/ BailoutAttempt(r)
    PROVE  WatchOK(r)'
  <1> USE DEF IInv
  <1>1. intent' = intent /\ UNCHANGED timers
    BY DEF TimeoutNoPosition, TimeoutBailout, BailoutAttempt
  <1>2. PICK S : Moves(r, S) /\ S \cap WatchTopics = {}
    <2>1. {} \cap WatchTopics = {} /\ {"BailoutExecuted"} \cap WatchTopics = {}
      BY DEF WatchTopics
    <2> QED  BY <2>1, TimerMoves, BailoutMoves
  <1>3. TimerOK(r)' /\ armed' = armed
    BY <1>1, TimersKeep DEF WatchOK, timers
  <1>4. ASSUME NEW t, Spares(t), t.h \notin Watchers PROVE WatchOK(r)'
    BY <1>1, <1>2, <1>3, <1>4, WatchKept DEF Spares
  <1>5. ASSUME NEW t, Spares(t), state'[r] \in Terminal PROVE WatchOK(r)'
    BY <1>2, <1>3, <1>5, EndsWatch
  <1>6. ASSUME NEW u \in tasks', u.r = r, u.h = "PositionChecked", NEW t, Spares(t) PROVE WatchOK(r)'
    <2>1. Busy(r, Deadlines)' /\ FillGuarded(r)'
      BY <1>6 DEF Busy, Deadlines, FillGuarded
    <2> QED  BY <1>2, <1>3, <1>6, <2>1, WatchPassed
  <1>7. CASE TimeoutNoPosition(r)
    <2>1. PICK t \in Ready("PositionChecked", r) :
             \/ Rank[Received(t)] >= Rank["COMPLETED"] /\ Continue(t, {})
             \/ \E o : Continue(t, Goto(t, "enrich", 1, o))
      BY <1>7 DEF TimeoutNoPosition
    <2>2. t.h = "PositionChecked" /\ t.r = r /\ TaskOK(t)
      BY HandlerTask DEF Ready
    <2>3. CASE Rank[Received(t)] >= Rank["COMPLETED"] /\ Continue(t, {})
      <3>1. Received(t) \in States
        BY <2>2, ReceivedState
      <3>2. Received(t) \in Terminal
        BY <2>3, <3>1, Ranks DEF Rank
      <3>3. state'[r] = Received(t)
        BY <2>2, <2>3 DEF Continue, PipeOK
      <3> QED  BY <1>5, <2>3, <3>2, <3>3, HandlersSpare
    <2>4. CASE \E o : Continue(t, Goto(t, "enrich", 1, o))
      BY <1>6, <2>2, <2>4, GoesOnIn, HandlersSpare
    <2> QED  BY <2>1, <2>3, <2>4
  <1>8. ASSUME NEW t, t.h = "PositionChecked", t.r = r, NEW n, NEW d,
               MarketClose(t, Goto(t, "close", n, d))
        PROVE  WatchOK(r)'
    <2>1. PICK more : Goto(t, "close", n, d) \subseteq more /\ Continue(t, more)
      BY <1>8 DEF MarketClose
    <2>2. \E u \in tasks' : u.h = t.h /\ u.r = t.r /\ u.p = "close"
      BY <2>1, GoesOnIn
    <2> QED  BY <1>6, <1>8, <2>1, <2>2, HandlersSpare
  <1>9. CASE TimeoutBailout(r)
    <2>1. PICK t \in Ready("PositionChecked", r) : MarketClose(t, Goto(t, "close", 1, "hold"))
      BY <1>9 DEF TimeoutBailout
    <2> QED  BY <1>8, <2>1 DEF Ready
  <1>10. CASE BailoutAttempt(r)
    <2>1. PICK t \in At("PositionChecked", r, "close") \cup At("Trail", r, "close") :
             \/ Publish(t, Plain("BailoutExecuted"),
                        IF t.h = "Trail" THEN {} ELSE Goto(t, "enrich", 1, "bailout"))
             \/ MarketClose(t, Goto(t, "close", t.n + 1, t.d))
             \/ Continue(t, Goto(t, "close", t.n + 1, t.d))
      BY <1>10 DEF BailoutAttempt
    <2>2. t.r = r /\ t.h \in {"PositionChecked", "Trail"}
      BY DEF At
    <2>3. Spares(t)
      BY <2>1, HandlersSpare
    <2>4. CASE t.h = "Trail"
      BY <1>4, <2>3, <2>4 DEF Watchers, Deadlines
    <2>5. CASE t.h = "PositionChecked"
      <3>1. ASSUME NEW e, Publish(t, e, Goto(t, "enrich", 1, "bailout")) PROVE WatchOK(r)'
        <4>1. \E u \in tasks' : u.h = t.h /\ u.r = t.r /\ u.p = "enrich"
          BY <3>1, PublishesOnIn
        <4> QED  BY <1>6, <2>2, <2>3, <2>5, <4>1
      <3>2. CASE MarketClose(t, Goto(t, "close", t.n + 1, t.d))
        BY <1>8, <2>2, <2>5, <3>2
      <3>3. CASE Continue(t, Goto(t, "close", t.n + 1, t.d))
        BY <1>6, <2>2, <2>3, <2>5, <3>3, GoesOnIn
      <3> QED  BY <2>1, <2>5, <3>1, <3>2, <3>3
    <2> QED  BY <2>2, <2>4, <2>5
  <1> QED  BY <1>7, <1>9, <1>10

\* A close timer that fires meets the deadline, or met it before.
LEMMA WatchCloseTimer ==
    ASSUME IInv, IInv', Ledger, NEW r \in Reqs, WatchOK(r), CloseTimerFires(r)
    PROVE  WatchOK(r)'
  <1> USE DEF IInv
  <1> DEFINE e == Plain("TimeoutScheduled")
  <1>1. intent' = intent /\ Moves(r, {"TimeoutScheduled"})
    BY TimerMoves DEF CloseTimerFires
  <1>2. TimerOK(r)'
    BY <1>1, TimersKeep DEF CloseTimerFires, WatchOK
  <1>3. log'[r] = log[r] \cup {e} /\ tasks' = tasks \cup Messages(r, e)
    BY DEF CloseTimerFires, Emit, PipeOK
  <1>4. e.topic = "TimeoutScheduled" /\ e.data = "-"
    BY DEF Plain, Event
  <1>5. Key(e) = e
    BY <1>4 DEF Key
  <1> HIDE DEF e
  <1>6. CASE Has(r, "TimeoutScheduled")
    <2>1. PICK f \in log[r] : f.topic = "TimeoutScheduled"
      BY <1>6 DEF Has
    <2>2. Key(f) = Key(e)
      BY <1>4, <2>1 DEF Key
    <2>3. tasks' = tasks
      BY <1>3, <2>1, <2>2 DEF Messages
    <2>4. DeadlineOnce(r)'
      BY <1>3, <1>4, <1>6, <2>3 DEF WatchOK, DeadlineOnce, Has
    <2>5. state'[r] \in Terminal \/ Busy(r, Deadlines)'
      BY <1>1, <1>6, <2>3, EndedStays DEF WatchOK, DeadlineWorked, Busy
    <2> QED  BY <1>2, <2>4, <2>5 DEF WatchOK, DeadlineWorked, FillGuarded, Busy, Deadlines
  <1>7. CASE ~Has(r, "TimeoutScheduled")
    <2>1. \A f \in log[r] : Key(f) # Key(e)
      BY <1>4, <1>7, KeyTopic DEF Has
    <2>2. "WaitDeadline" \in Subscriptions /\ TopicOf["WaitDeadline"] = e.topic
      BY <1>4 DEF TopicOf, Subscriptions
    <2>3. Task("WaitDeadline", r, e.data, "start", 0) \in tasks'
      BY <1>3, <2>1, <2>2 DEF Messages
    <2>4. \E u \in tasks' : u.r = r /\ u.h = "WaitDeadline"
      BY <2>3 DEF Task
    <2>5. ~Has(r, "TimeoutPositionChecked")
      BY <1>7 DEF WatchOK, DeadlineOnce
    <2>6. DeadlineOnce(r)'
      BY <1>3, <1>4, <2>5 DEF WatchOK, DeadlineOnce, Has
    <2>7. Busy(r, Deadlines)'
      BY <2>4 DEF Busy, Deadlines
    <2> QED  BY <1>2, <2>6, <2>7 DEF WatchOK, DeadlineWorked, FillGuarded, Busy, Deadlines
  <1> QED  BY <1>6, <1>7

\* The first push of a position starts the hold watchdog.
LEMMA WatchFilled ==
    ASSUME IInv, IInv', Ledger, NEW r \in Reqs, WatchOK(r), PositionFilled(r)
    PROVE  WatchOK(r)'
  <1> USE DEF IInv
  <1> DEFINE e == Plain("Filled")
  <1>1. intent' = intent /\ UNCHANGED timers /\ Moves(r, {"Filled"})
    BY CallMoves DEF PositionFilled
  <1>2. TimerOK(r)' /\ armed' = armed
    BY <1>1, TimersKeep DEF WatchOK, timers
  <1>3. PICK t \in Ready("Push", r) : Continue(t, {}) \/ (~HasFilled(r) /\ Publish(t, e, {}))
    BY DEF PositionFilled
  <1>4. t \in tasks /\ t.r = r /\ t.h = "Push" /\ Spares(t)
    BY <1>3, HandlersSpare DEF Ready
  <1>5. CASE Continue(t, {})
    <2>1. Moves(r, {}) /\ {} \cap WatchTopics = {}
      BY <1>4, <1>5, ContinueMoves, NothingAside
    <2> QED  BY <1>1, <1>2, <1>4, <2>1, WatchKept DEF Spares, Watchers, Deadlines
  <1>6. CASE ~HasFilled(r) /\ Publish(t, e, {})
    <2>1. tasks' = (tasks \ {t}) \cup Messages(r, e)
      BY <1>4, <1>6 DEF Publish, Emit
    <2>2. e.topic = "Filled"
      BY DEF Plain, Event
    <2> HIDE DEF e
    <2>3. \A f \in log[r] : Key(f) # Key(e)
      BY <1>6, <2>2, KeyTopic DEF HasFilled, Has
    <2>4. "ScheduleClose" \in Subscriptions /\ TopicOf["ScheduleClose"] = e.topic
      BY <2>2 DEF TopicOf, Subscriptions
    <2>5. Task("ScheduleClose", r, e.data, "start", 0) \in tasks'
      BY <2>1, <2>3, <2>4 DEF Messages
    <2>6. \E u \in tasks' : u.r = r /\ u.h = "ScheduleClose"
      BY <2>5 DEF Task
    <2>7. FillGuarded(r)'
      BY <2>6 DEF FillGuarded, Busy
    <2>8. DeadlineOnce(r)'
      BY <1>1, OnceKept DEF WatchOK
    <2>9. Has(r, "TimeoutScheduled")' => Has(r, "TimeoutScheduled")
      BY <1>1, MovesWork DEF Has
    <2>10. Busy(r, Deadlines) => Busy(r, Deadlines)'
      BY <1>4 DEF Busy, Spares, Deadlines
    <2>11. DeadlineWorked(r)'
      BY <1>1, <2>9, <2>10, EndedStays DEF WatchOK, DeadlineWorked
    <2> QED  BY <1>2, <2>7, <2>8, <2>11 DEF WatchOK
  <1> QED  BY <1>3, <1>5, <1>6

\* The steps of other requests and of the exchange.
LEMMA WatchStill ==
    ASSUME IInv, IInv', Ledger, NEW r \in Reqs, WatchOK(r),
           ExchangeCloses \/ Snapshot \/ UNCHANGED vars
    PROVE  WatchOK(r)'
  <1>1. Moves(r, {}) /\ {} \cap WatchTopics = {}
    BY ExchangeMoves, StillMoves DEF vars
  <1>2. intent' = intent /\ UNCHANGED timers /\ tasks \subseteq tasks'
    BY DEF ExchangeCloses, Snapshot, vars
  <1>3. TimerOK(r)' /\ armed' = armed
    BY <1>2, TimersKeep DEF WatchOK, IInv, timers
  <1> QED  BY <1>1, <1>2, <1>3, WatchKept

\* Timers of other requests.
LEMMA TimersOfOthers ==
    ASSUME IInv, NEW r \in Reqs, NEW q \in Reqs, q # r,
           (Pipeline(r) \/ Environment(r)) /\ ~CancelOrder(r)
    PROVE  intent' = intent /\ timer'[q] = timer[q] /\ armed'[q] = armed[q]
  <1> USE DEF IInv, TimersOK
  <1>1. /\ intent' = intent
        /\ \/ UNCHANGED timers
           \/ CancelTimeoutGuard(r)
           \/ \E k : Store(r, k) \/ Expire(r, k)
    <2>1. CASE PreFlight(r) \/ SubmitReply(r) \/ BailoutFails(r)
      <3>1. \A h, p : \A t \in Ready(h, r) \cup At(h, r, p) : t.r = r
        BY DEF Ready, At
      <3>2. CASE PreFlight(r)
        BY <3>1, <3>2 DEF PreFlight, AbortOrder
      <3>3. CASE SubmitReply(r)
        BY <3>1, <3>3 DEF SubmitReply, AbortOrder
      <3>4. CASE BailoutFails(r)
        BY <3>1, <3>4 DEF BailoutFails, AbortOrder
      <3> QED  BY <2>1, <3>2, <3>3, <3>4
    <2>2. CASE \/ PositionWatchReady(r) \/ FireTiming(r) \/ ExecuteOrder(r) \/ TPSLSubmission(r)
               \/ OutcomeWatcher(r) \/ PollOrder(r) \/ CancelRestingOrderOnTimeout(r)
               \/ SaveTrade(r) \/ PositionFilled(r) \/ PositionClosed(r) \/ CancelOrderReply(r)
      BY <2>2 DEF PositionWatchReady, FireTiming, ExecuteOrder, TPSLSubmission, OutcomeWatcher,
                  PollOrder, CancelRestingOrderOnTimeout, SaveTrade, PositionFilled, PositionClosed,
                  CancelOrderReply
    <2>3. CASE \/ ScheduleUnfilledCancelTimeout(r) \/ SchedulePositionCloseTimeout(r)
               \/ ResolveOutcome(r) \/ CancelTimerFires(r) \/ CloseTimerFires(r)
      BY <2>3 DEF ScheduleUnfilledCancelTimeout, SchedulePositionCloseTimeout, ResolveOutcome,
                  CancelTimerFires, CloseTimerFires
    <2>4. CASE \/ WaitTimeoutDeadline(r) \/ TimeoutNoPosition(r) \/ TimeoutBailout(r)
               \/ BailoutAttempt(r) \/ EnrichAndComplete(r) \/ PositionClosedDone(r)
               \/ CompleteOrder(r)
      BY <2>4 DEF WaitTimeoutDeadline, TimeoutNoPosition, TimeoutBailout, BailoutAttempt,
                  EnrichAndComplete, PositionClosedDone, CompleteOrder
    <2>5. CASE Dispatch(r) \/ PnLDrop(r) \/ WatchExpires(r) \/ Fill(r) \/ ExchangeCancels(r)
      BY <2>5 DEF Dispatch, PnLDrop, WatchExpires, Fill, ExchangeCancels
    <2> QED  BY <2>1, <2>2, <2>3, <2>4, <2>5 DEF Pipeline, Environment
  <1> QED  BY <1>1 DEF timers, CancelTimeoutGuard, Store, Expire

\* Every step keeps the watch.
LEMMA WatchStep ==
    ASSUME IInv, IInv', Ledger, WatchInv, OneTimeoutEach, {"cancel", "cancelOpen"} \cap Api = {},
           [Next]_vars
    PROVE  WatchInv'
  <1>1. ASSUME NEW r \in Reqs, Pipeline(r) \/ Environment(r) PROVE WatchInv'
    <2>1. ~CancelOrder(r)  BY DEF CancelOrder
    <2>2. PICK S : Moves(r, S)
      BY <1>1, FireMoves, ExecuteMoves, WatchMoves, TimerMoves, BailoutMoves, CompletionMoves,
         CallMoves, ExchangeMoves DEF Pipeline, Environment
    <2>3. WatchOK(r)'
      BY <1>1, <2>1, WatchUnmoved, WatchEnds, WatchTimers, WatchScheduleClose, WatchOutcome,
         WatchPositionClosed, WatchDeadline, WatchChecked, WatchCloseTimer, WatchFilled
         DEF Pipeline, Environment, WatchInv
    <2>4. ASSUME NEW q \in Reqs, q # r PROVE WatchOK(q)'
      BY <1>1, <2>1, <2>2, <2>4, OthersWatch, TimersOfOthers DEF WatchInv
    <2> QED  BY <2>3, <2>4 DEF WatchInv
  <1>2. CASE ExchangeCloses \/ Snapshot \/ UNCHANGED vars
    BY <1>2, WatchStill DEF WatchInv
  <1>3. CASE CancelOpenOrders
    BY <1>3 DEF CancelOpenOrders
  <1> QED  BY <1>1, <1>2, <1>3 DEF Next

\* It holds at the start.
LEMMA WatchInit == Init => WatchInv
  BY DEF Init, WatchInv, WatchOK, TimerOK, DeadlineOnce, DeadlineWorked, FillGuarded, Has

\* The strengthening is an invariant.
LEMMA WatchAlways ==
    ASSUME OneTimeoutEach, {"cancel", "cancelOpen"} \cap Api = {}
    PROVE  Spec => []WatchInv
  <1>1. IInv /\ IInv' /\ Ledger /\ WatchInv /\ [Next]_vars => WatchInv'
    BY WatchStep
  <1> QED  BY <1>1, WatchInit, Invariant, LedgerKept, PTL DEF Spec

\* Whatever pushes are lost or repeated and whichever query or command fails, from the
\* order_filled event on an active order with a position close timeout has a close timer that
\* runs, or somebody who starts one or ends the order.  It is stated for makers of one timeout
\* each, and while neither CancelOrder nor CancelOpenOrders stops the timer of the order.
THEOREM FilledStaysGuarded ==
    ASSUME OneTimeoutEach, {"cancel", "cancelOpen"} \cap Api = {}
    PROVE  Spec => []FilledIsGuarded
  <1>1. WatchInv => FilledIsGuarded
    BY DEF WatchInv, WatchOK, FillGuarded, FilledIsGuarded, Busy, At, CloseTimers, Deadlines
  <1> QED  BY <1>1, WatchAlways, PTL
-----------------------------------------------------------------------------
(* Orders that are dealt in full or not at all *)

\* No order is canceled with a part of it dealt, and no query of an order fails.
Uncut == /\ {"rest_read", "partial_cancel"} \cap Faults = {}
         /\ \A i \in Intents : i.type = "maker" =>
               ~i.cancelTimeout /\ {"cancel", "cancelOpen"} \cap Api = {}

\* A canceled order was not dealt; only an order that was canceled is resolved as such, and
\* nothing else lets its outcome complete an opening order.
CutOK(r) ==
    /\ ord[r] = "canceled" => deal[r] = 0
    /\ ord[r] = "live" => intent[r].type = "maker"
    /\ "cancel" \notin armed[r] /\ \A t \in tasks : t.r = r => t.h # "CancelTimer"
    /\ Event("OutcomeResolved", "unknown") \notin log[r]
    /\ Event("OutcomeResolved", "canceled_no_fill") \in log[r] => ord[r] = "canceled"
    /\ At("ResolveOutcome", r, "enrich") # {} /\ intent[r].side = "open" => ord[r] = "canceled"
CutInv == \A r \in Reqs : CutOK(r)

\* Work that neither cancels an order nor completes it on its outcome.
Cutless(T) == \A t \in T : t.h # "CancelTimer" /\ ~(t.h = "ResolveOutcome" /\ t.p = "enrich")

\* Messages and pushes are such work, and handlers of other kinds that go on.
LEMMA CutlessParts ==
    /\ \A r, e : Cutless(Messages(r, e))
    /\ \A d : \A m \in Deliveries(d) : Cutless(m)
    /\ \A t, p, n, d : t.h \notin {"CancelTimer", "ResolveOutcome"} => Cutless(Goto(t, p, n, d))
    /\ Cutless({}) /\ \A a, b : Cutless(a) /\ Cutless(b) => Cutless(a \cup b)
  <1>1. "CancelTimer" \notin Subscriptions  BY DEF Subscriptions, TopicOf
  <1>2. \A r, e : Cutless(Messages(r, e))
    BY <1>1 DEF Cutless, Messages, Task
  <1>3. \A d : \A m \in Deliveries(d) : Cutless(m)
    BY DEF Cutless, Deliveries, Task
  <1> QED  BY <1>2, <1>3 DEF Cutless, Goto, Task

\* Handlers that add such work only.
LEMMA HandlersCutless ==
    ASSUME NEW t, NEW more, Cutless(more)
    PROVE  /\ \A e : Publish(t, e, more) => Cutless(tasks' \ tasks)
           /\ Continue(t, more) => Cutless(tasks' \ tasks)
           /\ MarketClose(t, more) => Cutless(tasks' \ tasks)
           /\ AbortOrder(t) => Cutless(tasks' \ tasks)
  <1>1. ASSUME NEW m, Cutless(m), Continue(t, m) PROVE Cutless(tasks' \ tasks)
    BY <1>1 DEF Continue, Cutless
  <1>2. ASSUME NEW m, Cutless(m), NEW e, Publish(t, e, m) PROVE Cutless(tasks' \ tasks)
    <2>1. Cutless(Messages(t.r, e))  BY CutlessParts
    <2> QED  BY <1>2, <2>1 DEF Publish, Emit, Cutless
  <1>3. Cutless({})  BY CutlessParts
  <1>4. MarketClose(t, more) => Cutless(tasks' \ tasks)
    <2> SUFFICES ASSUME MarketClose(t, more) PROVE Cutless(tasks' \ tasks)
      OBVIOUS
    <2>1. PICK m : Cutless(m) /\ (Continue(t, more \cup m) \/ Continue(t, more))
      BY <1>3, CutlessParts DEF MarketClose
    <2>2. Cutless(more \cup m)  BY <2>1, CutlessParts
    <2> QED  BY <1>1, <2>1, <2>2
  <1> QED  BY <1>1, <1>2, <1>3, <1>4 DEF AbortOrder

\* A step that adds such work and publishes no outcome.
LEMMA CutKept ==
    ASSUME IInv, IInv', Ledger, NEW r \in Reqs, NEW S, Moves(r, S), "OutcomeResolved" \notin S,
           CutOK(r), intent' = intent, "cancel" \notin armed'[r], Cutless(tasks' \ tasks),
           ord'[r] = "canceled" => deal'[r] = 0,
           ord'[r] = "live" => intent[r].type = "maker",
           ord[r] = "canceled" => ord'[r] = "canceled"
    PROVE  CutOK(r)'
  <1>1. \A e \in log'[r] : e.topic = "OutcomeResolved" => e \in log[r]
    BY MovesWork DEF IInv
  <1>2. \A d : Event("OutcomeResolved", d).topic = "OutcomeResolved"
    BY DEF Event
  <1>3. At("ResolveOutcome", r, "enrich")' # {} => At("ResolveOutcome", r, "enrich") # {}
    BY DEF At, Cutless
  <1>4. \A t \in tasks' : t.r = r => t.h # "CancelTimer"
    BY DEF CutOK, Cutless
  <1> QED  BY <1>1, <1>2, <1>3, <1>4 DEF CutOK

\* The operations on timers that arm no cancel timer.
LEMMA NoCancelArmed ==
    ASSUME TimersOK, NEW r \in Reqs, "cancel" \notin armed[r],
           \/ UNCHANGED timers
           \/ CancelTimeoutGuard(r)
           \/ \E k : Expire(r, k)
           \/ \E k : Store(r, k) /\ k # "cancel"
    PROVE  "cancel" \notin armed'[r]
  BY DEF timers, CancelTimeoutGuard, Expire, Store, TimersOK

\* The pipeline and its timers.
LEMMA CutPipeline ==
    ASSUME IInv, IInv', Ledger, Uncut, NEW r \in Reqs, CutOK(r),
           \/ PreFlight(r) \/ PositionWatchReady(r) \/ FireTiming(r) \/ SubmitReply(r)
           \/ TPSLSubmission(r) \/ ScheduleUnfilledCancelTimeout(r)
           \/ SchedulePositionCloseTimeout(r) \/ OutcomeWatcher(r) \/ CloseTimerFires(r)
    PROVE  CutOK(r)'
  <1> USE DEF IInv
  <1>1. intent' = intent /\ UNCHANGED <<ord, deal>>
    BY DEF PreFlight, PositionWatchReady, FireTiming, SubmitReply, TPSLSubmission,
           ScheduleUnfilledCancelTimeout, SchedulePositionCloseTimeout, OutcomeWatcher,
           CloseTimerFires, exchange
  <1>2. PICK S : Moves(r, S) /\ "OutcomeResolved" \notin S
    BY FireMoves, ExecuteMoves, WatchMoves, TimerMoves
  <1>3. Cutless(tasks' \ tasks)
    <2>1. CASE CloseTimerFires(r)
      BY <2>1, CutlessParts DEF CloseTimerFires, Emit, Cutless
    <2>2. CASE OutcomeWatcher(r)
      BY <2>2, CutlessParts, HandlersCutless DEF OutcomeWatcher, Ready
    <2>3. CASE ~(CloseTimerFires(r) \/ OutcomeWatcher(r))
      BY <2>3, CutlessParts, HandlersCutless
         DEF PreFlight, PositionWatchReady, FireTiming, SubmitReply, TPSLSubmission,
             ScheduleUnfilledCancelTimeout, SchedulePositionCloseTimeout
    <2> QED  BY <2>1, <2>2, <2>3
  <1>4. "cancel" \notin armed'[r]
    <2>1. intent[r].type = "maker" => ~intent[r].cancelTimeout
      BY DEF Uncut, IntentOK
    <2>2. \A h, p : \A t \in Ready(h, r) \cup At(h, r, p) : t.r = r
      BY DEF Ready, At
    <2>3. \/ UNCHANGED timers \/ CancelTimeoutGuard(r)
          \/ \E k : Expire(r, k)
          \/ \E k : Store(r, k) /\ k # "cancel"
      <3>1. CASE PreFlight(r) \/ SubmitReply(r)
        BY <2>2, <3>1 DEF PreFlight, SubmitReply, AbortOrder
      <3>2. CASE ~(PreFlight(r) \/ SubmitReply(r))
        BY <2>1, <3>2
           DEF PositionWatchReady, FireTiming, TPSLSubmission, ScheduleUnfilledCancelTimeout,
               SchedulePositionCloseTimeout, OutcomeWatcher, CloseTimerFires
      <3> QED  BY <3>1, <3>2
    <2> QED  BY <2>3, NoCancelArmed DEF CutOK
  <1> QED  BY <1>1, <1>2, <1>3, <1>4, CutKept DEF CutOK

\* Deadline, bailout, completion, and the pushes of the stream.
LEMMA CutEnd ==
    ASSUME IInv, IInv', Ledger, NEW r \in Reqs, CutOK(r),
           \/ WaitTimeoutDeadline(r) \/ TimeoutNoPosition(r) \/ TimeoutBailout(r)
           \/ BailoutAttempt(r) \/ BailoutFails(r) \/ EnrichAndComplete(r)
           \/ PositionClosedDone(r) \/ CompleteOrder(r) \/ SaveTrade(r)
           \/ PositionFilled(r) \/ PositionClosed(r) \/ CancelOrderReply(r)
    PROVE  CutOK(r)'
  <1> USE DEF IInv
  <1>1. intent' = intent /\ UNCHANGED <<ord, deal>>
    BY DEF WaitTimeoutDeadline, TimeoutNoPosition, TimeoutBailout, BailoutAttempt, BailoutFails,
           EnrichAndComplete, PositionClosedDone, CompleteOrder, SaveTrade, PositionFilled,
           PositionClosed, CancelOrderReply, exchange
  <1>2. PICK S : Moves(r, S) /\ "OutcomeResolved" \notin S
    BY TimerMoves, BailoutMoves, CompletionMoves, CallMoves
  <1>3. Cutless(tasks' \ tasks)
    <2>1. CASE BailoutAttempt(r)
      BY <2>1, CutlessParts, HandlersCutless DEF BailoutAttempt, At
    <2>2. CASE TimeoutNoPosition(r) \/ TimeoutBailout(r) \/ PositionClosedDone(r)
      BY <2>2, CutlessParts, HandlersCutless
         DEF TimeoutNoPosition, TimeoutBailout, PositionClosedDone, Ready
    <2>3. CASE ~(BailoutAttempt(r) \/ TimeoutNoPosition(r) \/ TimeoutBailout(r) \/ PositionClosedDone(r))
      BY <2>3, CutlessParts, HandlersCutless
         DEF WaitTimeoutDeadline, BailoutFails, EnrichAndComplete, CompleteOrder, SaveTrade,
             PositionFilled, PositionClosed, CancelOrderReply
    <2> QED  BY <2>1, <2>2, <2>3
  <1>4. "cancel" \notin armed'[r]
    <2>1. \A h, p : \A t \in Ready(h, r) \cup At(h, r, p) : t.r = r
      BY DEF Ready, At
    <2>2. UNCHANGED timers \/ CancelTimeoutGuard(r)
      BY <2>1 DEF WaitTimeoutDeadline, TimeoutNoPosition, TimeoutBailout, BailoutAttempt,
                  BailoutFails, EnrichAndComplete, PositionClosedDone, CompleteOrder, SaveTrade,
                  PositionFilled, PositionClosed, CancelOrderReply, AbortOrder
    <2> QED  BY <2>2, NoCancelArmed DEF CutOK
  <1> QED  BY <1>1, <1>2, <1>3, <1>4, CutKept DEF CutOK

\* The submission: an order is dealt in full, rests, or is canceled without a deal.
LEMMA CutExecute ==
    ASSUME IInv, IInv', Ledger, Uncut, NEW r \in Reqs, CutOK(r), ExecuteOrder(r)
    PROVE  CutOK(r)'
  <1> USE DEF IInv
  <1>1. PICK t \in Ready("Execute", r), k \in 0..Lots :
          \/ /\ Accept(r, k)
             /\ \E reply, m : Cutless(m) /\ Continue(t, Goto(t, "reply", 1, reply) \cup m)
          \/ Continue(t, Goto(t, "reply", 1, "error")) /\ UNCHANGED <<ord, deal, position>>
    BY CutlessParts DEF ExecuteOrder
  <1>2. t \in Starts(tasks, "Execute", r) /\ t.h = "Execute"
    BY DEF Ready, Starts
  <1>3. submits[r] = 0
    BY <1>2 DEF OnceOK, Single, BookOK
  <1>4. ord[r] = "none" /\ deal[r] = 0
    BY <1>3 DEF BookOK
  <1>5. Cutless(tasks' \ tasks)
    BY <1>1, <1>2, CutlessParts, HandlersCutless
  <1>6. Moves(r, {}) /\ intent' = intent /\ armed' = armed
    BY ExecuteMoves DEF ExecuteOrder, timers
  <1>7. /\ ord'[r] = "canceled" => deal'[r] = 0
        /\ ord'[r] = "live" => intent[r].type = "maker"
    BY <1>1, <1>4 DEF Accept, Uncut, BookOK, Lots
  <1> QED  BY <1>4, <1>5, <1>6, <1>7, CutKept DEF CutOK

\* The outcome watcher tells what the exchange said.
LEMMA CutPoll ==
    ASSUME IInv, IInv', Ledger, Uncut, NEW r \in Reqs, CutOK(r), PollOrder(r)
    PROVE  CutOK(r)'
  <1> USE DEF IInv
  <1>1. PICK t \in At("OutcomeWatcher", r, "poll"), v \in OrderInfo(r) :
          \/ Publish(t, Event("OutcomeResolved", ClassifyOrderOutcome[v]), {})
          \/ Continue(t, Goto(t, "poll", t.n + 1, v))
    BY DEF PollOrder, Uncut
  <1>2. t.h = "OutcomeWatcher" /\ t.r = r /\ t \in tasks
    BY DEF At
  <1>3. Cutless(tasks' \ tasks)
    BY <1>1, <1>2, CutlessParts, HandlersCutless
  <1>4. intent' = intent /\ UNCHANGED <<ord, deal, armed>>
    BY DEF PollOrder, exchange, timers
  <1> DEFINE e == Event("OutcomeResolved", ClassifyOrderOutcome[v])
  <1>5. /\ e # Event("OutcomeResolved", "unknown")
        /\ e = Event("OutcomeResolved", "canceled_no_fill") => ord[r] = "canceled"
    <2>1. v \in {"new", "part", "filled", "canceled", "partial"}
          /\ (v = "canceled" => ord[r] = "canceled")
      BY DEF OrderInfo
    <2> QED  BY <2>1 DEF ClassifyOrderOutcome, Event
  <1>6. \A f \in log'[r] : f \in log[r] \/ f = e
    BY <1>1, <1>2 DEF Publish, Emit, Continue, PipeOK
  <1> HIDE DEF e
  <1>7. At("ResolveOutcome", r, "enrich")' # {} => At("ResolveOutcome", r, "enrich") # {}
    BY <1>3 DEF At, Cutless
  <1>8. \A u \in tasks' : u.r = r => u.h # "CancelTimer"
    BY <1>3 DEF CutOK, Cutless
  <1> QED  BY <1>4, <1>5, <1>6, <1>7, <1>8 DEF CutOK

\* An opening order completes on its outcome only after it was seen canceled.
LEMMA CutResolve ==
    ASSUME IInv, IInv', Ledger, NEW r \in Reqs, CutOK(r), ResolveOutcome(r)
    PROVE  CutOK(r)'
  <1> USE DEF IInv
  <1>1. PICK t \in Ready("ResolveOutcome", r) :
          \/ /\ \/ t.d \in {"canceled_no_fill", "unknown"}
                \/ intent[r].side = "close" /\ t.d = "filled"
             /\ CancelTimeoutGuard(r)
             /\ Continue(t, Goto(t, "enrich", 1, t.d))
          \/ Continue(t, {}) /\ UNCHANGED timers
    BY DEF ResolveOutcome
  <1>2. t \in tasks /\ t.r = r /\ t.h = "ResolveOutcome" /\ t.p = "start"
    BY DEF Ready
  <1>3. Event("OutcomeResolved", t.d) \in log[r]
    BY <1>2 DEF Ledger, Delivered, Subscriptions, TopicOf
  <1>4. intent' = intent /\ UNCHANGED <<ord, deal>> /\ log' = log
    BY <1>1 DEF ResolveOutcome, exchange, Continue
  <1>5. "cancel" \notin armed'[r]
    BY <1>1, NoCancelArmed DEF CutOK
  <1>6. \A u \in tasks' : u.r = r => u.h # "CancelTimer"
    BY <1>1, <1>2 DEF CutOK, Continue, Goto, Task
  <1>7. At("ResolveOutcome", r, "enrich")' # {} /\ intent[r].side = "open" => ord[r] = "canceled"
    <2>1. CASE t.d \in {"canceled_no_fill", "unknown"}
      BY <1>3, <2>1 DEF CutOK
    <2>2. CASE intent[r].side = "close"
      BY <2>2
    <2>3. CASE Continue(t, {})
      BY <2>3 DEF CutOK, Continue, At
    <2> QED  BY <1>1, <2>1, <2>2, <2>3
  <1> QED  BY <1>4, <1>5, <1>6, <1>7 DEF CutOK

\* The calls of the API and the exchange.
LEMMA CutCalls ==
    ASSUME IInv, IInv', Ledger, Uncut, NEW r \in Reqs, CutOK(r), Environment(r)
    PROVE  CutOK(r)'
  <1> USE DEF IInv
  <1>1. intent' = intent
    BY DEF Environment, Dispatch, CancelOrder, PnLDrop, WatchExpires, Fill, ExchangeCancels
  <1>2. PICK S : Moves(r, S) /\ "OutcomeResolved" \notin S
    BY FireMoves, CallMoves, ExchangeMoves DEF Environment
  <1>3. Cutless(tasks' \ tasks)
    <2>1. CASE Dispatch(r)
      BY <2>1, CutlessParts DEF Dispatch, Emit, Cutless
    <2>2. CASE CancelOrder(r)
      BY <2>2 DEF CancelOrder, Cutless, Task
    <2>3. CASE PnLDrop(r)
      <3>1. Cutless({Task("Trail", r, "hold", "close", 1)})
        BY DEF Cutless, Task
      <3> QED  BY <2>3, <3>1, HandlersCutless DEF PnLDrop
    <2>4. CASE Fill(r)
      <3>1. PICK m : Cutless(m) /\ tasks' = tasks \cup m
        BY <2>4, CutlessParts DEF Fill
      <3> QED  BY <3>1 DEF Cutless
    <2>5. CASE WatchExpires(r) \/ ExchangeCancels(r)
      BY <2>5 DEF WatchExpires, ExchangeCancels, Cutless
    <2> QED  BY <2>1, <2>2, <2>3, <2>4, <2>5 DEF Environment
  <1>4. "cancel" \notin armed'[r]
    <2>1. UNCHANGED timers \/ CancelTimeoutGuard(r)
      BY DEF Environment, Dispatch, CancelOrder, PnLDrop, WatchExpires, Fill, ExchangeCancels
    <2> QED  BY <2>1, NoCancelArmed DEF CutOK
  <1>5. /\ ord'[r] = "canceled" => deal'[r] = 0
        /\ ord'[r] = "live" => intent[r].type = "maker"
        /\ ord[r] = "canceled" => ord'[r] = "canceled"
    <2>1. CASE Dispatch(r) \/ PnLDrop(r) \/ WatchExpires(r)
      BY <2>1 DEF Dispatch, PnLDrop, WatchExpires, exchange, CutOK
    <2>2. CASE CancelOrder(r)
      <3>1. ord[r] # "live"
        BY <2>2 DEF CancelOrder, Uncut, CutOK, IntentOK
      <3>2. ord'[r] = ord[r] /\ deal' = deal
        BY <2>2, <3>1 DEF CancelOrder, ExchangeCancel, BookOK
      <3> QED  BY <3>1, <3>2 DEF CutOK
    <2>3. CASE Fill(r)
      BY <2>3 DEF Fill, CutOK, BookOK
    <2>4. CASE ExchangeCancels(r)
      <3>1. deal[r] = 0 /\ deal' = deal
        BY <2>4 DEF ExchangeCancels, Uncut, BookOK
      <3>2. ord[r] = "live" /\ ord'[r] = "canceled"
        BY <2>4 DEF ExchangeCancels, ExchangeCancel, BookOK
      <3> QED  BY <3>1, <3>2
    <2> QED  BY <2>1, <2>2, <2>3, <2>4 DEF Environment
  <1> QED  BY <1>1, <1>2, <1>3, <1>4, <1>5, CutKept

\* The order of another request.
LEMMA OrdersOfOthers ==
    ASSUME IInv, NEW r \in Reqs, NEW q \in Reqs, q # r, Pipeline(r) \/ Environment(r)
    PROVE  ord'[q] = ord[q] /\ deal'[q] = deal[q]
  <1> USE DEF IInv, BookOK
  <1>1. CASE ExecuteOrder(r)
    <2>1. \E k : Accept(r, k) \/ UNCHANGED <<ord, deal, position>>
      BY <1>1 DEF ExecuteOrder
    <2> QED  BY <2>1 DEF Accept
  <1>2. CASE \/ PreFlight(r) \/ PositionWatchReady(r) \/ FireTiming(r) \/ SubmitReply(r)
             \/ TPSLSubmission(r) \/ ScheduleUnfilledCancelTimeout(r)
             \/ SchedulePositionCloseTimeout(r) \/ OutcomeWatcher(r) \/ PollOrder(r)
             \/ ResolveOutcome(r) \/ CancelTimerFires(r) \/ CloseTimerFires(r)
             \/ WaitTimeoutDeadline(r) \/ TimeoutNoPosition(r) \/ TimeoutBailout(r)
             \/ BailoutAttempt(r) \/ BailoutFails(r) \/ EnrichAndComplete(r)
             \/ PositionClosedDone(r) \/ CompleteOrder(r) \/ SaveTrade(r)
             \/ PositionFilled(r) \/ PositionClosed(r) \/ CancelOrderReply(r)
    <2>1. UNCHANGED <<ord, deal>>
      BY <1>2 DEF PreFlight, PositionWatchReady, FireTiming, SubmitReply, TPSLSubmission,
         ScheduleUnfilledCancelTimeout, SchedulePositionCloseTimeout, OutcomeWatcher, PollOrder,
         ResolveOutcome, CancelTimerFires, CloseTimerFires, WaitTimeoutDeadline, TimeoutNoPosition,
         TimeoutBailout, BailoutAttempt, BailoutFails, EnrichAndComplete, PositionClosedDone,
         CompleteOrder, SaveTrade, PositionFilled, PositionClosed, CancelOrderReply, exchange
    <2> QED  BY <2>1
  <1>3. CASE CancelRestingOrderOnTimeout(r)
    BY <1>3 DEF CancelRestingOrderOnTimeout, ExchangeCancel
  <1>4. CASE Environment(r)
    BY <1>4 DEF Environment, Dispatch, CancelOrder, PnLDrop, WatchExpires, Fill, ExchangeCancels,
                ExchangeCancel, exchange
  <1> QED  BY <1>1, <1>2, <1>3, <1>4 DEF Pipeline

\* Every step keeps it.
LEMMA CutStep ==
    ASSUME IInv, IInv', Ledger, Uncut, CutInv, [Next]_vars PROVE CutInv'
  <1>1. ASSUME NEW r \in Reqs, Pipeline(r) \/ Environment(r) PROVE CutInv'
    <2>1. CutOK(r)  BY DEF CutInv
    <2>2. ~CancelTimerFires(r) /\ ~CancelRestingOrderOnTimeout(r)
      BY <2>1 DEF CutOK, CancelTimerFires, Expire, CancelRestingOrderOnTimeout, At
    <2>3. CutOK(r)'
      BY <1>1, <2>1, <2>2, CutPipeline, CutEnd, CutExecute, CutPoll, CutResolve, CutCalls DEF Pipeline
    <2>4. PICK S : Moves(r, S)
      BY <1>1, FireMoves, ExecuteMoves, WatchMoves, TimerMoves, BailoutMoves, CompletionMoves,
         CallMoves, ExchangeMoves DEF Pipeline, Environment
    <2>5. ASSUME NEW q \in Reqs, q # r PROVE CutOK(q)'
      <3>1. CutOK(q)  BY DEF CutInv
      <3>2. ord'[q] = ord[q] /\ deal'[q] = deal[q]
        BY <1>1, <2>5, OrdersOfOthers
      <3>3. intent' = intent /\ armed'[q] = armed[q]
        <4>1. CASE CancelOrder(r)
          BY <2>5, <4>1 DEF CancelOrder, CancelTimeoutGuard, IInv, TimersOK
        <4> QED  BY <1>1, <2>5, <4>1, TimersOfOthers
      <3>4. log'[q] = log[q] /\ \A t \in tasks' : t.r = q => t \in tasks \/ t.h = "Push"
        BY <2>4, <2>5, OthersKept DEF IInv
      <3>5. At("ResolveOutcome", q, "enrich")' # {} => At("ResolveOutcome", q, "enrich") # {}
        BY <3>4 DEF At
      <3> QED  BY <3>1, <3>2, <3>3, <3>4, <3>5 DEF CutOK
    <2> QED  BY <2>3, <2>5 DEF CutInv
  <1>2. CASE ExchangeCloses \/ Snapshot \/ UNCHANGED vars
    <2>1. UNCHANGED <<ord, deal, armed, intent, log>>
      BY <1>2 DEF ExchangeCloses, Snapshot, vars, exchange, timers
    <2>2. Cutless(tasks' \ tasks)
      <3>1. \E m : Cutless(m) /\ tasks' = tasks \cup m
        <4>1. CASE UNCHANGED vars
          <5>1. tasks' = tasks \cup {}  BY <4>1 DEF vars
          <5> QED  BY <5>1, CutlessParts
        <4> QED  BY <1>2, <4>1, CutlessParts DEF ExchangeCloses, Snapshot
      <3> QED  BY <3>1 DEF Cutless
    <2>3. \A q : At("ResolveOutcome", q, "enrich")' # {} => At("ResolveOutcome", q, "enrich") # {}
      BY <2>2 DEF At, Cutless
    <2> QED  BY <2>1, <2>2, <2>3 DEF CutInv, CutOK, Cutless
  <1>3. CASE CancelOpenOrders
    <2>1. \A q \in Reqs : ord[q] # "live"
      BY <1>3 DEF CancelOpenOrders, Uncut, CutInv, CutOK, IInv, IntentOK
    <2>2. \A q \in Reqs : ord'[q] = ord[q] /\ armed'[q] \subseteq armed[q]
      BY <1>3, <2>1 DEF CancelOpenOrders
    <2>3. UNCHANGED <<deal, intent, log, tasks>>
      BY <1>3 DEF CancelOpenOrders
    <2> QED  BY <2>1, <2>2, <2>3 DEF CutInv, CutOK, At
  <1> QED  BY <1>1, <1>2, <1>3 DEF Next

\* It holds at the start.
LEMMA CutInit == Init => CutInv
  BY DEF Init, CutInv, CutOK, At

\* Opening orders that complete on their outcome hold nothing: HandleResolveOutcome stops the
\* timers and the position would be left alone.  It is stated while no query of an order fails
\* and no order ends dealt in part; each of these breaks it.
THEOREM OutcomeOnlyOfUnfilled == ASSUME Uncut PROVE Spec => []OutcomeCompletesUnfilled
  <1>1. IInv /\ IInv' /\ Ledger /\ CutInv /\ [Next]_vars => CutInv'
    BY CutStep
  <1>2. CutInv => OutcomeCompletesUnfilled
    BY DEF CutInv, CutOK, OutcomeCompletesUnfilled
  <1> QED  BY <1>1, <1>2, CutInit, Invariant, LedgerKept, PTL DEF Spec
-----------------------------------------------------------------------------
(* Rows that claim a fill *)

\* One request that opens a position: nobody else moves the position it watches.
Sole == (\A q, r \in Reqs : q = r) /\ \A i \in Intents : i.side = "open"

\* The events and the work that take a deal for granted.
Claims(e) == \/ e.topic \in {"Filled", "PositionClosed"}
             \/ e.topic = "OutcomeResolved" /\ e.data \notin {"canceled_no_fill", "resting"}
             \/ e = Event("TimeoutPositionChecked", "hold")
             \/ e.topic \in {"Completed", "TradeRecord"} /\ e.data # "canceled_no_fill"
Tells(t) == \/ t.h = "Push" /\ t.d \in {"open", "closed"}
            \/ t.h = "PositionChecked" /\ t.p = "close"
            \/ t.p = "enrich" /\ t.d # "canceled_no_fill"

\* Nothing tells of a deal.
Unreal(r) ==
    /\ position = 0 /\ ord[r] # "filled"
    /\ \A e \in log[r] : ~Claims(e)
    /\ \A t \in tasks : ~Tells(t)
    /\ saves[r] > 0 => outcome[r] = "canceled_no_fill"
RealInv == \A r \in Reqs : deal[r] > 0 \/ Unreal(r)

\* A step that adds nothing which tells of a deal.
Discreet(r) == /\ \A t \in tasks' : t \in tasks \/ ~Tells(t)
               /\ \A e \in log'[r] : e \in log[r] \/ ~Claims(e)

\* Messages tell nothing yet.
LEMMA MessagesDiscreet == \A r, e : \A t \in Messages(r, e) : ~Tells(t)
  <1>1. "Push" \notin Subscriptions  BY DEF Subscriptions, TopicOf
  <1> QED  BY <1>1 DEF Messages, Task, Tells

\* Handlers that publish such an event or go on with such work.
LEMMA HandlersDiscreet ==
    ASSUME PipeOK, NEW r \in Reqs, NEW t, t.r = r, NEW more, \A m \in more : ~Tells(m)
    PROVE  /\ \A e : Publish(t, e, more) /\ ~Claims(e) => Discreet(r)
           /\ Continue(t, more) => Discreet(r)
           /\ AbortOrder(t) => Discreet(r)
  <1>1. ASSUME NEW m, \A u \in m : ~Tells(u), NEW e, Publish(t, e, m), ~Claims(e) PROVE Discreet(r)
    <2>1. log'[r] = log[r] \cup {e} /\ tasks' = (tasks \ {t}) \cup m \cup Messages(r, e)
      BY <1>1 DEF Publish, Emit, PipeOK
    <2> QED  BY <1>1, <2>1, MessagesDiscreet DEF Discreet
  <1>2. Continue(t, more) => Discreet(r)
    BY DEF Continue, Discreet
  <1>3. ~Claims(Plain("Aborted"))
    BY DEF Claims, Plain, Event
  <1> QED  BY <1>1, <1>2, <1>3 DEF AbortOrder

\* The plain events that tell of no deal.
LEMMA PlainDiscreet ==
    \A topic : topic \notin {"Filled", "PositionClosed", "OutcomeResolved", "TimeoutPositionChecked",
                             "Completed", "TradeRecord"} => ~Claims(Plain(topic))
  BY DEF Claims, Plain, Event

\* While nothing tells of a deal nobody takes the order for filled.
LEMMA UnrealUnfilled ==
    ASSUME IInv, Ledger, NEW r \in Reqs, Unreal(r) PROVE ~HasFilled(r)
  <1>1. ~Has(r, "Filled") /\ ~Has(r, "PositionClosed")
    BY DEF Unreal, Has, Claims
  <1>2. /\ Event("OutcomeResolved", "filled") \notin log[r]
        /\ Event("OutcomeResolved", "partial_filled") \notin log[r]
    BY DEF Unreal, Claims, Event
  <1>3. state[r] \notin {"FILLED", "POSITION_CLOSED"}
    <2> SUFFICES ASSUME state[r] \in {"FILLED", "POSITION_CLOSED"} PROVE FALSE
      OBVIOUS
    <2>1. PICK e \in log[r] : e.topic # "TradeRecord" /\ Target(e) = state[r]
      BY DEF Ledger, KeepsUp, ReachedIn
    <2>2. e.topic \in DOMAIN NextState /\ e # Event("OutcomeResolved", "resting")
      BY <2>1 DEF IInv, PipeOK, EventType, Topics, Target
    <2>3. e.topic \in {"Filled", "PositionClosed"}
      BY <2>1, <2>2 DEF Target, NextState
    <2> QED  BY <1>1, <2>3 DEF Has
  <1> QED  BY <1>1, <1>2, <1>3 DEF HasFilled

\* A step that adds nothing which tells of a deal keeps it so.
LEMMA UnrealKept ==
    ASSUME NEW r \in Reqs, Unreal(r), Discreet(r), position' = 0, ord'[r] # "filled",
           UNCHANGED <<saves, outcome>>
    PROVE  Unreal(r)'
  BY DEF Unreal, Discreet, Claims, Tells

\* The pipeline up to the submission, the timers and the calls of the API.
LEMMA UnrealPipeline ==
    ASSUME IInv, Ledger, NEW r \in Reqs, Unreal(r),
           \/ PreFlight(r) \/ PositionWatchReady(r) \/ FireTiming(r) \/ SubmitReply(r)
           \/ TPSLSubmission(r) \/ ScheduleUnfilledCancelTimeout(r)
           \/ SchedulePositionCloseTimeout(r) \/ OutcomeWatcher(r)
           \/ CancelTimerFires(r) \/ CloseTimerFires(r) \/ CancelOrderReply(r)
           \/ Dispatch(r) \/ CancelOrder(r) \/ WatchExpires(r)
    PROVE  Unreal(r)'
  <1> USE DEF IInv
  <1>1. position' = 0 /\ UNCHANGED <<saves, outcome>>
    BY DEF PreFlight, PositionWatchReady, FireTiming, SubmitReply, TPSLSubmission,
           ScheduleUnfilledCancelTimeout, SchedulePositionCloseTimeout, OutcomeWatcher,
           CancelTimerFires, CloseTimerFires, CancelOrderReply, Dispatch, CancelOrder, WatchExpires,
           exchange, results, Unreal
  <1>2. ord'[r] # "filled"
    <2>1. UNCHANGED ord \/ ExchangeCancel(r)
      BY DEF PreFlight, PositionWatchReady, FireTiming, SubmitReply, TPSLSubmission,
           ScheduleUnfilledCancelTimeout, SchedulePositionCloseTimeout, OutcomeWatcher,
           CancelTimerFires, CloseTimerFires, CancelOrderReply, Dispatch, CancelOrder, WatchExpires,
           exchange
    <2> QED  BY <2>1 DEF ExchangeCancel, Unreal, BookOK
  <1>3. Discreet(r)
    <2>1. \A h, p : \A t \in Ready(h, r) \cup At(h, r, p) : t.r = r /\ t.h = h
      BY DEF Ready, At
    <2>2. \A t, d : t.h = "OutcomeWatcher" => \A m \in Goto(t, "poll", 1, d) : ~Tells(m)
      BY DEF Goto, Task, Tells
    <2>3. CASE PreFlight(r) \/ PositionWatchReady(r) \/ FireTiming(r) \/ SubmitReply(r)
               \/ TPSLSubmission(r) \/ CancelOrderReply(r)
      <3>1. PICK t : /\ t.r = r
                     /\ \/ \E topic \in {"PreFlightDone", "PositionWatchReady", "FireWindowReached",
                                        "Submitted", "TPSLDispatched", "Canceled"} :
                              Publish(t, Plain(topic), {})
                        \/ AbortOrder(t) \/ Continue(t, {})
        BY <2>1, <2>3 DEF PreFlight, PositionWatchReady, FireTiming, SubmitReply, TPSLSubmission,
                          CancelOrderReply
      <3> QED  BY <3>1, HandlersDiscreet, PlainDiscreet
    <2>4. CASE ScheduleUnfilledCancelTimeout(r) \/ SchedulePositionCloseTimeout(r) \/ OutcomeWatcher(r)
      BY <2>1, <2>2, <2>4, HandlersDiscreet
         DEF ScheduleUnfilledCancelTimeout, SchedulePositionCloseTimeout, OutcomeWatcher
    <2>5. CASE Dispatch(r) \/ CloseTimerFires(r)
      <3>1. PICK topic \in {"Intent", "TimeoutScheduled"} : Emit(r, state[r], Plain(topic), {}, {})
        BY <2>5 DEF Dispatch, CloseTimerFires
      <3>2. /\ log'[r] = log[r] \cup {Plain(topic)}
            /\ tasks' = tasks \cup Messages(r, Plain(topic))
        BY <3>1 DEF Emit, PipeOK
      <3>3. ~Claims(Plain(topic))  BY PlainDiscreet
      <3> QED  BY <3>2, <3>3, MessagesDiscreet DEF Discreet
    <2>6. CASE CancelTimerFires(r) \/ CancelOrder(r) \/ WatchExpires(r)
      BY <2>6 DEF CancelTimerFires, CancelOrder, WatchExpires, Discreet, Tells, Task
    <2> QED  BY <2>3, <2>4, <2>5, <2>6
  <1> QED  BY <1>1, <1>2, <1>3, UnrealKept

\* The submission of an order that is not dealt.
LEMMA UnrealExecute ==
    ASSUME IInv, Sole, NEW r \in Reqs, Unreal(r), ExecuteOrder(r), deal'[r] = 0
    PROVE  Unreal(r)'
  <1> USE DEF IInv
  <1>1. PICK t \in Ready("Execute", r), k \in 0..Lots :
          \/ /\ Accept(r, k)
             /\ \E reply \in {"ok", "error"}, m \in (IF k > 0 THEN Deliveries(PushOf(position')) ELSE {{}}) :
                   Continue(t, Goto(t, "reply", 1, reply) \cup m)
          \/ Continue(t, Goto(t, "reply", 1, "error")) /\ UNCHANGED <<ord, deal, position>>
    BY DEF ExecuteOrder
  <1>2. intent[r].side = "open"
    BY DEF Sole, IntentOK
  <1>3. Accept(r, k) => k = 0 /\ position' = 0 /\ ord'[r] # "filled"
    BY <1>2 DEF Accept, BookOK, Unreal, Lots
  <1>4. position' = 0 /\ ord'[r] # "filled"
    BY <1>1, <1>3 DEF Unreal
  <1>5. Discreet(r)
    <2>1. t.r = r /\ t.h = "Execute"  BY DEF Ready
    <2>2. \A d : \A m \in Goto(t, "reply", 1, d) : ~Tells(m)
      BY <2>1 DEF Goto, Task, Tells
    <2>3. CASE Continue(t, Goto(t, "reply", 1, "error"))
      BY <2>1, <2>2, <2>3, HandlersDiscreet
    <2>4. ASSUME Accept(r, k), NEW d, NEW m \in (IF k > 0 THEN Deliveries(PushOf(position')) ELSE {{}}),
                 Continue(t, Goto(t, "reply", 1, d) \cup m)
          PROVE  Discreet(r)
      <3>1. m = {}  BY <1>3, <2>4
      <3>2. \A u \in Goto(t, "reply", 1, d) \cup m : ~Tells(u)
        BY <2>2, <3>1
      <3> QED  BY <2>1, <2>4, <3>2, HandlersDiscreet
    <2> QED  BY <1>1, <2>3, <2>4
  <1> QED  BY <1>4, <1>5, UnrealKept DEF ExecuteOrder, results

\* The outcome watcher sees an order that rests or was canceled.
LEMMA UnrealPoll ==
    ASSUME IInv, NEW r \in Reqs, Unreal(r), deal[r] = 0, "rest_read" \notin Faults, PollOrder(r)
    PROVE  Unreal(r)'
  <1> USE DEF IInv
  <1>1. PICK t \in At("OutcomeWatcher", r, "poll"), v \in OrderInfo(r) :
          \/ Publish(t, Event("OutcomeResolved", ClassifyOrderOutcome[v]), {})
          \/ Continue(t, Goto(t, "poll", t.n + 1, v))
    BY DEF PollOrder
  <1>2. v \in {"new", "canceled"}
    BY DEF OrderInfo, Unreal, BookOK
  <1>3. ~Claims(Event("OutcomeResolved", ClassifyOrderOutcome[v]))
    BY <1>2 DEF Claims, Event, ClassifyOrderOutcome
  <1>4. t.r = r /\ \A m \in Goto(t, "poll", t.n + 1, v) : ~Tells(m)
    BY DEF At, Goto, Task, Tells
  <1>5. Discreet(r)
    BY <1>1, <1>3, <1>4, HandlersDiscreet
  <1> QED  BY <1>5, UnrealKept DEF PollOrder, exchange, results, Unreal

\* The outcome completes an order that was canceled.
LEMMA UnrealOutcome ==
    ASSUME IInv, Ledger, Sole, NEW r \in Reqs, Unreal(r),
           ResolveOutcome(r) \/ CancelRestingOrderOnTimeout(r)
    PROVE  Unreal(r)'
  <1> USE DEF IInv
  <1>1. position' = 0 /\ UNCHANGED <<saves, outcome>>
    BY DEF ResolveOutcome, CancelRestingOrderOnTimeout, exchange, results, Unreal
  <1>2. CASE ResolveOutcome(r)
    <2>1. PICK t \in Ready("ResolveOutcome", r) :
            \/ t.d \in {"canceled_no_fill", "unknown", "filled"} /\ Continue(t, Goto(t, "enrich", 1, t.d))
            \/ Continue(t, {})
      BY <1>2 DEF ResolveOutcome
    <2>2. t.r = r /\ t.h = "ResolveOutcome" /\ Event("OutcomeResolved", t.d) \in log[r]
      BY DEF Ready, Ledger, Delivered, Subscriptions, TopicOf
    <2>3. t.d \in {"canceled_no_fill", "resting"}
      BY <2>2 DEF Unreal, Claims, Event
    <2>4. t.d = "canceled_no_fill" => \A m \in Goto(t, "enrich", 1, t.d) : ~Tells(m)
      BY <2>2 DEF Goto, Task, Tells
    <2>5. Discreet(r)
      BY <2>1, <2>2, <2>3, <2>4, HandlersDiscreet
    <2> QED  BY <1>1, <1>2, <2>5, UnrealKept DEF ResolveOutcome, exchange, Unreal
  <1>3. CASE CancelRestingOrderOnTimeout(r)
    <2>1. PICK t : t.r = r /\ Publish(t, Event("OutcomeResolved", "canceled_no_fill"), {})
      BY <1>3 DEF CancelRestingOrderOnTimeout, At
    <2>2. Discreet(r)
      BY <2>1, HandlersDiscreet DEF Claims, Event
    <2>3. ord'[r] # "filled"
      BY <1>3 DEF CancelRestingOrderOnTimeout, ExchangeCancel, Unreal, BookOK
    <2> QED  BY <1>1, <2>2, <2>3, UnrealKept
  <1> QED  BY <1>2, <1>3

\* Deadline and bailout find no position and no fill.
LEMMA UnrealDeadline ==
    ASSUME IInv, Ledger, NEW r \in Reqs, Unreal(r), "rest_read" \notin Faults,
           \/ WaitTimeoutDeadline(r) \/ TimeoutNoPosition(r) \/ TimeoutBailout(r)
           \/ BailoutAttempt(r) \/ BailoutFails(r) \/ PnLDrop(r)
    PROVE  Unreal(r)'
  <1> USE DEF IInv
  <1>1. CASE WaitTimeoutDeadline(r)
    <2>1. PICK t : t.r = r /\ Publish(t, Event("TimeoutPositionChecked", "none"), {})
      BY <1>1 DEF WaitTimeoutDeadline, Unreal, Ready
    <2>2. Discreet(r)
      BY <2>1, HandlersDiscreet DEF Claims, Event
    <2> QED  BY <1>1, <2>2, UnrealKept DEF WaitTimeoutDeadline, exchange, results, Unreal
  <1>2. CASE TimeoutNoPosition(r)
    <2>1. PICK t \in Ready("PositionChecked", r) :
            Continue(t, {}) \/ Continue(t, Goto(t, "enrich", 1, "canceled_no_fill"))
      BY <1>2, UnrealUnfilled DEF TimeoutNoPosition
    <2>2. t.r = r /\ \A m \in Goto(t, "enrich", 1, "canceled_no_fill") : ~Tells(m)
      BY DEF Ready, Goto, Task, Tells
    <2>3. Discreet(r)
      BY <2>1, <2>2, HandlersDiscreet
    <2> QED  BY <1>2, <2>3, UnrealKept DEF TimeoutNoPosition, exchange, results, Unreal
  <1>3. ~TimeoutBailout(r)
    <2> SUFFICES ASSUME NEW t \in Ready("PositionChecked", r), t.d = "hold" PROVE FALSE
      BY DEF TimeoutBailout
    <2>1. Event("TimeoutPositionChecked", "hold") \in log[r]
      BY DEF Ready, Ledger, Delivered, Subscriptions, TopicOf
    <2> QED  BY <2>1 DEF Unreal, Claims
  <1>4. At("PositionChecked", r, "close") = {}
    BY DEF At, Unreal, Tells
  <1>5. CASE BailoutAttempt(r)
    <2>1. PICK t : t.r = r /\ Publish(t, Plain("BailoutExecuted"), {}) /\ UNCHANGED position
      BY <1>4, <1>5 DEF BailoutAttempt, Unreal, At
    <2>2. Discreet(r)
      BY <2>1, HandlersDiscreet, PlainDiscreet
    <2> QED  BY <1>5, <2>1, <2>2, UnrealKept DEF BailoutAttempt, results, Unreal
  <1>6. CASE BailoutFails(r)
    <2>1. PICK t : t.r = r /\ Continue(t, {})
      BY <1>4, <1>6 DEF BailoutFails, At
    <2>2. Discreet(r)
      BY <2>1, HandlersDiscreet
    <2> QED  BY <1>6, <2>2, UnrealKept DEF BailoutFails, exchange, results, Unreal
  <1>7. ~PnLDrop(r)
    BY UnrealUnfilled DEF PnLDrop
  <1> QED  BY <1>1, <1>2, <1>3, <1>5, <1>6, <1>7

\* The completion of an order without a fill, and its row.
LEMMA UnrealCompletion ==
    ASSUME IInv, Ledger, NEW r \in Reqs, Unreal(r),
           \/ EnrichAndComplete(r) \/ PositionClosedDone(r) \/ CompleteOrder(r) \/ SaveTrade(r)
    PROVE  Unreal(r)'
  <1> USE DEF IInv
  <1>1. CASE EnrichAndComplete(r)
    <2>1. PICK t, o : /\ t \in tasks /\ t.r = r /\ t.p = "enrich" /\ o \in {t.d, "canceled_no_fill"}
                        /\ Publish(t, Event("Completed", o), {})
      BY <1>1 DEF EnrichAndComplete, At
    <2>2. o = "canceled_no_fill"
      BY <2>1 DEF Unreal, Tells
    <2>3. Discreet(r)
      BY <2>1, <2>2, HandlersDiscreet DEF Claims, Event
    <2> QED  BY <1>1, <2>3, UnrealKept DEF EnrichAndComplete, exchange, results, Unreal
  <1>2. ~PositionClosedDone(r)
    <2> SUFFICES ASSUME NEW t \in Ready("PositionClosed", r) PROVE FALSE
      BY DEF PositionClosedDone
    <2>1. Event("PositionClosed", t.d) \in log[r]
      BY DEF Ready, Ledger, Delivered, Subscriptions, TopicOf
    <2> QED  BY <2>1 DEF Unreal, Claims, Event
  <1>3. CASE CompleteOrder(r)
    <2>1. PICK t \in Ready("Complete", r) : Publish(t, Event("TradeRecord", t.d), {})
      BY <1>3 DEF CompleteOrder
    <2>2. t.r = r /\ Event("Completed", t.d) \in log[r]
      BY DEF Ready, Ledger, Delivered, Subscriptions, TopicOf
    <2>3. t.d = "canceled_no_fill"
      BY <2>2 DEF Unreal, Claims, Event
    <2>4. Discreet(r)
      BY <2>1, <2>2, <2>3, HandlersDiscreet DEF Claims, Event
    <2> QED  BY <1>3, <2>4, UnrealKept DEF CompleteOrder, exchange, results, Unreal
  <1>4. CASE SaveTrade(r)
    <2>1. PICK t \in Ready("SaveTrade", r) :
             /\ Continue(t, {})
             /\ UNCHANGED <<saves, outcome>> \/ outcome' = [outcome EXCEPT ![r] = t.d]
      BY <1>4 DEF SaveTrade
    <2>2. t.r = r /\ Event("TradeRecord", t.d) \in log[r]
      BY DEF Ready, Ledger, Delivered, Subscriptions, TopicOf
    <2>3. t.d = "canceled_no_fill"
      BY <2>2 DEF Unreal, Claims, Event
    <2>4. Discreet(r)
      BY <2>1, <2>2, HandlersDiscreet
    <2>5. saves'[r] > 0 => outcome'[r] = "canceled_no_fill"
      BY <2>1, <2>3 DEF Unreal, ResultsOK
    <2> QED  BY <1>4, <2>4, <2>5 DEF SaveTrade, exchange, Unreal, Discreet
  <1> QED  BY <1>1, <1>2, <1>3, <1>4

\* The position stream and the exchange.
LEMMA UnrealExchange ==
    ASSUME IInv, Ledger, NEW r \in Reqs, Unreal(r), deal'[r] = 0,
           \/ PositionFilled(r) \/ PositionClosed(r) \/ Fill(r) \/ ExchangeCancels(r)
           \/ CancelOpenOrders \/ ExchangeCloses \/ Snapshot \/ UNCHANGED vars
    PROVE  Unreal(r)'
  <1> USE DEF IInv
  <1>1. ~PositionFilled(r) /\ ~Fill(r) /\ ~ExchangeCloses
    BY DEF PositionFilled, Ready, Unreal, Tells, Fill, ExchangeCloses, BookOK
  <1>2. CASE PositionClosed(r)
    <2>1. PICK t : t.r = r /\ Continue(t, {})
      BY <1>2, UnrealUnfilled DEF PositionClosed, Ready, Unreal, Tells
    <2>2. Discreet(r)
      BY <2>1, HandlersDiscreet
    <2> QED  BY <1>2, <2>2, UnrealKept DEF PositionClosed, exchange, results, Unreal
  <1>3. CASE ExchangeCancels(r) \/ CancelOpenOrders \/ UNCHANGED vars
    <2>1. Discreet(r) /\ position' = 0 /\ UNCHANGED <<saves, outcome>>
      BY <1>3 DEF ExchangeCancels, CancelOpenOrders, vars, exchange, results, Discreet, Unreal
    <2>2. ord'[r] # "filled"
      BY <1>3 DEF ExchangeCancels, ExchangeCancel, CancelOpenOrders, vars, exchange, Unreal, BookOK
    <2> QED  BY <2>1, <2>2, UnrealKept
  <1>4. CASE Snapshot
    <2>1. PICK m \in Deliveries("empty") : tasks' = tasks \cup m
      BY <1>4 DEF Snapshot, Unreal
    <2>2. \A t \in m : ~Tells(t)
      BY DEF Deliveries, Task, Tells
    <2>3. Discreet(r)
      BY <1>4, <2>1, <2>2 DEF Discreet, Snapshot
    <2> QED  BY <1>4, <2>3, UnrealKept DEF Snapshot, exchange, results, Unreal
  <1> QED  BY <1>1, <1>2, <1>3, <1>4

\* What was dealt stays dealt.
LEMMA DealtStays ==
    ASSUME IInv, [Next]_vars, NEW q \in Reqs, deal[q] > 0 PROVE deal'[q] > 0
  <1> USE DEF IInv
  <1>1. ASSUME NEW r \in Reqs, r # q, Pipeline(r) \/ Environment(r) PROVE deal'[q] > 0
    BY <1>1, OrdersOfOthers
  <1>2. CASE ExecuteOrder(q)
    <2>1. PICK t : t \in Starts(tasks, "Execute", q)
      BY <1>2 DEF ExecuteOrder, Ready, Starts
    <2>2. submits[q] = 0
      BY <2>1 DEF OnceOK, Single, BookOK
    <2> QED  BY <2>2 DEF BookOK
  <1>3. CASE Fill(q)
    BY <1>3 DEF Fill, BookOK
  <1>4. ASSUME (Pipeline(q) \/ Environment(q)) /\ ~ExecuteOrder(q) /\ ~Fill(q) PROVE deal' = deal
    BY <1>4 DEF Pipeline, Environment, PreFlight, PositionWatchReady, FireTiming, SubmitReply,
         TPSLSubmission, ScheduleUnfilledCancelTimeout, SchedulePositionCloseTimeout, OutcomeWatcher,
         PollOrder, ResolveOutcome, CancelTimerFires, CancelRestingOrderOnTimeout, CloseTimerFires,
         WaitTimeoutDeadline, TimeoutNoPosition, TimeoutBailout, BailoutAttempt, BailoutFails,
         EnrichAndComplete, PositionClosedDone, CompleteOrder, SaveTrade, PositionFilled,
         PositionClosed, CancelOrderReply, Dispatch, CancelOrder, PnLDrop, WatchExpires,
         ExchangeCancels, exchange
  <1>5. CASE CancelOpenOrders \/ ExchangeCloses \/ Snapshot \/ UNCHANGED vars
    BY <1>5 DEF CancelOpenOrders, ExchangeCloses, Snapshot, vars, exchange
  <1> QED  BY <1>1, <1>2, <1>3, <1>4, <1>5 DEF Next

\* Every step keeps it.
LEMMA RealStep ==
    ASSUME IInv, Ledger, Sole, "rest_read" \notin Faults, RealInv, [Next]_vars PROVE RealInv'
  <1> SUFFICES ASSUME NEW q \in Reqs, ~(deal'[q] > 0) PROVE Unreal(q)'
    BY DEF RealInv
  <1>1. deal[q] = 0 /\ Unreal(q)
    BY DealtStays DEF RealInv, IInv, BookOK
  <1>2. deal'[q] = 0
    <2>1. IInv'  BY Inductive
    <2> QED  BY <2>1 DEF IInv, BookOK
  <1>3. ASSUME NEW r \in Reqs, Pipeline(r) \/ Environment(r) PROVE Unreal(q)'
    <2>1. r = q  BY DEF Sole
    <2> QED
      BY <1>1, <1>2, <1>3, <2>1, UnrealPipeline, UnrealExecute, UnrealPoll, UnrealOutcome,
         UnrealDeadline, UnrealCompletion, UnrealExchange DEF Pipeline, Environment
  <1>4. CASE CancelOpenOrders \/ ExchangeCloses \/ Snapshot \/ UNCHANGED vars
    BY <1>1, <1>2, <1>4, UnrealExchange
  <1> QED  BY <1>3, <1>4 DEF Next

\* It holds at the start.
LEMMA RealInit == ASSUME Sole, Init PROVE RealInv
  <1>1. \A r \in Reqs : intent[r].side = "open"
    BY DEF Init, Sole
  <1> QED  BY <1>1 DEF Init, RealInv, Unreal

\* Whatever is lost, repeated or refused, the row of an opening order claims a fill only if the
\* exchange dealt it: position stream, hold watchdog and outcome watcher may all complete it.
\* It is stated for one request at a time, as orders on one symbol see each other's position,
\* and while no query fails, as a failed one completes the order as "unknown".
THEOREM RowsAreReal ==
    ASSUME Sole, "rest_read" \notin Faults PROVE Spec => []RecordedFillIsReal
  <1>1. Init => RealInv
    BY RealInit
  <1>2. IInv /\ Ledger /\ RealInv /\ [Next]_vars => RealInv'
    BY RealStep
  <1>3. IInv /\ RealInv => RecordedFillIsReal
    BY DEF RealInv, Unreal, RecordedFillIsReal
  <1> QED  BY <1>1, <1>2, <1>3, Invariant, LedgerKept, PTL DEF Spec
-----------------------------------------------------------------------------
(* A position that is not forgotten *)

\* One request for a taker order that opens a position and is to close it in time.
TimedTaker == /\ Reqs # {} /\ \A q, r \in Reqs : q = r
              /\ \A i \in Intents : i.side = "open" /\ i.type = "taker" /\ i.closeTimeout

\* Pushes may get lost, the exchange may reject the order, but it answers, does not
\* repeat an empty position and ends no order in part; nobody cancels by a call.
Answering == /\ Faults \subseteq {"ws_loss", "reject", "watch_expire", "db"}
             /\ Api \subseteq {"redispatch", "trail"}

\* The events and the work that take the position for closed.
Ends(e) == \/ e.topic \in {"PositionClosed", "BailoutExecuted", "Completed", "Aborted", "Canceled"}
           \/ e = Event("TimeoutPositionChecked", "none")
           \/ e.topic = "OutcomeResolved" /\ e.data # "filled"
Parts(t) == \/ t.h = "Push" /\ t.d \in {"closed", "empty"}
            \/ t.p \in {"close", "enrich"}
            \/ t.p = "reply" /\ t.d # "ok"

\* Nothing is left to close.
Over(r) == submits[r] = 1 /\ position = 0

\* The order was dealt, nobody takes its position for closed, and somebody will look after it.
Held(r) ==
    /\ submits[r] = 1 /\ ord[r] = "filled"
    /\ \A e \in log[r] : ~Ends(e)
    /\ \A t \in tasks : ~Parts(t)
    /\ \A t, u \in At("Execute", r, "reply") : t = u
    /\ At("Execute", r, "reply") # {} => ~Has(r, "Submitted")
    /\ \/ At("Execute", r, "reply") # {}
       \/ Starts(tasks, "ScheduleTimeout", r) # {}
       \/ armed[r] \cap CloseTimers # {}
       \/ Has(r, "TimeoutScheduled")

\* Work that is no push of an empty position.
Solid(T) == \A t \in T : ~(t.h = "Push" /\ t.d = "empty")

HeldOK(r) == ord[r] # "live" /\ (submits[r] = 0 \/ Over(r) \/ Held(r))
HeldInv == Solid(tasks) /\ \A r \in Reqs : HeldOK(r)

\* Messages, pushes of what the position became, and handlers that go on.
LEMMA SolidParts ==
    /\ \A r, e : Solid(Messages(r, e))
    /\ \A d : \A m \in Deliveries(d) : d # "empty" => Solid(m)
    /\ \A t, p, n, d : t.h # "Push" => Solid(Goto(t, p, n, d))
    /\ Solid({}) /\ \A a, b : Solid(a) /\ Solid(b) => Solid(a \cup b)
  <1>1. "Push" \notin Subscriptions  BY DEF Subscriptions, TopicOf
  <1>2. \A r, e : Solid(Messages(r, e))
    BY <1>1 DEF Solid, Messages, Task
  <1>3. \A d : \A m \in Deliveries(d) : d # "empty" => Solid(m)
    BY DEF Solid, Deliveries, Task
  <1> QED  BY <1>2, <1>3 DEF Solid, Goto, Task

\* Handlers that add such work only.
LEMMA HandlersSolid ==
    ASSUME Solid(tasks), NEW t, NEW more, Solid(more)
    PROVE  /\ \A e : Publish(t, e, more) => Solid(tasks')
           /\ Continue(t, more) => Solid(tasks')
           /\ MarketClose(t, more) => Solid(tasks')
           /\ AbortOrder(t) => Solid(tasks')
  <1>1. ASSUME NEW m, Solid(m), Continue(t, m) PROVE Solid(tasks')
    BY <1>1 DEF Continue, Solid
  <1>2. ASSUME NEW m, Solid(m), NEW e, Publish(t, e, m) PROVE Solid(tasks')
    <2>1. Solid(Messages(t.r, e))  BY SolidParts
    <2> QED  BY <1>2, <2>1 DEF Publish, Emit, Solid
  <1>3. Solid({})  BY SolidParts
  <1>4. MarketClose(t, more) => Solid(tasks')
    <2> SUFFICES ASSUME MarketClose(t, more) PROVE Solid(tasks')
      OBVIOUS
    <2>1. PICK m : Solid(m) /\ (Continue(t, more \cup m) \/ Continue(t, more))
      BY <1>3, SolidParts DEF MarketClose
    <2>2. Solid(more \cup m)  BY <2>1, SolidParts
    <2> QED  BY <1>1, <2>1, <2>2
  <1> QED  BY <1>1, <1>2, <1>3, <1>4 DEF AbortOrder

\* Without snapshots no empty position is pushed.
LEMMA SolidStep ==
    ASSUME "snapshot" \notin Faults, Solid(tasks), [Next]_vars PROVE Solid(tasks')
  <1>1. ASSUME NEW r \in Reqs, Pipeline(r) PROVE Solid(tasks')
    <2>1. CASE ExecuteOrder(r)
      <3>1. PICK t, m, d : t.h = "Execute" /\ Solid(m)
                           /\ (Continue(t, Goto(t, "reply", 1, d) \cup m) \/ Continue(t, Goto(t, "reply", 1, d)))
        BY <2>1, SolidParts DEF ExecuteOrder, PushOf, Ready
      <3>2. Solid(Goto(t, "reply", 1, d)) /\ Solid(Goto(t, "reply", 1, d) \cup m)
        BY <3>1, SolidParts
      <3> QED  BY <3>1, <3>2, HandlersSolid
    <2>2. CASE CancelTimerFires(r) \/ CloseTimerFires(r)
      <3>1. \A e : Solid(Messages(r, e))  BY SolidParts
      <3> QED  BY <2>2, <3>1 DEF CancelTimerFires, CloseTimerFires, Emit, Solid, Task
    <2>3. CASE \/ OutcomeWatcher(r) \/ PollOrder(r) \/ ResolveOutcome(r) \/ TimeoutNoPosition(r)
               \/ TimeoutBailout(r) \/ BailoutAttempt(r) \/ PositionClosedDone(r)
      <3>1. PICK t, more : /\ t.h # "Push" /\ Solid(more)
                           /\ \/ \E e : Publish(t, e, more)
                              \/ Continue(t, more) \/ MarketClose(t, more)
        BY <2>3, SolidParts
           DEF OutcomeWatcher, PollOrder, ResolveOutcome, TimeoutNoPosition, TimeoutBailout,
               BailoutAttempt, PositionClosedDone, Ready, At
      <3> QED  BY <3>1, HandlersSolid
    <2>4. CASE ~(\/ ExecuteOrder(r) \/ CancelTimerFires(r) \/ CloseTimerFires(r) \/ OutcomeWatcher(r)
                 \/ PollOrder(r) \/ ResolveOutcome(r) \/ TimeoutNoPosition(r)
                 \/ TimeoutBailout(r) \/ BailoutAttempt(r) \/ PositionClosedDone(r))
      <3>1. PICK t : (\E e : Publish(t, e, {})) \/ Continue(t, {}) \/ AbortOrder(t)
        BY <1>1, <2>4
           DEF Pipeline, PreFlight, PositionWatchReady, FireTiming, SubmitReply, TPSLSubmission,
               ScheduleUnfilledCancelTimeout, SchedulePositionCloseTimeout,
               CancelRestingOrderOnTimeout, WaitTimeoutDeadline, BailoutFails, EnrichAndComplete,
               CompleteOrder, SaveTrade, PositionFilled, PositionClosed, CancelOrderReply
      <3> QED  BY <3>1, HandlersSolid, SolidParts
    <2> QED  BY <2>1, <2>2, <2>3, <2>4
  <1>2. ASSUME NEW r \in Reqs, Environment(r) PROVE Solid(tasks')
    <2>1. CASE Dispatch(r)
      <3>1. \A e : Solid(Messages(r, e))  BY SolidParts
      <3> QED  BY <2>1, <3>1 DEF Dispatch, Emit, Solid
    <2>2. CASE PnLDrop(r)
      <3>1. Solid({Task("Trail", r, "hold", "close", 1)})
        BY DEF Solid, Task
      <3> QED  BY <2>2, <3>1, HandlersSolid DEF PnLDrop
    <2>3. CASE Fill(r)
      <3>1. PICK m : Solid(m) /\ tasks' = tasks \cup m
        BY <2>3, SolidParts DEF Fill, PushOf
      <3> QED  BY <3>1 DEF Solid
    <2>4. CASE CancelOrder(r) \/ WatchExpires(r) \/ ExchangeCancels(r)
      BY <2>4 DEF CancelOrder, WatchExpires, ExchangeCancels, Solid, Task
    <2> QED  BY <1>2, <2>1, <2>2, <2>3, <2>4 DEF Environment
  <1>3. CASE ExchangeCloses
    <2>1. PICK m : Solid(m) /\ tasks' = tasks \cup m
      BY <1>3, SolidParts DEF ExchangeCloses
    <2> QED  BY <2>1 DEF Solid
  <1>4. CASE CancelOpenOrders \/ UNCHANGED vars
    BY <1>4 DEF CancelOpenOrders, vars
  <1> QED  BY <1>1, <1>2, <1>3, <1>4 DEF Next, Snapshot

\* A step that adds nothing which takes the position for closed, and no reply.
Calm(r) == /\ \A t \in tasks' : t \in tasks \/ (~Parts(t) /\ t.p # "reply")
           /\ \A e \in log'[r] : e \in log[r] \/ ~Ends(e)

\* Messages are such work.
LEMMA MessagesCalm == \A r, e : \A t \in Messages(r, e) : ~Parts(t) /\ t.p # "reply"
  <1>1. "Push" \notin Subscriptions  BY DEF Subscriptions, TopicOf
  <1> QED  BY <1>1 DEF Messages, Task, Parts

\* Handlers that publish such an event or go on with such work.
LEMMA HandlersCalm ==
    ASSUME PipeOK, NEW r \in Reqs, NEW t, t.r = r, NEW more,
           \A m \in more : ~Parts(m) /\ m.p # "reply"
    PROVE  /\ \A e : Publish(t, e, more) /\ ~Ends(e) => Calm(r)
           /\ Continue(t, more) => Calm(r)
  <1>1. ASSUME NEW e, Publish(t, e, more), ~Ends(e) PROVE Calm(r)
    <2>1. log'[r] = log[r] \cup {e} /\ tasks' = (tasks \ {t}) \cup more \cup Messages(r, e)
      BY <1>1 DEF Publish, Emit, PipeOK
    <2> QED  BY <1>1, <2>1, MessagesCalm DEF Calm
  <1>2. Continue(t, more) => Calm(r)
    BY DEF Continue, Calm
  <1> QED  BY <1>1, <1>2

\* The plain events that take no position for closed.
LEMMA PlainCalm ==
    \A topic : topic \notin {"PositionClosed", "BailoutExecuted", "Completed", "Aborted", "Canceled",
                             "OutcomeResolved"} => ~Ends(Plain(topic))
  BY DEF Ends, Plain, Event

\* A step that leaves the guard of a position in place.
LEMMA HeldKept ==
    ASSUME IInv, Ledger, NEW r \in Reqs, NEW S, Moves(r, S), "Submitted" \notin S, Held(r), Calm(r),
           submits'[r] = 1, ord' = ord, armed[r] \cap CloseTimers \subseteq armed'[r],
           \A t \in tasks : t.r = r /\ t.h \in {"Execute", "ScheduleTimeout"} => t \in tasks'
    PROVE  Held(r)'
  <1>1. Has(r, "TimeoutScheduled") => Has(r, "TimeoutScheduled")'
    BY MovesWork DEF Has, IInv
  <1>2. Has(r, "Submitted")' => Has(r, "Submitted")
    BY MovesWork DEF Has, IInv
  <1>3. At("Execute", r, "reply")' = At("Execute", r, "reply")
    BY DEF At, Calm
  <1>4. Starts(tasks, "ScheduleTimeout", r) # {} => Starts(tasks, "ScheduleTimeout", r)' # {}
    BY DEF Starts
  <1>5. armed[r] \cap CloseTimers # {} => armed'[r] \cap CloseTimers # {}
    OBVIOUS
  <1>6. (\A e \in log'[r] : ~Ends(e)) /\ (\A t \in tasks' : ~Parts(t))
    BY DEF Held, Calm, Ends, Parts
  <1> QED  BY <1>1, <1>2, <1>3, <1>4, <1>5, <1>6 DEF Held

\* The handlers of the pipeline, the fill and the row.
LEMMA HeldPipeline ==
    ASSUME IInv, Ledger, Answering, NEW r \in Reqs, Held(r),
           \/ Dispatch(r) \/ PreFlight(r) \/ PositionWatchReady(r) \/ FireTiming(r)
           \/ TPSLSubmission(r) \/ SchedulePositionCloseTimeout(r) \/ OutcomeWatcher(r)
           \/ SaveTrade(r) \/ PositionFilled(r) \/ WatchExpires(r)
    PROVE  Held(r)'
  <1> USE DEF IInv
  <1>1. PICK S : Moves(r, S) /\ "Submitted" \notin S
    BY FireMoves, WatchMoves, CompletionMoves, CallMoves, ExchangeMoves
  <1>2. "rest_write" \notin Faults
    BY DEF Answering
  <1>3. UNCHANGED <<submits, ord>>
    BY DEF Dispatch, PreFlight, PositionWatchReady, FireTiming, TPSLSubmission,
           SchedulePositionCloseTimeout, OutcomeWatcher, SaveTrade, PositionFilled, WatchExpires,
           exchange
  <1>4. armed[r] \cap CloseTimers \subseteq armed'[r]
    <2>1. UNCHANGED timers \/ \E k : Store(r, k)
      BY <1>2 DEF Dispatch, PreFlight, PositionWatchReady, FireTiming, TPSLSubmission,
           SchedulePositionCloseTimeout, OutcomeWatcher, SaveTrade, PositionFilled, WatchExpires
    <2> QED  BY <2>1 DEF timers, Store, TimersOK
  <1>5. CASE Dispatch(r)
    <2>1. /\ log'[r] = log[r] \cup {Plain("Intent")}
          /\ tasks' = tasks \cup Messages(r, Plain("Intent"))
      BY <1>5 DEF Dispatch, Emit, PipeOK
    <2>2. Calm(r)
      BY <2>1, MessagesCalm, PlainCalm DEF Calm
    <2> QED  BY <1>1, <1>3, <1>4, <2>1, <2>2, HeldKept DEF Held
  <1>6. CASE WatchExpires(r)
    BY <1>1, <1>3, <1>4, <1>6, HeldKept DEF WatchExpires, Calm, Held
  <1>7. CASE ~(Dispatch(r) \/ WatchExpires(r))
    <2>1. PICK t : /\ t.r = r /\ t.h \notin {"Execute", "ScheduleTimeout"}
                   /\ \/ \E topic \in {"PreFlightDone", "PositionWatchReady", "FireWindowReached",
                                       "TPSLDispatched", "Filled"} : Publish(t, Plain(topic), {})
                      \/ Continue(t, {})
                      \/ t.h = "OutcomeWatcher" /\ Continue(t, Goto(t, "poll", 1, "nil"))
      BY <1>2, <1>7 DEF PreFlight, PositionWatchReady, FireTiming, TPSLSubmission,
           SchedulePositionCloseTimeout, OutcomeWatcher, SaveTrade, PositionFilled, Ready
    <2>2. t.h = "OutcomeWatcher" => \A m \in Goto(t, "poll", 1, "nil") : ~Parts(m) /\ m.p # "reply"
      BY DEF Goto, Task, Parts
    <2>3. Calm(r)
      <3>1. CASE t.h = "OutcomeWatcher" /\ Continue(t, Goto(t, "poll", 1, "nil"))
        BY <2>1, <2>2, <3>1, HandlersCalm
      <3> QED  BY <2>1, <3>1, HandlersCalm, PlainCalm
    <2>4. Spares(t)
      BY <2>1, HandlersSpare
    <2> QED  BY <1>1, <1>3, <1>4, <2>1, <2>3, <2>4, HeldKept DEF Spares, Held
  <1> QED  BY <1>5, <1>6, <1>7

\* The reply of the exchange, and the timer that is stored then.
LEMMA HeldSubmit ==
    ASSUME IInv, Ledger, TimedTaker, NEW r \in Reqs, Held(r),
           SubmitReply(r) \/ ScheduleUnfilledCancelTimeout(r)
    PROVE  Held(r)'
  <1> USE DEF IInv
  <1>1. UNCHANGED <<submits, ord>>
    BY DEF SubmitReply, ScheduleUnfilledCancelTimeout, exchange
  <1>2. CASE SubmitReply(r)
    <2> DEFINE e == Plain("Submitted")
    <2>1. PICK t \in At("Execute", r, "reply") : Publish(t, e, {})
      BY <1>2 DEF SubmitReply, At, Held, Parts
    <2>2. t \in tasks /\ t.r = r /\ t.h = "Execute" /\ t.p = "reply"
      BY DEF At
    <2>3. Calm(r)
      BY <2>1, <2>2, HandlersCalm, PlainCalm
    <2>4. tasks' = (tasks \ {t}) \cup Messages(r, e) /\ log'[r] = log[r] \cup {e}
      BY <2>1, <2>2 DEF Publish, Emit, PipeOK
    <2>5. At("Execute", r, "reply")' = {}
      <3> SUFFICES ASSUME NEW u \in tasks', u.h = "Execute", u.r = r, u.p = "reply" PROVE FALSE
        BY DEF At
      <3>1. u \in tasks /\ u # t
        BY <2>4, MessagesCalm
      <3>2. u \in At("Execute", r, "reply")
        BY <3>1 DEF At
      <3> QED  BY <2>1, <3>1, <3>2 DEF Held
    <2>6. e.topic = "Submitted"  BY DEF Plain, Event
    <2> HIDE DEF e
    <2>7. \A f \in log[r] : Key(f) # Key(e)
      BY <2>6, KeyTopic DEF Held, Has
    <2>8. "ScheduleTimeout" \in Subscriptions /\ TopicOf["ScheduleTimeout"] = e.topic
      BY <2>6 DEF TopicOf, Subscriptions
    <2>9. Task("ScheduleTimeout", r, e.data, "start", 0) \in tasks'
      BY <2>4, <2>7, <2>8 DEF Messages
    <2>10. Starts(tasks, "ScheduleTimeout", r)' # {}
      BY <2>9 DEF Starts, Task
    <2>11. (\A f \in log'[r] : ~Ends(f)) /\ (\A u \in tasks' : ~Parts(u))
      BY <2>3 DEF Held, Calm, Ends, Parts
    <2> QED  BY <1>1, <2>5, <2>10, <2>11 DEF Held
  <1>3. CASE ScheduleUnfilledCancelTimeout(r)
    <2>1. PICK t \in Ready("ScheduleTimeout", r) : Continue(t, {}) /\ Store(r, "closeSubmitted")
      BY <1>3 DEF ScheduleUnfilledCancelTimeout, TimedTaker, IntentOK
    <2>2. t.r = r /\ t.h = "ScheduleTimeout"  BY DEF Ready
    <2>3. Calm(r)
      BY <2>1, <2>2, HandlersCalm
    <2>4. "closeSubmitted" \in armed'[r] \cap CloseTimers
      BY <2>1 DEF Store, TimersOK, CloseTimers
    <2>5. At("Execute", r, "reply")' = At("Execute", r, "reply") /\ log' = log
      BY <2>1, <2>2 DEF At, Continue
    <2>6. \A u \in tasks' : ~Parts(u)
      BY <2>1 DEF Held, Continue, Parts
    <2> QED  BY <1>1, <2>4, <2>5, <2>6 DEF Held, Has
  <1> QED  BY <1>2, <1>3

\* The outcome watcher finds the order filled, which completes nothing.
LEMMA HeldOutcome ==
    ASSUME IInv, Ledger, TimedTaker, Answering, NEW r \in Reqs, Held(r),
           PollOrder(r) \/ ResolveOutcome(r)
    PROVE  Held(r)'
  <1> USE DEF IInv
  <1>1. Moves(r, {"OutcomeResolved"}) \/ Moves(r, {})
    BY WatchMoves
  <1>2. UNCHANGED <<submits, ord>>
    BY DEF PollOrder, ResolveOutcome, exchange
  <1>3. CASE PollOrder(r)
    <2>1. OrderInfo(r) = {"filled"} /\ "rest_read" \notin Faults
      BY DEF OrderInfo, Held, Answering
    <2>2. PICK t \in At("OutcomeWatcher", r, "poll") :
             Publish(t, Event("OutcomeResolved", ClassifyOrderOutcome["filled"]), {})
      BY <1>3, <2>1 DEF PollOrder, IsTerminalOrderState
    <2>3. ~Ends(Event("OutcomeResolved", ClassifyOrderOutcome["filled"]))
      BY DEF Ends, Event, ClassifyOrderOutcome
    <2>4. t.r = r /\ t.h = "OutcomeWatcher"  BY DEF At
    <2>5. Calm(r) /\ Spares(t)
      BY <2>2, <2>3, <2>4, HandlersCalm, HandlersSpare
    <2>6. armed' = armed  BY <1>3 DEF PollOrder, timers
    <2> QED  BY <1>1, <1>2, <2>4, <2>5, <2>6, HeldKept DEF Spares, Held
  <1>4. CASE ResolveOutcome(r)
    <2>1. PICK t \in Ready("ResolveOutcome", r) :
             \/ t.d \in {"canceled_no_fill", "unknown"}
             \/ intent[r].side = "close"
             \/ Continue(t, {}) /\ UNCHANGED timers
      BY <1>4 DEF ResolveOutcome
    <2>2. t.r = r /\ t.h = "ResolveOutcome" /\ Event("OutcomeResolved", t.d) \in log[r]
      BY DEF Ready, Ledger, Delivered, Subscriptions, TopicOf
    <2>3. t.d = "filled"
      BY <2>2 DEF Held, Ends, Event
    <2>4. Continue(t, {}) /\ armed' = armed
      BY <2>1, <2>3 DEF TimedTaker, IntentOK, timers
    <2>5. Calm(r) /\ Spares(t)
      BY <2>2, <2>4, HandlersCalm, HandlersSpare
    <2> QED  BY <1>1, <1>2, <2>2, <2>4, <2>5, HeldKept DEF Spares, Held
  <1> QED  BY <1>3, <1>4

\* The close timer fires, and its handler finds the position.
LEMMA HeldDeadline ==
    ASSUME IInv, Ledger, Answering, NEW r \in Reqs, Held(r), position > 0,
           CloseTimerFires(r) \/ WaitTimeoutDeadline(r)
    PROVE  Held(r)'
  <1> USE DEF IInv
  <1>1. UNCHANGED <<submits, ord>>
    BY DEF CloseTimerFires, WaitTimeoutDeadline, exchange
  <1>2. CASE CloseTimerFires(r)
    <2> DEFINE e == Plain("TimeoutScheduled")
    <2>1. log'[r] = log[r] \cup {e} /\ tasks' = tasks \cup Messages(r, e)
      BY <1>2 DEF CloseTimerFires, Emit, PipeOK
    <2>2. ~Ends(e) /\ e.topic = "TimeoutScheduled"
      BY PlainCalm DEF Plain, Event
    <2> HIDE DEF e
    <2>3. Has(r, "TimeoutScheduled")' /\ (Has(r, "Submitted")' => Has(r, "Submitted"))
      BY <2>1, <2>2 DEF Has
    <2>4. At("Execute", r, "reply")' = At("Execute", r, "reply")
      BY <2>1, MessagesCalm DEF At
    <2>5. (\A f \in log'[r] : ~Ends(f)) /\ (\A u \in tasks' : ~Parts(u))
      BY <2>1, <2>2, MessagesCalm DEF Held, Ends, Parts
    <2> QED  BY <1>1, <2>3, <2>4, <2>5 DEF Held
  <1>3. CASE WaitTimeoutDeadline(r)
    <2>1. PICK t \in Ready("WaitDeadline", r) : Publish(t, Event("TimeoutPositionChecked", "hold"), {})
      BY <1>3 DEF WaitTimeoutDeadline, Answering
    <2>2. t.r = r /\ t.h = "WaitDeadline"  BY DEF Ready
    <2>3. Calm(r) /\ Spares(t)
      BY <2>1, <2>2, HandlersCalm, HandlersSpare DEF Ends, Event
    <2>4. Moves(r, {"TimeoutPositionChecked"}) /\ armed' = armed
      BY <1>3, TimerMoves DEF WaitTimeoutDeadline, timers
    <2> QED  BY <1>1, <2>2, <2>3, <2>4, HeldKept DEF Spares, Held
  <1> QED  BY <1>2, <1>3

\* What cannot happen while the position is held, or ends it.
LEMMA HeldElse ==
    ASSUME IInv, Ledger, TimedTaker, Answering, NEW r \in Reqs, TimerOK(r), Held(r),
           \/ ExecuteOrder(r) \/ CancelTimerFires(r) \/ CancelRestingOrderOnTimeout(r)
           \/ TimeoutNoPosition(r) \/ TimeoutBailout(r) \/ BailoutAttempt(r) \/ BailoutFails(r)
           \/ EnrichAndComplete(r) \/ PositionClosedDone(r) \/ CompleteOrder(r) \/ PositionClosed(r)
           \/ CancelOrderReply(r) \/ CancelOrder(r) \/ PnLDrop(r) \/ Fill(r) \/ ExchangeCancels(r)
    PROVE  Over(r)'
  <1> USE DEF IInv
  <1>1. \A h \in Subscriptions : \A t \in Ready(h, r) : Event(TopicOf[h], t.d) \in log[r]
    BY DEF Ready, Ledger, Delivered
  <1>2. ~ExecuteOrder(r)
    <2> SUFFICES ASSUME NEW t \in Starts(tasks, "Execute", r) PROVE FALSE
      BY DEF ExecuteOrder, Ready, Starts
    <2> QED  BY DEF OnceOK, Single, Held
  <1>3. ~CancelTimerFires(r)
    BY DEF CancelTimerFires, Expire, TimerOK, TimedTaker, IntentOK
  <1>4. /\ \A h : At(h, r, "close") = {} /\ At(h, r, "enrich") = {}
        /\ \A t \in Ready("Push", r) : t.d \notin {"closed", "empty"}
    BY DEF At, Ready, Held, Parts
  <1>5. /\ ~CancelRestingOrderOnTimeout(r) /\ ~BailoutAttempt(r) /\ ~BailoutFails(r)
        /\ ~EnrichAndComplete(r) /\ ~CancelOrderReply(r) /\ ~PositionClosed(r)
    BY <1>4 DEF CancelRestingOrderOnTimeout, BailoutAttempt, BailoutFails, EnrichAndComplete,
                CancelOrderReply, PositionClosed
  <1>6. ~TimeoutNoPosition(r)
    <2>1. \A t \in Ready("PositionChecked", r) : Event("TimeoutPositionChecked", t.d) \in log[r]
      BY <1>1 DEF Subscriptions, TopicOf
    <2> QED  BY <2>1 DEF TimeoutNoPosition, Held, Ends
  <1>7. ~PositionClosedDone(r) /\ ~CompleteOrder(r)
    <2>1. \A t \in Ready("PositionClosed", r) : Event("PositionClosed", t.d) \in log[r]
      BY <1>1 DEF Subscriptions, TopicOf
    <2>2. \A t \in Ready("Complete", r) : Event("Completed", t.d) \in log[r]
      BY <1>1 DEF Subscriptions, TopicOf
    <2> QED  BY <2>1, <2>2 DEF PositionClosedDone, CompleteOrder, Held, Ends, Event
  <1>8. ~CancelOrder(r) /\ ~Fill(r) /\ ~ExchangeCancels(r)
    BY DEF CancelOrder, Answering, Fill, ExchangeCancels, Held
  <1>9. ASSUME TimeoutBailout(r) \/ PnLDrop(r) PROVE Over(r)'
    BY <1>9 DEF TimeoutBailout, PnLDrop, MarketClose, Answering, Over, Held
  <1> QED  BY <1>2, <1>3, <1>5, <1>6, <1>7, <1>8, <1>9

\* The submission of an order that is dealt, or of one that is not.
LEMMA HeldExecute ==
    ASSUME IInv, Ledger, TimedTaker, Answering, NEW r \in Reqs, EarlyOK(r), Solid(tasks),
           ExecuteOrder(r)
    PROVE  ord'[r] # "live" /\ (Over(r)' \/ Held(r)')
  <1> USE DEF IInv
  <1>1. PICK t \in Ready("Execute", r), k \in 0..Lots :
          \/ /\ Accept(r, k)
             /\ \E m \in (IF k > 0 THEN Deliveries(PushOf(position')) ELSE {{}}) :
                   Continue(t, Goto(t, "reply", 1, "ok") \cup m)
          \/ Continue(t, Goto(t, "reply", 1, "error")) /\ UNCHANGED <<ord, deal, position>>
    BY DEF ExecuteOrder, Answering
  <1>2. /\ t.r = r /\ t.h = "Execute" /\ t.p = "start" /\ t \in tasks
        /\ t \in Pipe(r) /\ t \in Starts(tasks, "Execute", r)
    BY DEF Ready, Pipe, PipeHandlers, Starts
  <1>3. submits[r] = 0 /\ submits'[r] = 1
    BY <1>2 DEF OnceOK, Single, BookOK, ExecuteOrder
  <1>4. intent[r].side = "open" /\ intent[r].type = "taker"
    BY DEF TimedTaker, IntentOK
  <1>5. position = 0 /\ ord[r] = "none"
    BY <1>3, <1>4 DEF EarlyOK, BookOK
  <1>6. CASE UNCHANGED <<ord, deal, position>>
    BY <1>3, <1>5, <1>6 DEF Over
  <1>7. ASSUME Accept(r, k), NEW m \in (IF k > 0 THEN Deliveries(PushOf(position')) ELSE {{}}),
               Continue(t, Goto(t, "reply", 1, "ok") \cup m)
        PROVE  ord'[r] # "live" /\ (Over(r)' \/ Held(r)')
    <2>1. k \in {0, Lots} /\ position' = k /\ ord'[r] = IF k = Lots THEN "filled" ELSE "canceled"
      BY <1>4, <1>5, <1>7 DEF Accept, BookOK, Lots, Answering
    <2>2. CASE k = 0
      BY <1>3, <2>1, <2>2 DEF Over, Lots
    <2>3. CASE k = Lots
      <3>1. m \in Deliveries("open") /\ ord'[r] = "filled"
        BY <1>7, <2>1, <2>3 DEF PushOf, Lots
      <3>2. \A u \in m : u.h = "Push" /\ u.d = "open" /\ u.p = "start"
        BY <3>1 DEF Deliveries, Task
      <3>3. tasks' = (tasks \ {t}) \cup Goto(t, "reply", 1, "ok") \cup m /\ log' = log
        BY <1>7 DEF Continue
      <3>4. Goto(t, "reply", 1, "ok") = {Task("Execute", r, "ok", "reply", 1)}
        BY <1>2 DEF Goto
      <3>5. \A u \in tasks : u = t \/ (u.h = "Push" /\ u.d = "empty")
        <4>1. Early(r) /\ \A u \in Pipe(r) : u = t
          BY <1>2, PipeUnique DEF Early
        <4>2. \A u \in tasks : u.r = r
          BY DEF TimedTaker, PipeOK, TaskOK, TaskType
        <4> QED  BY <4>1, <4>2 DEF EarlyOK
      <3>6. \A u \in tasks' : u = Task("Execute", r, "ok", "reply", 1) \/ u \in m
        BY <3>3, <3>4, <3>5 DEF Solid
      <3>7. At("Execute", r, "reply")' = {Task("Execute", r, "ok", "reply", 1)}
        BY <3>2, <3>3, <3>4, <3>6 DEF At, Task
      <3>8. \A u \in tasks' : ~Parts(u)
        BY <3>2, <3>6 DEF Parts, Task
      <3>9. \A e \in log'[r] : e.topic \in PipeTopics
        BY <1>2, <3>3, PipeTables DEF EarlyOK, Pipe
      <3>10. (\A e \in log'[r] : ~Ends(e)) /\ ~Has(r, "Submitted")'
        BY <3>9 DEF Ends, Has, PipeTopics, Event
      <3> QED  BY <1>3, <3>1, <3>7, <3>8, <3>10 DEF Held
    <2> QED  BY <2>1, <2>2, <2>3
  <1> QED  BY <1>1, <1>6, <1>7

\* Besides the submission nothing makes an order rest or opens the position.
LEMMA BookSettles ==
    ASSUME IInv, NEW r \in Reqs, ord[r] # "live", ~ExecuteOrder(r),
           \/ Pipeline(r) \/ Environment(r)
           \/ CancelOpenOrders \/ ExchangeCloses \/ Snapshot \/ UNCHANGED vars
    PROVE  ord'[r] # "live" /\ submits' = submits /\ position' \in {position, 0}
  <1> USE DEF exchange
  <1>1. CASE \/ PreFlight(r) \/ PositionWatchReady(r) \/ FireTiming(r) \/ SubmitReply(r)
             \/ TPSLSubmission(r) \/ ScheduleUnfilledCancelTimeout(r)
             \/ SchedulePositionCloseTimeout(r) \/ OutcomeWatcher(r) \/ PollOrder(r)
             \/ ResolveOutcome(r) \/ CancelTimerFires(r) \/ CloseTimerFires(r)
             \/ WaitTimeoutDeadline(r) \/ TimeoutNoPosition(r) \/ BailoutFails(r)
             \/ EnrichAndComplete(r) \/ PositionClosedDone(r) \/ CompleteOrder(r) \/ SaveTrade(r)
             \/ PositionFilled(r) \/ PositionClosed(r) \/ CancelOrderReply(r)
    BY <1>1 DEF PreFlight, PositionWatchReady, FireTiming, SubmitReply, TPSLSubmission,
       ScheduleUnfilledCancelTimeout, SchedulePositionCloseTimeout, OutcomeWatcher, PollOrder,
       ResolveOutcome, CancelTimerFires, CloseTimerFires, WaitTimeoutDeadline, TimeoutNoPosition,
       BailoutFails, EnrichAndComplete, PositionClosedDone, CompleteOrder, SaveTrade,
       PositionFilled, PositionClosed, CancelOrderReply
  <1>2. CASE TimeoutBailout(r) \/ BailoutAttempt(r) \/ PnLDrop(r)
    <2>1. UNCHANGED <<ord, submits>>
      BY <1>2 DEF TimeoutBailout, BailoutAttempt, PnLDrop
    <2>2. position' \in {position, 0}
      BY <1>2 DEF TimeoutBailout, BailoutAttempt, PnLDrop, MarketClose
    <2> QED  BY <2>1, <2>2
  <1>3. CASE \/ CancelRestingOrderOnTimeout(r) \/ CancelOrder(r) \/ ExchangeCancels(r)
             \/ CancelOpenOrders
    <2>1. UNCHANGED <<position, submits>>
      BY <1>3 DEF CancelRestingOrderOnTimeout, CancelOrder, ExchangeCancels, CancelOpenOrders
    <2>2. ord'[r] = ord[r] \/ ord'[r] = "canceled"
      BY <1>3 DEF CancelRestingOrderOnTimeout, CancelOrder, ExchangeCancels, CancelOpenOrders,
                  ExchangeCancel, IInv, BookOK
    <2> QED  BY <2>1, <2>2
  <1>4. CASE Dispatch(r) \/ WatchExpires(r) \/ Fill(r) \/ ExchangeCloses \/ Snapshot \/ UNCHANGED vars
    BY <1>4 DEF Dispatch, WatchExpires, Fill, ExchangeCloses, Snapshot, vars
  <1> QED  BY <1>1, <1>2, <1>3, <1>4 DEF Pipeline, Environment

\* Every step keeps it.
LEMMA HeldStep ==
    ASSUME IInv, Ledger, EarlyInv, WatchInv, TimedTaker, Answering, HeldInv, [Next]_vars
    PROVE  HeldInv'
  <1>1. Solid(tasks')
    BY SolidStep DEF HeldInv, Answering
  <1> SUFFICES ASSUME NEW r \in Reqs PROVE HeldOK(r)'
    BY <1>1 DEF HeldInv
  <1>2. HeldOK(r) /\ EarlyOK(r) /\ TimerOK(r)
    BY DEF HeldInv, EarlyInv, WatchInv, WatchOK
  <1>3. \/ Pipeline(r) \/ Environment(r)
        \/ CancelOpenOrders \/ ExchangeCloses \/ Snapshot \/ UNCHANGED vars
    BY DEF Next, TimedTaker
  <1>4. CASE ExecuteOrder(r)
    BY <1>2, <1>4, HeldExecute DEF HeldInv, HeldOK
  <1>5. CASE ~ExecuteOrder(r)
    <2>1. ord'[r] # "live" /\ submits' = submits /\ position' \in {position, 0}
      BY <1>2, <1>3, <1>5, BookSettles DEF HeldOK
    <2>2. CASE submits[r] = 0 \/ Over(r)
      BY <2>1, <2>2 DEF HeldOK, Over
    <2>3. CASE Held(r) /\ position > 0
      <3>1. CASE Pipeline(r) \/ Environment(r)
        BY <1>2, <2>1, <2>3, <3>1, HeldPipeline, HeldSubmit, HeldOutcome, HeldDeadline, HeldElse
           DEF Pipeline, Environment, HeldOK
      <3>2. CASE ExchangeCloses
        BY <2>1, <2>3, <3>2 DEF ExchangeCloses, HeldOK, Over, Held
      <3>3. CASE CancelOpenOrders \/ Snapshot
        BY <3>3 DEF CancelOpenOrders, Snapshot, Answering
      <3>4. CASE UNCHANGED vars
        BY <2>1, <2>3, <3>4 DEF vars, exchange, timers, HeldOK, Held, At, Starts, Has
      <3> QED  BY <1>3, <3>1, <3>2, <3>3, <3>4
    <2>4. Held(r) => Over(r) \/ position > 0
      BY DEF Held, Over, IInv, BookOK
    <2> QED  BY <1>2, <2>2, <2>3, <2>4 DEF HeldOK
  <1> QED  BY <1>4, <1>5

\* It holds at the start.
LEMMA HeldInit == Init => HeldInv
  BY DEF Init, HeldInv, HeldOK, Solid

\* A position that is held has work or a timer.
LEMMA HeldWatched ==
    ASSUME IInv, Ledger, EarlyInv, WatchInv, TimedTaker, HeldInv PROVE WatchedPosition
  <1> SUFFICES ASSUME position > 0, Idle PROVE FALSE
    BY DEF WatchedPosition
  <1>1. PICK r \in Reqs : HeldOK(r) /\ EarlyOK(r) /\ DeadlineWorked(r)
    BY DEF TimedTaker, HeldInv, EarlyInv, WatchInv, WatchOK
  <1>2. Held(r)
    <2>1. intent[r].side = "open"
      BY DEF TimedTaker, IInv, IntentOK
    <2> QED  BY <1>1, <2>1 DEF HeldOK, Over, EarlyOK, IInv, BookOK
  <1>3. tasks = {} /\ armed[r] = {}
    BY DEF Idle
  <1>4. Has(r, "TimeoutScheduled")
    BY <1>2, <1>3 DEF Held, At, Starts
  <1>5. state[r] \in Terminal
    BY <1>1, <1>3, <1>4 DEF DeadlineWorked, Busy
  <1>6. PICK e \in log[r] : e.topic # "TradeRecord" /\ Target(e) = state[r]
    BY <1>5 DEF Ledger, KeepsUp, ReachedIn, Terminal
  <1>7. e.topic \in {"Completed", "Aborted", "Canceled"}
    <2>1. e.topic \in DOMAIN NextState /\ e # Event("OutcomeResolved", "resting")
      BY <1>5, <1>6 DEF IInv, PipeOK, EventType, Topics, Target, Terminal
    <2> QED  BY <1>5, <1>6, <2>1 DEF Target, NextState, Terminal
  <1> QED  BY <1>2, <1>7 DEF Held, Ends

\* Pushes may be lost, the watch may expire and the exchange may close the position when it
\* likes: a taker order with a position close timeout never leaves a position behind that
\* neither a handler nor a timer will look at again.  It is stated for one request, of which
\* the outcome is known: each fault that is left out, and each call, breaks it.
THEOREM PositionIsWatched ==
    ASSUME TimedTaker, Answering PROVE Spec => []WatchedPosition
  <1>1. Alone /\ "cancel" \notin Api
    BY DEF TimedTaker, Answering, Alone
  <1>2. OneTimeoutEach /\ {"cancel", "cancelOpen"} \cap Api = {}
    BY DEF TimedTaker, Answering, OneTimeoutEach
  <1>3. Spec => []EarlyInv
    BY <1>1, EarlyKept
  <1>4. Spec => []WatchInv
    BY <1>2, WatchAlways
  <1>5. IInv /\ Ledger /\ EarlyInv /\ WatchInv /\ HeldInv /\ [Next]_vars => HeldInv'
    BY HeldStep
  <1>6. IInv /\ Ledger /\ EarlyInv /\ WatchInv /\ HeldInv => WatchedPosition
    BY HeldWatched
  <1> QED  BY <1>3, <1>4, <1>5, <1>6, HeldInit, Invariant, LedgerKept, PTL DEF Spec
=============================================================================
