---------------------------- MODULE OrderManager ----------------------------
(***************************************************************************)
(* The futures order manager: internal/trading/ordermanager/futures.       *)
(*                                                                         *)
(* An order is an event-sourced aggregate driven by a pipeline of handlers *)
(* on an in-memory event bus.  Every message is delivered to every         *)
(* subscription of its topic and handled in a goroutine of its own, next   *)
(* to AfterFunc timers, callbacks of the position stream and calls of the  *)
(* API.  The module interleaves all of them with the exchange.             *)
(*                                                                         *)
(* A member of `tasks' is one of those pieces of work: a message that is   *)
(* waiting for its handler (p = "start") or a handler suspended at a point *)
(* where it sleeps or waits for a REST call.  Between two such points a    *)
(* handler is one step.                                                    *)
(*                                                                         *)
(* All requests of the model are orders of one account on one symbol, so   *)
(* they share the position and its stream.                                 *)
(***************************************************************************)
EXTENDS Integers, FiniteSets

CONSTANTS
    Reqs,         \* request ids
    Intents,      \* the order intents a strategy may dispatch
    Faults,       \* what may go wrong, a subset of AllFaults
    Api,          \* calls made besides Dispatch, a subset of AllApi
    PollTries,    \* attempts of pollOrderUntilTerminal (6 in the code)
    BailoutTries, \* attempts of HandleExecuteBailout (11 in the code)
    AckGates,     \* a subscription gets its next message after the Ack of the last
    SlowTimers    \* a timer outlasts the messages already on their way

Lots == 2         \* an order is for two lots: one of them is a partial fill

AllFaults == {"rest_read", "rest_write", "reject", "submit_ambiguous",
              "partial_cancel", "ws_loss", "snapshot", "watch_expire", "db"}
AllApi == {"redispatch", "cancel", "cancelOpen", "trail"}

IntentType == [type : {"maker", "taker"}, side : {"open", "close"}, tpsl : BOOLEAN,
               closeTimeout : BOOLEAN, cancelTimeout : BOOLEAN, trail : BOOLEAN]

ASSUME IntentsAssumption == Intents \subseteq IntentType
ASSUME TriesAssumption == PollTries \in Nat \ {0} /\ BailoutTries \in Nat \ {0}
ASSUME SwitchAssumption == /\ Faults \subseteq AllFaults /\ Api \subseteq AllApi
                           /\ AckGates \in BOOLEAN /\ SlowTimers \in BOOLEAN

-----------------------------------------------------------------------------
(* Lifecycle states and events *)

Rank == [INIT |-> 1, PREFLIGHT_DONE |-> 2, POSITION_WATCH_READY |-> 3,
         FIRE_WINDOW |-> 4, SUBMITTED |-> 5, RESTING |-> 6,
         TPSL_DISPATCHED |-> 7, TIMEOUT_SCHEDULED |-> 7,
         FILLED |-> 8, OUTCOME_RESOLVED |-> 8, TIMEOUT_CHECKED |-> 9,
         BAILOUT |-> 10, POSITION_CLOSED |-> 10,
         COMPLETED |-> 11, ABORTED |-> 11, CANCELED |-> 11]
States == DOMAIN Rank
Terminal == {"COMPLETED", "ABORTED", "CANCELED"}

\* The state an event leads to; a trade record leads to none.
NextState == [Intent |-> "INIT", PreFlightDone |-> "PREFLIGHT_DONE",
              PositionWatchReady |-> "POSITION_WATCH_READY",
              FireWindowReached |-> "FIRE_WINDOW", Submitted |-> "SUBMITTED",
              TPSLDispatched |-> "TPSL_DISPATCHED", Filled |-> "FILLED",
              PositionClosed |-> "POSITION_CLOSED",
              OutcomeResolved |-> "OUTCOME_RESOLVED",
              TimeoutScheduled |-> "TIMEOUT_SCHEDULED",
              TimeoutPositionChecked |-> "TIMEOUT_CHECKED",
              BailoutExecuted |-> "BAILOUT", Completed |-> "COMPLETED",
              Aborted |-> "ABORTED", Canceled |-> "CANCELED"]
Topics == DOMAIN NextState \cup {"TradeRecord"}

Outcomes == {"filled", "partial_filled", "canceled_no_fill", "resting",
             "unknown", "bailout"}
Event(topic, data) == [topic |-> topic, data |-> data]
Plain(topic) == Event(topic, "-")

\* (fault) Apply without the comparison of ranks.
ApplyUnranked(s, e) == IF e.topic = "TradeRecord" THEN s ELSE NextState[e.topic]

\* Apply: the state moves unless the event ranks below it.
Apply(s, e) ==
    LET next == IF e = Event("OutcomeResolved", "resting") THEN "RESTING"
                ELSE NextState[e.topic]
    IN  IF e.topic # "TradeRecord" /\ Rank[next] >= Rank[s] THEN next ELSE s

\* (fault) the outcome made part of every key.
KeyOfOutcome(e) == e

\* DeduplicateKey: an outcome is part of the key of OutcomeResolved only.
Key(e) == IF e.topic = "OutcomeResolved" THEN e ELSE Plain(e.topic)

\* The subscriptions of InitGlobalSubscriptions, by the handler they run.
TopicOf == [PreFlight |-> "Intent", WatchReady |-> "PreFlightDone",
            FireTiming |-> "PositionWatchReady", Execute |-> "FireWindowReached",
            TPSL |-> "Submitted", OutcomeWatcher |-> "Submitted",
            ScheduleTimeout |-> "Submitted", ScheduleClose |-> "Filled",
            WaitDeadline |-> "TimeoutScheduled",
            PositionChecked |-> "TimeoutPositionChecked",
            ResolveOutcome |-> "OutcomeResolved",
            PositionClosed |-> "PositionClosed",
            Complete |-> "Completed", SaveTrade |-> "TradeRecord"]
Subscriptions == DOMAIN TopicOf

\* Work that is not started by a message of the bus.
Callbacks == {"Push", "CancelTimer", "CancelCall", "Trail"}
Phases == {"start", "reply", "poll", "close", "enrich"}
OrderViews == {"nil", "new", "part", "partial", "filled", "canceled"}
Data == Outcomes \cup OrderViews \cup
        {"-", "ok", "error", "hold", "none", "open", "closed", "empty"}
TaskType == [h : Subscriptions \cup Callbacks, r : Reqs, d : Data, p : Phases, n : Nat]
Task(h, r, d, p, n) == [h |-> h, r |-> r, d |-> d, p |-> p, n |-> n]

-----------------------------------------------------------------------------
VARIABLES
    intent,    \* the intent of each request
    state,     \* aggregate: lifecycle state
    log,       \* aggregate: the events recorded, each of them also published
    tasks,     \* messages, handlers, callbacks and calls in progress
    timer,     \* OrderManager.timers: the entry of a request
    armed,     \* AfterFunc timers still running, in the map or not
    flows,     \* requests holding the personal stream (SubscribePersonal)
    listeners, \* requests whose position callback is registered
    ord,       \* exchange: the order of a request
    deal,      \* exchange: lots dealt
    position,  \* exchange: open lots on the symbol
    submits,   \* CreateOrder calls
    done,      \* completion callbacks invoked
    saves,     \* rows saved by the trade repository
    outcome    \* outcome of the last row

stream   == <<flows, listeners>>
timers   == <<timer, armed>>
exchange == <<ord, deal, position, submits>>
results  == <<done, saves, outcome>>
vars == <<intent, state, log, tasks, stream, timers, exchange, results>>

TimerKinds == {"cancel", "closeSubmitted", "closeFilled"}

TypeOK ==
    /\ intent \in [Reqs -> Intents]
    /\ state \in [Reqs -> States]
    /\ log \in [Reqs -> SUBSET [topic : Topics, data : Data]]
    /\ tasks \subseteq TaskType
    /\ timer \in [Reqs -> TimerKinds \cup {"none"}]
    /\ armed \in [Reqs -> SUBSET TimerKinds]
    /\ flows \subseteq Reqs /\ listeners \subseteq Reqs
    /\ ord \in [Reqs -> {"none", "live", "filled", "canceled"}]
    /\ deal \in [Reqs -> 0..Lots]
    /\ position \in Nat
    /\ submits \in [Reqs -> Nat]
    /\ done \in [Reqs -> Nat]
    /\ saves \in [Reqs -> Nat]
    /\ outcome \in [Reqs -> Outcomes \cup {"none"}]

Init ==
    /\ intent \in [Reqs -> Intents]
    /\ state = [r \in Reqs |-> "INIT"]
    /\ log = [r \in Reqs |-> {}]
    /\ tasks = {}
    /\ timer = [r \in Reqs |-> "none"]
    /\ armed = [r \in Reqs |-> {}]
    /\ flows = {} /\ listeners = {}
    /\ ord = [r \in Reqs |-> "none"]
    /\ deal = [r \in Reqs |-> 0]
    /\ position = IF \E r \in Reqs : intent[r].side = "close" THEN Lots ELSE 0
    /\ submits = [r \in Reqs |-> 0]
    /\ done = [r \in Reqs |-> 0]
    /\ saves = [r \in Reqs |-> 0]
    /\ outcome = [r \in Reqs |-> "none"]

-----------------------------------------------------------------------------
(* The bus and the aggregate *)

Has(r, topic) == \E e \in log[r] : e.topic = topic

\* (fault) any outcome counts as a fill.
HasFilledByOutcome(r) == Has(r, "Filled") \/ Has(r, "OutcomeResolved")

HasFilled(r) ==
    \/ state[r] \in {"FILLED", "POSITION_CLOSED"}
    \/ Has(r, "Filled") \/ Has(r, "PositionClosed")
    \/ Event("OutcomeResolved", "filled") \in log[r]
    \/ Event("OutcomeResolved", "partial_filled") \in log[r]

\* (fault) a bus without deduplication.
MessagesTwice(r, e) ==
    {Task(h, r, e.data, "start", 0) : h \in {g \in Subscriptions : TopicOf[g] = e.topic}}

\* Bus.Publish: one message per subscription, none for a key seen before.
Messages(r, e) ==
    IF \E f \in log[r] : Key(f) = Key(e) THEN {}
    ELSE {Task(h, r, e.data, "start", 0) : h \in {g \in Subscriptions : TopicOf[g] = e.topic}}

\* A delivered event is recorded once more before its handler runs.
Received(t) == IF t.p = "start" /\ t.h \in Subscriptions
               THEN Apply(state[t.r], Event(TopicOf[t.h], t.d)) ELSE state[t.r]

\* The messages of handler h for r that may start, and handlers suspended in phase p.
Ready(h, r) == {t \in tasks : /\ t.h = h /\ t.r = r /\ t.p = "start"
                              /\ AckGates => \A u \in tasks : u.h = h => u.p = "start"}
At(h, r, p) == {t \in tasks : t.h = h /\ t.r = r /\ t.p = p}

\* Record e on the aggregate of r, whose state is s, and publish it.
Emit(r, s, e, gone, more) ==
    /\ log' = [log EXCEPT ![r] = @ \cup {e}]
    /\ state' = [state EXCEPT ![r] = Apply(s, e)]
    /\ tasks' = (tasks \ gone) \cup more \cup Messages(r, e)

Publish(t, e, more) == Emit(t.r, Received(t), e, {t}, more)

\* Task t goes on as the tasks of `more' without publishing.
Continue(t, more) ==
    /\ state' = [state EXCEPT ![t.r] = Received(t)]
    /\ tasks' = (tasks \ {t}) \cup more
    /\ UNCHANGED log
Goto(t, p, n, d) == {Task(t.h, t.r, d, p, n)}

\* OrderWatcher: the pushes a position update becomes, or none if it is lost.
Deliveries(d) ==
    {{Task("Push", l, d, "start", 0) : l \in IF flows = {} THEN {} ELSE listeners}}
    \cup (IF "ws_loss" \in Faults THEN {{}} ELSE {})

PushOf(lots) == IF lots > 0 THEN "open" ELSE "closed"

\* Timers: sync.Map Store, and LoadAndDelete + Stop.
Store(r, k) == /\ timer' = [timer EXCEPT ![r] = k]
               /\ armed' = [armed EXCEPT ![r] = @ \cup {k}]
CancelTimeoutGuard(r) == /\ armed' = [armed EXCEPT ![r] = @ \ {timer[r]}]
                         /\ timer' = [timer EXCEPT ![r] = "none"]

AbortOrder(t) == /\ CancelTimeoutGuard(t.r)
                 /\ flows' = flows \ {t.r}
                 /\ Publish(t, Plain("Aborted"), {})
                 /\ UNCHANGED listeners

-----------------------------------------------------------------------------
(* The pipeline up to the submission *)

Dispatch(r) ==
    /\ Has(r, "Intent") => "redispatch" \in Api
    /\ Emit(r, state[r], Plain("Intent"), {}, {})
    /\ UNCHANGED <<intent, stream, timers, exchange, results>>

\* (fault) the pipeline goes on after the abort.
PreFlightGoesOn(r) == \E t \in Ready("PreFlight", r) :
    /\ \/ Publish(t, Plain("PreFlightDone"), {})
       \/ /\ "rest_write" \in Faults /\ intent[r].side = "open"
          /\ Publish(t, Plain("Aborted"), Messages(r, Plain("PreFlightDone")))
    /\ UNCHANGED <<intent, stream, timers, exchange, results>>

PreFlight(r) == \E t \in Ready("PreFlight", r) :
    /\ \/ /\ Publish(t, Plain("PreFlightDone"), {})
          /\ UNCHANGED <<stream, timers>>
       \/ /\ "rest_write" \in Faults /\ intent[r].side = "open"
          /\ AbortOrder(t)
    /\ UNCHANGED <<intent, exchange, results>>

PositionWatchReady(r) == \E t \in Ready("WatchReady", r) :
    /\ Publish(t, Plain("PositionWatchReady"), {})
    /\ LET watch == IF intent[r].side = "open" THEN {r} ELSE {}
       IN  flows' = flows \cup watch /\ listeners' = listeners \cup watch
    /\ UNCHANGED <<intent, timers, exchange, results>>

FireTiming(r) == \E t \in Ready("FireTiming", r) :
    /\ Publish(t, Plain("FireWindowReached"), {})
    /\ UNCHANGED <<intent, stream, timers, exchange, results>>

\* The exchange ends an IOC or market order at once, with k lots dealt; a maker
\* order rests.
Accept(r, k) ==
    IF intent[r].type = "maker"
    THEN /\ k = 0 /\ ord' = [ord EXCEPT ![r] = "live"]
         /\ UNCHANGED <<deal, position>>
    ELSE /\ k \in {0, Lots} \/ "partial_cancel" \in Faults
         /\ intent[r].side = "close" => k <= position
         /\ ord' = [ord EXCEPT ![r] = IF k = Lots THEN "filled" ELSE "canceled"]
         /\ deal' = [deal EXCEPT ![r] = k]
         /\ position' = IF intent[r].side = "open" THEN position + k ELSE position - k

\* HandleExecuteOrder sleeps until the fire time and calls CreateOrder.
ExecuteOrder(r) == \E t \in Ready("Execute", r), k \in 0..Lots :
    /\ \/ /\ Accept(r, k)
          /\ \E reply \in {"ok"} \cup (IF "submit_ambiguous" \in Faults THEN {"error"} ELSE {}),
                m \in (IF k > 0 THEN Deliveries(PushOf(position')) ELSE {{}}) :
                Continue(t, Goto(t, "reply", 1, reply) \cup m)
       \/ /\ "reject" \in Faults /\ k = 0
          /\ Continue(t, Goto(t, "reply", 1, "error"))
          /\ UNCHANGED <<ord, deal, position>>
    /\ submits' = [submits EXCEPT ![r] = @ + 1]
    /\ UNCHANGED <<intent, stream, timers, results>>

SubmitReply(r) == \E t \in At("Execute", r, "reply") :
    /\ \/ /\ t.d = "ok"
          /\ Publish(t, Plain("Submitted"), {})
          /\ UNCHANGED <<stream, timers>>
       \/ t.d = "error" /\ AbortOrder(t)
    /\ UNCHANGED <<intent, exchange, results>>

-----------------------------------------------------------------------------
(* After the submission: TP/SL, timeouts, outcome *)

TPSLSubmission(r) == \E t \in Ready("TPSL", r) :
    /\ \/ intent[r].tpsl /\ Publish(t, Plain("TPSLDispatched"), {})
       \/ ~intent[r].tpsl /\ Continue(t, {})
       \/ intent[r].tpsl /\ "rest_write" \in Faults /\ Continue(t, {})
    /\ UNCHANGED <<intent, stream, timers, exchange, results>>

ScheduleUnfilledCancelTimeout(r) == \E t \in Ready("ScheduleTimeout", r) :
    /\ Continue(t, {})
    /\ \/ intent[r].type = "maker" /\ intent[r].cancelTimeout /\ Store(r, "cancel")
       \/ intent[r].type = "taker" /\ intent[r].closeTimeout /\ Store(r, "closeSubmitted")
       \/ /\ IF intent[r].type = "maker" THEN ~intent[r].cancelTimeout
             ELSE ~intent[r].closeTimeout
          /\ UNCHANGED timers
    /\ UNCHANGED <<intent, stream, exchange, results>>

\* (fault) the old timer is stopped before the check that one is active.
ScheduleCloseStopsTimer(r) == \E t \in Ready("ScheduleClose", r) :
    /\ Continue(t, {}) /\ CancelTimeoutGuard(r)
    /\ UNCHANGED <<intent, stream, exchange, results>>

SchedulePositionCloseTimeout(r) == \E t \in Ready("ScheduleClose", r) :
    /\ Continue(t, {})
    /\ IF intent[r].closeTimeout /\ timer[r] = "none"
       THEN Store(r, "closeFilled") ELSE UNCHANGED timers
    /\ UNCHANGED <<intent, stream, exchange, results>>

\* What GetOrder may answer about the order of r, and how it is classified.
\* DeepCoin, OrangeX and, for sales, Gate.io report a partial fill as new;
\* BitMart and Pionex a canceled one as partial, and Aster an IOC order that has
\* ended as new (ExchangeAdapters, OrderState).
OrderInfo(r) == CASE ord[r] = "live" /\ deal[r] = 0 -> {"new"}
                  [] ord[r] = "live" /\ deal[r] > 0 -> {"part", "new"}
                  [] ord[r] = "filled" -> {"filled"}
                  [] ord[r] = "canceled" -> {"canceled"}
                       \cup (IF deal[r] > 0 THEN {"partial"} ELSE {})
                       \cup (IF intent[r].type = "maker" THEN {} ELSE {"new"})
                  [] OTHER -> {}
IsTerminalOrderState(v) == v \in {"filled", "canceled", "partial"}
ClassifyOrderOutcome ==
    [nil |-> "unknown", new |-> "resting", part |-> "partial_filled",
     partial |-> "partial_filled", filled |-> "filled", canceled |-> "canceled_no_fill"]

OutcomeWatcher(r) == \E t \in Ready("OutcomeWatcher", r) :
    /\ Continue(t, Goto(t, "poll", 1, "nil"))
    /\ UNCHANGED <<intent, stream, timers, exchange, results>>

\* One attempt of pollOrderUntilTerminal; a failed read keeps the last view.
PollOrder(r) == \E t \in At("OutcomeWatcher", r, "poll") :
    /\ \E v \in OrderInfo(r) \cup (IF "rest_read" \in Faults THEN {t.d} ELSE {}) :
          IF IsTerminalOrderState(v) \/ t.n = PollTries
          THEN Publish(t, Event("OutcomeResolved", ClassifyOrderOutcome[v]), {})
          ELSE Continue(t, Goto(t, "poll", t.n + 1, v))
    /\ UNCHANGED <<intent, stream, timers, exchange, results>>

\* (fault) isCloseOrder is not asked.
ResolveOutcomeAnySide(r) == \E t \in Ready("ResolveOutcome", r) :
    /\ \/ /\ t.d \in {"canceled_no_fill", "unknown", "filled"} /\ CancelTimeoutGuard(r)
          /\ Continue(t, Goto(t, "enrich", 1, t.d))
       \/ t.d \notin {"canceled_no_fill", "unknown", "filled"} /\ Continue(t, {}) /\ UNCHANGED timers
    /\ UNCHANGED <<intent, stream, exchange, results>>

\* Canceled or unknown outcomes, and filled closing orders, complete the order.
ResolveOutcome(r) == \E t \in Ready("ResolveOutcome", r) :
    /\ LET completes == \/ t.d \in {"canceled_no_fill", "unknown"}
                        \/ intent[r].side = "close" /\ t.d = "filled"
       IN  \/ /\ completes /\ CancelTimeoutGuard(r)
              /\ Continue(t, Goto(t, "enrich", 1, t.d))
           \/ ~completes /\ Continue(t, {}) /\ UNCHANGED timers
    /\ UNCHANGED <<intent, stream, exchange, results>>

-----------------------------------------------------------------------------
(* Timers *)

\* (fault) the RESTING case is missing.
IsCancelableSubmitted(s) == s \in {"SUBMITTED", "INIT", "PREFLIGHT_DONE", "FIRE_WINDOW",
                                  "POSITION_WATCH_READY"}
IsCancelableRestingState(s) ==
    s \in {"SUBMITTED", "RESTING", "INIT", "PREFLIGHT_DONE", "FIRE_WINDOW",
           "POSITION_WATCH_READY"}

\* Nothing that needs no waiting is left to do for r.
Quiet(r) == \A t \in tasks : t.r = r => t.p \in {"poll", "close", "enrich"}

\* Firing deletes the map entry of r, whichever timer it names.
Expire(r, k) == /\ k \in armed[r] /\ (SlowTimers => Quiet(r))
                /\ armed' = [armed EXCEPT ![r] = @ \ {k}]
                /\ timer' = [timer EXCEPT ![r] = "none"]

CancelTimerFires(r) ==
    /\ Expire(r, "cancel")
    /\ tasks' = tasks \cup (IF IsCancelableRestingState(state[r])
                            THEN {Task("CancelTimer", r, "-", "close", 1)} ELSE {})
    /\ UNCHANGED <<intent, state, log, stream, exchange, results>>

\* The exchange ends a live order; a filled one cannot be canceled.
ExchangeCancel(r) == ord' = [ord EXCEPT ![r] = IF @ = "live" THEN "canceled" ELSE @]

CancelRestingOrderOnTimeout(r) == \E t \in At("CancelTimer", r, "close") :
    /\ ExchangeCancel(r) \/ ("rest_write" \in Faults /\ UNCHANGED ord)
    /\ Publish(t, Event("OutcomeResolved", "canceled_no_fill"), {})
    /\ UNCHANGED <<intent, stream, timers, deal, position, submits, results>>

CloseTimerFires(r) == \E k \in {"closeSubmitted", "closeFilled"} :
    /\ Expire(r, k)
    /\ Emit(r, state[r], Plain("TimeoutScheduled"), {}, {})
    /\ UNCHANGED <<intent, stream, exchange, results>>

\* (fault) a failed query ends the handler.
WaitDeadlineGivesUp(r) == \E t \in Ready("WaitDeadline", r) :
    /\ \/ Publish(t, Event("TimeoutPositionChecked", IF position > 0 THEN "hold" ELSE "none"), {})
       \/ "rest_read" \in Faults /\ Continue(t, {})
    /\ UNCHANGED <<intent, stream, timers, exchange, results>>

\* A failed query leaves HoldVol at zero.
WaitTimeoutDeadline(r) == \E t \in Ready("WaitDeadline", r) :
    /\ \E held \in {IF position > 0 THEN "hold" ELSE "none"}
                   \cup (IF "rest_read" \in Faults THEN {"none"} ELSE {}) :
          Publish(t, Event("TimeoutPositionChecked", held), {})
    /\ UNCHANGED <<intent, stream, timers, exchange, results>>

TimeoutNoPosition(r) == \E t \in Ready("PositionChecked", r) :
    /\ t.d = "none"
    /\ flows' = flows \ {r}
    /\ IF Rank[Received(t)] >= Rank["COMPLETED"] THEN Continue(t, {})
       ELSE Continue(t, Goto(t, "enrich", 1, IF HasFilled(r) THEN "filled"
                                             ELSE "canceled_no_fill"))
    /\ UNCHANGED <<intent, listeners, timers, exchange, results>>

-----------------------------------------------------------------------------
(* Bailout and completion *)

\* A market close of the whole symbol: it fails, or the position is gone.
MarketClose(t, more) ==
    \/ /\ "rest_write" \in Faults
       /\ Continue(t, more) /\ UNCHANGED position
    \/ /\ position' = 0
       /\ \E m \in (IF position > 0 THEN Deliveries("closed") ELSE {{}}) :
             Continue(t, more \cup m)

\* HandleExecuteBailout starts with CloseAllPositions, whose error is only logged.
TimeoutBailout(r) == \E t \in Ready("PositionChecked", r) :
    /\ t.d = "hold"
    /\ MarketClose(t, Goto(t, "close", 1, "hold"))
    /\ UNCHANGED <<intent, stream, timers, ord, deal, submits, results>>

\* One attempt of the close loop: read the position, close what remains.
BailoutAttempt(r) == \E t \in At("PositionChecked", r, "close") \cup At("Trail", r, "close") :
    /\ t.n <= BailoutTries
    /\ \/ /\ position = 0
          /\ Publish(t, Plain("BailoutExecuted"),
                     IF t.h = "Trail" THEN {} ELSE Goto(t, "enrich", 1, "bailout"))
          /\ UNCHANGED position
       \/ position > 0 /\ MarketClose(t, Goto(t, "close", t.n + 1, t.d))
       \/ /\ "rest_read" \in Faults
          /\ Continue(t, Goto(t, "close", t.n + 1, t.d)) /\ UNCHANGED position
    /\ UNCHANGED <<intent, stream, timers, ord, deal, submits, results>>

BailoutFails(r) ==
    /\ \/ \E t \in At("PositionChecked", r, "close") :
             t.n > BailoutTries /\ AbortOrder(t)
       \/ \E t \in At("Trail", r, "close") :
             /\ t.n > BailoutTries /\ Continue(t, {})
             /\ UNCHANGED <<stream, timers>>
    /\ UNCHANGED <<intent, exchange, results>>

\* HandleEnrichAndComplete after its sleep: a Canceled status overrides the outcome.
EnrichAndComplete(r) ==
    \E t \in UNION {At(h, r, "enrich") : h \in {"PositionChecked", "ResolveOutcome", "PositionClosed"}} :
       /\ \E o \in {t.d} \cup (IF "canceled" \in OrderInfo(r) /\ Has(r, "Submitted")
                               THEN {"canceled_no_fill"} ELSE {}) :
             Publish(t, Event("Completed", o), {})
       /\ UNCHANGED <<intent, stream, timers, exchange, results>>

PositionClosedDone(r) == \E t \in Ready("PositionClosed", r) :
    /\ CancelTimeoutGuard(r)
    /\ Continue(t, Goto(t, "enrich", 1, "filled"))
    /\ UNCHANGED <<intent, stream, exchange, results>>

\* (fault) an order without a fill gets no record.
CompleteOrderUnsaved(r) == \E t \in Ready("Complete", r) :
    /\ done' = [done EXCEPT ![r] = @ + 1]
    /\ CancelTimeoutGuard(r)
    /\ flows' = flows \ {r}
    /\ \/ t.d # "canceled_no_fill" /\ Publish(t, Event("TradeRecord", t.d), {})
       \/ t.d = "canceled_no_fill" /\ Continue(t, {})
    /\ UNCHANGED <<intent, listeners, exchange, saves, outcome>>

CompleteOrder(r) == \E t \in Ready("Complete", r) :
    /\ done' = [done EXCEPT ![r] = @ + 1]
    /\ CancelTimeoutGuard(r)
    /\ flows' = flows \ {r}
    /\ Publish(t, Event("TradeRecord", t.d), {})
    /\ UNCHANGED <<intent, listeners, exchange, saves, outcome>>

SaveTrade(r) == \E t \in Ready("SaveTrade", r) :
    /\ Continue(t, {})
    /\ \/ /\ saves' = [saves EXCEPT ![r] = @ + 1]
          /\ outcome' = [outcome EXCEPT ![r] = t.d]
       \/ "db" \in Faults /\ UNCHANGED <<saves, outcome>>
    /\ UNCHANGED <<intent, stream, timers, exchange, done>>

-----------------------------------------------------------------------------
(* The position stream *)

PositionFilled(r) == \E t \in Ready("Push", r) :
    /\ t.d = "open"
    /\ IF state[r] \in Terminal \/ HasFilled(r) THEN Continue(t, {})
       ELSE Publish(t, Plain("Filled"), {})
    /\ UNCHANGED <<intent, stream, timers, exchange, results>>

\* A push without any volume is ignored while nothing was filled.
PositionClosed(r) == \E t \in Ready("Push", r) :
    /\ t.d \in {"closed", "empty"}
    /\ IF state[r] \in Terminal \/ (t.d = "empty" /\ ~HasFilled(r)) THEN Continue(t, {})
       ELSE Publish(t, Plain("PositionClosed"), {})
    /\ UNCHANGED <<intent, stream, timers, exchange, results>>

\* The subscription of the callback ends after its timeout.
WatchExpires(r) ==
    /\ "watch_expire" \in Faults /\ r \in listeners /\ armed[r] = {}
    /\ listeners' = listeners \ {r}
    /\ UNCHANGED <<intent, state, log, tasks, flows, timers, exchange, results>>

-----------------------------------------------------------------------------
(* Calls of the API *)

\* CancelOrder: the error of the exchange is only logged.
CancelOrder(r) ==
    /\ "cancel" \in Api /\ Has(r, "Intent") /\ At("CancelCall", r, "close") = {}
    /\ state[r] # "CANCELED"
    /\ CancelTimeoutGuard(r)
    /\ IF Has(r, "Submitted")
       THEN ExchangeCancel(r) \/ ("rest_write" \in Faults /\ UNCHANGED ord)
       ELSE UNCHANGED ord
    /\ tasks' = tasks \cup {Task("CancelCall", r, "-", "close", 1)}
    /\ UNCHANGED <<intent, state, log, stream, deal, position, submits, results>>

CancelOrderReply(r) == \E t \in At("CancelCall", r, "close") :
    /\ Publish(t, Plain("Canceled"), {})
    /\ UNCHANGED <<intent, stream, timers, exchange, results>>

\* CancelOpenOrders ends the live orders and stops the timer of every active one.
CancelOpenOrders ==
    /\ "cancelOpen" \in Api
    /\ ord' = [r \in Reqs |-> IF ord[r] = "live" THEN "canceled" ELSE ord[r]]
    /\ LET active == {r \in Reqs : Has(r, "Intent") /\ state[r] \notin Terminal}
       IN  /\ armed' = [r \in Reqs |-> IF r \in active THEN armed[r] \ {timer[r]} ELSE armed[r]]
           /\ timer' = [r \in Reqs |-> IF r \in active THEN "none" ELSE timer[r]]
    /\ UNCHANGED <<intent, state, log, tasks, stream, deal, position, submits, results>>

\* A trade update finds the PnL dropped from its peak: executePnLBailout.
PnLDrop(r) ==
    /\ "trail" \in Api /\ intent[r].trail /\ At("Trail", r, "close") = {}
    /\ r \in listeners /\ HasFilled(r)
    /\ state[r] \notin Terminal \cup {"BAILOUT", "POSITION_CLOSED"}
    /\ LET t == Task("Trail", r, "hold", "close", 1) IN MarketClose(t, {t})
    /\ UNCHANGED <<intent, stream, timers, ord, deal, submits, results>>

-----------------------------------------------------------------------------
(* The exchange *)

Fill(r) ==
    /\ ord[r] = "live" /\ (intent[r].side = "close" => position > 0)
    /\ deal' = [deal EXCEPT ![r] = @ + 1]
    /\ ord' = [ord EXCEPT ![r] = IF deal[r] + 1 = Lots THEN "filled" ELSE @]
    /\ position' = IF intent[r].side = "open" THEN position + 1 ELSE position - 1
    /\ \E m \in Deliveries(PushOf(position')) : tasks' = tasks \cup m
    /\ UNCHANGED <<intent, state, log, stream, timers, submits, results>>

\* A post-only or reduce-only order the exchange does not keep.
ExchangeCancels(r) ==
    /\ ord[r] = "live" /\ (deal[r] > 0 => "partial_cancel" \in Faults)
    /\ ExchangeCancel(r)
    /\ UNCHANGED <<intent, state, log, tasks, stream, timers, deal, position, submits, results>>

\* TP/SL, liquidation or a manual close.
ExchangeCloses ==
    /\ position > 0 /\ position' = 0
    /\ \E m \in Deliveries("closed") : tasks' = tasks \cup m
    /\ UNCHANGED <<intent, state, log, stream, timers, ord, deal, submits, results>>

\* The stream repeats the position it has, an empty one without prices.
Snapshot ==
    /\ "snapshot" \in Faults
    /\ \E m \in Deliveries(IF position > 0 THEN "open" ELSE "empty") : tasks' = tasks \cup m
    /\ UNCHANGED <<intent, state, log, stream, timers, exchange, results>>

-----------------------------------------------------------------------------
Pipeline(r) ==
    \/ PreFlight(r) \/ PositionWatchReady(r) \/ FireTiming(r)
    \/ ExecuteOrder(r) \/ SubmitReply(r)
    \/ TPSLSubmission(r) \/ ScheduleUnfilledCancelTimeout(r) \/ SchedulePositionCloseTimeout(r)
    \/ OutcomeWatcher(r) \/ PollOrder(r) \/ ResolveOutcome(r)
    \/ CancelTimerFires(r) \/ CancelRestingOrderOnTimeout(r) \/ CloseTimerFires(r)
    \/ WaitTimeoutDeadline(r) \/ TimeoutNoPosition(r) \/ TimeoutBailout(r)
    \/ BailoutAttempt(r) \/ BailoutFails(r) \/ EnrichAndComplete(r)
    \/ PositionClosedDone(r) \/ CompleteOrder(r) \/ SaveTrade(r)
    \/ PositionFilled(r) \/ PositionClosed(r) \/ CancelOrderReply(r)

Environment(r) ==
    \/ Dispatch(r) \/ CancelOrder(r) \/ PnLDrop(r) \/ WatchExpires(r)
    \/ Fill(r) \/ ExchangeCancels(r)

Next == \/ \E r \in Reqs : Pipeline(r) \/ Environment(r)
        \/ CancelOpenOrders \/ ExchangeCloses \/ Snapshot

Spec == Init /\ [][Next]_vars

\* Every goroutine runs and every timer fires; nothing is promised of the
\* exchange, of the strategies or of the faults.
Fairness == \A r \in Reqs :
    /\ WF_vars(PreFlight(r)) /\ WF_vars(PositionWatchReady(r)) /\ WF_vars(FireTiming(r))
    /\ WF_vars(ExecuteOrder(r)) /\ WF_vars(SubmitReply(r))
    /\ WF_vars(TPSLSubmission(r)) /\ WF_vars(ScheduleUnfilledCancelTimeout(r))
    /\ WF_vars(SchedulePositionCloseTimeout(r)) /\ WF_vars(OutcomeWatcher(r))
    /\ WF_vars(PollOrder(r)) /\ WF_vars(ResolveOutcome(r))
    /\ WF_vars(CancelTimerFires(r)) /\ WF_vars(CancelRestingOrderOnTimeout(r))
    /\ WF_vars(CloseTimerFires(r)) /\ WF_vars(WaitTimeoutDeadline(r))
    /\ WF_vars(TimeoutNoPosition(r)) /\ WF_vars(TimeoutBailout(r))
    /\ WF_vars(BailoutAttempt(r)) /\ WF_vars(BailoutFails(r))
    /\ WF_vars(EnrichAndComplete(r)) /\ WF_vars(PositionClosedDone(r))
    /\ WF_vars(CompleteOrder(r)) /\ WF_vars(SaveTrade(r))
    /\ WF_vars(PositionFilled(r)) /\ WF_vars(PositionClosed(r)) /\ WF_vars(CancelOrderReply(r))

FairSpec == Spec /\ Fairness
-----------------------------------------------------------------------------
(* Properties *)

\* However often an intent is dispatched, HandleExecuteOrder calls CreateOrder
\* once: the deduplicator drops the second pass through the pipeline.
AtMostOneSubmission == \A r \in Reqs : submits[r] <= 1

\* Outcome watcher, timers, position stream and bailout race to complete an
\* order; its callbacks are invoked and its row is saved at most once.
CompletedOnce == \A r \in Reqs : done[r] <= 1 /\ saves[r] <= 1

\* No order is submitted for a request that was aborted or completed before.
NoSubmitAfterEnd ==
    [][\A r \in Reqs : submits'[r] # submits[r] => state[r] \notin Terminal]_vars

Busy(r, hs) == \E t \in tasks : t.r = r /\ t.h \in hs
Idle == tasks = {} /\ \A r \in Reqs : armed[r] = {}

\* From the order_filled event on, an active order with a position close timeout
\* has a timer running, or a handler that starts one or completes the order.
FilledIsGuarded == \A r \in Reqs :
    Has(r, "Filled") /\ intent[r].closeTimeout /\ state[r] \notin Terminal =>
       \/ armed[r] \cap {"closeSubmitted", "closeFilled"} # {}
       \/ Busy(r, {"ScheduleClose", "ResolveOutcome", "PositionClosed",
                   "WaitDeadline", "PositionChecked"})

\* An open position is never forgotten: when no handler and no timer is left,
\* the hold watchdog or the position stream has seen it closed.
WatchedPosition == position > 0 => ~Idle

\* Whichever of the racing handlers completes an order, a row that claims a fill
\* is the row of an order that was dealt.
RecordedFillIsReal == \A r \in Reqs :
    saves[r] > 0 /\ outcome[r] # "canceled_no_fill" => deal[r] > 0

\* An opening order completes on its outcome only if nothing was dealt.
OutcomeCompletesUnfilled == \A r \in Reqs :
    At("ResolveOutcome", r, "enrich") # {} /\ intent[r].side = "open" => deal[r] = 0

\* A cancel that lost the race against the fill does not leave the position behind:
\* when all is quiet, a request that CancelOrder canceled holds nothing.
CanceledHoldsNothing == \A r \in Reqs : Has(r, "Canceled") /\ Idle => position = 0

\* A taker order with a position close timeout ends, whatever the exchange answers.
TimedOrderEnds == \A r \in Reqs :
    (Has(r, "Intent") /\ intent[r].closeTimeout /\ intent[r].type = "taker")
        ~> state[r] \in Terminal

\* A completed order gets its row.
CompletedIsSaved == \A r \in Reqs : Has(r, "Completed") ~> saves[r] > 0

\* A maker order with an unfilled cancel timeout is filled in part or ends.
UnfilledMakerEnds == \A r \in Reqs :
    (Has(r, "Submitted") /\ intent[r].cancelTimeout /\ intent[r].type = "maker")
        ~> (deal[r] > 0 \/ state[r] \in Terminal)
=============================================================================
