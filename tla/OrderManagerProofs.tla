------------------------- MODULE OrderManagerProofs -------------------------
(***************************************************************************)
(* Proofs about OrderManager: type correctness, at most one submission and *)
(* at most one completion, for every set of requests and intents, every    *)
(* fault and every call of the API.                                        *)
(*                                                                         *)
(* The argument is about the three handlers that count.  A message of such *)
(* a handler is created only when its topic enters the log for the first   *)
(* time (Fresh), it is consumed when the handler runs, and the log never   *)
(* forgets, so the handler runs at most once (Single).                     *)
(***************************************************************************)
EXTENDS OrderManager, TLAPS

EventType == [topic : Topics, data : Data]
Counted == {"Execute", "Complete", "SaveTrade"}

Starts(T, h, r) == {t \in T : t.h = h /\ t.r = r /\ t.p = "start"}
Recorded(L, r, topic) == \E e \in L[r] : e.topic = topic

\* Handler h ran n times for r, with the messages T and the log L.
Single(T, L, h, r, n) ==
    /\ n <= 1
    /\ n = 1 => Recorded(L, r, TopicOf[h]) /\ Starts(T, h, r) = {}
    /\ \A t \in Starts(T, h, r) : Recorded(L, r, TopicOf[h])
    /\ \A t, u \in Starts(T, h, r) : t = u

OnceOK == \A r \in Reqs : /\ Single(tasks, log, "Execute", r, submits[r])
                          /\ Single(tasks, log, "Complete", r, done[r])
                          /\ Single(tasks, log, "SaveTrade", r, saves[r])

\* What a task and an event may carry: a poll the last view of the order, a
\* completion and its record an outcome.
TaskOK(t) == /\ t \in TaskType
             /\ t.p = "poll" => t.d \in OrderViews
             /\ t.p = "enrich" \/ (t.p = "start" /\ t.h \in {"Complete", "SaveTrade"})
                   => t.d \in Outcomes
EventOK(e) == /\ e \in EventType
              /\ e.topic \in {"Completed", "TradeRecord"} => e.data \in Outcomes

PipeOK == /\ state \in [Reqs -> States]
          /\ log \in [Reqs -> SUBSET EventType]
          /\ \A t \in tasks : TaskOK(t)
TimersOK == /\ timer \in [Reqs -> TimerKinds \cup {"none"}]
            /\ armed \in [Reqs -> SUBSET TimerKinds]
StreamOK == flows \subseteq Reqs /\ listeners \subseteq Reqs
BookOK == /\ ord \in [Reqs -> {"none", "live", "filled", "canceled"}]
          /\ deal \in [Reqs -> 0..Lots]
          /\ position \in Nat
          /\ submits \in [Reqs -> Nat]
          /\ \A r \in Reqs : submits[r] = 0 => ord[r] = "none" /\ deal[r] = 0
          /\ \A r \in Reqs : ord[r] = "live" => deal[r] < Lots
ResultsOK == /\ done \in [Reqs -> Nat]
             /\ saves \in [Reqs -> Nat]
             /\ outcome \in [Reqs -> Outcomes \cup {"none"}]
IntentOK == intent \in [Reqs -> Intents]

IInv == IntentOK /\ PipeOK /\ TimersOK /\ StreamOK /\ BookOK /\ ResultsOK /\ OnceOK

-----------------------------------------------------------------------------
(* The tables *)

\* Every event but a trade record leads to a state.
LEMMA NextStates == \A x \in Topics \ {"TradeRecord"} : NextState[x] \in States
  BY DEF NextState, Topics, States, Rank

\* Every subscription is one of a topic.
LEMMA SubscribedTopics == \A h \in Subscriptions : TopicOf[h] \in Topics
  BY DEF TopicOf, Subscriptions, Topics, NextState

\* The counted handlers and the topics they are subscribed to.
LEMMA CountedTopics ==
    /\ Counted \subseteq Subscriptions
    /\ TopicOf["Execute"] = "FireWindowReached"
    /\ TopicOf["Complete"] = "Completed"
    /\ TopicOf["SaveTrade"] = "TradeRecord"
    /\ \A h \in Subscriptions : TopicOf[h] = "Completed" => h = "Complete"
    /\ \A h \in Subscriptions : TopicOf[h] = "TradeRecord" => h = "SaveTrade"
  BY DEF TopicOf, Subscriptions, Counted

\* Every view of an order has an outcome.
LEMMA Classified == \A v \in OrderViews : ClassifyOrderOutcome[v] \in Outcomes
  BY DEF OrderViews, ClassifyOrderOutcome, Outcomes

\* Applying an event leads to a state.
LEMMA ApplyState ==
    ASSUME NEW s \in States, NEW e \in EventType
    PROVE  Apply(s, e) \in States
  <1>1. "RESTING" \in States  BY DEF States, Rank
  <1>2. e.topic \in Topics  BY DEF EventType
  <1> QED  BY <1>1, <1>2, NextStates DEF Apply

\* The state in which a handler starts.
LEMMA ReceivedState ==
    ASSUME PipeOK, NEW t, TaskOK(t)
    PROVE  Received(t) \in States
  <1>1. t \in TaskType /\ t.r \in Reqs  BY DEF TaskOK, TaskType
  <1>2. state[t.r] \in States  BY <1>1 DEF PipeOK
  <1>3. CASE t.p = "start" /\ t.h \in Subscriptions
    <2>1. Event(TopicOf[t.h], t.d) \in EventType
      BY <1>1, <1>3, SubscribedTopics DEF Event, EventType, TaskType
    <2> QED  BY <1>2, <1>3, <2>1, ApplyState DEF Received
  <1>4. CASE ~(t.p = "start" /\ t.h \in Subscriptions)  BY <1>2, <1>4 DEF Received
  <1> QED  BY <1>3, <1>4
-----------------------------------------------------------------------------
(* What one step may do to the messages of the counted handlers *)

\* The pipeline stays well-formed, and a message of a counted handler is either
\* one of those left in `rest' or new: its topic has just entered the log.
New(t, rest) == t.h \in Counted /\ t.p = "start" /\ t \notin rest

PipeStep(rest) ==
    /\ PipeOK'
    /\ \A q \in Reqs : log[q] \subseteq log'[q]
    /\ \A t \in tasks' : New(t, rest) =>
          /\ ~Recorded(log, t.r, TopicOf[t.h])
          /\ Recorded(log', t.r, TopicOf[t.h])
    /\ \A t, u \in tasks' : New(t, rest) /\ New(u, rest) /\ t.h = u.h /\ t.r = u.r => t = u

\* What a handler adds besides the messages it publishes.
Harmless(more) == \A t \in more : TaskOK(t) /\ ~(t.h \in Counted /\ t.p = "start")

\* Recording and publishing an event.
LEMMA EmitStep ==
    ASSUME PipeOK, NEW r \in Reqs, NEW s \in States, NEW e, EventOK(e),
           NEW gone, NEW more, Harmless(more), Emit(r, s, e, gone, more)
    PROVE  PipeStep(tasks \ gone)
  <1>1. e \in EventType /\ e.topic \in Topics /\ e.data \in Data  BY DEF EventOK, EventType
  <1>2. state' \in [Reqs -> States]
    <2>1. Apply(s, e) \in States  BY <1>1, ApplyState
    <2> QED  BY <2>1 DEF Emit, PipeOK
  <1>3. /\ log' \in [Reqs -> SUBSET EventType]
        /\ \A q \in Reqs : log[q] \subseteq log'[q]
        /\ e \in log'[r]
    BY <1>1 DEF Emit, PipeOK
  <1>4. \A t \in Messages(r, e) :
          /\ t.h \in Subscriptions /\ t.r = r /\ t.d = e.data /\ t.p = "start" /\ t.n = 0
          /\ TopicOf[t.h] = e.topic
          /\ t = Task(t.h, r, e.data, "start", 0)
          /\ \A f \in log[r] : Key(f) # Key(e)
    BY DEF Messages, Task
  <1>5. \A t \in Messages(r, e) : TaskOK(t)
    <2> TAKE t \in Messages(r, e)
    <2>1. t \in TaskType
      BY <1>1, <1>4 DEF TaskType, Task, Phases
    <2>2. t.h \in {"Complete", "SaveTrade"} => t.d \in Outcomes
      BY <1>4, CountedTopics DEF EventOK
    <2> QED  BY <1>4, <2>1, <2>2 DEF TaskOK
  <1>6. \A t \in tasks' : TaskOK(t)
    BY <1>5 DEF Emit, PipeOK, Harmless
  <1>7. \A t \in tasks' : New(t, tasks \ gone) => t \in Messages(r, e)
    BY DEF Emit, Harmless, New
  <1>8. \A t \in tasks' : New(t, tasks \ gone) =>
           ~Recorded(log, t.r, TopicOf[t.h]) /\ Recorded(log', t.r, TopicOf[t.h])
    <2> SUFFICES ASSUME NEW t \in tasks', New(t, tasks \ gone)
                 PROVE  ~Recorded(log, t.r, TopicOf[t.h]) /\ Recorded(log', t.r, TopicOf[t.h])
      OBVIOUS
    <2>1. t \in Messages(r, e) /\ t.h \in Counted  BY <1>7 DEF New
    <2>2. t.r = r /\ TopicOf[t.h] = e.topic /\ e.topic # "OutcomeResolved"
      BY <1>4, <2>1, CountedTopics DEF Counted
    <2>3. \A f \in log[r] : f.topic # e.topic
      BY <1>4, <2>1, <2>2 DEF Key, Plain, Event
    <2> QED  BY <1>3, <2>2, <2>3 DEF Recorded
  <1>9. \A t, u \in tasks' : New(t, tasks \ gone) /\ New(u, tasks \ gone)
                               /\ t.h = u.h /\ t.r = u.r => t = u
    BY <1>4, <1>7
  <1> QED  BY <1>2, <1>3, <1>6, <1>8, <1>9 DEF PipeStep, PipeOK

\* A handler that publishes, and one that does not.
LEMMA PublishStep ==
    ASSUME PipeOK, NEW t \in tasks, NEW e, EventOK(e), NEW more, Harmless(more),
           Publish(t, e, more)
    PROVE  PipeStep(tasks \ {t})
  <1>1. TaskOK(t)  BY DEF PipeOK
  <1>2. t.r \in Reqs  BY <1>1 DEF TaskOK, TaskType
  <1>3. Received(t) \in States  BY <1>1, ReceivedState
  <1> QED  BY <1>2, <1>3, EmitStep DEF Publish

\* A handler, a callback or a call that goes on without publishing.
LEMMA ContinueTask ==
    ASSUME PipeOK, NEW t, TaskOK(t), NEW more, Harmless(more), Continue(t, more)
    PROVE  PipeStep(tasks \ {t})
  <1>1. Received(t) \in States  BY ReceivedState
  <1>2. state' \in [Reqs -> States]  BY <1>1 DEF Continue, PipeOK
  <1>3. log' = log  BY DEF Continue
  <1>4. \A u \in tasks' : TaskOK(u)  BY DEF Continue, PipeOK, Harmless
  <1>5. \A u \in tasks' : ~New(u, tasks \ {t})  BY DEF Continue, Harmless, New
  <1> QED  BY <1>2, <1>3, <1>4, <1>5 DEF PipeStep, PipeOK

\* A handler that goes on without publishing.
LEMMA ContinueStep ==
    ASSUME PipeOK, NEW t \in tasks, NEW more, Harmless(more), Continue(t, more)
    PROVE  PipeStep(tasks \ {t})
  BY ContinueTask DEF PipeOK

\* Tasks added by a callback, a call or the position stream.
LEMMA AddStep ==
    ASSUME PipeOK, NEW more, Harmless(more), tasks' = tasks \cup more,
           state' = state, log' = log
    PROVE  PipeStep(tasks)
  BY DEF PipeOK, PipeStep, Harmless, New

\* A counted handler that does not run has run as often as before.
LEMMA SingleKept ==
    ASSUME PipeOK, NEW gone, PipeStep(tasks \ gone), NEW h \in Counted, NEW r \in Reqs, NEW n \in Nat,
           Single(tasks, log, h, r, n)
    PROVE  Single(tasks', log', h, r, n)
  <1>1. \A topic : Recorded(log, r, topic) => Recorded(log', r, topic)
    BY DEF PipeStep, Recorded
  <1>2. \A t \in Starts(tasks', h, r) :
           t \in Starts(tasks, h, r) \/ (New(t, tasks \ gone) /\ t \in tasks' /\ t.h = h /\ t.r = r)
    BY DEF Starts, New
  <1>3. \A t \in Starts(tasks', h, r) : t \notin Starts(tasks, h, r) =>
           ~Recorded(log, r, TopicOf[h]) /\ Recorded(log', r, TopicOf[h])
    BY <1>2 DEF PipeStep
  <1>4. \A t, u \in Starts(tasks', h, r) : t = u
    <2> TAKE t, u \in Starts(tasks', h, r)
    <2>1. CASE t \in Starts(tasks, h, r) /\ u \in Starts(tasks, h, r)
      BY <2>1 DEF Single
    <2>2. CASE t \notin Starts(tasks, h, r) /\ u \notin Starts(tasks, h, r)
      BY <1>2, <2>2 DEF PipeStep
    <2>3. CASE t \in Starts(tasks, h, r) /\ u \notin Starts(tasks, h, r)
      BY <1>3, <2>3 DEF Single
    <2>4. CASE t \notin Starts(tasks, h, r) /\ u \in Starts(tasks, h, r)
      BY <1>3, <2>4 DEF Single
    <2> QED  BY <2>1, <2>2, <2>3, <2>4
  <1>5. n = 1 => Starts(tasks', h, r) = {}
    BY <1>3 DEF Single
  <1> QED  BY <1>1, <1>3, <1>4, <1>5 DEF Single

\* A counted handler that runs has not run before, and has no message left.
LEMMA SingleCounts ==
    ASSUME PipeOK, NEW h \in Counted, NEW r \in Reqs, NEW t \in Starts(tasks, h, r),
           PipeStep(tasks \ {t}), NEW n \in Nat, Single(tasks, log, h, r, n)
    PROVE  n = 0 /\ Single(tasks', log', h, r, n + 1)
  <1>1. n = 0  BY DEF Single
  <1>2. Recorded(log, r, TopicOf[h])  BY DEF Single
  <1>3. Recorded(log', r, TopicOf[h])  BY <1>2 DEF PipeStep, Recorded
  <1>4. Starts(tasks', h, r) = {}
    <2> SUFFICES ASSUME NEW u \in Starts(tasks', h, r) PROVE FALSE
      OBVIOUS
    <2>1. CASE u \in tasks \ {t}  BY <2>1 DEF Single, Starts
    <2>2. CASE u \notin tasks \ {t}  BY <1>2, <2>2 DEF PipeStep, New, Starts
    <2> QED  BY <2>1, <2>2
  <1> QED  BY <1>1, <1>3, <1>4 DEF Single
-----------------------------------------------------------------------------
(* The steps *)

\* A step that neither submits, completes nor saves keeps the invariant if it
\* keeps the parts it touches.
LEMMA Keep ==
    ASSUME IInv, NEW gone, PipeStep(tasks \ gone), TimersOK', StreamOK', BookOK',
           UNCHANGED <<intent, submits, results>>
    PROVE  IInv'
  <1>1. \A r \in Reqs : /\ Single(tasks', log', "Execute", r, submits[r])
                        /\ Single(tasks', log', "Complete", r, done[r])
                        /\ Single(tasks', log', "SaveTrade", r, saves[r])
    <2> TAKE r \in Reqs
    <2>1. submits[r] \in Nat /\ done[r] \in Nat /\ saves[r] \in Nat
      BY DEF IInv, BookOK, ResultsOK
    <2>2. Single(tasks', log', "Execute", r, submits[r])
      BY <2>1, SingleKept DEF IInv, OnceOK, Counted
    <2>3. Single(tasks', log', "Complete", r, done[r])
      BY <2>1, SingleKept DEF IInv, OnceOK, Counted
    <2>4. Single(tasks', log', "SaveTrade", r, saves[r])
      BY <2>1, SingleKept DEF IInv, OnceOK, Counted
    <2> QED  BY <2>2, <2>3, <2>4
  <1>2. OnceOK'  BY <1>1 DEF OnceOK, results
  <1>3. IntentOK' /\ ResultsOK'  BY DEF IInv, IntentOK, ResultsOK, results
  <1>4. PipeOK'  BY DEF PipeStep
  <1> QED  BY <1>2, <1>3, <1>4 DEF IInv

\* What an action leaves alone stays well-formed.
LEMMA SameTimers == ASSUME TimersOK, UNCHANGED timers PROVE TimersOK'
  BY DEF TimersOK, timers
\* The same for the stream.
LEMMA SameStream == ASSUME StreamOK, UNCHANGED stream PROVE StreamOK'
  BY DEF StreamOK, stream
\* The same for the exchange.
LEMMA SameBook == ASSUME BookOK, UNCHANGED exchange PROVE BookOK' /\ UNCHANGED submits
  BY DEF BookOK, exchange

\* A step of the pipeline and nothing else.
LEMMA KeepPipe ==
    ASSUME IInv, NEW gone, PipeStep(tasks \ gone),
           UNCHANGED <<intent, stream, timers, exchange, results>>
    PROVE  IInv'
  BY Keep, SameTimers, SameStream, SameBook DEF IInv

\* Storing, stopping and firing a timer keep the timers well-formed.
LEMMA StoreTimer ==
    ASSUME TimersOK, NEW r \in Reqs, NEW k \in TimerKinds, Store(r, k)
    PROVE  TimersOK'
  BY DEF TimersOK, Store
\* Stopping the timer of a request.
LEMMA StopTimer ==
    ASSUME TimersOK, NEW r \in Reqs, CancelTimeoutGuard(r)
    PROVE  TimersOK'
  BY DEF TimersOK, CancelTimeoutGuard
\* A timer that fires.
LEMMA TimerExpires ==
    ASSUME TimersOK, NEW r \in Reqs, NEW k, Expire(r, k)
    PROVE  TimersOK'
  BY DEF TimersOK, Expire

\* A started or suspended handler of r is a well-formed task of r.
LEMMA HandlerTask ==
    ASSUME PipeOK, NEW r \in Reqs, NEW h, NEW p, NEW t \in Ready(h, r) \cup At(h, r, p)
    PROVE  t \in tasks /\ TaskOK(t) /\ t \in TaskType /\ t.r = r /\ t.h = h
  BY DEF PipeOK, TaskOK, Ready, At

\* A handler that goes on in another phase.
LEMMA GoesOn ==
    ASSUME NEW t, TaskOK(t), NEW p \in Phases \ {"start"}, NEW n \in Nat, NEW d \in Data,
           p = "poll" => d \in OrderViews, p = "enrich" => d \in Outcomes
    PROVE  Harmless(Goto(t, p, n, d))
  BY DEF Harmless, Goto, Task, TaskOK, TaskType

\* The pushes of the position stream.
LEMMA PushesHarmless ==
    ASSUME StreamOK, NEW d \in {"open", "closed", "empty"}, NEW m \in Deliveries(d)
    PROVE  Harmless(m)
  <1>1. m \in {{}, {Task("Push", l, d, "start", 0) : l \in listeners}}
    BY DEF Deliveries
  <1>2. \A l \in listeners : Task("Push", l, d, "start", 0) \in TaskType
    BY DEF StreamOK, Task, TaskType, Callbacks, Phases, Data
  <1> QED  BY <1>1, <1>2 DEF Harmless, TaskOK, Counted, Task

\* Publishing alone adds nothing else.
LEMMA NothingHarmless == Harmless({})
  BY DEF Harmless

\* Plain events and outcomes are well-formed.
LEMMA PlainEvents ==
    \A topic \in Topics \ {"Completed", "TradeRecord"} : EventOK(Plain(topic))
  BY DEF EventOK, EventType, Plain, Event, Data
\* An event that carries an outcome.
LEMMA OutcomeEvents ==
    \A topic \in Topics, o \in Outcomes : EventOK(Event(topic, o))
  BY DEF EventOK, EventType, Event, Data
\* The topics by name.
LEMMA Topical ==
    {"Intent", "PreFlightDone", "PositionWatchReady", "FireWindowReached", "Submitted",
     "TPSLDispatched", "Filled", "PositionClosed", "OutcomeResolved", "TimeoutScheduled",
     "TimeoutPositionChecked", "BailoutExecuted", "Completed", "Aborted", "Canceled",
     "TradeRecord"} \subseteq Topics
  BY DEF Topics, NextState

\* abortOrder stops the timer, gives up the stream and publishes.
LEMMA AbortStep ==
    ASSUME IInv, NEW t \in tasks, AbortOrder(t), UNCHANGED <<intent, exchange, results>>
    PROVE  IInv'
  <1>1. t.r \in Reqs  BY DEF IInv, PipeOK, TaskOK, TaskType
  <1>2. TimersOK'  BY <1>1, StopTimer DEF IInv, AbortOrder
  <1>3. StreamOK'  BY DEF IInv, StreamOK, AbortOrder
  <1>4. EventOK(Plain("Aborted"))  BY Topical, PlainEvents
  <1>5. PipeStep(tasks \ {t})  BY <1>4, PublishStep, NothingHarmless DEF IInv, AbortOrder
  <1>6. BookOK' /\ UNCHANGED submits  BY SameBook DEF IInv
  <1> QED  BY <1>2, <1>3, <1>5, <1>6, Keep

\* A handler that publishes one event of its own.
LEMMA PlainStep ==
    ASSUME IInv, NEW t \in tasks, NEW topic \in Topics \ {"Completed", "TradeRecord"},
           Publish(t, Plain(topic), {}), UNCHANGED <<intent, stream, timers, exchange, results>>
    PROVE  IInv'
  <1>1. PipeStep(tasks \ {t})  BY PlainEvents, PublishStep, NothingHarmless DEF IInv
  <1> QED  BY <1>1, KeepPipe
\* One that does not publish.
LEMMA SilentStep ==
    ASSUME IInv, NEW t \in tasks, NEW more, Harmless(more),
           Continue(t, more), UNCHANGED <<intent, stream, timers, exchange, results>>
    PROVE  IInv'
  <1>1. PipeStep(tasks \ {t})  BY ContinueStep DEF IInv
  <1> QED  BY <1>1, KeepPipe
-----------------------------------------------------------------------------
(* The pipeline up to the submission *)

\* A second Dispatch records the intent again and publishes no message.
LEMMA DispatchStep ==
    ASSUME IInv, NEW r \in Reqs, Dispatch(r) PROVE IInv'
  <1>1. state[r] \in States  BY DEF IInv, PipeOK
  <1>2. EventOK(Plain("Intent"))  BY Topical, PlainEvents
  <1>3. PipeStep(tasks \ {})
    BY <1>1, <1>2, EmitStep, NothingHarmless DEF IInv, Dispatch
  <1> QED  BY <1>3, KeepPipe DEF Dispatch

\* HandlePreFlight goes on or aborts.
LEMMA PreFlightStep ==
    ASSUME IInv, NEW r \in Reqs, PreFlight(r) PROVE IInv'
  <1>1. PICK t \in Ready("PreFlight", r) :
          /\ \/ /\ Publish(t, Plain("PreFlightDone"), {})
                /\ UNCHANGED <<stream, timers>>
             \/ AbortOrder(t)
          /\ UNCHANGED <<intent, exchange, results>>
    BY DEF PreFlight
  <1>2. t \in tasks  BY HandlerTask DEF IInv
  <1> QED  BY <1>1, <1>2, PlainStep, AbortStep, Topical

\* The position watch joins the stream.
LEMMA PositionWatchStep ==
    ASSUME IInv, NEW r \in Reqs, PositionWatchReady(r) PROVE IInv'
  <1>1. PICK t \in Ready("WatchReady", r) : Publish(t, Plain("PositionWatchReady"), {})
    BY DEF PositionWatchReady
  <1>2. t \in tasks  BY HandlerTask DEF IInv
  <1>3. PipeStep(tasks \ {t})
    BY <1>1, <1>2, Topical, PlainEvents, PublishStep, NothingHarmless DEF IInv
  <1>4. StreamOK'  BY DEF IInv, StreamOK, PositionWatchReady
  <1>5. TimersOK' /\ BookOK' /\ UNCHANGED submits
    BY SameTimers, SameBook DEF IInv, PositionWatchReady
  <1> QED  BY <1>3, <1>4, <1>5, Keep DEF PositionWatchReady

\* HandleFireTiming publishes fire_window_reached, which Execute is waiting for.
LEMMA FireTimingStep ==
    ASSUME IInv, NEW r \in Reqs, FireTiming(r) PROVE IInv'
  <1>1. PICK t \in Ready("FireTiming", r) :
          /\ Publish(t, Plain("FireWindowReached"), {})
          /\ UNCHANGED <<intent, stream, timers, exchange, results>>
    BY DEF FireTiming
  <1>2. t \in tasks  BY HandlerTask DEF IInv
  <1> QED  BY <1>1, <1>2, PlainStep, Topical

\* An intent opens or closes.
LEMMA Sides == ASSUME IntentOK, NEW r \in Reqs PROVE intent[r].side \in {"open", "close"}
  BY IntentsAssumption DEF IntentOK, IntentType

\* A request that was not submitted yet has no order.
LEMMA AcceptBook ==
    ASSUME IntentOK, BookOK, NEW r \in Reqs, submits[r] = 0, NEW k \in 0..Lots,
           Accept(r, k) \/ UNCHANGED <<ord, deal, position>>,
           submits' = [submits EXCEPT ![r] = @ + 1]
    PROVE  BookOK' /\ position' \in Nat
  <1>1. submits' \in [Reqs -> Nat] /\ submits'[r] = 1
        /\ \A q \in Reqs \ {r} : submits'[q] = submits[q]
    BY DEF BookOK
  <1>2. CASE UNCHANGED <<ord, deal, position>>  BY <1>1, <1>2 DEF BookOK
  <1>3. CASE Accept(r, k) /\ intent[r].type = "maker"
    BY <1>1, <1>3 DEF BookOK, Accept, Lots
  <1>4. CASE Accept(r, k) /\ intent[r].type # "maker"
    <2>1. ord' \in [Reqs -> {"none", "live", "filled", "canceled"}] /\ ord'[r] # "live"
          /\ \A q \in Reqs \ {r} : ord'[q] = ord[q]
      BY <1>4 DEF BookOK, Accept
    <2>2. deal' \in [Reqs -> 0..Lots] /\ \A q \in Reqs \ {r} : deal'[q] = deal[q]
      BY <1>4 DEF BookOK, Accept
    <2>3. position' \in Nat
      <3>1. CASE intent[r].side = "open"  BY <1>4, <3>1 DEF BookOK, Accept, Lots
      <3>2. CASE intent[r].side = "close"  BY <1>4, <3>2 DEF BookOK, Accept, Lots
      <3> QED  BY <3>1, <3>2, Sides
    <2> QED  BY <1>1, <2>1, <2>2, <2>3 DEF BookOK
  <1> QED  BY <1>2, <1>3, <1>4 DEF BookOK

\* CreateOrder is called by the only fire_window_reached message of the request.
LEMMA ExecuteStep ==
    ASSUME IInv, NEW r \in Reqs, ExecuteOrder(r) PROVE IInv'
  <1> USE DEF IInv
  <1>1. PICK t \in Ready("Execute", r), k \in 0..Lots :
          /\ \/ /\ Accept(r, k)
                /\ \E reply \in {"ok"} \cup (IF "submit_ambiguous" \in Faults THEN {"error"} ELSE {}),
                      m \in (IF k > 0 THEN Deliveries(PushOf(position')) ELSE {{}}) :
                      Continue(t, Goto(t, "reply", 1, reply) \cup m)
             \/ /\ "reject" \in Faults /\ k = 0
                /\ Continue(t, Goto(t, "reply", 1, "error"))
                /\ UNCHANGED <<ord, deal, position>>
          /\ submits' = [submits EXCEPT ![r] = @ + 1]
          /\ UNCHANGED <<intent, stream, timers, results>>
    BY DEF ExecuteOrder
  <1>2. t \in tasks /\ TaskOK(t) /\ t \in Starts(tasks, "Execute", r)
    BY HandlerTask DEF Ready, Starts
  <1>3. PICK more : Continue(t, more) /\ Harmless(more)
    <2>1. \A reply \in {"ok", "error"} : Harmless(Goto(t, "reply", 1, reply))
      BY <1>2, GoesOn DEF Phases, Data
    <2>2. \A m \in Deliveries(PushOf(position')) : Harmless(m)
      BY PushesHarmless DEF PushOf
    <2>3. \A a, b : Harmless(a) /\ Harmless(b) => Harmless(a \cup b)
      BY DEF Harmless
    <2> QED  BY <1>1, <2>1, <2>2, <2>3, NothingHarmless
  <1>4. PipeStep(tasks \ {t})  BY <1>2, <1>3, ContinueStep
  <1>5. submits[r] \in Nat /\ Single(tasks, log, "Execute", r, submits[r])
    BY DEF BookOK, OnceOK
  <1>6. submits[r] = 0 /\ Single(tasks', log', "Execute", r, submits[r] + 1)
    BY <1>2, <1>4, <1>5, SingleCounts DEF Counted
  <1>7. BookOK'  BY <1>1, <1>6, AcceptBook
  <1>8. OnceOK'
    <2> SUFFICES ASSUME NEW q \in Reqs
                 PROVE  /\ Single(tasks', log', "Execute", q, submits'[q])
                        /\ Single(tasks', log', "Complete", q, done'[q])
                        /\ Single(tasks', log', "SaveTrade", q, saves'[q])
      BY DEF OnceOK
    <2>1. done'[q] = done[q] /\ saves'[q] = saves[q]  BY <1>1 DEF results
    <2>2. submits[q] \in Nat /\ done[q] \in Nat /\ saves[q] \in Nat
      BY DEF BookOK, ResultsOK
    <2>3. Single(tasks', log', "Complete", q, done[q]) /\ Single(tasks', log', "SaveTrade", q, saves[q])
      BY <1>4, <2>2, SingleKept DEF OnceOK, Counted
    <2>4. CASE q = r
      BY <1>1, <1>6, <2>1, <2>3, <2>4 DEF BookOK
    <2>5. CASE q # r
      <3>1. submits'[q] = submits[q]  BY <1>1, <2>5 DEF BookOK
      <3>2. Single(tasks', log', "Execute", q, submits[q])
        BY <1>4, <2>2, SingleKept DEF OnceOK, Counted
      <3> QED  BY <2>1, <2>3, <3>1, <3>2
    <2> QED  BY <2>4, <2>5
  <1>9. IntentOK' /\ TimersOK' /\ StreamOK' /\ ResultsOK'
    BY <1>1, SameTimers, SameStream DEF IntentOK, ResultsOK, results
  <1> QED  BY <1>4, <1>7, <1>8, <1>9 DEF PipeStep

\* The reply of CreateOrder is published, or the order aborted.
LEMMA SubmitReplyStep ==
    ASSUME IInv, NEW r \in Reqs, SubmitReply(r) PROVE IInv'
  <1>1. PICK t \in At("Execute", r, "reply") :
          /\ \/ /\ Publish(t, Plain("Submitted"), {})
                /\ UNCHANGED <<stream, timers>>
             \/ AbortOrder(t)
          /\ UNCHANGED <<intent, exchange, results>>
    BY DEF SubmitReply
  <1>2. t \in tasks  BY HandlerTask DEF IInv
  <1> QED  BY <1>1, <1>2, PlainStep, AbortStep, Topical

-----------------------------------------------------------------------------
(* After the submission *)

\* HandleTPSLContingency publishes or stays silent.
LEMMA TPSLStep ==
    ASSUME IInv, NEW r \in Reqs, TPSLSubmission(r) PROVE IInv'
  <1>1. PICK t \in Ready("TPSL", r) :
          /\ Publish(t, Plain("TPSLDispatched"), {}) \/ Continue(t, {})
          /\ UNCHANGED <<intent, stream, timers, exchange, results>>
    BY DEF TPSLSubmission
  <1>2. t \in tasks  BY HandlerTask DEF IInv
  <1> QED  BY <1>1, <1>2, PlainStep, SilentStep, NothingHarmless, Topical

\* A handler that only touches the timers of its request.
LEMMA TimerHandlerStep ==
    ASSUME IInv, NEW t \in tasks, NEW more, Harmless(more), Continue(t, more), TimersOK',
           UNCHANGED <<intent, stream, exchange, results>>
    PROVE  IInv'
  <1>1. PipeStep(tasks \ {t})  BY ContinueStep DEF IInv
  <1> QED  BY <1>1, Keep, SameStream, SameBook DEF IInv

\* The two handlers that start a timer.
LEMMA ScheduleStep ==
    ASSUME IInv, NEW r \in Reqs,
           ScheduleUnfilledCancelTimeout(r) \/ SchedulePositionCloseTimeout(r)
    PROVE  IInv'
  <1>1. PICK t \in Ready("ScheduleTimeout", r) \cup Ready("ScheduleClose", r) : Continue(t, {})
    BY DEF ScheduleUnfilledCancelTimeout, SchedulePositionCloseTimeout
  <1>2. t \in tasks  BY HandlerTask DEF IInv
  <1>3. (\E k \in TimerKinds : Store(r, k)) \/ UNCHANGED timers
    BY DEF ScheduleUnfilledCancelTimeout, SchedulePositionCloseTimeout, TimerKinds
  <1>4. TimersOK'  BY <1>3, StoreTimer, SameTimers DEF IInv
  <1>5. UNCHANGED <<intent, stream, exchange, results>>
    BY DEF ScheduleUnfilledCancelTimeout, SchedulePositionCloseTimeout
  <1> QED  BY <1>1, <1>2, <1>4, <1>5, TimerHandlerStep, NothingHarmless

\* The outcome watcher starts with no view of the order.
LEMMA OutcomeWatcherStep ==
    ASSUME IInv, NEW r \in Reqs, OutcomeWatcher(r) PROVE IInv'
  <1>1. PICK t \in Ready("OutcomeWatcher", r) :
          /\ Continue(t, Goto(t, "poll", 1, "nil"))
          /\ UNCHANGED <<intent, stream, timers, exchange, results>>
    BY DEF OutcomeWatcher
  <1>2. t \in tasks /\ TaskOK(t)  BY HandlerTask DEF IInv
  <1>3. Harmless(Goto(t, "poll", 1, "nil"))
    BY <1>2, GoesOn DEF Phases, Data, OrderViews
  <1> QED  BY <1>1, <1>2, <1>3, SilentStep

\* Every view the watcher ends with is classified.
LEMMA PollStep ==
    ASSUME IInv, NEW r \in Reqs, PollOrder(r) PROVE IInv'
  <1>1. PICK t \in At("OutcomeWatcher", r, "poll") :
          /\ \E v \in OrderInfo(r) \cup {t.d} :
                \/ Publish(t, Event("OutcomeResolved", ClassifyOrderOutcome[v]), {})
                \/ Continue(t, Goto(t, "poll", t.n + 1, v))
          /\ UNCHANGED <<intent, stream, timers, exchange, results>>
    BY DEF PollOrder
  <1>2. t \in tasks /\ TaskOK(t) /\ t.p = "poll"  BY HandlerTask DEF IInv, At
  <1>3. OrderInfo(r) \cup {t.d} \subseteq OrderViews
    BY <1>2 DEF OrderInfo, OrderViews, TaskOK
  <1>4. \A v \in OrderViews : EventOK(Event("OutcomeResolved", ClassifyOrderOutcome[v]))
    BY Classified, OutcomeEvents, Topical
  <1>5. \A v \in OrderViews : Harmless(Goto(t, "poll", t.n + 1, v))
    BY <1>2, GoesOn DEF Phases, Data, TaskOK, TaskType
  <1>6. PipeStep(tasks \ {t})
    BY <1>1, <1>2, <1>3, <1>4, <1>5, PublishStep, ContinueStep, NothingHarmless DEF IInv
  <1> QED  BY <1>1, <1>6, KeepPipe

\* Only outcomes lead to a completion.
LEMMA ResolveStep ==
    ASSUME IInv, NEW r \in Reqs, ResolveOutcome(r) PROVE IInv'
  <1>1. PICK t \in Ready("ResolveOutcome", r) :
          \/ /\ t.d \in {"canceled_no_fill", "unknown", "filled"} /\ CancelTimeoutGuard(r)
             /\ Continue(t, Goto(t, "enrich", 1, t.d))
          \/ Continue(t, {}) /\ UNCHANGED timers
    BY DEF ResolveOutcome
  <1>2. t \in tasks /\ TaskOK(t)  BY HandlerTask DEF IInv
  <1>3. t.d \in {"canceled_no_fill", "unknown", "filled"} => Harmless(Goto(t, "enrich", 1, t.d))
    BY <1>2, GoesOn DEF Phases, Data, Outcomes
  <1>4. TimersOK'  BY <1>1, StopTimer, SameTimers DEF IInv
  <1> QED  BY <1>1, <1>2, <1>3, <1>4, TimerHandlerStep, NothingHarmless DEF ResolveOutcome

-----------------------------------------------------------------------------
(* Timers *)

\* A task of a callback or a call that waits for the exchange.
LEMMA WaitingTask ==
    ASSUME NEW r \in Reqs, NEW h \in Callbacks, NEW d \in Data
    PROVE  Harmless({Task(h, r, d, "close", 1)})
  BY DEF Harmless, Task, TaskOK, TaskType, Phases

\* The exchange ends a live order.
LEMMA CancelBook ==
    ASSUME BookOK, NEW r \in Reqs, ExchangeCancel(r) \/ UNCHANGED ord,
           UNCHANGED <<deal, position, submits>>
    PROVE  BookOK'
  BY DEF BookOK, ExchangeCancel

\* The cancel timer starts a cancellation in a goroutine of its own.
LEMMA CancelTimerStep ==
    ASSUME IInv, NEW r \in Reqs, CancelTimerFires(r) PROVE IInv'
  <1>1. TimersOK'  BY TimerExpires DEF IInv, CancelTimerFires
  <1>2. PICK more : Harmless(more) /\ tasks' = tasks \cup more
    BY WaitingTask, NothingHarmless DEF CancelTimerFires, Callbacks, Data
  <1>3. PipeStep(tasks \ {})  BY <1>2, AddStep DEF IInv, CancelTimerFires
  <1> QED  BY <1>1, <1>3, Keep, SameStream, SameBook DEF IInv, CancelTimerFires

\* The cancellation publishes the outcome canceled_no_fill.
LEMMA CancelRestingStep ==
    ASSUME IInv, NEW r \in Reqs, CancelRestingOrderOnTimeout(r) PROVE IInv'
  <1>1. PICK t \in At("CancelTimer", r, "close") :
          /\ ExchangeCancel(r) \/ UNCHANGED ord
          /\ Publish(t, Event("OutcomeResolved", "canceled_no_fill"), {})
          /\ UNCHANGED <<intent, stream, timers, deal, position, submits, results>>
    BY DEF CancelRestingOrderOnTimeout
  <1>2. t \in tasks  BY HandlerTask DEF IInv
  <1>3. PipeStep(tasks \ {t})
    BY <1>1, <1>2, Topical, OutcomeEvents, PublishStep, NothingHarmless DEF IInv, Outcomes
  <1>4. BookOK'  BY <1>1, CancelBook DEF IInv
  <1> QED  BY <1>1, <1>3, <1>4, Keep, SameTimers, SameStream DEF IInv

\* The close timer publishes timeout_scheduled.
LEMMA CloseTimerStep ==
    ASSUME IInv, NEW r \in Reqs, CloseTimerFires(r) PROVE IInv'
  <1>1. TimersOK'  BY TimerExpires DEF IInv, CloseTimerFires
  <1>2. state[r] \in States /\ EventOK(Plain("TimeoutScheduled"))
    BY Topical, PlainEvents DEF IInv, PipeOK
  <1>3. PipeStep(tasks \ {})
    BY <1>2, EmitStep, NothingHarmless DEF IInv, CloseTimerFires
  <1> QED  BY <1>1, <1>3, Keep, SameStream, SameBook DEF IInv, CloseTimerFires

\* The deadline publishes what it saw of the position.
LEMMA WaitDeadlineStep ==
    ASSUME IInv, NEW r \in Reqs, WaitTimeoutDeadline(r) PROVE IInv'
  <1>1. PICK t \in Ready("WaitDeadline", r) :
          /\ \E held \in {"hold", "none"} :
                Publish(t, Event("TimeoutPositionChecked", held), {})
          /\ UNCHANGED <<intent, stream, timers, exchange, results>>
    BY DEF WaitTimeoutDeadline
  <1>2. t \in tasks  BY HandlerTask DEF IInv
  <1>3. \A held \in {"hold", "none"} : EventOK(Event("TimeoutPositionChecked", held))
    BY Topical DEF EventOK, EventType, Event, Data
  <1>4. PipeStep(tasks \ {t})
    BY <1>1, <1>2, <1>3, PublishStep, NothingHarmless DEF IInv
  <1> QED  BY <1>1, <1>4, KeepPipe

\* A deadline without a position completes the order.
LEMMA NoPositionStep ==
    ASSUME IInv, NEW r \in Reqs, TimeoutNoPosition(r) PROVE IInv'
  <1>1. PICK t \in Ready("PositionChecked", r) :
          \/ Continue(t, {})
          \/ \E o \in {"filled", "canceled_no_fill"} : Continue(t, Goto(t, "enrich", 1, o))
    BY DEF TimeoutNoPosition
  <1>2. t \in tasks /\ TaskOK(t)  BY HandlerTask DEF IInv
  <1>3. \A o \in {"filled", "canceled_no_fill"} : Harmless(Goto(t, "enrich", 1, o))
    BY <1>2, GoesOn DEF Phases, Data, Outcomes
  <1>4. PipeStep(tasks \ {t})
    BY <1>1, <1>2, <1>3, ContinueStep, NothingHarmless DEF IInv
  <1>5. StreamOK'  BY DEF IInv, StreamOK, TimeoutNoPosition
  <1> QED  BY <1>4, <1>5, Keep, SameTimers, SameBook DEF IInv, TimeoutNoPosition

-----------------------------------------------------------------------------
(* Bailout and completion *)

\* Tasks added from two sources.
LEMMA UnionHarmless ==
    ASSUME NEW a, NEW b, Harmless(a), Harmless(b) PROVE Harmless(a \cup b)
  BY DEF Harmless

\* The book when only the position moves.
LEMMA PositionBook ==
    ASSUME BookOK, UNCHANGED <<ord, deal, submits>>, position' \in Nat
    PROVE  BookOK'
  BY DEF BookOK

\* A market close by a task that is in progress or was just started by a call.
LEMMA MarketCloseStep ==
    ASSUME IInv, NEW t, TaskOK(t), NEW more, Harmless(more), MarketClose(t, more),
           UNCHANGED <<intent, stream, timers, ord, deal, submits, results>>
    PROVE  IInv'
  <1>1. PICK m : Harmless(m) /\ Continue(t, more \cup m)
    <2>1. \A m \in Deliveries("closed") : Harmless(m)  BY PushesHarmless DEF IInv
    <2>2. more \cup {} = more  OBVIOUS
    <2> QED  BY <2>1, <2>2, NothingHarmless DEF MarketClose
  <1>2. PipeStep(tasks \ {t})  BY <1>1, UnionHarmless, ContinueTask DEF IInv
  <1>3. position' \in Nat  BY DEF MarketClose, IInv, BookOK
  <1>4. BookOK'  BY <1>3, PositionBook DEF IInv
  <1> QED  BY <1>2, <1>4, Keep, SameTimers, SameStream DEF IInv

\* The bailout starts with a close of all positions.
LEMMA BailoutStep ==
    ASSUME IInv, NEW r \in Reqs, TimeoutBailout(r) PROVE IInv'
  <1>1. PICK t \in Ready("PositionChecked", r) :
          MarketClose(t, Goto(t, "close", 1, "hold"))
    BY DEF TimeoutBailout
  <1>2. TaskOK(t)  BY HandlerTask DEF IInv
  <1>3. Harmless(Goto(t, "close", 1, "hold"))
    BY <1>2, GoesOn DEF Phases, Data
  <1> QED  BY <1>1, <1>2, <1>3, MarketCloseStep DEF TimeoutBailout

\* An attempt of the close loop, by the deadline or by a trailing stop.
LEMMA BailoutAttemptStep ==
    ASSUME IInv, NEW r \in Reqs, BailoutAttempt(r) PROVE IInv'
  <1>1. PICK t \in At("PositionChecked", r, "close") \cup At("Trail", r, "close") :
          /\ \/ /\ Publish(t, Plain("BailoutExecuted"),
                           IF t.h = "Trail" THEN {} ELSE Goto(t, "enrich", 1, "bailout"))
                /\ UNCHANGED position
             \/ MarketClose(t, Goto(t, "close", t.n + 1, t.d))
             \/ Continue(t, Goto(t, "close", t.n + 1, t.d)) /\ UNCHANGED position
          /\ UNCHANGED <<intent, stream, timers, ord, deal, submits, results>>
    BY DEF BailoutAttempt
  <1>2. t \in tasks /\ TaskOK(t) /\ t.n \in Nat /\ t.d \in Data
    BY DEF At, IInv, PipeOK, TaskOK, TaskType
  <1>3. Harmless(Goto(t, "close", t.n + 1, t.d))
    BY <1>2, GoesOn DEF Phases
  <1>4. Harmless(Goto(t, "enrich", 1, "bailout"))
    BY <1>2, GoesOn DEF Phases, Data, Outcomes
  <1>5. CASE Publish(t, Plain("BailoutExecuted"),
                     IF t.h = "Trail" THEN {} ELSE Goto(t, "enrich", 1, "bailout"))
             /\ UNCHANGED position
    <2>1. EventOK(Plain("BailoutExecuted"))  BY Topical, PlainEvents
    <2>2. PipeStep(tasks \ {t})
      BY <1>2, <1>4, <1>5, <2>1, PublishStep, NothingHarmless DEF IInv
    <2> QED  BY <1>1, <1>5, <2>2, KeepPipe DEF exchange
  <1>6. CASE MarketClose(t, Goto(t, "close", t.n + 1, t.d))
    BY <1>1, <1>2, <1>3, <1>6, MarketCloseStep
  <1>7. CASE Continue(t, Goto(t, "close", t.n + 1, t.d)) /\ UNCHANGED position
    BY <1>1, <1>2, <1>3, <1>7, SilentStep DEF exchange
  <1> QED  BY <1>1, <1>5, <1>6, <1>7

\* The deadline aborts after its last attempt, the trailing stop gives up.
LEMMA BailoutFailsStep ==
    ASSUME IInv, NEW r \in Reqs, BailoutFails(r) PROVE IInv'
  <1>1. PICK t \in At("PositionChecked", r, "close") \cup At("Trail", r, "close") :
          /\ \/ AbortOrder(t)
             \/ Continue(t, {}) /\ UNCHANGED <<stream, timers>>
          /\ UNCHANGED <<intent, exchange, results>>
    BY DEF BailoutFails
  <1>2. t \in tasks  BY DEF At
  <1> QED  BY <1>1, <1>2, AbortStep, SilentStep, NothingHarmless

\* A completion carries an outcome, the one it was asked for or the canceled one.
LEMMA EnrichStep ==
    ASSUME IInv, NEW r \in Reqs, EnrichAndComplete(r) PROVE IInv'
  <1>1. PICK t \in tasks :
          /\ t.p = "enrich"
          /\ \E o \in {t.d, "canceled_no_fill"} : Publish(t, Event("Completed", o), {})
          /\ UNCHANGED <<intent, stream, timers, exchange, results>>
    BY DEF EnrichAndComplete, At
  <1>2. {t.d, "canceled_no_fill"} \subseteq Outcomes
    BY <1>1 DEF IInv, PipeOK, TaskOK, Outcomes
  <1>3. \A o \in Outcomes : EventOK(Event("Completed", o))
    BY Topical, OutcomeEvents
  <1>4. PipeStep(tasks \ {t})
    BY <1>1, <1>2, <1>3, PublishStep, NothingHarmless DEF IInv
  <1> QED  BY <1>1, <1>4, KeepPipe

\* The close of the position completes the order as filled.
LEMMA PositionClosedDoneStep ==
    ASSUME IInv, NEW r \in Reqs, PositionClosedDone(r) PROVE IInv'
  <1>1. PICK t \in Ready("PositionClosed", r) : Continue(t, Goto(t, "enrich", 1, "filled"))
    BY DEF PositionClosedDone
  <1>2. t \in tasks /\ TaskOK(t)  BY HandlerTask DEF IInv
  <1>3. Harmless(Goto(t, "enrich", 1, "filled"))
    BY <1>2, GoesOn DEF Phases, Data, Outcomes
  <1>4. TimersOK'  BY StopTimer DEF IInv, PositionClosedDone
  <1> QED  BY <1>1, <1>2, <1>3, <1>4, TimerHandlerStep DEF PositionClosedDone

\* The callbacks of an order are invoked by its only order_completed message.
LEMMA CompleteStep ==
    ASSUME IInv, NEW r \in Reqs, CompleteOrder(r) PROVE IInv'
  <1> USE DEF IInv
  <1>1. PICK t \in Ready("Complete", r) : Publish(t, Event("TradeRecord", t.d), {})
    BY DEF CompleteOrder
  <1>2. t \in tasks /\ TaskOK(t) /\ t \in Starts(tasks, "Complete", r)
    BY <1>1, HandlerTask DEF Ready, Starts
  <1>3. EventOK(Event("TradeRecord", t.d))
    BY <1>2, Topical, OutcomeEvents DEF Starts, TaskOK
  <1>4. PipeStep(tasks \ {t})  BY <1>1, <1>2, <1>3, PublishStep, NothingHarmless
  <1>5. done[r] \in Nat /\ Single(tasks, log, "Complete", r, done[r])
    BY DEF ResultsOK, OnceOK
  <1>6. Single(tasks', log', "Complete", r, done[r] + 1)
    BY <1>2, <1>4, <1>5, SingleCounts DEF Counted
  <1>7. done' = [done EXCEPT ![r] = @ + 1] /\ saves' = saves /\ outcome' = outcome
    BY DEF CompleteOrder
  <1>8. ResultsOK'  BY <1>7 DEF ResultsOK
  <1>9. BookOK' /\ UNCHANGED submits  BY SameBook DEF CompleteOrder
  <1>10. OnceOK'
    <2> SUFFICES ASSUME NEW q \in Reqs
                 PROVE  /\ Single(tasks', log', "Execute", q, submits'[q])
                        /\ Single(tasks', log', "Complete", q, done'[q])
                        /\ Single(tasks', log', "SaveTrade", q, saves'[q])
      BY DEF OnceOK
    <2>1. submits[q] \in Nat /\ done[q] \in Nat /\ saves[q] \in Nat
      BY DEF BookOK, ResultsOK
    <2>2. Single(tasks', log', "Execute", q, submits'[q]) /\ Single(tasks', log', "SaveTrade", q, saves'[q])
      BY <1>4, <1>7, <1>9, <2>1, SingleKept DEF OnceOK, Counted
    <2>3. CASE q = r
      BY <1>6, <1>7, <2>2, <2>3 DEF ResultsOK
    <2>4. CASE q # r
      <3>1. done'[q] = done[q]  BY <1>7, <2>4 DEF ResultsOK
      <3>2. Single(tasks', log', "Complete", q, done[q])
        BY <1>4, <2>1, SingleKept DEF OnceOK, Counted
      <3> QED  BY <2>2, <3>1, <3>2
    <2> QED  BY <2>3, <2>4
  <1>11. TimersOK'  BY StopTimer DEF CompleteOrder
  <1>12. IntentOK' /\ StreamOK'  BY DEF IntentOK, StreamOK, CompleteOrder
  <1> QED  BY <1>4, <1>8, <1>9, <1>10, <1>11, <1>12 DEF PipeStep

\* The row of an order is saved by its only trade_record message.
LEMMA SaveStep ==
    ASSUME IInv, NEW r \in Reqs, SaveTrade(r) PROVE IInv'
  <1> USE DEF IInv
  <1>1. PICK t \in Ready("SaveTrade", r) :
          /\ Continue(t, {})
          /\ \/ /\ saves' = [saves EXCEPT ![r] = @ + 1]
                /\ outcome' = [outcome EXCEPT ![r] = t.d]
             \/ UNCHANGED <<saves, outcome>>
          /\ UNCHANGED <<intent, stream, timers, exchange, done>>
    BY DEF SaveTrade
  <1>2. t \in tasks /\ TaskOK(t) /\ t \in Starts(tasks, "SaveTrade", r)
    BY HandlerTask DEF Ready, Starts
  <1>3. PipeStep(tasks \ {t})  BY <1>1, <1>2, ContinueStep, NothingHarmless
  <1>4. TimersOK' /\ StreamOK' /\ BookOK' /\ UNCHANGED submits
    BY <1>1, SameTimers, SameStream, SameBook
  <1>5. CASE UNCHANGED <<saves, outcome>>
    BY <1>1, <1>3, <1>4, <1>5, Keep DEF results
  <1>6. CASE /\ saves' = [saves EXCEPT ![r] = @ + 1]
             /\ outcome' = [outcome EXCEPT ![r] = t.d]
    <2>1. saves[r] \in Nat /\ Single(tasks, log, "SaveTrade", r, saves[r])
      BY DEF ResultsOK, OnceOK
    <2>2. Single(tasks', log', "SaveTrade", r, saves[r] + 1)
      BY <1>2, <1>3, <2>1, SingleCounts DEF Counted
    <2>3. t.d \in Outcomes  BY <1>2 DEF Starts, TaskOK
    <2>4. ResultsOK'  BY <1>1, <1>6, <2>3 DEF ResultsOK
    <2>5. OnceOK'
      <3> SUFFICES ASSUME NEW q \in Reqs
                   PROVE  /\ Single(tasks', log', "Execute", q, submits'[q])
                          /\ Single(tasks', log', "Complete", q, done'[q])
                          /\ Single(tasks', log', "SaveTrade", q, saves'[q])
        BY DEF OnceOK
      <3>1. submits[q] \in Nat /\ done[q] \in Nat /\ saves[q] \in Nat
        BY DEF BookOK, ResultsOK
      <3>2. Single(tasks', log', "Execute", q, submits'[q]) /\ Single(tasks', log', "Complete", q, done'[q])
        BY <1>1, <1>3, <1>4, <3>1, SingleKept DEF OnceOK, Counted
      <3>3. CASE q = r
        BY <1>6, <2>2, <3>2, <3>3 DEF ResultsOK
      <3>4. CASE q # r
        <4>1. saves'[q] = saves[q]  BY <1>6, <3>4 DEF ResultsOK
        <4>2. Single(tasks', log', "SaveTrade", q, saves[q])
          BY <1>3, <3>1, SingleKept DEF OnceOK, Counted
        <4> QED  BY <3>2, <4>1, <4>2
      <3> QED  BY <3>3, <3>4
    <2>6. IntentOK'  BY <1>1 DEF IntentOK
    <2> QED  BY <1>3, <1>4, <2>4, <2>5, <2>6 DEF PipeStep
  <1> QED  BY <1>1, <1>5, <1>6

-----------------------------------------------------------------------------
(* The position stream and the calls of the API *)

\* A push publishes order_filled or position_closed, or is ignored.
LEMMA PushStep ==
    ASSUME IInv, NEW r \in Reqs, PositionFilled(r) \/ PositionClosed(r) PROVE IInv'
  <1>1. PICK t \in Ready("Push", r) :
          /\ \/ Continue(t, {})
             \/ Publish(t, Plain("Filled"), {})
             \/ Publish(t, Plain("PositionClosed"), {})
          /\ UNCHANGED <<intent, stream, timers, exchange, results>>
    BY DEF PositionFilled, PositionClosed
  <1>2. t \in tasks  BY HandlerTask DEF IInv
  <1> QED  BY <1>1, <1>2, PlainStep, SilentStep, NothingHarmless, Topical

\* The end of a watch removes a listener.
LEMMA WatchExpiresStep ==
    ASSUME IInv, NEW r \in Reqs, WatchExpires(r) PROVE IInv'
  <1>1. PipeStep(tasks \ {})
    BY AddStep, NothingHarmless DEF IInv, WatchExpires
  <1>2. StreamOK'  BY DEF IInv, StreamOK, WatchExpires
  <1> QED  BY <1>1, <1>2, Keep, SameTimers, SameBook DEF IInv, WatchExpires

\* CancelOrder up to the call of the exchange.
LEMMA CancelOrderStep ==
    ASSUME IInv, NEW r \in Reqs, CancelOrder(r) PROVE IInv'
  <1>1. Harmless({Task("CancelCall", r, "-", "close", 1)})
    BY WaitingTask DEF Callbacks, Data
  <1>2. PipeStep(tasks \ {})  BY <1>1, AddStep DEF IInv, CancelOrder
  <1>3. TimersOK'  BY StopTimer DEF IInv, CancelOrder
  <1>4. ExchangeCancel(r) \/ UNCHANGED ord  BY DEF CancelOrder
  <1>5. BookOK'  BY <1>4, CancelBook DEF IInv, CancelOrder
  <1> QED  BY <1>2, <1>3, <1>5, Keep, SameStream DEF IInv, CancelOrder

\* CancelOrder from the reply on.
LEMMA CancelOrderReplyStep ==
    ASSUME IInv, NEW r \in Reqs, CancelOrderReply(r) PROVE IInv'
  <1>1. PICK t \in At("CancelCall", r, "close") :
          /\ Publish(t, Plain("Canceled"), {})
          /\ UNCHANGED <<intent, stream, timers, exchange, results>>
    BY DEF CancelOrderReply
  <1>2. t \in tasks  BY HandlerTask DEF IInv
  <1> QED  BY <1>1, <1>2, PlainStep, Topical

\* CancelOpenOrders touches live orders and timers only.
LEMMA CancelOpenOrdersStep ==
    ASSUME IInv, CancelOpenOrders PROVE IInv'
  <1>1. PipeStep(tasks \ {})
    BY AddStep, NothingHarmless DEF IInv, CancelOpenOrders
  <1>2. TimersOK'  BY DEF IInv, TimersOK, CancelOpenOrders
  <1>3. BookOK'  BY DEF IInv, BookOK, CancelOpenOrders
  <1> QED  BY <1>1, <1>2, <1>3, Keep, SameStream DEF IInv, CancelOpenOrders

\* The trailing stop starts a bailout of its own.
LEMMA PnLDropStep ==
    ASSUME IInv, NEW r \in Reqs, PnLDrop(r) PROVE IInv'
  <1> DEFINE t == Task("Trail", r, "hold", "close", 1)
  <1>1. Harmless({t})  BY WaitingTask DEF Callbacks, Data
  <1>2. TaskOK(t)  BY <1>1 DEF Harmless
  <1>3. MarketClose(t, {t})  BY DEF PnLDrop
  <1> HIDE DEF t
  <1> QED  BY <1>1, <1>2, <1>3, MarketCloseStep DEF PnLDrop

-----------------------------------------------------------------------------
(* The exchange *)

\* A step of the exchange that pushes the position to its watchers.
LEMMA PushesAdded ==
    ASSUME IInv, NEW d \in {"open", "closed", "empty"},
           \E m \in Deliveries(d) : tasks' = tasks \cup m,
           BookOK', UNCHANGED <<intent, state, log, stream, timers, submits, results>>
    PROVE  IInv'
  <1>1. PICK m \in Deliveries(d) : tasks' = tasks \cup m  OBVIOUS
  <1>2. Harmless(m)  BY PushesHarmless DEF IInv
  <1>3. PipeStep(tasks \ {})  BY <1>1, <1>2, AddStep DEF IInv
  <1> QED  BY <1>3, Keep, SameTimers, SameStream DEF IInv

\* A live order is not dealt in full yet.
LEMMA FillStep ==
    ASSUME IInv, NEW r \in Reqs, Fill(r) PROVE IInv'
  <1> USE DEF IInv
  <1>1. deal[r] \in 0..1  BY DEF BookOK, Fill, Lots
  <1>2. deal' \in [Reqs -> 0..Lots] /\ deal'[r] = deal[r] + 1
        /\ \A q \in Reqs \ {r} : deal'[q] = deal[q]
    BY <1>1 DEF BookOK, Fill, Lots
  <1>3. ord' \in [Reqs -> {"none", "live", "filled", "canceled"}]
        /\ (ord'[r] = "live" => deal[r] + 1 # Lots)
        /\ \A q \in Reqs \ {r} : ord'[q] = ord[q]
    BY DEF BookOK, Fill
  <1>4. position' \in Nat
    BY Sides DEF BookOK, Fill
  <1>5. submits' = submits /\ submits[r] # 0  BY DEF BookOK, Fill
  <1>6. BookOK'
    <2>1. \A q \in Reqs : submits'[q] = 0 => ord'[q] = "none" /\ deal'[q] = 0
      BY <1>2, <1>3, <1>5 DEF BookOK
    <2>2. \A q \in Reqs : ord'[q] = "live" => deal'[q] < Lots
      BY <1>1, <1>2, <1>3 DEF BookOK, Lots
    <2>3. submits' \in [Reqs -> Nat]  BY <1>5 DEF BookOK
    <2> QED  BY <1>2, <1>3, <1>4, <2>1, <2>2, <2>3 DEF BookOK
  <1>7. PushOf(position') \in {"open", "closed", "empty"}  BY DEF PushOf
  <1> QED  BY <1>6, <1>7, PushesAdded DEF Fill

\* The exchange drops an order.
LEMMA ExchangeCancelsStep ==
    ASSUME IInv, NEW r \in Reqs, ExchangeCancels(r) PROVE IInv'
  <1>1. PipeStep(tasks \ {})
    BY AddStep, NothingHarmless DEF IInv, ExchangeCancels
  <1>2. BookOK'  BY CancelBook DEF IInv, ExchangeCancels
  <1> QED  BY <1>1, <1>2, Keep, SameTimers, SameStream DEF IInv, ExchangeCancels

\* The position is closed from outside.
LEMMA ExchangeClosesStep == ASSUME IInv, ExchangeCloses PROVE IInv'
  <1>1. BookOK'  BY PositionBook DEF IInv, ExchangeCloses
  <1> QED  BY <1>1, PushesAdded DEF ExchangeCloses

\* The stream repeats itself.
LEMMA SnapshotStep == ASSUME IInv, Snapshot PROVE IInv'
  <1>1. BookOK' /\ UNCHANGED submits  BY SameBook DEF IInv, Snapshot
  <1>2. PICK d \in {"open", "closed", "empty"} : \E m \in Deliveries(d) : tasks' = tasks \cup m
    BY DEF Snapshot
  <1> QED  BY <1>1, <1>2, PushesAdded DEF Snapshot

\* Nothing happens.
LEMMA StutterStep == ASSUME IInv, UNCHANGED vars PROVE IInv'
  <1>1. PipeStep(tasks \ {})  BY AddStep, NothingHarmless DEF IInv, vars
  <1> QED  BY <1>1, KeepPipe DEF vars

-----------------------------------------------------------------------------
(* The theorems *)

\* The initial states satisfy the invariant.
LEMMA Initial == Init => IInv
  <1> SUFFICES ASSUME Init PROVE IInv
    OBVIOUS
  <1>1. IntentOK /\ TimersOK /\ StreamOK /\ ResultsOK
    BY DEF Init, IntentOK, TimersOK, StreamOK, ResultsOK
  <1>2. PipeOK
    <2>1. "INIT" \in States  BY DEF States, Rank
    <2> QED  BY <2>1 DEF Init, PipeOK
  <1>3. BookOK  BY DEF Init, BookOK, Lots
  <1>4. OnceOK  BY DEF Init, OnceOK, Single, Starts
  <1> QED  BY <1>1, <1>2, <1>3, <1>4 DEF IInv

\* One step per action of the pipeline, the environment and the exchange.
LEMMA Inductive == IInv /\ [Next]_vars => IInv'
  <1> SUFFICES ASSUME IInv, [Next]_vars PROVE IInv'
    OBVIOUS
  <1>1. ASSUME NEW r \in Reqs, Pipeline(r) PROVE IInv'
    BY <1>1, PreFlightStep, PositionWatchStep, FireTimingStep, ExecuteStep, SubmitReplyStep,
       TPSLStep, ScheduleStep, OutcomeWatcherStep, PollStep, ResolveStep, CancelTimerStep,
       CancelRestingStep, CloseTimerStep, WaitDeadlineStep, NoPositionStep, BailoutStep,
       BailoutAttemptStep, BailoutFailsStep, EnrichStep, PositionClosedDoneStep,
       CompleteStep, SaveStep, PushStep, CancelOrderReplyStep
       DEF Pipeline
  <1>2. ASSUME NEW r \in Reqs, Environment(r) PROVE IInv'
    BY <1>2, DispatchStep, CancelOrderStep, PnLDropStep, WatchExpiresStep, FillStep,
       ExchangeCancelsStep DEF Environment
  <1>3. CASE CancelOpenOrders \/ ExchangeCloses \/ Snapshot
    BY <1>3, CancelOpenOrdersStep, ExchangeClosesStep, SnapshotStep
  <1>4. CASE UNCHANGED vars  BY <1>4, StutterStep
  <1> QED  BY <1>1, <1>2, <1>3, <1>4 DEF Next

\* In every behaviour of the order manager the pipeline is well-formed and each of
\* HandleExecuteOrder, HandleCompleteOrder and HandleSaveTrade runs at most once
\* for a request, its message being gone for good when it has run.
THEOREM Invariant == Spec => []IInv
  BY Initial, Inductive, PTL DEF Spec

\* Every variable keeps its type, whatever the exchange answers: in particular a
\* saved row holds one of the outcomes of ClassifyOrderOutcome or of a completion.
THEOREM TypeCorrect == Spec => []TypeOK
  <1>1. IInv => TypeOK
    <2> SUFFICES ASSUME IInv PROVE TypeOK
      OBVIOUS
    <2>1. tasks \subseteq TaskType  BY DEF IInv, PipeOK, TaskOK
    <2> QED  BY <2>1 DEF IInv, IntentOK, PipeOK, EventType, TimersOK, StreamOK, BookOK, ResultsOK, TypeOK
  <1> QED  BY <1>1, Invariant, PTL

\* However often a strategy dispatches an intent and whatever fails on the way,
\* HandleExecuteOrder calls CreateOrder at most once for it: the deduplicator of the
\* bus drops the second fire_window_reached.
THEOREM SubmittedOnce == Spec => []AtMostOneSubmission
  <1>1. IInv => AtMostOneSubmission
    BY DEF IInv, OnceOK, Single, AtMostOneSubmission
  <1> QED  BY <1>1, Invariant, PTL

\* Whichever of the outcome watcher, the timers, the position stream and the bailout
\* complete an order, HandleCompleteOrder and the trade recorder run at most once.
THEOREM CompletedOnlyOnce == Spec => []CompletedOnce
  <1>1. IInv => CompletedOnce
    BY DEF IInv, OnceOK, Single, CompletedOnce
  <1> QED  BY <1>1, Invariant, PTL
=============================================================================
