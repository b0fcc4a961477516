------------------------ MODULE InfrastructureProofs ------------------------
(***************************************************************************)
(* Proofs about the pool of WebSocket clients, the clock and the combat    *)
(* mode, for every value of their constants.                               *)
(***************************************************************************)
EXTENDS Infrastructure, FiniteSetTheorems, TLAPS

-----------------------------------------------------------------------------
(* The least of a set of naturals                                          *)

\* Induction, as a fact about sets: counting to a number outside of A would map
\* the members of A below it one to one to others than zero.
LEMMA SetInduction ==
  ASSUME NEW A \in SUBSET Nat, 0 \in A, \A k \in A : k + 1 \in A
  PROVE  A = Nat
<1> SUFFICES ASSUME NEW n \in Nat, n \notin A PROVE FALSE
  OBVIOUS
<1> DEFINE B    == A \cap (0 .. n)
           Next1 == [k \in B |-> k + 1]
<1>1. IsFiniteSet(B)
  <2>1. IsFiniteSet(0 .. n)
    BY FS_Interval
  <2> QED BY <2>1, FS_Subset
<1>2. Next1 \in Injection(B, B)
  <2>1. \A k \in B : k + 1 \in B
    <3> TAKE k \in B
    <3>1. k \in Nat /\ k <= n /\ k # n /\ k + 1 \in A
      OBVIOUS
    <3>2. k + 1 \in 0 .. n
      BY <3>1
    <3> QED BY <3>1, <3>2
  <2>2. Next1 \in [B -> B]
    BY <2>1
  <2>3. \A j, k \in B : Next1[j] = Next1[k] => j = k
    OBVIOUS
  <2> QED BY <2>2, <2>3 DEF Injection, IsInjective
<1>3. Next1 \in Surjection(B, B)
  <2> HIDE DEF B, Next1
  <2> QED BY <1>1, <1>2, FS_Injection
<1>4. 0 \in B
  OBVIOUS
<1>5. PICK k \in B : Next1[k] = 0
  <2> HIDE DEF B, Next1
  <2> QED BY <1>3, <1>4 DEF Surjection
<1> QED BY <1>5

LEMMA MinIsIn ==
  ASSUME NEW S \in SUBSET Nat, S # {}
  PROVE  Min(S) \in S
<1> SUFFICES ASSUME \A x \in S : \E y \in S : ~ (x <= y) PROVE FALSE
  BY DEF Min
<1> DEFINE Below == {k \in Nat : \A j \in 0 .. k : j \notin S}
<1>1. 0 \in Below
  BY SMT
<1>2. ASSUME NEW k \in Below PROVE k + 1 \in Below
  <2>1. k + 1 \notin S
    <3> SUFFICES ASSUME k + 1 \in S PROVE FALSE
      OBVIOUS
    <3>1. PICK y \in S : ~ (k + 1 <= y)
      OBVIOUS
    <3>2. y \in 0 .. k
      BY <3>1
    <3> QED BY <3>2
  <2> QED BY <2>1
<1>3. Below = Nat
  <2> HIDE DEF Below
  <2> Below \subseteq Nat
    BY DEF Below
  <2> QED BY <1>1, <1>2, SetInduction
<1>4. \A x \in S : x \in 0 .. x
  OBVIOUS
<1> QED BY <1>3, <1>4

-----------------------------------------------------------------------------
(* The pool: who follows what, and where a topic is                        *)

\* A flow joins, and a call is about, a stream its caller follows.
JoinedOK ==
  /\ \A t \in Streams : \A f \in subscribers[t] : t \in Follows[f]
  /\ \A f \in Callers : call[f].op # "idle" => call[f].topic \in Follows[f]

\* Topics are routed to clients that were made; one not made has no connection.
RoutesOK ==
  /\ \A t \in Streams : routing[t] # 0 => routing[t] \in Pooled
  /\ \A c \in Slots \ Pooled : phase[c] = "none"
  /\ \A f \in Callers : call[f].op = "spawned" => call[f].slot \in Pooled

\* Who has yet to tell the exchange that it unsubscribed has given up the route.
UnsentOK ==
  \A f \in Callers : call[f].op = "unsend" /\ Private(call[f].topic)
                       => routing[call[f].topic] = 0

\* The call that is about to subscribe t over the connection of client c.
Sending(c, t) ==
  \E f \in Callers : call[f].op = "routed" /\ call[f].topic = t /\ call[f].slot = c

\* A topic of a live connection is streamed, or is about to be asked for by the
\* replay or by the call that routed it.
StreamedOK ==
  /\ \A c \in wire : Connected(c) =>
       \A t \in Routed(c) : Private(t) => t \in server[c] \cup todo[c] \/ Sending(c, t)
  /\ \A c \in Slots : phase[c] = "up" => todo[c] = {}

PoolInv == TypeOK /\ JoinedOK /\ RoutesOK /\ UnsentOK /\ StreamedOK

-----------------------------------------------------------------------------
(* The pool: types                                                         *)

LEMMA RoomOrNew ==
  ASSUME HasClient PROVE /\ Available \in Slots
                         /\ Available \in Pooled => Available \in Room
<1>1. Room \subseteq Nat /\ Slots \ Pooled \subseteq Nat /\ Room \subseteq Slots
  BY DEF Room, Slots, Pooled
<1>2. CASE Room # {}
  BY <1>1, <1>2, MinIsIn DEF Available
<1>3. CASE Room = {}
  <2>1. Slots \ Pooled # {}
    BY <1>3 DEF HasClient, Pooled
  <2> QED BY <1>1, <1>3, <2>1, MinIsIn DEF Available
<1> QED BY <1>2, <1>3

LEMMA InitType == ASSUME PoolAssumption, Init PROVE TypeOK
<1>1. Idle \in Calls /\ Cardinality(Streams) \in Nat
  BY FS_CardinalityType DEF Idle, Calls, PoolAssumption
<1> QED BY <1>1 DEF Init, TypeOK, PoolAssumption

\* What a call may be.
LEMMA CallsAre ==
  ASSUME TypeOK, NEW f \in Callers
  PROVE  /\ call[f].op = "idle" <=> call[f] = Idle
         /\ call[f].op # "idle" => /\ call[f].topic \in Streams /\ call[f].fresh \in BOOLEAN
                                   /\ call[f] = [op |-> call[f].op, topic |-> call[f].topic,
                                                 slot |-> call[f].slot, fresh |-> call[f].fresh]
         /\ call[f].op \in {"routed", "spawned", "waiting", "unsend"} => call[f].slot \in Slots
         /\ call[f].op \in {"route", "failed", "unroute"} => call[f].slot \in Slots \cup {0}
  BY DEF TypeOK, Calls, Idle

LEMMA CallsMade ==
  ASSUME NEW t \in Streams, NEW c \in Slots, NEW b \in BOOLEAN
  PROVE  /\ \A o \in {"routed", "spawned", "waiting", "unsend", "route", "failed", "unroute"} :
              [op |-> o, topic |-> t, slot |-> c, fresh |-> b] \in Calls
         /\ \A o \in {"route", "failed", "unroute"} :
              [op |-> o, topic |-> t, slot |-> 0, fresh |-> b] \in Calls
         /\ \A o \in {"route", "unroute"} : Call(o, t) \in Calls
         /\ Idle \in Calls
  BY DEF Calls, Call, Idle

LEMMA ManagerKeepsType ==
  ASSUME PoolAssumption, TypeOK, NEW f \in Callers, NEW t \in Streams,
         Subscribe(f, t) \/ Unsubscribe(f, t) \/ SubscribeFails(f)
  PROVE  TypeOK'
<1>1. UNCHANGED <<routing, count, phase, todo, owner, ready, wire, server, losses, canceled>>
  BY DEF Subscribe, Unsubscribe, SubscribeFails, pool, clients, network
<1>2. /\ subscribers' \in [Streams -> SUBSET Callers]
      /\ calls' \in [Callers -> 0 .. MaxCalls]
  BY DEF Subscribe, Unsubscribe, SubscribeFails, TypeOK, PoolAssumption
<1>3. call' \in [Callers -> Calls]
  <2>1. Call("route", t) \in Calls /\ Call("unroute", t) \in Calls /\ Idle \in Calls
    BY DEF Calls, Call, Idle
  <2> QED BY <2>1 DEF Subscribe, Unsubscribe, SubscribeFails, TypeOK
<1> QED BY <1>1, <1>2, <1>3 DEF TypeOK

LEMMA RouteKeepsType == ASSUME PoolAssumption, TypeOK, NEW f \in Callers, Route(f) PROVE TypeOK'
<1> DEFINE t == call[f].topic
           fresh == routing[t] = 0
           c == IF fresh THEN Available ELSE routing[t]
<1>1. t \in Streams /\ call[f].op = "route"
  BY CallsAre DEF Route
<1>2. c \in Slots
  BY <1>1, RoomOrNew DEF Route, TypeOK
<1>3. /\ routing' = [routing EXCEPT ![t] = c]
      /\ count' = IF fresh THEN [count EXCEPT ![c] = @ + 1] ELSE count
      /\ owner' = IF c \notin Pooled THEN [owner EXCEPT ![c] = f] ELSE owner
      /\ \E o \in {"spawned", "routed"} :
           call' = [call EXCEPT ![f] = [op |-> o, topic |-> t, slot |-> c, fresh |-> fresh]]
      /\ UNCHANGED <<subscribers, phase, todo, ready, wire, server, losses, calls, canceled>>
  BY DEF Route, manager, network
<1> HIDE DEF c, t, fresh
<1>4. /\ routing' \in [Streams -> Slots \cup {0}] /\ count' \in [Slots -> Int]
      /\ owner' \in [Slots -> Callers \cup {"none"}]
  BY <1>1, <1>2, <1>3 DEF TypeOK
<1>5. call' \in [Callers -> Calls]
  <2>1. fresh \in BOOLEAN
    BY DEF fresh
  <2>2. PICK o \in {"spawned", "routed"} :
          call' = [call EXCEPT ![f] = [op |-> o, topic |-> t, slot |-> c, fresh |-> fresh]]
    BY <1>3
  <2>3. [op |-> o, topic |-> t, slot |-> c, fresh |-> fresh] \in Calls
    BY <1>1, <1>2, <2>1, CallsMade
  <2> QED BY <2>2, <2>3 DEF TypeOK
<1> QED BY <1>3, <1>4, <1>5 DEF TypeOK

\* The other steps of a call.
LEMMA CallerKeepsType ==
  ASSUME PoolAssumption, TypeOK, NEW f \in Callers,
         \/ GiveUp(f) \/ Spawn(f) \/ WaitReady(f) \/ SendSubscribe(f)
         \/ Unroute(f) \/ SendUnsubscribe(f)
  PROVE  TypeOK'
<1> USE DEF manager, pool, clients, network
<1>1. UNCHANGED <<subscribers, todo, owner, ready, wire, losses, calls, canceled>>
  BY DEF GiveUp, Spawn, WaitReady, SendSubscribe, Unroute, SendUnsubscribe
<1>2. /\ routing' \in [Streams -> Slots \cup {0}] /\ count' \in [Slots -> Int]
  <2>1. CASE GiveUp(f)
    <3>1. call[f].slot \in Slots /\ call[f].topic \in Streams
      BY <2>1, CallsAre DEF GiveUp
    <3> QED BY <2>1, <3>1 DEF GiveUp, TypeOK
  <2>2. CASE Unroute(f)
    BY <2>2 DEF Unroute, TypeOK
  <2>3. CASE ~ GiveUp(f) /\ ~ Unroute(f)
    BY <2>3 DEF Spawn, WaitReady, SendSubscribe, SendUnsubscribe, TypeOK
  <2> QED BY <2>1, <2>2, <2>3
<1>3. phase' \in [Slots -> {"none", "dialing", "replay", "up", "down", "stopped"}]
  BY DEF GiveUp, Spawn, WaitReady, SendSubscribe, Unroute, SendUnsubscribe, TypeOK
<1>4. server' \in [Slots -> SUBSET Streams]
  <2>1. CASE SendSubscribe(f) \/ SendUnsubscribe(f)
    <3>1. call[f].topic \in Streams
      BY <2>1, CallsAre DEF SendSubscribe, SendUnsubscribe
    <3> QED BY <2>1, <3>1 DEF SendSubscribe, SendUnsubscribe, Streamed, Silenced, TypeOK
  <2>2. CASE ~ (SendSubscribe(f) \/ SendUnsubscribe(f))
    BY <2>2 DEF GiveUp, Spawn, WaitReady, Unroute, TypeOK
  <2> QED BY <2>1, <2>2
<1>5. call' \in [Callers -> Calls]
  <2>1. CASE call' = [call EXCEPT ![f] = Idle]
    BY <2>1, Zenon DEF TypeOK, Calls
  <2>2. CASE \E o \in {"failed", "waiting"} :
               /\ call' = [call EXCEPT ![f] = On(f, o, call[f].slot)]
               /\ call[f].op \in {"routed", "spawned", "waiting"}
    <3>1. PICK o \in {"failed", "waiting"} : call' = [call EXCEPT ![f] = On(f, o, call[f].slot)]
      BY <2>2
    <3>2. On(f, o, call[f].slot) \in Calls
      BY <2>2, CallsAre, CallsMade DEF On
    <3> QED BY <3>1, <3>2 DEF TypeOK
  <2>3. CASE /\ call' = [call EXCEPT ![f] = On(f, "unsend", routing[call[f].topic])]
             /\ routing[call[f].topic] # 0 /\ call[f].op = "unroute"
    <3>1. call[f].topic \in Streams /\ routing[call[f].topic] \in Slots
      BY <2>3, CallsAre DEF TypeOK
    <3>2. On(f, "unsend", routing[call[f].topic]) \in Calls
      BY <2>3, <3>1, CallsAre, CallsMade DEF On
    <3> QED BY <2>3, <3>2 DEF TypeOK
  <2> QED BY <2>1, <2>2, <2>3 DEF GiveUp, Spawn, WaitReady, SendSubscribe, Unroute, SendUnsubscribe
<1> QED BY <1>1, <1>2, <1>3, <1>4, <1>5 DEF TypeOK

LEMMA ClientKeepsType ==
  ASSUME PoolAssumption, TypeOK, NEW c \in Slots, Client(c) \/ Lose(c) PROVE TypeOK'
<1> USE DEF manager, pool, clients, network, TypeOK, PoolAssumption
<1>1. CASE Dial(c)
  BY <1>1 DEF Dial, Routed
<1>2. CASE Replay(c)
  BY <1>2 DEF Replay, Streamed
<1>3. CASE MarkReady(c) \/ Disconnected(c) \/ Reconnect(c)
  BY <1>3 DEF MarkReady, Disconnected, Reconnect
<1>4. CASE Lose(c)
  BY <1>4 DEF Lose
<1> QED BY <1>1, <1>2, <1>3, <1>4 DEF Client

LEMMA StepKeepsPoolType == ASSUME PoolAssumption, TypeOK, [Next]_vars PROVE TypeOK'
<1>1. ASSUME NEW f \in Callers, Caller(f) PROVE TypeOK'
  <2>1. CASE SubscribeFails(f)
    <3>1. call[f].topic \in Streams
      BY <2>1, CallsAre DEF SubscribeFails
    <3> QED BY <2>1, <3>1, ManagerKeepsType
  <2> QED BY <1>1, <2>1, RouteKeepsType, CallerKeepsType DEF Caller
<1>2. ASSUME NEW f \in Callers, Cancel(f) PROVE TypeOK'
  BY <1>2 DEF Cancel, manager, pool, clients, network, TypeOK, PoolAssumption
<1>3. CASE UNCHANGED vars
  BY <1>3 DEF vars, TypeOK
<1> QED BY <1>1, <1>2, <1>3, ManagerKeepsType, ClientKeepsType DEF Next

-----------------------------------------------------------------------------
(* The pool: what the steps do to calls and routes                         *)

\* A step of a caller, other than the beginning of a call.
LEMMA CallGoesOn ==
  ASSUME TypeOK, NEW f \in Callers, Caller(f)
  PROVE  /\ \A g \in Callers \ {f} : call'[g] = call[g]
         /\ call'[f].op # "idle" => call'[f].topic = call[f].topic /\ call[f].op # "idle"
         /\ call[f].op # "idle" /\ call[f].topic \in Streams
         /\ call'[f].op = "unsend" => Unroute(f) /\ call'[f].slot = routing[call[f].topic]
         /\ call'[f].op = "routed" => Route(f)
         /\ call'[f].op = "spawned" => Route(f)
<1>1. CASE Route(f)
  BY <1>1, CallsAre DEF Route, TypeOK
<1>2. CASE SubscribeFails(f)
  BY <1>2, CallsAre DEF SubscribeFails, Idle, TypeOK
<1>3. CASE GiveUp(f) \/ Spawn(f) \/ WaitReady(f)
  BY <1>3, CallsAre DEF GiveUp, Spawn, WaitReady, On, Idle, TypeOK
<1>4. CASE SendSubscribe(f)
  BY <1>4, CallsAre DEF SendSubscribe, On, Idle, TypeOK
<1>5. CASE Unroute(f)
  BY <1>5, CallsAre DEF Unroute, On, Idle, TypeOK
<1>6. CASE SendUnsubscribe(f)
  BY <1>6, CallsAre DEF SendUnsubscribe, Idle, TypeOK
<1> QED BY <1>1, <1>2, <1>3, <1>4, <1>5, <1>6 DEF Caller

\* The beginning of a call.
LEMMA CallBegins ==
  ASSUME TypeOK, NEW f \in Callers, NEW t \in Streams, Subscribe(f, t) \/ Unsubscribe(f, t)
  PROVE  /\ \A g \in Callers \ {f} : call'[g] = call[g]
         /\ call[f].op = "idle"
         /\ \/ call'[f] = call[f]
            \/ call'[f].op \in {"route", "unroute"} /\ call'[f].topic = t
         /\ Subscribe(f, t) => t \in Follows[f]
         /\ Unsubscribe(f, t) => f \in subscribers[t]
         /\ UNCHANGED <<routing, count, phase, todo, owner, ready, wire, server>>
<1>1. call[f].op = "idle" <=> call[f] = Idle
  BY CallsAre
<1>2. CASE Subscribe(f, t)
  <2>1. /\ call[f] = Idle /\ t \in Follows[f]
        /\ call' = call \/ call' = [call EXCEPT ![f] = Call("route", t)]
        /\ UNCHANGED <<routing, count, phase, todo, owner, ready, wire, server>>
    BY <1>2 DEF Subscribe, pool, clients, network
  <2> QED BY <1>1, <1>2, <2>1 DEF Call, TypeOK, Subscribe, Unsubscribe
<1>3. CASE Unsubscribe(f, t)
  <2>1. /\ call[f] = Idle /\ f \in subscribers[t]
        /\ call' = call \/ call' = [call EXCEPT ![f] = Call("unroute", t)]
        /\ UNCHANGED <<routing, count, phase, todo, owner, ready, wire, server>>
    BY <1>3 DEF Unsubscribe, pool, clients, network
  <2> QED BY <1>1, <1>3, <2>1 DEF Call, TypeOK, Subscribe, Unsubscribe
<1> QED BY <1>2, <1>3

\* The steps that change a route.
LEMMA RoutesMove ==
  ASSUME TypeOK, NEW f \in Callers, Caller(f)
  PROVE  LET t == call[f].topic
         IN  /\ \A u \in Streams \ {t} : routing'[u] = routing[u]
             /\ routing'[t] # routing[t] => Route(f) \/ GiveUp(f) \/ Unroute(f)
             /\ GiveUp(f) => routing'[t] = 0
             /\ Unroute(f) => routing'[t] = 0
             /\ \A c \in Slots : owner'[c] = owner[c] \/ (owner'[c] = f /\ Route(f))
             /\ \A c \in Slots : phase'[c] = phase[c] \/ (Spawn(f) /\ c = call[f].slot
                                                            /\ phase'[c] = "dialing")
             /\ UNCHANGED <<todo, wire, losses>>
<1> DEFINE t == call[f].topic
<1> USE DEF manager, pool, clients, network
<1>1. t \in Streams
  BY CallGoesOn
<1>2. GiveUp(f) \/ Unroute(f) => routing'[t] = 0 /\ routing' = [routing EXCEPT ![t] = 0]
  BY <1>1 DEF GiveUp, Unroute, TypeOK
<1>3. CASE Route(f)
  <2>1. PICK c, d \in Slots \cup {0, Available} :
          /\ routing' = [routing EXCEPT ![t] = c]
          /\ owner' = owner \/ owner' = [owner EXCEPT ![d] = f]
          /\ UNCHANGED <<phase, todo, wire, losses>>
    BY <1>1, <1>3 DEF Route, TypeOK
  <2>2. ~ GiveUp(f) /\ ~ Unroute(f)
    BY <1>3 DEF Route, GiveUp, Unroute
  <2> QED BY <1>1, <1>3, <2>1, <2>2 DEF TypeOK
<1>4. CASE SubscribeFails(f) \/ WaitReady(f) \/ SendSubscribe(f) \/ SendUnsubscribe(f)
  BY <1>2, <1>4 DEF SubscribeFails, WaitReady, SendSubscribe, SendUnsubscribe
<1>5. CASE GiveUp(f) \/ Unroute(f)
  BY <1>1, <1>2, <1>5 DEF GiveUp, Unroute, TypeOK
<1>6. CASE Spawn(f)
  BY <1>1, <1>2, <1>6 DEF Spawn, TypeOK
<1> QED BY <1>3, <1>4, <1>5, <1>6 DEF Caller

LEMMA StepKeepsJoined == ASSUME TypeOK, JoinedOK, [Next]_vars PROVE JoinedOK'
<1> USE DEF JoinedOK
<1>1. ASSUME NEW f \in Callers, Caller(f) PROVE JoinedOK'
  <2>1. \A t \in Streams : subscribers'[t] \subseteq subscribers[t]
    BY <1>1 DEF Caller, SubscribeFails, Route, GiveUp, Spawn, WaitReady, SendSubscribe, Unroute,
                SendUnsubscribe, manager, TypeOK
  <2> QED BY <1>1, <2>1, CallGoesOn
<1>2. ASSUME NEW f \in Callers, NEW t \in Streams, Subscribe(f, t) \/ Unsubscribe(f, t)
      PROVE  JoinedOK'
  <2>1. \A u \in Streams : subscribers'[u] \subseteq subscribers[u]
                             \/ (u = t /\ subscribers'[u] = subscribers[u] \cup {f}
                                 /\ Subscribe(f, t))
    BY <1>2 DEF Subscribe, Unsubscribe, TypeOK
  <2> QED BY <1>2, <2>1, CallBegins
<1>4. CASE UNCHANGED vars
  BY <1>4 DEF vars
<1>5. ASSUME NEW f \in Callers, Cancel(f) PROVE JoinedOK'
  BY <1>5 DEF Cancel, manager
<1>6. ASSUME NEW c \in Slots, Client(c) \/ Lose(c) PROVE JoinedOK'
  BY <1>6 DEF Client, Dial, Replay, MarkReady, Disconnected, Reconnect, Lose, manager
<1> QED BY <1>1, <1>2, <1>4, <1>5, <1>6 DEF Next

LEMMA StepKeepsRoutes ==
  ASSUME PoolAssumption, TypeOK, RoutesOK, [Next]_vars PROVE RoutesOK'
<1> USE DEF RoutesOK
<1>1. ASSUME NEW f \in Callers, Caller(f) PROVE RoutesOK'
  <2>1. Pooled \subseteq Pooled'
    BY <1>1, RoutesMove DEF Pooled, PoolAssumption
  <2>2. Route(f) => call'[f].slot = routing'[call[f].topic] /\ call'[f].slot \in Pooled'
    <3> SUFFICES ASSUME Route(f)
                 PROVE  call'[f].slot = routing'[call[f].topic] /\ call'[f].slot \in Pooled'
      OBVIOUS
    <3> DEFINE c == IF routing[call[f].topic] = 0 THEN Available ELSE routing[call[f].topic]
    <3>1. call[f].topic \in Streams
      BY CallsAre DEF Route
    <3>2. c \in Slots
      BY <3>1, RoomOrNew DEF Route, TypeOK
    <3>3. /\ routing' = [routing EXCEPT ![call[f].topic] = c]
          /\ owner' = IF c \notin Pooled THEN [owner EXCEPT ![c] = f] ELSE owner
          /\ call'[f].slot = c
      BY DEF Route, TypeOK
    <3>4. f # "none"
      BY DEF PoolAssumption
    <3> HIDE DEF c
    <3> QED BY <3>1, <3>2, <3>3, <3>4 DEF TypeOK, Pooled
  <2>3. \A t \in Streams : routing'[t] # 0 => routing'[t] \in Pooled'
    BY <1>1, <2>1, <2>2, RoutesMove
  <2>4. \A c \in Slots \ Pooled' : phase'[c] = "none"
    BY <1>1, <2>1, RoutesMove DEF Spawn
  <2>5. \A g \in Callers : call'[g].op = "spawned" => call'[g].slot \in Pooled'
    BY <1>1, <2>1, <2>2, CallGoesOn
  <2> QED BY <2>3, <2>4, <2>5
<1>2. ASSUME NEW f \in Callers, NEW t \in Streams, Subscribe(f, t) \/ Unsubscribe(f, t)
      PROVE  RoutesOK'
  BY <1>2, CallBegins DEF Pooled
<1>3. ASSUME NEW c \in Slots, Client(c) \/ Lose(c) PROVE RoutesOK'
  <2>1. UNCHANGED <<call, routing, owner>>
    BY <1>3 DEF Client, Dial, Replay, MarkReady, Disconnected, Reconnect, Lose, pool, clients
  <2>2. \A d \in Slots : phase'[d] = phase[d] \/ phase[d] # "none"
    BY <1>3 DEF Client, Dial, Replay, MarkReady, Disconnected, Reconnect, Lose, clients, TypeOK
  <2> QED BY <2>1, <2>2 DEF Pooled
<1>4. ASSUME (\E f \in Callers : Cancel(f)) \/ UNCHANGED vars PROVE RoutesOK'
  BY <1>4 DEF Cancel, vars, pool, clients, Pooled
<1> QED BY <1>1, <1>2, <1>3, <1>4 DEF Next

-----------------------------------------------------------------------------
(* The pool: what the exchange streams                                     *)

LEMMA PrivateIsOne ==
  ASSUME PoolAssumption, NEW t, Private(t),
         NEW f \in Callers, t \in Follows[f], NEW g \in Callers, t \in Follows[g]
  PROVE  f = g
<1> DEFINE S == {h \in Callers : t \in Follows[h]}
<1>1. IsFiniteSet(S)
  BY FS_Subset DEF PoolAssumption
<1>2. PICK x : S = {x}
  <2> HIDE DEF S
  <2>1. Cardinality(S) = 1
    BY DEF Private, S
  <2> QED BY <1>1, <2>1, FS_Singleton
<1> QED BY <1>2

LEMMA StepKeepsUnsent ==
  ASSUME PoolAssumption, TypeOK, JoinedOK, UnsentOK, [Next]_vars PROVE UnsentOK'
<1> SUFFICES ASSUME NEW f \in Callers, call'[f].op = "unsend", Private(call'[f].topic)
             PROVE  routing'[call'[f].topic] = 0
  BY DEF UnsentOK, Private
<1>1. ASSUME NEW g \in Callers, Caller(g) PROVE routing'[call'[f].topic] = 0
  <2>1. CASE g = f
    BY <1>1, <2>1, CallGoesOn, RoutesMove
  <2>2. CASE g # f
    <3>1. call'[f] = call[f] /\ routing[call[f].topic] = 0
      BY <1>1, <2>2, CallGoesOn DEF UnsentOK
    <3>2. call[f].topic \in Streams
      BY <3>1, CallsAre
    <3>3. call[g].topic # call[f].topic
      BY <1>1, <2>2, <3>1, CallGoesOn, PrivateIsOne DEF JoinedOK
    <3> QED BY <1>1, <3>1, <3>2, <3>3, RoutesMove
  <2> QED BY <2>1, <2>2
<1>2. ASSUME NEW g \in Callers, NEW t \in Streams, Subscribe(g, t) \/ Unsubscribe(g, t)
      PROVE  routing'[call'[f].topic] = 0
  BY <1>2, CallBegins DEF UnsentOK
<1>3. ASSUME \/ \E c \in Slots : Client(c) \/ Lose(c)
             \/ (\E g \in Callers : Cancel(g)) \/ UNCHANGED vars
      PROVE  routing'[call'[f].topic] = 0
  <2>1. UNCHANGED <<call, routing>>
    BY <1>3 DEF Client, Dial, Replay, MarkReady, Disconnected, Reconnect, Lose, Cancel, vars, pool
  <2> QED BY <2>1 DEF UnsentOK
<1> QED BY <1>1, <1>2, <1>3 DEF Next

LEMMA CallerKeepsStreamed ==
  ASSUME PoolAssumption, PoolInv, NEW f \in Callers, Caller(f) PROVE StreamedOK'
<1> USE DEF PoolInv
<1>1. UNCHANGED <<wire, todo>> /\ \A c \in Slots : phase'[c] = phase[c] \/ phase'[c] = "dialing"
  BY RoutesMove
<1>2. ASSUME NEW c \in wire, Connected(c)', NEW t \in Streams, routing'[t] = c, Private(t)
      PROVE  t \in server'[c] \cup todo'[c] \/ Sending(c, t)'
  <2>1. c \in Slots /\ c # 0 /\ Connected(c) /\ phase[c] # "none"
    BY <1>1, <1>2 DEF TypeOK, Slots, Connected
  <2>2. CASE routing[t] # c
    <3>1. Route(f) /\ t = call[f].topic
      BY <1>2, <2>1, <2>2, RoutesMove
    <3>2. call'[f].topic = t /\ call'[f].slot = c
      <4>1. routing' = [routing EXCEPT ![t] = call'[f].slot]
        BY <3>1 DEF Route, TypeOK
      <4> QED BY <1>2, <3>1, <4>1 DEF TypeOK, Route
    <3>3. c \in Pooled
      BY <2>1 DEF RoutesOK
    <3>4. call'[f].op = "routed"
      BY <3>1, <3>2, <3>3 DEF Route, TypeOK
    <3> QED BY <3>2, <3>4 DEF Sending
  <2>3. CASE routing[t] = c
    <3>1. CASE t \in server[c]
      <4>1. CASE SendUnsubscribe(f)
        <5>1. t # call[f].topic
          BY <1>2, <2>1, <2>3, <4>1 DEF UnsentOK, SendUnsubscribe
        <5>2. server' = server \/ server' = Silenced(call[f].slot, call[f].topic)
          BY <4>1 DEF SendUnsubscribe
        <5>3. t \in Silenced(call[f].slot, call[f].topic)[c]
          BY <2>1, <3>1, <5>1 DEF Silenced, TypeOK
        <5> QED BY <3>1, <5>2, <5>3
      <4>2. CASE SendSubscribe(f)
        BY <2>1, <3>1, <4>2 DEF SendSubscribe, Streamed, TypeOK
      <4>3. CASE ~ SendUnsubscribe(f) /\ ~ SendSubscribe(f)
        BY <3>1, <4>3 DEF Caller, SubscribeFails, Route, GiveUp, Spawn, WaitReady, Unroute, network
      <4> QED BY <4>1, <4>2, <4>3
    <3>2. CASE t \in todo[c]
      BY <1>1, <3>2
    <3>3. ASSUME NEW g \in Callers, call[g].op = "routed", call[g].topic = t, call[g].slot = c
          PROVE  t \in server'[c] \cup todo'[c] \/ Sending(c, t)'
      <4>1. CASE g # f
        BY <3>3, <4>1, CallGoesOn DEF Sending
      <4>2. CASE g = f
        <5>1. ~ GiveUp(f)
          BY <1>2, <2>1, <3>3, <4>2, RoutesMove
        <5>2. SendSubscribe(f)
          BY <3>3, <4>2, <5>1 DEF Caller, SubscribeFails, Route, Spawn, WaitReady, Unroute,
                                  SendUnsubscribe
        <5>3. Reaches(c) /\ ~ WriteFails(c)
          BY <1>2, <2>1 DEF Reaches, WriteFails
        <5>4. server' = Streamed(c, t)
          BY <3>3, <4>2, <5>2, <5>3 DEF SendSubscribe
        <5> QED BY <2>1, <5>3, <5>4 DEF Streamed, TypeOK
      <4> QED BY <4>1, <4>2
    <3> QED BY <1>2, <2>1, <2>3, <3>1, <3>2, <3>3 DEF StreamedOK, Routed, Sending
  <2> QED BY <2>2, <2>3
<1>3. \A c \in Slots : phase'[c] = "up" => todo'[c] = {}
  BY <1>1 DEF StreamedOK
<1> QED BY <1>1, <1>2, <1>3 DEF StreamedOK, Routed, Private

LEMMA ClientKeepsStreamed ==
  ASSUME PoolAssumption, PoolInv, NEW d \in Slots, Client(d) \/ Lose(d) PROVE StreamedOK'
<1> USE DEF PoolInv
<1>1. UNCHANGED <<call, routing>>
  BY DEF Client, Dial, Replay, MarkReady, Disconnected, Reconnect, Lose, pool
<1>2. /\ \A c \in Slots \ {d} : /\ phase'[c] = phase[c] /\ todo'[c] = todo[c]
                                /\ server'[c] = server[c]
      /\ \A c \in Slots \ {d} : c \in wire' => c \in wire
  BY DEF Client, Dial, Replay, MarkReady, Disconnected, Reconnect, Lose, Streamed, clients, network,
         TypeOK
<1>3. ASSUME d \in wire', Connected(d)', NEW t \in Streams, routing[t] = d, Private(t)
      PROVE  t \in server'[d] \cup todo'[d] \/ Sending(d, t)
  <2>1. CASE Dial(d)
    BY <1>3, <2>1 DEF Dial, Routed, TypeOK
  <2>2. CASE Replay(d) \/ MarkReady(d)
    <3>1. d \in wire /\ Connected(d)
      BY <1>3, <2>2 DEF Replay, MarkReady, Connected, network
    <3>2. t \in server[d] \cup todo[d] \/ Sending(d, t)
      BY <1>3, <3>1 DEF StreamedOK, Routed
    <3>3. CASE Replay(d)
      <4>1. PICK u \in todo[d] : todo' = [todo EXCEPT ![d] = @ \ {u}] /\ server' = Streamed(d, u)
        BY <3>3 DEF Replay
      <4>2. server'[d] = server[d] \cup {u} /\ todo'[d] = todo[d] \ {u}
        BY <3>1, <4>1 DEF Streamed, Reaches, TypeOK
      <4> QED BY <3>2, <4>2
    <3>4. CASE MarkReady(d)
      BY <3>2, <3>4 DEF MarkReady, network
    <3> QED BY <2>2, <3>3, <3>4
  <2>3. CASE Disconnected(d) \/ Reconnect(d) \/ Lose(d)
    BY <1>3, <2>3 DEF Disconnected, Reconnect, Lose, Connected, TypeOK
  <2> QED BY <2>1, <2>2, <2>3 DEF Client
<1>4. phase'[d] = "up" => todo'[d] = {}
  BY DEF StreamedOK, Client, Dial, Replay, MarkReady, Disconnected, Reconnect, Lose, clients, TypeOK
<1>5. ASSUME NEW c \in wire', Connected(c)', NEW t \in Streams, routing'[t] = c, Private(t)
      PROVE  t \in server'[c] \cup todo'[c] \/ Sending(c, t)'
  <2>1. Sending(c, t) => Sending(c, t)'
    BY <1>1 DEF Sending
  <2>2. c \in Slots
    BY <1>5, ClientKeepsType DEF TypeOK
  <2>3. CASE c = d
    BY <1>1, <1>3, <1>5, <2>1, <2>3
  <2>4. CASE c # d
    <3>1. c \in wire /\ Connected(c)
      BY <1>2, <1>5, <2>2, <2>4 DEF Connected
    <3> QED BY <1>1, <1>2, <1>5, <2>1, <2>2, <2>4, <3>1 DEF StreamedOK, Routed
  <2> QED BY <2>3, <2>4
<1> QED BY <1>2, <1>4, <1>5 DEF StreamedOK, Routed, Private

LEMMA StepKeepsPool == ASSUME PoolAssumption, PoolInv, [Next]_vars PROVE PoolInv'
<1>1. TypeOK' /\ JoinedOK' /\ RoutesOK' /\ UnsentOK'
  BY StepKeepsPoolType, StepKeepsJoined, StepKeepsRoutes, StepKeepsUnsent DEF PoolInv
<1>2. ASSUME NEW f \in Callers, NEW t \in Streams, Subscribe(f, t) \/ Unsubscribe(f, t)
      PROVE  StreamedOK'
  <2>1. UNCHANGED <<routing, phase, todo, wire, server>>
    BY <1>2, CallBegins DEF PoolInv
  <2>2. \A c, u : Sending(c, u) => Sending(c, u)'
    BY <1>2, CallBegins DEF PoolInv, Sending
  <2> QED BY <2>1, <2>2 DEF PoolInv, StreamedOK, Routed, Connected, Private
<1>3. ASSUME (\E f \in Callers : Cancel(f)) \/ UNCHANGED vars PROVE StreamedOK'
  <2>1. UNCHANGED <<routing, phase, todo, wire, server, call>>
    BY <1>3 DEF Cancel, vars, pool, clients, network
  <2> QED BY <2>1 DEF PoolInv, StreamedOK, Routed, Connected, Private, Sending
<1> QED BY <1>1, <1>2, <1>3, CallerKeepsStreamed, ClientKeepsStreamed DEF Next, PoolInv

-----------------------------------------------------------------------------
(* The pool: counts                                                        *)

LEMMA RoutedIsFinite ==
  ASSUME PoolAssumption, NEW c
  PROVE  IsFiniteSet(Routed(c)) /\ Cardinality(Routed(c)) \in Nat
  BY FS_Subset, FS_CardinalityType DEF PoolAssumption, Routed

LEMMA RouteKeepsCapacity ==
  ASSUME PoolAssumption, PoolInv, CapacityKept, NEW f \in Callers, Route(f) PROVE CapacityKept'
<1> USE DEF PoolInv
<1> DEFINE t == call[f].topic
<1> SUFFICES ASSUME canceled = {}, NEW d \in Slots
             PROVE  count'[d] = Cardinality(Routed(d)') /\ count'[d] <= MaxPairs
  BY DEF CapacityKept, Route
<1>1. count[d] = Cardinality(Routed(d)) /\ count[d] <= MaxPairs /\ count[d] \in Nat
  BY RoutedIsFinite DEF CapacityKept
<1>2. t \in Streams
  BY CallsAre DEF Route
<1>3. CASE routing[t] # 0
  BY <1>1, <1>2, <1>3 DEF Route, Routed, TypeOK
<1>4. CASE routing[t] = 0
  <2>1. HasClient /\ Available \in Slots /\ (Available \in Pooled => Available \in Room)
    BY <1>4, RoomOrNew DEF Route
  <2>2. /\ routing' = [routing EXCEPT ![t] = Available]
        /\ count' = [count EXCEPT ![Available] = @ + 1]
    BY <1>4 DEF Route
  <2>3. CASE d = Available
    <3>1. Routed(d)' = Routed(d) \cup {t} /\ t \notin Routed(d)
      BY <1>2, <1>4, <2>1, <2>2, <2>3 DEF Routed, TypeOK, Slots
    <3>2. Cardinality(Routed(d)') = Cardinality(Routed(d)) + 1
      BY <3>1, RoutedIsFinite, FS_AddElement
    <3>3. count'[d] = count[d] + 1
      BY <2>2, <2>3 DEF TypeOK
    <3>4. count[d] < MaxPairs
      <4>1. CASE d \in Pooled
        BY <2>1, <2>3, <4>1 DEF Room
      <4>2. CASE d \notin Pooled
        <5>1. Routed(d) = {}
          BY <4>2 DEF RoutesOK, Routed, Slots
        <5>2. count[d] = 0
          BY <1>1, <5>1, FS_EmptySet
        <5> QED BY <5>2 DEF PoolAssumption
      <4> QED BY <4>1, <4>2
    <3> QED BY <1>1, <3>2, <3>3, <3>4 DEF PoolAssumption
  <2>4. CASE d # Available
    <3>1. Routed(d)' = Routed(d)
      BY <1>2, <1>4, <2>2, <2>4 DEF Routed, TypeOK, Slots
    <3>2. count'[d] = count[d]
      BY <2>1, <2>2, <2>4 DEF TypeOK
    <3> QED BY <1>1, <3>1, <3>2
  <2> QED BY <2>3, <2>4
<1> QED BY <1>3, <1>4

LEMMA UnrouteKeepsCapacity ==
  ASSUME PoolAssumption, PoolInv, CapacityKept, NEW f \in Callers, Unroute(f) PROVE CapacityKept'
<1> USE DEF PoolInv
<1> DEFINE t == call[f].topic
           c == routing[t]
<1> SUFFICES ASSUME canceled = {}, NEW d \in Slots
             PROVE  count'[d] = Cardinality(Routed(d)') /\ count'[d] <= MaxPairs
  BY DEF CapacityKept, Unroute
<1>1. count[d] = Cardinality(Routed(d)) /\ count[d] <= MaxPairs /\ count[d] \in Nat
  BY RoutedIsFinite DEF CapacityKept
<1>2. t \in Streams
  BY CallsAre DEF Unroute
<1>3. CASE c = 0
  BY <1>1, <1>3 DEF Unroute, Routed, pool
<1>4. CASE c # 0
  <2>1. routing' = [routing EXCEPT ![t] = 0] /\ count' = [count EXCEPT ![c] = @ - 1]
    BY <1>4 DEF Unroute
  <2>2. CASE d = c
    <3>1. Routed(d)' = Routed(d) \ {t} /\ t \in Routed(d)
      BY <1>2, <1>4, <2>1, <2>2 DEF Routed, TypeOK
    <3>2. Cardinality(Routed(d)') = Cardinality(Routed(d)) - 1
      BY <3>1, RoutedIsFinite, FS_RemoveElement
    <3>3. count'[d] = count[d] - 1
      BY <2>1, <2>2 DEF TypeOK
    <3> QED BY <1>1, <3>2, <3>3 DEF PoolAssumption
  <2>3. CASE d # c
    <3>1. Routed(d)' = Routed(d)
      BY <1>2, <2>1, <2>3 DEF Routed, TypeOK, Slots
    <3>2. count'[d] = count[d]
      BY <2>1, <2>3 DEF TypeOK
    <3> QED BY <1>1, <3>1, <3>2
  <2> QED BY <2>2, <2>3
<1> QED BY <1>3, <1>4

LEMMA StepKeepsCapacity ==
  ASSUME PoolAssumption, PoolInv, CapacityKept, [Next]_vars PROVE CapacityKept'
<1>1. ASSUME NEW f \in Callers, GiveUp(f) PROVE CapacityKept'
  BY <1>1 DEF GiveUp, CapacityKept
<1>2. ASSUME NEW f \in Callers, Cancel(f) PROVE CapacityKept'
  BY <1>2 DEF Cancel, CapacityKept
<1>3. ASSUME NEW f \in Callers, \/ SubscribeFails(f) \/ Spawn(f) \/ WaitReady(f)
                                \/ SendSubscribe(f) \/ SendUnsubscribe(f)
      PROVE  CapacityKept'
  BY <1>3 DEF SubscribeFails, Spawn, WaitReady, SendSubscribe, SendUnsubscribe, pool,
              CapacityKept, Routed
<1>4. ASSUME NEW f \in Callers, NEW t \in Streams, Subscribe(f, t) \/ Unsubscribe(f, t)
      PROVE  CapacityKept'
  BY <1>4 DEF Subscribe, Unsubscribe, pool, CapacityKept, Routed
<1>5. ASSUME NEW c \in Slots, Client(c) \/ Lose(c) PROVE CapacityKept'
  BY <1>5 DEF Client, Dial, Replay, MarkReady, Disconnected, Reconnect, Lose, pool,
              CapacityKept, Routed
<1>6. CASE UNCHANGED vars
  BY <1>6 DEF vars, CapacityKept, Routed
<1> QED BY <1>1, <1>2, <1>3, <1>4, <1>5, <1>6, RouteKeepsCapacity, UnrouteKeepsCapacity
        DEF Next, Caller

\* Without calls that give up, the bound on the clients is never met: when all
\* are full, each carries a topic, and the new one would be one more than there
\* are (getOrCreatePublicClientIdx).
LEMMA ClientIsFound ==
  ASSUME PoolAssumption, PoolInv, CapacityKept, canceled = {},
         NEW t \in Streams, routing[t] = 0
  PROVE  HasClient
<1> SUFFICES ASSUME Room = {}, Slots = Pooled PROVE FALSE
  BY DEF HasClient
<1> DEFINE Others == Streams \ {t}
<1>1. \A c \in Slots : \E u \in Others : routing[u] = c
  <2> TAKE c \in Slots
  <2>1. Cardinality(Routed(c)) >= MaxPairs /\ Cardinality(Routed(c)) \in Nat
    <3>1. count[c] = Cardinality(Routed(c)) /\ Cardinality(Routed(c)) \in Nat
      BY RoutedIsFinite DEF CapacityKept
    <3>2. ~ (count[c] < MaxPairs)
      BY DEF Room
    <3> QED BY <3>1, <3>2 DEF PoolAssumption
  <2>2. Routed(c) # {}
    BY <2>1, FS_EmptySet DEF PoolAssumption
  <2> QED BY <2>2 DEF Routed, Slots
<1>2. IsFiniteSet(Others) /\ Cardinality(Others) = Cardinality(Streams) - 1
      /\ Cardinality(Streams) \in Nat
  BY FS_RemoveElement, FS_CardinalityType DEF PoolAssumption
<1>3. IsFiniteSet(Slots) /\ Cardinality(Slots) = Cardinality(Streams)
  BY <1>2, FS_Interval DEF Slots
<1> DEFINE carried == [c \in Slots |-> CHOOSE u \in Others : routing[u] = c]
<1>4. carried \in [Slots -> Others] /\ \A c \in Slots : routing[carried[c]] = c
  BY <1>1
<1> HIDE DEF Others, carried
<1>5. Cardinality(Others) < Cardinality(Slots)
  BY <1>2, <1>3
<1>6. PICK c, d \in Slots : c # d /\ carried[c] = carried[d]
  BY <1>2, <1>3, <1>4, <1>5, FS_PigeonHole
<1> QED BY <1>4, <1>6

-----------------------------------------------------------------------------
(* The pool: what follows                                                  *)

LEMMA InitPool == ASSUME PoolAssumption, Init PROVE PoolInv /\ CapacityKept
<1>1. TypeOK
  BY InitType
<1>2. JoinedOK /\ RoutesOK /\ UnsentOK /\ StreamedOK
  BY DEF Init, Idle, JoinedOK, RoutesOK, UnsentOK, StreamedOK, Pooled, Slots
<1>3. CapacityKept
  <2>1. \A c \in Slots : Routed(c) = {} /\ count[c] = 0
    BY DEF Init, Routed, Slots
  <2> QED BY <2>1, FS_EmptySet DEF CapacityKept, PoolAssumption
<1> QED BY <1>1, <1>2, <1>3 DEF PoolInv

\* The invariant of the pool: where topics are routed, and that each of a live
\* connection is streamed or about to be asked for.
THEOREM PoolInvariant == ASSUME PoolAssumption PROVE Spec => [](PoolInv /\ CapacityKept)
<1>1. Init => PoolInv /\ CapacityKept
  BY InitPool
<1>2. (PoolInv /\ CapacityKept) /\ [Next]_vars => (PoolInv /\ CapacityKept)'
  BY StepKeepsPool, StepKeepsCapacity
<1> QED BY <1>1, <1>2, PTL DEF Spec

\* However calls overlap and fail, a client is counted with the topics routed
\* to it and never carries more than its limit (SubscribePublicWithURL,
\* UnsubscribePublicWithURL), for any number of flows, topics and losses.
THEOREM CapacityIsKept == ASSUME PoolAssumption PROVE Spec => []CapacityKept
  BY PoolInvariant, PTL

\* Whenever a client is through with its replay, the exchange streams every
\* private topic routed to it, whether it was routed before, during or after
\* the connect (replayPublicSubscriptions, SubscribePublicWithURL).
THEOREM RoutedTopicsStream == ASSUME PoolAssumption PROVE Spec => []RoutedIsStreamed
<1>1. ASSUME PoolInv PROVE RoutedIsStreamed
  <2> SUFFICES ASSUME NEW c \in wire, phase[c] = "up", NEW t \in Routed(c), Private(t), ~ Busy(t)
               PROVE  t \in server[c]
    BY DEF RoutedIsStreamed
  <2>1. c \in Slots /\ todo[c] = {}
    BY <1>1 DEF PoolInv, TypeOK, StreamedOK
  <2>2. ~ Sending(c, t)
    BY <1>1, CallsAre DEF PoolInv, Sending, Busy, Idle
  <2> QED BY <1>1, <2>1, <2>2 DEF PoolInv, StreamedOK, Connected
<1> QED BY <1>1, PoolInvariant, PTL

-----------------------------------------------------------------------------
(* The clock: what is known of the estimate and of a wait                  *)

\* What is known of the wait: it begins after a measurement, and a spin ends
\* where the estimate puts the fire time.
WaitOK ==
  /\ order # "new" => synced
  /\ order = "spinning" => until + skew >= Target - (Error + 1)

ClockInv == Clock!TypeOK /\ OffsetIsClose /\ WaitOK

-----------------------------------------------------------------------------
(* The arithmetic of one round                                             *)

\* The quotient by ten lies less than one below the number.
LEMMA Tenth ==
  ASSUME NEW n \in Int
  PROVE  /\ n \div 10 \in Int
         /\ 10 * (n \div 10) <= n
         /\ n <= 10 * (n \div 10) + 9
  BY SMT

\* What is left of a number that ten divides.
LEMMA Whole ==
  ASSUME NEW n \in Int, n % 10 = 0
  PROVE  10 * (n \div 10) = n
  BY SMT

\* int64(x) of a sum of tenths is less than one away from it, towards zero;
\* where the sum is whole, it may be one away (syncOnce).
LEMMA SmoothedIsNear ==
  ASSUME NEW old \in Int, NEW measured \in Int, NEW new \in Clock!Smoothed(old, measured)
  PROVE  LET tenfold == 7 * old + 3 * measured
         IN  /\ new \in Int
             /\ \/ tenfold - 9 <= 10 * new /\ 10 * new <= tenfold + 9
                \/ tenfold = 10 * new \/ tenfold = 10 * (new + 1) \/ tenfold = 10 * (new - 1)
<1> DEFINE tenfold == 7 * old + 3 * measured
           cut     == IF tenfold >= 0 THEN tenfold \div 10 ELSE -((-tenfold) \div 10)
<1>1. tenfold \in Int /\ -tenfold \in Int
  OBVIOUS
<1> HIDE DEF tenfold
<1>2. /\ cut \in Int
      /\ tenfold - 9 <= 10 * cut /\ 10 * cut <= tenfold + 9
  <2>1. CASE tenfold >= 0
    BY <1>1, <2>1, Tenth
  <2>2. CASE ~ (tenfold >= 0)
    <3>1. /\ (-tenfold) \div 10 \in Int
          /\ 10 * ((-tenfold) \div 10) <= -tenfold
          /\ -tenfold <= 10 * ((-tenfold) \div 10) + 9
      BY <1>1, Tenth
    <3>2. cut = -((-tenfold) \div 10)
      BY <2>2
    <3> QED BY <1>1, <3>1, <3>2
  <2> QED BY <2>1, <2>2
<1>3. CASE tenfold % 10 # 0 \/ tenfold = 0
  <2>1. new = cut
    BY <1>3 DEF Clock!Smoothed, tenfold
  <2> QED BY <1>2, <2>1 DEF tenfold
<1>4. CASE tenfold % 10 = 0 /\ tenfold # 0
  <2>1. 10 * cut = tenfold
    <3>1. CASE tenfold >= 0
      BY <1>1, <1>4, <3>1, Whole
    <3>2. CASE ~ (tenfold >= 0)
      <4>1. (-tenfold) % 10 = 0
        BY <1>1, <1>4, SMT
      <4>2. 10 * ((-tenfold) \div 10) = -tenfold
        BY <1>1, <4>1, Whole
      <4> QED BY <1>1, <1>2, <3>2, <4>2
    <3> QED BY <3>1, <3>2
  <2>2. new \in {cut, cut - 1, cut + 1}
    BY <1>4 DEF Clock!Smoothed, tenfold
  <2> QED BY <1>2, <2>1, <2>2 DEF tenfold
<1> QED BY <1>3, <1>4

\* One round keeps the estimate within the error and one millisecond.
LEMMA RoundKeepsClose ==
  ASSUME NEW s \in Int, NEW e \in Nat, NEW old \in Int, NEW measured \in Int,
         NEW new \in Clock!Smoothed(old, measured),
         Clock!Within(old - s, e + 1), Clock!Within(measured - s, e)
  PROVE  new \in Int /\ Clock!Within(new - s, e + 1)
  BY SmoothedIsNear DEF Clock!Within

-----------------------------------------------------------------------------
(* The invariant                                                           *)

LEMMA ClockInit == ASSUME Clock!TimeSyncAssumption, Clock!Init PROVE ClockInv
<1>1. Clock!TypeOK
  <2>1. clock \in 0 .. MaxClock
    BY DEF Clock!TimeSyncAssumption, Clock!Init
  <2>2. skew \in Skews /\ offset \in Int /\ until \in Int
    BY DEF Clock!Init
  <2>3. synced \in BOOLEAN /\ order \in {"new", "asleep", "spinning", "fired"}
    BY DEF Clock!Init
  <2> QED BY <2>1, <2>2, <2>3 DEF Clock!TypeOK
<1>2. ~ synced /\ order = "new"
  BY DEF Clock!Init
<1> QED BY <1>1, <1>2 DEF ClockInv, OffsetIsClose, Clock!OffsetIsClose, WaitOK

LEMMA SyncOnceKeeps == ASSUME Clock!TimeSyncAssumption, ClockInv, Clock!SyncOnce PROVE ClockInv'
<1> USE DEF Clock!TimeSyncAssumption
<1>1. offset' \in Int /\ Clock!Within(offset' - skew', Error + 1)
  <2>1. PICK measured \in Clock!Measurements :
          offset' \in IF synced THEN Clock!Smoothed(offset, measured) ELSE {measured}
    BY DEF Clock!SyncOnce
  <2>2. skew \in Int /\ skew' = skew /\ offset \in Int
    BY DEF ClockInv, Clock!TypeOK, Clock!SyncOnce
  <2>3. measured \in Int /\ Clock!Within(measured - skew, Error)
    BY <2>2 DEF Clock!Measurements, Clock!Within
  <2>4. CASE synced
    BY <2>1, <2>2, <2>3, <2>4, RoundKeepsClose DEF ClockInv, OffsetIsClose, Clock!OffsetIsClose
  <2>5. CASE ~ synced
    BY <2>1, <2>2, <2>3, <2>5 DEF Clock!Within
  <2> QED BY <2>4, <2>5
<1> QED BY <1>1 DEF ClockInv, Clock!TypeOK, OffsetIsClose, Clock!OffsetIsClose, WaitOK,
       Clock!SyncOnce

LEMMA WaitRoundKeeps ==
  ASSUME Clock!TimeSyncAssumption, ClockInv, synced, Clock!WaitRound PROVE ClockInv'
  BY DEF Clock!TimeSyncAssumption, ClockInv, Clock!TypeOK, OffsetIsClose, Clock!OffsetIsClose,
         WaitOK, Clock!WaitRound, Clock!Now, Clock!Within

LEMMA ClockStepKeeps ==
  ASSUME Clock!TimeSyncAssumption, ClockInv, [Clock!Next]_(Clock!vars) PROVE ClockInv'
<1>1. CASE Clock!SyncOnce
  BY <1>1, SyncOnceKeeps
<1>2. CASE Clock!PrecisionSleepUntil
  BY <1>2, WaitRoundKeeps DEF Clock!PrecisionSleepUntil
<1>3. CASE Clock!Wake
  BY <1>3, WaitRoundKeeps DEF Clock!Wake, ClockInv, WaitOK
<1>4. CASE Clock!SpinEnds
  BY <1>4 DEF Clock!TimeSyncAssumption, ClockInv, Clock!TypeOK, OffsetIsClose,
         Clock!OffsetIsClose, WaitOK, Clock!SpinEnds
<1>5. CASE Clock!Tick
  BY <1>5 DEF Clock!TimeSyncAssumption, ClockInv, Clock!TypeOK, OffsetIsClose,
         Clock!OffsetIsClose, WaitOK, Clock!Tick
<1>6. CASE UNCHANGED Clock!vars
  BY <1>6 DEF ClockInv, Clock!TypeOK, OffsetIsClose, Clock!OffsetIsClose, WaitOK, Clock!vars
<1> QED BY <1>1, <1>2, <1>3, <1>4, <1>5, <1>6 DEF Clock!Next

\* The estimate is close, and an order waits for an instant that was computed
\* from an estimate (syncOnce, PrecisionSleepUntil).
THEOREM ClockInvariant == ASSUME Clock!TimeSyncAssumption PROVE Clock!Spec => []ClockInv
<1>1. Clock!Init => ClockInv
  BY ClockInit
<1>2. ClockInv /\ [Clock!Next]_(Clock!vars) => ClockInv'
  BY ClockStepKeeps
<1> QED BY <1>1, <1>2, PTL DEF Clock!Spec

-----------------------------------------------------------------------------
(* What follows                                                            *)

\* However many rounds are smoothed, the estimate stays within the error of a
\* measurement and one millisecond of the exchange's clock (syncOnce).
THEOREM OffsetStaysClose == ASSUME Clock!TimeSyncAssumption PROVE Clock!Spec => []OffsetIsClose
<1>1. ClockInv => OffsetIsClose
  BY DEF ClockInv
<1> QED BY <1>1, ClockInvariant, PTL

\* An order fires no earlier than the estimate is wrong, though measurements
\* move it while the order sleeps or spins (PrecisionSleepUntil, spinWaitUntil).
THEOREM NeverEarly == ASSUME Clock!TimeSyncAssumption PROVE Clock!Spec => NotEarly
<1>1. ASSUME Clock!TimeSyncAssumption, ClockInv, [Clock!Next]_(Clock!vars)
      PROVE  [order' = "fired" /\ order # "fired"
                => clock + skew >= Target - (Error + 1)]_(Clock!vars)
  <2> SUFFICES ASSUME order' = "fired", order # "fired"
               PROVE  clock + skew >= Target - (Error + 1)
    OBVIOUS
  <2>1. /\ {clock, offset, until, Target} \subseteq Int /\ Error \in Nat
        /\ skew \in Int
    BY <1>1 DEF Clock!TimeSyncAssumption, ClockInv, Clock!TypeOK
  <2>2. CASE Clock!PrecisionSleepUntil \/ Clock!Wake
    <3>1. synced /\ Clock!WaitRound
      BY <1>1, <2>2 DEF Clock!PrecisionSleepUntil, Clock!Wake, ClockInv, WaitOK
    <3>2. Target - (clock + offset) <= 0
      BY <3>1 DEF Clock!WaitRound, Clock!Now
    <3>3. offset - skew <= Error + 1
      BY <1>1, <3>1 DEF ClockInv, OffsetIsClose, Clock!OffsetIsClose, Clock!Within
    <3> QED BY <2>1, <3>2, <3>3
  <2>3. CASE Clock!SpinEnds
    BY <1>1, <2>1, <2>3 DEF Clock!SpinEnds, ClockInv, WaitOK
  <2>4. CASE Clock!SyncOnce \/ Clock!Tick \/ UNCHANGED Clock!vars
    BY <2>4 DEF Clock!SyncOnce, Clock!Tick, Clock!vars
  <2> QED BY <1>1, <2>2, <2>3, <2>4 DEF Clock!Next
<1> QED BY <1>1, ClockInvariant, PTL DEF Clock!Spec, NotEarly, Clock!NotEarly

-----------------------------------------------------------------------------
(* The combat mode                                                         *)

\* The collector is off exactly while a window is active.
OffIsActive == percent = -1 <=> isActive

\* The end has moved to that of every window entered.
CoversEntered == \A t \in registered \ starts : ~ closed => Combat!End(t) <= activeUntil

\* Only a window that is over is left.
LeftIsOver == ~ isActive /\ ~ closed => activeUntil <= now

CombatInv == Combat!TypeOK /\ OffIsActive /\ CoversEntered /\ LeftIsOver

-----------------------------------------------------------------------------
(* The invariant                                                           *)

LEMMA PercentIsOn == ASSUME Combat!CombatModeAssumption PROVE Percent # -1
  BY DEF Combat!CombatModeAssumption

LEMMA CombatInit == ASSUME Combat!CombatModeAssumption, Combat!Init PROVE CombatInv
<1> USE DEF Combat!CombatModeAssumption, Combat!Init
<1>1. now \in 0 .. MaxNow /\ activeUntil \in Nat
  OBVIOUS
<1>2. original = Percent /\ percent \in {-1, Percent}
  OBVIOUS
<1>3. Combat!TypeOK
  BY <1>1, <1>2 DEF Combat!TypeOK
<1> QED BY <1>3 DEF CombatInv, OffIsActive, CoversEntered, LeftIsOver

\* Entering a window that a timer or a registration opens (enterLocked).
LEMMA EnterMoves ==
  ASSUME Combat!CombatModeAssumption, CombatInv, NEW t \in Times, Combat!Enter(t), now' = now
  PROVE  /\ activeUntil' \in Nat /\ activeUntil <= activeUntil' /\ Combat!End(t) <= activeUntil'
         /\ isActive' \in BOOLEAN /\ original' = Percent
         /\ percent' \in {-1, Percent} /\ (percent' = -1 <=> isActive')
         /\ exits' \subseteq Nat
         /\ ~ isActive' => activeUntil' <= now
<1> USE DEF Combat!CombatModeAssumption
<1>1. Combat!End(t) \in Nat /\ activeUntil \in Nat /\ now \in Nat
  BY DEF CombatInv, Combat!TypeOK, Combat!End
<1>2. /\ activeUntil' = Combat!Larger(activeUntil, Combat!End(t))
      /\ activeUntil' \in Nat /\ activeUntil <= activeUntil' /\ Combat!End(t) <= activeUntil'
  BY <1>1 DEF Combat!Enter, Combat!Larger
<1>3. CASE isActive
  BY <1>2, <1>3 DEF Combat!Enter, CombatInv, Combat!TypeOK, OffIsActive
<1>4. CASE ~ isActive
  <2>1. original' = Percent
    BY <1>4 DEF Combat!Enter, CombatInv, Combat!TypeOK
  <2>2. CASE now < activeUntil'
    <3>1. isActive' = TRUE /\ percent' = -1 /\ exits' = exits \cup {activeUntil'}
      BY <1>2, <1>4, <2>2 DEF Combat!Enter
    <3> QED BY <1>2, <2>1, <3>1 DEF CombatInv, Combat!TypeOK
  <2>3. CASE ~ (now < activeUntil')
    <3>1. isActive' = FALSE /\ percent' = original' /\ exits' = exits
      BY <1>2, <1>4, <2>3 DEF Combat!Enter
    <3>2. activeUntil' <= now
      BY <1>1, <1>2, <2>3
    <3>3. percent' = Percent
      BY <2>1, <3>1
    <3>4. exits' \subseteq Nat
      BY <3>1 DEF CombatInv, Combat!TypeOK
    <3> QED BY <1>2, <2>1, <3>1, <3>2, <3>3, <3>4, PercentIsOn
  <2> QED BY <2>2, <2>3
<1> QED BY <1>3, <1>4, <1>2 DEF CombatInv, Combat!TypeOK

LEMMA RegisterKeeps ==
  ASSUME Combat!CombatModeAssumption, CombatInv, NEW t \in Times,
         Combat!RegisterTargetTime(t) PROVE CombatInv'
<1>1. /\ registered' = registered \cup {t} /\ t \notin registered
      /\ now' = now /\ closed' = closed
  BY DEF Combat!RegisterTargetTime
<1>2. CASE Combat!Start(t) <= now
  <2>1. Combat!Enter(t) /\ starts' = starts
    BY <1>2 DEF Combat!RegisterTargetTime
  <2>2. Combat!TypeOK'
    BY <1>1, <2>1, EnterMoves DEF CombatInv, Combat!TypeOK
  <2>3. CoversEntered'
    <3> SUFFICES ASSUME NEW u \in registered' \ starts', ~ closed
                 PROVE  Combat!End(u) <= activeUntil'
      BY <1>1 DEF CoversEntered
    <3>1. CASE u = t
      BY <1>1, <2>1, <3>1, EnterMoves
    <3>2. CASE u # t
      <4>1. Combat!End(u) <= activeUntil
        BY <1>1, <2>1, <3>2 DEF CombatInv, CoversEntered
      <4>2. Combat!End(u) \in Nat /\ activeUntil \in Nat
        BY <1>1, <2>1, <3>2 DEF CombatInv, Combat!TypeOK, Combat!End, Combat!CombatModeAssumption
      <4> QED BY <1>1, <2>1, <4>1, <4>2, EnterMoves
    <3> QED BY <3>1, <3>2
  <2> QED BY <1>1, <2>1, <2>2, <2>3, EnterMoves DEF CombatInv, OffIsActive, LeftIsOver
<1>3. CASE ~ (Combat!Start(t) <= now)
  <2>1. /\ starts' = starts \cup {t}
        /\ UNCHANGED <<isActive, activeUntil, original, percent, exits>>
    BY <1>3 DEF Combat!RegisterTargetTime
  <2> QED BY <1>1, <2>1 DEF CombatInv, Combat!TypeOK, OffIsActive, CoversEntered, LeftIsOver
<1> QED BY <1>2, <1>3

LEMMA StartTimerKeeps ==
  ASSUME Combat!CombatModeAssumption, CombatInv, NEW t \in Times,
         Combat!StartTimer(t) PROVE CombatInv'
<1>1. /\ starts' = starts \ {t} /\ Combat!Enter(t)
      /\ now' = now /\ registered' = registered /\ closed' = closed
  BY DEF Combat!StartTimer
<1>2. Combat!TypeOK'
  BY <1>1, EnterMoves DEF CombatInv, Combat!TypeOK
<1>3. CoversEntered'
  <2> SUFFICES ASSUME NEW u \in registered \ starts', ~ closed
               PROVE  Combat!End(u) <= activeUntil'
    BY <1>1 DEF CoversEntered
  <2>1. CASE u = t
    BY <1>1, <2>1, EnterMoves
  <2>2. CASE u # t
    <3>1. Combat!End(u) <= activeUntil
      BY <1>1, <2>2 DEF CombatInv, CoversEntered
    <3>2. Combat!End(u) \in Nat /\ activeUntil \in Nat
      BY DEF CombatInv, Combat!TypeOK, Combat!End, Combat!CombatModeAssumption
    <3> QED BY <1>1, <3>1, <3>2, EnterMoves
  <2> QED BY <2>1, <2>2
<1> QED BY <1>1, <1>2, <1>3, EnterMoves DEF CombatInv, OffIsActive, LeftIsOver

LEMMA ExitTimerKeeps ==
  ASSUME Combat!CombatModeAssumption, CombatInv, NEW x \in exits,
         Combat!ExitTimer(x) PROVE CombatInv'
<1> USE DEF Combat!CombatModeAssumption
<1>1. now \in Nat /\ activeUntil \in Nat
  BY DEF CombatInv, Combat!TypeOK
<1>2. UNCHANGED <<now, registered, activeUntil, original, starts, closed>>
  BY DEF Combat!ExitTimer
<1>3. CASE isActive /\ now < activeUntil
  BY <1>2, <1>3 DEF Combat!ExitTimer, CombatInv, Combat!TypeOK, OffIsActive, CoversEntered,
         LeftIsOver
<1>4. CASE ~ (isActive /\ now < activeUntil)
  <2>1. /\ exits' = exits \ {x} /\ isActive' = FALSE
        /\ percent' = IF isActive THEN original ELSE percent
    BY <1>4 DEF Combat!ExitTimer
  <2>2. percent' = Percent
    BY <2>1 DEF CombatInv, Combat!TypeOK, OffIsActive
  <2>3. activeUntil <= now \/ closed
    BY <1>1, <1>4 DEF CombatInv, LeftIsOver
  <2>4. Combat!TypeOK'
    BY <1>2, <2>1, <2>2 DEF CombatInv, Combat!TypeOK
  <2>5. OffIsActive' /\ LeftIsOver'
    BY <1>2, <2>1, <2>2, <2>3, PercentIsOn DEF OffIsActive, LeftIsOver
  <2> QED BY <1>2, <2>4, <2>5 DEF CombatInv, CoversEntered
<1> QED BY <1>3, <1>4

LEMMA CloseKeeps == ASSUME Combat!CombatModeAssumption, CombatInv, Combat!Close PROVE CombatInv'
<1>1. percent' = Percent /\ ~ isActive' /\ closed'
  BY DEF Combat!Close, CombatInv, Combat!TypeOK, OffIsActive
<1>2. Combat!TypeOK'
  BY <1>1 DEF Combat!Close, CombatInv, Combat!TypeOK
<1>3. OffIsActive'
  BY <1>1, PercentIsOn DEF OffIsActive
<1> QED BY <1>1, <1>2, <1>3 DEF CombatInv, CoversEntered, LeftIsOver

LEMMA TickKeeps == ASSUME Combat!CombatModeAssumption, CombatInv, Combat!Tick PROVE CombatInv'
<1>1. now' \in 0 .. MaxNow /\ now <= now' /\ now \in Nat
  BY DEF Combat!Tick, CombatInv, Combat!TypeOK, Combat!CombatModeAssumption
<1>2. UNCHANGED <<registered, isActive, activeUntil, original, percent, starts, exits, closed>>
  BY DEF Combat!Tick
<1>3. Combat!TypeOK'
  BY <1>1, <1>2 DEF CombatInv, Combat!TypeOK
<1>4. LeftIsOver'
  BY <1>1, <1>2 DEF CombatInv, Combat!TypeOK, LeftIsOver
<1> QED BY <1>2, <1>3, <1>4 DEF CombatInv, OffIsActive, CoversEntered

LEMMA CombatStepKeeps ==
  ASSUME Combat!CombatModeAssumption, CombatInv, [Combat!Next]_(Combat!vars) PROVE CombatInv'
<1>1. CASE Combat!Tick
  BY <1>1, TickKeeps
<1>2. CASE Combat!Close
  BY <1>2, CloseKeeps
<1>3. ASSUME NEW t \in Times, Combat!RegisterTargetTime(t) PROVE CombatInv'
  BY <1>3, RegisterKeeps
<1>4. ASSUME NEW t \in Times, Combat!StartTimer(t) PROVE CombatInv'
  BY <1>4, StartTimerKeeps
<1>5. ASSUME NEW x \in exits, Combat!ExitTimer(x) PROVE CombatInv'
  BY <1>5, ExitTimerKeeps
<1>6. CASE UNCHANGED Combat!vars
  BY <1>6 DEF CombatInv, Combat!TypeOK, OffIsActive, CoversEntered, LeftIsOver, Combat!vars
<1> QED BY <1>1, <1>2, <1>3, <1>4, <1>5, <1>6 DEF Combat!Next

\* The mode is active, and the collector off, over every window it has entered
\* and not left, and what the collector was set to is kept (RegisterTargetTime).
THEOREM CombatInvariant == ASSUME Combat!CombatModeAssumption PROVE Combat!Spec => []CombatInv
<1>1. Combat!Init => CombatInv
  BY CombatInit
<1>2. CombatInv /\ [Combat!Next]_(Combat!vars) => CombatInv'
  BY CombatStepKeeps
<1> QED BY <1>1, <1>2, PTL DEF Combat!Spec

-----------------------------------------------------------------------------
(* What follows                                                            *)

\* However windows overlap, the collector is off in each of them to its end
\* (RegisterTargetTime, enterLocked, scheduleExitCheckLocked).
THEOREM CollectorStaysOff == ASSUME Combat!CombatModeAssumption PROVE Combat!Spec => []CollectorOff
<1>1. CombatInv => CollectorOff
  <2> SUFFICES ASSUME CombatInv, NEW t \in registered \ starts,
                      Combat!Start(t) <= now, now < Combat!End(t), ~ closed
               PROVE  percent = -1
    BY DEF CollectorOff, Combat!CollectorOff
  <2>1. Combat!End(t) <= activeUntil
    BY DEF CombatInv, CoversEntered
  <2>2. Combat!End(t) \in Nat /\ activeUntil \in Nat /\ now \in Nat
    BY DEF CombatInv, Combat!TypeOK, Combat!End, Combat!CombatModeAssumption
  <2>3. ~ (activeUntil <= now)
    BY <2>1, <2>2
  <2> QED BY <2>3 DEF CombatInv, LeftIsOver, OffIsActive
<1> QED BY <1>1, CombatInvariant, PTL

\* The collector is never left off without a window that will end: when none
\* is active it is on, as it was before the first (exitLocked, Close).
THEOREM OffOnlyInWindow == ASSUME Combat!CombatModeAssumption PROVE Combat!Spec => []OffIsActive
<1>1. CombatInv => OffIsActive
  BY DEF CombatInv
<1> QED BY <1>1, CombatInvariant, PTL

-----------------------------------------------------------------------------
(* Side by side                                                            *)

\* A behaviour of the three side by side is one of each: what is proved of a
\* part holds of the whole.
THEOREM EachIsAPart == EachSpec => Spec /\ Clock!Spec /\ Combat!Spec
<1>1. EachSpec => EachInit /\ [][EachNext]_allVars
  BY PTL DEF EachSpec
<1>2. EachInit => Init /\ Clock!Init /\ Combat!Init
  BY DEF EachInit
<1>3. [EachNext]_allVars => /\ [Next]_vars
                            /\ [Clock!Next]_(Clock!vars)
                            /\ [Combat!Next]_(Combat!vars)
  <2> SUFFICES ASSUME [EachNext]_allVars
               PROVE  [Next]_vars /\ [Clock!Next]_(Clock!vars) /\ [Combat!Next]_(Combat!vars)
    OBVIOUS
  <2> USE DEF Clock!vars, Combat!vars, clockVars, combatVars, allVars
  <2>1. CASE PoolStep(Next)
    BY <2>1 DEF PoolStep
  <2>2. CASE ClockStep(Clock!Next)
    BY <2>2 DEF ClockStep
  <2>3. CASE CombatStep(Combat!Next)
    BY <2>3 DEF CombatStep
  <2>4. CASE UNCHANGED allVars
    BY <2>4
  <2> QED BY <2>1, <2>2, <2>3, <2>4 DEF EachNext
<1> QED BY <1>1, <1>2, <1>3, PTL DEF Spec, Clock!Spec, Combat!Spec
=============================================================================
