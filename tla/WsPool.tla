------------------------------- MODULE WsPool -------------------------------
(***************************************************************************)
(* The public side of the WebSocket layer: reference-counted streams of    *)
(* the exchange manager adapter, the pool that spreads topics over         *)
(* clients, the connect loop of every client with its replay after a       *)
(* reconnect, and the exchange at the other end.                           *)
(*                                                                         *)
(* Callers are the goroutines that subscribe and unsubscribe; each has a   *)
(* flow id of its own.  What a caller does between two points at which it  *)
(* takes a lock, waits or writes to a connection is one action.            *)
(***************************************************************************)
EXTENDS Integers, FiniteSets, FiniteSetsExt

CONSTANTS
  Callers,     \* goroutines that follow streams, one flow id each
  Streams,     \* public topics of the exchange
  Follows,     \* Follows[f]: the streams caller f is interested in
  MaxPairs,    \* topics a client may carry
  MaxCalls,    \* bound: calls of each caller
  MaxLosses,   \* bound: connections the network breaks
  Cancels      \* callers whose context may be canceled

\* What the constants have to be.
PoolAssumption ==
  /\ MaxPairs \in Nat \ {0}
  /\ MaxCalls \in Nat /\ MaxLosses \in Nat
  /\ Follows \in [Callers -> SUBSET Streams]
  /\ Cancels \subseteq Callers /\ "none" \notin Callers
  /\ IsFiniteSet(Streams) /\ IsFiniteSet(Callers)

\* Bound: the clients.  One is made only when every other one is full, so
\* there are never more than topics, unless calls that gave up left some
\* clients counted with topics they no longer carry.
Slots == 1 .. Cardinality(Streams)

VARIABLES
  subscribers,  \* subscribers[t]: the flows that joined topic t
  routing,      \* routing[t]: the client of topic t, 0 if none
  count,        \* clientSubCount
  phase,        \* where the connect loop of a client is
  todo,         \* topics its onReady hook has still to replay
  owner,        \* the caller whose context the connect loop runs under
  ready,        \* clients that were ready once
  wire,         \* clients whose connection is alive
  server,       \* server[c]: topics the exchange streams over it
  call,         \* what every caller is doing
  calls,        \* calls made
  canceled,     \* callers whose context is done
  losses        \* connections lost

vars == <<subscribers, routing, count, phase, todo, owner, ready, wire, server,
          call, calls, canceled, losses>>

manager == <<subscribers>>
pool    == <<routing, count>>
clients == <<phase, todo, owner, ready>>
network == <<wire, server, losses>>

Idle    == [op |-> "idle", topic |-> "none", slot |-> 0, fresh |-> FALSE]
Calls   == {Idle} \cup [op : {"route", "failed", "unroute"}, topic : Streams,
                         slot : Slots \cup {0}, fresh : BOOLEAN]
                  \cup [op : {"routed", "spawned", "waiting", "unsend"}, topic : Streams,
                         slot : Slots, fresh : BOOLEAN]
Call(o, t) == [op |-> o, topic |-> t, slot |-> 0, fresh |-> FALSE]

\* The call of f, on with operation o on client c.
On(f, o, c) == [op |-> o, topic |-> call[f].topic, slot |-> c, fresh |-> call[f].fresh]

TypeOK ==
  /\ subscribers \in [Streams -> SUBSET Callers]
  /\ routing \in [Streams -> Slots \cup {0}]
  /\ count \in [Slots -> Int]
  /\ phase \in [Slots -> {"none", "dialing", "replay", "up", "down", "stopped"}]
  /\ todo \in [Slots -> SUBSET Streams]
  /\ owner \in [Slots -> Callers \cup {"none"}]
  /\ ready \subseteq Slots /\ wire \subseteq Slots
  /\ server \in [Slots -> SUBSET Streams]
  /\ call \in [Callers -> Calls]
  /\ calls \in [Callers -> 0 .. MaxCalls]
  /\ canceled \subseteq Callers
  /\ losses \in 0 .. MaxLosses

Init ==
  /\ subscribers = [t \in Streams |-> {}]
  /\ routing = [t \in Streams |-> 0]
  /\ count = [c \in Slots |-> 0]
  /\ phase = [c \in Slots |-> "none"]
  /\ todo = [c \in Slots |-> {}]
  /\ owner = [c \in Slots |-> "none"]
  /\ ready = {} /\ wire = {}
  /\ server = [c \in Slots |-> {}]
  /\ call = [f \in Callers |-> Idle]
  /\ calls = [f \in Callers |-> 0]
  /\ canceled = {}
  /\ losses = 0

Routed(c) == {t \in Streams : routing[t] = c}
Pooled    == {c \in Slots : owner[c] # "none"}

\* (fault) the client counts as connected only once the replay is over
ConnectedLate(c) == phase[c] = "up"

\* dial sets the flag, before the hooks run; the end of readLoop resets it.
Connected(c) == phase[c] \in {"replay", "up"}

\* The client a new topic goes to: the first with room, or a new one.
Room      == {c \in Pooled : count[c] < MaxPairs}
Available == IF Room # {} THEN Min(Room) ELSE Min(Slots \ Pooled)
HasClient == Room # {} \/ Slots # Pooled

-----------------------------------------------------------------------------
(* SendJSON.  Without a connection it answers nil; over one that broke the *)
(* write fails or ends in the buffer of the socket.                        *)

WriteFails(c) == Connected(c) /\ c \notin wire
Reaches(c)    == Connected(c) /\ c \in wire

Streamed(c, t) == [server EXCEPT ![c] = IF Reaches(c) THEN @ \cup {t} ELSE @]
Silenced(c, t) == [server EXCEPT ![c] = IF Reaches(c) THEN @ \ {t} ELSE @]

-----------------------------------------------------------------------------
(* The exchange manager adapter                                            *)

Subscribe(f, t) ==
  /\ call[f] = Idle /\ calls[f] < MaxCalls
  /\ t \in Follows[f] /\ f \notin subscribers[t]
  /\ subscribers' = [subscribers EXCEPT ![t] = @ \cup {f}]
  /\ calls' = [calls EXCEPT ![f] = @ + 1]
  /\ call' = IF subscribers[t] # {} THEN call
             ELSE [call EXCEPT ![f] = Call("route", t)]
  /\ UNCHANGED <<pool, clients, network, canceled>>

SubscribeFails(f) ==
  /\ call[f].op = "failed"
  /\ subscribers' = [subscribers EXCEPT ![call[f].topic] = @ \ {f}]
  /\ call' = [call EXCEPT ![f] = Idle]
  /\ UNCHANGED <<pool, clients, network, calls, canceled>>

Unsubscribe(f, t) ==
  /\ call[f] = Idle /\ calls[f] < MaxCalls
  /\ f \in subscribers[t]
  /\ subscribers' = [subscribers EXCEPT ![t] = @ \ {f}]
  /\ calls' = [calls EXCEPT ![f] = @ + 1]
  /\ call' = IF subscribers[t] # {f} THEN call
             ELSE [call EXCEPT ![f] = Call("unroute", t)]
  /\ UNCHANGED <<pool, clients, network, canceled>>

-----------------------------------------------------------------------------
(* The pool                                                                *)

\* (fault) a topic is counted on a client only when the client is made
RouteUncounted(f) ==
  /\ call[f].op = "route"
  /\ LET t == call[f].topic
         fresh == routing[t] = 0
         c == IF fresh THEN Available ELSE routing[t]
         new == c \notin Pooled
     IN  /\ routing' = [routing EXCEPT ![t] = c]
         /\ count' = IF new THEN [count EXCEPT ![c] = @ + 1] ELSE count
         /\ owner' = IF new THEN [owner EXCEPT ![c] = f] ELSE owner
         /\ call' = [call EXCEPT ![f] = [op |-> IF new THEN "spawned" ELSE "routed",
                                         topic |-> t, slot |-> c, fresh |-> fresh]]
  /\ UNCHANGED <<manager, phase, todo, ready, network, calls, canceled>>

\* The locked part of SubscribePublicWithURL.
Route(f) ==
  /\ call[f].op = "route"
  /\ routing[call[f].topic] = 0 => HasClient
  /\ LET t == call[f].topic
         fresh == routing[t] = 0
         c == IF fresh THEN Available ELSE routing[t]
         new == c \notin Pooled
     IN  /\ routing' = [routing EXCEPT ![t] = c]
         /\ count' = IF fresh THEN [count EXCEPT ![c] = @ + 1] ELSE count
         /\ owner' = IF new THEN [owner EXCEPT ![c] = f] ELSE owner
         /\ call' = [call EXCEPT ![f] = [op |-> IF new THEN "spawned" ELSE "routed",
                                         topic |-> t, slot |-> c, fresh |-> fresh]]
  /\ UNCHANGED <<manager, phase, todo, ready, network, calls, canceled>>

\* The context is done: the route goes, and its count if this call made it.
GiveUp(f) ==
  /\ call[f].op \in {"routed", "spawned", "waiting"} /\ f \in canceled
  /\ count' = IF call[f].fresh THEN [count EXCEPT ![call[f].slot] = @ - 1] ELSE count
  /\ routing' = [routing EXCEPT ![call[f].topic] = 0]
  /\ call' = [call EXCEPT ![f] = On(f, "failed", call[f].slot)]
  /\ UNCHANGED <<manager, clients, network, calls, canceled>>

\* The connect loop of the new client is started under the caller's context.
Spawn(f) ==
  /\ call[f].op = "spawned" /\ f \notin canceled
  /\ phase' = [phase EXCEPT ![call[f].slot] = "dialing"]
  /\ call' = [call EXCEPT ![f] = On(f, "waiting", call[f].slot)]
  /\ UNCHANGED <<manager, pool, todo, owner, ready, network, calls, canceled>>

WaitReady(f) ==
  /\ call[f].op = "waiting" /\ call[f].slot \in ready
  /\ call' = [call EXCEPT ![f] = Idle]
  /\ UNCHANGED <<manager, pool, clients, network, calls, canceled>>

\* An existing client: without a connection the topic is left to the replay.
SendSubscribe(f) ==
  /\ call[f].op = "routed" /\ f \notin canceled
  /\ LET c == call[f].slot
     IN  \/ /\ server' = Streamed(c, call[f].topic)
            /\ call' = [call EXCEPT ![f] = Idle]
         \/ /\ WriteFails(c)
            /\ call' = [call EXCEPT ![f] = On(f, "failed", call[f].slot)]
            /\ UNCHANGED server
  /\ UNCHANGED <<manager, pool, clients, wire, losses, calls, canceled>>

\* The locked part of UnsubscribePublicWithURL.
Unroute(f) ==
  /\ call[f].op = "unroute"
  /\ LET t == call[f].topic
         c == routing[t]
     IN  IF c = 0 THEN /\ call' = [call EXCEPT ![f] = Idle]
                       /\ UNCHANGED pool
         ELSE /\ routing' = [routing EXCEPT ![t] = 0]
              /\ count' = [count EXCEPT ![c] = @ - 1]
              /\ call' = [call EXCEPT ![f] = On(f, "unsend", c)]
  /\ UNCHANGED <<manager, clients, network, calls, canceled>>

SendUnsubscribe(f) ==
  /\ call[f].op = "unsend"
  /\ server' = IF f \in canceled THEN server ELSE Silenced(call[f].slot, call[f].topic)
  /\ call' = [call EXCEPT ![f] = Idle]
  /\ UNCHANGED <<manager, pool, clients, wire, losses, calls, canceled>>

-----------------------------------------------------------------------------
(* The connect loop of a client                                            *)

\* The connection is up; the topics routed to the client now are replayed.
Dial(c) ==
  /\ phase[c] = "dialing"
  /\ phase' = [phase EXCEPT ![c] = "replay"]
  /\ todo' = [todo EXCEPT ![c] = Routed(c)]
  /\ wire' = wire \cup {c}
  /\ server' = [server EXCEPT ![c] = {}]
  /\ UNCHANGED <<manager, pool, owner, ready, losses, call, calls, canceled>>

Replay(c) ==
  /\ phase[c] = "replay"
  /\ \E t \in todo[c] : /\ todo' = [todo EXCEPT ![c] = @ \ {t}]
                        /\ server' = Streamed(c, t)
  /\ UNCHANGED <<manager, pool, phase, owner, ready, wire, losses, call, calls, canceled>>

\* (fault) a client that was ready before does not signal it again
MarkReadyUnsignaled(c) ==
  /\ phase[c] = "replay" /\ todo[c] = {}
  /\ phase' = [phase EXCEPT ![c] = "up"]
  /\ UNCHANGED <<manager, pool, todo, owner, ready, network, call, calls, canceled>>

MarkReady(c) ==
  /\ phase[c] = "replay" /\ todo[c] = {}
  /\ phase' = [phase EXCEPT ![c] = "up"]
  /\ ready' = ready \cup {c}
  /\ UNCHANGED <<manager, pool, todo, owner, network, call, calls, canceled>>

\* readLoop ends on a read error, or on a message after the context is done.
Disconnected(c) ==
  /\ phase[c] = "up" /\ (c \notin wire \/ owner[c] \in canceled)
  /\ phase' = [phase EXCEPT ![c] = "down"]
  /\ UNCHANGED <<manager, pool, todo, owner, ready, network, call, calls, canceled>>

\* (fault) the loop ends with the connection it had
ReconnectNever(c) ==
  /\ phase[c] = "down"
  /\ phase' = [phase EXCEPT ![c] = "stopped"]
  /\ UNCHANGED <<manager, pool, todo, owner, ready, network, call, calls, canceled>>

\* Two seconds later, or after a failed dial, the loop looks at its context.
Reconnect(c) ==
  /\ \/ phase[c] = "down"
     \/ phase[c] = "dialing" /\ owner[c] \in canceled
  /\ phase' = [phase EXCEPT ![c] = IF owner[c] \in canceled THEN "stopped" ELSE "dialing"]
  /\ UNCHANGED <<manager, pool, todo, owner, ready, network, call, calls, canceled>>

-----------------------------------------------------------------------------
(* The environment                                                         *)

\* A connection breaks; the client learns of it when it reads.
Lose(c) ==
  /\ c \in wire /\ losses < MaxLosses
  /\ wire' = wire \ {c}
  /\ server' = [server EXCEPT ![c] = {}]
  /\ losses' = losses + 1
  /\ UNCHANGED <<manager, pool, clients, call, calls, canceled>>

Cancel(f) ==
  /\ f \in Cancels \ canceled
  /\ canceled' = canceled \cup {f}
  /\ UNCHANGED <<manager, pool, clients, network, call, calls>>

Caller(f) == \/ SubscribeFails(f) \/ Route(f) \/ GiveUp(f) \/ Spawn(f) \/ WaitReady(f)
             \/ SendSubscribe(f) \/ Unroute(f) \/ SendUnsubscribe(f)
Client(c) == \/ Dial(c) \/ Replay(c) \/ MarkReady(c) \/ Disconnected(c) \/ Reconnect(c)

Next ==
  \/ \E f \in Callers : Caller(f) \/ Cancel(f) \/ \E t \in Streams : Subscribe(f, t) \/ Unsubscribe(f, t)
  \/ \E c \in Slots : Client(c) \/ Lose(c)

Spec     == Init /\ [][Next]_vars
FairSpec == Spec /\ (\A f \in Callers : WF_vars(Caller(f)))
                 /\ (\A c \in Slots : WF_vars(Client(c)))

-----------------------------------------------------------------------------
(* Properties                                                              *)

\* The topics that one flow only may follow: no two calls on them overlap.
Private(t) == Cardinality({f \in Callers : t \in Follows[f]}) = 1
Busy(t)    == \E f \in Callers : call[f] # Idle /\ call[f].topic = t

\* However calls overlap and fail, a client is counted with the topics routed
\* to it, and never with more than its limit.  (A caller that gives up a topic
\* another one has just unsubscribed would take it off the count again.)
CapacityKept ==
  canceled = {} =>
    \A c \in Slots : count[c] = Cardinality(Routed(c)) /\ count[c] <= MaxPairs

\* The same of every stream, shared ones included.
SharedIsRouted ==
  (\A f \in Callers : call[f] = Idle) =>
    \A t \in Streams : subscribers[t] # {} => routing[t] # 0

\* Whenever a client is through with its replay, the exchange streams every
\* topic routed to it, whenever the route was made: before, during or after
\* the connect, by a call that found the client connected or not.
RoutedIsStreamed ==
  \A c \in wire : phase[c] = "up" =>
    \A t \in Routed(c) : Private(t) /\ ~Busy(t) => t \in server[c]

\* Every call returns, whoever owns the client it waits for.
CallsReturn == \A f \in Callers : []<>(call[f] = Idle)

\* Once connections stop breaking, the streams of the flows that joined flow.
StreamsResume ==
  [](canceled = {}) =>
    <>[](\A t \in Streams : Private(t) /\ subscribers[t] # {} =>
           \E c \in wire : t \in server[c])
=============================================================================
