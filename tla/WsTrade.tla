------------------------------ MODULE WsTrade ------------------------------
(***************************************************************************)
(* Orders over a WebSocket: one pkg/ws.Client with its connect loop, the   *)
(* dispatcher that pairs answers with requests, and the session of         *)
(* TradeWSClient on top of it (Bybit's and Binance's are alike).           *)
(*                                                                         *)
(* A request has an id of its own (reqCounter), so a request stands for    *)
(* the call of RoundTrip that makes it.  Four kinds of goroutines meet:    *)
(* the callers, the connect loop with its reader, and one that closes.     *)
(***************************************************************************)
EXTENDS Integers, FiniteSets

CONSTANTS
  Requests,   \* order operations, one call of dispatch each
  MaxConns,   \* bound: connections that are made
  Closes      \* whether somebody closes the client

\* What the constants have to be.
TradeAssumption == MaxConns \in Nat /\ Closes \in BOOLEAN

VARIABLES
  loop,        \* where the connect loop is
  dialed,      \* connections made so far; the last one is c.conn unless closed
  conn,        \* c.conn, 0 if nil
  connected,   \* c.connected
  authed,      \* TradeWSClient.authenticated
  closing,     \* how far Close has come
  pending,     \* requests the dispatcher knows
  channel,     \* channel[r]: the channel of the request
  taken,       \* requests the reader has taken out of the dispatcher, unsent
  call,        \* call[r]: where the call is, or how it ended
  alive,       \* connections that are up
  session,     \* connections the exchange has authenticated
  logon,       \* connections with an unread acknowledgement of the logon
  sent,        \* sent[r]: the connection the request went over, 0 if none
  executed,    \* requests the exchange carried out
  answers      \* <<connection, request>>: answers on the way

vars == <<loop, dialed, conn, connected, authed, closing, pending, channel, taken,
          call, alive, session, logon, sent, executed, answers>>

client     == <<conn, connected, dialed>>
dispatcher == <<pending, channel, taken>>
network    == <<alive, session, logon, sent, executed, answers>>

Conns   == 1 .. MaxConns
Ended   == {"answered", "notReady", "failed", "expired"}

TypeOK ==
  /\ loop \in {"dialing", "connected", "reading", "lost", "aborting", "dropped", "waiting", "stopped"}
  /\ dialed \in 0 .. MaxConns /\ conn \in {0, dialed}
  /\ connected \in BOOLEAN /\ authed \in BOOLEAN
  /\ closing \in {"no", "done", "disposed", "closed"}
  /\ pending \subseteq Requests /\ taken \subseteq Requests
  /\ channel \in [Requests -> {"none", "open", "full", "shut"}]
  /\ call \in [Requests -> {"idle", "ready", "checked", "registered", "written", "waiting"} \cup Ended]
  /\ alive \subseteq Conns /\ session \subseteq Conns /\ logon \subseteq Conns
  /\ sent \in [Requests -> 0 .. MaxConns]
  /\ executed \subseteq Requests
  /\ answers \subseteq Conns \X Requests

Init ==
  /\ loop = "dialing" /\ dialed = 0 /\ conn = 0
  /\ connected = FALSE /\ authed = FALSE /\ closing = "no"
  /\ pending = {} /\ channel = [r \in Requests |-> "none"] /\ taken = {}
  /\ call = [r \in Requests |-> "idle"]
  /\ alive = {} /\ session = {} /\ logon = {}
  /\ sent = [r \in Requests |-> 0]
  /\ executed = {} /\ answers = {}

IsReady == connected /\ authed

-----------------------------------------------------------------------------
(* The connect loop                                                        *)

Dial ==
  /\ loop = "dialing" /\ dialed < MaxConns
  /\ dialed' = dialed + 1
  /\ conn' = dialed' /\ connected' = TRUE
  /\ alive' = alive \cup {dialed'}
  /\ loop' = "connected"
  /\ UNCHANGED <<authed, closing, dispatcher, call, session, logon, sent, executed, answers>>

\* The hook of TradeWSClient: the logon is sent before anything else.
OnConnected ==
  /\ loop = "connected"
  /\ authed' = FALSE
  /\ \E acknowledged \in BOOLEAN :
       /\ acknowledged => conn # 0 /\ conn \in alive
       /\ session' = IF acknowledged THEN session \cup {conn} ELSE session
       /\ logon' = IF acknowledged THEN logon \cup {conn} ELSE logon
  /\ loop' = "reading"
  /\ UNCHANGED <<client, closing, dispatcher, call, alive, sent, executed, answers>>

HandleAuth ==
  /\ loop = "reading" /\ dialed \in logon /\ taken = {}
  /\ logon' = logon \ {dialed}
  /\ authed' = TRUE
  /\ UNCHANGED <<loop, client, closing, dispatcher, call, alive, session, sent, executed, answers>>

\* (fault) the entry is deleted only after the answer was handed over
TakeKept(r) ==
  /\ loop = "reading" /\ taken = {}
  /\ <<dialed, r>> \in answers
  /\ answers' = answers \ {<<dialed, r>>}
  /\ taken' = IF r \in pending THEN {r} ELSE {}
  /\ UNCHANGED <<loop, client, authed, closing, pending, channel, call, alive, session, logon, sent, executed>>

\* Dispatch takes the channel out under the lock ...
Take(r) ==
  /\ loop = "reading" /\ taken = {}
  /\ <<dialed, r>> \in answers
  /\ answers' = answers \ {<<dialed, r>>}
  /\ taken' = IF r \in pending THEN {r} ELSE {}
  /\ pending' = pending \ {r}
  /\ UNCHANGED <<loop, client, authed, closing, channel, call, alive, session, logon, sent, executed>>

\* ... and sends without it.
Hand(r) ==
  /\ r \in taken
  /\ channel' = [channel EXCEPT ![r] = "full"]
  /\ taken' = {}
  /\ UNCHANGED <<loop, client, authed, closing, pending, call, network>>

ReadFails ==
  /\ loop = "reading" /\ taken = {}
  /\ dialed \notin alive
  /\ loop' = "lost"
  /\ UNCHANGED <<client, authed, closing, dispatcher, call, network>>

Disconnect ==
  /\ loop = "lost"
  /\ connected' = FALSE
  /\ loop' = "aborting"
  /\ UNCHANGED <<conn, dialed, authed, closing, dispatcher, call, network>>

Shut(rs) == [r \in Requests |-> IF r \in rs THEN "shut" ELSE channel[r]]

\* (fault) the entries are deleted, the channels left open
AbortAllSilently ==
  /\ loop = "aborting"
  /\ pending' = {}
  /\ loop' = "dropped"
  /\ UNCHANGED <<client, authed, closing, channel, taken, call, network>>

AbortAll ==
  /\ loop = "aborting"
  /\ channel' = Shut(pending)
  /\ pending' = {}
  /\ loop' = "dropped"
  /\ UNCHANGED <<client, authed, closing, taken, call, network>>

\* (fault) the session outlives its connection
OnDisconnectedTrusting ==
  /\ loop = "dropped"
  /\ loop' = "waiting"
  /\ UNCHANGED <<client, authed, closing, dispatcher, call, network>>

OnDisconnected ==
  /\ loop = "dropped"
  /\ authed' = FALSE
  /\ loop' = "waiting"
  /\ UNCHANGED <<client, closing, dispatcher, call, network>>

\* waitContextOrDone: two seconds, or the end of the client.
Retry ==
  /\ loop = "waiting"
  /\ loop' = IF closing = "no" THEN "dialing" ELSE "stopped"
  /\ UNCHANGED <<client, authed, closing, dispatcher, call, network>>

\* After a dial that failed.
DialStops ==
  /\ loop = "dialing" /\ closing # "no"
  /\ loop' = "stopped"
  /\ UNCHANGED <<client, authed, closing, dispatcher, call, network>>

Loop == \/ Dial \/ OnConnected \/ HandleAuth \/ ReadFails \/ Disconnect \/ AbortAll
        \/ OnDisconnected \/ Retry \/ DialStops
        \/ \E r \in Requests : Take(r) \/ Hand(r)

-----------------------------------------------------------------------------
(* dispatch and RoundTrip                                                  *)

End(r, how) == /\ call' = [call EXCEPT ![r] = how]
               /\ pending' = pending \ {r}

DispatchOrder(r) ==
  /\ call[r] = "idle"
  /\ call' = [call EXCEPT ![r] = IF IsReady THEN "ready" ELSE "notReady"]
  /\ UNCHANGED <<loop, client, authed, closing, dispatcher, network>>

CheckConnected(r) ==
  /\ call[r] = "ready"
  /\ call' = [call EXCEPT ![r] = IF connected THEN "checked" ELSE "notReady"]
  /\ UNCHANGED <<loop, client, authed, closing, dispatcher, network>>

Register(r) ==
  /\ call[r] = "checked"
  /\ IF closing \in {"disposed", "closed"}
     THEN /\ call' = [call EXCEPT ![r] = "failed"]
          /\ UNCHANGED <<pending, channel>>
     ELSE /\ call' = [call EXCEPT ![r] = "registered"]
          /\ pending' = pending \cup {r}
          /\ channel' = [channel EXCEPT ![r] = "open"]
  /\ UNCHANGED <<loop, client, authed, closing, taken, network>>

\* SendJSON: nil without a connection; a write over a dead one may fail.
Write(r) ==
  /\ call[r] = "registered"
  /\ \/ /\ conn # 0 /\ connected /\ conn \in alive
        /\ sent' = [sent EXCEPT ![r] = conn]
        /\ call' = [call EXCEPT ![r] = "written"]
        /\ UNCHANGED pending
     \/ /\ conn \notin alive \/ ~connected
        /\ call' = [call EXCEPT ![r] = "written"]
        /\ UNCHANGED <<sent, pending>>
     \/ /\ conn # 0 /\ connected /\ conn \notin alive
        /\ End(r, "failed")
        /\ UNCHANGED sent
  /\ UNCHANGED <<loop, client, authed, closing, channel, taken, alive, session, logon, executed, answers>>

CheckAgain(r) ==
  /\ call[r] = "written"
  /\ \/ /\ connected
        /\ call' = [call EXCEPT ![r] = "waiting"]
        /\ UNCHANGED pending
     \/ /\ ~connected
        /\ End(r, "notReady")
  /\ UNCHANGED <<loop, client, authed, closing, channel, taken, network>>

Receive(r) ==
  /\ call[r] = "waiting"
  /\ \/ channel[r] = "full" /\ End(r, "answered")
     \/ channel[r] = "shut" /\ End(r, "notReady")
     \/ closing # "no" /\ End(r, "notReady")
  /\ UNCHANGED <<loop, client, authed, closing, channel, taken, network>>

ContextExpires(r) ==
  /\ call[r] = "waiting"
  /\ End(r, "expired")
  /\ UNCHANGED <<loop, client, authed, closing, channel, taken, network>>

Caller(r) == \/ CheckConnected(r) \/ Register(r) \/ Write(r) \/ CheckAgain(r) \/ Receive(r)

-----------------------------------------------------------------------------
(* Close                                                                   *)

CloseDone ==
  /\ Closes /\ closing = "no"
  /\ closing' = "done"
  /\ UNCHANGED <<loop, client, authed, dispatcher, call, network>>

CloseDispatcher ==
  /\ closing = "done"
  /\ channel' = Shut(pending)
  /\ pending' = {}
  /\ closing' = "disposed"
  /\ UNCHANGED <<loop, client, authed, taken, call, network>>

CloseConn ==
  /\ closing = "disposed"
  /\ alive' = alive \ {conn}
  /\ conn' = 0 /\ connected' = (connected /\ conn = 0)
  /\ closing' = "closed"
  /\ UNCHANGED <<loop, dialed, authed, dispatcher, call, session, logon, sent, executed, answers>>

Closer == CloseDispatcher \/ CloseConn

-----------------------------------------------------------------------------
(* The exchange and the network                                            *)

Execute(r) ==
  /\ sent[r] # 0 /\ r \notin executed
  /\ executed' = executed \cup {r}
  /\ answers' = IF sent[r] \in alive THEN answers \cup {<<sent[r], r>>} ELSE answers
  /\ UNCHANGED <<loop, client, authed, closing, dispatcher, call, alive, session, logon, sent>>

Break(g) ==
  /\ g \in alive
  /\ alive' = alive \ {g}
  /\ UNCHANGED <<loop, client, authed, closing, dispatcher, call, session, logon, sent, executed, answers>>

Next ==
  \/ Loop \/ Closer \/ CloseDone
  \/ \E r \in Requests : DispatchOrder(r) \/ Caller(r) \/ ContextExpires(r) \/ Execute(r)
  \/ \E g \in Conns : Break(g)

Spec     == Init /\ [][Next]_vars
FairSpec == Spec /\ WF_vars(Loop) /\ WF_vars(Closer) /\ \A r \in Requests : WF_vars(Caller(r))

-----------------------------------------------------------------------------
(* Properties                                                              *)

\* A client reports itself ready only on a connection the exchange has
\* authenticated, across losses and reconnects (onConnected, onDisconnected).
ReadyIsAuthenticated == IsReady /\ conn # 0 => conn \in session

\* The reader never sends on a channel that AbortAll or Close has closed,
\* which would end the program: Dispatch takes it out of the map first.
NoSendOnClosed == \A r \in taken : channel[r] # "shut"

\* A call that waits on an open channel is known to the dispatcher or just
\* being answered, so that an abort cannot miss it.
WaiterIsKnown ==
  \A r \in Requests : call[r] = "waiting" /\ channel[r] = "open" => r \in pending \cup taken

\* A call that returned leaves nothing behind in the dispatcher.
NothingLeftPending == \A r \in pending : call[r] \notin Ended

\* The loss of the connection a request went over ends the call, without the
\* help of its context (RoundTrip: "or connection drops").
DropWakes ==
  \A r \in Requests :
    (call[r] = "waiting" /\ sent[r] # 0 /\ sent[r] \notin alive) ~> (call[r] # "waiting")

=============================================================================
