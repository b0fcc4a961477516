---------------------------- MODULE TradeProofs ----------------------------
(***************************************************************************)
(* Proofs about WsTrade, for any requests and any number of connections:   *)
(* the dispatcher never sends on a closed channel and forgets no waiter,   *)
(* and the client is ready only on a connection with a session.            *)
(***************************************************************************)
EXTENDS Trade, TLAPS

InFlight == {"registered", "written", "waiting"}

\* Who knows the channel of a request: the dispatcher, while it is open; the
\* reader, once it took it out; nobody, after it was filled or closed.
ChannelsOK ==
  /\ \A r \in pending : call[r] \in InFlight /\ channel[r] = "open"
  /\ \A r \in taken : channel[r] = "open" /\ r \notin pending
  /\ \A r \in taken : call[r] \in InFlight \cup Ws!Ended
  /\ \A r, q \in taken : r = q
  /\ \A r \in Requests : call[r] \in InFlight /\ channel[r] = "open"
                           => r \in pending \cup taken

\* The session flag is set only while the connection it was set for is read or
\* torn down.
SessionOK ==
  /\ logon \subseteq session
  /\ authed => /\ dialed \in session
               /\ loop \in {"reading", "lost", "aborting", "dropped"}

WsInv == Ws!TypeOK /\ ChannelsOK /\ SessionOK

-----------------------------------------------------------------------------
(* Types                                                                   *)

LEMMA InitType == ASSUME Ws!Init PROVE Ws!TypeOK
<1>1. dialed \in 0 .. MaxConns /\ conn \in {0, dialed} /\ sent \in [Requests -> 0 .. MaxConns]
  BY WsAssumption DEF Ws!TradeAssumption, Ws!Init
<1>2. /\ loop \in {"dialing", "connected", "reading", "lost", "aborting", "dropped", "waiting",
       "stopped"}
      /\ closing \in {"no", "done", "disposed", "closed"}
      /\ connected \in BOOLEAN /\ authed \in BOOLEAN
  BY DEF Ws!Init
<1>3. /\ channel \in [Requests -> {"none", "open", "full", "shut"}]
      /\ call \in [Requests -> {"idle", "ready", "checked", "registered", "written",
             "waiting"} \cup Ws!Ended]
  BY DEF Ws!Init, Ws!Ended
<1>4. /\ pending \subseteq Requests /\ taken \subseteq Requests /\ executed \subseteq Requests
      /\ alive \subseteq Ws!Conns /\ session \subseteq Ws!Conns /\ logon \subseteq Ws!Conns
      /\ answers \subseteq Ws!Conns \X Requests
  BY DEF Ws!Init
<1> QED BY <1>1, <1>2, <1>3, <1>4 DEF Ws!TypeOK

LEMMA LoopKeepsType == ASSUME Ws!TypeOK, Ws!Loop PROVE Ws!TypeOK'
<1> USE DEF Ws!TypeOK, Ws!Conns, Ws!Ended
<1>1. CASE Ws!Dial
  BY <1>1, WsAssumption DEF Ws!TradeAssumption, Ws!Dial, Ws!dispatcher
<1>2. CASE Ws!OnConnected
  BY <1>2, WsAssumption DEF Ws!TradeAssumption, Ws!OnConnected, Ws!client, Ws!dispatcher
<1>3. CASE Ws!HandleAuth \/ Ws!ReadFails \/ Ws!Disconnect \/ Ws!OnDisconnected \/ Ws!Retry \/ Ws!DialStops
  BY <1>3 DEF Ws!HandleAuth, Ws!ReadFails, Ws!Disconnect, Ws!OnDisconnected, Ws!Retry, Ws!DialStops,
              Ws!client, Ws!dispatcher, Ws!network
<1>4. CASE Ws!AbortAll
  BY <1>4 DEF Ws!AbortAll, Ws!Shut, Ws!client, Ws!network
<1>5. ASSUME NEW r \in Requests, Ws!Take(r) PROVE Ws!TypeOK'
  BY <1>5 DEF Ws!Take, Ws!client
<1>6. ASSUME NEW r \in Requests, Ws!Hand(r) PROVE Ws!TypeOK'
  BY <1>6 DEF Ws!Hand, Ws!client, Ws!network
<1> QED BY <1>1, <1>2, <1>3, <1>4, <1>5, <1>6 DEF Ws!Loop

LEMMA CallKeepsType ==
  ASSUME Ws!TypeOK, NEW r \in Requests,
         Ws!DispatchOrder(r) \/ Ws!Caller(r) \/ Ws!ContextExpires(r) \/ Ws!Execute(r)
  PROVE  Ws!TypeOK'
<1> USE DEF Ws!TypeOK, Ws!Conns, Ws!Ended
<1>1. CASE Ws!DispatchOrder(r) \/ Ws!CheckConnected(r)
  BY <1>1 DEF Ws!DispatchOrder, Ws!CheckConnected, Ws!client, Ws!dispatcher, Ws!network
<1>2. CASE Ws!Register(r)
  BY <1>2 DEF Ws!Register, Ws!client, Ws!network
<1>3. CASE Ws!Write(r)
  BY <1>3, WsAssumption DEF Ws!TradeAssumption, Ws!Write, Ws!End, Ws!client
<1>4. CASE Ws!CheckAgain(r) \/ Ws!Receive(r) \/ Ws!ContextExpires(r)
  BY <1>4 DEF Ws!CheckAgain, Ws!Receive, Ws!ContextExpires, Ws!End, Ws!client, Ws!network
<1>5. CASE Ws!Execute(r)
  BY <1>5 DEF Ws!Execute, Ws!client, Ws!dispatcher
<1> QED BY <1>1, <1>2, <1>3, <1>4, <1>5 DEF Ws!Caller

LEMMA OthersKeepType ==
  ASSUME Ws!TypeOK,
         Ws!CloseDone \/ Ws!Closer \/ (\E g \in Ws!Conns : Ws!Break(g)) \/ UNCHANGED Ws!vars
  PROVE  Ws!TypeOK'
<1> USE DEF Ws!TypeOK, Ws!Conns, Ws!Ended
<1>1. CASE Ws!CloseDone
  BY <1>1 DEF Ws!CloseDone, Ws!client, Ws!dispatcher, Ws!network
<1>2. CASE Ws!CloseDispatcher
  BY <1>2 DEF Ws!CloseDispatcher, Ws!Shut, Ws!client, Ws!network
<1>3. CASE Ws!CloseConn
  BY <1>3 DEF Ws!CloseConn, Ws!dispatcher
<1>4. CASE \E g \in Ws!Conns : Ws!Break(g)
  BY <1>4 DEF Ws!Break, Ws!client, Ws!dispatcher
<1>5. CASE UNCHANGED Ws!vars
  BY <1>5 DEF Ws!vars
<1> QED BY <1>1, <1>2, <1>3, <1>4, <1>5 DEF Ws!Closer

LEMMA StepKeepsType == ASSUME Ws!TypeOK, [Ws!Next]_(Ws!vars) PROVE Ws!TypeOK'
  BY LoopKeepsType, CallKeepsType, OthersKeepType DEF Ws!Next

-----------------------------------------------------------------------------
(* Channels                                                                *)

LEMMA LoopKeepsChannels == ASSUME Ws!TypeOK, ChannelsOK, Ws!Loop PROVE ChannelsOK'
<1> USE DEF ChannelsOK
<1>1. CASE Ws!Dial \/ Ws!OnConnected \/ Ws!HandleAuth \/ Ws!ReadFails \/ Ws!Disconnect \/ Ws!OnDisconnected
           \/ Ws!Retry \/ Ws!DialStops
  BY <1>1 DEF Ws!Dial, Ws!OnConnected, Ws!HandleAuth, Ws!ReadFails, Ws!Disconnect,
         Ws!OnDisconnected, Ws!Retry,
              Ws!DialStops, Ws!client, Ws!dispatcher, Ws!network
<1>2. CASE Ws!AbortAll
  BY <1>2 DEF Ws!AbortAll, Ws!Shut, Ws!TypeOK, Ws!client, Ws!network
<1>3. ASSUME NEW r \in Requests, Ws!Take(r) PROVE ChannelsOK'
  BY <1>3 DEF Ws!Take, Ws!client
<1>4. ASSUME NEW r \in Requests, Ws!Hand(r) PROVE ChannelsOK'
  BY <1>4 DEF Ws!Hand, Ws!TypeOK, Ws!client, Ws!network
<1> QED BY <1>1, <1>2, <1>3, <1>4 DEF Ws!Loop

LEMMA CallKeepsChannels ==
  ASSUME Ws!TypeOK, ChannelsOK, NEW r \in Requests,
         Ws!DispatchOrder(r) \/ Ws!Caller(r) \/ Ws!ContextExpires(r) \/ Ws!Execute(r)
  PROVE  ChannelsOK'
<1> USE DEF ChannelsOK, InFlight, Ws!Ended, Ws!TypeOK
<1>1. CASE Ws!DispatchOrder(r) \/ Ws!CheckConnected(r)
  BY <1>1 DEF Ws!DispatchOrder, Ws!CheckConnected, Ws!client, Ws!dispatcher, Ws!network
<1>2. CASE Ws!Register(r)
  BY <1>2 DEF Ws!Register, Ws!client, Ws!network
<1>3. CASE Ws!Write(r)
  BY <1>3 DEF Ws!Write, Ws!End, Ws!client
<1>4. CASE Ws!CheckAgain(r) \/ Ws!Receive(r) \/ Ws!ContextExpires(r)
  BY <1>4 DEF Ws!CheckAgain, Ws!Receive, Ws!ContextExpires, Ws!End, Ws!client, Ws!network
<1>5. CASE Ws!Execute(r)
  BY <1>5 DEF Ws!Execute, Ws!client, Ws!dispatcher
<1> QED BY <1>1, <1>2, <1>3, <1>4, <1>5 DEF Ws!Caller

LEMMA OthersKeepChannels ==
  ASSUME Ws!TypeOK, ChannelsOK,
         Ws!CloseDone \/ Ws!Closer \/ (\E g \in Ws!Conns : Ws!Break(g)) \/ UNCHANGED Ws!vars
  PROVE  ChannelsOK'
<1> USE DEF ChannelsOK
<1>1. CASE Ws!CloseDone \/ Ws!CloseConn \/ \E g \in Ws!Conns : Ws!Break(g)
  BY <1>1 DEF Ws!CloseDone, Ws!CloseConn, Ws!Break, Ws!client, Ws!dispatcher, Ws!network
<1>2. CASE Ws!CloseDispatcher
  BY <1>2 DEF Ws!CloseDispatcher, Ws!Shut, Ws!TypeOK, Ws!client, Ws!network
<1>3. CASE UNCHANGED Ws!vars
  BY <1>3 DEF Ws!vars
<1> QED BY <1>1, <1>2, <1>3 DEF Ws!Closer

-----------------------------------------------------------------------------
(* The session                                                             *)

LEMMA LoopKeepsSession == ASSUME Ws!TypeOK, SessionOK, Ws!Loop PROVE SessionOK'
<1> USE DEF SessionOK
<1>1. CASE Ws!Dial \/ Ws!OnConnected \/ Ws!HandleAuth
  BY <1>1 DEF Ws!Dial, Ws!OnConnected, Ws!HandleAuth, Ws!TypeOK, Ws!client
<1>2. CASE Ws!ReadFails \/ Ws!Disconnect \/ Ws!AbortAll \/ Ws!OnDisconnected \/ Ws!Retry \/ Ws!DialStops
  BY <1>2 DEF Ws!ReadFails, Ws!Disconnect, Ws!AbortAll, Ws!OnDisconnected, Ws!Retry, Ws!DialStops,
              Ws!client, Ws!network
<1>3. CASE \E r \in Requests : Ws!Take(r) \/ Ws!Hand(r)
  BY <1>3 DEF Ws!Take, Ws!Hand, Ws!client, Ws!network
<1> QED BY <1>1, <1>2, <1>3 DEF Ws!Loop

LEMMA OthersKeepSession ==
  ASSUME SessionOK,
         \/ Ws!CloseDone \/ Ws!Closer \/ (\E g \in Ws!Conns : Ws!Break(g)) \/ UNCHANGED Ws!vars
         \/ \E r \in Requests : Ws!DispatchOrder(r) \/ Ws!Caller(r) \/ Ws!ContextExpires(r) \/ Ws!Execute(r)
  PROVE  SessionOK'
<1>1. UNCHANGED <<loop, dialed, authed, session, logon>>
  BY DEF Ws!CloseDone, Ws!Closer, Ws!CloseDispatcher, Ws!CloseConn, Ws!Break, Ws!DispatchOrder,
         Ws!Caller,
         Ws!CheckConnected, Ws!Register, Ws!Write, Ws!CheckAgain, Ws!Receive, Ws!ContextExpires,
                Ws!Execute,
         Ws!client, Ws!network, Ws!vars
<1> QED BY <1>1 DEF SessionOK

-----------------------------------------------------------------------------
(* The invariant and what follows                                          *)

\* The inductive invariant: types, channels and session.
THEOREM WsInvariant == Ws!Spec => []WsInv
<1>1. Ws!Init => WsInv
  <2> SUFFICES ASSUME Ws!Init PROVE ChannelsOK /\ SessionOK
    BY InitType DEF WsInv
  <2> QED BY DEF Ws!Init, ChannelsOK, SessionOK, InFlight
<1>2. WsInv /\ [Ws!Next]_(Ws!vars) => WsInv'
  <2> SUFFICES ASSUME WsInv, [Ws!Next]_(Ws!vars) PROVE ChannelsOK' /\ SessionOK'
    BY StepKeepsType DEF WsInv
  <2>1. ChannelsOK'
    BY LoopKeepsChannels, CallKeepsChannels, OthersKeepChannels DEF WsInv, Ws!Next
  <2>2. SessionOK'
    BY LoopKeepsSession, OthersKeepSession DEF WsInv, Ws!Next
  <2> QED BY <2>1, <2>2
<1> QED BY <1>1, <1>2, PTL DEF Ws!Spec

\* Dispatch takes the channel out of the map before it sends without the lock,
\* so AbortAll and Close never close a channel about to be sent on.
THEOREM NeverSendsOnClosed == Ws!Spec => []NoSendOnClosed
<1>1. WsInv => NoSendOnClosed
  BY DEF NoSendOnClosed, WsInv, ChannelsOK, Ws!NoSendOnClosed
<1> QED BY <1>1, WsInvariant, PTL

\* A waiter with an open channel is in the map of the dispatcher or in the
\* hands of the reader (Register, Dispatch, AbortAll).
THEOREM WaitersAreKnown == Ws!Spec => []Ws!WaiterIsKnown
<1>1. WsInv => Ws!WaiterIsKnown
  BY DEF WsInv, ChannelsOK, Ws!WaiterIsKnown, InFlight
<1> QED BY <1>1, WsInvariant, PTL

\* The cleanup of Register leaves no entry of a call that returned.
THEOREM NothingIsLeft == Ws!Spec => []Ws!NothingLeftPending
<1>1. WsInv => Ws!NothingLeftPending
  BY DEF WsInv, ChannelsOK, Ws!NothingLeftPending, InFlight, Ws!Ended
<1> QED BY <1>1, WsInvariant, PTL

\* The trade client is ready only on a connection the exchange authenticated,
\* however often the connection is lost and made anew.
THEOREM ReadyMeansSession == Ws!Spec => []ReadyIsAuthenticated
<1>1. WsInv => ReadyIsAuthenticated
  BY DEF ReadyIsAuthenticated, WsInv, Ws!TypeOK, SessionOK, Ws!ReadyIsAuthenticated, Ws!IsReady
<1> QED BY <1>1, WsInvariant, PTL

-----------------------------------------------------------------------------
(* Side by side                                                            *)

\* A behaviour of the order manager and the WebSocket side by side is one of
\* each: what is proved of either holds of the whole.
THEOREM EachIsAPart == EachSpec => Spec /\ Ws!Spec
<1>1. EachSpec => EachInit /\ [][EachNext]_allVars
  BY PTL DEF EachSpec
<1>2. EachInit => Init /\ Ws!Init
  BY DEF EachInit
<1>3. [EachNext]_allVars => [Next]_vars /\ [Ws!Next]_(Ws!vars)
  <2> SUFFICES ASSUME [EachNext]_allVars PROVE [Next]_vars /\ [Ws!Next]_(Ws!vars)
    OBVIOUS
  <2> USE DEF Ws!vars, socketVars, allVars
  <2>1. CASE SocketStep(Ws!Next)
    BY <2>1 DEF SocketStep
  <2>2. CASE OrderStep(Next)
    BY <2>2 DEF OrderStep
  <2>3. CASE UNCHANGED allVars
    BY <2>3
  <2> QED BY <2>1, <2>2, <2>3 DEF EachNext
<1> QED BY <1>1, <1>2, <1>3, PTL DEF Spec, Ws!Spec
=============================================================================
