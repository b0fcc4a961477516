------------------------------- MODULE Trade -------------------------------
(***************************************************************************)
(* The order manager next to the WebSocket that carries orders to an       *)
(* exchange.  The two share no state; a behaviour exercises one of them.   *)
(***************************************************************************)
EXTENDS OrderManager

CONSTANTS Requests, MaxConns, Closes   \* of the connection

VARIABLES
  focus,
  loop, dialed, conn, connected, authed, closing, pending, channel, taken, call,
  alive, session, logon, sent, executed, answers

Ws == INSTANCE WsTrade

ASSUME WsAssumption == Ws!TradeAssumption

socketVars == <<loop, dialed, conn, connected, authed, closing, pending, channel, taken, call,
                alive, session, logon, sent, executed, answers>>
allVars    == <<focus, vars, socketVars>>

SocketStep(A) == focus = "socket" /\ A /\ UNCHANGED <<focus, vars>>
OrderStep(A)  == focus = "order" /\ A /\ UNCHANGED <<focus, socketVars>>

EachInit == focus \in {"socket", "order"} /\ Init /\ Ws!Init
EachNext == SocketStep(Ws!Next) \/ OrderStep(Next)

\* The fairness of the WebSocket; nothing is asked of the order manager here.
EachSpec ==
  /\ EachInit /\ [][EachNext]_allVars
  /\ WF_allVars(SocketStep(Ws!Loop)) /\ WF_allVars(SocketStep(Ws!Closer))
  /\ \A r \in Requests : WF_allVars(SocketStep(Ws!Caller(r)))

-----------------------------------------------------------------------------
(* The properties of the WebSocket, see there.                             *)

ReadyIsAuthenticated == Ws!ReadyIsAuthenticated
NoSendOnClosed       == Ws!NoSendOnClosed
DropWakes            == Ws!DropWakes
=============================================================================
