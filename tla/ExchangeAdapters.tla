-------------------------- MODULE ExchangeAdapters --------------------------
(***************************************************************************)
(* What each exchange adapter sends for an order and makes of the answers: *)
(* side, position mode and reduce-only flag become the fields of the       *)
(* exchange; order statuses and position rows become those of the domain.  *)
(* Symbols, prices, signatures and transport are left out.                 *)
(***************************************************************************)
EXTENDS Integers

\* Adapters that encode the one-way mode, and those that know hedge mode only.
OneWay == {"binance", "bingx", "bitget", "bybit", "gate", "kucoin", "mexc",
           "okx", "pionex", "toobit"}
HedgeOnly == {"aster", "bitmart", "bitunix", "deepcoin", "hotcoin", "orangex",
              "weex", "xt"}
AllExchanges == OneWay \cup HedgeOnly
Accounts(Exchanges) == {a \in Exchanges \X {"hedge", "oneway"} :
                          a[2] = "oneway" => a[1] \in OneWay}

Legs  == {"long", "short"}
Opens == [long |-> "openLong", short |-> "openShort"]
\* CloseSideFor
Ends  == [openLong |-> "closeLong", openShort |-> "closeShort"]
Closing(side) == side \in {"closeLong", "closeShort"}

Dir(side) == IF side \in {"openLong", "closeShort"} THEN "buy" ELSE "sell"
Leg(side) == IF side \in {"openLong", "closeLong"} THEN "long" ELSE "short"

-----------------------------------------------------------------------------
(* CreateOrder: the direction, the leg of the position ("both": the single *)
(* position of a one-way account), whether it may only reduce, and whether *)
(* it takes the whole leg whatever its size.                               *)

Raw(dir, leg, reduce) == [dir |-> dir, leg |-> leg, reduce |-> reduce, whole |-> FALSE]
OnLeg(side, reduce) == Raw(Dir(side), Leg(side), reduce)
OnNet(side, reduce) == Raw(Dir(side), "both", reduce)
ByMode(side, mode, hedgeReduce, netReduce) ==
    IF mode = "hedge" THEN OnLeg(side, hedgeReduce) ELSE OnNet(side, netReduce)

AsterOrder(side)               == OnLeg(side, FALSE)
BinanceOrder(side, mode, req)  == ByMode(side, mode, FALSE, req)
BingxOrder(side, mode)         == ByMode(side, mode, FALSE, FALSE)
BitgetOrder(side, mode, req)   == ByMode(side, mode, req, req)
BitmartOrder(side)             == OnLeg(side, FALSE)
BitunixOrder(side)             == OnLeg(side, FALSE)
BybitOrder(side, mode, req)    == ByMode(side, mode, req \/ Closing(side), req)
DeepcoinOrder(side)            == OnLeg(side, Closing(side))
GateOrder(side, mode, req) ==
    IF mode = "hedge" /\ Closing(side)
    THEN [OnLeg(side, TRUE) EXCEPT !.whole = TRUE] ELSE ByMode(side, mode, req, req)
HotcoinOrder(side)             == OnLeg(side, FALSE)
\* (fault) the reduce-only flag of a closing side is lost in one-way mode.
KucoinOrderKeepsRequest(side, mode, req) == ByMode(side, mode, req \/ Closing(side), FALSE)
KucoinOrder(side, mode, req)   == ByMode(side, mode, req \/ Closing(side), req \/ Closing(side))
MexcOrder(side, mode, req)     == ByMode(side, mode, req, req)
OkxOrder(side, mode, req)      == ByMode(side, mode, req, req)
OrangexOrder(side, req)        == OnLeg(side, req)
\* (fault) every sale in one-way mode is reduce-only.
PionexOrderSale(side, mode) == ByMode(side, mode, FALSE, Dir(side) = "sell")
PionexOrder(side, mode)        == ByMode(side, mode, FALSE, Closing(side))
ToobitOrder(side, mode)        == ByMode(side, mode, FALSE, FALSE)
WeexOrder(side)                == OnLeg(side, FALSE)
XtOrder(side, req)             == OnLeg(side, req)

CreateOrder(ex, side, mode, req) ==
    CASE ex = "aster"    -> AsterOrder(side)
      [] ex = "binance"  -> BinanceOrder(side, mode, req)
      [] ex = "bingx"    -> BingxOrder(side, mode)
      [] ex = "bitget"   -> BitgetOrder(side, mode, req)
      [] ex = "bitmart"  -> BitmartOrder(side)
      [] ex = "bitunix"  -> BitunixOrder(side)
      [] ex = "bybit"    -> BybitOrder(side, mode, req)
      [] ex = "deepcoin" -> DeepcoinOrder(side)
      [] ex = "gate"     -> GateOrder(side, mode, req)
      [] ex = "hotcoin"  -> HotcoinOrder(side)
      [] ex = "kucoin"   -> KucoinOrder(side, mode, req)
      [] ex = "mexc"     -> MexcOrder(side, mode, req)
      [] ex = "okx"      -> OkxOrder(side, mode, req)
      [] ex = "orangex"  -> OrangexOrder(side, req)
      [] ex = "pionex"   -> PionexOrder(side, mode)
      [] ex = "toobit"   -> ToobitOrder(side, mode)
      [] ex = "weex"     -> WeexOrder(side)
      [] ex = "xt"       -> XtOrder(side, req)

-----------------------------------------------------------------------------
(* ClosePosition: a market order on the closing side.  Most adapters pass  *)
(* through CreateOrder, with or without ReduceOnly.                        *)

Whole(side) == [OnLeg(side, TRUE) EXCEPT !.whole = TRUE]

AsterClose(side, mode)    == ByMode(side, mode, FALSE, TRUE)
BinanceClose(side, mode)  == BinanceOrder(side, mode, TRUE)
BingxClose(side, mode)    == BingxOrder(side, mode)
BitgetClose(side, mode)   == BitgetOrder(side, mode, TRUE)
BitmartClose(side)        == BitmartOrder(side)
BitunixClose(side)        == OnLeg(side, TRUE)
BybitClose(side, mode)    == BybitOrder(side, mode, TRUE)
DeepcoinClose(side)       == DeepcoinOrder(side)
GateClose(side, mode)     == GateOrder(side, mode, FALSE)
HotcoinClose(side)        == Whole(side)
KucoinClose(side, mode)   == KucoinOrder(side, mode, FALSE)
MexcClose(side, mode)     == MexcOrder(side, mode, TRUE)
OkxClose(side, mode)      == OkxOrder(side, mode, TRUE)
\* The instrument and the amount are sent, the exchange knows the position.
OrangexClose(side)        == Raw(Dir(side), "any", TRUE)
PionexClose(side, mode)   == PionexOrder(side, mode)
ToobitClose(side, mode)   == ToobitOrder(side, mode)
WeexClose(side)           == WeexOrder(side)
XtClose(side)             == XtOrder(side, TRUE)

ClosePosition(ex, side, mode) ==
    CASE ex = "aster"    -> AsterClose(side, mode)
      [] ex = "binance"  -> BinanceClose(side, mode)
      [] ex = "bingx"    -> BingxClose(side, mode)
      [] ex = "bitget"   -> BitgetClose(side, mode)
      [] ex = "bitmart"  -> BitmartClose(side)
      [] ex = "bitunix"  -> BitunixClose(side)
      [] ex = "bybit"    -> BybitClose(side, mode)
      [] ex = "deepcoin" -> DeepcoinClose(side)
      [] ex = "gate"     -> GateClose(side, mode)
      [] ex = "hotcoin"  -> HotcoinClose(side)
      [] ex = "kucoin"   -> KucoinClose(side, mode)
      [] ex = "mexc"     -> MexcClose(side, mode)
      [] ex = "okx"      -> OkxClose(side, mode)
      [] ex = "orangex"  -> OrangexClose(side)
      [] ex = "pionex"   -> PionexClose(side, mode)
      [] ex = "toobit"   -> ToobitClose(side, mode)
      [] ex = "weex"     -> WeexClose(side)
      [] ex = "xt"       -> XtClose(side)

-----------------------------------------------------------------------------
(* The take profit and the stop loss.  Some exchanges take their prices    *)
(* with the entry order and close its leg themselves; for the others       *)
(* PlaceTPSL sends orders of its own, by the side of the entry; Pionex and *)
(* XT know neither.                                                        *)

Attached == {"bingx", "bitget", "bitmart", "bitunix", "deepcoin", "gate", "kucoin",
             "okx", "orangex", "toobit", "weex"}
Separate == {"aster", "binance", "bybit", "hotcoin", "mexc"}

WholeNet(side) == [OnNet(side, TRUE) EXCEPT !.whole = TRUE]
WholeByMode(side, mode) == IF mode = "hedge" THEN Whole(side) ELSE WholeNet(side)

AttachedTPSL(side, mode)      == WholeByMode(Ends[side], mode)
\* It knows no opening side: whatever is not closeShort counts as long.
AsterPlaceTPSL(side)          == Whole(IF side = "closeShort" THEN "closeShort" ELSE "closeLong")
BinancePlaceTPSL(side, mode)  == WholeByMode(Ends[side], mode)
BybitPlaceTPSL(side, mode)    == WholeByMode(Ends[side], mode)
\* (fault) the orders are on the side that a long position ends with.
HotcoinPlaceTPSLLong(side)    == OnLeg("closeLong", FALSE)
HotcoinPlaceTPSL(side)        == OnLeg(Ends[side], FALSE)
MexcPlaceTPSL(side, mode)     == ByMode(Ends[side], mode, TRUE, TRUE)

PlaceTPSL(ex, side, mode) ==
    CASE ex \in Attached   -> AttachedTPSL(side, mode)
      [] ex = "aster"    -> AsterPlaceTPSL(side)
      [] ex = "binance"  -> BinancePlaceTPSL(side, mode)
      [] ex = "bybit"    -> BybitPlaceTPSL(side, mode)
      [] ex = "hotcoin"  -> HotcoinPlaceTPSL(side)
      [] ex = "mexc"     -> MexcPlaceTPSL(side, mode)

-----------------------------------------------------------------------------
(* GetOpenPositions.  A row of the exchange has the leg it names, the      *)
(* direction it shows and an amount, negative for a short position where   *)
(* the exchange signs amounts.                                             *)

Signed(mode) == {"aster", "binance", "gate", "kucoin"} \cup
                (IF mode = "oneway" THEN {"bingx", "okx", "pionex"} ELSE {})
\* The row of the lots held on leg d.
Row(ex, mode, legs, d) ==
    [leg |-> IF mode = "oneway" THEN "both" ELSE d, dir |-> d,
     amt |-> IF d = "short" /\ ex \in Signed(mode) THEN -legs[d] ELSE legs[d]]

Magnitude(n)      == IF n < 0 THEN -n ELSE n
Position(type, v) == [type |-> type, hold |-> v]
Sign(row)         == IF row.amt < 0 THEN "short" ELSE "long"
Unsigned(row)     == Position(row.dir, row.amt)
BySign(row)       == Position(Sign(row), Magnitude(row.amt))
ByLeg(row)        == Position(IF row.leg \in Legs THEN row.leg ELSE Sign(row),
                              Magnitude(row.amt))

AsterPosition(row)    == BySign(row)
BinancePosition(row)  == Position(IF row.leg = "short" THEN "short" ELSE Sign(row),
                                  Magnitude(row.amt))
BingxPosition(row)    == Position(IF row.leg = "short" \/ (row.leg = "both" /\ row.amt < 0)
                                  THEN "short" ELSE "long", Magnitude(row.amt))
BitgetPosition(row)   == Unsigned(row)
BitmartPosition(row)  == Unsigned(row)
BitunixPosition(row)  == Unsigned(row)
BybitPosition(row)    == Position(IF row.leg \in Legs THEN row.leg ELSE row.dir, row.amt)
DeepcoinPosition(row) == Unsigned(row)
GatePosition(row)     == BySign(row)
HotcoinPosition(row)  == Unsigned(row)
KucoinPosition(row)   == BySign(row)
MexcPosition(row)     == Unsigned(row)
OkxPosition(row)      == ByLeg(row)
OrangexPosition(row)  == Unsigned(row)
PionexPosition(row)   == ByLeg(row)
ToobitPosition(row)   == Unsigned(row)
WeexPosition(row)     == Unsigned(row)
XtPosition(row)       == Unsigned(row)

ReadPosition(ex, row) ==
    CASE ex = "aster"    -> AsterPosition(row)
      [] ex = "binance"  -> BinancePosition(row)
      [] ex = "bingx"    -> BingxPosition(row)
      [] ex = "bitget"   -> BitgetPosition(row)
      [] ex = "bitmart"  -> BitmartPosition(row)
      [] ex = "bitunix"  -> BitunixPosition(row)
      [] ex = "bybit"    -> BybitPosition(row)
      [] ex = "deepcoin" -> DeepcoinPosition(row)
      [] ex = "gate"     -> GatePosition(row)
      [] ex = "hotcoin"  -> HotcoinPosition(row)
      [] ex = "kucoin"   -> KucoinPosition(row)
      [] ex = "mexc"     -> MexcPosition(row)
      [] ex = "okx"      -> OkxPosition(row)
      [] ex = "orangex"  -> OrangexPosition(row)
      [] ex = "pionex"   -> PionexPosition(row)
      [] ex = "toobit"   -> ToobitPosition(row)
      [] ex = "weex"     -> WeexPosition(row)
      [] ex = "xt"       -> XtPosition(row)

GetOpenPosition(ex, mode, legs, d) == ReadPosition(ex, Row(ex, mode, legs, d))
GetOpenPositions(ex, mode, legs) ==
    {GetOpenPosition(ex, mode, legs, d) : d \in {e \in Legs : legs[e] > 0}}

-----------------------------------------------------------------------------
(* CloseAllPositions: an endpoint of the exchange, or a ClosePosition in   *)
(* hedge mode for every position read, whatever the mode of the account.   *)
(* MEXC and XT cancel the resting orders first, which is left out.         *)

Endpoint         == [legs |-> FALSE, stops |-> FALSE]
LegByLeg(stops)  == [legs |-> TRUE, stops |-> stops]

AsterCloseAll    == LegByLeg(TRUE)
BinanceCloseAll  == LegByLeg(TRUE)
BingxCloseAll    == LegByLeg(FALSE)
BitgetCloseAll   == Endpoint
BitmartCloseAll  == LegByLeg(TRUE)
BitunixCloseAll  == Endpoint
BybitCloseAll    == LegByLeg(TRUE)
DeepcoinCloseAll == Endpoint
GateCloseAll     == LegByLeg(TRUE)
HotcoinCloseAll  == Endpoint
KucoinCloseAll   == LegByLeg(FALSE)
MexcCloseAll     == LegByLeg(TRUE)
OkxCloseAll      == LegByLeg(TRUE)
OrangexCloseAll  == LegByLeg(TRUE)
PionexCloseAll   == LegByLeg(TRUE)
ToobitCloseAll   == LegByLeg(TRUE)
WeexCloseAll     == Endpoint
XtCloseAll       == LegByLeg(FALSE)

CloseAllPositions(ex) ==
    CASE ex = "aster"    -> AsterCloseAll
      [] ex = "binance"  -> BinanceCloseAll
      [] ex = "bingx"    -> BingxCloseAll
      [] ex = "bitget"   -> BitgetCloseAll
      [] ex = "bitmart"  -> BitmartCloseAll
      [] ex = "bitunix"  -> BitunixCloseAll
      [] ex = "bybit"    -> BybitCloseAll
      [] ex = "deepcoin" -> DeepcoinCloseAll
      [] ex = "gate"     -> GateCloseAll
      [] ex = "hotcoin"  -> HotcoinCloseAll
      [] ex = "kucoin"   -> KucoinCloseAll
      [] ex = "mexc"     -> MexcCloseAll
      [] ex = "okx"      -> OkxCloseAll
      [] ex = "orangex"  -> OrangexCloseAll
      [] ex = "pionex"   -> PionexCloseAll
      [] ex = "toobit"   -> ToobitCloseAll
      [] ex = "weex"     -> WeexCloseAll
      [] ex = "xt"       -> XtCloseAll

-----------------------------------------------------------------------------
(* GetOrder: the phase of an order at the exchange, as a state of the      *)
(* domain.  A "cut" order was canceled after a part of it was dealt.       *)

Phases == {"live", "dealing", "filled", "canceled", "cut"}
Views  == {"new", "part", "partial", "filled", "canceled"}
States(dealing, cut) == [live |-> "new", dealing |-> dealing, filled |-> "filled",
                         canceled |-> "canceled", cut |-> cut]

\* An IOC order ends as EXPIRED, which the switch does not know: it stays new.
AsterState    == [States("part", "new") EXCEPT !.canceled = "new"]
BinanceState  == States("part", "canceled")
BingxState    == States("part", "canceled")
BitgetState   == States("part", "canceled")
BitmartState  == States("part", "partial")
BitunixState  == States("part", "canceled")
BybitState    == States("part", "canceled")
DeepcoinState == States("new", "canceled")
\* What is left is compared with the size, both negative for a sale.
GateState(dir) == States(IF dir = "buy" THEN "part" ELSE "new", "canceled")
HotcoinState  == States("part", "canceled")
\* (fault) an order that is no longer active is a filled one.
KucoinStateInactive == States("part", "filled")
KucoinState   == States("part", "canceled")
MexcState     == States("part", "canceled")
OkxState      == States("part", "canceled")
OrangexState  == States("new", "canceled")
PionexState   == States("part", "partial")
ToobitState   == States("part", "canceled")
WeexState     == States("part", "canceled")
XtState       == States("part", "canceled")

OrderState(ex, dir) ==
    CASE ex = "aster"    -> AsterState
      [] ex = "binance"  -> BinanceState
      [] ex = "bingx"    -> BingxState
      [] ex = "bitget"   -> BitgetState
      [] ex = "bitmart"  -> BitmartState
      [] ex = "bitunix"  -> BitunixState
      [] ex = "bybit"    -> BybitState
      [] ex = "deepcoin" -> DeepcoinState
      [] ex = "gate"     -> GateState(dir)
      [] ex = "hotcoin"  -> HotcoinState
      [] ex = "kucoin"   -> KucoinState
      [] ex = "mexc"     -> MexcState
      [] ex = "okx"      -> OkxState
      [] ex = "orangex"  -> OrangexState
      [] ex = "pionex"   -> PionexState
      [] ex = "toobit"   -> ToobitState
      [] ex = "weex"     -> WeexState
      [] ex = "xt"       -> XtState
=============================================================================
