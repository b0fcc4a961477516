---------------------------- MODULE BailoutProofs ----------------------------
(***************************************************************************)
(* The safety properties of Bailout for every set of accounts over the 18  *)
(* adapters but the one-way accounts whose closes may open, every volume   *)
(* and any number of attempts and failures.                                *)
(***************************************************************************)
EXTENDS Bailout, TLAPS

\* The accounts of find_inverted are left out: their closes do not only reduce.
Guarded == Subjects \cap ({"bingx", "gate", "toobit"} \X {"oneway"}) = {}

-----------------------------------------------------------------------------
(* The inductive invariant.                                                *)

Before == {"submit", "poll", "hold", "ended"}
Open   == {"none", "live", "dealing"}

\* An order that can only take from the legs.
Shrinks(raw) ==
  \/ raw.leg = "any"
  \/ raw.leg = "both" /\ raw.reduce = TRUE
  \/ raw.leg = "long" /\ raw.dir = "sell"
  \/ raw.leg = "short" /\ raw.dir = "buy"

Typed ==
  /\ account \in Subjects /\ side \in {"openLong", "openShort"}
  /\ legs \in [Legs -> Nat]
  /\ phase \in Phases \cup {"none"} /\ deal \in 0 .. Vol
  /\ exit \in {"none", "asked", "placed", "gone"}
  /\ stage \in Stages /\ outcome \in Outcomes
  /\ view \in Views \cup {"nil"}
  /\ faults \in 0 .. MaxFaults

\* The phase of the entry order tells how much of it was dealt.
PhaseOK ==
  /\ phase = "none" <=> stage = "submit"
  /\ phase \in {"none", "live", "canceled"} => deal = 0
  /\ phase = "dealing" => deal > 0 /\ deal < Vol
  /\ phase = "filled" => deal = Vol
  /\ phase = "cut" => deal > 0
  /\ stage \notin Before => phase \notin Open

\* What was read of the order stays true of it.
ViewOK ==
  /\ view = "filled" => phase = "filled"
  /\ view \in {"part", "partial"} => deal > 0
  /\ view = "canceled" => phase \in {"canceled", "cut"}
  /\ view = "canceled" /\ ex \in TellsCut => deal = 0

\* The closes on their way, and the positions they are made for.
ClosesOK ==
  /\ \A f \in flight : f.vol \in Nat /\ Shrinks(f.raw)
  /\ stage \in Before => flight = {}
  /\ \A p \in todo : p.type \in Legs /\ p.hold \in Nat
  /\ seen \in Nat

\* The leg of the request holds what was dealt, less what was closed; a
\* one-way account holds nothing else.
LegsOK ==
  /\ legs[Own] <= deal
  /\ mode = "oneway" => legs[OtherLeg] = 0

ExitOK ==
  /\ exit = "asked" => ex \in Separate
  /\ exit = "placed" => ex \in Attached \cup Separate

IInv ==
  /\ Typed /\ PhaseOK /\ ViewOK /\ ClosesOK /\ LegsOK /\ ExitOK
  /\ OutcomeNotOverstated
  /\ stage = "done" => \A d \in Legs : legs[d] = 0

-----------------------------------------------------------------------------
(* The adapters                                                            *)

LEMMA Accounted ==
  ASSUME account \in Subjects
  PROVE  /\ ex \in AllExchanges /\ mode \in {"hedge", "oneway"}
         /\ mode = "oneway" => ex \in OneWay
  BY BailoutAssumption DEF Accounts, ex, mode

LEMMA ReadsBack ==
  ASSUME NEW e \in AllExchanges, NEW m \in {"hedge", "oneway"}, m = "oneway" => e \in OneWay,
         NEW l \in [Legs -> Nat], NEW d \in Legs, l[d] > 0
  PROVE  GetOpenPosition(e, m, l, d) = Position(d, l[d])
<1> DEFINE r == Row(e, m, l, d)
<1>0. d \in {"long", "short"} /\ l[d] \in Nat
  BY DEF Legs
<1>1. CASE e \in {"aster", "binance", "gate", "kucoin"}
  <2>1. ReadPosition(e, r) = IF e = "binance" THEN BinancePosition(r) ELSE BySign(r)
    BY <1>1 DEF ReadPosition, AsterPosition, GatePosition, KucoinPosition
  <2> QED BY <1>0, <1>1, <2>1 DEF GetOpenPosition, BinancePosition, BySign, Sign, Magnitude, Row, Signed, Position
<1>2. CASE e = "bingx"
  BY <1>0, <1>2 DEF GetOpenPosition, ReadPosition, BingxPosition, Magnitude, Row, Signed, Position
<1>3. CASE e \in {"okx", "pionex"}
  <2>1. ReadPosition(e, r) = ByLeg(r)
    BY <1>3 DEF ReadPosition, OkxPosition, PionexPosition
  <2> QED BY <1>0, <1>3, <2>1 DEF GetOpenPosition, ByLeg, Sign, Magnitude, Row, Signed, Position, Legs
<1>4. CASE e = "bybit"
  BY <1>0, <1>4 DEF GetOpenPosition, ReadPosition, BybitPosition, Row, Signed, Position, Legs
<1>5. CASE e \notin {"aster", "binance", "gate", "kucoin", "bingx", "okx", "pionex", "bybit"}
  <2>1. ReadPosition(e, r) = Unsigned(r)
    BY <1>5 DEF AllExchanges, OneWay, HedgeOnly, ReadPosition, BitgetPosition, BitmartPosition,
       BitunixPosition, DeepcoinPosition, HotcoinPosition, MexcPosition, OrangexPosition,
       ToobitPosition, WeexPosition, XtPosition
  <2> QED BY <1>0, <1>5, <2>1 DEF GetOpenPosition, Unsigned, Row, Signed, Position
<1> QED BY <1>1, <1>2, <1>3, <1>4, <1>5

\* What GetOrder makes of the phases.
LEMMA StateOfPhase ==
  ASSUME NEW e \in AllExchanges, NEW d, NEW p \in Phases
  PROVE  LET v == OrderState(e, d)[p]
         IN  /\ v \in Views
             /\ v = "filled" => p = "filled"
             /\ v \in {"part", "partial"} => p \in {"dealing", "cut"}
             /\ v = "canceled" => p \in {"canceled", "cut"}
             /\ v = "canceled" /\ e \in TellsCut => p = "canceled"
<1>1. CASE e = "aster"
  BY <1>1 DEF OrderState, AsterState, States, Phases, Views, TellsCut
<1>2. CASE e \in TellsCut
  <2>1. OrderState(e, d) = States("part", "partial")
    BY <1>2 DEF OrderState, BitmartState, PionexState, TellsCut
  <2> QED BY <2>1 DEF States, Phases, Views
<1>3. CASE e # "aster" /\ e \notin TellsCut
  <2>1. \E x \in {"new", "part"} : OrderState(e, d) = States(x, "canceled")
    BY <1>3 DEF AllExchanges, OneWay, HedgeOnly, OrderState, BinanceState, BingxState,
       BitgetState, BitunixState, BybitState, DeepcoinState, GateState, HotcoinState,
       KucoinState, MexcState, OkxState, OrangexState, ToobitState, WeexState, XtState, TellsCut
  <2> QED BY <1>3, <2>1 DEF States, Phases, Views
<1> QED BY <1>1, <1>2, <1>3

\* An entry goes to its leg, or to the single position.
LEMMA EntryShape ==
  ASSUME NEW e \in AllExchanges, NEW m \in {"hedge", "oneway"}, m = "oneway" => e \in OneWay,
         NEW s \in {"openLong", "openShort"}
  PROVE  CreateOrder(e, s, m, FALSE) = IF m = "hedge" THEN OnLeg(s, FALSE) ELSE OnNet(s, FALSE)
<1>1. Closing(s) = FALSE /\ (FALSE \/ Closing(s)) = FALSE
  BY DEF Closing
<1>2. CASE e \in {"bybit", "deepcoin", "gate", "kucoin", "pionex"}
  <2>1. BybitOrder(s, m, FALSE) = ByMode(s, m, FALSE, FALSE)
    BY <1>1, Zenon DEF BybitOrder
  <2>2. KucoinOrder(s, m, FALSE) = ByMode(s, m, FALSE, FALSE)
    BY <1>1, Zenon DEF KucoinOrder
  <2>3. DeepcoinOrder(s) = OnLeg(s, FALSE) /\ PionexOrder(s, m) = ByMode(s, m, FALSE, FALSE)
    BY <1>1, Zenon DEF DeepcoinOrder, PionexOrder
  <2>4. GateOrder(s, m, FALSE) = ByMode(s, m, FALSE, FALSE)
    BY <1>1, Zenon DEF GateOrder
  <2> QED BY <1>2, <2>1, <2>2, <2>3, <2>4 DEF CreateOrder, ByMode, OneWay
<1>3. CASE e \notin {"bybit", "deepcoin", "gate", "kucoin", "pionex"}
  BY <1>3 DEF AllExchanges, OneWay, HedgeOnly, CreateOrder, ByMode,
     AsterOrder, BinanceOrder, BingxOrder, BitgetOrder, BitmartOrder, BitunixOrder,
     HotcoinOrder, MexcOrder, OkxOrder, OrangexOrder, ToobitOrder, WeexOrder, XtOrder
<1> QED BY <1>2, <1>3

\* A close of a hedge account is on the leg of its side, but on OrangeX.
LEMMA HedgeClose ==
  ASSUME NEW e \in AllExchanges, NEW s \in {"closeLong", "closeShort"}
  PROVE  Shrinks(ClosePosition(e, s, "hedge"))
<1>1. Closing(s)
  BY DEF Closing
<1>2. CASE e = "orangex"
  BY <1>2 DEF ClosePosition, OrangexClose, Raw, Shrinks
<1>3. CASE e # "orangex"
  <2> DEFINE raw == ClosePosition(e, s, "hedge")
  <2>1. raw.dir = Dir(s) /\ raw.leg = Leg(s)
    BY <1>1, <1>3 DEF AllExchanges, OneWay, HedgeOnly, ClosePosition, ByMode, Whole, OnLeg, Raw,
     AsterClose, BinanceClose, BingxClose, BitgetClose, BitmartClose, BitunixClose, BybitClose,
     DeepcoinClose, GateClose, HotcoinClose, KucoinClose, MexcClose, OkxClose, OrangexClose,
     PionexClose, ToobitClose, WeexClose, XtClose,
     AsterOrder, BinanceOrder, BingxOrder, BitgetOrder, BitmartOrder, BitunixOrder, BybitOrder,
     DeepcoinOrder, GateOrder, HotcoinOrder, KucoinOrder, MexcOrder, OkxOrder, OrangexOrder,
     PionexOrder, ToobitOrder, WeexOrder, XtOrder
  <2> QED BY <2>1 DEF Shrinks, Dir, Leg
<1> QED BY <1>2, <1>3

\* A close of a one-way account is reduce-only, but for the unguarded ones.
LEMMA NetClose ==
  ASSUME NEW e \in OneWay \ {"bingx", "gate", "toobit"}, NEW s \in {"closeLong", "closeShort"}
  PROVE  Shrinks(ClosePosition(e, s, "oneway"))
<1>1. Closing(s)
  BY DEF Closing
<1>2. ClosePosition(e, s, "oneway") = OnNet(s, TRUE)
  BY <1>1 DEF OneWay, ClosePosition, ByMode,
     BinanceClose, BitgetClose, BybitClose, KucoinClose, MexcClose, OkxClose, PionexClose,
     BinanceOrder, BitgetOrder, BybitOrder, KucoinOrder, MexcOrder, OkxOrder, PionexOrder
<1> QED BY <1>2 DEF OnNet, Raw, Shrinks

\* The exits, but Aster's, take the leg of the side or the single position.
LEMMA ExitShape ==
  ASSUME NEW e \in Attached \cup Separate, e # "aster", NEW m \in {"hedge", "oneway"},
         m = "oneway" => e \in OneWay, NEW s \in {"openLong", "openShort"}
  PROVE  LET raw == PlaceTPSL(e, s, m)
         IN  /\ raw.dir = Dir(Ends[s])
             /\ raw.leg = IF m = "hedge" THEN Leg(s) ELSE "both"
             /\ m = "oneway" => raw.reduce = TRUE
             /\ raw.reduce \in BOOLEAN /\ raw.whole \in BOOLEAN
<1>1. Ends[s] \in {"closeLong", "closeShort"} /\ Leg(Ends[s]) = Leg(s)
  BY DEF Ends, Leg
<1> QED BY <1>1 DEF Attached, Separate, OneWay, PlaceTPSL, AttachedTPSL, BinancePlaceTPSL,
     BybitPlaceTPSL, HotcoinPlaceTPSL, MexcPlaceTPSL, WholeByMode, WholeNet, Whole, ByMode,
     OnLeg, OnNet, Raw

LEMMA ExitShrinks ==
  ASSUME NEW e \in Attached \cup Separate, NEW m \in {"hedge", "oneway"},
         m = "oneway" => e \in OneWay, NEW s \in {"openLong", "openShort"}
  PROVE  Shrinks(PlaceTPSL(e, s, m))
<1>1. CASE e = "aster"
  BY <1>1 DEF PlaceTPSL, Attached, AsterPlaceTPSL, Whole, OnLeg, Raw, Dir, Leg, Shrinks
<1>2. CASE e # "aster"
  <2> DEFINE raw == PlaceTPSL(e, s, m)
  <2>1. /\ raw.dir = Dir(Ends[s])
        /\ raw.leg = IF m = "hedge" THEN Leg(s) ELSE "both"
        /\ m = "oneway" => raw.reduce = TRUE
    BY <1>2, ExitShape
  <2>2. Dir(Ends[s]) = IF Leg(s) = "long" THEN "sell" ELSE "buy"
    BY DEF Dir, Leg, Ends
  <2>3. Leg(s) \in {"long", "short"}
    BY DEF Leg
  <2> HIDE DEF raw
  <2>4. Shrinks(raw)
    BY <2>1, <2>2, <2>3 DEF Shrinks
  <2> QED BY <2>4 DEF raw
<1> QED BY <1>1, <1>2

\* The closes of the order manager can only take.
LEMMA CloseShrinks ==
  ASSUME Guarded, account \in Subjects, NEW s \in {"closeLong", "closeShort"}
  PROVE  Shrinks(ClosePosition(ex, s, mode))
<1>1. /\ ex \in AllExchanges /\ mode \in {"hedge", "oneway"}
      /\ mode = "oneway" => ex \in OneWay
  BY Accounted
<1>2. CASE mode = "hedge"
  BY <1>1, <1>2, HedgeClose
<1>3. CASE mode = "oneway"
  <2>1. account = <<ex, mode>>
    BY BailoutAssumption DEF Accounts, ex, mode
  <2>2. ex \notin {"bingx", "gate", "toobit"}
    BY <1>3, <2>1 DEF Guarded
  <2> QED BY <1>1, <1>3, <2>2, NetClose
<1> QED BY <1>1, <1>2, <1>3

-----------------------------------------------------------------------------
(* What orders do to the legs                                              *)

LEMMA ReducedLegs ==
  ASSUME legs \in [Legs -> Nat], NEW d \in Legs, NEW v \in Nat
  PROVE  /\ Reduced(d, v) \in [Legs -> Nat]
         /\ \A c \in Legs : Reduced(d, v)[c] <= legs[c]
         /\ \A c \in Legs \ {d} : Reduced(d, v)[c] = legs[c]
         /\ v >= legs[d] => Reduced(d, v)[d] = 0
<1>1. legs[d] \in Nat
  OBVIOUS
<1>2. /\ legs[d] - Least(v, legs[d]) \in Nat
      /\ legs[d] - Least(v, legs[d]) <= legs[d]
      /\ v >= legs[d] => legs[d] - Least(v, legs[d]) = 0
  BY <1>1 DEF Least
<1>3. Reduced(d, v) = [legs EXCEPT ![d] = legs[d] - Least(v, legs[d])]
  BY DEF Reduced
<1> QED BY <1>2, <1>3

\* An order on the single position that may only reduce, and one that finds
\* nothing on the other side.
LEMMA NetReduces ==
  ASSUME legs \in [Legs -> Nat], NEW raw, raw.reduce = TRUE, NEW v \in Nat
  PROVE  AfterNet(raw, v) = Reduced(IF raw.dir = "buy" THEN "short" ELSE "long", v)
<1> DEFINE from == IF raw.dir = "buy" THEN "short" ELSE "long"
<1>1. from \in Legs
  BY DEF Legs
<1>2. Reduced(from, v) \in [Legs -> Nat]
  BY <1>1, ReducedLegs
<1> QED BY <1>2 DEF AfterNet

LEMMA NetOpens ==
  ASSUME legs \in [Legs -> Nat], NEW raw, raw.reduce = FALSE,
         legs[IF raw.dir = "buy" THEN "short" ELSE "long"] = 0
  PROVE  AfterNet(raw, 1) = [legs EXCEPT ![IF raw.dir = "buy" THEN "long" ELSE "short"] = @ + 1]
<1> DEFINE from == IF raw.dir = "buy" THEN "short" ELSE "long"
           to   == IF raw.dir = "buy" THEN "long" ELSE "short"
<1>1. Reduced(from, 1) = legs /\ Least(1, legs[from]) = 0
  BY DEF Reduced, Least
<1>2. AfterNet(raw, 1) = [Reduced(from, 1) EXCEPT ![to] = @ + (1 - Least(1, legs[from]))]
  BY DEF AfterNet
<1> QED BY <1>1, <1>2

LEMMA ShrinkingLegs ==
  ASSUME legs \in [Legs -> Nat], NEW raw, Shrinks(raw), NEW v \in Nat, NEW l \in After(raw, v)
  PROVE  /\ l \in [Legs -> Nat]
         /\ \A c \in Legs : l[c] <= legs[c]
<1>1. CASE raw.leg = "any"
  <2>1. Held \subseteq Legs /\ (l = legs \/ \E d \in Held : l = Reduced(d, v))
    BY <1>1 DEF After, Held
  <2>2. CASE l = legs
    BY <2>2
  <2>3. CASE \E d \in Held : l = Reduced(d, v)
    BY <2>1, <2>3, ReducedLegs
  <2> QED BY <2>1, <2>2, <2>3
<1>2. CASE raw.leg = "both" /\ raw.reduce = TRUE
  <2> DEFINE from == IF raw.dir = "buy" THEN "short" ELSE "long"
  <2>1. l = AfterNet(raw, v)
    BY <1>2 DEF After
  <2>2. l = Reduced(from, v) /\ from \in Legs
    BY <1>2, <2>1, NetReduces DEF Legs
  <2> QED BY <2>2, ReducedLegs
<1>3. CASE raw.leg \in {"long", "short"}
  <2>1. l = Reduced(raw.leg, IF raw.whole THEN legs[raw.leg] ELSE v)
    BY <1>3 DEF After, AfterOn, Shrinks
  <2>2. raw.leg \in Legs /\ legs[raw.leg] \in Nat
    BY <1>3 DEF Legs
  <2> QED BY <2>1, <2>2, ReducedLegs
<1> QED BY <1>1, <1>2, <1>3 DEF Shrinks

LEMMA OwnLegs ==
  ASSUME side \in {"openLong", "openShort"}
  PROVE  /\ Own \in Legs /\ OtherLeg \in Legs /\ Own # OtherLeg /\ Legs = {Own, OtherLeg}
         /\ Dir(side) = IF Own = "long" THEN "buy" ELSE "sell"
         /\ Dir(Ends[side]) = IF Own = "long" THEN "sell" ELSE "buy"
         /\ Leg(Ends[side]) = Own
         /\ Ends[side] \in {"closeLong", "closeShort"}
  BY DEF Own, OtherLeg, Legs, Leg, Dir, Ends

LEMMA EntryOpens ==
  ASSUME Typed, LegsOK, NEW l \in After(CreateOrder(ex, side, mode, FALSE), 1)
  PROVE  l = [legs EXCEPT ![Own] = @ + 1]
<1>1. /\ ex \in AllExchanges /\ mode \in {"hedge", "oneway"}
      /\ mode = "oneway" => ex \in OneWay
  BY Accounted DEF Typed
<1>2. side \in {"openLong", "openShort"} /\ legs \in [Legs -> Nat]
  BY DEF Typed
<1> DEFINE raw == CreateOrder(ex, side, mode, FALSE)
<1>3. /\ raw.dir = Dir(side) /\ raw.reduce = FALSE
      /\ raw.leg = IF mode = "hedge" THEN Own ELSE "both"
  <2>1. raw = IF mode = "hedge" THEN OnLeg(side, FALSE) ELSE OnNet(side, FALSE)
    BY <1>1, <1>2, EntryShape
  <2> HIDE DEF raw
  <2> QED BY <2>1 DEF OnLeg, OnNet, Raw, Own
<1>4. l \in After(raw, 1)
  OBVIOUS
<1> HIDE DEF raw
<1>5. CASE mode = "hedge"
  <2>1. l = AfterOn(raw, 1)
    BY <1>2, <1>3, <1>4, <1>5, OwnLegs DEF After, Legs
  <2> QED BY <1>2, <1>3, <1>5, <2>1, OwnLegs DEF AfterOn
<1>6. CASE mode = "oneway"
  <2>1. l = AfterNet(raw, 1)
    BY <1>3, <1>4, <1>6 DEF After
  <2>2. legs[OtherLeg] = 0
    BY <1>6 DEF LegsOK
  <2>3. /\ OtherLeg = IF raw.dir = "buy" THEN "short" ELSE "long"
        /\ Own = IF raw.dir = "buy" THEN "long" ELSE "short"
    BY <1>2, <1>3, OwnLegs DEF OtherLeg, Legs
  <2>4. AfterNet(raw, 1) = [legs EXCEPT ![Own] = @ + 1]
    BY <1>2, <1>3, <2>2, <2>3, NetOpens
  <2> QED BY <2>1, <2>4
<1> QED BY <1>1, <1>5, <1>6

LEMMA ExitTakes ==
  ASSUME Typed, LegsOK, ex \in Attached \cup Separate, ex # "aster",
         NEW l \in After(PlaceTPSL(ex, side, mode), Vol)
  PROVE  l = [legs EXCEPT ![Own] = 0]
<1> DEFINE raw == PlaceTPSL(ex, side, mode)
<1>0. l \in After(raw, Vol)
  OBVIOUS
<1>1. /\ ex \in AllExchanges /\ mode \in {"hedge", "oneway"}
      /\ mode = "oneway" => ex \in OneWay
  BY Accounted DEF Typed
<1>2. side \in {"openLong", "openShort"} /\ legs \in [Legs -> Nat] /\ Vol \in Nat
  BY BailoutAssumption DEF Typed
<1>3. /\ raw.dir = Dir(Ends[side])
      /\ raw.leg = IF mode = "hedge" THEN Leg(side) ELSE "both"
      /\ mode = "oneway" => raw.reduce = TRUE
  BY <1>1, <1>2, ExitShape
<1> HIDE DEF raw
<1>4. legs[Own] <= Vol /\ legs[Own] \in Nat
  BY <1>2, OwnLegs DEF LegsOK, Typed
<1>7. /\ legs[Own] - Least(Vol, legs[Own]) = 0
      /\ legs[Own] - Least(legs[Own], legs[Own]) = 0
  BY <1>2, <1>4 DEF Least
<1>5. CASE mode = "hedge"
  <2>1. l = AfterOn(raw, Vol)
    BY <1>0, <1>3, <1>5, <1>2, OwnLegs DEF After, Own, Legs
  <2>2. l = Reduced(Own, IF raw.whole THEN legs[Own] ELSE Vol)
    BY <1>2, <1>3, <1>5, <2>1, OwnLegs DEF AfterOn, Own
  <2> QED BY <1>7, <2>2 DEF Reduced
<1>6. CASE mode = "oneway"
  <2>1. l = AfterNet(raw, Vol)
    BY <1>0, <1>3, <1>6 DEF After
  <2>2. l = Reduced(Own, Vol)
    <3>1. Own = IF raw.dir = "buy" THEN "short" ELSE "long"
      BY <1>2, <1>3, OwnLegs DEF Legs
    <3>2. AfterNet(raw, Vol) = Reduced(Own, Vol)
      BY <1>2, <1>3, <1>6, <3>1, NetReduces
    <3> QED BY <2>1, <3>2
  <2> QED BY <1>7, <2>2 DEF Reduced
<1> QED BY <1>1, <1>5, <1>6

\* What is read of the legs is what they hold.
LEMMA HoldIsHeld ==
  ASSUME Typed, NEW d \in Legs
  PROVE  Hold(d) = legs[d]
<1>1. /\ ex \in AllExchanges /\ mode \in {"hedge", "oneway"}
      /\ mode = "oneway" => ex \in OneWay
  BY Accounted DEF Typed
<1>2. legs[d] \in Nat
  BY DEF Typed
<1>3. CASE d \in Held
  <2>1. GetOpenPosition(ex, mode, legs, d) = Position(d, legs[d]) /\ legs[d] > 0
    BY <1>1, <1>3, ReadsBack DEF Held, Typed
  <2> QED BY <1>2, <1>3, <2>1 DEF Hold, Position
<1>4. CASE d \notin Held
  BY <1>2, <1>4 DEF Hold, Held
<1> QED BY <1>3, <1>4

LEMMA RemainingIsHeld ==
  ASSUME Typed
  PROVE  Remaining \in Nat /\ (Remaining <= 0 => \A d \in Legs : legs[d] = 0)
<1>1. Hold("long") = legs["long"] /\ Hold("short") = legs["short"]
  BY HoldIsHeld DEF Legs
<1>2. legs["long"] \in Nat /\ legs["short"] \in Nat
  BY DEF Typed, Legs
<1> QED BY <1>1, <1>2 DEF Remaining, Legs

-----------------------------------------------------------------------------
(* The steps of the exchange                                               *)

LEMMA InitInv == Init => IInv
<1> SUFFICES ASSUME Init PROVE IInv
  OBVIOUS
<1>1. Typed
  BY BailoutAssumption DEF Init, Typed, Phases, Views, Stages, Outcomes
<1>2. LegsOK
  BY <1>1, OwnLegs DEF Init, LegsOK, Held, Typed
<1> QED BY <1>1, <1>2 DEF Init, IInv, PhaseOK, ViewOK, ClosesOK, ExitOK, OutcomeNotOverstated, Before

\* What is said of the account stays with the account.
LEMMA SameAccount ==
  ASSUME account' = account, side' = side
  PROVE  ex' = ex /\ mode' = mode /\ Own' = Own /\ OtherLeg' = OtherLeg
  BY DEF ex, mode, Own, OtherLeg

\* An order that can only take is executed.
LEMMA ShrinkStep ==
  ASSUME IInv, NEW raw, Shrinks(raw), NEW v \in Nat, legs' \in After(raw, v),
         flight' \subseteq flight, exit' \in {exit, "gone"},
         UNCHANGED <<account, side, phase, deal, stage, watcher, closing, faults>>
  PROVE  IInv' /\ \A d \in Legs : legs'[d] <= legs[d]
<1>1. legs \in [Legs -> Nat] /\ side \in {"openLong", "openShort"} /\ deal \in Nat
  BY DEF IInv, Typed
<1>2. legs' \in [Legs -> Nat] /\ \A c \in Legs : legs'[c] <= legs[c]
  BY <1>1, ShrinkingLegs
<1>3. Typed'
  BY <1>2 DEF IInv, Typed, watcher
<1>4. PhaseOK' /\ ViewOK' /\ OutcomeNotOverstated'
  BY SameAccount DEF IInv, PhaseOK, ViewOK, OutcomeNotOverstated, watcher
<1>5. ClosesOK'
  BY DEF IInv, ClosesOK, closing
<1>6. LegsOK'
  BY <1>1, <1>2, SameAccount, OwnLegs DEF IInv, LegsOK
<1>7. ExitOK'
  BY SameAccount DEF IInv, ExitOK
<1>8. (stage = "done" => \A d \in Legs : legs[d] = 0)'
  BY <1>1, <1>2 DEF IInv
<1> QED BY <1>2, <1>3, <1>4, <1>5, <1>6, <1>7, <1>8 DEF IInv

LEMMA DealStep ==
  ASSUME IInv, Deal
  PROVE  IInv' /\ legs' = [legs EXCEPT ![Own] = @ + 1]
<1>1. /\ legs \in [Legs -> Nat] /\ side \in {"openLong", "openShort"} /\ deal \in Nat
      /\ Vol \in Nat /\ deal < Vol
  BY BailoutAssumption DEF IInv, Typed, PhaseOK, Deal
<1>2. legs' = [legs EXCEPT ![Own] = @ + 1]
  BY EntryOpens DEF IInv, Deal
<1>3. phase' \in {"filled", "dealing"} /\ deal' = deal + 1
  BY DEF Deal
<1>4. Typed'
  BY <1>1, <1>2, <1>3, OwnLegs DEF IInv, Typed, Deal, watcher, Phases
<1>5. PhaseOK'
  BY <1>1 DEF IInv, PhaseOK, Deal, Open, Before
<1>6. ViewOK' /\ OutcomeNotOverstated'
  BY <1>1 DEF IInv, PhaseOK, ViewOK, OutcomeNotOverstated, Deal, watcher
<1>7. ClosesOK' /\ ExitOK'
  BY SameAccount DEF IInv, ClosesOK, ExitOK, Deal, closing
<1>8. LegsOK'
  BY <1>1, <1>2, <1>3, SameAccount, OwnLegs DEF IInv, LegsOK, Deal
<1>9. stage' # "done"
  BY DEF IInv, PhaseOK, Deal, Open, Before
<1> QED BY <1>2, <1>4, <1>5, <1>6, <1>7, <1>8, <1>9 DEF IInv

LEMMA CutStep == ASSUME IInv, Cut PROVE IInv'
<1>1. Typed' /\ PhaseOK' /\ ViewOK' /\ OutcomeNotOverstated'
  BY BailoutAssumption DEF IInv, Typed, PhaseOK, ViewOK, OutcomeNotOverstated, Cut, watcher, Open, Before, Phases
<1>2. ClosesOK' /\ ExitOK' /\ LegsOK'
  BY SameAccount DEF IInv, ClosesOK, ExitOK, LegsOK, Cut, closing
<1> QED BY <1>1, <1>2 DEF IInv, Cut

LEMMA ExecuteCloseStep ==
  ASSUME IInv, NEW f \in flight, ExecuteClose(f)
  PROVE  IInv' /\ \A d \in Legs : legs'[d] <= legs[d]
<1>1. f.vol \in Nat /\ Shrinks(f.raw)
  BY DEF IInv, ClosesOK
<1>2. /\ legs' \in After(f.raw, f.vol) /\ flight' \subseteq flight /\ exit' = exit
      /\ UNCHANGED <<account, side, phase, deal, stage, watcher, closing, faults>>
  BY DEF ExecuteClose
<1> QED BY <1>1, <1>2, ShrinkStep

LEMMA TriggeredStep ==
  ASSUME IInv, Triggered
  PROVE  /\ IInv' /\ \A d \in Legs : legs'[d] <= legs[d]
         /\ ex # "aster" => legs' = [legs EXCEPT ![Own] = 0]
<1>1. ex \in Attached \cup Separate /\ Vol \in Nat
  BY BailoutAssumption DEF IInv, ExitOK, Triggered
<1>2. Shrinks(PlaceTPSL(ex, side, mode))
  BY <1>1, Accounted, ExitShrinks DEF IInv, Typed
<1>3. /\ legs' \in After(PlaceTPSL(ex, side, mode), Vol) /\ flight' \subseteq flight
      /\ exit' = "gone"
      /\ UNCHANGED <<account, side, phase, deal, stage, watcher, closing, faults>>
  BY DEF Triggered
<1>4. IInv' /\ \A d \in Legs : legs'[d] <= legs[d]
  BY <1>1, <1>2, <1>3, ShrinkStep
<1>5. ex # "aster" => legs' = [legs EXCEPT ![Own] = 0]
  BY <1>1, <1>3, ExitTakes DEF IInv
<1> QED BY <1>4, <1>5

-----------------------------------------------------------------------------
(* The steps of the order manager                                          *)

\* Between the outcome watcher and the end: the entry order is left alone,
\* closes that can only take may be added.
LEMMA LaterStep ==
  ASSUME IInv, stage \notin Before, stage' \in Stages \ (Before \cup {"done"}),
         UNCHANGED <<account, side, legs, phase, deal, exit, watcher>>,
         faults' \in 0 .. MaxFaults,
         \A f \in flight' : f.vol \in Nat /\ Shrinks(f.raw),
         \A p \in todo' : p.type \in Legs /\ p.hold \in Nat,
         seen' \in Nat
  PROVE  IInv'
<1>1. Typed'
  BY DEF IInv, Typed, watcher
<1>2. PhaseOK' /\ ViewOK' /\ OutcomeNotOverstated'
  BY SameAccount DEF IInv, PhaseOK, ViewOK, OutcomeNotOverstated, watcher, Before
<1>3. ClosesOK' /\ LegsOK' /\ ExitOK'
  BY SameAccount DEF IInv, ClosesOK, LegsOK, ExitOK
<1> QED BY <1>1, <1>2, <1>3 DEF IInv

LEMMA Counted == ASSUME IInv, Fail \/ Work PROVE faults' \in 0 .. MaxFaults
  BY BailoutAssumption DEF IInv, Typed, Fail, Work

\* Accepted closes that can only take.
LEMMA AcceptedShrink ==
  ASSUME IInv, NEW raws, Accept(raws),
         \A r \in raws : r[2] \in Nat /\ Shrinks(r[1])
  PROVE  /\ \A f \in flight' : f.vol \in Nat /\ Shrinks(f.raw)
         /\ UNCHANGED <<legs, phase, deal, exit>>
<1> SUFFICES ASSUME NEW f \in flight' PROVE f.vol \in Nat /\ Shrinks(f.raw)
  BY DEF Accept
<1>1. CASE f \in flight
  BY <1>1 DEF IInv, ClosesOK
<1>2. CASE \E r \in raws : f = [n |-> issued + 1, raw |-> r[1], vol |-> r[2]]
  <2>1. PICK r \in raws : f = [n |-> issued + 1, raw |-> r[1], vol |-> r[2]]
    BY <1>2
  <2>2. f.raw = r[1] /\ f.vol = r[2]
    BY <2>1
  <2> QED BY <2>2
<1> QED BY <1>1, <1>2 DEF Accept

LEMMA SubmitStep == ASSUME IInv, SubmitOrder PROVE IInv'
<1>1. Typed' /\ PhaseOK' /\ ViewOK' /\ OutcomeNotOverstated'
  BY DEF IInv, Typed, PhaseOK, ViewOK, OutcomeNotOverstated, SubmitOrder, watcher, Before, Open, Phases, Stages
<1>2. ClosesOK' /\ LegsOK' /\ ExitOK'
  BY SameAccount DEF IInv, ClosesOK, LegsOK, ExitOK, SubmitOrder, closing, Before
<1> QED BY <1>1, <1>2 DEF IInv, SubmitOrder

LEMMA ContingencyStep == ASSUME IInv, TPSLContingency PROVE IInv'
<1>1. Typed' /\ PhaseOK' /\ ViewOK' /\ OutcomeNotOverstated'
  BY SameAccount, Counted DEF IInv, Typed, PhaseOK, ViewOK, OutcomeNotOverstated, TPSLContingency, watcher
<1>2. ClosesOK' /\ LegsOK' /\ ExitOK'
  BY SameAccount DEF IInv, ClosesOK, LegsOK, ExitOK, TPSLContingency, closing
<1> QED BY <1>1, <1>2 DEF IInv, TPSLContingency

LEMMA PollStep == ASSUME IInv, PollOrder PROVE IInv'
<1>1. phase \in Phases /\ ex \in AllExchanges
  BY Accounted DEF IInv, Typed, PhaseOK, PollOrder
<1>2. /\ view' \in Views \cup {"nil"}
      /\ view' = "filled" => phase = "filled"
      /\ view' \in {"part", "partial"} => deal > 0
      /\ view' = "canceled" => phase \in {"canceled", "cut"}
      /\ view' = "canceled" /\ ex \in TellsCut => deal = 0
  <2>1. CASE view' = OrderState(ex, Dir(side))[phase]
    BY <1>1, <2>1, StateOfPhase DEF IInv, PhaseOK
  <2>2. CASE view' = view
    BY <2>2 DEF IInv, ViewOK, Typed
  <2> QED BY <2>1, <2>2 DEF PollOrder
<1>3. /\ UNCHANGED <<account, side, legs, phase, deal, flight, exit, closing>>
      /\ stage = "poll" /\ stage' \in {"poll", "hold", "ended"}
      /\ outcome' \in {outcome, ClassifyOrderOutcome[view']}
      /\ faults' \in 0 .. MaxFaults
  BY Counted DEF PollOrder, exchange
<1>4. /\ outcome' \in Outcomes
      /\ OutcomeNotOverstated'
  BY SameAccount, <1>2, <1>3 DEF IInv, Typed, PhaseOK, OutcomeNotOverstated, ClassifyOrderOutcome, Outcomes, Views
<1>5. Typed' /\ PhaseOK' /\ ViewOK'
  BY SameAccount, <1>2, <1>3, <1>4 DEF IInv, Typed, PhaseOK, ViewOK, Before, Stages
<1>6. ClosesOK' /\ LegsOK' /\ ExitOK'
  BY <1>3, SameAccount DEF IInv, ClosesOK, LegsOK, ExitOK, closing, Before
<1> QED BY <1>3, <1>4, <1>5, <1>6 DEF IInv

LEMMA DeadlineStep == ASSUME IInv, WaitTimeoutDeadline PROVE IInv'
<1>1. /\ UNCHANGED <<account, side, legs, phase, deal, flight, exit, watcher, closing>>
      /\ stage = "hold" /\ stage' \in {"done", "closing", "unread"}
      /\ phase \notin {"live", "dealing"}
      /\ faults' \in 0 .. MaxFaults
  BY Counted DEF WaitTimeoutDeadline, exchange
<1>2. stage' = "done" => \A d \in Legs : legs[d] = 0
  BY RemainingIsHeld DEF IInv, WaitTimeoutDeadline
<1>3. Typed' /\ PhaseOK' /\ ViewOK' /\ OutcomeNotOverstated'
  BY SameAccount, <1>1 DEF IInv, Typed, PhaseOK, ViewOK, OutcomeNotOverstated, watcher, Before, Open, Stages
<1>4. ClosesOK' /\ LegsOK' /\ ExitOK'
  BY <1>1, SameAccount DEF IInv, ClosesOK, LegsOK, ExitOK, closing, Before
<1> QED BY <1>1, <1>2, <1>3, <1>4 DEF IInv

LEMMA CloseLegStep ==
  ASSUME IInv, NEW p \in todo, CloseLeg(p)
  PROVE  IInv' /\ UNCHANGED <<legs, deal, exit>>
<1> DEFINE raw == ClosePosition(ex, Ends[Opens[p.type]], "hedge")
<1>1. p.type \in Legs /\ p.hold \in Nat
  BY DEF IInv, ClosesOK
<1>2. Shrinks(raw)
  <2>1. Ends[Opens[p.type]] \in {"closeLong", "closeShort"}
    BY <1>1 DEF Ends, Opens, Legs
  <2> QED BY <2>1, Accounted, HedgeClose DEF IInv, Typed
<1> HIDE DEF raw
<1>3. /\ stage = "legs" /\ stage' \in {"retry", "legs"}
      /\ UNCHANGED <<account, side, watcher, seen>>
      /\ Fail \/ Work
      /\ todo' \subseteq todo
      /\ Accept({<<raw, p.hold>>}) \/ UNCHANGED exchange
  BY DEF CloseLeg, raw
<1>4. /\ \A f \in flight' : f.vol \in Nat /\ Shrinks(f.raw)
      /\ UNCHANGED <<legs, phase, deal, exit>>
  <2>1. CASE Accept({<<raw, p.hold>>})
    <3>1. \A r \in {<<raw, p.hold>>} : r[2] \in Nat /\ Shrinks(r[1])
      BY <1>1, <1>2
    <3> QED BY <2>1, <3>1, AcceptedShrink
  <2>2. CASE UNCHANGED exchange
    BY <2>2 DEF exchange, IInv, ClosesOK
  <2> QED BY <1>3, <2>1, <2>2
<1>5. (\A q \in todo' : q.type \in Legs /\ q.hold \in Nat) /\ seen' \in Nat
  BY <1>3 DEF IInv, ClosesOK
<1>6. IInv'
  BY <1>3, <1>4, <1>5, Counted, LaterStep DEF Before, Stages
<1> QED BY <1>4, <1>6

\* The steps that close nothing.
LEMMA QuietStep ==
  ASSUME IInv, CloseAllFails \/ CloseAllReads \/ CloseNoLeg
  PROVE  IInv' /\ UNCHANGED <<legs, deal, exit>>
<1>1. /\ stage \in {"closing", "legs"} /\ stage' \in {"retry", "legs"}
      /\ UNCHANGED <<account, side, exchange, watcher, seen>>
  BY DEF CloseAllFails, CloseAllReads, CloseNoLeg, closing
<1>2. faults' \in 0 .. MaxFaults
  BY Counted DEF CloseAllFails, CloseAllReads, CloseNoLeg, Work
<1>3. \A p \in todo' : p.type \in Legs /\ p.hold \in Nat
  <2>1. CASE todo' = todo
    BY <2>1 DEF IInv, ClosesOK
  <2>2. CASE todo' = GetOpenPositions(ex, mode, legs)
    <3> SUFFICES ASSUME NEW p \in todo' PROVE p.type \in Legs /\ p.hold \in Nat
      OBVIOUS
    <3>1. PICK d \in {e \in Legs : legs[e] > 0} : p = GetOpenPosition(ex, mode, legs, d)
      BY <2>2 DEF GetOpenPositions
    <3>2. p = Position(d, legs[d])
      BY <3>1, Accounted, ReadsBack DEF IInv, Typed
    <3> QED BY <3>1, <3>2 DEF Position, IInv, Typed
  <2> QED BY <2>1, <2>2 DEF CloseAllFails, CloseAllReads, CloseNoLeg, closing
<1>4. /\ UNCHANGED <<legs, phase, deal, exit>> /\ seen' \in Nat
      /\ \A f \in flight' : f.vol \in Nat /\ Shrinks(f.raw)
  BY <1>1 DEF exchange, IInv, ClosesOK
<1>5. IInv'
  BY <1>1, <1>2, <1>3, <1>4, LaterStep DEF Before, Stages
<1> QED BY <1>4, <1>5

LEMMA EndpointStep ==
  ASSUME IInv, CloseAllByEndpoint
  PROVE  IInv' /\ UNCHANGED <<legs, deal, exit>>
<1> DEFINE raws == {<<Whole(Ends[Opens[d]]), legs[d]>> : d \in Held}
<1>1. \A r \in raws : r[2] \in Nat /\ Shrinks(r[1])
  <2> SUFFICES ASSUME NEW d \in Held PROVE legs[d] \in Nat /\ Shrinks(Whole(Ends[Opens[d]]))
    OBVIOUS
  <2>1. d \in {"long", "short"} /\ legs[d] \in Nat
    BY DEF Held, Legs, IInv, Typed
  <2> QED BY <2>1 DEF Whole, OnLeg, Raw, Ends, Opens, Dir, Leg, Shrinks
<1>2. Accept(raws)
  BY DEF CloseAllByEndpoint
<1> HIDE DEF raws
<1>3. /\ \A f \in flight' : f.vol \in Nat /\ Shrinks(f.raw)
      /\ UNCHANGED <<legs, phase, deal, exit>>
  BY <1>1, <1>2, AcceptedShrink
<1>4. /\ stage = "closing" /\ stage' = "retry"
      /\ UNCHANGED <<account, side, watcher, closing>> /\ faults' \in 0 .. MaxFaults
  BY Counted DEF CloseAllByEndpoint
<1>5. (\A p \in todo' : p.type \in Legs /\ p.hold \in Nat) /\ seen' \in Nat
  BY <1>4 DEF IInv, ClosesOK, closing
<1>6. IInv'
  BY <1>3, <1>4, <1>5, LaterStep DEF Before, Stages
<1> QED BY <1>3, <1>6

LEMMA ReadStep ==
  ASSUME IInv, ReadRemaining
  PROVE  IInv' /\ UNCHANGED <<legs, deal, exit>>
<1>1. /\ UNCHANGED <<account, side, exchange, watcher, todo>>
      /\ stage = "retry" /\ faults' \in 0 .. MaxFaults
      /\ seen' \in Nat
  BY Counted, RemainingIsHeld DEF ReadRemaining, IInv, ClosesOK
<1>2. /\ UNCHANGED <<legs, phase, deal, flight, exit>>
      /\ \A f \in flight' : f.vol \in Nat /\ Shrinks(f.raw)
      /\ \A p \in todo' : p.type \in Legs /\ p.hold \in Nat
  BY <1>1 DEF exchange, IInv, ClosesOK
<1>3. CASE stage' = "done"
  <2>1. \A d \in Legs : legs[d] = 0
    BY <1>3, RemainingIsHeld DEF ReadRemaining, Again, IInv
  <2>2. Typed' /\ PhaseOK' /\ ViewOK' /\ OutcomeNotOverstated'
    BY SameAccount, <1>1, <1>2, <1>3 DEF IInv, Typed, PhaseOK, ViewOK, OutcomeNotOverstated, watcher, Before, Stages
  <2>3. ClosesOK' /\ LegsOK' /\ ExitOK'
    BY <1>1, <1>2, <1>3, SameAccount DEF IInv, ClosesOK, LegsOK, ExitOK, Before
  <2> QED BY <1>2, <2>1, <2>2, <2>3 DEF IInv
<1>4. CASE stage' # "done"
  <2>1. stage' \in {"close", "failed", "retry"}
    BY <1>4 DEF ReadRemaining, Again
  <2> QED BY <1>1, <1>2, <2>1, LaterStep DEF Before, Stages
<1> QED BY <1>2, <1>3, <1>4

LEMMA RemainderStep ==
  ASSUME Guarded, IInv, CloseRemaining
  PROVE  IInv' /\ UNCHANGED <<legs, deal, exit>>
<1> DEFINE raw == ClosePosition(ex, Ends[side], mode)
<1>1. Shrinks(raw)
  BY OwnLegs, CloseShrinks DEF IInv, Typed
<1> HIDE DEF raw
<1>2. /\ stage = "close" /\ stage' \in {"failed", "retry"}
      /\ UNCHANGED <<account, side, watcher, closing>>
      /\ Fail \/ Work
      /\ Accept({<<raw, seen>>}) \/ UNCHANGED exchange
  BY DEF CloseRemaining, Again, raw
<1>3. /\ \A f \in flight' : f.vol \in Nat /\ Shrinks(f.raw)
      /\ UNCHANGED <<legs, phase, deal, exit>>
  <2>1. CASE Accept({<<raw, seen>>})
    <3>1. \A r \in {<<raw, seen>>} : r[2] \in Nat /\ Shrinks(r[1])
      BY <1>1 DEF IInv, ClosesOK
    <3> QED BY <2>1, <3>1, AcceptedShrink
  <2>2. CASE UNCHANGED exchange
    BY <2>2 DEF exchange, IInv, ClosesOK
  <2> QED BY <1>2, <2>1, <2>2
<1>4. (\A p \in todo' : p.type \in Legs /\ p.hold \in Nat) /\ seen' \in Nat
  BY <1>2 DEF IInv, ClosesOK, closing
<1>5. IInv'
  BY <1>2, <1>3, <1>4, Counted, LaterStep DEF Before, Stages
<1> QED BY <1>3, <1>5

-----------------------------------------------------------------------------
(* The theorems                                                            *)

\* A step is a dealt lot, an executed exit, or one that only takes from the
\* legs, and keeps the invariant.
LEMMA StepInv ==
  ASSUME Guarded, IInv, [Next]_vars
  PROVE  /\ IInv'
         /\ \/ Deal /\ legs' = [legs EXCEPT ![Own] = @ + 1]
            \/ /\ deal' = deal
               /\ \A d \in Legs : legs'[d] <= legs[d]
               /\ Exits /\ ex # "aster" => legs' = [legs EXCEPT ![Own] = 0]
<1>0. \A d \in Legs : legs[d] <= legs[d]
  BY DEF IInv, Typed
<1>1. CASE Deal
  BY <1>1, DealStep
<1>2. CASE Cut
  BY <1>0, <1>2, CutStep DEF Cut, Exits
<1>3. CASE \E f \in flight : ExecuteClose(f)
  BY <1>3, ExecuteCloseStep DEF ExecuteClose, Exits
<1>4. CASE Triggered
  BY <1>4, TriggeredStep DEF Triggered
<1>5. CASE SubmitOrder
  BY <1>0, <1>5, SubmitStep DEF SubmitOrder, Exits
<1>6. CASE TPSLContingency
  BY <1>0, <1>6, ContingencyStep DEF TPSLContingency, Exits
<1>7. CASE PollOrder
  BY <1>0, <1>7, PollStep DEF PollOrder, exchange, Exits
<1>8. CASE WaitTimeoutDeadline
  BY <1>0, <1>8, DeadlineStep DEF WaitTimeoutDeadline, exchange, Exits
<1>9. CASE CloseAllFails \/ CloseAllReads \/ CloseNoLeg
  BY <1>0, <1>9, QuietStep DEF Exits
<1>10. CASE CloseAllByEndpoint
  BY <1>0, <1>10, EndpointStep DEF Exits
<1>11. CASE \E p \in todo : CloseLeg(p)
  BY <1>0, <1>11, CloseLegStep DEF Exits
<1>12. CASE ReadRemaining
  BY <1>0, <1>12, ReadStep DEF Exits
<1>13. CASE CloseRemaining
  BY <1>0, <1>13, RemainderStep DEF Exits
<1>14. CASE UNCHANGED vars
  <2>1. IInv'
    BY <1>14, SameAccount DEF vars, exchange, watcher, closing, IInv, Typed, PhaseOK, ViewOK,
       ClosesOK, LegsOK, ExitOK, OutcomeNotOverstated
  <2> QED BY <1>0, <1>14, <2>1 DEF vars, exchange, Exits
<1> QED BY <1>1, <1>2, <1>3, <1>4, <1>5, <1>6, <1>7, <1>8, <1>9, <1>10, <1>11, <1>12, <1>13,
           <1>14 DEF Next, OrderManager, Exchange

\* The inductive invariant: the phase, the closes on their way and the legs
\* fit each other, whatever the order of deals, closes and reads.
THEOREM Invariant == Guarded /\ Spec => [](Guarded /\ IInv)
<1>1. Guarded /\ Init => Guarded /\ IInv
  BY InitInv
<1>2. Guarded /\ IInv /\ [Next]_vars => (Guarded /\ IInv)'
  BY StepInv DEF Guarded
<1> QED BY <1>1, <1>2, PTL DEF Spec

\* The outcome watcher never publishes a fill that was not dealt, on any
\* exchange.  It says "no fill" only of an order that is over, and where the
\* adapter tells a cut order, only of one that was not dealt; elsewhere this is
\* false (EndedUnfilled).  (GetOrder of the adapters, classifyOrderOutcome.)
THEOREM PublishedNotOverstated == Guarded /\ Spec => []OutcomeNotOverstated
<1>1. IInv => OutcomeNotOverstated
  BY DEF IInv
<1> QED BY <1>1, Invariant, PTL

\* A deadline that found nothing and a bailout that reports success leave no
\* position (HandleWaitTimeoutDeadline, HandleExecuteBailout).
THEOREM SuccessIsFlat == Guarded /\ Spec => []BailedOutIsFlat
<1>1. IInv => BailedOutIsFlat
  BY DEF IInv, BailedOutIsFlat, Held
<1> QED BY <1>1, Invariant, PTL

\* A dealt lot goes to the leg of its side, on every exchange and in every
\* mode (CreateOrder of the adapters).
THEOREM DealtLotsOpen == Guarded /\ Spec => EntryOpensItsLeg
<1>1. Guarded /\ IInv /\ [Next]_vars
      => [deal' > deal => legs' = [legs EXCEPT ![Own] = @ + 1]]_vars
  <2> SUFFICES ASSUME Guarded, IInv, [Next]_vars, deal' > deal
               PROVE  legs' = [legs EXCEPT ![Own] = @ + 1]
    OBVIOUS
  <2>1. deal \in Nat /\ deal' # deal
    BY BailoutAssumption DEF IInv, Typed
  <2> QED BY <2>1, StepInv
<1> QED BY <1>1, Invariant, PTL DEF Spec, EntryOpensItsLeg

\* Closes and exits only take, however many of them are on their way
\* (ClosePosition, CloseAllPositions and PlaceTPSL of the adapters).
THEOREM ClosesOnlyTake == Guarded /\ Spec => ClosesNeverOpen
<1>1. Guarded /\ IInv /\ [Next]_vars
      => [deal' = deal => \A d \in Legs : legs'[d] <= legs[d]]_vars
  <2> SUFFICES ASSUME Guarded, IInv, [Next]_vars, deal' = deal
               PROVE  \A d \in Legs : legs'[d] <= legs[d]
    OBVIOUS
  <2>1. deal \in Nat
    BY BailoutAssumption DEF IInv, Typed
  <2>2. ~ Deal
    <3>1. Deal => deal' = deal + 1
      BY DEF Deal
    <3> QED BY <2>1, <3>1
  <2> QED BY <2>2, StepInv
<1> QED BY <1>1, Invariant, PTL DEF Spec, ClosesNeverOpen

\* A take profit or a stop loss takes the leg of its request and no other, on
\* every exchange but Aster (PlaceTPSL of the adapters).
THEOREM ExitsFit == Guarded /\ Spec => ExitsFitTheirLeg
<1>1. Guarded /\ IInv /\ [Next]_vars
      => [Exits /\ ex # "aster" => legs' = [legs EXCEPT ![Own] = 0]]_vars
  <2> SUFFICES ASSUME Guarded, IInv, [Next]_vars, Exits, ex # "aster"
               PROVE  legs' = [legs EXCEPT ![Own] = 0]
    OBVIOUS
  <2>1. ~ Deal
    BY DEF Deal, Exits
  <2> QED BY <2>1, StepInv
<1> QED BY <1>1, Invariant, PTL DEF Spec, ExitsFitTheirLeg
=============================================================================
