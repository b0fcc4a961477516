----------------------------- MODULE MCBailout -----------------------------
EXTENDS Bailout

\* One-way accounts whose closes are sent without the reduce-only flag.
Unguarded  == {"bingx", "gate", "toobit"} \X {"oneway"}
Guarded    == Accounts(AllExchanges) \ Unguarded
Binance    == {<<"binance", "oneway">>}
Aster      == {<<"aster", "hedge">>}
=============================================================================
