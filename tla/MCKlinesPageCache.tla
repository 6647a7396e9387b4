-------------------------- MODULE MCKlinesPageCache --------------------------
(* Constant values for the model checking of KlinesPageCache.              *)
EXTENDS KlinesPageCache, TLC

CONSTANTS r1, r2, r3, head, older, middle, binance

ExchangeOfKey == head :> binance @@ older :> binance @@ middle :> binance

\* candle 0 ends at tick 1, tick 2 is in the middle of candle 1
EndOfKey == head :> NoEnd @@ older :> 1 @@ middle :> 2

LimitOfKey == head :> 2 @@ older :> 1 @@ middle :> 1
=============================================================================
